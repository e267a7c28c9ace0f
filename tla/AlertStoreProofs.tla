--------------------------- MODULE AlertStoreProofs ---------------------------
(***************************************************************************)
(* Theorems about AlertStore for every set of transactions, any threshold  *)
(* of compaction and any number of failures, kills, power losses and       *)
(* damage, where the operations that may fail and the damage are those the *)
(* store is made for.                                                      *)
(***************************************************************************)
EXTENDS AlertStore, FiniteSetTheorems, QueueLemmas

\* What the store is made for: an existing snapshot can be read, the sync after the
\* journal was emptied succeeds, and no length field is damaged.
Tolerated ==
    /\ FailPoints \cap {"truncate_sync", "read"} = {}
    /\ DamageKinds \subseteq {"bad", "zero"}

FileSlots == {x \in Slots : x.kind # "long"}

\* What a process reads from the journal after a snapshot.
Read(file, s) == Replay(file, Loaded(s))

TypeInv ==
    /\ log \in logs /\ logs \subseteq Seq(FileSlots)
    /\ snap \in snaps /\ snaps \subseteq Snapshots
    /\ pc \in Operations \cup {"idle", "closed"}
    /\ mem \in [st : States, txn : 0..MaxTxn, size : Nat, broken : BOOLEAN]
    /\ opening \in BOOLEAN
    /\ cur \in Transactions \cup {NoTxn}
    /\ committed \in States /\ maybe \subseteq States
    /\ left \in [Faults -> Nat] /\ \A f \in Faults : left[f] <= Budget[f]

\* A state is accounted for: committed, or written, or one of these with the mark.
Known(states, st) == \E c \in states : c.items = st.items /\ (c.corrupt => st.corrupt)
Accounted == {committed} \cup maybe
OutcomeInv == \A l \in logs : \A s \in snaps : Known(Accounted, Found(l, s).st)

\* The journal reads the same after every snapshot that may be left as after the one
\* that is there, but for a mark too many.
Alike(p, q) ==
    p.txn = q.txn /\ p.end = q.end /\ p.stop = q.stop /\ p.corrupt = q.corrupt
    /\ p.st.items = q.st.items
Agree(file, all, there) ==
    \A s \in all :
        /\ Alike(Read(file, s), Read(file, there))
        /\ Found(file, there).st.corrupt => Found(file, s).st.corrupt
AgreeInv == Agree(log, snaps, snap)

\* A damaged journal is all there is.
DamageInv == Found(log, snap).corrupt => logs = {log}

\* A journal reads as a state and a number, whole and with nothing behind it.
Whole(p, txn, end) == p.txn = txn /\ p.end = end /\ ~p.stop /\ ~p.corrupt
Reads(file, st, txn, end, all, there) ==
    /\ there.readable /\ Read(file, there).st = st
    /\ \A s \in all :
         /\ Whole(Read(file, s), txn, end) /\ Read(file, s).st.items = st.items
         /\ st.corrupt => Read(file, s).st.corrupt \/ ~s.readable

\* The part of the journal that the open store stands for.
Base == Resized(log, mem.size)
BaseInv == Reads(Base, mem.st, mem.txn, mem.size, snaps, snap)

\* A compaction: the snapshot to write stands for all of the journal.
Compacting == {"rename", "sync_dir", "truncate"}
CompactInv ==
    /\ logs = {log} /\ Found(log, snap).st = mem.st /\ Read(log, snap).txn = mem.txn
    /\ opening => mem.st.corrupt
    /\ ~opening => BaseInv /\ Len(log) = mem.size

\* What each file operation may rely on.
StepInv ==
    /\ pc # "closed" => Known(Accounted, mem.st)
    /\ mem.broken => pc = "idle"
    /\ opening => pc \in Compacting \cup {"truncate_sync"}
    /\ pc \in {"write", "sync"} => mem.txn < MaxTxn
    /\ (pc = "idle" /\ ~mem.broken) \/ pc \in {"write", "rollback_sync", "tail_sync"} =>
         BaseInv /\ Len(log) = mem.size
    /\ pc \in {"sync", "rollback", "tail"} => BaseInv
    /\ pc = "sync" => log = Append(Base, Record(mem.txn + 1, cur)) /\ Known(Accounted, Apply(mem.st, cur))
    /\ pc \in Compacting => CompactInv
    /\ pc \in {"sync_dir", "truncate", "truncate_sync"} => snap = Snapshot(mem.txn, mem.st)
    /\ pc \in {"truncate", "truncate_sync"} => snaps = {snap}
    /\ pc = "truncate_sync" => log = <<>>

Inv == TypeInv /\ OutcomeInv /\ AgreeInv /\ DamageInv /\ StepInv

----------------------------------------------------------------------------
(* Induction over a journal: the finite subsets of the numbers are         *)
(* well-founded, and so a set of numbers has a least one.                  *)

\* A set of numbers has a least one.
LEMMA LeastOf ==
    ASSUME NEW T \in SUBSET Nat, T # {}
    PROVE  \E n \in T : \A k \in T : n <= k
  <1> DEFINE R == StrictSubsetOrdering(Nat)
             F == FiniteSubsetsOf(Nat)
             U == {1..n : n \in T}
  <1>1. IsWellFoundedOn(R, F)
    BY FS_StrictSubsetOrderingWellFounded
  <1>2. \A n \in T : 1..n \in F
    BY FS_Interval DEF FiniteSubsetsOf
  <1>3. \A k, n \in T : k < n => <<1..k, 1..n>> \in R
    <2> SUFFICES ASSUME NEW k \in T, NEW n \in T, k < n PROVE <<1..k, 1..n>> \in R
      OBVIOUS
    <2>1. 1..k \subseteq 1..n /\ n \in 1..n /\ n \notin 1..k
      OBVIOUS
    <2> QED
      BY <2>1 DEF StrictSubsetOrdering
  <1>4. U \subseteq F /\ U # {}
    BY <1>2
  <1> HIDE DEF R, F
  <1>5. PICK u \in U : \A v \in U : <<v, u>> \notin R
    BY <1>1, <1>4, WFMin
  <1>6. PICK n \in T : u = 1..n
    BY <1>5
  <1>7. \A k \in T : ~(k < n)
    BY <1>3, <1>5, <1>6
  <1> QED
    BY <1>7

\* What holds of 0, and of each number that follows one it holds of, holds of all.
LEMMA Upwards ==
    ASSUME NEW n \in Nat, NEW S, 0 \in S, \A i \in 1..n : i - 1 \in S => i \in S
    PROVE  \A i \in 0..n : i \in S
  <1> DEFINE T == {i \in 0..n : i \notin S}
  <1>1. SUFFICES ASSUME T # {} PROVE FALSE
    OBVIOUS
  <1>2. T \in SUBSET Nat
    OBVIOUS
  <1>3. \E i \in T : \A k \in T : i <= k
    BY <1>1, <1>2, LeastOf
  <1>4. PICK i \in T : \A k \in T : i <= k
    BY <1>3
  <1>5. i \in 1..n /\ i - 1 \in 0..n /\ ~(i <= i - 1)
    BY <1>4
  <1> QED
    BY <1>4, <1>5

----------------------------------------------------------------------------
(* What a journal reads as                                                 *)

Plays == [st : States, txn : 0..MaxTxn, end : Nat, stop : BOOLEAN, corrupt : BOOLEAN]

\* Replay gets through the first n records.
Passes(run, file, s, n) ==
    /\ run[0] = Started(s)
    /\ \A i \in 1..n :
         /\ file[i].kind = "record" /\ file[i].n <= run[i - 1].txn + 1
         /\ run[i] = ReadRecord(run[i - 1], file[i])

\* It stops at slot i.
Halts(file, i, p) == file[i].kind # "record" \/ ~(file[i].n <= p.txn + 1)
Halted(file, i, p) ==
    [p EXCEPT !.stop = TRUE, !.corrupt = IF file[i].kind = "record" THEN TRUE ELSE Corrupts(file, i)]

\* A journal, its slots and their numbers.
LEMMA FileOf ==
    ASSUME NEW file \in Seq(FileSlots)
    PROVE  /\ Len(file) \in Nat
           /\ \A i \in 1..Len(file) :
                /\ file[i] \in FileSlots /\ file[i].n \in 0..MaxTxn
                /\ file[i].txn \in Transactions \cup {NoTxn}
                /\ file[i].kind \in {"record", "zero", "bad", "torn"}
  <1>1. Len(file) \in Nat /\ \A i \in 1..Len(file) : file[i] \in FileSlots
    BY LenProperties, ElementOfSeq
  <1> QED
    BY <1>1 DEF FileSlots, Slots

\* A transaction makes a state out of a state, and a reset takes the mark away.
LEMMA ApplyType ==
    ASSUME NEW st \in States, NEW t \in Transactions \cup {NoTxn}
    PROVE  Apply(st, t) \in States /\ (Apply(st, t).corrupt <=> st.corrupt /\ ~t.reset)
  <1>1. t.reset \in BOOLEAN /\ t.del \subseteq Items /\ t.put \subseteq Items
    <2>1. CASE t \in Transactions
      <3>1. t \in [reset : BOOLEAN, del : SUBSET Items, put : SUBSET Items]
        BY <2>1, TransactionsAssumption
      <3> QED
        BY <3>1
    <2>2. CASE t = NoTxn
      BY <2>2 DEF NoTxn
    <2> QED
      BY <2>1, <2>2
  <1>2. st.items \subseteq Items /\ st.corrupt \in BOOLEAN
    BY DEF States
  <1> DEFINE c == st.corrupt /\ ~t.reset
             i == ((IF t.reset THEN st.items \ Delivered ELSE st.items) \ t.del) \cup t.put
  <1>3. c \in BOOLEAN /\ i \subseteq Items
    BY <1>1, <1>2
  <1>4. Apply(st, t) = [items |-> i, corrupt |-> c]
    BY DEF Apply
  <1> HIDE DEF i, c
  <1>5. Apply(st, t) \in States /\ Apply(st, t).corrupt = c
    BY <1>3, <1>4 DEF States
  <1> QED
    BY <1>5 DEF c

\* A whole record that follows.
LEMMA RecordType ==
    ASSUME NEW p \in Plays, ~p.stop, ~p.corrupt, NEW x \in FileSlots, x.n <= p.txn + 1
    PROVE  /\ ReadRecord(p, x) \in Plays /\ ReadRecord(p, x).end = p.end + 1
           /\ ~ReadRecord(p, x).stop /\ ~ReadRecord(p, x).corrupt
           /\ p.txn <= ReadRecord(p, x).txn /\ x.n <= ReadRecord(p, x).txn
           /\ x.n = p.txn + 1 => ReadRecord(p, x).st = Apply(p.st, x.txn) /\ ReadRecord(p, x).txn = x.n
           /\ x.n <= p.txn => ReadRecord(p, x) = [p EXCEPT !.end = @ + 1]
  <1>1. x.n \in 0..MaxTxn /\ x.txn \in Transactions \cup {NoTxn}
    BY DEF FileSlots, Slots
  <1>2. p.st \in States /\ p.txn \in 0..MaxTxn /\ MaxTxn \in Nat
    BY BoundAssumption DEF Plays
  <1>3. Apply(p.st, x.txn) \in States
    BY <1>1, <1>2, ApplyType
  <1>4. CASE x.n <= p.txn
    BY <1>1, <1>2, <1>4 DEF ReadRecord, Plays
  <1>5. CASE x.n = p.txn + 1
    <2>0. ~(x.n <= p.txn) /\ ~(x.n # p.txn + 1)
      BY <1>1, <1>2, <1>5
    <2>1. ReadRecord(p, x) = [p EXCEPT !.st = Apply(p.st, x.txn), !.txn = x.n, !.end = p.end + 1]
      BY <2>0 DEF ReadRecord
    <2>2. PICK q : q = ReadRecord(p, x)
      OBVIOUS
    <2>3. /\ q.st = Apply(p.st, x.txn) /\ q.txn = x.n /\ q.end = p.end + 1
          /\ q.stop = p.stop /\ q.corrupt = p.corrupt
      BY <2>1, <2>2 DEF Plays
    <2>4. q \in Plays
      <3>1. p.end + 1 \in Nat /\ p.stop \in BOOLEAN /\ p.corrupt \in BOOLEAN
        BY DEF Plays
      <3>2. q = [st |-> q.st, txn |-> q.txn, end |-> q.end, stop |-> q.stop, corrupt |-> q.corrupt]
        BY <2>1, <2>2 DEF Plays
      <3> QED
        BY <1>1, <1>3, <2>3, <3>1, <3>2 DEF Plays
    <2> QED
      BY <1>1, <1>2, <1>5, <2>2, <2>3, <2>4
  <1> QED
    BY <1>1, <1>2, <1>4, <1>5

\* A run starts where the snapshot ends.
LEMMA StartType ==
    ASSUME NEW s \in Snapshots
    PROVE  /\ Loaded(s) \in Snapshots /\ Loaded(s).readable
           /\ s.readable => Loaded(s) = s
           /\ Started(s) \in Plays /\ Started(s).end = 0
           /\ ~Started(s).stop /\ ~Started(s).corrupt
           /\ Started(s).txn = s.through /\ Started(s).st = s.st
  <1>1. NewState \in States /\ 0 \in 0..MaxTxn
    BY BoundAssumption DEF NewState, States
  <1>2. s.st \in States /\ s.through \in 0..MaxTxn /\ s.readable \in BOOLEAN
    BY DEF Snapshots
  <1>3. Loaded(s) \in Snapshots /\ Loaded(s).readable /\ (s.readable => Loaded(s) = s)
    BY <1>1, <1>2 DEF Loaded, Snapshot, Snapshots
  <1> QED
    BY <1>2, <1>3 DEF Started, Plays

\* Along the records that pass.
LEMMA PassType ==
    ASSUME NEW file \in Seq(FileSlots), NEW s \in Snapshots, NEW n \in 0..Len(file),
           NEW run, Passes(run, file, s, n)
    PROVE  \A i \in 0..n : run[i] \in Plays /\ run[i].end = i /\ ~run[i].stop /\ ~run[i].corrupt
  <1> DEFINE S == {i \in 0..n : run[i] \in Plays /\ run[i].end = i /\ ~run[i].stop /\ ~run[i].corrupt}
  <1>1. n \in Nat /\ Len(file) \in Nat
    BY FileOf
  <1>2. 0 \in S
    BY <1>1, StartType DEF Passes
  <1>3. ASSUME NEW i \in 1..n, i - 1 \in S PROVE i \in S
    <2>1. i \in 0..n /\ i \in 1..Len(file) /\ i - 1 \in 0..n
      BY <1>1
    <2>2. file[i] \in FileSlots
      BY <2>1, FileOf
    <2>3. file[i].n <= run[i - 1].txn + 1 /\ run[i] = ReadRecord(run[i - 1], file[i])
      BY DEF Passes
    <2>4. run[i] \in Plays /\ run[i].end = (i - 1) + 1 /\ ~run[i].stop /\ ~run[i].corrupt
      BY <1>3, <2>2, <2>3, RecordType
    <2> QED
      BY <2>1, <2>4
  <1> HIDE DEF S
  <1>4. \A i \in 0..n : i \in S
    BY <1>1, <1>2, <1>3, Upwards
  <1> QED
    BY <1>4 DEF S

\* The numbers go up, and those of the records passed are not beyond.
LEMMA PassNumbers ==
    ASSUME NEW file \in Seq(FileSlots), NEW s \in Snapshots, NEW n \in 0..Len(file),
           NEW run, Passes(run, file, s, n)
    PROVE  /\ \A i \in 0..n : run[i].txn <= run[n].txn
           /\ \A i \in 1..n : file[i].n <= run[n].txn
  <1>1. n \in Nat /\ Len(file) \in Nat
    BY FileOf
  <1>2. \A i \in 0..n : run[i] \in Plays /\ run[i].txn \in 0..MaxTxn /\ ~run[i].stop /\ ~run[i].corrupt
    BY PassType DEF Plays
  <1>3. ASSUME NEW i \in 1..n
        PROVE  /\ i - 1 \in 0..n /\ i \in 0..n /\ run[i - 1].txn <= run[i].txn
               /\ file[i].n <= run[i].txn /\ file[i].n \in 0..MaxTxn
    <2>1. i - 1 \in 0..n /\ i \in 0..n /\ i \in 1..Len(file)
      BY <1>1
    <2>2. file[i] \in FileSlots /\ file[i].n \in 0..MaxTxn
      BY <2>1, FileOf
    <2>3. file[i].n <= run[i - 1].txn + 1 /\ run[i] = ReadRecord(run[i - 1], file[i])
      BY DEF Passes
    <2> QED
      BY <1>2, <2>1, <2>2, <2>3, RecordType
  <1> DEFINE S == {i \in 0..n : \A j \in 0..i : run[j].txn <= run[i].txn}
  <1>4. 0 \in S
    BY <1>1, <1>2
  <1>5. ASSUME NEW i \in 1..n, i - 1 \in S PROVE i \in S
    <2>1. ASSUME NEW j \in 0..i PROVE run[j].txn <= run[i].txn
      <3>1. CASE j = i
        BY <1>2, <1>3, <3>1
      <3>2. CASE j # i
        <4>1. j \in 0..(i - 1) /\ j \in 0..n
          BY <1>1, <3>2
        <4>2. run[j].txn <= run[i - 1].txn
          BY <1>5, <4>1
        <4> QED
          BY <1>2, <1>3, <4>1, <4>2
      <3> QED
        BY <3>1, <3>2
    <2> QED
      BY <1>3, <2>1
  <1> HIDE DEF S
  <1>6. \A i \in 0..n : i \in S
    BY <1>1, <1>4, <1>5, Upwards
  <1>7. n \in S /\ n \in 0..n
    BY <1>1, <1>6
  <1>8. \A i \in 0..n : run[i].txn <= run[n].txn
    BY <1>7 DEF S
  <1>9. \A i \in 1..n : file[i].n <= run[n].txn
    <2>1. ASSUME NEW i \in 1..n PROVE file[i].n <= run[n].txn
      <3>1. run[i].txn <= run[n].txn /\ run[i].txn \in 0..MaxTxn /\ run[n].txn \in 0..MaxTxn
        BY <1>2, <1>3, <1>7, <1>8
      <3> QED
        BY <1>3, <3>1
    <2> QED
      BY <2>1
  <1> QED
    BY <1>8, <1>9

\* A function that does what `after` is said to do is enough for there to be one.
LEMMA AfterExists ==
    ASSUME NEW file, NEW s, NEW g,
           g = [i \in 0..Len(file) |-> IF i = 0 THEN Started(s) ELSE ReadSlot(g[i - 1], file, i)]
    PROVE  \E f : /\ f = [i \in 0..Len(file) |->
                            IF i = 0 THEN Started(s) ELSE ReadSlot(f[i - 1], file, i)]
                  /\ Replay(file, s) = f[Len(file)]
  BY DEF Replay

\* Where replay gets through n records, and these are all or the next slot stops it.
LEMMA ReplayIs ==
    ASSUME NEW file \in Seq(FileSlots), NEW s \in Snapshots, NEW n \in 0..Len(file),
           NEW run, Passes(run, file, s, n)
    PROVE  /\ n = Len(file) => Replay(file, s) = run[n]
           /\ n # Len(file) /\ Halts(file, n + 1, run[n]) =>
                Replay(file, s) = Halted(file, n + 1, run[n])
  <1> DEFINE After(f, i) == IF i = 0 THEN Started(s) ELSE ReadSlot(f[i - 1], file, i)
             L == Len(file)
             h == Halted(file, n + 1, run[n])
             g == [i \in 0..L |-> IF i <= n THEN run[i] ELSE h]
  <1>1. n \in Nat /\ L \in Nat /\ n <= L
    BY FileOf
  <1>2. \A i \in 0..n : run[i] \in Plays /\ ~run[i].stop
    BY PassType
  <1>3. SUFFICES ASSUME n = L \/ Halts(file, n + 1, run[n])
                 PROVE  Replay(file, s) = IF n = L THEN run[n] ELSE h
    OBVIOUS
  <1>4. h.stop
    BY <1>1, <1>2 DEF Halted, Plays
  <1> HIDE DEF h
  <1>5. \A i \in 0..L : g[i] = After(g, i)
    <2>1. g[0] = After(g, 0)
      BY <1>1 DEF Passes
    <2>2. ASSUME NEW i \in 1..n PROVE g[i] = After(g, i)
      <3>1. i \in 0..L /\ i - 1 \in 0..L /\ i <= n /\ i - 1 <= n /\ i # 0 /\ i - 1 \in 0..n
        BY <1>1
      <3>2. file[i].kind = "record" /\ run[i] = ReadRecord(run[i - 1], file[i]) /\ ~run[i - 1].stop
        BY <1>2, <3>1 DEF Passes
      <3> QED
        BY <3>1, <3>2 DEF ReadSlot
    <2>3. ASSUME n # L PROVE g[n + 1] = After(g, n + 1)
      <3>1. n + 1 \in 0..L /\ n \in 0..L /\ ~(n + 1 <= n) /\ n <= n /\ n + 1 # 0 /\ (n + 1) - 1 = n
            /\ n \in 0..n /\ n + 1 \in 1..L
        BY <1>1, <2>3
      <3>2. Halts(file, n + 1, run[n]) /\ ~run[n].stop /\ run[n] \in Plays
        BY <1>2, <1>3, <2>3, <3>1
      <3>3. file[n + 1].n \in 0..MaxTxn /\ run[n].txn \in 0..MaxTxn
        BY <3>1, <3>2, FileOf DEF Plays
      <3>4. ReadSlot(run[n], file, n + 1) = h
        <4>1. CASE file[n + 1].kind # "record"
          BY <3>2, <4>1 DEF ReadSlot, Halted, h
        <4>2. CASE file[n + 1].kind = "record"
          <5>1. ~(file[n + 1].n <= run[n].txn) /\ file[n + 1].n # run[n].txn + 1
            BY <3>2, <3>3, <4>2 DEF Halts
          <5> QED
            BY <3>2, <4>2, <5>1 DEF ReadSlot, ReadRecord, Halted, h
        <4> QED
          BY <4>1, <4>2
      <3> QED
        BY <3>1, <3>4
    <2>4. ASSUME NEW i \in 0..L, i > n + 1 PROVE g[i] = After(g, i)
      <3>1. i - 1 \in 0..L /\ ~(i <= n) /\ ~(i - 1 <= n) /\ i # 0
        BY <1>1, <2>4
      <3> QED
        BY <1>4, <3>1 DEF ReadSlot
    <2>5. \A i \in 0..L : i = 0 \/ i \in 1..n \/ (i = n + 1 /\ n # L) \/ i > n + 1
      BY <1>1
    <2> QED
      BY <2>1, <2>2, <2>3, <2>4, <2>5
  <1>6. PICK f : f = [i \in 0..L |-> After(f, i)] /\ Replay(file, s) = f[L]
    <2>1. g = [i \in 0..L |-> After(g, i)]
      BY <1>5
    <2> HIDE DEF g
    <2>2. PICK k : k = g
      OBVIOUS
    <2>3. k = [i \in 0..Len(file) |-> IF i = 0 THEN Started(s) ELSE ReadSlot(k[i - 1], file, i)]
      BY <2>1, <2>2
    <2>4. \E f : /\ f = [i \in 0..Len(file) |->
                           IF i = 0 THEN Started(s) ELSE ReadSlot(f[i - 1], file, i)]
                 /\ Replay(file, s) = f[Len(file)]
      BY <2>3, AfterExists
    <2> QED
      BY <2>4
  <1>61. \A i \in 0..L : f[i] = After(f, i)
    BY <1>6
  <1>62. g[L] = IF n = L THEN run[n] ELSE h
    BY <1>1
  <1> HIDE DEF g
  <1> DEFINE S == {i \in 0..L : f[i] = g[i]}
  <1>7. 0 \in S
    <2>1. 0 \in 0..L
      BY <1>1
    <2>2. f[0] = After(f, 0) /\ g[0] = After(g, 0)
      BY <1>5, <1>61, <2>1
    <2> QED
      BY <2>1, <2>2
  <1>8. ASSUME NEW i \in 1..L, i - 1 \in S PROVE i \in S
    <2>1. i \in 0..L /\ i # 0 /\ f[i - 1] = g[i - 1]
      BY <1>1, <1>8
    <2>2. f[i] = After(f, i) /\ g[i] = After(g, i)
      BY <1>5, <1>61, <2>1
    <2> QED
      BY <2>1, <2>2
  <1> HIDE DEF S
  <1>9. \A i \in 0..L : i \in S
    BY <1>1, <1>7, <1>8, Upwards
  <1>10. f[L] = g[L]
    BY <1>1, <1>9 DEF S
  <1> QED
    BY <1>6, <1>62, <1>10

\* One more record passes.
LEMMA PassMore ==
    ASSUME NEW file, NEW s, NEW n \in Nat, NEW run, Passes(run, file, s, n),
           file[n + 1].kind = "record", file[n + 1].n <= run[n].txn + 1
    PROVE  \E r : /\ Passes(r, file, s, n + 1)
                  /\ r[n + 1] = ReadRecord(run[n], file[n + 1])
  <1> DEFINE q == ReadRecord(run[n], file[n + 1])
             g == [i \in 0..(n + 1) |-> IF i <= n THEN run[i] ELSE q]
  <1>1. g[0] = run[0] /\ g[n] = run[n] /\ g[n + 1] = q
    OBVIOUS
  <1>2. \A i \in 1..n : i - 1 \in 0..n /\ g[i] = run[i] /\ g[i - 1] = run[i - 1]
    OBVIOUS
  <1> HIDE DEF g
  <1>3. ASSUME NEW i \in 1..(n + 1)
        PROVE  /\ file[i].kind = "record" /\ file[i].n <= g[i - 1].txn + 1
               /\ g[i] = ReadRecord(g[i - 1], file[i])
    <2>1. CASE i \in 1..n
      BY <1>2, <2>1 DEF Passes
    <2>2. CASE i = n + 1
      <3>1. i - 1 = n
        BY <2>2
      <3> QED
        BY <1>1, <2>2, <3>1
    <2>3. i \in 1..n \/ i = n + 1
      OBVIOUS
    <2> QED
      BY <2>1, <2>2, <2>3
  <1>4. Passes(g, file, s, n + 1)
    BY <1>1, <1>3 DEF Passes
  <1> QED
    BY <1>1, <1>4

\* The records that pass, and what stops replay at the one behind them.
LEMMA Shape ==
    ASSUME NEW file \in Seq(FileSlots), NEW s \in Snapshots
    PROVE  \E n \in 0..Len(file) : \E run :
             Passes(run, file, s, n) /\ (n = Len(file) \/ Halts(file, n + 1, run[n]))
  <1> DEFINE Goes(n, m) ==
               \E run : Passes(run, file, s, n) /\ (n = m \/ Halts(file, n + 1, run[n]))
             S == {m \in 0..Len(file) : \E n \in 0..m : Goes(n, m)}
  <1>1. Len(file) \in Nat
    BY FileOf
  <1>2. 0 \in S
    <2> DEFINE g == [i \in {0} |-> Started(s)]
    <2>1. Passes(g, file, s, 0)
      BY DEF Passes
    <2> QED
      BY <1>1, <2>1
  <1>3. ASSUME NEW m \in 1..Len(file), m - 1 \in S PROVE m \in S
    <2>1. m \in 0..Len(file) /\ m - 1 \in Nat /\ (m - 1) + 1 = m /\ m \in 0..m
      BY <1>1
    <2>2. PICK n \in 0..(m - 1) : Goes(n, m - 1)
      BY <1>3
    <2>3. PICK run : Passes(run, file, s, n) /\ (n = m - 1 \/ Halts(file, n + 1, run[n]))
      BY <2>2
    <2>4. n \in 0..m
      BY <2>1
    <2>5. CASE Halts(file, n + 1, run[n])
      BY <2>1, <2>3, <2>4, <2>5
    <2>6. CASE ~Halts(file, n + 1, run[n])
      <3>1. n = m - 1 /\ n \in Nat /\ n + 1 = m
        BY <2>1, <2>3, <2>6
      <3>2. file[n + 1].kind = "record" /\ file[n + 1].n <= run[n].txn + 1
        BY <2>6 DEF Halts
      <3>3. \E r : Passes(r, file, s, n + 1)
        BY <2>3, <3>1, <3>2, PassMore
      <3>4. Goes(m, m)
        BY <3>1, <3>3
      <3> QED
        BY <2>1, <3>4
    <2> QED
      BY <2>5, <2>6
  <1> HIDE DEF S
  <1>4. \A m \in 0..Len(file) : m \in S
    BY <1>1, <1>2, <1>3, Upwards
  <1>5. Len(file) \in S
    BY <1>1, <1>4
  <1> QED
    BY <1>5 DEF S

\* What replay returns, by the records it got through.
LEMMA Outcome ==
    ASSUME NEW file \in Seq(FileSlots), NEW s \in Snapshots
    PROVE  \E n \in 0..Len(file) : \E run :
             /\ Passes(run, file, s, n) /\ run[n] \in Plays /\ run[n].end = n
             /\ ~run[n].stop /\ ~run[n].corrupt
             /\ \/ n = Len(file) /\ Replay(file, s) = run[n]
                \/ /\ n # Len(file) /\ n + 1 \in 1..Len(file) /\ Halts(file, n + 1, run[n])
                   /\ Replay(file, s) = Halted(file, n + 1, run[n])
  <1>1. PICK n \in 0..Len(file) : \E run :
             Passes(run, file, s, n) /\ (n = Len(file) \/ Halts(file, n + 1, run[n]))
    BY Shape
  <1>2. PICK run : Passes(run, file, s, n) /\ (n = Len(file) \/ Halts(file, n + 1, run[n]))
    BY <1>1
  <1>3. n \in Nat /\ Len(file) \in Nat /\ n \in 0..n /\ (n # Len(file) => n + 1 \in 1..Len(file))
    BY FileOf
  <1>4. run[n] \in Plays /\ run[n].end = n /\ ~run[n].stop /\ ~run[n].corrupt
    BY <1>2, <1>3, PassType
  <1>5. /\ n = Len(file) => Replay(file, s) = run[n]
        /\ n # Len(file) /\ Halts(file, n + 1, run[n]) =>
             Replay(file, s) = Halted(file, n + 1, run[n])
    BY <1>2, ReplayIs
  <1> QED
    BY <1>2, <1>3, <1>4, <1>5

\* What is more than a torn tail.
LEMMA CorruptsIs ==
    ASSUME NEW file \in Seq(FileSlots), NEW i \in 1..Len(file), file[i].kind # "record"
    PROVE  /\ Corrupts(file, i) \in BOOLEAN
           /\ i = Len(file) => ~Corrupts(file, i)
           /\ \A j \in 1..Len(file) : i < j /\ file[j].kind = "record" => Corrupts(file, i)
  <1>1. file[i].kind \in {"zero", "bad", "torn"} /\ Len(file) \in Nat
    BY FileOf
  <1>2. CASE file[i].kind = "zero"
    <2>1. Corrupts(file, i) = \E j \in i..Len(file) : file[j].kind # "zero"
      BY <1>2 DEF Corrupts
    <2>2. i = Len(file) => \A j \in i..Len(file) : j = i
      BY <1>1
    <2>3. \A j \in 1..Len(file) : i < j => j \in i..Len(file)
      BY <1>1
    <2> QED
      BY <1>2, <2>1, <2>2, <2>3
  <1>3. CASE file[i].kind \in {"bad", "torn"}
    <2>1. Corrupts(file, i) = (i # Len(file))
      BY <1>3 DEF Corrupts
    <2>2. \A j \in 1..Len(file) : i < j => i # Len(file)
      BY <1>1
    <2>3. CASE i = Len(file)
      BY <2>1, <2>2, <2>3
    <2>4. CASE i # Len(file)
      BY <2>1, <2>4
    <2> QED
      BY <2>3, <2>4
  <1> QED
    BY <1>1, <1>2, <1>3

\* What a replay returns.
LEMMA ReplayType ==
    ASSUME NEW file \in Seq(FileSlots), NEW s \in Snapshots
    PROVE  /\ Replay(file, s) \in Plays /\ Replay(file, s).end \in 0..Len(file)
           /\ ~Replay(file, s).stop => Replay(file, s).end = Len(file) /\ ~Replay(file, s).corrupt
  <1>1. PICK n, run :
             /\ n \in 0..Len(file)
             /\ Passes(run, file, s, n) /\ run[n] \in Plays /\ run[n].end = n
             /\ ~run[n].stop /\ ~run[n].corrupt
             /\ \/ n = Len(file) /\ Replay(file, s) = run[n]
                \/ /\ n # Len(file) /\ n + 1 \in 1..Len(file) /\ Halts(file, n + 1, run[n])
                   /\ Replay(file, s) = Halted(file, n + 1, run[n])
    BY Outcome
  <1>2. CASE n = Len(file) /\ Replay(file, s) = run[n]
    BY <1>1, <1>2
  <1>3. CASE n + 1 \in 1..Len(file) /\ Replay(file, s) = Halted(file, n + 1, run[n])
    <2>1. file[n + 1].kind # "record" => Corrupts(file, n + 1) \in BOOLEAN
      BY <1>3, CorruptsIs
    <2>2. PICK c \in BOOLEAN : Replay(file, s) = [run[n] EXCEPT !.stop = TRUE, !.corrupt = c]
      BY <1>3, <2>1 DEF Halted
    <2> QED
      BY <1>1, <2>2 DEF Plays
  <1> QED
    BY <1>1, <1>2, <1>3

\* A slot behind records that all pass: a record that follows is applied, and what is not
\* a whole record is a torn tail.
LEMMA ReplayMore ==
    ASSUME NEW file \in Seq(FileSlots), NEW s \in Snapshots, ~Replay(file, s).stop,
           NEW x \in FileSlots
    PROVE  /\ Append(file, x) \in Seq(FileSlots)
           /\ x.kind = "record" /\ x.n <= Replay(file, s).txn + 1 =>
                Replay(Append(file, x), s) = ReadRecord(Replay(file, s), x)
           /\ x.kind # "record" =>
                Replay(Append(file, x), s) = [Replay(file, s) EXCEPT !.stop = TRUE, !.corrupt = FALSE]
  <1>1. PICK n, run :
             /\ n \in 0..Len(file)
             /\ Passes(run, file, s, n) /\ run[n] \in Plays /\ run[n].end = n
             /\ ~run[n].stop /\ ~run[n].corrupt
             /\ \/ n = Len(file) /\ Replay(file, s) = run[n]
                \/ /\ n # Len(file) /\ n + 1 \in 1..Len(file) /\ Halts(file, n + 1, run[n])
                   /\ Replay(file, s) = Halted(file, n + 1, run[n])
    BY Outcome
  <1>2. n = Len(file) /\ Replay(file, s) = run[n]
    BY <1>1 DEF Halted, Plays
  <1>3. PICK f : f = Append(file, x)
    OBVIOUS
  <1>4. /\ f \in Seq(FileSlots) /\ Len(f) = n + 1 /\ f[n + 1] = x /\ n \in Nat
        /\ \A i \in 1..n : f[i] = file[i]
    BY <1>2, <1>3, AppendOf, FileOf
  <1>5. Passes(run, f, s, n) /\ n \in 0..Len(f) /\ n # Len(f) /\ n + 1 \in 1..Len(f)
        /\ n + 1 \in 0..Len(f)
    <2>1. Passes(run, f, s, n)
      BY <1>1, <1>4 DEF Passes
    <2> QED
      BY <1>4, <2>1
  <1>6. ASSUME x.kind = "record", x.n <= run[n].txn + 1
        PROVE  Replay(f, s) = ReadRecord(run[n], x)
    <2>1. PICK r : Passes(r, f, s, n + 1) /\ r[n + 1] = ReadRecord(run[n], x)
      BY <1>4, <1>5, <1>6, PassMore
    <2> QED
      BY <1>4, <1>5, <2>1, ReplayIs
  <1>7. ASSUME x.kind # "record"
        PROVE  Replay(f, s) = [run[n] EXCEPT !.stop = TRUE, !.corrupt = FALSE]
    <2>1. Replay(f, s) = Halted(f, n + 1, run[n])
      BY <1>4, <1>5, <1>7, ReplayIs DEF Halts
    <2>2. ~Corrupts(f, n + 1) /\ Corrupts(f, n + 1) \in BOOLEAN
      BY <1>4, <1>5, <1>7, CorruptsIs
    <2> QED
      BY <1>4, <1>7, <2>1, <2>2 DEF Halted
  <1> QED
    BY <1>2, <1>3, <1>4, <1>6, <1>7

\* The records that passed read the same without what is behind them.
LEMMA ReplayCut ==
    ASSUME NEW file \in Seq(FileSlots), NEW s \in Snapshots
    PROVE  LET p == Replay(file, s)
               f == Resized(file, p.end)
           IN  /\ f \in Seq(FileSlots) /\ Len(f) = p.end
               /\ Replay(f, s) = [p EXCEPT !.stop = FALSE, !.corrupt = FALSE]
  <1>1. PICK n, run :
             /\ n \in 0..Len(file)
             /\ Passes(run, file, s, n) /\ run[n] \in Plays /\ run[n].end = n
             /\ ~run[n].stop /\ ~run[n].corrupt
             /\ \/ n = Len(file) /\ Replay(file, s) = run[n]
                \/ /\ n # Len(file) /\ n + 1 \in 1..Len(file) /\ Halts(file, n + 1, run[n])
                   /\ Replay(file, s) = Halted(file, n + 1, run[n])
    BY Outcome
  <1>2. PICK p : p = Replay(file, s)
    OBVIOUS
  <1>3. PICK f : f = Resized(file, n)
    OBVIOUS
  <1>4. p.end = n /\ run[n] = [p EXCEPT !.stop = FALSE, !.corrupt = FALSE]
    <2>1. CASE p = run[n]
      BY <1>1, <2>1 DEF Plays
    <2>2. CASE p = Halted(file, n + 1, run[n])
      BY <1>1, <2>2, ZenonT(40) DEF Plays, Halted
    <2> QED
      BY <1>1, <1>2, <2>1, <2>2
  <1>5. n \in Nat /\ n <= Len(file) /\ Len(file) \in Nat
    BY <1>1, FileOf
  <1>6. f = [i \in 1..n |-> file[i]]
    BY <1>3, <1>5 DEF Resized
  <1>7. \A i \in 1..n : file[i] \in FileSlots
    BY <1>5, FileOf
  <1>8. f \in Seq(FileSlots) /\ Len(f) = n
    BY <1>5, <1>6, <1>7, IsASeq
  <1>9. Passes(run, f, s, n) /\ n \in 0..Len(f)
    BY <1>1, <1>5, <1>6, <1>8 DEF Passes
  <1>10. Replay(f, s) = run[n]
    BY <1>8, <1>9, ReplayIs
  <1> QED
    BY <1>2, <1>3, <1>4, <1>8, <1>10

\* A snapshot of what was read stands for all of it: the records are passed over.
LEMMA ReplayAgain ==
    ASSUME NEW file \in Seq(FileSlots), NEW s \in Snapshots, NEW st \in States
    PROVE  /\ Snapshot(Replay(file, s).txn, st) \in Snapshots
           /\ Replay(file, Snapshot(Replay(file, s).txn, st)) = [Replay(file, s) EXCEPT !.st = st]
  <1>1. PICK n, run :
             /\ n \in 0..Len(file)
             /\ Passes(run, file, s, n) /\ run[n] \in Plays /\ run[n].end = n
             /\ ~run[n].stop /\ ~run[n].corrupt
             /\ \/ n = Len(file) /\ Replay(file, s) = run[n]
                \/ /\ n # Len(file) /\ n + 1 \in 1..Len(file) /\ Halts(file, n + 1, run[n])
                   /\ Replay(file, s) = Halted(file, n + 1, run[n])
    BY Outcome
  <1>2. PICK p : p = Replay(file, s)
    OBVIOUS
  <1>3. PICK w : w = Snapshot(p.txn, st)
    OBVIOUS
  <1>4. p.txn = run[n].txn /\ p.txn \in 0..MaxTxn
    BY <1>1, <1>2 DEF Halted, Plays
  <1>5. w \in Snapshots /\ w.st = st /\ w.through = p.txn
    BY <1>3, <1>4 DEF Snapshot, Snapshots
  <1> DEFINE no == FALSE
             At(i) == [st |-> st, txn |-> p.txn, end |-> i, stop |-> no, corrupt |-> no]
             g == [i \in 0..n |-> At(i)]
  <1>6. n \in Nat /\ \A i \in 1..n : i \in 1..Len(file)
    BY <1>1, FileOf
  <1>7. \A i \in 1..n : file[i].n <= p.txn /\ file[i].kind = "record" /\ file[i].n \in 0..MaxTxn
    <2>1. \A i \in 1..n : file[i].n <= run[n].txn
      BY <1>1, PassNumbers
    <2>2. \A i \in 1..n : file[i].kind = "record"
      BY <1>1 DEF Passes
    <2>3. \A i \in 1..n : file[i].n \in 0..MaxTxn
      BY <1>6, FileOf
    <2> QED
      BY <1>4, <2>1, <2>2, <2>3
  <1> HIDE DEF no
  <1>8. g[0] = Started(w)
    BY <1>5, <1>6 DEF Started, no
  <1>9. ASSUME NEW i \in 1..n
        PROVE  /\ file[i].kind = "record" /\ file[i].n <= g[i - 1].txn + 1
               /\ g[i] = ReadRecord(g[i - 1], file[i])
    <2>1. i \in 0..n /\ i - 1 \in 0..n /\ (i - 1) + 1 = i
      BY <1>6
    <2>2. g[i] = At(i) /\ g[i - 1] = At(i - 1)
      BY <2>1
    <2>3. file[i].n <= p.txn + 1
      BY <1>4, <1>7
    <2>4. ReadRecord(At(i - 1), file[i]) = [At(i - 1) EXCEPT !.end = i]
      BY <1>7, <2>1 DEF ReadRecord
    <2>5. [At(i - 1) EXCEPT !.end = i] = At(i)
      OBVIOUS
    <2> QED
      BY <1>7, <2>1, <2>2, <2>3, <2>4, <2>5
  <1>10. Passes(g, file, w, n)
    BY <1>8, <1>9 DEF Passes
  <1>11. g[n] = [run[n] EXCEPT !.st = st]
    <2>1. g[n] = At(n)
      BY <1>6
    <2>2. run[n].stop = no /\ run[n].corrupt = no
      BY <1>1 DEF Plays, no
    <2> QED
      BY <1>1, <1>4, <2>1, <2>2 DEF Plays
  <1> HIDE DEF g
  <1>12. Replay(file, w) = [p EXCEPT !.st = st]
    <2>1. CASE n = Len(file)
      BY <1>1, <1>2, <1>5, <1>10, <1>11, <2>1, ReplayIs
    <2>2. CASE n # Len(file)
      <3>1. g[n].txn = run[n].txn
        BY <1>1, <1>11 DEF Plays
      <3>2. Halts(file, n + 1, g[n])
        BY <1>1, <2>2, <3>1 DEF Halts
      <3>3. Replay(file, w) = Halted(file, n + 1, g[n])
        BY <1>1, <1>5, <1>10, <2>2, <3>2, ReplayIs
      <3>4. p = Halted(file, n + 1, run[n])
        BY <1>1, <1>2, <2>2
      <3> QED
        BY <1>1, <1>11, <3>3, <3>4 DEF Halted, Plays
    <2> QED
      BY <2>1, <2>2
  <1> QED
    BY <1>2, <1>3, <1>5, <1>12

\* An empty journal.
LEMMA ReplayEmpty ==
    ASSUME NEW s \in Snapshots
    PROVE  <<>> \in Seq(FileSlots) /\ Replay(<<>>, s) = Started(s)
  <1>1. <<>> \in Seq(FileSlots) /\ Len(<<>>) = 0 /\ 0 \in 0..0
    BY EmptySeq
  <1> DEFINE g == [i \in {0} |-> Started(s)]
  <1>2. Passes(g, <<>>, s, 0) /\ g[0] = Started(s)
    BY DEF Passes
  <1> HIDE DEF g
  <1>3. Replay(<<>>, s) = g[0]
    BY <1>1, <1>2, ReplayIs
  <1> QED
    BY <1>1, <1>2, <1>3

\* A record that was spoiled before another is never taken for a torn tail.
LEMMA DamageSeen ==
    ASSUME NEW file \in Seq(FileSlots), NEW s \in Snapshots,
           NEW i \in 1..Len(file), NEW j \in 1..Len(file), i < j,
           file[i].kind # "record", file[j].kind = "record"
    PROVE  Replay(file, s).corrupt
  <1>1. PICK n, run :
             /\ n \in 0..Len(file)
             /\ Passes(run, file, s, n) /\ run[n] \in Plays /\ run[n].end = n
             /\ ~run[n].stop /\ ~run[n].corrupt
             /\ \/ n = Len(file) /\ Replay(file, s) = run[n]
                \/ /\ n # Len(file) /\ n + 1 \in 1..Len(file) /\ Halts(file, n + 1, run[n])
                   /\ Replay(file, s) = Halted(file, n + 1, run[n])
    BY Outcome
  <1>2. n + 1 <= i /\ n # Len(file) /\ n + 1 < j
    <2>1. i \notin 1..n
      BY <1>1 DEF Passes
    <2> QED
      BY <1>1, <2>1, FileOf
  <1>3. n + 1 \in 1..Len(file) /\ Replay(file, s) = Halted(file, n + 1, run[n])
    BY <1>1, <1>2
  <1>4. file[n + 1].kind # "record" => Corrupts(file, n + 1)
    BY <1>2, <1>3, CorruptsIs
  <1> QED
    BY <1>1, <1>3, <1>4 DEF Halted, Plays

\* What openStore finds, by what it reads.
LEMMA FoundIs ==
    ASSUME NEW file \in Seq(FileSlots), NEW s \in Snapshots
    PROVE  /\ Loaded(s) \in Snapshots /\ Read(file, s) \in Plays
           /\ Found(file, s) \in Plays
           /\ Found(file, s).txn = Read(file, s).txn /\ Found(file, s).end = Read(file, s).end
           /\ Found(file, s).stop = Read(file, s).stop
           /\ Found(file, s).st.items = Read(file, s).st.items
           /\ Found(file, s).corrupt <=> Read(file, s).corrupt \/ ~s.readable
           /\ Found(file, s).st.corrupt <=>
                Read(file, s).st.corrupt \/ Read(file, s).corrupt \/ ~s.readable
           /\ ~Found(file, s).corrupt => Found(file, s) = Read(file, s)
  <1>1. Loaded(s) \in Snapshots /\ s.readable \in BOOLEAN
    BY StartType DEF Snapshots
  <1>2. PICK p : p = Read(file, s)
    OBVIOUS
  <1>3. p \in Plays
    BY <1>1, <1>2, ReplayType DEF Read
  <1> DEFINE c == p.corrupt \/ ~s.readable
             k == p.st.corrupt \/ p.corrupt \/ ~s.readable
             t == [p.st EXCEPT !.corrupt = k]
  <1>4. p.st \in States
    BY <1>3 DEF Plays
  <1>5. c \in BOOLEAN /\ k \in BOOLEAN
    BY <1>1, <1>3, <1>4 DEF Plays, States
  <1>6. Found(file, s) = [p EXCEPT !.corrupt = c, !.st = t]
    BY <1>2, <1>3, <1>4, <1>5 DEF Found, Read, Plays, States
  <1> HIDE DEF c, k
  <1>7. t \in States /\ t.items = p.st.items /\ t.corrupt = k
    BY <1>4, <1>5 DEF States
  <1> HIDE DEF t
  <1>8. PICK f : f = Found(file, s)
    OBVIOUS
  <1>9. /\ f \in Plays /\ f.txn = p.txn /\ f.end = p.end /\ f.stop = p.stop
        /\ f.st = t /\ f.corrupt = c
    BY <1>3, <1>5, <1>6, <1>7, <1>8 DEF Plays
  <1>10. ~c => c = p.corrupt /\ k = p.st.corrupt
    BY <1>3, <1>4, <1>5 DEF c, k, Plays, States
  <1>11. ~c => t = p.st
    BY <1>4, <1>7, <1>10 DEF States
  <1>12. ~c => f = p
    BY <1>3, <1>9, <1>10, <1>11 DEF Plays
  <1> QED
    BY <1>1, <1>2, <1>3, <1>7, <1>8, <1>9, <1>12 DEF c, k

----------------------------------------------------------------------------
(* Journals that read whole                                                *)

\* A slot that is not a record.
LEMMA SlotTypes ==
    /\ \A kind \in {"zero", "bad", "torn"} :
         Blank(kind) \in FileSlots /\ Blank(kind).kind = kind
    /\ \A n \in 0..MaxTxn, t \in Transactions \cup {NoTxn} :
         /\ Record(n, t) \in FileSlots /\ Record(n, t).kind = "record"
         /\ Record(n, t).n = n /\ Record(n, t).txn = t
  <1>1. 0 \in 0..MaxTxn
    BY BoundAssumption
  <1> QED
    BY <1>1 DEF Blank, Record, Slot, FileSlots, Slots

\* Writing at the end of a file appends; truncating keeps what is before.
LEMMA SizeOf ==
    ASSUME NEW file \in Seq(FileSlots)
    PROVE  /\ \A n \in Nat : Resized(file, n) \in Seq(FileSlots) /\ Len(Resized(file, n)) = n
           /\ Resized(file, Len(file)) = file
           /\ \A x \in FileSlots :
                /\ Placed(file, Len(file), x) = Append(file, x)
                /\ Resized(Append(file, x), Len(file)) = file
  <1>1. Len(file) \in Nat /\ \A i \in 1..Len(file) : file[i] \in FileSlots
    BY FileOf
  <1>2. Blank("zero") \in FileSlots
    BY SlotTypes
  <1>3. ASSUME NEW n \in Nat
        PROVE  Resized(file, n) \in Seq(FileSlots) /\ Len(Resized(file, n)) = n
    <2>1. \A i \in 1..n : (IF i <= Len(file) THEN file[i] ELSE Blank("zero")) \in FileSlots
      BY <1>1, <1>2
    <2> QED
      BY <2>1 DEF Resized
  <1>4. Resized(file, Len(file)) = file
    <2>1. \A i \in 1..Len(file) : Resized(file, Len(file))[i] = file[i]
      BY <1>1 DEF Resized
    <2> QED
      BY <1>1, <1>3, <2>1, SeqEqual
  <1>5. ASSUME NEW x \in FileSlots
        PROVE  /\ Placed(file, Len(file), x) = Append(file, x)
               /\ Resized(Append(file, x), Len(file)) = file
    <2>1. PICK f : f = Append(file, x)
      OBVIOUS
    <2>2. /\ f \in Seq(FileSlots) /\ Len(f) = Len(file) + 1 /\ f[Len(file) + 1] = x
          /\ \A i \in 1..Len(file) : f[i] = file[i]
      BY <2>1, AppendOf
    <2>3. PICK g : g = Placed(file, Len(file), x)
      OBVIOUS
    <2>4. g = [i \in 1..(Len(file) + 1) |-> IF i = Len(file) + 1 THEN x ELSE file[i]]
      BY <1>1, <2>3 DEF Placed
    <2>5. g \in Seq(FileSlots) /\ Len(g) = Len(file) + 1
      BY <1>1, <2>4
    <2>6. \A i \in 1..Len(g) : g[i] = f[i]
      BY <1>1, <2>2, <2>4, <2>5
    <2>7. g = f
      BY <2>2, <2>5, <2>6, SeqEqual
    <2>8. PICK h : h = Resized(f, Len(file))
      OBVIOUS
    <2>9. h = [i \in 1..Len(file) |-> file[i]]
      BY <1>1, <2>2, <2>8 DEF Resized
    <2>10. h \in Seq(FileSlots) /\ Len(h) = Len(file) /\ \A i \in 1..Len(h) : h[i] = file[i]
      BY <1>1, <2>9
    <2>11. h = file
      BY <2>10, SeqEqual
    <2> QED
      BY <2>1, <2>3, <2>7, <2>8, <2>11
  <1> QED
    BY <1>3, <1>4, <1>5

\* What follows where a journal reads whole.
LEMMA WholeAgrees ==
    ASSUME NEW file \in Seq(FileSlots), NEW all \in SUBSET Snapshots, NEW there \in all,
           NEW st \in States, NEW txn, NEW end, Reads(file, st, txn, end, all, there)
    PROVE  /\ Agree(file, all, there) /\ ~Found(file, there).corrupt /\ end = Len(file)
           /\ Found(file, there).st = st /\ Found(file, there).txn = txn
           /\ Found(file, there).end = end /\ ~Found(file, there).stop
           /\ \A s \in all : /\ Found(file, s).st.items = st.items
                             /\ st.corrupt => Found(file, s).st.corrupt
  <1>1. ASSUME NEW s \in all
        PROVE  /\ Found(file, s).st.items = st.items /\ (st.corrupt => Found(file, s).st.corrupt)
               /\ Read(file, s).end = Len(file)
    <2>1. s \in Snapshots /\ Loaded(s) \in Snapshots
      BY StartType
    <2>2. Read(file, s).end = Len(file)
      BY <2>1, ReplayType DEF Reads, Whole, Read
    <2> QED
      BY <2>1, <2>2, FoundIs DEF Reads
  <1>2. Found(file, there) = Read(file, there) /\ ~Found(file, there).corrupt
    BY FoundIs DEF Reads, Whole
  <1>3. \A s \in all : /\ Read(file, s).txn = txn /\ Read(file, s).end = end
                       /\ ~Read(file, s).stop /\ ~Read(file, s).corrupt
                       /\ Read(file, s).st.items = st.items
    BY DEF Reads, Whole
  <1>4. \A s \in all : Read(file, s).stop \in BOOLEAN /\ Read(file, s).corrupt \in BOOLEAN
    BY FoundIs DEF Plays
  <1>5. Read(file, there).st = st
    BY DEF Reads
  <1>6. Agree(file, all, there)
    BY <1>1, <1>2, <1>3, <1>4, <1>5 DEF Agree, Alike
  <1> QED
    BY <1>1, <1>2, <1>3, <1>5, <1>6

\* A record behind a journal that reads whole is applied.
LEMMA ReadsRecord ==
    ASSUME NEW file \in Seq(FileSlots), NEW all \in SUBSET Snapshots, NEW there \in all,
           NEW st \in States, NEW txn \in 0..MaxTxn, txn < MaxTxn, NEW end,
           NEW t \in Transactions \cup {NoTxn}, Reads(file, st, txn, end, all, there)
    PROVE  /\ Append(file, Record(txn + 1, t)) \in Seq(FileSlots)
           /\ Reads(Append(file, Record(txn + 1, t)), Apply(st, t), txn + 1, end + 1, all, there)
  <1>1. PICK x : x = Record(txn + 1, t)
    OBVIOUS
  <1>2. x \in FileSlots /\ x.kind = "record" /\ x.n = txn + 1 /\ x.txn = t
    BY <1>1, SlotTypes, BoundAssumption
  <1>3. PICK f : f = Append(file, x)
    OBVIOUS
  <1>4. f \in Seq(FileSlots)
    BY <1>2, <1>3, AppendOf
  <1>5. ASSUME NEW s \in all
        PROVE  /\ Read(f, s).st = Apply(Read(file, s).st, t)
               /\ Whole(Read(f, s), txn + 1, end + 1)
    <2>1. s \in Snapshots /\ Loaded(s) \in Snapshots
      BY StartType
    <2>2. PICK p : p = Read(file, s)
      OBVIOUS
    <2>3. p \in Plays /\ p.txn = txn /\ p.end = end /\ ~p.stop /\ ~p.corrupt
      BY <2>1, <2>2, FoundIs DEF Reads, Whole
    <2>5. x.n = p.txn + 1 /\ x.n <= p.txn + 1
      BY <1>2, <2>3
    <2>7. p = Replay(file, Loaded(s))
      BY <2>2 DEF Read
    <2>8. Replay(f, Loaded(s)) = ReadRecord(p, x)
      BY <1>2, <1>3, <2>1, <2>3, <2>5, <2>7, ReplayMore
    <2>4. Read(f, s) = ReadRecord(p, x)
      BY <2>8 DEF Read
    <2>6. /\ ReadRecord(p, x).end = p.end + 1
          /\ ~ReadRecord(p, x).stop /\ ~ReadRecord(p, x).corrupt
          /\ ReadRecord(p, x).st = Apply(p.st, x.txn) /\ ReadRecord(p, x).txn = x.n
      BY <1>2, <2>3, <2>5, RecordType
    <2> QED
      BY <1>2, <2>2, <2>3, <2>4, <2>6 DEF Whole
  <1>6. \A s \in all : Read(file, s).st.items = st.items
                       /\ (st.corrupt => Read(file, s).st.corrupt \/ ~s.readable)
    BY DEF Reads
  <1>7. ASSUME NEW s \in all
        PROVE  /\ Read(f, s).st.items = Apply(st, t).items
               /\ Apply(st, t).corrupt => Read(f, s).st.corrupt \/ ~s.readable
    <2>1. Read(f, s).st = Apply(Read(file, s).st, t)
      BY <1>5
    <2>2. Read(file, s).st.items = st.items
          /\ (st.corrupt => Read(file, s).st.corrupt \/ ~s.readable)
      BY <1>6
    <2>3. PICK q : q = Read(file, s).st
      OBVIOUS
    <2>4. q \in States
      BY <2>3, FoundIs DEF Plays
    <2>5. Apply(q, t).items = Apply(st, t).items
      BY <2>2, <2>3 DEF Apply
    <2>6. Apply(st, t).corrupt => Apply(q, t).corrupt \/ ~s.readable
      BY <2>2, <2>3, <2>4, ApplyType
    <2> QED
      BY <2>1, <2>3, <2>5, <2>6
  <1>8. there.readable /\ Read(file, there).st = st
    BY DEF Reads
  <1>9. Read(f, there).st = Apply(st, t)
    BY <1>5, <1>8
  <1> QED
    BY <1>1, <1>3, <1>4, <1>5, <1>7, <1>8, <1>9 DEF Reads

\* What is not a record behind a journal that reads whole changes nothing.
LEMMA ReadsBlank ==
    ASSUME NEW file \in Seq(FileSlots), NEW all \in SUBSET Snapshots, NEW there \in all,
           NEW st \in States, NEW txn, NEW end, Reads(file, st, txn, end, all, there),
           NEW x \in FileSlots, x.kind # "record"
    PROVE  /\ Append(file, x) \in Seq(FileSlots) /\ Agree(Append(file, x), all, there)
           /\ ~Found(Append(file, x), there).corrupt
           /\ \A s \in all : /\ Found(Append(file, x), s).st.items = st.items
                             /\ st.corrupt => Found(Append(file, x), s).st.corrupt
  <1>1. PICK f : f = Append(file, x)
    OBVIOUS
  <1>2. f \in Seq(FileSlots)
    BY <1>1, AppendOf
  <1>3. ASSUME NEW s \in all
        PROVE  /\ Read(f, s).st = Read(file, s).st /\ Read(f, s).txn = txn
               /\ Read(f, s).end = end /\ Read(f, s).stop = TRUE /\ Read(f, s).corrupt = FALSE
    <2>1. s \in Snapshots /\ Loaded(s) \in Snapshots
      BY StartType
    <2>2. PICK p : p = Read(file, s)
      OBVIOUS
    <2>3. p \in Plays /\ p.txn = txn /\ p.end = end /\ ~p.stop /\ ~p.corrupt
      BY <2>1, <2>2, FoundIs DEF Reads, Whole
    <2>4. Read(f, s) = [p EXCEPT !.stop = TRUE, !.corrupt = FALSE]
      BY <1>1, <2>1, <2>2, <2>3, ReplayMore DEF Read
    <2> QED
      BY <2>2, <2>3, <2>4 DEF Plays
  <1>4. \A s \in all : Read(file, s).st.items = st.items
                       /\ (st.corrupt => Read(file, s).st.corrupt \/ ~s.readable)
    BY DEF Reads
  <1>5. there.readable /\ Read(file, there).st = st
    BY DEF Reads
  <1>10. Read(f, there).st = st
    BY <1>3, <1>5
  <1>6. ASSUME NEW s \in all
        PROVE  /\ Found(f, s).st.items = st.items
               /\ (st.corrupt => Found(f, s).st.corrupt)
    <2>1. Found(f, s).st.items = Read(f, s).st.items
      BY <1>2, FoundIs
    <2>2. Found(f, s).st.corrupt <=>
            Read(f, s).st.corrupt \/ Read(f, s).corrupt \/ ~s.readable
      BY <1>2, FoundIs
    <2>3. Read(f, s).st = Read(file, s).st
      BY <1>3
    <2> QED
      BY <1>4, <2>1, <2>2, <2>3
  <1>7. ~Found(f, there).corrupt
    BY <1>2, <1>3, <1>5, FoundIs
  <1>8. Found(f, there).st = st
    BY <1>2, <1>7, <1>10, FoundIs
  <1>9. Agree(f, all, there)
    BY <1>3, <1>4, <1>6, <1>8, <1>10 DEF Agree, Alike
  <1> QED
    BY <1>1, <1>2, <1>6, <1>7, <1>9

\* A journal that is not damaged, cut where it stops, reads whole.
LEMMA ReadsCut ==
    ASSUME NEW file \in Seq(FileSlots), NEW all \in SUBSET Snapshots, NEW there \in all,
           Agree(file, all, there), ~Found(file, there).corrupt
    PROVE  LET r == Found(file, there)
           IN  Reads(Resized(file, r.end), r.st, r.txn, r.end, all, there)
  <1>1. PICK r : r = Found(file, there)
    OBVIOUS
  <1>2. /\ r = Read(file, there) /\ there.readable /\ ~r.corrupt
        /\ r \in Plays
    BY <1>1, FoundIs
  <1>3. PICK f : f = Resized(file, r.end)
    OBVIOUS
  <1>4. ASSUME NEW s \in all
        PROVE  /\ Read(f, s).st = Read(file, s).st
               /\ Whole(Read(f, s), r.txn, r.end) /\ Read(file, s).st.items = r.st.items
               /\ r.st.corrupt => Read(file, s).st.corrupt \/ ~s.readable
    <2>1. s \in Snapshots /\ Loaded(s) \in Snapshots
      BY StartType
    <2>2. PICK p : p = Read(file, s)
      OBVIOUS
    <2>3. p \in Plays /\ p.txn = r.txn /\ p.end = r.end /\ p.st.items = r.st.items
          /\ p.corrupt = r.corrupt
      BY <1>2, <2>1, <2>2, FoundIs DEF Agree, Alike
    <2>4. Read(f, s) = [p EXCEPT !.stop = FALSE, !.corrupt = FALSE]
      BY <1>3, <2>1, <2>2, <2>3, ReplayCut DEF Read
    <2>5. r.st.corrupt => Found(file, s).st.corrupt
      BY <1>1 DEF Agree
    <2>6. Found(file, s).st.corrupt => p.st.corrupt \/ p.corrupt \/ ~s.readable
      BY <2>1, <2>2, FoundIs
    <2>7. r.st.corrupt => p.st.corrupt \/ ~s.readable
      BY <1>2, <2>3, <2>5, <2>6
    <2> QED
      BY <2>2, <2>3, <2>4, <2>7 DEF Whole, Plays
  <1>5. Read(f, there).st = r.st
    BY <1>2, <1>4
  <1>6. Reads(f, r.st, r.txn, r.end, all, there)
    BY <1>2, <1>4, <1>5 DEF Reads
  <1> QED
    BY <1>1, <1>3, <1>6

\* A snapshot of what was found, beside or instead of the one it was found after.
LEMMA ReadsRenamed ==
    ASSUME NEW file \in Seq(FileSlots), NEW all \in SUBSET Snapshots, NEW there \in all,
           Agree(file, all, there),
           NEW w, w = Snapshot(Read(file, there).txn, Found(file, there).st)
    PROVE  /\ w \in Snapshots /\ Agree(file, all \cup {w}, w)
           /\ Found(file, w).st = Found(file, there).st
           /\ Alike(Read(file, there), Read(file, w))
  <1> DEFINE st == Found(file, there).st
             txn == Read(file, there).txn
  <1>1. w = Snapshot(txn, st) /\ st \in States
    BY FoundIs DEF Plays
  <1> HIDE DEF st, txn
  <1>2. PICK p : p = Read(file, there)
    OBVIOUS
  <1>3. Loaded(there) \in Snapshots /\ p = Replay(file, Loaded(there)) /\ p \in Plays
    BY <1>2, FoundIs DEF Read
  <1>4. w \in Snapshots /\ Replay(file, w) = [p EXCEPT !.st = st]
    <2>1. PICK l \in Snapshots : l = Loaded(there)
      BY <1>3
    <2>2. p = Replay(file, l) /\ Replay(file, l).txn = txn
      BY <1>2, <1>3, <2>1 DEF txn
    <2>3. /\ Snapshot(Replay(file, l).txn, st) \in Snapshots
          /\ Replay(file, Snapshot(Replay(file, l).txn, st)) = [Replay(file, l) EXCEPT !.st = st]
      BY <1>1, ReplayAgain
    <2> QED
      BY <1>1, <2>2, <2>3
  <1>5. w.readable /\ w.through = txn /\ w.st = st
    BY <1>1 DEF Snapshot
  <1>6. Read(file, w) = [p EXCEPT !.st = st]
    BY <1>4, <1>5 DEF Read, Loaded
  <1>7. /\ Read(file, w).txn = p.txn /\ Read(file, w).end = p.end
        /\ Read(file, w).stop = p.stop /\ Read(file, w).corrupt = p.corrupt
        /\ Read(file, w).st = st
    BY <1>3, <1>6 DEF Plays
  <1>8. /\ p.st.items = st.items
        /\ (st.corrupt <=> p.st.corrupt \/ p.corrupt \/ ~there.readable)
    BY <1>2, FoundIs DEF st
  <1>9. PICK t : t = Found(file, w).st
    OBVIOUS
  <1>10. t \in States /\ t.items = st.items
         /\ (t.corrupt <=> st.corrupt \/ p.corrupt \/ ~w.readable)
    BY <1>4, <1>7, <1>9, FoundIs DEF Plays
  <1>11. t.corrupt <=> st.corrupt
    BY <1>5, <1>8, <1>10
  <1>12. t = st
    BY <1>1, <1>10, <1>11 DEF States
  <1>13. ASSUME NEW s \in all
         PROVE  /\ Alike(Read(file, s), Read(file, w))
                /\ Found(file, w).st.corrupt => Found(file, s).st.corrupt
    <2>1. Alike(Read(file, s), p) /\ (st.corrupt => Found(file, s).st.corrupt)
      BY <1>2 DEF Agree, st
    <2> QED
      BY <1>7, <1>8, <1>9, <1>12, <2>1 DEF Alike
  <1>14. Alike(Read(file, w), Read(file, w))
    BY DEF Alike
  <1>15. Agree(file, all \cup {w}, w)
    BY <1>13, <1>14 DEF Agree
  <1> QED
    BY <1>2, <1>4, <1>5, <1>7, <1>9, <1>12, <1>13, <1>15 DEF st

\* A journal that reads whole reads whole after the new snapshot.
LEMMA ReadsToo ==
    ASSUME NEW file \in Seq(FileSlots), NEW all, NEW there \in all, NEW st, NEW txn, NEW end,
           Reads(file, st, txn, end, all, there),
           NEW w \in Snapshots, w.readable, Found(file, w).st = st,
           Alike(Read(file, there), Read(file, w))
    PROVE  Reads(file, st, txn, end, all \cup {w}, w)
  <1>1. \A s \in all :
          /\ Whole(Read(file, s), txn, end) /\ Read(file, s).st.items = st.items
          /\ (st.corrupt => Read(file, s).st.corrupt \/ ~s.readable)
    BY DEF Reads
  <1>2. Whole(Read(file, w), txn, end)
    BY <1>1 DEF Whole, Alike
  <1>3. Found(file, w) = Read(file, w)
    BY <1>2, FoundIs DEF Whole
  <1>4. Read(file, w).st = st
    BY <1>3
  <1> QED
    BY <1>1, <1>2, <1>4 DEF Reads

\* An empty journal reads as the snapshot.
LEMMA ReadsEmpty ==
    ASSUME NEW st \in States, NEW txn \in 0..MaxTxn
    PROVE  LET w == Snapshot(txn, st)
           IN  <<>> \in Seq(FileSlots) /\ w \in Snapshots /\ Reads(<<>>, st, txn, 0, {w}, w)
  <1>1. PICK w : w = Snapshot(txn, st)
    OBVIOUS
  <1>2. w \in Snapshots /\ w.readable /\ w.through = txn /\ w.st = st
    BY <1>1 DEF Snapshot, Snapshots
  <1>3. Read(<<>>, w) = Started(w) /\ <<>> \in Seq(FileSlots)
    BY <1>2, StartType, ReplayEmpty DEF Read
  <1>4. Whole(Read(<<>>, w), txn, 0) /\ Read(<<>>, w).st = st
    BY <1>2, <1>3, StartType DEF Whole
  <1> QED
    BY <1>1, <1>2, <1>3, <1>4 DEF Reads

\* A single snapshot agrees with itself.
LEMMA AgreesAlone ==
    ASSUME NEW file, NEW s
    PROVE  Agree(file, {s}, s)
  BY DEF Agree, Alike

\* What is like a known state is known, and so is what is known of fewer states.
LEMMA KnownLike ==
    ASSUME NEW states, NEW st, NEW t, Known(states, st), t.items = st.items,
           st.corrupt => t.corrupt
    PROVE  Known(states, t) /\ \A more : Known(states \cup more, t)
  BY DEF Known

----------------------------------------------------------------------------
(* One lemma for each action                                               *)

\* The budget only shrinks.
LEMMA LeftType ==
    ASSUME TypeInv, NEW f \in Faults, UNCHANGED left \/ Takes(f)
    PROVE  left' \in [Faults -> Nat] /\ \A g \in Faults : left'[g] <= Budget[g]
  <1>1. CASE UNCHANGED left
    BY <1>1 DEF TypeInv
  <1>2. CASE Takes(f)
    <2>1. left \in [Faults -> Nat] /\ \A g \in Faults : left[g] <= Budget[g] /\ Budget[g] \in Nat
      BY BoundAssumption DEF TypeInv
    <2>2. left[f] > 0 /\ left' = [left EXCEPT ![f] = left[f] - 1]
      BY <1>2 DEF Takes
    <2>3. left[f] - 1 \in Nat /\ left[f] - 1 <= Budget[f]
      BY <2>1, <2>2
    <2>4. \A g \in Faults : left'[g] = IF g = f THEN left[f] - 1 ELSE left[g]
      BY <2>1, <2>2
    <2>5. left' \in [Faults -> Nat]
      BY <2>1, <2>2, <2>3
    <2> QED
      BY <2>1, <2>3, <2>4, <2>5
  <1> QED
    BY <1>1, <1>2

\* Where the files and the history stay, so does what may be read.
LEMMA SameFiles ==
    ASSUME Inv, UNCHANGED <<files, committed, maybe>>
    PROVE  OutcomeInv' /\ AgreeInv' /\ DamageInv'
  <1>1. UNCHANGED <<log, logs, snap, snaps, committed, maybe>>
    BY DEF files
  <1>2. OutcomeInv'
    BY <1>1 DEF Inv, OutcomeInv, Accounted
  <1>3. AgreeInv'
    BY <1>1 DEF Inv, AgreeInv
  <1>4. DamageInv'
    BY <1>1 DEF Inv, DamageInv
  <1> QED
    BY <1>2, <1>3, <1>4

\* A transaction is taken up where the journal reads as the open store.
LEMMA CommitStep ==
    ASSUME Inv, NEW t \in Transactions, Commit(t)
    PROVE  Inv'
  <1>1. UNCHANGED <<log, logs, snap, snaps, mem, opening, committed, maybe, left>>
        /\ pc = "idle" /\ ~mem.broken /\ pc' = "write" /\ cur' = t /\ mem.txn < MaxTxn
    BY DEF Commit, files
  <1>2. TypeInv'
    BY <1>1 DEF Inv, TypeInv, Operations
  <1>3. OutcomeInv' /\ AgreeInv' /\ DamageInv'
    BY <1>1, SameFiles DEF files
  <1>4. BaseInv' /\ Len(log') = mem'.size
    BY <1>1 DEF Inv, StepInv, BaseInv, Base
  <1>5. Known(Accounted', mem'.st) /\ ~mem'.broken /\ ~opening'
    BY <1>1 DEF Inv, StepInv, Accounted, Compacting
  <1>6. StepInv'
    BY <1>1, <1>4, <1>5 DEF StepInv, Compacting
  <1> QED
    BY <1>2, <1>3, <1>6 DEF Inv

\* A killed process leaves the files as they are.
LEMMA KillStep ==
    ASSUME Inv, Kill
    PROVE  Inv'
  <1>1. /\ UNCHANGED <<log, logs, snap, snaps, committed, maybe>>
        /\ pc' = "closed" /\ opening' = FALSE /\ mem' = NoMem /\ cur' = NoTxn
    BY DEF Kill, files
  <1>2. OutcomeInv' /\ AgreeInv' /\ DamageInv'
    BY <1>1, SameFiles DEF files
  <1>3. Takes("kill") /\ "kill" \in Faults
    BY DEF Kill, Faults
  <1>4. left' \in [Faults -> Nat] /\ \A g \in Faults : left'[g] <= Budget[g]
    BY <1>3, LeftType DEF Inv
  <1>5. NoMem \in [st : States, txn : 0..MaxTxn, size : Nat, broken : BOOLEAN] /\ ~NoMem.broken
    BY BoundAssumption DEF NoMem, NewState, States
  <1>6. TypeInv'
    BY <1>1, <1>4, <1>5 DEF Inv, TypeInv, Operations
  <1>7. StepInv'
    BY <1>1, <1>5 DEF StepInv, Compacting
  <1> QED
    BY <1>2, <1>6, <1>7 DEF Inv

\* After a power loss the files have one content each.
LEMMA PowerLossStep ==
    ASSUME Inv, PowerLoss
    PROVE  Inv'
  <1>1. /\ log' \in logs /\ logs' = {log'} /\ snap' \in snaps /\ snaps' = {snap'}
        /\ committed' = Found(log', snap').st /\ maybe' = {}
        /\ pc' = "closed" /\ opening' = FALSE /\ mem' = NoMem /\ cur' = NoTxn
    BY DEF PowerLoss
  <1>2. log' \in Seq(FileSlots) /\ snap' \in Snapshots
    BY <1>1 DEF Inv, TypeInv
  <1>3. committed' \in States
    BY <1>1, <1>2, FoundIs DEF Plays
  <1>4. Takes("power") /\ "power" \in Faults
    BY DEF PowerLoss, Faults
  <1>5. left' \in [Faults -> Nat] /\ \A g \in Faults : left'[g] <= Budget[g]
    BY <1>4, LeftType DEF Inv
  <1>6. NoMem \in [st : States, txn : 0..MaxTxn, size : Nat, broken : BOOLEAN] /\ ~NoMem.broken
    BY BoundAssumption DEF NoMem, NewState, States
  <1>7. TypeInv'
    BY <1>1, <1>2, <1>3, <1>5, <1>6 DEF TypeInv, Operations
  <1>8. OutcomeInv'
    BY <1>1 DEF OutcomeInv, Accounted, Known
  <1>9. AgreeInv' /\ DamageInv'
    BY <1>1, AgreesAlone DEF AgreeInv, DamageInv
  <1>10. StepInv'
    BY <1>1, <1>6 DEF StepInv, Compacting
  <1> QED
    BY <1>7, <1>8, <1>9, <1>10 DEF Inv

\* A step of a file operation takes nothing, or one error, from the budget.
LEMMA ErrorType ==
    ASSUME TypeInv, UNCHANGED left \/ \E operation : Fails(operation)
    PROVE  left' \in [Faults -> Nat] /\ \A g \in Faults : left'[g] <= Budget[g]
  <1>1. "error" \in Faults
    BY DEF Faults
  <1>2. UNCHANGED left \/ Takes("error")
    BY DEF Fails
  <1> QED
    BY <1>1, <1>2, LeftType

\* Where the journal reads as the open store, and nothing else may be left of it, what may
\* be read is the open store.
LEMMA SettledAs ==
    ASSUME Inv, NEW st \in States, NEW txn, NEW end, Reads(log, st, txn, end, snaps, snap),
           UNCHANGED <<log, snap, snaps>>, logs' = {log}, committed' = st, maybe' = {},
           mem'.st = st, mem'.txn = txn, mem'.size = end, ~opening'
    PROVE  /\ OutcomeInv' /\ AgreeInv' /\ DamageInv' /\ BaseInv' /\ CompactInv'
           /\ Len(log') = mem'.size /\ Known(Accounted', mem'.st)
  <1>1. log \in Seq(FileSlots) /\ snaps \in SUBSET Snapshots /\ snap \in snaps
    BY DEF Inv, TypeInv
  <1>2. /\ Len(log) = end /\ Found(log, snap).st = st
        /\ \A s \in snaps : /\ Found(log, s).st.items = st.items
                            /\ (st.corrupt => Found(log, s).st.corrupt)
    BY <1>1, WholeAgrees
  <1>3. Read(log, snap).txn = txn
    BY <1>1 DEF Reads, Whole
  <1>4. OutcomeInv'
    BY <1>2 DEF OutcomeInv, Accounted, Known
  <1>5. AgreeInv' /\ DamageInv'
    BY DEF Inv, AgreeInv, DamageInv
  <1>6. Resized(log, end) = log
    BY <1>1, <1>2, SizeOf
  <1>7. BaseInv'
    BY <1>6 DEF BaseInv, Base
  <1>8. Known(Accounted', mem'.st)
    BY DEF Accounted, Known
  <1>9. CompactInv'
    BY <1>2, <1>3, <1>7 DEF CompactInv
  <1> QED
    BY <1>2, <1>4, <1>5, <1>7, <1>8, <1>9

\* The same where the open store stays as it is.
LEMMA Settled ==
    ASSUME Inv, BaseInv, Len(log) = mem.size,
           UNCHANGED <<log, snap, snaps, mem>>, logs' = {log},
           committed' = mem.st, maybe' = {}, ~opening'
    PROVE  OutcomeInv' /\ AgreeInv' /\ DamageInv' /\ BaseInv'
           /\ Known(Accounted', mem'.st)
  <1>1. log \in Seq(FileSlots) /\ mem.st \in States
    BY DEF Inv, TypeInv
  <1>2. Reads(log, mem.st, mem.txn, mem.size, snaps, snap)
    BY <1>1, SizeOf DEF BaseInv, Base
  <1> QED
    BY <1>1, <1>2, SettledAs

\* The sync of the rolled back journal.
LEMMA RollbackSyncStep ==
    ASSUME Inv, RollbackSync
    PROVE  Inv'
  <1>1. /\ pc = "rollback_sync" /\ pc' = "idle"
        /\ UNCHANGED <<log, snap, snaps, opening, cur>>
    BY DEF RollbackSync
  <1>2. left' \in [Faults -> Nat] /\ \A g \in Faults : left'[g] <= Budget[g]
    BY ErrorType DEF RollbackSync, Inv
  <1>3. BaseInv /\ Len(log) = mem.size /\ ~opening /\ ~mem.broken /\ Known(Accounted, mem.st)
    BY <1>1 DEF Inv, StepInv, Compacting
  <1>4. CASE logs' = {log} /\ committed' = mem.st /\ maybe' = {} /\ UNCHANGED mem
    <2>1. OutcomeInv' /\ AgreeInv' /\ DamageInv' /\ BaseInv' /\ Known(Accounted', mem'.st)
      BY <1>1, <1>3, <1>4, Settled
    <2>2. TypeInv'
      BY <1>1, <1>2, <1>4 DEF Inv, TypeInv, Operations
    <2>3. StepInv'
      BY <1>1, <1>3, <1>4, <2>1 DEF StepInv, Compacting
    <2> QED
      BY <2>1, <2>2, <2>3 DEF Inv
  <1>5. CASE mem' = [mem EXCEPT !.broken = TRUE] /\ UNCHANGED <<logs, committed, maybe>>
    <2>1. OutcomeInv' /\ AgreeInv' /\ DamageInv'
      BY <1>1, <1>5, SameFiles DEF files
    <2>2. mem' \in [st : States, txn : 0..MaxTxn, size : Nat, broken : BOOLEAN]
          /\ mem'.broken /\ mem'.st = mem.st
      BY <1>5 DEF Inv, TypeInv
    <2>3. TypeInv'
      BY <1>1, <1>2, <1>5, <2>2 DEF Inv, TypeInv, Operations
    <2>4. Known(Accounted', mem'.st)
      BY <1>3, <1>5, <2>2 DEF Accounted
    <2>5. StepInv'
      BY <1>1, <1>3, <2>2, <2>4 DEF StepInv, Compacting
    <2> QED
      BY <2>1, <2>3, <2>5 DEF Inv
  <1> QED
    BY <1>4, <1>5 DEF RollbackSync

\* The sync of the journal without its torn tail.
LEMMA TailSyncStep ==
    ASSUME Inv, TailSync
    PROVE  Inv'
  <1>1. /\ pc = "tail_sync" /\ UNCHANGED <<log, snap, snaps, mem, opening, cur>>
        /\ pc' \in {"idle", "closed"}
    BY DEF TailSync
  <1>2. left' \in [Faults -> Nat] /\ \A g \in Faults : left'[g] <= Budget[g]
    BY ErrorType DEF TailSync, Inv
  <1>3. BaseInv /\ Len(log) = mem.size /\ ~opening /\ ~mem.broken
    BY <1>1 DEF Inv, StepInv, Compacting
  <1>4. CASE logs' = {log} /\ committed' = mem.st /\ maybe' = {} /\ pc' = "idle"
    <2>1. OutcomeInv' /\ AgreeInv' /\ DamageInv' /\ BaseInv' /\ Known(Accounted', mem'.st)
      BY <1>1, <1>3, <1>4, Settled
    <2>2. TypeInv'
      BY <1>1, <1>2, <1>4 DEF Inv, TypeInv, Operations
    <2>3. StepInv'
      BY <1>1, <1>3, <1>4, <2>1 DEF StepInv, Compacting
    <2> QED
      BY <2>1, <2>2, <2>3 DEF Inv
  <1>5. CASE pc' = "closed" /\ UNCHANGED <<logs, committed, maybe>>
    <2>1. OutcomeInv' /\ AgreeInv' /\ DamageInv'
      BY <1>1, <1>5, SameFiles DEF files
    <2>2. TypeInv'
      BY <1>1, <1>2, <1>5 DEF Inv, TypeInv, Operations
    <2>3. StepInv'
      BY <1>1, <1>3, <1>5 DEF StepInv, Compacting
    <2> QED
      BY <2>1, <2>2, <2>3 DEF Inv
  <1> QED
    BY <1>4, <1>5 DEF TailSync

\* The journal truncated to what the open store stands for.
LEMMA Truncated ==
    ASSUME Inv, BaseInv, Known(Accounted, mem.st),
           UNCHANGED <<snap, snaps, mem, committed, maybe>>,
           log' = Resized(log, mem.size), logs' = logs \cup {log'}
    PROVE  /\ log' \in Seq(FileSlots) /\ OutcomeInv' /\ AgreeInv' /\ DamageInv' /\ BaseInv'
           /\ Len(log') = mem'.size /\ Known(Accounted', mem'.st)
  <1>1. /\ log \in Seq(FileSlots) /\ snaps \in SUBSET Snapshots /\ snap \in snaps
        /\ mem.st \in States /\ mem.size \in Nat
    BY DEF Inv, TypeInv
  <1>2. PICK f : f = Resized(log, mem.size)
    OBVIOUS
  <1>3. f \in Seq(FileSlots) /\ Len(f) = mem.size /\ f = Base
    BY <1>1, <1>2, SizeOf DEF Base
  <1>4. Reads(f, mem.st, mem.txn, mem.size, snaps, snap)
    BY <1>3 DEF BaseInv
  <1>5. /\ Agree(f, snaps, snap) /\ ~Found(f, snap).corrupt
        /\ \A s \in snaps : /\ Found(f, s).st.items = mem.st.items
                            /\ (mem.st.corrupt => Found(f, s).st.corrupt)
    BY <1>1, <1>3, <1>4, WholeAgrees
  <1>6. \A s \in snaps : Known(Accounted, Found(f, s).st)
    BY <1>5 DEF Known
  <1>7. log' = f /\ logs' = logs \cup {f} /\ Accounted' = Accounted
    BY <1>2 DEF Accounted
  <1>8. OutcomeInv'
    BY <1>6, <1>7 DEF Inv, OutcomeInv
  <1>9. AgreeInv' /\ DamageInv'
    BY <1>5, <1>7 DEF AgreeInv, DamageInv
  <1>10. Resized(f, mem.size) = f
    BY <1>3, SizeOf
  <1>11. BaseInv'
    BY <1>4, <1>7, <1>10 DEF BaseInv, Base
  <1> QED
    BY <1>3, <1>7, <1>8, <1>9, <1>11

\* The truncation of a rollback.
LEMMA RollbackStep ==
    ASSUME Inv, Rollback
    PROVE  Inv'
  <1>1. /\ pc = "rollback" /\ UNCHANGED <<snap, snaps, opening, cur, committed, maybe>>
    BY DEF Rollback
  <1>2. left' \in [Faults -> Nat] /\ \A g \in Faults : left'[g] <= Budget[g]
    BY ErrorType DEF Rollback, Inv
  <1>3. BaseInv /\ ~opening /\ ~mem.broken /\ Known(Accounted, mem.st)
    BY <1>1 DEF Inv, StepInv, Compacting
  <1>4. CASE /\ log' = Resized(log, mem.size) /\ logs' = logs \cup {log'}
             /\ pc' = "rollback_sync" /\ UNCHANGED mem
    <2>1. /\ log' \in Seq(FileSlots) /\ OutcomeInv' /\ AgreeInv' /\ DamageInv' /\ BaseInv'
          /\ Len(log') = mem'.size /\ Known(Accounted', mem'.st)
      BY <1>1, <1>3, <1>4, Truncated
    <2>2. TypeInv'
      BY <1>1, <1>2, <1>4, <2>1 DEF Inv, TypeInv, Operations
    <2>3. StepInv'
      BY <1>1, <1>3, <1>4, <2>1 DEF StepInv, Compacting
    <2> QED
      BY <2>1, <2>2, <2>3 DEF Inv
  <1>5. CASE mem' = [mem EXCEPT !.broken = TRUE] /\ pc' = "idle" /\ UNCHANGED <<log, logs>>
    <2>1. OutcomeInv' /\ AgreeInv' /\ DamageInv'
      BY <1>1, <1>5, SameFiles DEF files
    <2>2. mem' \in [st : States, txn : 0..MaxTxn, size : Nat, broken : BOOLEAN]
          /\ mem'.broken /\ mem'.st = mem.st
      BY <1>5 DEF Inv, TypeInv
    <2>3. TypeInv'
      BY <1>1, <1>2, <1>5, <2>2 DEF Inv, TypeInv, Operations
    <2>4. Known(Accounted', mem'.st)
      BY <1>1, <1>3, <2>2 DEF Accounted
    <2>5. StepInv'
      BY <1>1, <1>3, <1>5, <2>2, <2>4 DEF StepInv, Compacting
    <2> QED
      BY <2>1, <2>3, <2>5 DEF Inv
  <1> QED
    BY <1>4, <1>5 DEF Rollback

\* The truncation of a torn tail.
LEMMA CutTailStep ==
    ASSUME Inv, CutTail
    PROVE  Inv'
  <1>1. /\ pc = "tail" /\ UNCHANGED <<snap, snaps, mem, opening, cur, committed, maybe>>
    BY DEF CutTail
  <1>2. left' \in [Faults -> Nat] /\ \A g \in Faults : left'[g] <= Budget[g]
    BY ErrorType DEF CutTail, Inv
  <1>3. BaseInv /\ ~opening /\ ~mem.broken /\ Known(Accounted, mem.st)
    BY <1>1 DEF Inv, StepInv, Compacting
  <1>4. CASE /\ log' = Resized(log, mem.size) /\ logs' = logs \cup {log'}
             /\ pc' = "tail_sync"
    <2>1. /\ log' \in Seq(FileSlots) /\ OutcomeInv' /\ AgreeInv' /\ DamageInv' /\ BaseInv'
          /\ Len(log') = mem'.size /\ Known(Accounted', mem'.st)
      BY <1>1, <1>3, <1>4, Truncated
    <2>2. TypeInv'
      BY <1>1, <1>2, <1>4, <2>1 DEF Inv, TypeInv, Operations
    <2>3. StepInv'
      BY <1>1, <1>3, <1>4, <2>1 DEF StepInv, Compacting
    <2> QED
      BY <2>1, <2>2, <2>3 DEF Inv
  <1>5. CASE pc' = "closed" /\ UNCHANGED <<log, logs>>
    <2>1. OutcomeInv' /\ AgreeInv' /\ DamageInv'
      BY <1>1, <1>5, SameFiles DEF files
    <2>2. TypeInv'
      BY <1>1, <1>2, <1>5 DEF Inv, TypeInv, Operations
    <2>3. StepInv'
      BY <1>1, <1>3, <1>5 DEF StepInv, Compacting
    <2> QED
      BY <2>1, <2>2, <2>3 DEF Inv
  <1> QED
    BY <1>4, <1>5 DEF CutTail

\* What a write may leave in place of the record is passed over.
LEMMA Parts ==
    ASSUME Inv, BaseInv, Len(log) = mem.size, Known(Accounted, mem.st),
           NEW kind \in {"torn", "zero"}
    PROVE  LET f == Placed(log, mem.size, Blank(kind))
           IN  /\ f \in Seq(FileSlots) /\ Resized(f, mem.size) = log
               /\ Agree(f, snaps, snap) /\ ~Found(f, snap).corrupt
               /\ \A s \in snaps : Known(Accounted, Found(f, s).st)
  <1>1. /\ log \in Seq(FileSlots) /\ snaps \in SUBSET Snapshots /\ snap \in snaps
        /\ mem.st \in States
    BY DEF Inv, TypeInv
  <1>2. Reads(log, mem.st, mem.txn, mem.size, snaps, snap)
    BY <1>1, SizeOf DEF BaseInv, Base
  <1>3. PICK x \in FileSlots : x = Blank(kind) /\ x.kind # "record"
    BY SlotTypes
  <1>4. Placed(log, mem.size, x) = Append(log, x) /\ Resized(Append(log, x), mem.size) = log
    BY <1>1, SizeOf
  <1>5. /\ Append(log, x) \in Seq(FileSlots) /\ Agree(Append(log, x), snaps, snap)
        /\ ~Found(Append(log, x), snap).corrupt
        /\ \A s \in snaps : /\ Found(Append(log, x), s).st.items = mem.st.items
                            /\ (mem.st.corrupt => Found(Append(log, x), s).st.corrupt)
    <2>1. PICK st \in States : st = mem.st
      BY <1>1
    <2>2. PICK txn : txn = mem.txn
      OBVIOUS
    <2>3. PICK end : end = mem.size
      OBVIOUS
    <2>4. PICK file \in Seq(FileSlots) : file = log
      BY <1>1
    <2>5. PICK all \in SUBSET Snapshots : all = snaps
      BY <1>1
    <2>6. PICK there \in all : there = snap
      BY <1>1, <2>5
    <2>7. Reads(file, st, txn, end, all, there) /\ x.kind # "record"
      BY <1>2, <1>3, <2>1, <2>2, <2>3, <2>4, <2>5, <2>6
    <2>8. /\ Append(file, x) \in Seq(FileSlots) /\ Agree(Append(file, x), all, there)
          /\ ~Found(Append(file, x), there).corrupt
          /\ \A s \in all : /\ Found(Append(file, x), s).st.items = st.items
                            /\ (st.corrupt => Found(Append(file, x), s).st.corrupt)
      BY <2>7, ReadsBlank
    <2> QED
      BY <2>1, <2>4, <2>5, <2>6, <2>8
  <1>6. \A s \in snaps : Known(Accounted, Found(Append(log, x), s).st)
    BY <1>5 DEF Known
  <1> QED
    BY <1>3, <1>4, <1>5, <1>6

\* The record is written at the end of the journal.
LEMMA WriteStep ==
    ASSUME Inv, Write
    PROVE  Inv'
  <1> DEFINE part == {Placed(log, mem.size, Blank(kind)) : kind \in {"torn", "zero"}}
             whole == Placed(log, mem.size, Record(mem.txn + 1, cur))
  <1>1. /\ pc = "write" /\ UNCHANGED <<snap, snaps, mem, opening, committed>>
    BY DEF Write
  <1>2. left' \in [Faults -> Nat] /\ \A g \in Faults : left'[g] <= Budget[g]
    BY ErrorType DEF Write, Inv
  <1>3. /\ BaseInv /\ Len(log) = mem.size /\ ~opening /\ ~mem.broken
        /\ Known(Accounted, mem.st) /\ mem.txn < MaxTxn
    BY <1>1 DEF Inv, StepInv, Compacting
  <1>4. /\ log \in Seq(FileSlots) /\ snaps \in SUBSET Snapshots /\ snap \in snaps
        /\ mem.st \in States /\ mem.txn \in 0..MaxTxn /\ cur \in Transactions \cup {NoTxn}
        /\ mem.size \in Nat
    BY DEF Inv, TypeInv
  <1>5. Reads(log, mem.st, mem.txn, mem.size, snaps, snap)
    BY <1>3, <1>4, SizeOf DEF BaseInv, Base
  <1>6. \A f \in part :
          /\ f \in Seq(FileSlots) /\ Resized(f, mem.size) = log
          /\ Agree(f, snaps, snap) /\ ~Found(f, snap).corrupt
          /\ \A s \in snaps : Known(Accounted, Found(f, s).st)
    BY <1>3, Parts
  <1>7. Resized(log, mem.size) = log
    BY <1>3, <1>4, SizeOf
  <1>8. CASE /\ log' = whole /\ logs' = logs \cup {whole} \cup part
             /\ maybe' = maybe \cup {Apply(mem.st, cur)} /\ pc' = "sync" /\ UNCHANGED cur
    <2>1. PICK st : st = Apply(mem.st, cur)
      OBVIOUS
    <2>2. st \in States
      BY <1>4, <2>1, ApplyType
    <2>3. PICK x \in FileSlots : x = Record(mem.txn + 1, cur)
      BY <1>3, <1>4, SlotTypes, BoundAssumption
    <2>19. Placed(log, mem.size, x) = Append(log, x) /\ Resized(Append(log, x), mem.size) = log
      BY <1>3, <1>4, SizeOf
    <2>4. whole = Append(log, x) /\ Resized(whole, mem.size) = log
      BY <2>3, <2>19
    <2>5. whole \in Seq(FileSlots) /\ Reads(whole, st, mem.txn + 1, mem.size + 1, snaps, snap)
      BY <1>3, <1>4, <1>5, <2>1, <2>3, <2>4, ReadsRecord, ZenonT(40)
    <2> HIDE DEF part, whole
    <2>6. PICK w : w = whole
      OBVIOUS
    <2>7. /\ Agree(w, snaps, snap) /\ ~Found(w, snap).corrupt
          /\ \A s \in snaps : /\ Found(w, s).st.items = st.items
                              /\ (st.corrupt => Found(w, s).st.corrupt)
      BY <1>4, <2>2, <2>5, <2>6, WholeAgrees
    <2>8. Accounted' = Accounted \cup {st}
      BY <1>1, <1>8, <2>1 DEF Accounted
    <2>9. /\ \A s \in snaps : Known(Accounted', Found(w, s).st)
          /\ Known(Accounted', st)
      BY <2>7, <2>8 DEF Known
    <2>10. \A f \in logs \cup part : \A s \in snaps : Known(Accounted', Found(f, s).st)
      <3>1. \A f \in logs \cup part : \A s \in snaps : Known(Accounted, Found(f, s).st)
        BY <1>6 DEF Inv, OutcomeInv
      <3> QED
        BY <2>8, <3>1 DEF Known
    <2>11. OutcomeInv'
      BY <1>1, <1>8, <2>6, <2>9, <2>10 DEF OutcomeInv
    <2>12. AgreeInv' /\ DamageInv'
      BY <1>1, <1>8, <2>6, <2>7 DEF AgreeInv, DamageInv
    <2>13. BaseInv' /\ log' = Append(Base', Record(mem'.txn + 1, cur'))
      BY <1>1, <1>5, <1>8, <2>3, <2>4 DEF BaseInv, Base
    <2>14. Known(Accounted', mem'.st)
      BY <1>1, <1>3, <2>8 DEF Known
    <2>15. Known(Accounted', Apply(mem'.st, cur'))
      BY <1>1, <1>8, <2>1, <2>9
    <2>16. maybe' \subseteq States /\ logs' \subseteq Seq(FileSlots) /\ log' \in logs'
      BY <1>6, <1>8, <2>1, <2>2, <2>5 DEF Inv, TypeInv
    <2>17. TypeInv'
      BY <1>1, <1>2, <1>8, <2>16 DEF Inv, TypeInv, Operations
    <2>18. StepInv'
      BY <1>1, <1>3, <1>8, <2>13, <2>14, <2>15 DEF StepInv, Compacting
    <2> QED
      BY <2>11, <2>12, <2>17, <2>18 DEF Inv
  <1>9. CASE /\ log' \in {log} \cup part /\ logs' = logs \cup part /\ pc' = "rollback"
             /\ cur' = NoTxn /\ UNCHANGED maybe
    <2> HIDE DEF part, whole
    <2>1. Accounted' = Accounted
      BY <1>1, <1>9 DEF Accounted
    <2>2. OutcomeInv'
      BY <1>1, <1>6, <1>9, <2>1 DEF Inv, OutcomeInv
    <2>3. AgreeInv'
      BY <1>1, <1>6, <1>9 DEF Inv, AgreeInv
    <2>4. ~Found(log, snap).corrupt
      BY <1>4, <1>5, WholeAgrees
    <2>5. DamageInv'
      BY <1>1, <1>6, <1>9, <2>4 DEF DamageInv
    <2>6. log' \in logs' /\ logs' \subseteq Seq(FileSlots) /\ cur' \in Transactions \cup {NoTxn}
      BY <1>6, <1>9 DEF Inv, TypeInv
    <2>7. TypeInv'
      BY <1>1, <1>2, <1>9, <2>6 DEF Inv, TypeInv, Operations
    <2>8. Resized(log', mem.size) = log
      BY <1>6, <1>7, <1>9
    <2>9. BaseInv'
      BY <1>1, <1>5, <2>8 DEF BaseInv, Base
    <2>10. StepInv'
      BY <1>1, <1>3, <1>9, <2>1, <2>9 DEF StepInv, Compacting
    <2> QED
      BY <2>2, <2>3, <2>5, <2>7, <2>10 DEF Inv
  <1>10. \/ /\ log' = whole /\ logs' = logs \cup {whole} \cup part
            /\ maybe' = maybe \cup {Apply(mem.st, cur)} /\ pc' = "sync" /\ UNCHANGED cur
         \/ /\ log' \in {log} \cup part /\ logs' = logs \cup part /\ pc' = "rollback"
            /\ cur' = NoTxn /\ UNCHANGED maybe
    BY DEF Write
  <1> QED
    BY <1>8, <1>9, <1>10

\* The sync of a record: only now is the transaction applied.
LEMMA SyncStep ==
    ASSUME Inv, Sync
    PROVE  Inv'
  <1>1. pc = "sync" /\ UNCHANGED <<log, snap, snaps, opening>> /\ cur' = NoTxn
    BY DEF Sync
  <1>2. left' \in [Faults -> Nat] /\ \A g \in Faults : left'[g] <= Budget[g]
    BY ErrorType DEF Sync, Inv
  <1>3. /\ BaseInv /\ ~opening /\ ~mem.broken /\ Known(Accounted, mem.st) /\ mem.txn < MaxTxn
        /\ log = Append(Base, Record(mem.txn + 1, cur))
    BY <1>1 DEF Inv, StepInv, Compacting
  <1>4. /\ log \in Seq(FileSlots) /\ snaps \in SUBSET Snapshots /\ snap \in snaps
        /\ mem.st \in States /\ mem.txn \in 0..MaxTxn /\ cur \in Transactions \cup {NoTxn}
        /\ mem.size \in Nat
        /\ mem \in [st : States, txn : 0..MaxTxn, size : Nat, broken : BOOLEAN]
    BY DEF Inv, TypeInv
  <1>5. CASE /\ mem' = [mem EXCEPT !.st = Apply(mem.st, cur), !.txn = mem.txn + 1,
                                   !.size = mem.size + 1]
             /\ logs' = {log} /\ committed' = mem'.st /\ maybe' = {}
             /\ pc' \in {"rename", "idle"}
    <2>1. PICK st : st = Apply(mem.st, cur)
      OBVIOUS
    <2>2. st \in States
      BY <1>4, <2>1, ApplyType
    <2>3. PICK file \in Seq(FileSlots) : file = Base
      BY <1>4, SizeOf DEF Base
    <2>4. Reads(file, mem.st, mem.txn, mem.size, snaps, snap)
      BY <1>3, <2>3 DEF BaseInv
    <2>5. Reads(log, st, mem.txn + 1, mem.size + 1, snaps, snap)
      <3>1. PICK was \in States : was = mem.st
        BY <1>4
      <3>2. PICK txn \in 0..MaxTxn : txn = mem.txn
        BY <1>4
      <3>3. PICK end : end = mem.size
        OBVIOUS
      <3>4. PICK t \in Transactions \cup {NoTxn} : t = cur
        BY <1>4
      <3>5. Reads(file, was, txn, end, snaps, snap) /\ txn < MaxTxn
        BY <1>3, <2>4, <3>1, <3>2, <3>3
      <3>6. Reads(Append(file, Record(txn + 1, t)), Apply(was, t), txn + 1, end + 1, snaps, snap)
        BY <1>4, <3>5, ReadsRecord
      <3> QED
        BY <1>3, <2>1, <2>3, <3>1, <3>2, <3>3, <3>4, <3>6
    <2>6. /\ mem'.st = st /\ mem'.txn = mem.txn + 1 /\ mem'.size = mem.size + 1
          /\ ~mem'.broken
      BY <1>3, <1>4, <1>5, <2>1
    <2>7. mem' \in [st : States, txn : 0..MaxTxn, size : Nat, broken : BOOLEAN]
      <3>1. mem.txn + 1 \in 0..MaxTxn /\ mem.size + 1 \in Nat
        BY <1>3, <1>4, BoundAssumption
      <3> QED
        BY <1>4, <1>5, <2>1, <2>2, <3>1
    <2>8. /\ OutcomeInv' /\ AgreeInv' /\ DamageInv' /\ BaseInv' /\ CompactInv'
          /\ Len(log') = mem'.size /\ Known(Accounted', mem'.st)
      BY <1>1, <1>3, <1>5, <2>2, <2>5, <2>6, SettledAs
    <2>9. TypeInv'
      BY <1>1, <1>2, <1>5, <2>2, <2>6, <2>7 DEF Inv, TypeInv, Operations
    <2>10. StepInv'
      BY <1>1, <1>3, <1>5, <2>6, <2>8 DEF StepInv, Compacting
    <2> QED
      BY <2>8, <2>9, <2>10 DEF Inv
  <1>6. CASE pc' = "rollback" /\ UNCHANGED <<mem, logs, committed, maybe>>
    <2>1. OutcomeInv' /\ AgreeInv' /\ DamageInv'
      BY <1>1, <1>6, SameFiles DEF files
    <2>2. TypeInv'
      BY <1>1, <1>2, <1>6 DEF Inv, TypeInv, Operations
    <2>3. BaseInv' /\ Known(Accounted', mem'.st)
      BY <1>1, <1>3, <1>6 DEF BaseInv, Base, Accounted
    <2>4. StepInv'
      BY <1>1, <1>3, <1>6, <2>3 DEF StepInv, Compacting
    <2> QED
      BY <2>1, <2>2, <2>4 DEF Inv
  <1> QED
    BY <1>5, <1>6 DEF Sync

\* A compaction that fails leaves the journal as it was.
LEMMA GivenUp ==
    ASSUME Inv, GiveUp, pc \in Compacting, UNCHANGED <<files, mem, cur, committed, maybe>>,
           left' \in [Faults -> Nat], \A g \in Faults : left'[g] <= Budget[g]
    PROVE  Inv'
  <1>1. /\ UNCHANGED <<log, logs, snap, snaps, mem, cur, committed, maybe>>
        /\ opening' = FALSE /\ pc' = IF opening THEN "closed" ELSE "idle"
    BY DEF GiveUp, files
  <1>2. OutcomeInv' /\ AgreeInv' /\ DamageInv'
    BY SameFiles
  <1>3. TypeInv'
    BY <1>1 DEF Inv, TypeInv, Operations
  <1>4. ~mem.broken /\ CompactInv /\ Known(Accounted, mem.st)
    BY DEF Inv, StepInv, Compacting
  <1>5. ~opening => BaseInv' /\ Len(log') = mem'.size
    BY <1>1, <1>4 DEF CompactInv, BaseInv, Base
  <1>6. Known(Accounted', mem'.st)
    BY <1>1, <1>4 DEF Accounted
  <1>7. StepInv'
    BY <1>1, <1>4, <1>5, <1>6 DEF StepInv, Compacting
  <1> QED
    BY <1>2, <1>3, <1>7 DEF Inv

\* The new snapshot stands beside the ones a power loss may still bring back.
LEMMA RenameStep ==
    ASSUME Inv, Rename
    PROVE  Inv'
  <1>1. /\ pc = "rename" /\ pc \in Compacting /\ UNCHANGED <<log, logs, mem, cur, committed, maybe>>
    BY DEF Rename, Compacting
  <1>2. left' \in [Faults -> Nat] /\ \A g \in Faults : left'[g] <= Budget[g]
    BY ErrorType DEF Rename, Inv
  <1>3. CompactInv /\ ~mem.broken /\ Known(Accounted, mem.st)
    BY <1>1 DEF Inv, StepInv, Compacting
  <1>4. CASE /\ snap' = Snapshot(mem.txn, mem.st) /\ snaps' = snaps \cup {snap'}
             /\ pc' = "sync_dir" /\ UNCHANGED opening
    <2>1. /\ log \in Seq(FileSlots) /\ snaps \in SUBSET Snapshots /\ snap \in snaps
          /\ mem.st \in States
      BY DEF Inv, TypeInv
    <2>2. Agree(log, snaps, snap) /\ Found(log, snap).st = mem.st /\ Read(log, snap).txn = mem.txn
      BY <1>3 DEF Inv, AgreeInv, CompactInv
    <2>3. PICK w : w = Snapshot(mem.txn, mem.st)
      OBVIOUS
    <2>4. w = Snapshot(Read(log, snap).txn, Found(log, snap).st)
      BY <2>2, <2>3
    <2>5. /\ w \in Snapshots /\ Agree(log, snaps \cup {w}, w)
          /\ Found(log, w).st = Found(log, snap).st /\ Alike(Read(log, snap), Read(log, w))
      <3>1. w \in Snapshots
        BY <2>1, <2>2, <2>4, ReadsRenamed
      <3>2. Agree(log, snaps \cup {w}, w)
        BY <2>1, <2>2, <2>4, ReadsRenamed
      <3>3. Found(log, w).st = Found(log, snap).st
        BY <2>1, <2>2, <2>4, ReadsRenamed
      <3>4. Alike(Read(log, snap), Read(log, w))
        BY <2>1, <2>2, <2>4, ReadsRenamed
      <3> QED
        BY <3>1, <3>2, <3>3, <3>4
    <2>6. /\ Found(log, w).st = mem.st /\ Read(log, w).txn = mem.txn /\ w.readable
      BY <2>2, <2>3, <2>5 DEF Alike, Snapshot
    <2>7. snap' = w /\ snaps' = snaps \cup {w} /\ Accounted' = Accounted
      BY <1>1, <1>4, <2>3 DEF Accounted
    <2>8. \A s \in snaps \cup {w} : Known(Accounted, Found(log, s).st)
      BY <1>3, <2>6 DEF Inv, OutcomeInv, TypeInv
    <2>9. logs = {log}
      BY <1>3 DEF CompactInv
    <2>10. OutcomeInv'
      BY <1>1, <2>7, <2>8, <2>9 DEF OutcomeInv
    <2>11. AgreeInv' /\ DamageInv'
      BY <1>1, <2>5, <2>7, <2>9 DEF AgreeInv, DamageInv
    <2>12. ~opening => BaseInv' /\ Len(log') = mem'.size
      <3>1. SUFFICES ASSUME ~opening PROVE BaseInv' /\ Len(log') = mem'.size
        OBVIOUS
      <3>2. BaseInv /\ Len(log) = mem.size
        BY <1>3, <3>1 DEF CompactInv
      <3>3. Base = log
        BY <2>1, <3>2, SizeOf DEF Base
      <3>4. Reads(log, mem.st, mem.txn, mem.size, snaps, snap)
        BY <3>2, <3>3 DEF BaseInv
      <3>5. Reads(log, mem.st, mem.txn, mem.size, snaps \cup {w}, w)
        BY <2>1, <2>5, <2>6, <3>4, ReadsToo
      <3>6. Base' = log
        BY <1>1, <3>3 DEF Base
      <3> QED
        BY <1>1, <2>7, <3>2, <3>5, <3>6 DEF BaseInv
    <2>13. CompactInv'
      BY <1>1, <1>3, <1>4, <2>6, <2>7, <2>12 DEF CompactInv
    <2>14. TypeInv'
      BY <1>1, <1>2, <1>4, <2>1, <2>5, <2>7 DEF Inv, TypeInv, Operations
    <2>15. Known(Accounted', mem'.st)
      BY <1>1, <1>3, <2>7
    <2>16. StepInv'
      BY <1>1, <1>3, <1>4, <2>13, <2>15 DEF StepInv, Compacting
    <2> QED
      BY <2>10, <2>11, <2>14, <2>16 DEF Inv
  <1>5. CASE GiveUp /\ UNCHANGED <<snap, snaps>>
    BY <1>1, <1>2, <1>5, GivenUp DEF files
  <1> QED
    BY <1>4, <1>5 DEF Rename

\* Once the directory is synced the new snapshot is the only one.
LEMMA SyncDirStep ==
    ASSUME Inv, SyncDir
    PROVE  Inv'
  <1>1. /\ pc = "sync_dir" /\ pc \in Compacting
        /\ UNCHANGED <<log, logs, snap, mem, cur, committed, maybe>>
    BY DEF SyncDir, Compacting
  <1>2. left' \in [Faults -> Nat] /\ \A g \in Faults : left'[g] <= Budget[g]
    BY ErrorType DEF SyncDir, Inv
  <1>3. /\ CompactInv /\ ~mem.broken /\ Known(Accounted, mem.st)
        /\ snap = Snapshot(mem.txn, mem.st)
    BY <1>1 DEF Inv, StepInv, Compacting
  <1>4. CASE snaps' = {snap} /\ pc' = "truncate" /\ UNCHANGED opening
    <2>1. snap \in snaps /\ Accounted' = Accounted
      BY <1>1 DEF Inv, TypeInv, Accounted
    <2>2. OutcomeInv'
      BY <1>1, <1>4, <2>1 DEF Inv, OutcomeInv
    <2>3. AgreeInv' /\ DamageInv'
      BY <1>1, <1>4, AgreesAlone DEF Inv, AgreeInv, DamageInv
    <2>4. ~opening => BaseInv' /\ Len(log') = mem'.size
      BY <1>1, <1>3, <1>4, <2>1 DEF CompactInv, BaseInv, Base, Reads
    <2>5. CompactInv'
      BY <1>1, <1>3, <1>4, <2>4 DEF CompactInv
    <2>6. TypeInv'
      BY <1>1, <1>2, <1>4 DEF Inv, TypeInv, Operations
    <2>7. Known(Accounted', mem'.st)
      BY <1>1, <1>3, <2>1
    <2>8. StepInv'
      BY <1>1, <1>3, <1>4, <2>5, <2>7 DEF StepInv, Compacting
    <2> QED
      BY <2>2, <2>3, <2>6, <2>8 DEF Inv
  <1>5. CASE GiveUp /\ UNCHANGED snaps
    BY <1>1, <1>2, <1>5, GivenUp DEF files
  <1> QED
    BY <1>4, <1>5 DEF SyncDir

\* The journal is emptied when the new snapshot is the only one.
LEMMA TruncateStep ==
    ASSUME Inv, Truncate
    PROVE  Inv'
  <1>1. /\ pc = "truncate" /\ pc \in Compacting
        /\ UNCHANGED <<snap, snaps, mem, cur, committed, maybe>>
    BY DEF Truncate, Compacting
  <1>2. left' \in [Faults -> Nat] /\ \A g \in Faults : left'[g] <= Budget[g]
    BY ErrorType DEF Truncate, Inv
  <1>3. /\ ~mem.broken /\ Known(Accounted, mem.st)
        /\ snap = Snapshot(mem.txn, mem.st) /\ snaps = {snap}
    BY <1>1 DEF Inv, StepInv, Compacting
  <1>4. CASE /\ log' = <<>> /\ logs' = logs \cup {<<>>} /\ pc' = "truncate_sync"
             /\ UNCHANGED opening
    <2>1. PICK st \in States : st = mem.st
      BY DEF Inv, TypeInv
    <2>2. PICK txn \in 0..MaxTxn : txn = mem.txn
      BY DEF Inv, TypeInv
    <2>3. <<>> \in Seq(FileSlots) /\ snap \in Snapshots /\ Reads(<<>>, st, txn, 0, {snap}, snap)
      BY <1>3, <2>1, <2>2, ReadsEmpty
    <2>4. PICK file \in Seq(FileSlots) : file = <<>>
      BY <2>3
    <2>5. PICK all \in SUBSET Snapshots : all = {snap}
      BY <2>3
    <2>6. PICK there \in all : there = snap
      BY <2>5
    <2>7. Reads(file, st, txn, 0, all, there)
      BY <2>3, <2>4, <2>5, <2>6
    <2>8. Found(file, there).st = st /\ ~Found(file, there).corrupt
      BY <2>7, WholeAgrees
    <2>9. Found(<<>>, snap).st = mem.st /\ ~Found(<<>>, snap).corrupt
      BY <2>1, <2>4, <2>6, <2>8
    <2>10. Accounted' = Accounted
      BY <1>1 DEF Accounted
    <2>11. OutcomeInv'
      BY <1>1, <1>3, <1>4, <2>9, <2>10 DEF Inv, OutcomeInv
    <2>12. AgreeInv' /\ DamageInv'
      BY <1>1, <1>3, <1>4, <2>9, AgreesAlone DEF AgreeInv, DamageInv
    <2>13. TypeInv'
      BY <1>1, <1>2, <1>4, <2>3 DEF Inv, TypeInv, Operations
    <2>14. StepInv'
      BY <1>1, <1>3, <1>4, <2>10 DEF StepInv, Compacting
    <2> QED
      BY <2>11, <2>12, <2>13, <2>14 DEF Inv
  <1>5. CASE GiveUp /\ UNCHANGED <<log, logs>>
    BY <1>1, <1>2, <1>5, GivenUp DEF files
  <1> QED
    BY <1>4, <1>5 DEF Truncate

\* The sync of the empty journal, which succeeds.
LEMMA TruncateSyncStep ==
    ASSUME Inv, Tolerated, TruncateSync
    PROVE  Inv'
  <1>1. /\ pc = "truncate_sync" /\ UNCHANGED <<log, snap, snaps, cur, committed, maybe, left>>
        /\ logs' = {log} /\ mem' = [mem EXCEPT !.size = 0] /\ pc' = "idle" /\ opening' = FALSE
    BY DEF TruncateSync, Tolerated, Fails
  <1>2. /\ ~mem.broken /\ Known(Accounted, mem.st)
        /\ snap = Snapshot(mem.txn, mem.st) /\ snaps = {snap} /\ log = <<>>
    BY <1>1 DEF Inv, StepInv, Compacting
  <1>3. /\ mem' \in [st : States, txn : 0..MaxTxn, size : Nat, broken : BOOLEAN]
        /\ mem'.st = mem.st /\ mem'.txn = mem.txn /\ mem'.size = 0 /\ ~mem'.broken
    BY <1>1, <1>2 DEF Inv, TypeInv
  <1>4. log \in logs /\ log \in Seq(FileSlots) /\ Accounted' = Accounted
    BY <1>1 DEF Inv, TypeInv, Accounted
  <1>5. OutcomeInv'
    BY <1>1, <1>4 DEF Inv, OutcomeInv
  <1>6. AgreeInv' /\ DamageInv'
    BY <1>1 DEF Inv, AgreeInv, DamageInv
  <1>7. Len(log) = 0 /\ Resized(log, 0) = log
    BY <1>2, <1>4, SizeOf, EmptySeq
  <1>8. Reads(log, mem.st, mem.txn, 0, snaps, snap)
    <2>1. PICK st \in States : st = mem.st
      BY DEF Inv, TypeInv
    <2>2. PICK txn \in 0..MaxTxn : txn = mem.txn
      BY DEF Inv, TypeInv
    <2>3. Reads(<<>>, st, txn, 0, {snap}, snap)
      BY <1>2, <2>1, <2>2, ReadsEmpty
    <2> QED
      BY <1>2, <2>1, <2>2, <2>3
  <1>9. BaseInv' /\ Len(log') = mem'.size
    BY <1>1, <1>3, <1>7, <1>8 DEF BaseInv, Base
  <1>10. TypeInv'
    BY <1>1, <1>3, <1>4 DEF Inv, TypeInv, Operations
  <1>11. StepInv'
    BY <1>1, <1>2, <1>3, <1>4, <1>9 DEF StepInv, Compacting
  <1> QED
    BY <1>5, <1>6, <1>10, <1>11 DEF Inv

\* The store is opened with what replay finds; damaged files are compacted.
LEMMA OpenStep ==
    ASSUME Inv, Tolerated, Open
    PROVE  Inv'
  <1>1. /\ pc = "closed" /\ UNCHANGED <<log, logs, snap, snaps, cur, committed, maybe>>
    BY DEF Open, files
  <1>2. /\ log \in Seq(FileSlots) /\ log \in logs /\ snaps \in SUBSET Snapshots
        /\ snap \in snaps /\ snap \in Snapshots
    BY DEF Inv, TypeInv
  <1>3. PICK readable \in BOOLEAN :
          LET r == Found(log, [snap EXCEPT !.readable = snap.readable /\ readable])
          IN  /\ IF readable THEN UNCHANGED left ELSE Fails("read")
              /\ mem' = Opened(r)
              /\ opening' = r.corrupt
              /\ pc' = IF r.corrupt THEN "rename"
                       ELSE IF r.end # Len(log) THEN "tail" ELSE "idle"
    BY DEF Open
  <1>4. readable = TRUE /\ UNCHANGED left
    BY <1>3 DEF Tolerated, Fails
  <1>5. [snap EXCEPT !.readable = snap.readable /\ readable] = snap
    <2>1. (snap.readable /\ readable) = snap.readable
      BY <1>2, <1>4 DEF Snapshots
    <2> QED
      BY <1>2, <1>4 DEF Snapshots
  <1>6. PICK r : r = Found(log, snap)
    OBVIOUS
  <1>7. /\ mem' = Opened(r) /\ opening' = r.corrupt
        /\ pc' = IF r.corrupt THEN "rename"
                 ELSE IF r.end # Len(log) THEN "tail" ELSE "idle"
    BY <1>3, <1>5, <1>6
  <1>8. r \in Plays /\ Len(log) \in Nat /\ (r.corrupt => r.st.corrupt)
        /\ Read(log, snap).txn = r.txn
    BY <1>2, <1>6, FoundIs, FileOf
  <1>9. /\ mem' \in [st : States, txn : 0..MaxTxn, size : Nat, broken : BOOLEAN]
        /\ mem'.st = r.st /\ mem'.txn = r.txn /\ ~mem'.broken
        /\ ~r.corrupt => mem'.size = r.end
    BY <1>7, <1>8 DEF Opened, Plays
  <1>10. OutcomeInv' /\ AgreeInv' /\ DamageInv'
    BY <1>1, SameFiles DEF files
  <1>11. TypeInv'
    BY <1>1, <1>4, <1>7, <1>8, <1>9 DEF Inv, TypeInv, Operations, Plays
  <1>12. Known(Accounted', mem'.st)
    BY <1>1, <1>2, <1>6, <1>9 DEF Inv, OutcomeInv, Accounted
  <1>13. CASE r.corrupt
    <2>1. logs = {log}
      BY <1>6, <1>13 DEF Inv, DamageInv
    <2>2. CompactInv'
      BY <1>1, <1>6, <1>7, <1>8, <1>9, <1>13, <2>1 DEF CompactInv
    <2>3. StepInv'
      BY <1>7, <1>9, <1>12, <1>13, <2>2 DEF StepInv, Compacting
    <2> QED
      BY <1>10, <1>11, <2>3 DEF Inv
  <1>14. CASE ~r.corrupt
    <2>1. Reads(Resized(log, r.end), r.st, r.txn, r.end, snaps, snap)
      <3>1. Agree(log, snaps, snap) /\ ~Found(log, snap).corrupt
        BY <1>6, <1>14 DEF Inv, AgreeInv
      <3>2. Reads(Resized(log, Found(log, snap).end), Found(log, snap).st,
                  Found(log, snap).txn, Found(log, snap).end, snaps, snap)
        BY <1>2, <3>1, ReadsCut
      <3> QED
        BY <1>6, <3>2
    <2>2. BaseInv'
      BY <1>1, <1>9, <1>14, <2>1 DEF BaseInv, Base
    <2>3. StepInv'
      BY <1>1, <1>7, <1>8, <1>9, <1>12, <1>14, <2>2 DEF StepInv, Compacting
    <2> QED
      BY <1>10, <1>11, <2>3 DEF Inv
  <1> QED
    BY <1>13, <1>14

\* What the media spoil is found out.
LEMMA DamageStep ==
    ASSUME Inv, Tolerated, Damage
    PROVE  Inv'
  <1>1. /\ pc = "closed" /\ UNCHANGED <<pc, mem, opening, cur, maybe>>
        /\ logs = {log} /\ snaps = {snap} /\ Takes("damage")
        /\ committed' = [Found(log', snap').st EXCEPT !.corrupt = TRUE]
    BY DEF Damage
  <1>2. log \in Seq(FileSlots) /\ snap \in Snapshots
    BY DEF Inv, TypeInv
  <1>3. /\ log' \in Seq(FileSlots) /\ snap' \in Snapshots /\ logs' = {log'} /\ snaps' = {snap'}
        /\ Found(log', snap').st.corrupt
    <2>1. ASSUME NEW i \in DOMAIN log, NEW j \in DOMAIN log, NEW kind \in DamageKinds,
                 i < j, log[i].kind = "record", log[j].kind = "record",
                 log' = [log EXCEPT ![i] = Blank(kind)], logs' = {log'},
                 UNCHANGED <<snap, snaps>>
          PROVE  /\ log' \in Seq(FileSlots) /\ snap' \in Snapshots /\ logs' = {log'}
                 /\ snaps' = {snap'} /\ Found(log', snap').st.corrupt
      <3>1. PICK x \in FileSlots : x = Blank(kind) /\ x.kind # "record"
        <4>1. kind \in {"zero", "bad", "torn"} /\ kind # "record"
          BY DEF Tolerated
        <4> QED
          BY <4>1, SlotTypes
      <3>2. PICK file : file = [log EXCEPT ![i] = x]
        OBVIOUS
      <3>3. /\ file \in Seq(FileSlots) /\ Len(file) = Len(log)
            /\ i \in 1..Len(file) /\ j \in 1..Len(file)
            /\ file[i] = x /\ file[j] = log[j]
        BY <1>2, <2>1, <3>2
      <3>4. Loaded(snap) \in Snapshots
        BY <1>2, StartType
      <3>5. Replay(file, Loaded(snap)).corrupt
        BY <2>1, <3>1, <3>3, <3>4, DamageSeen
      <3>6. Found(file, snap).st.corrupt
        BY <1>2, <3>3, <3>5, FoundIs DEF Read
      <3> QED
        BY <1>1, <1>2, <2>1, <3>1, <3>2, <3>3, <3>6
    <2>2. CASE /\ snap' = [snap EXCEPT !.readable = FALSE] /\ snaps' = {snap'}
               /\ UNCHANGED <<log, logs>>
      <3>1. snap' \in Snapshots /\ ~snap'.readable
        BY <1>2, <2>2 DEF Snapshots
      <3>2. PICK s \in Snapshots : s = snap' /\ ~s.readable
        BY <3>1
      <3>3. Found(log, s).st.corrupt
        BY <1>2, <3>2, FoundIs
      <3> QED
        BY <1>1, <1>2, <2>2, <3>1, <3>2, <3>3
    <2> QED
      BY <2>1, <2>2 DEF Damage
  <1>4. PICK f \in Plays : f = Found(log', snap') /\ f.st.corrupt
    <2>1. PICK file \in Seq(FileSlots) : file = log'
      BY <1>3
    <2>2. PICK s \in Snapshots : s = snap'
      BY <1>3
    <2>3. Found(file, s) \in Plays
      BY FoundIs
    <2> QED
      BY <1>3, <2>1, <2>2, <2>3
  <1>5. f.st \in States
    BY DEF Plays
  <1>6. committed' \in States /\ committed'.items = f.st.items
    BY <1>1, <1>4, <1>5 DEF States
  <1>7. "damage" \in Faults
    BY DEF Faults
  <1>8. left' \in [Faults -> Nat] /\ \A g \in Faults : left'[g] <= Budget[g]
    BY <1>1, <1>7, LeftType DEF Inv
  <1>9. OutcomeInv'
    BY <1>3, <1>4, <1>6 DEF OutcomeInv, Accounted, Known
  <1>10. AgreeInv' /\ DamageInv'
    BY <1>3, AgreesAlone DEF AgreeInv, DamageInv
  <1>11. TypeInv'
    BY <1>1, <1>3, <1>6, <1>8 DEF Inv, TypeInv, Operations
  <1>12. ~mem'.broken /\ ~opening'
    BY <1>1 DEF Inv, StepInv, Compacting
  <1>13. StepInv'
    BY <1>1, <1>12 DEF StepInv, Compacting
  <1> QED
    BY <1>9, <1>10, <1>11, <1>13 DEF Inv

----------------------------------------------------------------------------
(* The theorems                                                            *)

\* The empty store.
LEMMA InitInv ==
    ASSUME Init
    PROVE  Inv
  <1>1. /\ log = <<>> /\ logs = {<<>>} /\ snap = Snapshot(0, NewState) /\ snaps = {snap}
        /\ pc = "closed" /\ opening = FALSE /\ mem = NoMem /\ cur = NoTxn
        /\ committed = NewState /\ maybe = {} /\ left = Budget
    BY DEF Init
  <1>2. NewState \in States /\ 0 \in 0..MaxTxn
    BY BoundAssumption DEF NewState, States
  <1>3. NoMem \in [st : States, txn : 0..MaxTxn, size : Nat, broken : BOOLEAN] /\ ~NoMem.broken
    BY <1>2 DEF NoMem
  <1>4. /\ <<>> \in Seq(FileSlots) /\ snap \in Snapshots
        /\ Reads(<<>>, NewState, 0, 0, {snap}, snap)
    BY <1>1, <1>2, ReadsEmpty
  <1>5. Found(<<>>, snap).st = NewState /\ ~Found(<<>>, snap).corrupt
    <2>1. PICK file \in Seq(FileSlots) : file = <<>>
      BY <1>4
    <2>2. PICK st \in States : st = NewState
      BY <1>2
    <2>3. PICK all \in SUBSET Snapshots : all = {snap}
      BY <1>4
    <2>4. PICK there \in all : there = snap
      BY <2>3
    <2>5. Reads(file, st, 0, 0, all, there)
      BY <1>4, <2>1, <2>2, <2>3, <2>4
    <2>6. Found(file, there).st = st /\ ~Found(file, there).corrupt
      BY <2>5, WholeAgrees
    <2> QED
      BY <2>1, <2>2, <2>4, <2>6
  <1>6. TypeInv
    <2>1. left \in [Faults -> Nat] /\ \A f \in Faults : left[f] <= Budget[f]
      BY <1>1, BoundAssumption
    <2>2. log \in logs /\ logs \subseteq Seq(FileSlots) /\ snap \in snaps /\ snaps \subseteq Snapshots
      BY <1>1, <1>4
    <2>3. cur \in Transactions \cup {NoTxn} /\ committed \in States /\ maybe \subseteq States
      BY <1>1, <1>2
    <2>4. opening \in BOOLEAN /\ pc \in Operations \cup {"idle", "closed"}
      BY <1>1
    <2> QED
      BY <1>1, <1>3, <2>1, <2>2, <2>3, <2>4 DEF TypeInv
  <1>7. OutcomeInv
    BY <1>1, <1>5 DEF OutcomeInv, Accounted, Known
  <1>8. AgreeInv /\ DamageInv
    BY <1>1, AgreesAlone DEF AgreeInv, DamageInv
  <1>9. StepInv
    BY <1>1, <1>3 DEF StepInv, Compacting
  <1> QED
    BY <1>6, <1>7, <1>8, <1>9 DEF Inv

\* Every step keeps the invariant, where no failure is beyond what the store is made for.
LEMMA NextInv ==
    ASSUME Inv, Tolerated, [Next]_vars
    PROVE  Inv'
  <1>1. CASE UNCHANGED vars
    BY <1>1, ZenonT(40) DEF vars, files, Inv, TypeInv, OutcomeInv, Accounted, AgreeInv, DamageInv, StepInv,
                BaseInv, Base, CompactInv
  <1>2. CASE Next
    BY <1>2, CommitStep, WriteStep, SyncStep, RollbackStep, RollbackSyncStep, RenameStep,
       SyncDirStep, TruncateStep, TruncateSyncStep, OpenStep, CutTailStep, TailSyncStep,
       KillStep, PowerLossStep, DamageStep DEF Next
  <1> QED
    BY <1>1, <1>2

\* The inductive invariant: a journal reads the same after every snapshot a power loss may
\* leave, and each file operation finds it as the operation before has left it.
THEOREM Invariance ==
    ASSUME Tolerated
    PROVE  Spec => []Inv
  <1>1. Init => Inv
    BY InitInv
  <1>2. Inv /\ [Next]_vars => Inv'
    BY NextInv
  <1> QED
    BY <1>1, <1>2, PTL DEF Spec

\* The type invariant: what openStore and replay make of the files, and what commit,
\* rollback and compact write, has its type.
THEOREM Typed ==
    ASSUME Tolerated
    PROVE  Spec => []TypeOK
  <1>1. Inv => TypeOK
    <2> SUFFICES ASSUME Inv PROVE TypeOK
      OBVIOUS
    <2>1. \A q \in Seq(FileSlots) : q \in Seq(Slots)
      <3>1. FileSlots \subseteq Slots
        BY DEF FileSlots
      <3> QED
        BY <3>1
    <2>2. log \in Seq(Slots) /\ log \in logs /\ \A l \in logs : l \in Seq(Slots)
      BY <2>1 DEF Inv, TypeInv
    <2> QED
      BY <2>2 DEF Inv, TypeInv, TypeOK
  <1> QED
    BY <1>1, Invariance, PTL

\* Whatever file operation fails and whenever the power goes, openStore finds what the last
\* successful commit left, with or without the one transaction that was being written.
THEOREM Durable ==
    ASSUME Tolerated
    PROVE  Spec => []NothingCommittedIsLost
  <1>1. Inv => NothingCommittedIsLost
    BY DEF Inv, OutcomeInv, Known, Accounted, NothingCommittedIsLost, Outcomes
  <1> QED
    BY <1>1, Invariance, PTL

\* What the media spoiled stays marked until a reset clears the mark: openStore sets it
\* before anything is dropped, and the compaction writes it down.
THEOREM Marked ==
    ASSUME Tolerated
    PROVE  Spec => []DamageIsMarked
  <1>1. Inv => DamageIsMarked
    BY DEF Inv, OutcomeInv, Known, Accounted, DamageIsMarked, Outcomes
  <1> QED
    BY <1>1, Invariance, PTL

\* A store that takes commits holds what a process started in its place would read, and
\* appends where it would: logSize and lastTxn follow every outcome of commit and compact.
THEOREM Reopened ==
    ASSUME Tolerated
    PROVE  Spec => []ReopenIsIdentity
  <1>1. Inv => ReopenIsIdentity
    <2> SUFFICES ASSUME Inv, pc = "idle", ~mem.broken
                 PROVE  LET r == Found(log, snap)
                        IN  /\ r.st = mem.st /\ r.txn = mem.txn /\ r.end = mem.size
                            /\ mem.size = Len(log)
      BY DEF ReopenIsIdentity
    <2>1. BaseInv /\ Len(log) = mem.size
      BY DEF Inv, StepInv
    <2>2. /\ log \in Seq(FileSlots) /\ snaps \in SUBSET Snapshots /\ snap \in snaps
          /\ mem.st \in States
      BY DEF Inv, TypeInv
    <2>3. Reads(log, mem.st, mem.txn, mem.size, snaps, snap)
      BY <2>1, <2>2, SizeOf DEF BaseInv, Base
    <2>4. /\ Found(log, snap).st = mem.st /\ Found(log, snap).txn = mem.txn
          /\ Found(log, snap).end = mem.size
      BY <2>2, <2>3, WholeAgrees
    <2> QED
      BY <2>1, <2>4
  <1> QED
    BY <1>1, Invariance, PTL
===============================================================================
