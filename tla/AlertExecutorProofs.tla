------------------------- MODULE AlertExecutorProofs -------------------------
(***************************************************************************)
(* Theorems about AlertExecutor for every set of alarms, every duration and *)
(* every number of stops, restarts, failed writes and lost answers.        *)
(***************************************************************************)
EXTENDS AlertExecutor, FiniteSetTheorems, TLAPS

\* Occurrences, and those the speaker makes: snooze children under its own key.
IsOcc(o) == o \in [sched : {o.sched}, due : {o.due}, copy : {o.copy}]
Own(o) == IsOcc(o) /\ o.copy = FALSE

IsOp(op) ==
    /\ op \in [id : {op.id}, act : {op.act}, target : {op.target}, child : {op.child},
                res : {op.res}]
    /\ op.id \in Nat /\ \A c \in op.child : Own(c)
IsTxn(t) ==
    /\ t \in [op : {t.op}, wasKid : {t.wasKid}, kid : {t.kid}, arm : {t.arm}]
    /\ IsOp(t.op) /\ \A c \in t.kid : Own(c)
IsKid(k) == k \in [o : {k.o}, resolved : {k.resolved}] /\ Own(k.o)
IsRing(r, b) ==
    /\ r \in [o : {r.o}, boot : {r.boot}, first : {r.first}, deadline : {r.deadline},
               utc : {r.utc}]
    /\ r.boot \in Nat /\ r.boot <= b

\* A ring record per occurrence.
Single(rings) == \A r, q \in rings : r.o = q.o => r = q

DiskOf(occ, ops, kids, armed, rings, anchor) ==
    [occ : {occ}, ops : {ops}, kids : {kids}, armed : {armed}, rings : {rings},
     anchor : {anchor}]
DiskShape(d) == d \in DiskOf(d.occ, d.ops, d.kids, d.armed, d.rings, d.anchor)

\* The durable state in boot b.
IsDisk(d, b) ==
    /\ DiskShape(d)
    /\ \A op \in d.ops : IsOp(op)
    /\ \A k \in d.kids : IsKid(k)
    /\ \A x \in d.armed : x.boot \in Nat /\ x.boot <= b
    /\ \A r \in d.rings : IsRing(r, b)
    /\ Single(d.rings)

MemOf(trusted, active, timers, vol, dirty, poll) ==
    [trusted : {trusted}, active : {active}, timers : {timers}, vol : {vol},
     dirty : {dirty}, poll : {poll}]
MemShape(m) == m \in MemOf(m.trusted, m.active, m.timers, m.vol, m.dirty, m.poll)
IsActive(a) == a \in [o : {a.o}, timer : {a.timer}, deadline : {a.deadline}]
IsMem(m) ==
    /\ MemShape(m)
    /\ m.trusted \in BOOLEAN /\ m.dirty \in BOOLEAN /\ m.poll \in BOOLEAN
    /\ \A t \in m.vol : IsTxn(t)
    /\ m.active # None => IsActive(m.active)

HistOf(stopped, first, made, answered, lost) ==
    [stopped : {stopped}, first : {first}, made : {made}, answered : {answered}, lost : {lost}]
HistShape(h) == h \in HistOf(h.stopped, h.first, h.made, h.answered, h.lost)

\* The operations known, and what became of those made: numbers are given out
\* once, and an operation is known until it is answered or lost.
Ids(ops) == {op.id : op \in ops}
Ledger(ops, h) ==
    /\ HistShape(h)
    /\ IsFiniteSet(h.made) /\ h.made = 1..Cardinality(h.made)
    /\ Ids(ops) \subseteq h.made
    /\ \A p, q \in ops : p.id = q.id => p = q
    /\ h.made \subseteq h.answered \cup h.lost \cup Ids(ops)
    /\ \A op \in ops : op.res # None => op.id \in h.answered

\* An operation is journaled or kept in memory, and never both.
Apart(d, m) ==
    /\ \A p \in d.ops, t \in m.vol : p.id # t.op.id
    /\ \A t, u \in m.vol : t.op.id = u.op.id => t = u

Known(d, m, h, b) == IsDisk(d, b) /\ IsMem(m) /\ Ledger(Ops(d, m), h) /\ Apart(d, m)

TypeInv ==
    /\ now \in 0..Horizon /\ up \in BOOLEAN /\ boot \in Nat /\ lock \in BOOLEAN
    /\ left \in [Events -> Nat]
    /\ Known(disk, mem, hist, boot)

\* A process that does not run has no memory, and no poll under way.
DownInv == ~up => ~mem.poll /\ mem.vol = {} /\ mem.active = None

\* From the check at the start of a poll until something changes, what rings
\* is held and was not stopped.
ActiveOK(d, m) ==
    m.active # None /\ ~m.active.timer =>
        m.active.o \in Held(d, m) /\ Executable(d, m, m.active.o)
ActiveInv == mem.poll \/ ~mem.dirty => ActiveOK(disk, mem)

Inv == TypeInv /\ DownInv /\ LockInStep /\ ActiveInv

----------------------------------------------------------------------------
(* Records                                                                 *)

\* The fields of a durable state after those that change together are replaced.
LEMMA DiskFields ==
    ASSUME NEW d, DiskShape(d), NEW a, NEW b, NEW c, NEW e, NEW f
    PROVE  /\ [d EXCEPT !.rings = a] \in DiskOf(d.occ, d.ops, d.kids, d.armed, a, d.anchor)
           /\ [d EXCEPT !.anchor = a, !.armed = b]
                 \in DiskOf(d.occ, d.ops, d.kids, b, d.rings, a)
           /\ [d EXCEPT !.ops = a, !.kids = b, !.armed = c, !.rings = e]
                 \in DiskOf(d.occ, a, b, c, e, d.anchor)
           /\ [d EXCEPT !.occ = a, !.kids = b, !.armed = c, !.rings = e, !.ops = f]
                 \in DiskOf(a, f, b, c, e, d.anchor)
  BY DEF DiskShape, DiskOf

\* What a durable state given by its fields reads as.
LEMMA DiskRead ==
    ASSUME NEW a, NEW b, NEW c, NEW e, NEW f, NEW g, NEW d \in DiskOf(a, b, c, e, f, g)
    PROVE  /\ DiskShape(d)
           /\ d.occ = a /\ d.ops = b /\ d.kids = c /\ d.armed = e /\ d.rings = f /\ d.anchor = g
  BY DEF DiskShape, DiskOf

\* The same of the memory.
LEMMA MemFields ==
    ASSUME NEW m, MemShape(m), NEW a, NEW b
    PROVE  /\ [m EXCEPT !.active = a]
                 \in MemOf(m.trusted, a, m.timers, m.vol, m.dirty, m.poll)
           /\ [m EXCEPT !.timers = a]
                 \in MemOf(m.trusted, m.active, a, m.vol, m.dirty, m.poll)
           /\ [m EXCEPT !.timers = a, !.active = b]
                 \in MemOf(m.trusted, b, a, m.vol, m.dirty, m.poll)
           /\ [m EXCEPT !.vol = a]
                 \in MemOf(m.trusted, m.active, m.timers, a, m.dirty, m.poll)
           /\ [m EXCEPT !.dirty = a]
                 \in MemOf(m.trusted, m.active, m.timers, m.vol, a, m.poll)
           /\ [m EXCEPT !.trusted = a]
                 \in MemOf(a, m.active, m.timers, m.vol, m.dirty, m.poll)
           /\ [m EXCEPT !.poll = a, !.vol = b]
                 \in MemOf(m.trusted, m.active, m.timers, b, m.dirty, a)
           /\ [m EXCEPT !.poll = a, !.dirty = b]
                 \in MemOf(m.trusted, m.active, m.timers, m.vol, b, a)
  BY DEF MemShape, MemOf

\* What a memory given by its fields reads as.
LEMMA MemRead ==
    ASSUME NEW a, NEW b, NEW c, NEW e, NEW f, NEW g, NEW m \in MemOf(a, b, c, e, f, g)
    PROVE  /\ MemShape(m)
           /\ m.trusted = a /\ m.active = b /\ m.timers = c /\ m.vol = e /\ m.dirty = f /\ m.poll = g
  BY DEF MemShape, MemOf

\* The same of the history.
LEMMA HistFields ==
    ASSUME NEW h, HistShape(h), NEW a, NEW b, NEW c
    PROVE  /\ [h EXCEPT !.made = a, !.stopped = b, !.first = c]
                 \in HistOf(b, c, a, h.answered, h.lost)
           /\ [h EXCEPT !.stopped = a, !.first = b] \in HistOf(a, b, h.made, h.answered, h.lost)
           /\ [h EXCEPT !.stopped = a] \in HistOf(a, h.first, h.made, h.answered, h.lost)
           /\ [h EXCEPT !.first = a] \in HistOf(h.stopped, a, h.made, h.answered, h.lost)
           /\ [h EXCEPT !.answered = a] \in HistOf(h.stopped, h.first, h.made, a, h.lost)
           /\ [h EXCEPT !.lost = a, !.stopped = b, !.first = c]
                 \in HistOf(b, c, h.made, h.answered, a)
  BY DEF HistShape, HistOf

\* What a history given by its fields reads as.
LEMMA HistRead ==
    ASSUME NEW a, NEW b, NEW c, NEW e, NEW f, NEW h \in HistOf(a, b, c, e, f)
    PROVE  /\ HistShape(h)
           /\ h.stopped = a /\ h.first = b /\ h.made = c /\ h.answered = e /\ h.lost = f
  BY DEF HistShape, HistOf

----------------------------------------------------------------------------
(* Transactions                                                            *)

\* What is armed now is armed in this boot.
LEMMA ArmedByBoot ==
    ASSUME boot \in Nat, NEW os
    PROVE  \A x \in ArmedBy(os) : x.boot \in Nat /\ x.boot <= boot /\ x.o \in os
  BY DEF ArmedBy

\* Storing operations: they are added, and the rest stays well formed.
LEMMA PersistType ==
    ASSUME boot \in Nat, NEW d, IsDisk(d, boot), NEW ts, \A t \in ts : IsTxn(t)
    PROVE  /\ IsDisk(PersistOps(d, ts), boot)
           /\ PersistOps(d, ts).ops = d.ops \cup {t.op : t \in ts}
           /\ PersistOps(d, ts).occ = d.occ
  <1> DEFINE Later(t) == {u \in ts : u.op.id > t.op.id}
             Ended(us) == {u.op.target : u \in us}
             EndedKids(us) == {u.op.target : u \in {v \in us : v.wasKid}}
             kids == UNION {t.kid \ EndedKids(Later(t)) : t \in ts}
             arm == UNION {t.arm \ Ended(Later(t)) : t \in ts}
             ops2 == d.ops \cup {t.op : t \in ts}
             kids2 == {k \in d.kids : k.o \notin EndedKids(ts) /\ \A t \in ts : k.o \notin t.kid}
                      \cup [o : kids, resolved : {FALSE}]
             armed2 == {x \in d.armed : x.o \notin Ended(ts) /\ \A t \in ts : x.o \notin t.arm}
                       \cup ArmedBy(arm)
             rings2 == {r \in d.rings : r.o \notin Ended(ts)}
             n == PersistOps(d, ts)
  <1>1. n = [d EXCEPT !.ops = ops2, !.kids = kids2, !.armed = armed2, !.rings = rings2]
    BY DEF PersistOps
  <1>2. n \in DiskOf(d.occ, ops2, kids2, armed2, rings2, d.anchor)
    <2> HIDE DEF ops2, kids2, armed2, rings2, n
    <2> QED
      BY <1>1, DiskFields DEF IsDisk
  <1>3. \A op \in ops2 : IsOp(op)
    BY DEF IsDisk, IsTxn
  <1>4. \A k \in kids2 : IsKid(k)
    <2>1. \A c \in kids : Own(c)
      BY DEF IsTxn
    <2> HIDE DEF kids
    <2>2. \A k \in [o : kids, resolved : {FALSE}] : IsKid(k)
      BY <2>1 DEF IsKid
    <2> QED
      BY <2>2 DEF IsDisk
  <1>5. \A x \in armed2 : x.boot \in Nat /\ x.boot <= boot
    <2> HIDE DEF arm
    <2> QED
      BY ArmedByBoot DEF IsDisk
  <1>6. (\A r \in rings2 : IsRing(r, boot)) /\ Single(rings2)
    BY DEF IsDisk, Single
  <1> HIDE DEF ops2, kids2, armed2, rings2, n
  <1>7. DiskShape(n) /\ n.occ = d.occ /\ n.ops = ops2 /\ n.kids = kids2 /\ n.armed = armed2 /\ n.rings = rings2
    BY <1>2, DiskRead
  <1>8. IsDisk(n, boot)
    BY <1>3, <1>4, <1>5, <1>6, <1>7 DEF IsDisk
  <1> QED
    BY <1>7, <1>8 DEF ops2, n

\* Of one schedule and time the speaker makes one occurrence.
LEMMA OwnMatch ==
    ASSUME NEW x, NEW y, Own(x), Own(y), Matches(x, y)
    PROVE  x = y
  <1> DEFINE s == x.sched
             t == x.due
  <1>1. x \in [sched : {s}, due : {t}, copy : {FALSE}]
    BY DEF Own, IsOcc
  <1>2. y \in [sched : {s}, due : {t}, copy : {FALSE}]
    BY DEF Own, IsOcc, Matches
  <1> HIDE DEF s, t
  <1>3. x = [sched |-> s, due |-> t, copy |-> FALSE] /\ y = [sched |-> s, due |-> t, copy |-> FALSE]
    BY ONLY <1>1, <1>2
  <1> QED
    BY <1>3

\* The delivered occurrence that a record is moved to is a copy of its own.
LEMMA Chosen ==
    ASSUME NEW put, NEW x, \E o \in put : Matches(o, x)
    PROVE  /\ (CHOOSE o \in put : Matches(o, x)) \in put
           /\ Matches(CHOOSE o \in put : Matches(o, x), x)
  BY Zenon

\* Records moved to the delivered copies are one per occurrence, because the
\* children they come from are the speaker's own.
LEMMA MovedType ==
    ASSUME NEW b \in Nat, NEW d, IsDisk(d, b), NEW put
    PROVE  (\A r \in Moved(d, put) : IsRing(r, b)) /\ Single(Moved(d, put))
  <1> DEFINE old == {x \in d.rings : /\ x.o \notin put
                                     /\ \E k \in Superseded(d, put) : k.o = x.o}
             To(r) == CHOOSE o \in put : Matches(o, r.o)
  <1>1. Moved(d, put) = {[r EXCEPT !.o = To(r)] : r \in old}
    BY DEF Moved
  <1>2. ASSUME NEW r \in old
        PROVE  Own(r.o) /\ Matches(To(r), r.o) /\ r \in d.rings /\ IsRing(r, b)
    <2>1. PICK k \in d.kids : k.o = r.o /\ \E o \in put : Matches(o, k.o)
      BY DEF Superseded
    <2>2. \E o \in put : Matches(o, r.o)
      BY <2>1
    <2>3. Matches(To(r), r.o)
      <3> DEFINE x == r.o
      <3>1. \E o \in put : Matches(o, x)
        BY <2>2
      <3>2. To(r) = CHOOSE o \in put : Matches(o, x)
        OBVIOUS
      <3> HIDE DEF x, To
      <3>3. Matches(To(r), x)
        BY <3>1, <3>2, Chosen
      <3> QED
        BY <3>3 DEF x
    <2>4. r \in d.rings
      OBVIOUS
    <2> HIDE DEF To, old
    <2> QED
      BY <2>1, <2>3, <2>4 DEF IsDisk, IsKid
  <1>3. ASSUME NEW r, IsRing(r, b), NEW v
        PROVE  IsRing([r EXCEPT !.o = v], b) /\ [r EXCEPT !.o = v].o = v
    <2>1. [r EXCEPT !.o = v] \in [o : {v}, boot : {r.boot}, first : {r.first},
                                  deadline : {r.deadline}, utc : {r.utc}]
      BY <1>3 DEF IsRing
    <2> QED
      BY <1>3, <2>1 DEF IsRing
  <1>4. ASSUME NEW r \in old, NEW q \in old, To(r) = To(q)
        PROVE  r = q
    <2>1. Own(r.o) /\ Own(q.o) /\ r.o.sched = q.o.sched /\ r.o.due = q.o.due
      <3>1. Own(r.o) /\ Own(q.o) /\ Matches(To(r), r.o) /\ Matches(To(q), q.o)
        BY <1>2
      <3> HIDE DEF To
      <3> QED
        BY <1>4, <3>1 DEF Matches
    <2>2. r.o = q.o
      <3> DEFINE x == r.o
                 y == q.o
      <3>1. Own(x) /\ Own(y) /\ Matches(x, y)
        BY <2>1 DEF Matches
      <3> HIDE DEF x, y
      <3>2. x = y
        BY <3>1, OwnMatch
      <3> QED
        BY <3>2 DEF x, y
    <2> QED
      BY <1>2, <2>2 DEF IsDisk, Single
  <1> HIDE DEF old, To
  <1>5. \A x \in Moved(d, put) : IsRing(x, b)
    BY <1>1, <1>2, <1>3
  <1>6. ASSUME NEW x \in Moved(d, put), NEW y \in Moved(d, put), x.o = y.o
        PROVE  x = y
    <2>1. PICK r \in old : x = [r EXCEPT !.o = To(r)]
      BY <1>1
    <2>2. PICK q \in old : y = [q EXCEPT !.o = To(q)]
      BY <1>1
    <2>3. To(r) = To(q)
      BY <1>2, <1>3, <1>6, <2>1, <2>2
    <2> QED
      BY <1>4, <2>1, <2>2, <2>3
  <1> QED
    BY <1>5, <1>6 DEF Single

\* Putting records keeps one per occurrence.
LEMMA PutRingsType ==
    ASSUME NEW b, NEW rings, NEW put, \A r \in rings \cup put : IsRing(r, b),
           Single(rings), Single(put)
    PROVE  (\A r \in PutRings(rings, put) : IsRing(r, b)) /\ Single(PutRings(rings, put))
  BY DEF PutRings, Single

\* Only answered operations are dropped.
DropsAnswered(ops, kept) == kept \subseteq ops /\ \A op \in ops \ kept : op.res # None

\* dropSettledOps drops no others.
LEMMA DropType ==
    ASSUME NEW ops, NEW delivered
    PROVE  DropsAnswered(ops, DropSettledOps(ops, delivered))
  BY DEF DropSettledOps, DropsAnswered

\* A delta installs what was put and drops only answered operations.
LEMMA DeltaType ==
    ASSUME boot \in Nat, NEW d, IsDisk(d, boot), NEW m, NEW gone, NEW put
    PROVE  /\ IsDisk(DeltaTxn(d, m, gone, put), boot)
           /\ DropsAnswered(d.ops, DeltaTxn(d, m, gone, put).ops)
  <1> DEFINE kids == {k \in d.kids \ Superseded(d, put) : k.o \notin gone}
             dropped == {k.o : k \in Superseded(d, put)}
             new == NewlyArmed(d, m, put)
             occ2 == (d.occ \ gone) \cup put
             armed2 == {x \in d.armed : x.o \notin gone \cup dropped \cup new} \cup ArmedBy(new)
             rest == {r \in d.rings : r.o \notin gone \cup (dropped \ put)}
             rings2 == PutRings(rest, Moved(d, put))
             ops2 == DropSettledOps(d.ops, occ2)
             n == DeltaTxn(d, m, gone, put)
  <1>1. n = [d EXCEPT !.occ = occ2, !.kids = kids, !.armed = armed2, !.rings = rings2, !.ops = ops2]
    BY SMTT(30) DEF DeltaTxn
  <1>2. n \in DiskOf(occ2, ops2, kids, armed2, rings2, d.anchor)
    <2> HIDE DEF occ2, ops2, kids, armed2, rings2, n
    <2> QED
      BY <1>1, DiskFields DEF IsDisk
  <1>9. DropsAnswered(d.ops, ops2)
    <2> HIDE DEF occ2
    <2> QED
      BY DropType
  <1>3. \A op \in ops2 : IsOp(op)
    <2> HIDE DEF ops2
    <2> QED
      BY <1>9 DEF IsDisk, DropsAnswered
  <1>4. \A k \in kids : IsKid(k)
    BY DEF IsDisk
  <1>5. \A x \in armed2 : x.boot \in Nat /\ x.boot <= boot
    <2> HIDE DEF new, dropped
    <2> QED
      BY ArmedByBoot DEF IsDisk
  <1>6. (\A r \in rings2 : IsRing(r, boot)) /\ Single(rings2)
    <2>1. (\A r \in rest : IsRing(r, boot)) /\ Single(rest)
      BY DEF IsDisk, Single
    <2> HIDE DEF rest
    <2> QED
      BY <2>1, MovedType, PutRingsType
  <1> HIDE DEF occ2, ops2, kids, armed2, rings2, n
  <1>7. DiskShape(n) /\ n.ops = ops2 /\ n.kids = kids /\ n.armed = armed2 /\ n.rings = rings2
    BY <1>2, DiskRead
  <1>8. IsDisk(n, boot)
    BY <1>3, <1>4, <1>5, <1>6, <1>7 DEF IsDisk
  <1> QED
    BY <1>7, <1>8, <1>9 DEF n

\* So does a snapshot.
LEMMA SnapshotType ==
    ASSUME boot \in Nat, NEW d, IsDisk(d, boot), NEW m, NEW new
    PROVE  /\ IsDisk(SnapshotTxn(d, m, new), boot)
           /\ DropsAnswered(d.ops, SnapshotTxn(d, m, new).ops)
  <1> DEFINE kids == {k \in d.kids \ Superseded(d, new) : ~k.resolved \/ k.o \in new}
             armed2 == IF m.trusted THEN ArmedBy(new \cup {k.o : k \in kids}) ELSE {}
             rest == {r \in d.rings : r.o \in new \/ r.o \in {k.o : k \in kids}}
             rings2 == PutRings(rest, Moved(d, new))
             ops2 == DropSettledOps(d.ops, new)
             n == SnapshotTxn(d, m, new)
  <1>1. n = [d EXCEPT !.occ = new, !.kids = kids, !.armed = armed2, !.rings = rings2, !.ops = ops2]
    BY SMTT(30) DEF SnapshotTxn
  <1>2. n \in DiskOf(new, ops2, kids, armed2, rings2, d.anchor)
    <2> HIDE DEF ops2, kids, armed2, rings2, n
    <2> QED
      BY <1>1, DiskFields DEF IsDisk
  <1>9. DropsAnswered(d.ops, ops2)
    BY DropType
  <1>3. \A op \in ops2 : IsOp(op)
    <2> HIDE DEF ops2
    <2> QED
      BY <1>9 DEF IsDisk, DropsAnswered
  <1>4. \A k \in kids : IsKid(k)
    BY DEF IsDisk
  <1>5. \A x \in armed2 : x.boot \in Nat /\ x.boot <= boot
    <2> HIDE DEF kids
    <2> QED
      BY ArmedByBoot
  <1>6. (\A r \in rings2 : IsRing(r, boot)) /\ Single(rings2)
    <2>1. (\A r \in rest : IsRing(r, boot)) /\ Single(rest)
      BY DEF IsDisk, Single
    <2> HIDE DEF rest
    <2> QED
      BY <2>1, MovedType, PutRingsType
  <1> HIDE DEF ops2, kids, armed2, rings2, n
  <1>7. DiskShape(n) /\ n.ops = ops2 /\ n.kids = kids /\ n.armed = armed2 /\ n.rings = rings2
    BY <1>2, DiskRead
  <1>8. IsDisk(n, boot)
    BY <1>3, <1>4, <1>5, <1>6, <1>7 DEF IsDisk
  <1> QED
    BY <1>7, <1>8, <1>9 DEF n

\* An answered operation keeps its number.
LEMMA AnsweredOp ==
    ASSUME NEW op, IsOp(op), NEW state
    PROVE  LET a == [op EXCEPT !.res = state]
           IN  IsOp(a) /\ a.id = op.id /\ a.target = op.target /\ a.child = op.child
               /\ a.act = op.act /\ a.res = state
  <1> DEFINE a == [op EXCEPT !.res = state]
  <1>1. a \in [id : {op.id}, act : {op.act}, target : {op.target}, child : {op.child},
               res : {state}]
    BY DEF IsOp
  <1> HIDE DEF a
  <1>2. IsOp(a) /\ a.id = op.id /\ a.target = op.target /\ a.child = op.child
        /\ a.act = op.act /\ a.res = state
    BY <1>1 DEF IsOp
  <1> QED
    BY <1>2 DEF a

\* An answer to a journaled operation drops it or records the answer.
LEMMA ResultType ==
    ASSUME NEW b \in Nat, NEW d, IsDisk(d, b), NEW op \in d.ops, NEW state
    PROVE  /\ IsDisk(ResultTxn(d, op, state), b)
           /\ \/ ResultTxn(d, op, state).ops = d.ops \ {op}
              \/ ResultTxn(d, op, state).ops = (d.ops \ {op}) \cup {[op EXCEPT !.res = state]}
           /\ ResultTxn(d, op, state).occ = d.occ
  <1> DEFINE kept == IF \E o \in d.occ : Matches(op.target, o)
                     THEN {[op EXCEPT !.res = state]} ELSE {}
             mine == {k \in d.kids : k.o \in op.child}
             gone == IF state = "rejected" THEN {k.o : k \in mine} ELSE {}
             ops2 == (d.ops \ {op}) \cup kept
             kids2 == (d.kids \ mine) \cup
                      (IF state = "rejected" THEN {}
                       ELSE {[k EXCEPT !.resolved = TRUE] : k \in mine})
             armed2 == {x \in d.armed : x.o \notin gone}
             rings2 == {r \in d.rings : r.o \notin gone}
             n == ResultTxn(d, op, state)
  <1>1. n = [d EXCEPT !.ops = ops2, !.kids = kids2, !.armed = armed2, !.rings = rings2]
    BY SMTT(30) DEF ResultTxn
  <1>2. n \in DiskOf(d.occ, ops2, kids2, armed2, rings2, d.anchor)
    <2> HIDE DEF ops2, kids2, armed2, rings2, n
    <2> QED
      BY <1>1, DiskFields DEF IsDisk
  <1>3. ops2 = d.ops \ {op} \/ ops2 = (d.ops \ {op}) \cup {[op EXCEPT !.res = state]}
    OBVIOUS
  <1>4. \A p \in ops2 : IsOp(p)
    <2>1. IsOp([op EXCEPT !.res = state])
      BY AnsweredOp DEF IsDisk
    <2> HIDE DEF ops2
    <2> QED
      BY <1>3, <2>1 DEF IsDisk
  <1>5. \A k \in kids2 : IsKid(k)
    <2>1. ASSUME NEW k \in mine PROVE IsKid([k EXCEPT !.resolved = TRUE])
      <3>1. IsKid(k)
        BY DEF IsDisk
      <3>2. [k EXCEPT !.resolved = TRUE] \in [o : {k.o}, resolved : {TRUE}]
        BY <3>1 DEF IsKid
      <3> QED
        BY <3>1, <3>2 DEF IsKid
    <2> HIDE DEF mine
    <2> QED
      BY <2>1 DEF IsDisk
  <1>6. \A x \in armed2 : x.boot \in Nat /\ x.boot <= b
    BY DEF IsDisk
  <1>7. (\A r \in rings2 : IsRing(r, b)) /\ Single(rings2)
    BY DEF IsDisk, Single
  <1> HIDE DEF ops2, kids2, armed2, rings2, n
  <1>8. DiskShape(n) /\ n.occ = d.occ /\ n.ops = ops2 /\ n.kids = kids2 /\ n.armed = armed2 /\ n.rings = rings2
    BY <1>2, DiskRead
  <1>9. IsDisk(n, b)
    BY <1>4, <1>5, <1>6, <1>7, <1>8 DEF IsDisk
  <1> QED
    BY <1>3, <1>8, <1>9 DEF n
----------------------------------------------------------------------------
(* The ledger of operations                                                *)

\* Answered operations may be dropped, and others lost.
LEMMA LedgerDrops ==
    ASSUME NEW ops, NEW h, Ledger(ops, h), NEW ops2 \in SUBSET ops, NEW h2, HistShape(h2),
           h2.made = h.made, h2.answered = h.answered, h.lost \subseteq h2.lost,
           \A op \in ops \ ops2 : op.res # None \/ op.id \in h2.lost
    PROVE  Ledger(ops2, h2)
  <1>1. Ids(ops2) \subseteq Ids(ops)
    BY DEF Ids
  <1>2. Ids(ops) \subseteq h.answered \cup h2.lost \cup Ids(ops2)
    BY DEF Ids, Ledger
  <1>3. h.made \subseteq h.answered \cup h2.lost \cup Ids(ops2)
    <2>1. h.made \subseteq h.answered \cup h.lost \cup Ids(ops)
      BY DEF Ledger
    <2> QED
      BY <1>2, <2>1
  <1> QED
    BY <1>1, <1>3 DEF Ledger

\* Nothing changes but what else the history keeps.
LEMMA LedgerSame ==
    ASSUME NEW ops, NEW h, Ledger(ops, h), NEW h2, HistShape(h2),
           h2.made = h.made, h2.answered = h.answered, h2.lost = h.lost
    PROVE  Ledger(ops, h2)
  BY LedgerDrops

\* An operation is answered: it goes, or stays with its answer.
LEMMA LedgerAnswers ==
    ASSUME NEW ops, NEW h, Ledger(ops, h), NEW id \in Ids(ops), NEW a, a.id = id, NEW ops2,
           \A p \in ops : p.id # id => p \in ops2,
           \A p \in ops2 : p = a \/ (p \in ops /\ p.id # id),
           NEW h2, HistShape(h2), h2.made = h.made, h2.lost = h.lost,
           h2.answered = h.answered \cup {id}
    PROVE  Ledger(ops2, h2)
  <1>1. Ids(ops2) \subseteq h2.made
    BY DEF Ids, Ledger
  <1>2. \A p, q \in ops2 : p.id = q.id => p = q
    BY DEF Ledger
  <1>3. h2.made \subseteq h2.answered \cup h2.lost \cup Ids(ops2)
    <2>1. h.made \subseteq h.answered \cup h.lost \cup Ids(ops)
      BY DEF Ledger
    <2>2. \A i \in Ids(ops) : i = id \/ i \in Ids(ops2)
      BY DEF Ids
    <2> QED
      BY <2>1, <2>2
  <1>4. \A p \in ops2 : p.res # None => p.id \in h2.answered
    BY DEF Ledger
  <1> QED
    BY <1>1, <1>2, <1>3, <1>4 DEF Ledger

\* A new operation has a number no other had.
LEMMA LedgerGrows ==
    ASSUME NEW ops, NEW h, Ledger(ops, h), NEW op, op.id = Cardinality(h.made) + 1,
           op.res = None, NEW h2, HistShape(h2), h2.made = h.made \cup {op.id},
           h2.answered = h.answered, h2.lost = h.lost
    PROVE  Ledger(ops \cup {op}, h2)
  <1> DEFINE n == Cardinality(h.made)
  <1>1. n \in Nat /\ h.made = 1..n
    BY FS_CardinalityType DEF Ledger
  <1>2. h2.made = 1..(n + 1) /\ op.id \notin h.made
    BY <1>1
  <1>3. IsFiniteSet(h2.made) /\ Cardinality(h2.made) = n + 1
    <2> HIDE DEF n
    <2>1. IsFiniteSet(1..(n + 1)) /\ Cardinality(1..(n + 1)) = n + 1
      BY <1>1, FS_Interval
    <2> QED
      BY <1>2, <2>1
  <1>4. Ids(ops \cup {op}) = Ids(ops) \cup {op.id}
    BY DEF Ids
  <1>5. \A p \in ops : p.id # op.id
    BY <1>2 DEF Ledger, Ids
  <1> HIDE DEF n
  <1>6. \A p, q \in ops \cup {op} : p.id = q.id => p = q
    BY <1>5 DEF Ledger
  <1>7. /\ Ids(ops \cup {op}) \subseteq h2.made
        /\ h2.made \subseteq h2.answered \cup h2.lost \cup Ids(ops \cup {op})
    BY <1>4 DEF Ledger
  <1>8. \A p \in ops \cup {op} : p.res # None => p.id \in h2.answered
    BY DEF Ledger
  <1> QED
    BY <1>2, <1>3, <1>6, <1>7, <1>8 DEF Ledger

----------------------------------------------------------------------------
(* Parts of steps                                                          *)

\* Bounds are spent within their type.
LEMMA SpendsType ==
    ASSUME left \in [Events -> Nat], NEW events, Spends(events)
    PROVE  left' \in [Events -> Nat]
  BY DEF Spends

\* A stop is entered in the history under its number.
LEMMA StopsType ==
    ASSUME NEW h, HistShape(h), NEW op
    PROVE  LET h2 == Stops(h, op)
           IN  HistShape(h2) /\ h2.made = h.made \cup {op.id} /\ h2.answered = h.answered
               /\ h2.lost = h.lost
  <1> DEFINE h2 == Stops(h, op)
             a == h.made \cup {op.id}
             b == h.stopped \cup {[o |-> op.target, act |-> op.act, fresh |-> FALSE]}
             c == {f \in h.first : ~Matches(f.o, op.target)}
  <1>1. h2 = [h EXCEPT !.made = a, !.stopped = b, !.first = c]
    BY DEF Stops
  <1> HIDE DEF h2, b, c, a
  <1>2. h2 \in HistOf(b, c, a, h.answered, h.lost)
    BY <1>1, HistFields
  <1>3. HistShape(h2) /\ h2.made = a /\ h2.answered = h.answered /\ h2.lost = h.lost
    BY <1>2, HistRead
  <1> QED
    BY <1>3 DEF h2, a

\* An operation is journaled: stored, or kept in memory.
LEMMA JournalsEffect ==
    ASSUME boot \in Nat, left \in [Events -> Nat], NEW d, NEW m, Known(d, m, hist, boot),
           NEW act, NEW o, NEW child, \A c \in child : Own(c), NEW cost,
           Journals(d, m, act, o, child, cost)
    PROVE  /\ Known(disk', mem', hist', boot) /\ left' \in [Events -> Nat]
           /\ mem'.active = m.active /\ mem'.poll = m.poll /\ mem'.dirty = m.dirty
  <1> DEFINE op == [id |-> Cardinality(hist.made) + 1, act |-> act, target |-> o,
                    child |-> child, res |-> None]
             t == [op |-> op, wasKid |-> o \in KidsOf(d), kid |-> child,
                   arm |-> IF m.trusted THEN child ELSE {}]
  <1>1. IsDisk(d, boot) /\ IsMem(m) /\ Ledger(Ops(d, m), hist) /\ Apart(d, m)
    BY DEF Known
  <1>2. IsOp(op)
    <2>1. Cardinality(hist.made) \in Nat
      BY <1>1, FS_CardinalityType DEF Ledger
    <2> QED
      BY <2>1 DEF IsOp
  <1>3. IsTxn(t) /\ t.op = op
    <2> HIDE DEF op
    <2> QED
      BY <1>2 DEF IsTxn
  <1>4. hist' = Stops(hist, op) /\ op.id = Cardinality(hist.made) + 1 /\ op.res = None
    BY DEF Journals
  <1>5. \/ Spends(cost) /\ disk' = PersistOps(d, {t}) /\ mem' = m
        \/ Spends(cost \cup {"commit"}) /\ disk' = d /\ mem' = [m EXCEPT !.vol = @ \cup {t}]
    BY DEF Journals
  <1> HIDE DEF op, t
  <1>6. Ledger(Ops(d, m) \cup {op}, hist')
    <2> DEFINE h2 == hist'
    <2>1. HistShape(hist)
      BY <1>1 DEF Ledger
    <2>2. HistShape(h2) /\ h2.made = hist.made \cup {op.id} /\ h2.answered = hist.answered
          /\ h2.lost = hist.lost
      BY <1>4, <2>1, StopsType
    <2> HIDE DEF h2
    <2>3. Ledger(Ops(d, m) \cup {op}, h2)
      BY <1>1, <1>4, <2>2, LedgerGrows
    <2> QED
      BY <2>3 DEF h2
  <1>7. left' \in [Events -> Nat]
    BY <1>5, SpendsType
  <1>10. \A p \in Ops(d, m) : p.id # op.id
    <2>1. \A i \in hist.made : i # Cardinality(hist.made) + 1
      <3> DEFINE n == Cardinality(hist.made)
      <3>1. n \in Nat /\ hist.made = 1..n
        BY <1>1, FS_CardinalityType DEF Ledger
      <3> QED
        BY <3>1
    <2> QED
      BY <1>1, <1>4, <2>1 DEF Ledger, Ids
  <1>11. (\A p \in d.ops : p.id # op.id) /\ (\A u \in m.vol : u.op.id # op.id)
    BY <1>10 DEF Ops
  <1>8. CASE disk' = PersistOps(d, {t}) /\ mem' = m
    <2>1. IsDisk(disk', boot) /\ disk'.ops = d.ops \cup {u.op : u \in {t}}
      BY <1>1, <1>3, <1>8, PersistType
    <2>2. Ops(disk', mem') = Ops(d, m) \cup {op}
      BY <1>3, <1>8, <2>1 DEF Ops
    <2>3. Apart(disk', mem')
      BY <1>1, <1>3, <1>8, <1>11, <2>1 DEF Apart
    <2> QED
      BY <1>1, <1>6, <1>7, <1>8, <2>1, <2>2, <2>3 DEF Known
  <1>9. CASE disk' = d /\ mem' = [m EXCEPT !.vol = @ \cup {t}]
    <2> DEFINE v == m.vol \cup {t}
    <2>1. mem' \in MemOf(m.trusted, m.active, m.timers, v, m.dirty, m.poll)
      <3>1. mem' = [m EXCEPT !.vol = v]
        BY <1>9
      <3> HIDE DEF v
      <3> QED
        BY <1>1, <3>1, MemFields DEF IsMem
    <2>2. /\ MemShape(mem') /\ mem'.trusted = m.trusted /\ mem'.active = m.active
          /\ mem'.vol = v /\ mem'.dirty = m.dirty /\ mem'.poll = m.poll
      <3> HIDE DEF v
      <3> QED
        BY <2>1, MemRead
    <2>3. IsMem(mem')
      BY <1>1, <1>3, <2>2 DEF IsMem
    <2>4. Ops(disk', mem') = Ops(d, m) \cup {op}
      BY <1>3, <1>9, <2>2 DEF Ops
    <2>5. Apart(disk', mem')
      BY <1>1, <1>3, <1>9, <1>11, <2>2 DEF Apart
    <2> QED
      BY <1>1, <1>6, <1>7, <1>9, <2>2, <2>3, <2>4, <2>5 DEF Known
  <1> QED
    BY <1>5, <1>8, <1>9

\* A handler that signals changes nothing else of the memory.
LEMMA SignalEffect ==
    ASSUME NEW m, IsMem(m)
    PROVE  LET n == Signal(m)
           IN  /\ IsMem(n) /\ n.active = m.active /\ n.timers = m.timers /\ n.vol = m.vol
               /\ n.trusted = m.trusted /\ n.poll = m.poll /\ n.dirty = TRUE
  <1> DEFINE n == Signal(m)
             yes == TRUE
  <1>1. n \in MemOf(m.trusted, m.active, m.timers, m.vol, yes, m.poll)
    BY MemFields DEF Signal, IsMem
  <1> HIDE DEF n, yes
  <1>2. /\ MemShape(n) /\ n.active = m.active /\ n.timers = m.timers /\ n.vol = m.vol
        /\ n.trusted = m.trusted /\ n.poll = m.poll /\ n.dirty = yes
    BY <1>1, MemRead
  <1>3. IsMem(n)
    BY <1>2 DEF IsMem, yes
  <1> QED
    BY <1>2, <1>3, SMTT(30) DEF n, yes

\* Operations are known as before when neither the journal nor the memory changes.
LEMMA KnownSame ==
    ASSUME NEW d, NEW m, NEW h, NEW b, Known(d, m, h, b), NEW d2, NEW m2, NEW h2, NEW b2,
           IsDisk(d2, b2), IsMem(m2), HistShape(h2), d2.ops = d.ops, m2.vol = m.vol,
           h2.made = h.made, h2.answered = h.answered, h2.lost = h.lost
    PROVE  Known(d2, m2, h2, b2)
  <1>1. Ops(d2, m2) = Ops(d, m)
    BY DEF Ops
  <1>2. Ledger(Ops(d2, m2), h2)
    BY <1>1, LedgerSame DEF Known
  <1>3. Apart(d2, m2)
    BY DEF Known, Apart
  <1> QED
    BY <1>2, <1>3 DEF Known

\* What the wakelock follows.
LEMMA LockSame ==
    ASSUME NEW d, NEW m, NEW d2, NEW m2, d2.occ = d.occ, d2.kids = d.kids, d2.ops = d.ops,
           m2.active = m.active, m2.timers = m.timers, m2.vol = m.vol
    PROVE  LockWanted(d2, m2) = LockWanted(d, m)
  <1>1. /\ KidsOf(d2) = KidsOf(d) /\ VolatileKids(m2) = VolatileKids(m)
        /\ Ops(d2, m2) = Ops(d, m)
    BY DEF KidsOf, VolatileKids, Ops
  <1>2. \A o : /\ Executable(d2, m2, o) <=> Executable(d, m, o)
               /\ DeliveredCopy(d2, o) <=> DeliveredCopy(d, o)
    BY <1>1 DEF Executable, DeliveredCopy
  <1>3. Armed(d2, m2) = Armed(d, m)
    BY <1>1, <1>2 DEF Armed
  <1> QED
    BY <1>3 DEF LockWanted

\* What may ring does not depend on the rest of the state.
LEMMA ActiveSame ==
    ASSUME NEW d, NEW m, NEW d2, NEW m2, d2.occ = d.occ, d2.kids = d.kids, d2.ops = d.ops,
           m2.vol = m.vol, NEW o
    PROVE  /\ Held(d2, m2) = Held(d, m)
           /\ Executable(d2, m2, o) <=> Executable(d, m, o)
  BY DEF Held, KidsOf, VolatileKids, Executable, Ops

\* Another ring, or none, leaves the rest of the memory.
LEMMA ActiveSet ==
    ASSUME NEW m, IsMem(m), NEW a, a # None => IsActive(a)
    PROVE  LET n == [m EXCEPT !.active = a]
           IN  /\ IsMem(n) /\ n.active = a /\ n.timers = m.timers /\ n.vol = m.vol
               /\ n.trusted = m.trusted /\ n.poll = m.poll /\ n.dirty = m.dirty
  <1> DEFINE n == [m EXCEPT !.active = a]
  <1>1. n \in MemOf(m.trusted, a, m.timers, m.vol, m.dirty, m.poll)
    BY MemFields DEF IsMem
  <1> HIDE DEF n
  <1>2. /\ MemShape(n) /\ n.active = a /\ n.timers = m.timers /\ n.vol = m.vol
        /\ n.trusted = m.trusted /\ n.poll = m.poll /\ n.dirty = m.dirty
    BY <1>1, MemRead
  <1>3. IsMem(n)
    BY <1>2 DEF IsMem
  <1> QED
    BY <1>2, <1>3, SMTT(30) DEF n

\* The timers leave the rest of the memory.
LEMMA TimersSet ==
    ASSUME NEW m, IsMem(m), NEW ts
    PROVE  LET n == [m EXCEPT !.timers = ts]
           IN  /\ IsMem(n) /\ n.active = m.active /\ n.timers = ts /\ n.vol = m.vol
               /\ n.trusted = m.trusted /\ n.poll = m.poll /\ n.dirty = m.dirty
  <1> DEFINE n == [m EXCEPT !.timers = ts]
  <1>1. n \in MemOf(m.trusted, m.active, ts, m.vol, m.dirty, m.poll)
    BY MemFields DEF IsMem
  <1> HIDE DEF n
  <1>2. /\ MemShape(n) /\ n.active = m.active /\ n.timers = ts /\ n.vol = m.vol
        /\ n.trusted = m.trusted /\ n.poll = m.poll /\ n.dirty = m.dirty
    BY <1>1, MemRead
  <1>3. IsMem(n)
    BY <1>2 DEF IsMem
  <1> QED
    BY <1>2, <1>3, SMTT(30) DEF n

\* What stands in for an occurrence that rings is held.
LEMMA CurrentHeld ==
    ASSUME NEW d, NEW m, NEW o
    PROVE  Current(d, m, o) \subseteq Held(d, m)
  BY DEF Current, Held

\* After the check at the start of a poll, what rings is held and not stopped.
LEMMA CheckActiveEffect ==
    ASSUME boot \in Nat, left \in [Events -> Nat], NEW d, NEW m, Known(d, m, hist, boot),
           CheckActive(d, m)
    PROVE  /\ Known(disk', mem', hist', boot) /\ left' \in [Events -> Nat]
           /\ mem'.poll = m.poll /\ ActiveOK(disk', mem')
  <1> DEFINE a == m.active
             ended == [m EXCEPT !.active = None]
             Stays(x) == disk' = d /\ mem' = x /\ UNCHANGED hist
             Still == {o \in Current(d, m, a.o) : Executable(d, m, o)}
  <1>1. IsDisk(d, boot) /\ IsMem(m) /\ HistShape(hist)
    BY DEF Known, Ledger
  <1>2. /\ IsMem(ended) /\ ended.active = None /\ ended.timers = m.timers /\ ended.vol = m.vol
        /\ ended.poll = m.poll
    BY <1>1, ActiveSet
  <1>3. Known(d, ended, hist, boot)
    <2> HIDE DEF ended
    <2> QED
      BY <1>1, <1>2, KnownSame
  <1>4. CASE a = None /\ Stays(m) /\ UNCHANGED left
    BY <1>4 DEF ActiveOK
  <1>5. CASE /\ a # None /\ a.timer /\ UNCHANGED left
             /\ Stays(IF now < a.deadline THEN m ELSE [ended EXCEPT !.timers = @ \ {a.o}])
    <2>1. CASE mem' = m
      BY <1>5, <2>1 DEF ActiveOK
    <2>2. CASE mem' = [ended EXCEPT !.timers = @ \ {a.o}]
      <3> DEFINE ts == ended.timers \ {a.o}
                 m2 == [ended EXCEPT !.timers = ts]
      <3>1. mem' = m2
        BY <2>2
      <3>2. IsMem(m2) /\ m2.active = None /\ m2.vol = m.vol /\ m2.poll = m.poll
        <4> HIDE DEF ended, ts
        <4> QED
          BY <1>2, TimersSet
      <3> HIDE DEF m2, ts, ended
      <3>3. Known(d, m2, hist, boot)
        BY <1>1, <3>2, KnownSame
      <3> QED
        BY <1>5, <3>1, <3>2, <3>3 DEF ActiveOK
    <2> QED
      BY <1>5, <2>1, <2>2
  <1>6. CASE Still = {} /\ Stays(ended) /\ UNCHANGED left
    <2> HIDE DEF ended
    <2> QED
      BY <1>2, <1>3, <1>6 DEF ActiveOK
  <1>7. ASSUME a # None, NEW o \in Still, UNCHANGED left, Stays([m EXCEPT !.active.o = o])
        PROVE  /\ Known(disk', mem', hist', boot) /\ left' \in [Events -> Nat]
               /\ mem'.poll = m.poll /\ ActiveOK(disk', mem')
    <2> DEFINE b == [a EXCEPT !.o = o]
               m2 == [m EXCEPT !.active = b]
    <2>1. b \in [o : {o}, timer : {a.timer}, deadline : {a.deadline}]
      BY <1>1, <1>7 DEF IsMem, IsActive
    <2>2. mem' = m2
      BY <1>7
    <2>3. o \in Held(d, m) /\ Executable(d, m, o)
      BY CurrentHeld
    <2> HIDE DEF b
    <2>4. IsActive(b) /\ b.o = o
      BY <2>1 DEF IsActive
    <2>5. IsMem(m2) /\ m2.active = b /\ m2.vol = m.vol /\ m2.poll = m.poll
      BY <1>1, <2>4, ActiveSet
    <2> HIDE DEF m2
    <2>6. Known(d, m2, hist, boot)
      BY <1>1, <2>5, KnownSame
    <2>7. o \in Held(d, m2) /\ Executable(d, m2, o)
      BY <2>3, <2>5, ActiveSame
    <2> QED
      BY <1>7, <2>2, <2>4, <2>5, <2>6, <2>7 DEF ActiveOK
  <1>8. ASSUME NEW o \in Still, Journals(d, ended, "expire", o, {}, {})
        PROVE  /\ Known(disk', mem', hist', boot) /\ left' \in [Events -> Nat]
               /\ mem'.poll = m.poll /\ ActiveOK(disk', mem')
    <2> HIDE DEF ended
    <2>1. /\ Known(disk', mem', hist', boot) /\ left' \in [Events -> Nat]
          /\ mem'.active = ended.active /\ mem'.poll = ended.poll
      BY <1>3, <1>8, JournalsEffect
    <2> QED
      BY <1>2, <2>1 DEF ActiveOK
  <1>9. \/ a = None /\ Stays(m) /\ UNCHANGED left
        \/ /\ a # None /\ a.timer /\ UNCHANGED left
           /\ Stays(IF now < a.deadline THEN m ELSE [ended EXCEPT !.timers = @ \ {a.o}])
        \/ Still = {} /\ Stays(ended) /\ UNCHANGED left
        \/ a # None /\ \E o \in Still : UNCHANGED left /\ Stays([m EXCEPT !.active.o = o])
        \/ \E o \in Still : Journals(d, ended, "expire", o, {}, {})
    BY DEF CheckActive
  <1> HIDE DEF a, ended, Stays, Still
  <1> QED
    BY <1>4, <1>5, <1>6, <1>7, <1>8, <1>9

----------------------------------------------------------------------------
(* The invariant is kept, handler by handler                               *)

\* The parts of the invariant after a step.
LEMMA Restored ==
    ASSUME now' \in 0..Horizon, up' \in BOOLEAN, boot' \in Nat, lock' \in BOOLEAN,
           left' \in [Events -> Nat], Known(disk', mem', hist', boot'),
           ~up' => ~mem'.poll /\ mem'.vol = {} /\ mem'.active = None,
           up' /\ ~mem'.poll => lock' = LockWanted(disk', mem'),
           mem'.poll \/ ~mem'.dirty => ActiveOK(disk', mem')
    PROVE  Inv'
  BY DEF Inv, TypeInv, DownInv, LockInStep, Idle, ActiveInv

\* After a handler that signals, and whose process runs.
LEMMA Signalled ==
    ASSUME Inv, Idle, UNCHANGED <<now, up, boot>>, lock' = LockWanted(disk', mem'),
           left' \in [Events -> Nat], Known(disk', mem', hist', boot),
           mem'.poll = mem.poll, mem'.dirty = TRUE
    PROVE  Inv'
  <1>1. lock' \in BOOLEAN
    BY DEF LockWanted
  <1>2. up' /\ ~mem'.poll /\ mem'.dirty
    BY DEF Idle
  <1>3. now' \in 0..Horizon /\ up' \in BOOLEAN /\ boot' \in Nat /\ boot' = boot
    BY DEF Inv, TypeInv
  <1> QED
    BY <1>1, <1>2, <1>3, Restored

\* During a poll, while the mutex is held.
LEMMA Polling ==
    ASSUME Inv, up, UNCHANGED <<now, up, boot, lock>>, left' \in [Events -> Nat],
           Known(disk', mem', hist', boot), mem'.poll, ActiveOK(disk', mem')
    PROVE  Inv'
  <1>1. now' \in 0..Horizon /\ up' \in BOOLEAN /\ boot' \in Nat /\ boot' = boot
        /\ lock' \in BOOLEAN /\ up'
    BY DEF Inv, TypeInv
  <1> QED
    BY <1>1, Restored

\* PollBegin stores what it can of the operations in memory, and checks the ring.
LEMMA PollBeginInv ==
    ASSUME Inv, PollBegin
    PROVE  Inv'
  <1>1. PICK which \in SUBSET Retriable :
          CheckActive(PersistOps(disk, which), [mem EXCEPT !.poll = TRUE, !.vol = Kept(which)])
    BY DEF PollBegin
  <1> DEFINE yes == TRUE
             v == mem.vol \ which
             d == PersistOps(disk, which)
             m == [mem EXCEPT !.poll = yes, !.vol = v]
  <1>2. CheckActive(d, m)
    BY <1>1 DEF Kept
  <1>3. boot \in Nat /\ left \in [Events -> Nat] /\ IsDisk(disk, boot) /\ IsMem(mem)
        /\ Ledger(Ops(disk, mem), hist) /\ Apart(disk, mem)
    BY DEF Inv, TypeInv, Known
  <1>4. which \subseteq mem.vol /\ v \subseteq mem.vol
    BY SMTT(30) DEF Retriable
  <1>5. m \in MemOf(mem.trusted, mem.active, mem.timers, v, mem.dirty, yes)
    <2> HIDE DEF v, yes
    <2> QED
      BY <1>3, MemFields DEF IsMem
  <1>6. /\ MemShape(m) /\ m.trusted = mem.trusted /\ m.active = mem.active /\ m.vol = v
        /\ m.dirty = mem.dirty /\ m.poll = yes
    <2> HIDE DEF v, yes, m
    <2> QED
      BY <1>5, MemRead
  <1>7. IsDisk(d, boot) /\ d.ops = disk.ops \cup {t.op : t \in which}
    BY <1>3, <1>4, PersistType DEF IsMem
  <1> HIDE DEF d, m
  <1>8. IsMem(m)
    BY <1>3, <1>4, <1>6 DEF IsMem, yes
  <1>9. Ops(d, m) = Ops(disk, mem)
    BY <1>4, <1>6, <1>7 DEF Ops
  <1>10. Apart(d, m)
    BY <1>3, <1>4, <1>6, <1>7 DEF Apart
  <1>11. Known(d, m, hist, boot)
    BY <1>3, <1>7, <1>8, <1>9, <1>10 DEF Known
  <1> HIDE DEF yes, v
  <1>12. /\ Known(disk', mem', hist', boot) /\ left' \in [Events -> Nat]
         /\ mem'.poll = m.poll /\ ActiveOK(disk', mem')
    BY <1>2, <1>3, <1>11, CheckActiveEffect
  <1>13. up /\ UNCHANGED <<now, up, boot, lock>> /\ mem'.poll
    BY <1>6, <1>12 DEF PollBegin, Idle, yes
  <1> QED
    BY <1>12, <1>13, Polling

\* PollExpire journals the end of what waited too long.
LEMMA PollExpireInv ==
    ASSUME Inv, PollExpire
    PROVE  Inv'
  <1>1. PICK c \in Heads(disk, mem) : Journals(disk, mem, "expire", c.o, {}, {})
    BY DEF PollExpire
  <1>2. boot \in Nat /\ left \in [Events -> Nat] /\ Known(disk, mem, hist, boot)
    BY DEF Inv, TypeInv
  <1>3. /\ Known(disk', mem', hist', boot) /\ left' \in [Events -> Nat]
        /\ mem'.active = mem.active /\ mem'.poll = mem.poll
    BY <1>1, <1>2, JournalsEffect
  <1>4. up /\ UNCHANGED <<now, up, boot, lock>> /\ mem'.poll /\ mem'.active = None
    BY <1>3 DEF PollExpire
  <1>5. ActiveOK(disk', mem')
    BY <1>4 DEF ActiveOK
  <1> QED
    BY <1>3, <1>4, <1>5, Polling

\* What starts to ring, and is no timer, is armed.
LEMMA HeadArmed ==
    ASSUME NEW d, NEW m, NEW c \in Candidates(d, m), ~c.timer
    PROVE  c.o \in Held(d, m) /\ Executable(d, m, c.o)
  <1>a. c \notin {[o |-> t, timer |-> TRUE, due |-> t.due] : t \in m.timers}
    OBVIOUS
  <1>b. c \in UNION {[o : {o}, timer : {FALSE}, due : DueAt(d, o)] : o \in Armed(d, m)}
    BY <1>a DEF Candidates
  <1>1. PICK o \in Armed(d, m) : c \in [o : {o}, timer : {FALSE}, due : DueAt(d, o)]
    BY <1>b
  <1>2. c.o = o
    BY <1>1
  <1> QED
    BY <1>1, <1>2 DEF Armed, Held

\* A record is added for an occurrence that has none.
LEMMA RingAdded ==
    ASSUME NEW b \in Nat, NEW d, IsDisk(d, b), NEW r, IsRing(r, b), RingOf(d, r.o) = {}
    PROVE  LET n == [d EXCEPT !.rings = @ \cup {r}]
           IN  IsDisk(n, b) /\ n.occ = d.occ /\ n.ops = d.ops /\ n.kids = d.kids
  <1> DEFINE rings == d.rings \cup {r}
             n == [d EXCEPT !.rings = rings]
  <1>1. n \in DiskOf(d.occ, d.ops, d.kids, d.armed, rings, d.anchor)
    <2> HIDE DEF rings
    <2> QED
      BY DiskFields DEF IsDisk
  <1>2. (\A q \in rings : IsRing(q, b)) /\ Single(rings)
    BY DEF IsDisk, Single, RingOf
  <1> HIDE DEF n, rings
  <1>3. /\ DiskShape(n) /\ n.occ = d.occ /\ n.ops = d.ops /\ n.kids = d.kids
        /\ n.armed = d.armed /\ n.rings = rings
    BY <1>1, DiskRead
  <1>4. IsDisk(n, b)
    BY <1>2, <1>3 DEF IsDisk
  <1> QED
    BY <1>3, <1>4, SMTT(30) DEF n, rings

\* First rings are noted apart from the operations.
LEMMA FirstSet ==
    ASSUME NEW h, HistShape(h), NEW f
    PROVE  LET n == [h EXCEPT !.first = f]
           IN  HistShape(n) /\ n.made = h.made /\ n.answered = h.answered /\ n.lost = h.lost
  <1> DEFINE n == [h EXCEPT !.first = f]
  <1>1. n \in HistOf(h.stopped, f, h.made, h.answered, h.lost)
    BY HistFields
  <1> HIDE DEF n
  <1>2. HistShape(n) /\ n.made = h.made /\ n.answered = h.answered /\ n.lost = h.lost
    BY <1>1, HistRead
  <1> QED
    BY <1>2, SMTT(30) DEF n

\* PollStart rings an armed occurrence, its record stored or not.
LEMMA PollStartInv ==
    ASSUME Inv, PollStart
    PROVE  Inv'
  <1> DEFINE Rs(c) == IF c.timer THEN {} ELSE RingOf(disk, c.o)
             End(c) == IF Rs(c) = {} THEN now + MaxRingMs
                       ELSE RingMono(mem, CHOOSE r \in Rs(c) : TRUE)
             Ring(c) == [o |-> c.o, boot |-> boot, first |-> now, deadline |-> End(c),
                         utc |-> IF mem.trusted THEN End(c) ELSE 0]
             Noted(c, k) == [hist EXCEPT !.first = @ \cup {[o |-> c.o, at |-> now, kept |-> k]}]
  <1>1. PICK c \in Heads(disk, mem) :
          /\ mem' = [mem EXCEPT !.active = [o |-> c.o, timer |-> c.timer, deadline |-> End(c)]]
          /\ \/ UNCHANGED <<disk, hist, left>>
             \/ /\ ~c.timer /\ Rs(c) = {}
                /\ Commits([disk EXCEPT !.rings = @ \cup {Ring(c)}]) /\ hist' = Noted(c, TRUE)
             \/ CommitFails(disk) /\ hist' = Noted(c, FALSE)
    BY DEF PollStart
  <1>2. /\ boot \in Nat /\ left \in [Events -> Nat] /\ Known(disk, mem, hist, boot)
        /\ IsDisk(disk, boot) /\ IsMem(mem) /\ HistShape(hist)
    BY DEF Inv, TypeInv, Known, Ledger
  <1> DEFINE e == End(c)
             a == [o |-> c.o, timer |-> c.timer, deadline |-> e]
  <1>3. a # None => IsActive(a)
    <2> HIDE DEF e
    <2> QED
      BY DEF IsActive
  <1>4. a.o = c.o /\ a.timer = c.timer
    <2> HIDE DEF e
    <2> QED
      OBVIOUS
  <1>5. mem' = [mem EXCEPT !.active = a]
    BY <1>1
  <1> HIDE DEF a
  <1>6. IsMem(mem') /\ mem'.active = a /\ mem'.vol = mem.vol /\ mem'.poll = mem.poll
    BY <1>2, <1>3, <1>5, ActiveSet
  <1>7. /\ IsDisk(disk', boot) /\ disk'.occ = disk.occ /\ disk'.ops = disk.ops
        /\ disk'.kids = disk.kids
    <2>1. CASE disk' = disk
      BY <1>2, <2>1
    <2>2. CASE ~c.timer /\ Rs(c) = {} /\ disk' = [disk EXCEPT !.rings = @ \cup {Ring(c)}]
      <3> DEFINE r == Ring(c)
      <3>1. IsRing(r, boot) /\ r.o = c.o
        <4> HIDE DEF End
        <4> QED
          BY <1>2 DEF IsRing
      <3>2. RingOf(disk, c.o) = {}
        BY <2>2
      <3>3. disk' = [disk EXCEPT !.rings = @ \cup {r}]
        BY <2>2
      <3> HIDE DEF r
      <3> QED
        BY <1>2, <3>1, <3>2, <3>3, RingAdded
    <2> QED
      BY <1>1, <2>1, <2>2 DEF Commits, CommitFails
  <1>8. HistShape(hist') /\ hist'.made = hist.made /\ hist'.answered = hist.answered
        /\ hist'.lost = hist.lost
    <2>1. ASSUME NEW k, hist' = Noted(c, k)
          PROVE  HistShape(hist') /\ hist'.made = hist.made /\ hist'.answered = hist.answered
                 /\ hist'.lost = hist.lost
      <3> DEFINE f == hist.first \cup {[o |-> c.o, at |-> now, kept |-> k]}
      <3>1. hist' = [hist EXCEPT !.first = f]
        BY <2>1
      <3> HIDE DEF f
      <3> QED
        BY <1>2, <3>1, FirstSet
    <2>2. CASE hist' = hist
      BY <1>2, <2>2
    <2> QED
      BY <1>1, <2>1, <2>2
  <1>9. left' \in [Events -> Nat]
    BY <1>1, <1>2, SpendsType DEF Commits, CommitFails
  <1> HIDE DEF e, Rs, End, Ring, Noted
  <1>10. Known(disk', mem', hist', boot)
    BY <1>2, <1>6, <1>7, <1>8, KnownSame
  <1>11. ActiveOK(disk', mem')
    <2>1. CASE ~c.timer
      <3>1. c.o \in Held(disk, mem) /\ Executable(disk, mem, c.o)
        BY <2>1, HeadArmed DEF Heads
      <3>2. c.o \in Held(disk', mem') /\ Executable(disk', mem', c.o)
        BY <1>6, <1>7, <3>1, ActiveSame
      <3> QED
        BY <1>4, <1>6, <3>2 DEF ActiveOK
    <2> QED
      BY <1>4, <1>6, <2>1 DEF ActiveOK
  <1>12. up /\ UNCHANGED <<now, up, boot, lock>> /\ mem'.poll
    BY <1>6 DEF PollStart
  <1> QED
    BY <1>9, <1>10, <1>11, <1>12, Polling

\* PollEnd lets the wakelock follow what is armed.
LEMMA PollEndInv ==
    ASSUME Inv, PollEnd
    PROVE  Inv'
  <1> DEFINE no == FALSE
  <1>1. mem' = [mem EXCEPT !.poll = no, !.dirty = no]
    BY DEF PollEnd
  <1>2. boot \in Nat /\ Known(disk, mem, hist, boot) /\ IsDisk(disk, boot) /\ IsMem(mem)
        /\ HistShape(hist)
    BY SMTT(30) DEF Inv, TypeInv, Known, Ledger
  <1> HIDE DEF no
  <1>3. mem' \in MemOf(mem.trusted, mem.active, mem.timers, mem.vol, no, no)
    BY <1>1, <1>2, MemFields DEF IsMem
  <1>4. /\ MemShape(mem') /\ mem'.trusted = mem.trusted /\ mem'.active = mem.active
        /\ mem'.vol = mem.vol /\ mem'.dirty = no /\ mem'.poll = no
    BY <1>3, MemRead
  <1>5. IsMem(mem')
    BY <1>2, <1>4 DEF IsMem, no
  <1>6. /\ UNCHANGED <<now, up, boot, disk, hist, left>> /\ lock' = LockWanted(disk', mem') /\ up
        /\ mem.poll
    BY DEF PollEnd, Reconcile
  <1>7. Known(disk', mem', hist', boot)
    BY <1>2, <1>4, <1>5, <1>6, KnownSame
  <1>8. ActiveOK(disk, mem)
    BY <1>6 DEF Inv, ActiveInv
  <1>9. ActiveOK(disk', mem')
    BY <1>4, <1>6, <1>8, ActiveSame DEF ActiveOK
  <1>10. lock' \in BOOLEAN
    BY <1>6 DEF LockWanted
  <1>11. now' \in 0..Horizon /\ up' \in BOOLEAN /\ boot' \in Nat /\ boot' = boot /\ up'
         /\ left' \in [Events -> Nat]
    BY <1>6 DEF Inv, TypeInv
  <1> QED
    BY <1>6, <1>7, <1>9, <1>10, <1>11, Restored

\* Act journals a stop or snooze of what is held.
LEMMA ActInv ==
    ASSUME Inv, NEW act, NEW o, Act(act, o)
    PROVE  Inv'
  <1> DEFINE isActive == mem.active # None /\ mem.active.o = o
             m0 == IF isActive THEN [mem EXCEPT !.active = None] ELSE mem
             m == Signal(m0)
  <1>1. \/ Journals(disk, m, act, o, {}, {"act"})
        \/ Journals(disk, m, act, o, {SnoozeChild(o)}, {"act"})
    BY DEF Act
  <1>2. /\ boot \in Nat /\ left \in [Events -> Nat] /\ Known(disk, mem, hist, boot)
        /\ IsDisk(disk, boot) /\ IsMem(mem) /\ HistShape(hist)
    BY DEF Inv, TypeInv, Known, Ledger
  <1>3. IsMem(m0) /\ m0.vol = mem.vol /\ m0.poll = mem.poll
    <2>1. CASE isActive
      BY <1>2, <2>1, ActiveSet
    <2> QED
      BY <1>2, <2>1
  <1> HIDE DEF m0
  <1>4. IsMem(m) /\ m.vol = mem.vol /\ m.poll = mem.poll /\ m.dirty = TRUE
    BY <1>3, SignalEffect
  <1> HIDE DEF m
  <1>5. Known(disk, m, hist, boot)
    BY <1>2, <1>4, KnownSame
  <1>6. Own(SnoozeChild(o))
    <2> DEFINE s == <<o.sched, o.due, o.copy>>
               u == now + SnoozeMs
    <2>1. SnoozeChild(o) = [sched |-> s, due |-> u, copy |-> FALSE]
      BY DEF SnoozeChild
    <2> HIDE DEF s, u
    <2> QED
      BY <2>1 DEF Own, IsOcc
  <1>7. /\ Known(disk', mem', hist', boot) /\ left' \in [Events -> Nat]
        /\ mem'.poll = m.poll /\ mem'.dirty = m.dirty
    <2>1. CASE Journals(disk, m, act, o, {}, {"act"})
      BY <1>2, <1>5, <2>1, JournalsEffect
    <2>2. CASE Journals(disk, m, act, o, {SnoozeChild(o)}, {"act"})
      <3> DEFINE cs == {SnoozeChild(o)}
      <3>1. \A x \in cs : Own(x)
        BY <1>6
      <3> HIDE DEF cs
      <3>2. Journals(disk, m, act, o, cs, {"act"})
        BY <2>2 DEF cs
      <3> QED
        BY <1>2, <1>5, <3>1, <3>2, JournalsEffect
    <2> QED
      BY <1>1, <2>1, <2>2
  <1>8. Idle /\ UNCHANGED <<now, up, boot>> /\ lock' = LockWanted(disk', mem')
    BY DEF Act, Reconcile
  <1> QED
    BY <1>4, <1>7, <1>8, Signalled

\* A timer rings.
LEMMA TimerRingInv ==
    ASSUME Inv, TimerRing
    PROVE  Inv'
  <1> DEFINE ts == mem.timers \cup
                     {[sched |-> <<"timer", left["timer"]>>, due |-> now, copy |-> FALSE]}
             m == [mem EXCEPT !.timers = ts]
  <1>1. mem' = Signal(m) /\ Spends({"timer"})
    BY DEF TimerRing
  <1>2. /\ boot \in Nat /\ left \in [Events -> Nat] /\ Known(disk, mem, hist, boot)
        /\ IsDisk(disk, boot) /\ IsMem(mem) /\ HistShape(hist)
    BY DEF Inv, TypeInv, Known, Ledger
  <1> HIDE DEF ts
  <1>3. IsMem(m) /\ m.vol = mem.vol /\ m.poll = mem.poll
    BY <1>2, TimersSet
  <1> HIDE DEF m
  <1>4. IsMem(mem') /\ mem'.vol = mem.vol /\ mem'.poll = mem.poll /\ mem'.dirty = TRUE
    BY <1>1, <1>3, SignalEffect
  <1>5. Idle /\ UNCHANGED <<now, up, boot, disk, hist>> /\ lock' = LockWanted(disk', mem')
    BY DEF TimerRing, Reconcile
  <1>6. Known(disk', mem', hist', boot)
    BY <1>2, <1>4, <1>5, KnownSame
  <1>7. left' \in [Events -> Nat]
    BY <1>1, <1>2, SpendsType
  <1> QED
    BY <1>4, <1>5, <1>6, <1>7, Signalled

\* A timer is stopped, and its ring with it.
LEMMA StopTimerInv ==
    ASSUME Inv, StopTimer
    PROVE  Inv'
  <1>1. PICK t \in mem.timers :
          mem' = Signal([mem EXCEPT
            !.timers = @ \ {t},
            !.active = IF @ # None /\ @.o = t THEN None ELSE @])
    BY DEF StopTimer
  <1> DEFINE ts == mem.timers \ {t}
             a == IF mem.active # None /\ mem.active.o = t THEN None ELSE mem.active
             m == [mem EXCEPT !.timers = ts, !.active = a]
  <1>2. mem' = Signal(m)
    BY <1>1
  <1>3. /\ boot \in Nat /\ left \in [Events -> Nat] /\ Known(disk, mem, hist, boot)
        /\ IsDisk(disk, boot) /\ IsMem(mem) /\ HistShape(hist)
    BY DEF Inv, TypeInv, Known, Ledger
  <1>4. a # None => IsActive(a)
    BY <1>3, SMTT(30) DEF IsMem
  <1> HIDE DEF ts, a
  <1>5. m \in MemOf(mem.trusted, a, ts, mem.vol, mem.dirty, mem.poll)
    BY <1>3, MemFields DEF IsMem
  <1> HIDE DEF m
  <1>6. /\ MemShape(m) /\ m.trusted = mem.trusted /\ m.active = a /\ m.vol = mem.vol
        /\ m.dirty = mem.dirty /\ m.poll = mem.poll
    BY <1>5, MemRead
  <1>7. IsMem(m)
    BY <1>3, <1>4, <1>6 DEF IsMem
  <1>8. IsMem(mem') /\ mem'.vol = mem.vol /\ mem'.poll = mem.poll /\ mem'.dirty = TRUE
    BY <1>2, <1>6, <1>7, SignalEffect
  <1>9. Idle /\ UNCHANGED <<now, up, boot, disk, hist, left>> /\ lock' = LockWanted(disk', mem')
    BY DEF StopTimer, Reconcile
  <1>10. Known(disk', mem', hist', boot)
    BY <1>3, <1>8, <1>9, KnownSame
  <1> QED
    BY <1>3, <1>8, <1>9, <1>10, Signalled

\* The clock is trusted and everything cached armed, which no lock waits for.
LEMMA ClockReplyInv ==
    ASSUME Inv, ClockReply
    PROVE  Inv'
  <1> DEFINE yes == TRUE
             m0 == [mem EXCEPT !.trusted = yes]
             m == Signal(m0)
             new == NewlyArmed(disk, m, disk.occ \cup KidsOf(disk))
             armed == {x \in disk.armed : x.o \notin new} \cup ArmedBy(new)
             d == [disk EXCEPT !.anchor = boot, !.armed = armed]
  <1>1. mem' = m /\ (Commits(d) \/ CommitFails(disk))
    BY DEF ClockReply
  <1>2. /\ boot \in Nat /\ left \in [Events -> Nat] /\ Known(disk, mem, hist, boot)
        /\ IsDisk(disk, boot) /\ IsMem(mem) /\ HistShape(hist)
    BY DEF Inv, TypeInv, Known, Ledger
  <1>3. m0 \in MemOf(yes, mem.active, mem.timers, mem.vol, mem.dirty, mem.poll)
    <2> HIDE DEF yes
    <2> QED
      BY <1>2, MemFields DEF IsMem
  <1>4. /\ MemShape(m0) /\ m0.trusted = yes /\ m0.active = mem.active /\ m0.vol = mem.vol
        /\ m0.timers = mem.timers /\ m0.dirty = mem.dirty /\ m0.poll = mem.poll
    <2> HIDE DEF yes, m0
    <2> QED
      BY <1>3, MemRead
  <1>5. IsMem(m0)
    <2> HIDE DEF m0
    <2> QED
      BY <1>2, <1>4 DEF IsMem
  <1> HIDE DEF m0, yes
  <1>6. /\ IsMem(mem') /\ mem'.vol = mem.vol /\ mem'.poll = mem.poll /\ mem'.dirty = TRUE
        /\ mem'.active = mem.active /\ mem'.timers = mem.timers
    BY <1>1, <1>4, <1>5, SignalEffect
  <1>7. \A x \in armed : x.boot \in Nat /\ x.boot <= boot
    <2> HIDE DEF new
    <2> QED
      BY <1>2, ArmedByBoot, SMTT(30) DEF IsDisk
  <1> HIDE DEF armed
  <1>8. d \in DiskOf(disk.occ, disk.ops, disk.kids, armed, disk.rings, boot)
    BY <1>2, DiskFields DEF IsDisk
  <1> HIDE DEF d
  <1>9. /\ DiskShape(d) /\ d.occ = disk.occ /\ d.ops = disk.ops /\ d.kids = disk.kids
        /\ d.armed = armed /\ d.rings = disk.rings
    BY <1>8, DiskRead
  <1>10. IsDisk(d, boot)
    BY <1>2, <1>7, <1>9 DEF IsDisk
  <1>11. /\ IsDisk(disk', boot) /\ disk'.occ = disk.occ /\ disk'.ops = disk.ops
         /\ disk'.kids = disk.kids /\ left' \in [Events -> Nat]
    BY <1>1, <1>2, <1>9, <1>10, SpendsType DEF Commits, CommitFails
  <1>12. Idle /\ UNCHANGED <<now, up, boot, lock, hist>>
    BY DEF ClockReply
  <1>13. Known(disk', mem', hist', boot)
    BY <1>2, <1>6, <1>11, <1>12, KnownSame
  <1>14. lock' = LockWanted(disk', mem')
    <2>1. lock = LockWanted(disk, mem)
      BY <1>12 DEF Inv, LockInStep
    <2>2. LockWanted(disk', mem') = LockWanted(disk, mem)
      BY <1>6, <1>11, LockSame
    <2> QED
      BY <1>12, <2>1, <2>2
  <1> QED
    BY <1>6, <1>11, <1>12, <1>13, <1>14, Signalled

\* A new process starts with an empty memory.
LEMMA NewMemType ==
    ASSUME NEW trusted \in BOOLEAN
    PROVE  LET n == NewMem(trusted)
           IN  IsMem(n) /\ n.vol = {} /\ n.active = None /\ n.poll = FALSE /\ n.dirty = TRUE
  <1> DEFINE n == NewMem(trusted)
             yes == TRUE
             no == FALSE
  <1>1. n \in MemOf(trusted, None, {}, {}, yes, no)
    BY DEF NewMem, MemOf
  <1> HIDE DEF n, yes, no
  <1>2. /\ MemShape(n) /\ n.trusted = trusted /\ n.active = None /\ n.vol = {} /\ n.dirty = yes
        /\ n.poll = no
    BY <1>1, MemRead
  <1>3. IsMem(n)
    BY <1>2 DEF IsMem, yes, no
  <1> QED
    BY <1>2, <1>3 DEF n, yes, no

\* A crash loses the operations kept in memory, and no others.
LEMMA CrashInv ==
    ASSUME Inv, Crash
    PROVE  Inv'
  <1> DEFINE lost == {t.op : t \in mem.vol}
             l == hist.lost \cup {op.id : op \in lost}
             s == {x \in hist.stopped : \A op \in lost : op.target # x.o}
             f == {x \in hist.first : x.kept}
  <1>1. hist' = [hist EXCEPT !.lost = l, !.stopped = s, !.first = f]
    BY DEF Crash
  <1>2. mem' = NewMem(FALSE) /\ UNCHANGED <<now, boot, disk>> /\ ~up' /\ up' \in BOOLEAN
        /\ lock' \in {lock, FALSE} /\ Spends({"crash"})
    BY DEF Crash
  <1>3. /\ boot \in Nat /\ left \in [Events -> Nat] /\ Known(disk, mem, hist, boot)
        /\ IsDisk(disk, boot) /\ IsMem(mem) /\ HistShape(hist) /\ lock \in BOOLEAN
        /\ now \in 0..Horizon /\ Ledger(Ops(disk, mem), hist)
    BY DEF Inv, TypeInv, Known, Ledger
  <1>4. hist' \in HistOf(s, f, hist.made, hist.answered, l)
    <2> HIDE DEF s, f, l
    <2> QED
      BY <1>1, <1>3, HistFields
  <1>5. /\ HistShape(hist') /\ hist'.made = hist.made /\ hist'.answered = hist.answered
        /\ hist'.lost = l
    <2> HIDE DEF s, f, l
    <2> QED
      BY <1>4, HistRead
  <1>6. IsMem(mem') /\ mem'.vol = {} /\ mem'.active = None /\ mem'.poll = FALSE
        /\ mem'.dirty = TRUE
    BY <1>2, NewMemType
  <1>7. Ops(disk', mem') \subseteq Ops(disk, mem)
    BY <1>2, <1>6 DEF Ops
  <1>8. \A op \in Ops(disk, mem) \ Ops(disk', mem') : op.id \in hist'.lost
    BY <1>2, <1>5, <1>6 DEF Ops
  <1>9. hist.lost \subseteq hist'.lost
    BY <1>5
  <1> HIDE DEF lost, l, s, f
  <1>10. Ledger(Ops(disk', mem'), hist')
    BY <1>3, <1>5, <1>7, <1>8, <1>9, LedgerDrops
  <1>11. Apart(disk', mem')
    BY <1>6 DEF Apart
  <1>12. Known(disk', mem', hist', boot')
    BY <1>2, <1>3, <1>6, <1>10, <1>11 DEF Known
  <1>13. left' \in [Events -> Nat]
    BY <1>2, <1>3, SpendsType
  <1>14. lock' \in BOOLEAN
    BY <1>2, <1>3
  <1> QED
    BY <1>2, <1>3, <1>6, <1>12, <1>13, <1>14, Restored

\* A start, in this boot or the next, takes the wakelock for what the store holds.
LEMMA StartInv ==
    ASSUME Inv, Start
    PROVE  Inv'
  <1>1. /\ boot \in Nat /\ left \in [Events -> Nat] /\ Known(disk, mem, hist, boot)
        /\ IsDisk(disk, boot) /\ HistShape(hist) /\ now \in 0..Horizon
    BY DEF Inv, TypeInv, Known, Ledger
  <1>2. mem.vol = {}
    BY DEF Start, Inv, DownInv
  <1>3. /\ up' /\ up' \in BOOLEAN /\ UNCHANGED <<now, disk, hist>>
        /\ lock' = LockWanted(disk', mem') /\ mem' = NewMem(disk.anchor = boot')
        /\ boot' \in Nat /\ boot <= boot'
    BY <1>1 DEF Start, Reconcile
  <1>4. left' \in [Events -> Nat]
    BY <1>1, SpendsType DEF Start
  <1>5. IsMem(mem') /\ mem'.vol = {} /\ mem'.poll = FALSE /\ mem'.dirty = TRUE
    <2>1. (disk.anchor = boot') \in BOOLEAN
      OBVIOUS
    <2> QED
      BY <1>3, <2>1, NewMemType
  <1>6. IsDisk(disk', boot')
    <2>1. \A x \in disk.armed : x.boot \in Nat /\ x.boot <= boot'
      BY <1>1, <1>3 DEF IsDisk
    <2>2. \A r \in disk.rings : IsRing(r, boot')
      BY <1>1, <1>3 DEF IsDisk, IsRing
    <2> QED
      BY <1>1, <1>3, <2>1, <2>2 DEF IsDisk
  <1>7. Known(disk', mem', hist', boot')
    BY <1>1, <1>2, <1>3, <1>5, <1>6, KnownSame
  <1>8. lock' \in BOOLEAN
    BY <1>3 DEF LockWanted
  <1> QED
    BY <1>3, <1>4, <1>1, <1>5, <1>7, <1>8, Restored

\* Time passes between polls.
LEMMA TickInv ==
    ASSUME Inv, Tick
    PROVE  Inv'
  <1>1. /\ boot \in Nat /\ left \in [Events -> Nat] /\ Known(disk, mem, hist, boot)
        /\ IsDisk(disk, boot) /\ IsMem(mem) /\ HistShape(hist) /\ now \in 0..Horizon
        /\ lock \in BOOLEAN /\ up \in BOOLEAN
    BY DEF Inv, TypeInv, Known, Ledger
  <1>2. /\ now' = now + 1 /\ now < Horizon /\ UNCHANGED <<up, boot, disk, lock, hist, left>>
        /\ (up => ~mem.poll /\ mem' = Signal(mem)) /\ (~up => mem' = mem)
    BY DEF Tick
  <1>3. now' \in 0..Horizon
    BY <1>1, <1>2, TimeAssumption
  <1>4. CASE up
    <2>1. /\ IsMem(mem') /\ mem'.vol = mem.vol /\ mem'.poll = mem.poll /\ mem'.dirty = TRUE
          /\ mem'.active = mem.active /\ mem'.timers = mem.timers
      BY <1>1, <1>2, <1>4, SignalEffect
    <2>2. Known(disk', mem', hist', boot)
      BY <1>1, <1>2, <2>1, KnownSame
    <2>3. lock = LockWanted(disk, mem)
      BY <1>2, <1>4 DEF Inv, LockInStep, Idle
    <2>4. LockWanted(disk', mem') = LockWanted(disk, mem)
      BY <1>2, <2>1, LockSame
    <2>5. lock' = LockWanted(disk', mem')
      BY <1>2, <2>3, <2>4
    <2>6. ~(mem'.poll \/ ~mem'.dirty) /\ up'
      BY <1>2, <1>4, <2>1
    <2> QED
      BY <1>1, <1>2, <1>3, <2>2, <2>5, <2>6, Restored
  <1>5. CASE ~up
    <2>1. ~mem'.poll /\ mem'.vol = {} /\ mem'.active = None
      BY <1>2, <1>5 DEF Inv, DownInv
    <2>2. Known(disk', mem', hist', boot')
      BY <1>1, <1>2, <1>5
    <2>3. ActiveOK(disk', mem')
      BY <2>1 DEF ActiveOK
    <2> QED
      BY <1>1, <1>2, <1>3, <1>5, <2>1, <2>2, <2>3, Restored
  <1> QED
    BY <1>4, <1>5

\* Deliveries leave the operations of the history.
LEMMA DeliversType ==
    ASSUME NEW h, HistShape(h), NEW d, NEW m, NEW d2, NEW put
    PROVE  LET n == Delivers(h, d, m, d2, put)
           IN  HistShape(n) /\ n.made = h.made /\ n.answered = h.answered /\ n.lost = h.lost
  <1> DEFINE a == {IF /\ \E o \in put : Matches(o, s.o)
                       /\ ~\E op \in Ops(d, m) : op.res = None /\ Matches(op.target, s.o)
                    THEN [s EXCEPT !.fresh = TRUE] ELSE s : s \in h.stopped}
             b == {f \in h.first : \E o \in d2.occ \cup KidsOf(d2) : Matches(o, f.o)}
             n == Delivers(h, d, m, d2, put)
  <1>1. n = [h EXCEPT !.stopped = a, !.first = b]
    BY DEF Delivers
  <1> HIDE DEF n, a, b
  <1>2. n \in HistOf(a, b, h.made, h.answered, h.lost)
    BY <1>1, HistFields
  <1>3. HistShape(n) /\ n.made = h.made /\ n.answered = h.answered /\ n.lost = h.lost
    BY <1>2, HistRead
  <1> QED
    BY <1>3 DEF n

\* A delivery forgets only what was answered.
LEMMA DeliveredInv ==
    ASSUME Inv, Idle, NEW put, NEW d, IsDisk(d, boot), DropsAnswered(disk.ops, d.ops),
           Delivered(put, d)
    PROVE  Inv'
  <1>1. /\ boot \in Nat /\ left \in [Events -> Nat] /\ Known(disk, mem, hist, boot)
        /\ IsDisk(disk, boot) /\ IsMem(mem) /\ HistShape(hist)
        /\ Ledger(Ops(disk, mem), hist) /\ Apart(disk, mem)
    BY DEF Inv, TypeInv, Known, Ledger
  <1>2. mem' = Signal(mem) /\ UNCHANGED <<now, up, boot>>
    BY DEF Delivered
  <1>3. /\ IsMem(mem') /\ mem'.vol = mem.vol /\ mem'.poll = mem.poll /\ mem'.dirty = TRUE
        /\ mem'.active = mem.active /\ mem'.timers = mem.timers
    BY <1>1, <1>2, SignalEffect
  <1>4. CASE Commits(d) /\ hist' = Delivers(hist, disk, mem, d, put) /\ lock' = LockWanted(d, mem)
    <2>1. disk' = d /\ left' = left
      BY <1>4 DEF Commits
    <2>2. lock' = LockWanted(disk', mem')
      BY <1>3, <1>4, <2>1, LockSame
    <2>3. /\ HistShape(hist') /\ hist'.made = hist.made /\ hist'.answered = hist.answered
          /\ hist'.lost = hist.lost
      BY <1>1, <1>4, DeliversType
    <2>4. disk'.ops \subseteq disk.ops /\ \A op \in disk.ops \ disk'.ops : op.res # None
      BY <2>1 DEF DropsAnswered
    <2>5. /\ Ops(disk', mem') \subseteq Ops(disk, mem)
          /\ \A op \in Ops(disk, mem) \ Ops(disk', mem') : op.res # None
      BY <1>3, <2>4 DEF Ops
    <2>6. Ledger(Ops(disk', mem'), hist')
      BY <1>1, <2>3, <2>5, LedgerDrops
    <2>7. Apart(disk', mem')
      BY <1>1, <1>3, <2>4 DEF Apart
    <2>8. Known(disk', mem', hist', boot)
      BY <1>3, <2>1, <2>6, <2>7 DEF Known
    <2> QED
      BY <1>1, <1>2, <1>3, <2>1, <2>2, <2>8, Signalled
  <1>5. CASE CommitFails(disk) /\ UNCHANGED <<hist, lock>>
    <2>1. disk' = disk /\ left' \in [Events -> Nat]
      BY <1>1, <1>5, SpendsType DEF CommitFails
    <2>2. Known(disk', mem', hist', boot)
      BY <1>1, <1>3, <1>5, <2>1, KnownSame
    <2>3. lock = LockWanted(disk, mem)
      BY DEF Inv, LockInStep
    <2>4. LockWanted(disk', mem') = LockWanted(disk, mem)
      BY <1>3, <2>1, LockSame
    <2>5. lock' = LockWanted(disk', mem')
      BY <1>5, <2>3, <2>4
    <2> QED
      BY <1>2, <1>3, <2>1, <2>2, <2>5, Signalled
  <1> QED
    BY <1>4, <1>5 DEF Delivered

\* A delta is delivered.
LEMMA ApplyDeltaInv ==
    ASSUME Inv, ApplyDelta
    PROVE  Inv'
  <1> DEFINE gone == (disk.occ \cup ctl.gone) \ Live
             put == Live \ disk.occ
             d == DeltaTxn(disk, mem, gone, put)
  <1>1. Idle /\ Delivered(put, d)
    BY DEF ApplyDelta
  <1>2. boot \in Nat /\ IsDisk(disk, boot)
    BY DEF Inv, TypeInv, Known
  <1>3. IsDisk(d, boot) /\ DropsAnswered(disk.ops, d.ops)
    <2> HIDE DEF gone, put
    <2> QED
      BY <1>2, DeltaType
  <1> HIDE DEF d, put
  <1> QED
    BY <1>1, <1>3, DeliveredInv

\* A snapshot is delivered.
LEMMA ApplySnapshotInv ==
    ASSUME Inv, ApplySnapshot
    PROVE  Inv'
  <1> DEFINE new == Live
             put == Live \ disk.occ
             d == SnapshotTxn(disk, mem, new)
  <1>1. Idle /\ Delivered(put, d)
    BY DEF ApplySnapshot
  <1>2. boot \in Nat /\ IsDisk(disk, boot)
    BY DEF Inv, TypeInv, Known
  <1>3. IsDisk(d, boot) /\ DropsAnswered(disk.ops, d.ops)
    <2> HIDE DEF new
    <2> QED
      BY <1>2, SnapshotType
  <1> HIDE DEF d, new, put
  <1> QED
    BY <1>1, <1>3, DeliveredInv

\* An answer is noted in the history.
LEMMA AnswerNoted ==
    ASSUME NEW h, HistShape(h), NEW ids
    PROVE  LET n == [h EXCEPT !.answered = ids]
           IN  HistShape(n) /\ n.made = h.made /\ n.answered = ids /\ n.lost = h.lost
  <1> DEFINE n == [h EXCEPT !.answered = ids]
  <1>1. n \in HistOf(h.stopped, h.first, h.made, ids, h.lost)
    BY HistFields
  <1> HIDE DEF n
  <1>2. HistShape(n) /\ n.made = h.made /\ n.answered = ids /\ n.lost = h.lost
    BY <1>1, HistRead
  <1> QED
    BY <1>2, SMTT(30) DEF n

\* An operation in memory keeps its answer, and a refused snooze loses its child.
LEMMA AnsweredTxn ==
    ASSUME NEW t, IsTxn(t), NEW state
    PROVE  LET n == [t EXCEPT !.op.res = state, !.kid = IF state = "rejected" THEN {} ELSE @]
           IN  IsTxn(n) /\ n.op = [t.op EXCEPT !.res = state]
  <1> DEFINE a == [t.op EXCEPT !.res = state]
             k == IF state = "rejected" THEN {} ELSE t.kid
             n == [t EXCEPT !.op.res = state, !.kid = IF state = "rejected" THEN {} ELSE @]
  <1>1. n \in [op : {a}, wasKid : {t.wasKid}, kid : {k}, arm : {t.arm}]
    BY DEF IsTxn
  <1>2. IsOp(a)
    BY AnsweredOp DEF IsTxn
  <1>3. \A c \in k : Own(c)
    BY DEF IsTxn
  <1> HIDE DEF n, a, k
  <1>4. IsTxn(n) /\ n.op = a
    BY <1>1, <1>2, <1>3 DEF IsTxn
  <1> QED
    BY <1>4 DEF n, a

\* An answer to an operation in memory.
LEMMA VolatileAnswered ==
    ASSUME NEW d, NEW m, NEW h, NEW b, Known(d, m, h, b), NEW t \in m.vol,
           NEW n, IsTxn(n), n.op.id = t.op.id,
           NEW m2, MemShape(m2), m2.vol = (m.vol \ {t}) \cup {n},
           m2.trusted \in BOOLEAN, m2.dirty \in BOOLEAN, m2.poll \in BOOLEAN,
           m2.active # None => IsActive(m2.active),
           NEW h2, HistShape(h2), h2.made = h.made, h2.lost = h.lost,
           h2.answered = h.answered \cup {t.op.id}
    PROVE  Known(d, m2, h2, b)
  <1>1. IsDisk(d, b) /\ IsMem(m) /\ Ledger(Ops(d, m), h) /\ Apart(d, m)
    BY DEF Known
  <1>2. IsMem(m2)
    BY <1>1 DEF IsMem
  <1>3. Apart(d, m2)
    BY <1>1 DEF Apart
  <1> DEFINE id == t.op.id
             a == n.op
  <1>4. id \in Ids(Ops(d, m)) /\ a.id = id
    BY DEF Ids, Ops
  <1>5. \A p \in Ops(d, m) : p.id # id => p \in Ops(d, m2)
    BY DEF Ops
  <1>6. \A p \in Ops(d, m2) : p = a \/ (p \in Ops(d, m) /\ p.id # id)
    <2>1. ASSUME NEW p \in d.ops PROVE p \in Ops(d, m) /\ p.id # id
      BY <1>1 DEF Ops, Apart
    <2>2. ASSUME NEW u \in m.vol, u # t PROVE u.op \in Ops(d, m) /\ u.op.id # id
      BY <1>1, <2>2 DEF Ops, Apart
    <2> QED
      BY <2>1, <2>2 DEF Ops
  <1> HIDE DEF id, a
  <1>7. h2.answered = h.answered \cup {id}
    BY DEF id
  <1>8. Ledger(Ops(d, m2), h2)
    BY <1>1, <1>4, <1>5, <1>6, <1>7, LedgerAnswers
  <1> QED
    BY <1>1, <1>2, <1>3, <1>8 DEF Known

\* An answer to a journaled operation that is not in memory.
LEMMA JournaledAnswered ==
    ASSUME NEW d, NEW m, NEW h, NEW b \in Nat, Known(d, m, h, b), NEW op \in d.ops, NEW state,
           \A t \in m.vol : t.op.id # op.id, NEW m2, IsMem(m2), m2.vol = m.vol,
           NEW h2, HistShape(h2), h2.made = h.made, h2.lost = h.lost,
           h2.answered = h.answered \cup {op.id}
    PROVE  Known(ResultTxn(d, op, state), m2, h2, b)
  <1> DEFINE n == ResultTxn(d, op, state)
             a == [op EXCEPT !.res = state]
  <1>1. IsDisk(d, b) /\ IsMem(m) /\ Ledger(Ops(d, m), h) /\ Apart(d, m)
    BY DEF Known
  <1>2. IsDisk(n, b) /\ (n.ops = d.ops \ {op} \/ n.ops = (d.ops \ {op}) \cup {a})
    BY <1>1, ResultType
  <1>3. a.id = op.id
    BY <1>1, AnsweredOp DEF IsDisk
  <1> HIDE DEF n, a
  <1>4. Apart(n, m2)
    <2>1. \A p \in n.ops : p \in d.ops \/ p = a
      BY <1>2
    <2> QED
      BY <1>1, <1>3, <2>1 DEF Apart
  <1>5. \A p \in d.ops : p.id = op.id => p = op
    BY <1>1 DEF Ledger, Ops
  <1>6. op.id \in Ids(Ops(d, m))
    BY DEF Ids, Ops
  <1>7. \A p \in Ops(d, m) : p.id # op.id => p \in Ops(n, m2)
    BY <1>2 DEF Ops
  <1>8. \A p \in Ops(n, m2) : p = a \/ (p \in Ops(d, m) /\ p.id # op.id)
    <2>1. ASSUME NEW p \in n.ops PROVE p = a \/ (p \in Ops(d, m) /\ p.id # op.id)
      BY <1>2, <1>5 DEF Ops
    <2>2. ASSUME NEW t \in m2.vol PROVE t.op \in Ops(d, m) /\ t.op.id # op.id
      BY DEF Ops
    <2> QED
      BY <2>1, <2>2 DEF Ops
  <1>9. Ledger(Ops(n, m2), h2)
    BY <1>1, <1>3, <1>6, <1>7, <1>8, LedgerAnswers
  <1>10. Known(n, m2, h2, b)
    BY <1>2, <1>4, <1>9 DEF Known
  <1> QED
    BY <1>10 DEF n

\* ApplyOpResult, whatever the answer and wherever the operation is.
LEMMA ApplyOpResultInv ==
    ASSUME Inv, Idle, UNCHANGED <<now, up, boot>>, NEW id, NEW state, NEW h, HistShape(h),
           h.made = hist.made, h.answered = hist.answered, h.lost = hist.lost,
           ApplyOpResult(id, state, h)
    PROVE  Inv'
  <1>1. /\ boot \in Nat /\ left \in [Events -> Nat] /\ Known(disk, mem, hist, boot)
        /\ IsDisk(disk, boot) /\ IsMem(mem) /\ HistShape(hist) /\ Apart(disk, mem)
    BY DEF Inv, TypeInv, Known, Ledger
  <1>2. lock' = LockWanted(disk', mem')
    BY DEF ApplyOpResult, Reconcile
  <1> DEFINE ids == hist.answered \cup {id}
             noted == [h EXCEPT !.answered = ids]
  <1>3. /\ HistShape(noted) /\ noted.made = hist.made /\ noted.answered = ids
        /\ noted.lost = hist.lost
    <2> HIDE DEF ids
    <2> QED
      BY AnswerNoted
  <1>4. CASE Volatile(id) # {}
    <2> DEFINE Ans(u) == [u EXCEPT !.op.res = state,
                                   !.kid = IF state = "rejected" THEN {} ELSE @]
               v == (mem.vol \ Volatile(id)) \cup {Ans(u) : u \in Volatile(id)}
               m == [mem EXCEPT !.vol = v]
    <2>1. /\ UNCHANGED <<disk, left>> /\ mem' = Signal(m) /\ hist' = noted
      BY <1>4 DEF ApplyOpResult
    <2>2. PICK t \in mem.vol : Volatile(id) = {t} /\ t.op.id = id
      BY <1>1, <1>4 DEF Volatile, Apart
    <2> DEFINE n == Ans(t)
    <2>3. v = (mem.vol \ {t}) \cup {n}
      <3> HIDE DEF Ans
      <3> QED
        BY <2>2
    <2>4. IsTxn(n) /\ n.op.id = t.op.id
      <3>1. IsTxn(t) /\ IsOp(t.op)
        BY <1>1 DEF IsMem, IsTxn
      <3>2. IsTxn(n) /\ n.op = [t.op EXCEPT !.res = state]
        BY <3>1, AnsweredTxn, ZenonT(40)
      <3>3. [t.op EXCEPT !.res = state].id = t.op.id
        BY <3>1, AnsweredOp
      <3> HIDE DEF n
      <3> QED
        BY <3>2, <3>3
    <2> HIDE DEF n, v, Ans
    <2>5. m \in MemOf(mem.trusted, mem.active, mem.timers, v, mem.dirty, mem.poll)
      BY <1>1, MemFields DEF IsMem
    <2> HIDE DEF m
    <2>6. /\ MemShape(m) /\ m.trusted = mem.trusted /\ m.active = mem.active /\ m.vol = v
          /\ m.timers = mem.timers /\ m.dirty = mem.dirty /\ m.poll = mem.poll
      BY <2>5, MemRead
    <2> HIDE DEF noted
    <2>7. Known(disk, m, noted, boot)
      <3>1. /\ m.vol = (mem.vol \ {t}) \cup {n} /\ m.trusted \in BOOLEAN /\ m.dirty \in BOOLEAN
            /\ m.poll \in BOOLEAN /\ (m.active # None => IsActive(m.active))
        BY <1>1, <2>3, <2>6 DEF IsMem
      <3>2. noted.answered = hist.answered \cup {t.op.id}
        BY <1>3, <2>2
      <3> QED
        BY <1>1, <1>3, <2>4, <2>6, <3>1, <3>2, VolatileAnswered
    <2>8. IsMem(m)
      BY <2>7 DEF Known
    <2>9. /\ IsMem(mem') /\ mem'.vol = m.vol /\ mem'.poll = mem.poll /\ mem'.dirty = TRUE
      BY <2>1, <2>6, <2>8, SignalEffect
    <2>10. Known(disk', mem', hist', boot)
      BY <1>1, <1>3, <2>1, <2>7, <2>9, KnownSame
    <2> QED
      BY <1>1, <1>2, <2>1, <2>9, <2>10, Signalled
  <1>5. CASE Volatile(id) = {}
    <2>1. mem' = Signal(mem)
      BY <1>5 DEF ApplyOpResult
    <2>2. /\ IsMem(mem') /\ mem'.vol = mem.vol /\ mem'.poll = mem.poll /\ mem'.dirty = TRUE
      BY <1>1, <2>1, SignalEffect
    <2>3. \/ (\E op \in disk.ops : op.id = id /\ Commits(ResultTxn(disk, op, state)))
             /\ hist' = noted
          \/ UNCHANGED <<disk, left, hist>>
          \/ CommitFails(disk) /\ UNCHANGED hist
      BY <1>5 DEF ApplyOpResult
    <2> HIDE DEF noted
    <2>4. ASSUME NEW op \in disk.ops, op.id = id, Commits(ResultTxn(disk, op, state)),
                 hist' = noted
          PROVE  Known(disk', mem', hist', boot) /\ left' \in [Events -> Nat]
      <3>1. \A t \in mem.vol : t.op.id # op.id
        BY <1>5, <2>4 DEF Volatile
      <3>2. noted.answered = hist.answered \cup {op.id}
        BY <1>3, <2>4
      <3>3. Known(ResultTxn(disk, op, state), mem', noted, boot)
        BY <1>1, <1>3, <2>2, <3>1, <3>2, JournaledAnswered
      <3> QED
        BY <1>1, <2>4, <3>3 DEF Commits
    <2>5. ASSUME disk' = disk, hist' = hist
          PROVE  Known(disk', mem', hist', boot)
      BY <1>1, <2>2, <2>5, KnownSame
    <2>6. Known(disk', mem', hist', boot)
      BY <2>3, <2>4, <2>5 DEF CommitFails
    <2>7. left' \in [Events -> Nat]
      BY <1>1, <2>3, <2>4, SpendsType DEF CommitFails
    <2> QED
      BY <1>2, <2>2, <2>6, <2>7, Signalled
  <1> QED
    BY <1>4, <1>5

\* A step of the controller alone.
LEMMA ControllerInv ==
    ASSUME Inv, UNCHANGED <<now, up, boot, disk, mem, lock, hist>>, left' \in [Events -> Nat]
    PROVE  Inv'
  <1>1. Rings' = Rings /\ Idle' = Idle
    BY DEF Rings, Idle
  <1>2. TypeInv'
    BY DEF Inv, TypeInv
  <1>3. DownInv' /\ LockInStep' /\ ActiveInv'
    BY <1>1 DEF Inv, DownInv, LockInStep, ActiveInv
  <1> QED
    BY <1>2, <1>3 DEF Inv

\* An operation goes up, and may be answered at once.
LEMMA LocalOperationInv ==
    ASSUME Inv, NEW op, LocalOperation(op)
    PROVE  Inv'
  <1>1. HistShape(hist) /\ left \in [Events -> Nat]
    BY DEF Inv, TypeInv, Known, Ledger
  <1>2. Idle /\ UNCHANGED <<now, up, boot>>
    BY DEF LocalOperation
  <1>3. ASSUME NEW r, ApplyOpResult(op.id, r.state, hist)
        PROVE  Inv'
    BY <1>1, <1>2, <1>3, ApplyOpResultInv
  <1>4. ASSUME NEW state, ApplyOpResult(op.id, state, Unrecorded(hist, op))
        PROVE  Inv'
    <2> DEFINE h == Unrecorded(hist, op)
               s == {IF Matches(x.o, op.target) THEN [x EXCEPT !.fresh = TRUE]
                     ELSE x : x \in hist.stopped}
    <2>1. h = [hist EXCEPT !.stopped = s]
      BY DEF Unrecorded
    <2>2. ApplyOpResult(op.id, state, h)
      BY <1>4, SMTT(30)
    <2> HIDE DEF h, s
    <2>3. h \in HistOf(s, hist.first, hist.made, hist.answered, hist.lost)
      BY <1>1, <2>1, HistFields
    <2>4. /\ HistShape(h) /\ h.made = hist.made /\ h.answered = hist.answered
          /\ h.lost = hist.lost
      BY <2>3, HistRead
    <2> QED
      BY <1>2, <2>2, <2>4, ApplyOpResultInv
  <1>5. CASE UNCHANGED <<disk, mem, lock, hist, left>>
    BY <1>1, <1>2, <1>5, ControllerInv
  <1>6. \/ \E r \in ctl.res : ApplyOpResult(op.id, r.state, hist)
        \/ UNCHANGED <<disk, mem, lock, hist, left>>
        \/ \E state : ApplyOpResult(op.id, state, Unrecorded(hist, op))
    BY DEF LocalOperation
  <1> QED
    BY <1>3, <1>4, <1>5, <1>6

\* The applier settles an operation, and the answer arrives or is lost.
LEMMA SettledInv ==
    ASSUME Inv, NEW op, NEW state, Settled(op, state)
    PROVE  Inv'
  <1>1. HistShape(hist) /\ left \in [Events -> Nat]
    BY DEF Inv, TypeInv, Known, Ledger
  <1>2. UNCHANGED <<now, up, boot>>
    BY DEF Settled
  <1>3. \/ Idle /\ ApplyOpResult(op.id, state, hist)
        \/ Spends({"lost"}) /\ UNCHANGED <<disk, mem, lock, hist>>
        \/ Spends({"reject"}) /\ UNCHANGED <<disk, mem, lock, hist>>
    BY DEF Settled
  <1>4. CASE Idle /\ ApplyOpResult(op.id, state, hist)
    BY <1>1, <1>2, <1>4, ApplyOpResultInv
  <1>5. CASE (Spends({"lost"}) \/ Spends({"reject"})) /\ UNCHANGED <<disk, mem, lock, hist>>
    <2>1. left' \in [Events -> Nat]
      BY <1>1, <1>5, SpendsType
    <2> QED
      BY <1>2, <1>5, <2>1, ControllerInv
  <1> QED
    BY <1>3, <1>4, <1>5

----------------------------------------------------------------------------
(* Theorems                                                                *)

\* A speaker starts with an empty store.
LEMMA InitInv == Init => Inv
  <1> SUFFICES ASSUME Init PROVE Inv
    OBVIOUS
  <1>1. IsMem(mem) /\ mem.vol = {} /\ mem.active = None /\ mem.poll = FALSE /\ mem.dirty = TRUE
    BY NewMemType DEF Init
  <1>2. disk \in DiskOf({}, {}, {}, {}, {}, None)
    BY DEF Init, DiskOf
  <1>3. /\ DiskShape(disk) /\ disk.occ = {} /\ disk.ops = {} /\ disk.kids = {}
        /\ disk.armed = {} /\ disk.rings = {}
    BY <1>2, DiskRead
  <1>4. IsDisk(disk, boot)
    BY <1>3 DEF IsDisk, Single
  <1>5. hist \in HistOf({}, {}, {}, {}, {})
    BY DEF Init, HistOf
  <1>6. HistShape(hist) /\ hist.made = {}
    BY <1>5, HistRead
  <1>7. Ops(disk, mem) = {}
    BY <1>1, <1>3 DEF Ops
  <1>8. Ledger(Ops(disk, mem), hist)
    <2>1. IsFiniteSet({}) /\ Cardinality({}) = 0 /\ 1..0 = {}
      BY FS_EmptySet
    <2> QED
      BY <1>6, <1>7, <2>1 DEF Ledger, Ids
  <1>9. Known(disk, mem, hist, boot)
    BY <1>1, <1>3, <1>4, <1>8 DEF Known, Apart
  <1>10. TypeInv
    <2>1. now \in 0..Horizon /\ up \in BOOLEAN /\ boot \in Nat /\ lock \in BOOLEAN
      <3>1. now = 0 /\ boot = 0 /\ up = TRUE /\ lock = FALSE
        BY Zenon DEF Init
      <3>2. 0 \in 0..Horizon
        BY TimeAssumption
      <3> QED
        BY <3>1, <3>2
    <2>2. left \in [Events -> Nat]
      BY BudgetAssumption DEF Init
    <2> QED
      BY <1>9, <2>1, <2>2 DEF TypeInv
  <1>11. ~LockWanted(disk, mem)
    <2>1. mem.timers = {}
      BY DEF Init, NewMem
    <2> QED
      BY <1>1, <1>3, <2>1 DEF LockWanted, Armed, KidsOf, VolatileKids
  <1>12. LockInStep
    BY <1>11 DEF LockInStep, LockWanted, Init
  <1> QED
    BY <1>1, <1>10, <1>12 DEF Inv, DownInv, ActiveInv, Init

\* Every step of the specification keeps the invariant.
LEMMA NextInv == Inv /\ [Next]_vars => Inv'
  <1> SUFFICES ASSUME Inv, [Next]_vars PROVE Inv'
    OBVIOUS
  <1>1. CASE UNCHANGED vars
    <2>1. left' \in [Events -> Nat]
      BY <1>1 DEF vars, Inv, TypeInv
    <2> QED
      BY <1>1, <2>1, ControllerInv DEF vars
  <1>2. CASE Poll
    BY <1>2, PollBeginInv, PollExpireInv, PollStartInv, PollEndInv DEF Poll
  <1>3. CASE Tick
    BY <1>3, TickInv
  <1>4. CASE \E o \in Held(disk, mem) : Act("dismiss", o) \/ Act("snooze", o)
    BY <1>4, ActInv
  <1>5. CASE TimerRing \/ StopTimer \/ ClockReply \/ Crash \/ Start
    BY <1>5, TimerRingInv, StopTimerInv, ClockReplyInv, CrashInv, StartInv
  <1>6. CASE ApplyDelta \/ ApplySnapshot
    BY <1>6, ApplyDeltaInv, ApplySnapshotInv
  <1>7. CASE \E op \in Ops(disk, mem) : LocalOperation(op)
    BY <1>7, LocalOperationInv
  <1>8. CASE \E op \in ctl.pend, state \in {"applied", "rejected"} : Settled(op, state)
    BY <1>8, SettledInv
  <1> QED
    BY <1>1, <1>2, <1>3, <1>4, <1>5, <1>6, <1>7, <1>8 DEF Next

\* The inductive invariant holds in every state.
THEOREM Invariance == Spec => []Inv
  BY InitInv, NextInv, PTL DEF Spec

\* The state is well formed: operations have one number each and are among those
\* made, ring records are one per occurrence, and nothing is dated after this boot.
THEOREM Typed == Spec => []TypeOK
  <1>1. Inv => TypeOK
    <2> SUFFICES ASSUME Inv PROVE TypeOK
      OBVIOUS
    <2>1. /\ now \in 0..Horizon /\ up \in BOOLEAN /\ boot \in Nat /\ lock \in BOOLEAN
          /\ left \in [Events -> Nat] /\ IsDisk(disk, boot) /\ IsMem(mem)
          /\ Ledger(Ops(disk, mem), hist)
      BY DEF Inv, TypeInv, Known
    <2>2. \A x \in disk.armed \cup disk.rings : x.boot <= boot
      BY <2>1 DEF IsDisk, IsRing
    <2>3. /\ \A op \in Ops(disk, mem) : op.id \in hist.made
          /\ \A p, q \in Ops(disk, mem) : p.id = q.id => p = q
      BY <2>1 DEF Ledger, Ids
    <2>4. \A r, q \in disk.rings : r.o = q.o => r = q
      BY <2>1 DEF IsDisk, Single
    <2>5. mem.trusted \in BOOLEAN /\ mem.dirty \in BOOLEAN /\ mem.poll \in BOOLEAN
      BY <2>1 DEF IsMem
    <2> QED
      BY <2>1, <2>2, <2>3, <2>4, <2>5 DEF TypeOK
  <1> QED
    BY <1>1, Invariance, PTL

\* A stop or snooze is journaled, kept in memory, answered or lost with the process
\* that could not store it: persistOpLocked, retryVolatileLocked, ApplyOpResult and
\* dropSettledOps between them forget none, however the answers come back.
THEOREM NoneForgotten == Spec => []KeptUntilAnswered
  <1>1. Inv => KeptUntilAnswered
    BY DEF Inv, TypeInv, Known, Ledger, Ids, KeptUntilAnswered
  <1> QED
    BY <1>1, Invariance, PTL

\* reconcileWakeLockLocked is called wherever it must be: between handlers the
\* wakelock is held exactly while something is armed or rings.
THEOREM Locked == Spec => []LockInStep
  <1>1. Inv => LockInStep
    BY DEF Inv
  <1> QED
    BY <1>1, Invariance, PTL

\* After a poll, what rings is in the cache and not stopped (checkActiveLocked,
\* startLocked).
THEOREM Sounding == Spec => []ActiveIsHeld
  <1>1. Inv => ActiveIsHeld
    BY DEF Inv, ActiveInv, ActiveOK, ActiveIsHeld, Clean, Rings
  <1> QED
    BY <1>1, Invariance, PTL

----------------------------------------------------------------------------
(* Stops hold.  What the argument is about, taken from the state.           *)

\* A snooze child and the occurrence it was made from.
MadeFrom(c, o) == c.sched = <<o.sched, o.due, o.copy>>
Parent(x) == [sched |-> x.sched[1], due |-> x.sched[2], copy |-> x.sched[3]]

Plain(o) == IsOcc(o) /\ o.due \in Nat /\ (IsChild(o) \/ o.copy = FALSE)
Child(c) == IsChild(c) /\ Own(c) /\ c.due \in Nat
IsStop(s) == s \in [o : {s.o}, act : {s.act}, fresh : {s.fresh}] /\ Plain(s.o)
Acts(op) ==
    /\ Plain(op.target)
    /\ \A c \in op.child : op.act = "snooze" /\ MadeFrom(c, op.target) /\ Child(c)

\* The state as far as stops depend on it.
ViewOf(n, d, m, c, h) ==
    [now |-> n, occ |-> d.occ, kids |-> KidsOf(d) \cup VolatileKids(m), ops |-> Ops(d, m),
     cal |-> c.cal, known |-> c.known, pend |-> c.pend, settled |-> Ids(c.res),
     stopped |-> h.stopped]
View == ViewOf(now, disk, mem, ctl, hist)

Blocks(v, o) == \E op \in v.ops : Matches(op.target, o)
Taken(v, op) == op \in v.pend \/ op.id \in v.settled
Shown(v, o) == \E x \in v.known : Matches(x, o)

Forms(v) ==
    /\ v.cal \subseteq v.known /\ v.occ \subseteq v.known
    /\ \A x \in v.known : Plain(x) /\ (IsChild(x) => MadeFrom(x, Parent(x)))
    /\ \A x \in v.kids : Child(x)
    /\ \A op \in v.ops \cup v.pend : Acts(op)
    /\ \A s \in v.stopped : IsStop(s)

\* A stop keeps what it ended out of the cache or silent, but for a snooze
\* child once a write has failed.
Silent(v, calm) ==
    \A s \in v.stopped :
        \/ s.fresh \/ (IsChild(s.o) /\ ~calm) \/ Blocks(v, s.o)
        \/ \A x \in v.occ \cup v.kids : ~Matches(x, s.o)

(* While no write has failed:                                               *)

\* the controller knows what it answered a stop of,
Recorded(v) == \A s \in v.stopped : s.fresh \/ Blocks(v, s.o) \/ Shown(v, s.o)
Learned(v) == \A op \in v.ops : op.res # None \/ Taken(v, op) => Shown(v, op.target)

\* an occurrence has one operation,
Exclusive(v) == \A p, q \in v.ops : Matches(p.target, q.target) => p = q

\* what is snoozed was due and is no child any more,
SnoozedDue(v) ==
    \A op \in v.ops : op.act = "snooze" => op.target \notin v.kids /\ op.target.due <= v.now

\* the operations of the controller's journal are still the speaker's,
Journaled(v) ==
    \A op \in v.pend :
        op \in v.ops /\ op.res = None /\ op.target \in v.known /\ op.id \notin v.settled

\* the child of a snooze is not known before the snooze is settled,
Unborn(v) ==
    \A op \in v.ops : op.res = None /\ op.id \notin v.settled =>
        \A c \in op.child : ~Shown(v, c)

\* a delivered copy has replaced the child,
Replaced(v) == \A x \in v.occ, k \in v.kids : ~Matches(x, k)

\* the parent of a child that is known cannot ring again,
Gone(v, p) ==
    /\ p \in v.known \ v.cal /\ p.due <= v.now /\ p \notin v.kids
    /\ p \in v.occ => Blocks(v, p)
Retired(v) == \A x \in v.known : IsChild(x) => Gone(v, Parent(x))

\* and a child made again after it was stopped waits for the older operation.
Remade(v) ==
    \A op \in v.ops, k \in v.kids : Matches(k, op.target) =>
        /\ ~Shown(v, op.target)
        /\ \E q \in v.ops : k \in q.child /\ q.id > op.id /\ q.res = None /\ ~Taken(v, q)

Calm(v) ==
    /\ Recorded(v) /\ Learned(v) /\ Exclusive(v) /\ SnoozedDue(v) /\ Journaled(v)
    /\ Unborn(v) /\ Replaced(v) /\ Retired(v) /\ Remade(v)

\* Operations have one number each.
Numbered(v) == \A p, q \in v.ops : p.id = q.id => p = q

\* A child tells what it was made from.
LEMMA ParentOf ==
    ASSUME NEW x, NEW p, IsOcc(p), MadeFrom(x, p)
    PROVE  Parent(x) = p
  <1> DEFINE a == p.sched
             b == p.due
             c == p.copy
  <1>1. p \in [sched : {a}, due : {b}, copy : {c}]
    BY DEF IsOcc
  <1>2. x.sched = <<a, b, c>>
    BY DEF MadeFrom
  <1> HIDE DEF a, b, c
  <1>3. p = [sched |-> a, due |-> b, copy |-> c]
    BY <1>1
  <1>4. x.sched[1] = a /\ x.sched[2] = b /\ x.sched[3] = c
    BY <1>2
  <1> QED
    BY <1>3, <1>4 DEF Parent

\* Children of one schedule have one parent.
LEMMA SameParent ==
    ASSUME NEW x, NEW y, NEW p, NEW q, MadeFrom(x, p), MadeFrom(y, q), Matches(x, y)
    PROVE  Matches(p, q)
  <1>1. <<p.sched, p.due, p.copy>> = <<q.sched, q.due, q.copy>>
    BY DEF MadeFrom, Matches
  <1> QED
    BY <1>1 DEF Matches

\* What is made from another is a child.
LEMMA MadeChild ==
    ASSUME NEW x, NEW p, MadeFrom(x, p)
    PROVE  IsChild(x)
  BY DEF MadeFrom, IsChild

\* An alarm is no child, whatever matches it.
LEMMA ChildMatch ==
    ASSUME NEW x, NEW y, Matches(x, y)
    PROVE  IsChild(x) <=> IsChild(y)
  BY DEF Matches, IsChild

\* Alarms that match are the same.
LEMMA PlainMatch ==
    ASSUME NEW x, NEW y, Plain(x), Plain(y), ~IsChild(x), Matches(x, y)
    PROVE  x = y
  <1>1. ~IsChild(y)
    BY ChildMatch
  <1>2. Own(x) /\ Own(y)
    BY <1>1 DEF Plain, Own
  <1> QED
    BY <1>2, OwnMatch

(* Steps, as far as stops see them.                                         *)

\* Time passes, or nothing changes.
LEMMA Later ==
    ASSUME NEW v, NEW w, v.now \in Nat, w.now \in Nat, v.now <= w.now,
           w.occ = v.occ, w.kids = v.kids, w.ops = v.ops, w.cal = v.cal, w.known = v.known,
           w.pend = v.pend, w.settled = v.settled, w.stopped = v.stopped, Forms(v)
    PROVE  /\ Forms(w)
           /\ \A calm : Silent(v, calm) => Silent(w, calm)
           /\ Calm(v) => Calm(w)
  <1>1. \A o : (Blocks(w, o) <=> Blocks(v, o)) /\ (Shown(w, o) <=> Shown(v, o))
               /\ (Taken(w, o) <=> Taken(v, o))
    BY DEF Blocks, Shown, Taken
  <1>2. Forms(w)
    BY DEF Forms
  <1>3. ASSUME NEW calm, Silent(v, calm) PROVE Silent(w, calm)
    BY <1>1, <1>3 DEF Silent
  <1>4. ASSUME Calm(v) PROVE Calm(w)
    <2>1. Recorded(w) /\ Learned(w) /\ Exclusive(w)
      BY <1>1, <1>4 DEF Calm, Recorded, Learned, Exclusive
    <2>2. Journaled(w) /\ Unborn(w) /\ Replaced(w) /\ Remade(w)
      BY <1>1, <1>4 DEF Calm, Journaled, Unborn, Replaced, Remade
    <2>3. SnoozedDue(w)
      <3>1. \A op \in v.ops : op.target.due \in Nat
        BY DEF Forms, Acts, Plain
      <3> QED
        BY <1>4, <3>1 DEF Calm, SnoozedDue
    <2>4. Retired(w)
      <3> SUFFICES ASSUME NEW x \in w.known, IsChild(x) PROVE Gone(w, Parent(x))
        BY DEF Retired
      <3> DEFINE p == Parent(x)
      <3>1. Gone(v, p)
        BY <1>4 DEF Calm, Retired
      <3> HIDE DEF p
      <3>2. p.due \in Nat
        BY <3>1 DEF Gone, Forms, Plain
      <3>3. Gone(w, p)
        BY <1>1, <3>1, <3>2 DEF Gone
      <3> QED
        BY <3>3 DEF p
    <2> QED
      BY <2>1, <2>2, <2>3, <2>4 DEF Calm
  <1> QED
    BY <1>2, <1>3, <1>4

\* Children leave.
LEMMA Fewer ==
    ASSUME NEW v, NEW w, w.kids \subseteq v.kids,
           w.occ = v.occ, w.ops = v.ops, w.cal = v.cal, w.known = v.known,
           w.pend = v.pend, w.stopped = v.stopped, Forms(v)
    PROVE  Forms(w) /\ \A calm : Silent(v, calm) => Silent(w, calm)
  BY DEF Forms, Silent, Blocks

\* Stops are refreshed.
LEMMA Refreshed ==
    ASSUME NEW v, NEW w, w.now = v.now, w.occ = v.occ, w.kids = v.kids, w.ops = v.ops,
           w.cal = v.cal, w.known = v.known, w.pend = v.pend, w.settled = v.settled,
           \A s \in w.stopped : IsStop(s) /\ \E r \in v.stopped : r.o = s.o /\ (r.fresh => s.fresh),
           Forms(v)
    PROVE  /\ Forms(w)
           /\ \A calm : Silent(v, calm) => Silent(w, calm)
           /\ Calm(v) => Calm(w)
  <1>1. \A o : (Blocks(w, o) <=> Blocks(v, o)) /\ (Shown(w, o) <=> Shown(v, o))
               /\ (Taken(w, o) <=> Taken(v, o))
    BY DEF Blocks, Shown, Taken
  <1>2. Forms(w)
    BY DEF Forms
  <1>3. ASSUME NEW calm, Silent(v, calm) PROVE Silent(w, calm)
    <2> SUFFICES ASSUME NEW s \in w.stopped
                 PROVE  \/ s.fresh \/ (IsChild(s.o) /\ ~calm) \/ Blocks(w, s.o)
                        \/ \A x \in w.occ \cup w.kids : ~Matches(x, s.o)
      BY DEF Silent
    <2>1. PICK r \in v.stopped : r.o = s.o /\ (r.fresh => s.fresh)
      OBVIOUS
    <2> QED
      BY <1>1, <1>3, <2>1 DEF Silent
  <1>4. ASSUME Calm(v) PROVE Calm(w)
    <2>1. Learned(w) /\ Exclusive(w) /\ SnoozedDue(w)
      BY <1>1, <1>4 DEF Calm, Learned, Exclusive, SnoozedDue
    <2>2. Journaled(w) /\ Unborn(w) /\ Replaced(w) /\ Remade(w)
      BY <1>1, <1>4 DEF Calm, Journaled, Unborn, Replaced, Remade
    <2>3. Recorded(w)
      <3> SUFFICES ASSUME NEW s \in w.stopped
                   PROVE  s.fresh \/ Blocks(w, s.o) \/ Shown(w, s.o)
        BY DEF Recorded
      <3>1. PICK r \in v.stopped : r.o = s.o /\ (r.fresh => s.fresh)
        OBVIOUS
      <3> QED
        BY <1>1, <1>4, <3>1 DEF Calm, Recorded
    <2>4. Retired(w)
      BY <1>1, <1>4 DEF Calm, Retired, Gone
    <2> QED
      BY <2>1, <2>2, <2>3, <2>4 DEF Calm
  <1> QED
    BY <1>2, <1>3, <1>4

\* A stop or snooze: what it ends was not stopped, and a child is due later.
Ends(v, w, op) ==
    /\ Acts(op) /\ op.res = None /\ ~Blocks(v, op.target)
    /\ op.target \in v.occ \cup v.kids
    /\ op.child # {} => /\ op.target.due <= v.now
                        /\ \A c \in op.child : v.now < c.due
    /\ op.act = "snooze" => op.target.due <= v.now
    /\ \A p \in v.ops : p.id # op.id /\ p.id < op.id
    /\ w.now = v.now /\ w.occ = v.occ /\ w.cal = v.cal /\ w.known = v.known
    /\ w.pend = v.pend /\ w.settled = v.settled
    /\ w.ops = v.ops \cup {op}
    /\ w.stopped = v.stopped \cup {[o |-> op.target, act |-> op.act, fresh |-> FALSE]}

\* The child of a snooze is made while its parent may ring: no other was known.
LEMMA NewBorn ==
    ASSUME NEW v, NEW op, Forms(v), Retired(v), Acts(op), ~Blocks(v, op.target),
           op.target \in v.occ \cup v.kids, NEW c \in op.child
    PROVE  ~Shown(v, c)
  <1> SUFFICES ASSUME NEW x \in v.known, Matches(x, c) PROVE FALSE
    BY DEF Shown
  <1> DEFINE p == op.target
  <1>1. MadeFrom(c, p) /\ IsOcc(p)
    BY DEF Acts, Plain
  <1>2. MadeFrom(x, p)
    BY <1>1 DEF MadeFrom, Matches
  <1>3. IsChild(x) /\ Parent(x) = p
    BY <1>1, <1>2, MadeChild, ParentOf
  <1> HIDE DEF p
  <1>4. Gone(v, p)
    BY <1>3 DEF Retired
  <1> QED
    BY <1>4 DEF Gone, p

\* A stop keeps the forms, and what was silent stays so.
LEMMA Stopping ==
    ASSUME NEW v, NEW w, NEW op, Forms(v), Ends(v, w, op), w.kids \subseteq v.kids \cup op.child,
           NEW calm, Silent(v, calm), calm => Calm(v), NEW calm2, calm2 => calm
    PROVE  Forms(w) /\ Silent(w, calm2)
  <1>1. Forms(w)
    <2>1. \A x \in w.kids : Child(x)
      BY DEF Forms, Ends, Acts
    <2>2. \A s \in w.stopped : IsStop(s)
      <3> DEFINE no == FALSE
                 s == [o |-> op.target, act |-> op.act, fresh |-> no]
      <3>1. IsStop(s)
        <4> HIDE DEF no
        <4> QED
          BY DEF Ends, Acts, IsStop
      <3>2. w.stopped = v.stopped \cup {s}
        BY DEF Ends
      <3> HIDE DEF s
      <3> QED
        BY <3>1, <3>2 DEF Forms
    <2> QED
      BY <2>1, <2>2 DEF Forms, Ends
  <1>2. \A o : Blocks(v, o) => Blocks(w, o)
    BY DEF Blocks, Ends
  <1>3. ASSUME NEW s \in v.stopped
        PROVE  \/ s.fresh \/ (IsChild(s.o) /\ ~calm2) \/ Blocks(w, s.o)
               \/ \A x \in w.occ \cup w.kids : ~Matches(x, s.o)
    <2> SUFFICES ASSUME ~s.fresh, ~(IsChild(s.o) /\ ~calm2), ~Blocks(w, s.o),
                        NEW x \in w.occ \cup w.kids, Matches(x, s.o)
                 PROVE  FALSE
      OBVIOUS
    <2>1. \A y \in v.occ \cup v.kids : ~Matches(y, s.o)
      BY <1>2 DEF Silent
    <2>2. x \in op.child
      BY <2>1 DEF Ends
    <2>3. IsChild(s.o)
      BY <2>2, MadeChild, ChildMatch DEF Ends, Acts
    <2>4. Calm(v)
      BY <2>3
    <2>5. Shown(v, s.o)
      BY <1>2, <2>4 DEF Calm, Recorded
    <2>6. Shown(v, x)
      BY <2>5 DEF Shown, Matches
    <2> QED
      BY <2>2, <2>4, <2>6, NewBorn DEF Calm, Ends
  <1>4. ASSUME NEW s, s = [o |-> op.target, act |-> op.act, fresh |-> FALSE]
        PROVE  Blocks(w, s.o)
    BY <1>4 DEF Blocks, Ends, Matches
  <1> QED
    BY <1>1, <1>3, <1>4 DEF Silent, Ends

\* A stop that is stored keeps all of it.
LEMMA Stored ==
    ASSUME NEW v, NEW w, NEW op, v.now \in Nat, Forms(v), Calm(v), Ends(v, w, op), Forms(w),
           \A p \in v.ops \cup {op} : p.id \in Nat,
           w.kids = (v.kids \ {op.target}) \cup op.child,
           ~Taken(v, op)
    PROVE  Calm(w)
  <1>1. \A o : (Blocks(v, o) => Blocks(w, o)) /\ (Shown(w, o) <=> Shown(v, o))
               /\ (Taken(w, o) <=> Taken(v, o))
    BY DEF Blocks, Shown, Taken, Ends
  <1>2. \A c \in op.child : ~Shown(v, c)
    BY NewBorn DEF Calm, Ends
  <1>3. Recorded(w)
    <2>1. ASSUME NEW s, s = [o |-> op.target, act |-> op.act, fresh |-> FALSE]
          PROVE  Blocks(w, s.o)
      BY <2>1 DEF Blocks, Ends, Matches
    <2> QED
      BY <1>1, <2>1 DEF Recorded, Calm, Ends
  <1>4. Learned(w)
    BY <1>1 DEF Learned, Calm, Ends
  <1>5. Exclusive(w)
    BY DEF Exclusive, Calm, Ends, Blocks, Matches
  <1>6. SnoozedDue(w)
    <2> SUFFICES ASSUME NEW p \in w.ops, p.act = "snooze"
                 PROVE  p.target \notin w.kids /\ p.target.due <= w.now
      BY DEF SnoozedDue
    <2>1. p.target.due <= v.now /\ p.target.due \in Nat
      BY DEF Calm, SnoozedDue, Ends, Forms, Acts, Plain
    <2>2. p.target \notin op.child
      BY <2>1 DEF Ends, Acts, Child
    <2>3. p = op \/ p.target \notin v.kids
      BY DEF Calm, SnoozedDue, Ends
    <2> QED
      BY <2>1, <2>2, <2>3 DEF Ends
  <1>7. Journaled(w)
    BY DEF Journaled, Calm, Ends
  <1>8. Unborn(w)
    BY <1>1, <1>2 DEF Unborn, Calm, Ends
  <1>9. Retired(w)
    <2> SUFFICES ASSUME NEW x \in w.known, IsChild(x) PROVE Gone(w, Parent(x))
      BY DEF Retired
    <2> DEFINE p == Parent(x)
    <2>1. Gone(v, p)
      BY DEF Calm, Retired, Ends
    <2> HIDE DEF p
    <2>2. p \notin op.child
      <3>1. p.due \in Nat /\ p.due <= v.now
        BY <2>1 DEF Gone, Forms, Plain
      <3> QED
        BY <3>1 DEF Ends, Acts, Child
    <2>3. Gone(w, p)
      BY <1>1, <2>1, <2>2 DEF Gone, Ends
    <2> QED
      BY <2>3 DEF p
  <1>10. Remade(w)
    <2> SUFFICES ASSUME NEW p \in w.ops, NEW k \in w.kids, Matches(k, p.target)
                 PROVE  /\ ~Shown(w, p.target)
                        /\ \E q \in w.ops : /\ k \in q.child /\ q.id > p.id /\ q.res = None
                                            /\ ~Taken(w, q)
      BY DEF Remade
    <2>1. CASE k \in op.child
      <3>1. ~Shown(v, k)
        BY <1>2, <2>1
      <3>2. ~Shown(v, p.target)
        BY <3>1 DEF Shown, Matches
      <3>3. p # op
        <4> SUFFICES ASSUME Matches(k, op.target) PROVE FALSE
          OBVIOUS
        <4>1. k.due = op.target.due /\ v.now < k.due /\ op.target.due <= v.now
          BY <2>1 DEF Ends, Matches
        <4>2. k.due \in Nat
          BY <2>1 DEF Ends, Acts, Child
        <4> QED
          BY <4>1, <4>2
      <3>4. op.id > p.id
        BY <3>3 DEF Ends
      <3>5. op \in w.ops /\ op.res = None /\ ~Taken(w, op)
        BY <1>1 DEF Ends
      <3> QED
        BY <1>1, <2>1, <3>2, <3>4, <3>5
    <2>2. CASE k \in v.kids /\ k # op.target /\ p \in v.ops
      BY <1>1, <2>2 DEF Calm, Remade, Ends
    <2>3. CASE k \in v.kids /\ k # op.target /\ p = op
      <3>1. k = op.target
        <4>1. op.target \in v.kids \/ op.target \in v.occ
          BY DEF Ends
        <4>2. ASSUME op.target \in v.kids PROVE k = op.target
          BY <2>3, <4>2, OwnMatch DEF Forms, Child
        <4>3. ASSUME op.target \in v.occ PROVE FALSE
          BY <2>3, <4>3 DEF Calm, Replaced, Matches
        <4> QED
          BY <4>1, <4>2, <4>3
      <3> QED
        BY <2>3, <3>1
    <2> QED
      BY <2>1, <2>2, <2>3 DEF Ends
  <1>11. Replaced(w)
    BY <1>2 DEF Replaced, Calm, Ends, Forms, Shown
  <1> QED
    BY <1>3, <1>4, <1>5, <1>6, <1>7, <1>8, <1>9, <1>10, <1>11 DEF Calm

\* A delivery: what it drops was answered and is not delivered, and what it puts is
\* fresh unless a stop of it is still unanswered.
Brings(v, w, put) ==
    /\ w.occ \subseteq v.cal /\ w.occ \subseteq v.occ \cup put
    /\ w.kids \subseteq v.kids
    /\ w.ops \subseteq v.ops
    /\ \A op \in v.ops : op.res = None \/ (\E x \in w.occ : Matches(op.target, x)) => op \in w.ops
    /\ \A s \in w.stopped : IsStop(s) /\ \E r \in v.stopped :
          /\ r.o = s.o /\ (r.fresh => s.fresh)
          /\ (\E x \in put : Matches(x, r.o)) /\
             ~(\E op \in v.ops : op.res = None /\ Matches(op.target, r.o)) => s.fresh
    /\ w.now = v.now /\ w.cal = v.cal /\ w.known = v.known
    /\ w.pend = v.pend /\ w.settled = v.settled

\* A delivery keeps the forms, and what was silent stays so.
LEMMA Delivering ==
    ASSUME NEW v, NEW w, NEW put, Forms(v), Brings(v, w, put),
           NEW calm, Silent(v, calm), calm => Calm(v), NEW calm2, calm2 => calm
    PROVE  Forms(w) /\ Silent(w, calm2)
  <1>1. Forms(w)
    BY DEF Forms, Brings
  <1>2. ASSUME NEW s \in w.stopped
        PROVE  \/ s.fresh \/ (IsChild(s.o) /\ ~calm2) \/ Blocks(w, s.o)
               \/ \A x \in w.occ \cup w.kids : ~Matches(x, s.o)
    <2> SUFFICES ASSUME ~s.fresh, ~(IsChild(s.o) /\ ~calm2), ~Blocks(w, s.o),
                        NEW x \in w.occ \cup w.kids, Matches(x, s.o)
                 PROVE  FALSE
      OBVIOUS
    <2>1. PICK r \in v.stopped :
            /\ r.o = s.o /\ ~r.fresh
            /\ (\E y \in put : Matches(y, r.o)) =>
                  \E op \in v.ops : op.res = None /\ Matches(op.target, r.o)
      BY DEF Brings
    <2>2. ASSUME NEW op \in v.ops, op.res = None, Matches(op.target, s.o)
          PROVE  FALSE
      BY <2>2 DEF Brings, Blocks
    <2>3. x \notin put
      BY <2>1, <2>2
    <2>4. x \in v.occ \cup v.kids
      BY <2>3 DEF Brings
    <2>5. Blocks(v, s.o)
      BY <2>1, <2>4 DEF Silent
    <2>6. PICK op \in v.ops : Matches(op.target, s.o)
      BY <2>5 DEF Blocks
    <2>7. Matches(op.target, x)
      BY <2>6 DEF Matches
    <2>8. op \notin w.ops
      BY <2>6 DEF Blocks
    <2>9. x \in w.kids
      BY <2>7, <2>8 DEF Brings
    <2>10. IsChild(s.o)
      BY <2>9, ChildMatch DEF Brings, Forms, Child
    <2>11. Calm(v)
      BY <2>10
    <2>12. Matches(x, op.target) /\ x \in v.kids
      BY <2>7, <2>9 DEF Matches, Brings
    <2>13. ~Shown(v, op.target)
      BY <2>11, <2>12 DEF Calm, Remade
    <2>14. op.res = None
      BY <2>11, <2>13 DEF Calm, Learned
    <2> QED
      BY <2>2, <2>6, <2>14
  <1> QED
    BY <1>1, <1>2 DEF Silent

\* While no write has failed it keeps all of it.
LEMMA Brought ==
    ASSUME NEW v, NEW w, NEW put, Forms(v), Calm(v), Brings(v, w, put),
           \A x \in w.occ, k \in w.kids : ~Matches(x, k)
    PROVE  Calm(w)
  <1>1. \A o : (Shown(w, o) <=> Shown(v, o)) /\ (Taken(w, o) <=> Taken(v, o))
    BY DEF Shown, Taken, Brings
  <1>2. \A op \in v.ops : op.res = None => op \in w.ops
    BY DEF Brings
  <1>3. Recorded(w)
    <2> SUFFICES ASSUME NEW s \in w.stopped, ~s.fresh, ~Blocks(w, s.o)
                 PROVE  Shown(w, s.o)
      BY DEF Recorded
    <2>1. PICK r \in v.stopped : r.o = s.o /\ ~r.fresh
      BY DEF Brings
    <2>2. CASE Shown(v, s.o)
      BY <1>1, <2>2
    <2>3. CASE Blocks(v, s.o)
      <3>1. PICK op \in v.ops : Matches(op.target, s.o)
        BY <2>3 DEF Blocks
      <3>2. op.res # None
        BY <1>2, <3>1 DEF Blocks
      <3>3. Shown(v, op.target)
        BY <3>2 DEF Calm, Learned
      <3> QED
        BY <1>1, <3>1, <3>3 DEF Shown, Matches
    <2> QED
      BY <2>1, <2>2, <2>3 DEF Calm, Recorded
  <1>4. Learned(w) /\ Exclusive(w) /\ SnoozedDue(w)
    BY <1>1 DEF Learned, Exclusive, SnoozedDue, Calm, Brings
  <1>5. Journaled(w) /\ Unborn(w)
    BY <1>1, <1>2 DEF Journaled, Unborn, Calm, Brings
  <1>6. Replaced(w)
    BY DEF Replaced
  <1>7. Retired(w)
    <2> SUFFICES ASSUME NEW x \in w.known, IsChild(x) PROVE Gone(w, Parent(x))
      BY DEF Retired
    <2> DEFINE p == Parent(x)
    <2>1. Gone(v, p)
      BY DEF Calm, Retired, Brings
    <2> HIDE DEF p
    <2>2. Gone(w, p)
      BY <2>1 DEF Gone, Brings
    <2> QED
      BY <2>2 DEF p
  <1>8. Remade(w)
    <2> SUFFICES ASSUME NEW p \in w.ops, NEW k \in w.kids, Matches(k, p.target)
                 PROVE  /\ ~Shown(w, p.target)
                        /\ \E q \in w.ops : /\ k \in q.child /\ q.id > p.id /\ q.res = None
                                            /\ ~Taken(w, q)
      BY DEF Remade
    <2>1. p \in v.ops /\ k \in v.kids
      BY DEF Brings
    <2>2. ~Shown(v, p.target)
      BY <2>1 DEF Calm, Remade
    <2>3. PICK q \in v.ops : k \in q.child /\ q.id > p.id /\ q.res = None /\ ~Taken(v, q)
      BY <2>1 DEF Calm, Remade
    <2> QED
      BY <1>1, <1>2, <2>2, <2>3
  <1> QED
    BY <1>3, <1>4, <1>5, <1>6, <1>7, <1>8 DEF Calm

\* An answer: the operation is dropped, or kept with its answer while its target
\* is delivered.
Answers(v, w, op, a) ==
    /\ op \in v.ops
    /\ a.id = op.id /\ a.act = op.act /\ a.target = op.target /\ a.child = op.child
    /\ w.ops \subseteq (v.ops \ {op}) \cup {a} /\ v.ops \ {op} \subseteq w.ops
    /\ (\E x \in v.occ : Matches(op.target, x)) => a \in w.ops
    /\ w.kids \subseteq v.kids
    /\ w.now = v.now /\ w.occ = v.occ /\ w.cal = v.cal /\ w.known = v.known
    /\ w.pend = v.pend /\ w.settled = v.settled /\ w.stopped = v.stopped

\* Operations go up in the order of their numbers.
Next1(v, op) == \A p \in v.ops : p.id < op.id /\ p.res = None => Taken(v, p)

\* What is answered was settled, or is the next one up, on an occurrence the
\* controller never showed, whose stops are void.
Answerable(v, op) ==
    /\ op \notin v.pend /\ op.res = None
    /\ \/ op.id \in v.settled
       \/ Next1(v, op) /\ \A s \in v.stopped : Matches(op.target, s.o) => s.fresh

\* Of operations whose child was made again, none is answered first.
LEMMA Unanswered ==
    ASSUME NEW v, Calm(v), \A p \in v.ops : p.id \in Nat, NEW op \in v.ops, NEW k \in v.kids,
           Matches(k, op.target), NEW q \in v.ops, q.id > op.id, Next1(v, q)
    PROVE  FALSE
  <1>1. ~Shown(v, op.target)
    BY DEF Calm, Remade
  <1>2. op.res = None /\ ~Taken(v, op)
    BY <1>1 DEF Calm, Learned
  <1>3. op.id < q.id
    OBVIOUS
  <1> QED
    BY <1>2, <1>3 DEF Next1

\* An answer keeps the forms, and what was silent stays so.
LEMMA Answering ==
    ASSUME NEW v, NEW w, NEW op, NEW a, Forms(v), Answers(v, w, op, a),
           \A p \in v.ops : p.id \in Nat,
           NEW calm, Silent(v, calm), calm => Calm(v) /\ Answerable(v, op)
    PROVE  Forms(w) /\ Silent(w, calm)
  <1>1. Forms(w)
    BY DEF Forms, Answers, Acts
  <1>2. ASSUME NEW s \in w.stopped
        PROVE  \/ s.fresh \/ (IsChild(s.o) /\ ~calm) \/ Blocks(w, s.o)
               \/ \A x \in w.occ \cup w.kids : ~Matches(x, s.o)
    <2> SUFFICES ASSUME ~s.fresh, ~(IsChild(s.o) /\ ~calm), ~Blocks(w, s.o),
                        NEW x \in w.occ \cup w.kids, Matches(x, s.o)
                 PROVE  FALSE
      OBVIOUS
    <2>1. s \in v.stopped /\ x \in v.occ \cup v.kids
      BY DEF Answers
    <2>2. Blocks(v, s.o)
      BY <2>1 DEF Silent
    <2>3. Matches(op.target, s.o) /\ a \notin w.ops
      BY <2>2 DEF Blocks, Answers
    <2>4. x \in w.kids
      BY <2>3 DEF Answers, Matches
    <2>5. IsChild(s.o) /\ x \in v.kids
      BY <2>4, ChildMatch DEF Answers, Forms, Child
    <2>6. Calm(v) /\ Answerable(v, op)
      BY <2>5
    <2>7. Matches(x, op.target) /\ op \in v.ops
      BY <2>3 DEF Matches, Answers
    <2>8. ~Shown(v, op.target)
      BY <2>5, <2>6, <2>7 DEF Calm, Remade
    <2>9. op.id \notin v.settled
      BY <2>6, <2>7, <2>8 DEF Calm, Learned, Taken
    <2> QED
      BY <2>1, <2>3, <2>6, <2>9 DEF Answerable
  <1> QED
    BY <1>1, <1>2 DEF Silent

\* While no write has failed it keeps all of it.
LEMMA Answered ==
    ASSUME NEW v, NEW w, NEW op, NEW a, Forms(v), Calm(v), Numbered(v), Answers(v, w, op, a),
           \A p \in v.ops : p.id \in Nat, Answerable(v, op),
           a \in w.ops => \E x \in v.occ : Matches(op.target, x)
    PROVE  Calm(w)
  <1>1. \A o : (Shown(w, o) <=> Shown(v, o)) /\ (Taken(w, o) <=> Taken(v, o))
    BY DEF Shown, Taken, Answers
  <1>2. \A p \in w.ops : p = a \/ (p \in v.ops /\ p # op)
    BY DEF Answers
  <1>3. \A p \in v.ops : p = op \/ p \in w.ops
    BY DEF Answers
  <1>4. a.target = op.target /\ a.child = op.child /\ a.id = op.id /\ a.act = op.act
        /\ op \in v.ops
    BY DEF Answers
  <1>5. \A x \in v.occ : Matches(op.target, x) => a \in w.ops
    BY DEF Answers
  <1>6. Recorded(w)
    <2> SUFFICES ASSUME NEW s \in w.stopped, ~s.fresh, ~Blocks(w, s.o)
                 PROVE  Shown(w, s.o)
      BY DEF Recorded
    <2>1. s \in v.stopped
      BY DEF Answers
    <2>2. CASE Shown(v, s.o)
      BY <1>1, <2>2
    <2>3. CASE Blocks(v, s.o)
      <3>1. Matches(op.target, s.o)
        BY <1>3, <2>3 DEF Blocks
      <3>2. op.id \in v.settled
        BY <2>1, <3>1 DEF Answerable
      <3>3. Shown(v, op.target)
        BY <1>4, <3>2 DEF Calm, Learned, Taken
      <3> QED
        BY <1>1, <3>1, <3>3 DEF Shown, Matches
    <2> QED
      BY <2>1, <2>2, <2>3 DEF Calm, Recorded
  <1>7. Learned(w)
    <2> SUFFICES ASSUME NEW p \in w.ops, p.res # None \/ Taken(w, p) PROVE Shown(w, p.target)
      BY DEF Learned
    <2>1. CASE p # a
      BY <1>1, <1>2, <2>1 DEF Calm, Learned
    <2>2. CASE p = a
      <3>1. CASE op.id \in v.settled
        BY <1>1, <1>4, <2>2, <3>1 DEF Calm, Learned, Taken
      <3>2. CASE \E x \in v.occ : Matches(op.target, x)
        BY <1>1, <1>4, <2>2, <3>2 DEF Shown, Forms, Matches
      <3> QED
        BY <2>2, <3>2
    <2> QED
      BY <2>1, <2>2
  <1>8. Exclusive(w)
    <2> SUFFICES ASSUME NEW p \in w.ops, NEW q \in w.ops, Matches(p.target, q.target)
                 PROVE  p = q
      BY DEF Exclusive
    <2>1. PICK p1 \in v.ops : p1.target = p.target /\ ((p = p1 /\ p # op) \/ (p = a /\ p1 = op))
      BY <1>2, <1>4
    <2>2. PICK q1 \in v.ops : q1.target = q.target /\ ((q = q1 /\ q # op) \/ (q = a /\ q1 = op))
      BY <1>2, <1>4
    <2>3. p1 = q1
      BY <2>1, <2>2 DEF Calm, Exclusive
    <2> QED
      BY <2>1, <2>2, <2>3
  <1>9. SnoozedDue(w)
    <2> SUFFICES ASSUME NEW p \in w.ops, p.act = "snooze"
                 PROVE  p.target \notin w.kids /\ p.target.due <= w.now
      BY DEF SnoozedDue
    <2>1. PICK p1 \in v.ops : p1.target = p.target /\ p1.act = p.act
      BY <1>2, <1>4
    <2>2. p1.target \notin v.kids /\ p1.target.due <= v.now
      BY <2>1 DEF Calm, SnoozedDue
    <2> QED
      BY <2>1, <2>2 DEF Answers
  <1>10. Journaled(w)
    <2> SUFFICES ASSUME NEW p \in v.pend
                 PROVE  /\ p \in w.ops /\ p.res = None /\ p.target \in v.known
                        /\ p.id \notin v.settled
      BY DEF Journaled, Answers
    <2>1. /\ p \in v.ops /\ p.res = None /\ p.target \in v.known /\ p.id \notin v.settled
      BY DEF Calm, Journaled
    <2>2. p # op
      BY DEF Answerable
    <2> QED
      BY <1>3, <2>1, <2>2
  <1>11. Unborn(w)
    <2> SUFFICES ASSUME NEW p \in w.ops, p.res = None, p.id \notin v.settled,
                        NEW c \in p.child
                 PROVE  ~Shown(v, c)
      BY <1>1 DEF Unborn, Answers
    <2>1. CASE p # a
      BY <1>2, <2>1 DEF Calm, Unborn
    <2>2. CASE p = a
      <3>1. op.res = None /\ op.id \notin v.settled
        BY <1>4, <2>2 DEF Answerable
      <3> QED
        BY <1>4, <2>2, <3>1 DEF Calm, Unborn
    <2> QED
      BY <2>1, <2>2
  <1>12. Replaced(w)
    BY DEF Replaced, Calm, Answers
  <1>13. Retired(w)
    <2> SUFFICES ASSUME NEW x \in w.known, IsChild(x) PROVE Gone(w, Parent(x))
      BY DEF Retired
    <2> DEFINE p == Parent(x)
    <2>1. Gone(v, p)
      BY DEF Calm, Retired, Answers
    <2> HIDE DEF p
    <2>2. ASSUME p \in v.occ PROVE Blocks(w, p)
      <3>1. PICK q \in v.ops : Matches(q.target, p)
        BY <2>1, <2>2 DEF Gone, Blocks
      <3>2. CASE q # op
        BY <1>3, <3>1, <3>2 DEF Blocks
      <3>3. CASE q = op
        BY <1>4, <1>5, <2>2, <3>1, <3>3 DEF Blocks
      <3> QED
        BY <3>2, <3>3
    <2>3. Gone(w, p)
      BY <2>1, <2>2 DEF Gone, Answers
    <2> QED
      BY <2>3 DEF p
  <1>14. Remade(w)
    <2> SUFFICES ASSUME NEW p \in w.ops, NEW k \in w.kids, Matches(k, p.target)
                 PROVE  /\ ~Shown(w, p.target)
                        /\ \E q \in w.ops : /\ k \in q.child /\ q.id > p.id /\ q.res = None
                                            /\ ~Taken(w, q)
      BY DEF Remade
    <2>1. PICK p1 \in v.ops : p1.target = p.target /\ p1.id = p.id
      BY <1>2, <1>4
    <2>2. ~Shown(v, p1.target) /\ k \in v.kids
      BY <2>1 DEF Calm, Remade, Answers
    <2>3. PICK q \in v.ops : k \in q.child /\ q.id > p1.id /\ q.res = None /\ ~Taken(v, q)
      BY <2>1, <2>2 DEF Calm, Remade
    <2>4. q # op
      <3> SUFFICES ASSUME q = op PROVE FALSE
        OBVIOUS
      <3>1. Next1(v, q)
        BY <2>3 DEF Answerable, Taken
      <3>2. Matches(k, p1.target)
        BY <2>1
      <3> QED
        BY <2>2, <2>3, <3>1, <3>2, Unanswered
    <2> QED
      BY <1>1, <1>3, <2>1, <2>2, <2>3, <2>4
  <1> QED
    BY <1>6, <1>7, <1>8, <1>9, <1>10, <1>11, <1>12, <1>13, <1>14 DEF Calm

\* An operation on an occurrence the controller showed enters its journal.
Enters(v, w, q) ==
    /\ q \in v.ops /\ q.res = None /\ ~Taken(v, q) /\ q.target \in v.known /\ Next1(v, q)
    /\ w.pend = v.pend \cup {q}
    /\ w.now = v.now /\ w.occ = v.occ /\ w.kids = v.kids /\ w.ops = v.ops /\ w.cal = v.cal
    /\ w.known = v.known /\ w.settled = v.settled /\ w.stopped = v.stopped

\* It keeps everything.
LEMMA Entering ==
    ASSUME NEW v, NEW w, NEW q, Forms(v), Enters(v, w, q), \A p \in v.ops : p.id \in Nat
    PROVE  /\ Forms(w)
           /\ \A calm : Silent(v, calm) => Silent(w, calm)
           /\ Calm(v) => Calm(w)
  <1>1. \A o : (Blocks(w, o) <=> Blocks(v, o)) /\ (Shown(w, o) <=> Shown(v, o))
    BY DEF Blocks, Shown, Enters
  <1>2. \A p : Taken(w, p) <=> Taken(v, p) \/ p = q
    BY DEF Taken, Enters
  <1>3. Forms(w)
    BY DEF Forms, Enters
  <1>4. ASSUME NEW calm, Silent(v, calm) PROVE Silent(w, calm)
    BY <1>1, <1>4 DEF Silent, Enters
  <1>5. ASSUME Calm(v) PROVE Calm(w)
    <2>1. Shown(v, q.target)
      BY DEF Shown, Enters, Matches
    <2>2. Learned(w)
      BY <1>1, <1>2, <1>5, <2>1 DEF Calm, Learned, Enters
    <2>3. Recorded(w) /\ Exclusive(w) /\ SnoozedDue(w) /\ Unborn(w) /\ Replaced(w)
      BY <1>1, <1>5
         DEF Calm, Recorded, Exclusive, SnoozedDue, Unborn, Replaced, Enters
    <2>4. Journaled(w)
      BY <1>5 DEF Calm, Journaled, Enters, Taken
    <2>5. Retired(w)
      BY <1>1, <1>5 DEF Calm, Retired, Gone, Enters
    <2>6. Remade(w)
      <3> SUFFICES ASSUME NEW p \in v.ops, NEW k \in v.kids, Matches(k, p.target)
                   PROVE  /\ ~Shown(w, p.target)
                          /\ \E r \in v.ops : /\ k \in r.child /\ r.id > p.id /\ r.res = None
                                              /\ ~Taken(w, r)
        BY DEF Remade, Enters
      <3>1. ~Shown(v, p.target)
        BY <1>5 DEF Calm, Remade
      <3>2. PICK r \in v.ops : k \in r.child /\ r.id > p.id /\ r.res = None /\ ~Taken(v, r)
        BY <1>5 DEF Calm, Remade
      <3>3. r # q
        <4> SUFFICES ASSUME r = q PROVE FALSE
          OBVIOUS
        <4>1. Next1(v, r)
          BY DEF Enters
        <4> QED
          BY <1>5, <3>2, <4>1, Unanswered
      <3> QED
        BY <1>1, <1>2, <3>1, <3>2, <3>3
    <2> QED
      BY <2>2, <2>3, <2>4, <2>5, <2>6 DEF Calm
  <1> QED
    BY <1>3, <1>4, <1>5

\* The applier settles an operation: its target leaves the calendar, and what is
\* shown in its place is a child of it, under one key or another.
Settling(v, w, q, shown) ==
    /\ q \in v.pend
    /\ \A x \in shown :
          Plain(x) /\ (IsChild(x) => MadeFrom(x, Parent(x))) /\ \E c \in q.child : Matches(x, c)
    /\ w.pend = v.pend \ {q} /\ w.settled = v.settled \cup {q.id}
    /\ w.known = v.known \cup shown /\ w.cal \subseteq v.cal \cup shown
    /\ shown # {} => q.target \notin w.cal \ shown
    /\ w.now = v.now /\ w.occ = v.occ /\ w.kids = v.kids /\ w.ops = v.ops
    /\ w.stopped = v.stopped

\* It keeps everything.
LEMMA Settlement ==
    ASSUME NEW v, NEW w, NEW q, NEW shown, Forms(v), Settling(v, w, q, shown)
    PROVE  /\ Forms(w)
           /\ \A calm : Silent(v, calm) => Silent(w, calm)
           /\ Calm(v) /\ Numbered(v) => Calm(w)
  <1>1. \A o : Blocks(w, o) <=> Blocks(v, o)
    BY DEF Blocks, Settling
  <1>2. \A o : Shown(v, o) => Shown(w, o)
    BY DEF Shown, Settling
  <1>3. Forms(w)
    BY DEF Forms, Settling
  <1>4. ASSUME NEW calm, Silent(v, calm) PROVE Silent(w, calm)
    BY <1>1, <1>4 DEF Silent, Settling
  <1>5. ASSUME Calm(v), Numbered(v) PROVE Calm(w)
    <2>1. /\ q \in v.ops /\ q.res = None /\ q.target \in v.known /\ q.id \notin v.settled
          /\ Acts(q)
      BY <1>5 DEF Calm, Journaled, Settling, Forms
    <2>2. \A p \in v.ops : (Taken(w, p) <=> Taken(v, p)) /\ (p.id = q.id => p = q)
      BY <1>5, <2>1 DEF Taken, Settling, Numbered
    <2>3. \A x \in shown : \E c \in q.child : Matches(x, c) /\ ~Shown(v, c)
      BY <1>5, <2>1 DEF Settling, Calm, Unborn
    <2>4. ASSUME NEW p \in v.ops, NEW c \in p.child, p # q
          PROVE  Shown(w, c) => Shown(v, c)
      <3> SUFFICES ASSUME NEW x \in shown, Matches(x, c) PROVE FALSE
        BY DEF Shown, Settling
      <3>1. PICK e \in q.child : Matches(x, e)
        BY <2>3
      <3>2. MadeFrom(c, p.target) /\ MadeFrom(e, q.target) /\ Matches(c, e)
        BY <2>1, <3>1 DEF Forms, Acts, Matches
      <3>3. Matches(p.target, q.target)
        BY <3>2, SameParent
      <3> QED
        BY <1>5, <2>1, <2>4, <3>3 DEF Calm, Exclusive
    <2>5. Recorded(w)
      BY <1>1, <1>2, <1>5 DEF Calm, Recorded, Settling
    <2>6. Learned(w)
      BY <1>2, <1>5, <2>2 DEF Calm, Learned, Settling
    <2>7. Exclusive(w) /\ SnoozedDue(w) /\ Replaced(w)
      BY <1>5 DEF Calm, Exclusive, SnoozedDue, Replaced, Settling
    <2>8. Journaled(w)
      BY <1>5, <2>2 DEF Calm, Journaled, Settling
    <2>9. Unborn(w)
      <3> SUFFICES ASSUME NEW p \in v.ops, p.res = None, p.id \notin w.settled, NEW c \in p.child
                   PROVE  ~Shown(w, c)
        BY DEF Unborn, Settling
      <3>1. p # q /\ p.id \notin v.settled
        BY DEF Settling
      <3> QED
        BY <1>5, <2>4, <3>1 DEF Calm, Unborn
    <2>10. Retired(w)
      <3> SUFFICES ASSUME NEW x \in w.known, IsChild(x) PROVE Gone(w, Parent(x))
        BY DEF Retired
      <3>1. CASE x \in v.known
        <4> DEFINE p == Parent(x)
        <4>1. Gone(v, p)
          BY <1>5, <3>1 DEF Calm, Retired
        <4> HIDE DEF p
        <4>2. p \notin shown
          BY <2>3, <4>1 DEF Gone, Shown
        <4>3. Gone(w, p)
          BY <1>1, <4>1, <4>2 DEF Gone, Settling
        <4> QED
          BY <4>3 DEF p
      <3>2. CASE x \in shown
        <4>1. PICK c \in q.child : Matches(x, c) /\ ~Shown(v, c)
          BY <2>3, <3>2
        <4>2. MadeFrom(x, q.target) /\ IsOcc(q.target) /\ q.act = "snooze"
          BY <2>1, <4>1 DEF Acts, MadeFrom, Matches, Plain
        <4>3. Parent(x) = q.target
          BY <4>2, ParentOf
        <4>4. q.target \notin v.kids /\ q.target.due <= v.now
          BY <1>5, <2>1, <4>2 DEF Calm, SnoozedDue
        <4>5. q.target \notin shown
          BY <2>1, <2>3 DEF Shown
        <4>6. q.target \notin w.cal
          BY <3>2, <4>5 DEF Settling
        <4>7. Blocks(w, q.target)
          BY <2>1 DEF Blocks, Settling, Matches
        <4> QED
          BY <2>1, <4>3, <4>4, <4>6, <4>7 DEF Gone, Settling
      <3> QED
        BY <3>1, <3>2 DEF Settling
    <2>11. Remade(w)
      <3> SUFFICES ASSUME NEW p \in v.ops, NEW k \in v.kids, Matches(k, p.target)
                   PROVE  /\ ~Shown(w, p.target)
                          /\ \E r \in v.ops : /\ k \in r.child /\ r.id > p.id /\ r.res = None
                                              /\ ~Taken(w, r)
        BY DEF Remade, Settling
      <3>1. ~Shown(v, p.target)
        BY <1>5 DEF Calm, Remade
      <3>2. PICK r \in v.ops : k \in r.child /\ r.id > p.id /\ r.res = None /\ ~Taken(v, r)
        BY <1>5 DEF Calm, Remade
      <3>3. r # q
        BY <3>2 DEF Taken, Settling
      <3>4. Shown(w, k) => Shown(v, k)
        BY <2>4, <3>2, <3>3
      <3>5. ~Shown(w, p.target)
        BY <3>1, <3>4 DEF Shown, Matches
      <3> QED
        BY <2>2, <3>2, <3>5
    <2> QED
      BY <2>5, <2>6, <2>7, <2>8, <2>9, <2>10, <2>11 DEF Calm
  <1> QED
    BY <1>3, <1>4, <1>5

\* A crash loses the operations that could not be stored, and their stops.
LEMMA Losing ==
    ASSUME NEW v, NEW w, NEW lost, Forms(v), w.occ = v.occ, w.kids \subseteq v.kids,
           w.ops \subseteq v.ops, v.ops \subseteq w.ops \cup lost,
           w.cal = v.cal, w.known = v.known, w.pend = v.pend,
           w.stopped = {s \in v.stopped : \A op \in lost : op.target # s.o},
           NEW calm, Silent(v, calm), calm => lost = {}
    PROVE  Forms(w) /\ Silent(w, calm)
  <1>1. Forms(w)
    BY DEF Forms
  <1>2. ASSUME NEW s \in w.stopped
        PROVE  \/ s.fresh \/ (IsChild(s.o) /\ ~calm) \/ Blocks(w, s.o)
               \/ \A x \in w.occ \cup w.kids : ~Matches(x, s.o)
    <2>1. CASE Blocks(v, s.o)
      <3>1. PICK op \in v.ops : Matches(op.target, s.o)
        BY <2>1 DEF Blocks
      <3>2. CASE op \in w.ops
        BY <3>1, <3>2 DEF Blocks
      <3>3. CASE op \in lost
        <4>1. op.target # s.o /\ Plain(op.target) /\ Plain(s.o)
          BY <3>3 DEF Forms, Acts, IsStop
        <4>2. IsChild(s.o)
          BY <3>1, <4>1, PlainMatch, ChildMatch
        <4> QED
          BY <3>3, <4>2
      <3> QED
        BY <3>1, <3>2, <3>3
    <2> QED
      BY <2>1 DEF Silent
  <1> QED
    BY <1>1, <1>2 DEF Silent

(* The steps of the specification.                                          *)

Aged(n, d, m) ==
    /\ \A t \in m.timers : t.due \in Nat /\ t.due <= n
    /\ m.active # None => m.active.o.due \in Nat /\ m.active.o.due <= n
    /\ \A r \in d.rings : r.o.due \in Nat /\ r.first \in Nat /\ r.o.due <= r.first /\ r.first <= n

\* What stops rely on, in a state given by its parts.
StopAt(n, d, m, c, h, calm) ==
    /\ Aged(n, d, m)
    /\ Forms(ViewOf(n, d, m, c, h))
    /\ Silent(ViewOf(n, d, m, c, h), calm)
    /\ calm => Calm(ViewOf(n, d, m, c, h)) /\ m.vol = {}

CtlOf(cal, known, pend, res, gone) ==
    [cal : {cal}, known : {known}, pend : {pend}, res : {res}, gone : {gone}]
CtlShape(c) == c \in CtlOf(c.cal, c.known, c.pend, c.res, c.gone)

LeftOK == left["commit"] <= Budget["commit"]
Entered(c, h) == Ids(c.res) \cup Ids(c.pend) \subseteq h.made

StopInv ==
    /\ LeftOK /\ CtlShape(ctl) /\ Entered(ctl, hist)
    /\ StopAt(now, disk, mem, ctl, hist, ~CommitFailed)

\* What a view reads as.
LEMMA ViewRead ==
    ASSUME NEW n, NEW d, NEW m, NEW c, NEW h, NEW v, v = ViewOf(n, d, m, c, h)
    PROVE  /\ v.now = n /\ v.occ = d.occ /\ v.kids = KidsOf(d) \cup VolatileKids(m)
           /\ v.ops = Ops(d, m) /\ v.cal = c.cal /\ v.known = c.known /\ v.pend = c.pend
           /\ v.settled = Ids(c.res) /\ v.stopped = h.stopped
  BY DEF ViewOf

\* Fewer stops are held to it once a write has failed.
LEMMA Hushed ==
    ASSUME NEW v, NEW calm, NEW calm2, Silent(v, calm), calm2 => calm
    PROVE  Silent(v, calm2)
  BY DEF Silent

\* A step that fails to write is never forgotten.
LEMMA CommitSpent ==
    ASSUME left \in [Events -> Nat], LeftOK, NEW events, Spends(events) \/ (UNCHANGED left /\ events = {})
    PROVE  LeftOK' /\ (~CommitFailed' => ~CommitFailed /\ "commit" \notin events)
  <1>1. Budget["commit"] \in Nat /\ left["commit"] \in Nat /\ "commit" \in Events
    BY BudgetAssumption DEF Events
  <1>2. CASE UNCHANGED left /\ events = {}
    BY <1>2 DEF LeftOK, CommitFailed
  <1>3. CASE Spends(events)
    <2>1. left'["commit"] = IF "commit" \in events THEN left["commit"] - 1 ELSE left["commit"]
      BY <1>1, <1>3 DEF Spends
    <2> QED
      BY <1>1, <2>1 DEF LeftOK, CommitFailed
  <1> QED
    BY <1>2, <1>3

\* Nothing that stops rely on changes but the time.
LEMMA QuietAt ==
    ASSUME NEW n \in Nat, NEW d, NEW m, NEW c, NEW h, NEW calm, StopAt(n, d, m, c, h, calm),
           NEW n2 \in Nat, NEW d2, NEW m2, NEW h2, NEW calm2, n <= n2, Aged(n2, d2, m2),
           d2.occ = d.occ, d2.kids = d.kids, d2.ops = d.ops, m2.vol = m.vol,
           h2.stopped = h.stopped, calm2 => calm
    PROVE  StopAt(n2, d2, m2, c, h2, calm2)
  <1> DEFINE v == ViewOf(n, d, m, c, h)
             w == ViewOf(n2, d2, m2, c, h2)
  <1>1. /\ v.now = n /\ v.occ = d.occ /\ v.kids = KidsOf(d) \cup VolatileKids(m)
        /\ v.ops = Ops(d, m) /\ v.cal = c.cal /\ v.known = c.known /\ v.pend = c.pend
        /\ v.settled = Ids(c.res) /\ v.stopped = h.stopped
    <2> HIDE DEF v
    <2> QED
      BY ViewRead DEF v
  <1>2. /\ w.now = n2 /\ w.occ = d2.occ /\ w.kids = KidsOf(d2) \cup VolatileKids(m2)
        /\ w.ops = Ops(d2, m2) /\ w.cal = c.cal /\ w.known = c.known /\ w.pend = c.pend
        /\ w.settled = Ids(c.res) /\ w.stopped = h2.stopped
    <2> HIDE DEF w
    <2> QED
      BY ViewRead DEF w
  <1>3. /\ KidsOf(d2) = KidsOf(d) /\ VolatileKids(m2) = VolatileKids(m)
        /\ Ops(d2, m2) = Ops(d, m)
    BY DEF KidsOf, VolatileKids, Ops
  <1>4. Forms(v) /\ Silent(v, calm) /\ (calm => Calm(v) /\ m.vol = {})
    BY DEF StopAt
  <1> HIDE DEF v, w
  <1>5. Forms(w) /\ (\A b : Silent(v, b) => Silent(w, b)) /\ (Calm(v) => Calm(w))
    BY <1>1, <1>2, <1>3, <1>4, Later
  <1>6. Silent(w, calm2)
    BY <1>4, <1>5, Hushed
  <1> QED
    BY <1>4, <1>5, <1>6 DEF StopAt, w

\* A step that leaves all of it, and the controller, alone.
LEMMA Quiet ==
    ASSUME Inv, StopInv, NEW events, Spends(events) \/ (UNCHANGED left /\ events = {}),
           now' \in Nat, now <= now', UNCHANGED ctl, Aged(now', disk', mem'),
           disk'.occ = disk.occ, disk'.kids = disk.kids, disk'.ops = disk.ops,
           mem'.vol = mem.vol, hist'.stopped = hist.stopped, hist.made \subseteq hist'.made
    PROVE  StopInv'
  <1>1. now \in Nat /\ left \in [Events -> Nat]
    BY TimeAssumption DEF Inv, TypeInv
  <1>2. LeftOK' /\ (~CommitFailed' => ~CommitFailed)
    BY <1>1, CommitSpent DEF StopInv
  <1>3. CtlShape(ctl)' /\ Entered(ctl, hist)'
    BY DEF StopInv, Entered
  <1> DEFINE calm == ~CommitFailed
             calm2 == ~CommitFailed'
  <1>4. StopAt(now, disk, mem, ctl, hist, calm) /\ (calm2 => calm)
    BY <1>2 DEF StopInv
  <1> HIDE DEF calm, calm2
  <1>5. StopAt(now', disk', mem', ctl, hist', calm2)
    BY <1>1, <1>4, QuietAt
  <1> QED
    BY <1>2, <1>3, <1>5 DEF StopInv, calm2

\* Storing operations: which children and ring records there are then.
LEMMA PersistView ==
    ASSUME NEW d, DiskShape(d), NEW ts
    PROVE  /\ PersistOps(d, ts).occ = d.occ
           /\ PersistOps(d, ts).ops = d.ops \cup {t.op : t \in ts}
           /\ KidsOf(PersistOps(d, ts)) \subseteq KidsOf(d) \cup UNION {t.kid : t \in ts}
           /\ PersistOps(d, ts).rings \subseteq d.rings
           /\ ts = {} => KidsOf(PersistOps(d, ts)) = KidsOf(d)
           /\ \A t : ts = {t} /\ t.op.id \in Nat =>
                KidsOf(PersistOps(d, ts)) =
                  (KidsOf(d) \ (IF t.wasKid THEN {t.op.target} ELSE {})) \cup t.kid
  <1> DEFINE After(t) == {u \in ts : u.op.id > t.op.id}
             Ended(us) == {u.op.target : u \in us}
             EndedKids(us) == {u.op.target : u \in {v \in us : v.wasKid}}
             kids == UNION {t.kid \ EndedKids(After(t)) : t \in ts}
             arm == UNION {t.arm \ Ended(After(t)) : t \in ts}
             ops2 == d.ops \cup {t.op : t \in ts}
             made == [o : kids, resolved : {FALSE}]
             kids2 == {k \in d.kids : k.o \notin EndedKids(ts) /\ \A t \in ts : k.o \notin t.kid}
                      \cup made
             armed2 == {x \in d.armed : x.o \notin Ended(ts) /\ \A t \in ts : x.o \notin t.arm}
                       \cup ArmedBy(arm)
             rings2 == {r \in d.rings : r.o \notin Ended(ts)}
             n == PersistOps(d, ts)
  <1>1. n = [d EXCEPT !.ops = ops2, !.kids = kids2, !.armed = armed2, !.rings = rings2]
    BY SMTT(30) DEF PersistOps
  <1>2. n \in DiskOf(d.occ, ops2, kids2, armed2, rings2, d.anchor)
    <2> HIDE DEF ops2, kids2, armed2, rings2, n
    <2> QED
      BY <1>1, DiskFields
  <1>3. n.occ = d.occ /\ n.ops = ops2 /\ n.kids = kids2 /\ n.rings = rings2
    <2> HIDE DEF ops2, kids2, armed2, rings2, n
    <2> QED
      BY <1>2, DiskRead
  <1>4. {k.o : k \in made} = kids
    <2> HIDE DEF kids
    <2>1. \A o \in kids : \E k \in made : k.o = o
      <3> SUFFICES ASSUME NEW o \in kids PROVE \E k \in made : k.o = o
        OBVIOUS
      <3> DEFINE k == [o |-> o, resolved |-> FALSE]
      <3>1. k \in made /\ k.o = o
        OBVIOUS
      <3> QED
        BY <3>1
    <2> QED
      BY <2>1
  <1> DEFINE old == {k \in d.kids : k.o \notin EndedKids(ts) /\ \A t \in ts : k.o \notin t.kid}
  <1>5. KidsOf(n) = {k.o : k \in old} \cup kids
    <2> HIDE DEF kids, n, made
    <2> QED
      BY <1>3, <1>4 DEF KidsOf
  <1>6. \A o \in {k.o : k \in old} : o \in KidsOf(d) /\ o \notin EndedKids(ts)
    BY DEF KidsOf
  <1>7. \A o \in KidsOf(d) : o \notin EndedKids(ts) /\ (\A t \in ts : o \notin t.kid)
                             => o \in {k.o : k \in old}
    BY DEF KidsOf
  <1>8. KidsOf(n) \subseteq KidsOf(d) \cup UNION {t.kid : t \in ts}
    BY <1>5, <1>6
  <1>9. ts = {} => KidsOf(n) = KidsOf(d)
    BY <1>5, <1>6, <1>7
  <1>10. ASSUME NEW t, ts = {t}, t.op.id \in Nat
         PROVE  KidsOf(n) = (KidsOf(d) \ (IF t.wasKid THEN {t.op.target} ELSE {})) \cup t.kid
    <2>1. After(t) = {}
      BY <1>10
    <2>2. EndedKids({}) = {}
      OBVIOUS
    <2>3. kids = t.kid \ EndedKids(After(t))
      <3> HIDE DEF After, EndedKids
      <3> QED
        BY <1>10
    <2>4. kids = t.kid
      <3> HIDE DEF After, EndedKids, kids
      <3> QED
        BY <2>1, <2>2, <2>3
    <2>5. EndedKids(ts) = IF t.wasKid THEN {t.op.target} ELSE {}
      BY <1>10
    <2> HIDE DEF old, kids, After, EndedKids, n
    <2>6. \A o \in KidsOf(d) : o \notin EndedKids(ts) /\ o \notin t.kid => o \in {k.o : k \in old}
      BY <1>7, <1>10
    <2> QED
      BY <1>5, <1>6, <2>4, <2>5, <2>6
  <1>11. rings2 \subseteq d.rings
    OBVIOUS
  <1> HIDE DEF n, ops2, rings2
  <1> QED
    BY <1>3, <1>8, <1>9, <1>10, <1>11 DEF n, ops2

\* The child of a snooze is made from its target and due later.
LEMMA SnoozeMade ==
    ASSUME now \in Nat, NEW o, Plain(o)
    PROVE  /\ MadeFrom(SnoozeChild(o), o) /\ Child(SnoozeChild(o))
           /\ now < SnoozeChild(o).due
  <1> DEFINE s == <<o.sched, o.due, o.copy>>
             u == now + SnoozeMs
             no == FALSE
  <1>1. SnoozeChild(o) = [sched |-> s, due |-> u, copy |-> no]
    BY DEF SnoozeChild
  <1>2. Len(s) > 1
    OBVIOUS
  <1>3. u \in Nat /\ now < u
    BY TimeAssumption
  <1> HIDE DEF u, no
  <1>4. SnoozeChild(o).sched = s /\ SnoozeChild(o).due = u /\ SnoozeChild(o).copy = no
        /\ IsOcc(SnoozeChild(o))
    <2> HIDE DEF s
    <2> QED
      BY <1>1 DEF IsOcc
  <1>5. IsChild(SnoozeChild(o))
    BY <1>2, <1>4 DEF IsChild
  <1> QED
    BY <1>3, <1>4, <1>5 DEF MadeFrom, Child, Own, no

\* What is held is an occurrence like any other.
LEMMA HeldPlain ==
    ASSUME NEW n, NEW d, NEW m, NEW c, NEW h, NEW calm, StopAt(n, d, m, c, h, calm),
           NEW o \in Held(d, m)
    PROVE  Plain(o)
  <1> DEFINE v == ViewOf(n, d, m, c, h)
  <1>1. v.occ = d.occ /\ v.kids = KidsOf(d) \cup VolatileKids(m)
    BY DEF ViewOf
  <1>2. Forms(v)
    BY DEF StopAt
  <1> HIDE DEF v
  <1>3. o \in v.occ \/ o \in v.kids
    BY <1>1 DEF Held
  <1> QED
    BY <1>2, <1>3 DEF Forms, Child, Own, Plain

\* A stop or snooze, stored or kept in memory.
LEMMA JournalsAt ==
    ASSUME now \in Nat, boot \in Nat, left \in [Events -> Nat], LeftOK, NEW d, NEW m,
           Known(d, m, hist, boot), CtlShape(ctl), Entered(ctl, hist),
           StopAt(now, d, m, ctl, hist, ~CommitFailed),
           NEW act, NEW o \in Held(d, m), Executable(d, m, o), NEW child, NEW cost,
           \/ child = {} /\ act # "snooze"
           \/ child = {SnoozeChild(o)} /\ act = "snooze" /\ o.due <= now,
           Journals(d, m, act, o, child, cost), UNCHANGED <<now, ctl>>
    PROVE  StopInv'
  <1> DEFINE op == [id |-> Cardinality(hist.made) + 1, act |-> act, target |-> o,
                    child |-> child, res |-> None]
             t == [op |-> op, wasKid |-> o \in KidsOf(d), kid |-> child,
                   arm |-> IF m.trusted THEN child ELSE {}]
             calm == ~CommitFailed
             calm2 == ~CommitFailed'
             v == ViewOf(now, d, m, ctl, hist)
             w == ViewOf(now', disk', mem', ctl', hist')
  <1>1. hist' = Stops(hist, op)
    BY DEF Journals
  <1>2. \/ Spends(cost) /\ disk' = PersistOps(d, {t}) /\ mem' = m
        \/ Spends(cost \cup {"commit"}) /\ disk' = d /\ mem' = [m EXCEPT !.vol = @ \cup {t}]
    BY DEF Journals
  <1>3. IsDisk(d, boot) /\ IsMem(m) /\ Ledger(Ops(d, m), hist) /\ HistShape(hist)
    BY DEF Known, Ledger
  <1>4. /\ op.id = Cardinality(hist.made) + 1 /\ op.id \in Nat /\ op.act = act
        /\ op.target = o /\ op.child = child /\ op.res = None
    <2>1. Cardinality(hist.made) \in Nat
      BY <1>3, FS_CardinalityType DEF Ledger
    <2> QED
      BY <2>1
  <1>5. t.op = op /\ (t.wasKid <=> o \in KidsOf(d)) /\ t.kid = child
    <2> HIDE DEF op
    <2>1. CASE o \in KidsOf(d)
      BY <2>1
    <2>2. CASE o \notin KidsOf(d)
      BY <2>2
    <2> QED
      BY <2>1, <2>2
  <1> HIDE DEF op, t
  <1>6. \A i \in hist.made : i \in Nat /\ i < op.id
    <2> DEFINE k == Cardinality(hist.made)
    <2>1. k \in Nat /\ hist.made = 1..k
      BY <1>3, FS_CardinalityType DEF Ledger
    <2> HIDE DEF k
    <2>2. op.id = k + 1
      BY <1>4 DEF k
    <2> QED
      BY <2>1, <2>2
  <1>7. Plain(o)
    BY HeldPlain
  <1>8. Acts(op) /\ (act = "snooze" => o.due <= now) /\ (child # {} => o.due <= now)
        /\ \A c \in child : now < c.due
    <2>1. CASE child = {} /\ act # "snooze"
      BY <1>4, <1>7, <2>1 DEF Acts
    <2>2. CASE child = {SnoozeChild(o)} /\ act = "snooze" /\ o.due <= now
      <3>1. MadeFrom(SnoozeChild(o), o) /\ Child(SnoozeChild(o)) /\ now < SnoozeChild(o).due
        BY <1>7, SnoozeMade
      <3> QED
        BY <1>4, <1>7, <2>2, <3>1 DEF Acts
    <2> QED
      BY <2>1, <2>2
  <1>9. /\ v.now = now /\ v.occ = d.occ /\ v.kids = KidsOf(d) \cup VolatileKids(m)
        /\ v.ops = Ops(d, m) /\ v.cal = ctl.cal /\ v.known = ctl.known /\ v.pend = ctl.pend
        /\ v.settled = Ids(ctl.res) /\ v.stopped = hist.stopped
    <2> HIDE DEF v
    <2> QED
      BY ViewRead DEF v
  <1>10. /\ w.now = now' /\ w.occ = disk'.occ /\ w.kids = KidsOf(disk') \cup VolatileKids(mem')
         /\ w.ops = Ops(disk', mem') /\ w.cal = ctl'.cal /\ w.known = ctl'.known
         /\ w.pend = ctl'.pend /\ w.settled = Ids(ctl'.res) /\ w.stopped = hist'.stopped
    <2> HIDE DEF w
    <2> QED
      BY ViewRead DEF w
  <1>11. Forms(v) /\ Silent(v, calm) /\ (calm => Calm(v) /\ m.vol = {}) /\ Aged(now, d, m)
    BY DEF StopAt
  <1>12. LeftOK' /\ (calm2 => calm /\ ~(disk' = d /\ mem' = [m EXCEPT !.vol = @ \cup {t}]
                                        /\ Spends(cost \cup {"commit"})))
    BY <1>2, CommitSpent
  <1> HIDE DEF v, w, calm, calm2
  <1>13. /\ mem'.active = m.active /\ mem'.timers = m.timers
         /\ disk'.occ = d.occ /\ disk'.rings \subseteq d.rings
         /\ Ops(disk', mem') = Ops(d, m) \cup {op}
         /\ KidsOf(disk') \cup VolatileKids(mem') \subseteq v.kids \cup child
         /\ calm2 => /\ mem'.vol = {}
                     /\ KidsOf(disk') \cup VolatileKids(mem') = (v.kids \ {o}) \cup child
    <2>1. CASE Spends(cost) /\ disk' = PersistOps(d, {t}) /\ mem' = m
      <3>1. /\ disk'.occ = d.occ /\ disk'.ops = d.ops \cup {u.op : u \in {t}}
            /\ disk'.rings \subseteq d.rings
            /\ KidsOf(disk') = (KidsOf(d) \ (IF t.wasKid THEN {t.op.target} ELSE {})) \cup t.kid
        <4> DEFINE ts == {t}
        <4>1. ts = {t} /\ t.op.id \in Nat
          BY <1>4, <1>5
        <4> HIDE DEF ts
        <4>2. disk' = PersistOps(d, ts)
          BY <2>1 DEF ts
        <4>3. DiskShape(d)
          BY <1>3 DEF IsDisk
        <4>4. /\ disk'.occ = d.occ /\ disk'.ops = d.ops \cup {u.op : u \in ts}
              /\ disk'.rings \subseteq d.rings
              /\ KidsOf(disk') = (KidsOf(d) \ (IF t.wasKid THEN {t.op.target} ELSE {})) \cup t.kid
          BY <4>1, <4>2, <4>3, PersistView
        <4> QED
          BY <4>4 DEF ts
      <3>2. KidsOf(disk') = (KidsOf(d) \ {o}) \cup child
        BY <1>4, <1>5, <3>1
      <3>3. Ops(disk', mem') = Ops(d, m) \cup {op}
        BY <1>5, <2>1, <3>1, SMTT(30) DEF Ops
      <3>4. calm2 => m.vol = {}
        BY <1>11, <1>12
      <3>5. m.vol = {} => VolatileKids(m) = {}
        BY DEF VolatileKids
      <3> QED
        BY <1>9, <2>1, <3>1, <3>2, <3>3, <3>4, <3>5
    <2>2. CASE Spends(cost \cup {"commit"}) /\ disk' = d /\ mem' = [m EXCEPT !.vol = @ \cup {t}]
      <3> DEFINE vol == m.vol \cup {t}
      <3>1. mem' = [m EXCEPT !.vol = vol]
        BY <2>2
      <3>2. VolatileKids(mem') = VolatileKids(m) \cup child /\ mem'.active = m.active
            /\ mem'.timers = m.timers /\ Ops(disk', mem') = Ops(d, m) \cup {op}
        <4> HIDE DEF vol
        <4>1. mem' \in MemOf(m.trusted, m.active, m.timers, vol, m.dirty, m.poll)
          BY <1>3, <3>1, MemFields DEF IsMem
        <4>2. mem'.active = m.active /\ mem'.vol = vol /\ mem'.timers = m.timers
          BY <4>1, MemRead
        <4> QED
          BY <1>5, <2>2, <4>2, SMTT(30) DEF VolatileKids, Ops, vol
      <3>3. ~calm2
        BY <1>12, <2>2
      <3> QED
        BY <1>9, <2>2, <3>2, <3>3
    <2> QED
      BY <1>2, <2>1, <2>2
  <1>14. /\ hist'.stopped = hist.stopped \cup {[o |-> op.target, act |-> op.act, fresh |-> FALSE]}
         /\ hist'.made = hist.made \cup {op.id}
    <2> DEFINE a == hist.made \cup {op.id}
               b == hist.stopped \cup {[o |-> op.target, act |-> op.act, fresh |-> FALSE]}
               c == {f \in hist.first : ~Matches(f.o, op.target)}
    <2>1. hist' = [hist EXCEPT !.made = a, !.stopped = b, !.first = c]
      BY <1>1, SMTT(30) DEF Stops
    <2> HIDE DEF a, b, c
    <2>2. hist' \in HistOf(b, c, a, hist.answered, hist.lost)
      BY <1>3, <2>1, HistFields
    <2>3. hist'.made = a /\ hist'.stopped = b
      BY <2>2, HistRead
    <2> QED
      BY <2>3 DEF a, b
  <1>15. Ends(v, w, op)
    <2>1. o \in v.occ \cup v.kids /\ ~Blocks(v, o)
      BY <1>9 DEF Held, Executable, Blocks
    <2>2. \A p \in v.ops : p.id # op.id /\ p.id < op.id
      BY <1>3, <1>6, <1>9 DEF Ledger, Ids
    <2> QED
      BY <1>4, <1>8, <1>9, <1>10, <1>13, <1>14, <2>1, <2>2 DEF Ends
  <1>16. Forms(w) /\ Silent(w, calm2)
    <2>1. w.kids \subseteq v.kids \cup op.child
      BY <1>4, <1>10, <1>13
    <2>2. (calm => Calm(v)) /\ (calm2 => calm)
      BY <1>11, <1>12
    <2> QED
      BY <1>11, <1>15, <2>1, <2>2, Stopping
  <1>17. ASSUME calm2 PROVE Calm(w)
    <2>1. Calm(v)
      BY <1>11, <1>12, <1>17
    <2>2. \A p \in v.ops \cup {op} : p.id \in Nat
      BY <1>3, <1>4, <1>6, <1>9 DEF Ledger, Ids
    <2>3. ~Taken(v, op)
      <3>1. op.id \notin hist.made
        BY <1>4, <1>6
      <3> QED
        BY <1>9, <3>1 DEF Entered, Taken, Ids
    <2>4. w.kids = (v.kids \ {op.target}) \cup op.child
      BY <1>4, <1>10, <1>13, <1>17
    <2> QED
      BY <1>9, <1>11, <1>15, <1>16, <2>1, <2>2, <2>3, <2>4, Stored
  <1>18. Aged(now', disk', mem')
    BY <1>11, <1>13 DEF Aged
  <1>19. CtlShape(ctl)' /\ Entered(ctl, hist)'
    BY <1>14 DEF Entered
  <1> QED
    BY <1>12, <1>13, <1>16, <1>17, <1>18, <1>19 DEF StopInv, StopAt, w, calm2

\* What stands in for an occurrence that rings is due when it was.
LEMMA CurrentDue ==
    ASSUME NEW d, NEW m, NEW o, NEW x \in Current(d, m, o)
    PROVE  x.due = o.due
  BY DEF Current, Matches

\* The check at the start of a poll, from a state d, m of this step.
LEMMA CheckActiveAt ==
    ASSUME now \in Nat, boot \in Nat, left \in [Events -> Nat], LeftOK, NEW d, NEW m,
           Known(d, m, hist, boot), CtlShape(ctl), Entered(ctl, hist),
           StopAt(now, d, m, ctl, hist, ~CommitFailed),
           CheckActive(d, m), UNCHANGED <<now, ctl>>
    PROVE  StopInv'
  <1> DEFINE a == m.active
             ended == [m EXCEPT !.active = None]
             Stays(x) == disk' = d /\ mem' = x /\ UNCHANGED hist
             Still == {o \in Current(d, m, a.o) : Executable(d, m, o)}
             calm == ~CommitFailed
             calm2 == ~CommitFailed'
  <1>1. IsMem(m) /\ StopAt(now, d, m, ctl, hist, calm) /\ Aged(now, d, m) /\ HistShape(hist)
        /\ IsDisk(d, boot)
    BY DEF Known, StopAt, Ledger
  <1>2. IsMem(ended) /\ ended.active = None /\ ended.timers = m.timers /\ ended.vol = m.vol
    BY <1>1, ActiveSet
  <1>3. ASSUME disk' = d, UNCHANGED <<hist, left>>, NEW x, mem' = x, x.vol = m.vol, Aged(now, d, x)
        PROVE  StopInv'
    <2>1. LeftOK' /\ calm2 = calm
      BY <1>3 DEF LeftOK, CommitFailed
    <2>2. CtlShape(ctl)' /\ Entered(ctl, hist)'
      BY <1>3 DEF Entered
    <2>3. now' = now /\ now' \in Nat /\ now <= now'
      OBVIOUS
    <2> HIDE DEF calm, calm2
    <2>4. calm2 => calm
      BY <2>1
    <2>5. disk'.occ = d.occ /\ disk'.kids = d.kids /\ disk'.ops = d.ops /\ mem'.vol = m.vol
          /\ hist'.stopped = hist.stopped /\ Aged(now', disk', mem')
      BY <1>3
    <2>6. StopAt(now', disk', mem', ctl, hist', calm2)
      BY <1>1, <2>3, <2>4, <2>5, QuietAt
    <2> QED
      BY <2>1, <2>2, <2>6 DEF StopInv, calm2
  <1> HIDE DEF calm, calm2
  <1>4. CASE a = None /\ Stays(m) /\ UNCHANGED left
    BY <1>1, <1>3, <1>4
  <1>5. CASE /\ a # None /\ a.timer /\ UNCHANGED left
             /\ Stays(IF now < a.deadline THEN m ELSE [ended EXCEPT !.timers = @ \ {a.o}])
    <2>1. CASE mem' = m
      BY <1>1, <1>3, <1>5, <2>1
    <2>2. CASE mem' = [ended EXCEPT !.timers = @ \ {a.o}]
      <3> DEFINE ts == ended.timers \ {a.o}
                 m2 == [ended EXCEPT !.timers = ts]
      <3>1. mem' = m2
        BY <2>2
      <3>2. m2.active = None /\ m2.vol = m.vol /\ m2.timers = ts
        <4> HIDE DEF ended, ts
        <4> QED
          BY <1>2, TimersSet
      <3> HIDE DEF m2
      <3>3. Aged(now, d, m2)
        BY <1>1, <1>2, <3>2 DEF Aged
      <3> QED
        BY <1>3, <1>5, <3>1, <3>2, <3>3
    <2> QED
      BY <1>5, <2>1, <2>2
  <1>6. Aged(now, d, ended)
    <2> HIDE DEF ended
    <2> QED
      BY <1>1, <1>2 DEF Aged
  <1>7. CASE Still = {} /\ Stays(ended) /\ UNCHANGED left
    <2> HIDE DEF ended
    <2> QED
      BY <1>2, <1>3, <1>6, <1>7
  <1>8. ASSUME a # None, NEW o \in Still, UNCHANGED left, Stays([m EXCEPT !.active.o = o])
        PROVE  StopInv'
    <2> DEFINE b == [a EXCEPT !.o = o]
               m2 == [m EXCEPT !.active = b]
    <2>1. b \in [o : {o}, timer : {a.timer}, deadline : {a.deadline}]
      BY <1>1, <1>8 DEF IsMem, IsActive
    <2>2. mem' = m2
      BY <1>8
    <2>3. o.due = a.o.due
      BY CurrentDue
    <2> HIDE DEF b
    <2>4. IsActive(b) /\ b.o = o
      BY <2>1 DEF IsActive
    <2>5. m2.active = b /\ m2.vol = m.vol /\ m2.timers = m.timers
      BY <1>1, <2>4, ActiveSet
    <2> HIDE DEF m2
    <2>6. Aged(now, d, m2)
      BY <1>1, <1>8, <2>3, <2>4, <2>5 DEF Aged
    <2> QED
      BY <1>3, <1>8, <2>2, <2>5, <2>6
  <1>9. ASSUME NEW o \in Still, Journals(d, ended, "expire", o, {}, {}) PROVE StopInv'
    <2>1. o \in Held(d, m) /\ Executable(d, m, o)
      BY CurrentHeld
    <2> HIDE DEF ended
    <2>2. Known(d, ended, hist, boot)
      BY <1>1, <1>2, KnownSame
    <2>3. o \in Held(d, ended) /\ Executable(d, ended, o)
      BY <1>2, <2>1, ActiveSame
    <2>4. StopAt(now, d, ended, ctl, hist, calm)
      <3>1. now <= now /\ (calm => calm)
        OBVIOUS
      <3> QED
        BY <1>1, <1>2, <1>6, <3>1, QuietAt
    <2> DEFINE none == {}
               act == "expire"
    <2>5. none = {} /\ act # "snooze" /\ Journals(d, ended, act, o, none, {})
      BY <1>9
    <2> HIDE DEF none, act
    <2> QED
      BY <2>2, <2>3, <2>4, <2>5, JournalsAt DEF calm
  <1>10. \/ a = None /\ Stays(m) /\ UNCHANGED left
         \/ /\ a # None /\ a.timer /\ UNCHANGED left
            /\ Stays(IF now < a.deadline THEN m ELSE [ended EXCEPT !.timers = @ \ {a.o}])
         \/ Still = {} /\ Stays(ended) /\ UNCHANGED left
         \/ a # None /\ \E o \in Still : UNCHANGED left /\ Stays([m EXCEPT !.active.o = o])
         \/ \E o \in Still : Journals(d, ended, "expire", o, {}, {})
    BY DEF CheckActive
  <1> HIDE DEF a, ended, Stays, Still
  <1> QED
    BY <1>4, <1>5, <1>7, <1>8, <1>9, <1>10

\* What the steps of the invariant start from.
LEMMA StopFacts ==
    ASSUME Inv, StopInv
    PROVE  /\ now \in Nat /\ boot \in Nat /\ left \in [Events -> Nat] /\ LeftOK
           /\ Known(disk, mem, hist, boot) /\ IsDisk(disk, boot) /\ IsMem(mem)
           /\ HistShape(hist) /\ CtlShape(ctl) /\ Entered(ctl, hist)
           /\ StopAt(now, disk, mem, ctl, hist, ~CommitFailed) /\ Aged(now, disk, mem)
  <1>1. now \in Nat
    BY TimeAssumption DEF Inv, TypeInv
  <1>2. boot \in Nat /\ left \in [Events -> Nat] /\ Known(disk, mem, hist, boot)
    BY DEF Inv, TypeInv
  <1>3. IsDisk(disk, boot) /\ IsMem(mem) /\ HistShape(hist)
    BY <1>2 DEF Known, Ledger
  <1>4. /\ LeftOK /\ CtlShape(ctl) /\ Entered(ctl, hist)
        /\ StopAt(now, disk, mem, ctl, hist, ~CommitFailed)
    BY DEF StopInv
  <1> QED
    BY <1>1, <1>2, <1>3, <1>4 DEF StopAt

\* Storing operations ends their targets' records and children, and no others.
LEMMA PersistRings ==
    ASSUME NEW d, DiskShape(d), NEW ts
    PROVE  \A r \in d.rings : \/ r \in PersistOps(d, ts).rings
                              \/ \E t \in ts : r.o = t.op.target
  <1> DEFINE After(t) == {u \in ts : u.op.id > t.op.id}
             Ended(us) == {u.op.target : u \in us}
             EndedKids(us) == {u.op.target : u \in {x \in us : x.wasKid}}
             kids == UNION {t.kid \ EndedKids(After(t)) : t \in ts}
             arm == UNION {t.arm \ Ended(After(t)) : t \in ts}
             ops2 == d.ops \cup {t.op : t \in ts}
             kids2 == {k \in d.kids : k.o \notin EndedKids(ts) /\ \A t \in ts : k.o \notin t.kid}
                      \cup [o : kids, resolved : {FALSE}]
             armed2 == {x \in d.armed : x.o \notin Ended(ts) /\ \A t \in ts : x.o \notin t.arm}
                       \cup ArmedBy(arm)
             rings2 == {r \in d.rings : r.o \notin Ended(ts)}
             n == PersistOps(d, ts)
  <1>1. n = [d EXCEPT !.ops = ops2, !.kids = kids2, !.armed = armed2, !.rings = rings2]
    BY SMTT(30) DEF PersistOps
  <1>2. n.rings = rings2
    <2> HIDE DEF ops2, kids2, armed2, rings2, n
    <2>1. n \in DiskOf(d.occ, ops2, kids2, armed2, rings2, d.anchor)
      BY <1>1, DiskFields
    <2> QED
      BY <2>1, DiskRead
  <1>3. \A r \in d.rings : r \in rings2 \/ \E t \in ts : r.o = t.op.target
    OBVIOUS
  <1> HIDE DEF n, rings2
  <1> QED
    BY <1>2, <1>3 DEF n

\* PollBegin stores what it can of the operations in memory: what they block stays
\* blocked, and what they made is held already.
LEMMA PollBeginFrom ==
    ASSUME Inv, StopInv, PollBegin
    PROVE  \E d, m :
             /\ CheckActive(d, m) /\ Known(d, m, hist, boot)
             /\ StopAt(now, d, m, ctl, hist, ~CommitFailed)
             /\ d.occ = disk.occ /\ Ops(d, m) = Ops(disk, mem)
             /\ m.active = mem.active /\ m.timers = mem.timers
             /\ ~CommitFailed => KidsOf(d) = KidsOf(disk)
             /\ d.rings \subseteq disk.rings
             /\ \A r \in disk.rings : r \in d.rings \/ ~Executable(disk, mem, r.o)
  <1>1. PICK which \in SUBSET Retriable :
          CheckActive(PersistOps(disk, which), [mem EXCEPT !.poll = TRUE, !.vol = Kept(which)])
    BY DEF PollBegin
  <1> DEFINE yes == TRUE
             vol == mem.vol \ which
             d == PersistOps(disk, which)
             m == [mem EXCEPT !.poll = yes, !.vol = vol]
             calm == ~CommitFailed
             v == ViewOf(now, disk, mem, ctl, hist)
             w == ViewOf(now, d, m, ctl, hist)
  <1>2. CheckActive(d, m)
    BY <1>1 DEF Kept
  <1>3. /\ now \in Nat /\ boot \in Nat /\ left \in [Events -> Nat] /\ LeftOK
        /\ Known(disk, mem, hist, boot) /\ IsDisk(disk, boot) /\ IsMem(mem)
        /\ HistShape(hist) /\ CtlShape(ctl) /\ Entered(ctl, hist)
        /\ StopAt(now, disk, mem, ctl, hist, ~CommitFailed) /\ Aged(now, disk, mem)
    BY StopFacts
  <1>4. which \subseteq mem.vol /\ vol \subseteq mem.vol
    BY SMTT(30) DEF Retriable
  <1>5. m \in MemOf(mem.trusted, mem.active, mem.timers, vol, mem.dirty, yes)
    <2> HIDE DEF vol, yes
    <2> QED
      BY <1>3, MemFields DEF IsMem
  <1>6. /\ MemShape(m) /\ m.trusted = mem.trusted /\ m.active = mem.active /\ m.vol = vol
        /\ m.dirty = mem.dirty /\ m.poll = yes /\ m.timers = mem.timers
    <2> HIDE DEF vol, yes, m
    <2> QED
      BY <1>5, MemRead
  <1>7. IsDisk(d, boot)
    BY <1>3, <1>4, PersistType DEF IsMem
  <1>8. /\ d.occ = disk.occ /\ d.ops = disk.ops \cup {t.op : t \in which}
        /\ KidsOf(d) \subseteq KidsOf(disk) \cup UNION {t.kid : t \in which}
        /\ d.rings \subseteq disk.rings
        /\ which = {} => KidsOf(d) = KidsOf(disk)
    <2> HIDE DEF d
    <2>1. DiskShape(disk)
      BY <1>3 DEF IsDisk
    <2> QED
      BY <2>1, PersistView DEF d
  <1>9. v.now = now /\ w.now = now /\ v.occ = disk.occ /\ w.occ = d.occ
        /\ v.kids = KidsOf(disk) \cup VolatileKids(mem) /\ w.kids = KidsOf(d) \cup VolatileKids(m)
        /\ v.ops = Ops(disk, mem) /\ w.ops = Ops(d, m) /\ w.cal = v.cal /\ w.known = v.known
        /\ w.pend = v.pend /\ w.settled = v.settled /\ w.stopped = v.stopped
    <2> HIDE DEF d, m
    <2> QED
      BY DEF ViewOf
  <1>10. Forms(v) /\ Silent(v, calm) /\ (calm => Calm(v) /\ mem.vol = {})
    BY <1>3 DEF StopAt
  <1> HIDE DEF d, m, v, w, calm
  <1>11. IsMem(m)
    BY <1>3, <1>4, <1>6 DEF IsMem, yes
  <1>12. Ops(d, m) = Ops(disk, mem)
    BY <1>4, <1>6, <1>8 DEF Ops
  <1>13. Apart(d, m)
    BY <1>3, <1>4, <1>6, <1>8 DEF Apart, Known
  <1>14. Known(d, m, hist, boot)
    BY <1>3, <1>7, <1>11, <1>12, <1>13 DEF Known
  <1>15. w.kids \subseteq v.kids
    BY <1>4, <1>6, <1>8, <1>9 DEF VolatileKids
  <1>16. Forms(w) /\ \A b : Silent(v, b) => Silent(w, b)
    BY <1>8, <1>9, <1>10, <1>12, <1>15, Fewer
  <1>17. Silent(w, calm)
    BY <1>10, <1>16
  <1>18. ASSUME calm PROVE Calm(w) /\ m.vol = {}
    <2>1. mem.vol = {} /\ which = {} /\ vol = {}
      BY <1>4, <1>10, <1>18
    <2>2. w.kids = v.kids
      BY <1>6, <1>8, <1>9, <2>1 DEF VolatileKids
    <2>3. Calm(w)
      <3>1. v.now \in Nat /\ w.now \in Nat /\ v.now <= w.now
        BY <1>3, <1>9
      <3> QED
        BY <1>8, <1>9, <1>10, <1>12, <1>18, <2>2, <3>1, Later
    <2> QED
      BY <1>6, <2>1, <2>3
  <1>19. Aged(now, d, m)
    BY <1>3, <1>6, <1>8 DEF Aged
  <1>20. StopAt(now, d, m, ctl, hist, calm)
    BY <1>16, <1>17, <1>18, <1>19 DEF StopAt, w
  <1>21. \A r \in disk.rings : r \in d.rings \/ ~Executable(disk, mem, r.o)
    <2>1. \A r \in disk.rings : r \in d.rings \/ \E t \in which : r.o = t.op.target
      BY <1>3, PersistRings DEF IsDisk, d
    <2> QED
      BY <1>4, <2>1 DEF Executable, Ops, Matches
  <1>22. calm => KidsOf(d) = KidsOf(disk)
    BY <1>4, <1>8, <1>10
  <1> QED
    BY <1>2, <1>6, <1>8, <1>12, <1>14, <1>20, <1>21, <1>22 DEF calm

\* Stops hold from there.
LEMMA PollBeginStop ==
    ASSUME Inv, StopInv, PollBegin
    PROVE  StopInv'
  <1>1. PICK d, m : /\ CheckActive(d, m) /\ Known(d, m, hist, boot)
                    /\ StopAt(now, d, m, ctl, hist, ~CommitFailed)
    BY PollBeginFrom
  <1>2. /\ now \in Nat /\ boot \in Nat /\ left \in [Events -> Nat] /\ LeftOK
        /\ CtlShape(ctl) /\ Entered(ctl, hist)
    BY StopFacts
  <1>3. UNCHANGED <<now, ctl>>
    BY DEF PollBegin
  <1> QED
    BY <1>1, <1>2, <1>3, CheckActiveAt

\* What comes first in the queue is due.
LEMMA HeadDue ==
    ASSUME NEW h, NEW c, NEW calm, NEW d, NEW m, now \in Nat, StopAt(now, d, m, c, h, calm),
           NEW e \in Heads(d, m)
    PROVE  e.o.due \in Nat /\ e.o.due <= now
  <1>1. e \in Candidates(d, m) /\ e.due <= now /\ Aged(now, d, m)
    BY DEF Heads, StopAt
  <1>2. CASE e \in {[o |-> t, timer |-> TRUE, due |-> t.due] : t \in m.timers}
    BY <1>1, <1>2 DEF Aged
  <1>3. CASE e \in UNION {[o : {o}, timer : {FALSE}, due : DueAt(d, o)] : o \in Armed(d, m)}
    <2>1. PICK o \in Armed(d, m) : e \in [o : {o}, timer : {FALSE}, due : DueAt(d, o)]
      BY <1>3
    <2>2. e.o = o /\ e.due \in DueAt(d, o)
      BY <2>1
    <2>3. o \in Held(d, m)
      BY DEF Armed, Held
    <2>4. o.due \in Nat
      BY <2>3, HeldPlain DEF Plain
    <2>5. CASE ArmedHere(d, o)
      BY <1>1, <2>2, <2>4, <2>5 DEF DueAt
    <2>6. CASE ~ArmedHere(d, o)
      <3>1. PICK r \in d.rings : r.o = o /\ e.due = r.first
        BY <2>2, <2>6 DEF DueAt, RingOf
      <3> QED
        BY <1>1, <2>2, <3>1 DEF Aged
    <2> QED
      BY <2>5, <2>6
  <1> QED
    BY <1>1, <1>2, <1>3 DEF Candidates

\* PollExpire ends what may ring.
LEMMA PollExpireStop ==
    ASSUME Inv, StopInv, PollExpire
    PROVE  StopInv'
  <1>1. PICK c \in Heads(disk, mem) :
          Expired(disk, mem, c) /\ Journals(disk, mem, "expire", c.o, {}, {})
    BY DEF PollExpire
  <1>2. /\ now \in Nat /\ boot \in Nat /\ left \in [Events -> Nat] /\ LeftOK
        /\ Known(disk, mem, hist, boot) /\ CtlShape(ctl) /\ Entered(ctl, hist)
        /\ StopAt(now, disk, mem, ctl, hist, ~CommitFailed)
    BY StopFacts
  <1>3. c.o \in Held(disk, mem) /\ Executable(disk, mem, c.o)
    BY <1>1, HeadArmed DEF Heads, Expired
  <1> DEFINE none == {}
             act == "expire"
             o == c.o
  <1>4. none = {} /\ act # "snooze" /\ Journals(disk, mem, act, o, none, {})
    BY <1>1
  <1>5. UNCHANGED <<now, ctl>> /\ o \in Held(disk, mem) /\ Executable(disk, mem, o)
    BY <1>3 DEF PollExpire
  <1> HIDE DEF none, act, o
  <1> QED
    BY <1>2, <1>4, <1>5, JournalsAt

\* A ring that starts is due, and dated now.
LEMMA PollStartStop ==
    ASSUME Inv, StopInv, PollStart
    PROVE  StopInv'
  <1> DEFINE Rs(c) == IF c.timer THEN {} ELSE RingOf(disk, c.o)
             End(c) == IF Rs(c) = {} THEN now + MaxRingMs
                       ELSE RingMono(mem, CHOOSE r \in Rs(c) : TRUE)
             Ring(c) == [o |-> c.o, boot |-> boot, first |-> now, deadline |-> End(c),
                         utc |-> IF mem.trusted THEN End(c) ELSE 0]
             Noted(c, k) == [hist EXCEPT !.first = @ \cup {[o |-> c.o, at |-> now, kept |-> k]}]
  <1>1. PICK c \in Heads(disk, mem) :
          /\ mem' = [mem EXCEPT !.active = [o |-> c.o, timer |-> c.timer, deadline |-> End(c)]]
          /\ \/ UNCHANGED <<disk, hist, left>>
             \/ Commits([disk EXCEPT !.rings = @ \cup {Ring(c)}]) /\ hist' = Noted(c, TRUE)
             \/ CommitFails(disk) /\ hist' = Noted(c, FALSE)
    BY DEF PollStart
  <1>2. /\ now \in Nat /\ left \in [Events -> Nat] /\ IsDisk(disk, boot) /\ IsMem(mem)
        /\ HistShape(hist) /\ Aged(now, disk, mem)
        /\ StopAt(now, disk, mem, ctl, hist, ~CommitFailed)
    BY StopFacts
  <1>3. c.o.due \in Nat /\ c.o.due <= now
    BY <1>2, HeadDue
  <1> DEFINE e == End(c)
             a == [o |-> c.o, timer |-> c.timer, deadline |-> e]
  <1>4. a.o = c.o /\ (a # None => IsActive(a))
    <2> HIDE DEF e
    <2> QED
      BY DEF IsActive
  <1>5. mem' = [mem EXCEPT !.active = a]
    BY <1>1
  <1> HIDE DEF a
  <1>6. mem'.active = a /\ mem'.vol = mem.vol /\ mem'.timers = mem.timers
    BY <1>2, <1>4, <1>5, ActiveSet
  <1>7. /\ disk'.occ = disk.occ /\ disk'.ops = disk.ops /\ disk'.kids = disk.kids
        /\ \A r \in disk'.rings : r \in disk.rings \/ (r.o = c.o /\ r.first = now)
    <2>1. CASE disk' = disk
      BY <2>1
    <2>2. CASE disk' = [disk EXCEPT !.rings = @ \cup {Ring(c)}]
      <3> DEFINE r == Ring(c)
                 rings == disk.rings \cup {r}
      <3>1. r.o = c.o /\ r.first = now
        <4> HIDE DEF End
        <4> QED
          OBVIOUS
      <3>2. disk' = [disk EXCEPT !.rings = rings]
        BY <2>2, SMTT(30)
      <3> HIDE DEF r
      <3>3. disk' \in DiskOf(disk.occ, disk.ops, disk.kids, disk.armed, rings, disk.anchor)
        <4> HIDE DEF rings
        <4> QED
          BY <1>2, <3>2, DiskFields DEF IsDisk
      <3>4. /\ disk'.occ = disk.occ /\ disk'.ops = disk.ops /\ disk'.kids = disk.kids
            /\ disk'.rings = rings
        <4> HIDE DEF rings
        <4> QED
          BY <3>3, DiskRead
      <3> QED
        BY <3>1, <3>4
    <2> QED
      BY <1>1, <2>1, <2>2 DEF Commits, CommitFails
  <1>8. hist'.stopped = hist.stopped /\ hist'.made = hist.made
    <2>1. ASSUME NEW k, hist' = Noted(c, k)
          PROVE  hist'.stopped = hist.stopped /\ hist'.made = hist.made
      <3> DEFINE f == hist.first \cup {[o |-> c.o, at |-> now, kept |-> k]}
      <3>1. hist' = [hist EXCEPT !.first = f]
        BY <2>1
      <3> HIDE DEF f
      <3>2. hist' \in HistOf(hist.stopped, f, hist.made, hist.answered, hist.lost)
        BY <1>2, <3>1, HistFields
      <3> QED
        BY <3>2, HistRead
    <2> QED
      BY <1>1, <2>1
  <1>9. (UNCHANGED left /\ {} = {}) \/ Spends({"commit"})
    BY <1>1 DEF Commits, CommitFails
  <1>10. now' = now /\ now' \in Nat /\ now <= now' /\ UNCHANGED ctl
    BY <1>2 DEF PollStart
  <1>11. Aged(now', disk', mem')
    BY <1>2, <1>3, <1>4, <1>6, <1>7, <1>10 DEF Aged
  <1>12. hist.made \subseteq hist'.made
    BY <1>8
  <1> HIDE DEF e, Rs, End, Ring, Noted
  <1>13. CASE UNCHANGED left
    <2> DEFINE none == {}
    <2>1. UNCHANGED left /\ none = {}
      BY <1>13
    <2> HIDE DEF none
    <2> QED
      BY <1>6, <1>7, <1>8, <1>10, <1>11, <1>12, <2>1, Quiet
  <1>14. CASE Spends({"commit"})
    BY <1>6, <1>7, <1>8, <1>10, <1>11, <1>12, <1>14, Quiet
  <1> QED
    BY <1>9, <1>13, <1>14

\* A step without cost that leaves all of it alone.
LEMMA QuietFree ==
    ASSUME Inv, StopInv, UNCHANGED <<left, ctl>>, now' \in Nat, now <= now',
           Aged(now', disk', mem'), disk'.occ = disk.occ, disk'.kids = disk.kids,
           disk'.ops = disk.ops, mem'.vol = mem.vol, hist' = hist
    PROVE  StopInv'
  <1> DEFINE none == {}
  <1>1. UNCHANGED left /\ none = {}
    OBVIOUS
  <1> HIDE DEF none
  <1> QED
    BY <1>1, Quiet

\* PollEnd ends the poll.
LEMMA PollEndStop ==
    ASSUME Inv, StopInv, PollEnd
    PROVE  StopInv'
  <1> DEFINE no == FALSE
  <1>1. mem' = [mem EXCEPT !.poll = no, !.dirty = no]
    BY DEF PollEnd
  <1>2. now \in Nat /\ IsMem(mem) /\ Aged(now, disk, mem)
    BY StopFacts, SMTT(30)
  <1> HIDE DEF no
  <1>3. mem' \in MemOf(mem.trusted, mem.active, mem.timers, mem.vol, no, no)
    BY <1>1, <1>2, MemFields DEF IsMem
  <1>4. mem'.active = mem.active /\ mem'.vol = mem.vol /\ mem'.timers = mem.timers
    BY <1>3, MemRead
  <1>5. UNCHANGED <<now, disk, hist, left, ctl>>
    BY DEF PollEnd
  <1>6. Aged(now', disk', mem') /\ now' \in Nat /\ now <= now'
    BY <1>2, <1>4, <1>5 DEF Aged
  <1> QED
    BY <1>4, <1>5, <1>6, QuietFree

\* A timer rings from now on.
LEMMA TimerRingStop ==
    ASSUME Inv, StopInv, TimerRing
    PROVE  StopInv'
  <1> DEFINE t == [sched |-> <<"timer", left["timer"]>>, due |-> now, copy |-> FALSE]
             ts == mem.timers \cup {t}
             m == [mem EXCEPT !.timers = ts]
  <1>1. mem' = Signal(m) /\ Spends({"timer"}) /\ t.due = now
    BY DEF TimerRing
  <1>2. now \in Nat /\ IsMem(mem) /\ Aged(now, disk, mem)
    BY StopFacts
  <1> HIDE DEF ts, t
  <1>3. IsMem(m) /\ m.vol = mem.vol /\ m.timers = ts /\ m.active = mem.active
    BY <1>2, TimersSet
  <1> HIDE DEF m
  <1>4. mem'.vol = mem.vol /\ mem'.timers = ts /\ mem'.active = mem.active
    BY <1>1, <1>3, SignalEffect
  <1>5. UNCHANGED <<now, disk, hist, ctl>>
    BY DEF TimerRing
  <1>6. Aged(now', disk', mem') /\ now' \in Nat /\ now <= now'
    BY <1>1, <1>2, <1>4, <1>5 DEF Aged, ts
  <1>7. disk'.occ = disk.occ /\ disk'.kids = disk.kids /\ disk'.ops = disk.ops
        /\ hist'.stopped = hist.stopped /\ hist.made \subseteq hist'.made
    BY <1>5
  <1> QED
    BY <1>1, <1>4, <1>5, <1>6, <1>7, Quiet

\* A timer is stopped.
LEMMA StopTimerStop ==
    ASSUME Inv, StopInv, StopTimer
    PROVE  StopInv'
  <1>1. PICK t \in mem.timers :
          mem' = Signal([mem EXCEPT
            !.timers = @ \ {t},
            !.active = IF @ # None /\ @.o = t THEN None ELSE @])
    BY DEF StopTimer
  <1> DEFINE ts == mem.timers \ {t}
             a == IF mem.active # None /\ mem.active.o = t THEN None ELSE mem.active
             m == [mem EXCEPT !.timers = ts, !.active = a]
  <1>2. mem' = Signal(m)
    BY <1>1
  <1>3. now \in Nat /\ IsMem(mem) /\ Aged(now, disk, mem)
    BY StopFacts
  <1>4. (a # None => IsActive(a)) /\ (a = None \/ a = mem.active) /\ ts \subseteq mem.timers
    BY <1>3, SMTT(30) DEF IsMem
  <1> HIDE DEF ts, a
  <1>5. m \in MemOf(mem.trusted, a, ts, mem.vol, mem.dirty, mem.poll)
    BY <1>3, MemFields DEF IsMem
  <1> HIDE DEF m
  <1>6. /\ MemShape(m) /\ m.trusted = mem.trusted /\ m.active = a /\ m.vol = mem.vol
        /\ m.timers = ts /\ m.dirty = mem.dirty /\ m.poll = mem.poll
    BY <1>5, MemRead
  <1>7. IsMem(m)
    BY <1>3, <1>4, <1>6 DEF IsMem
  <1>8. mem'.vol = mem.vol /\ mem'.timers = ts /\ mem'.active = a
    BY <1>2, <1>6, <1>7, SignalEffect
  <1>9. UNCHANGED <<now, disk, hist, left, ctl>>
    BY DEF StopTimer
  <1>10. Aged(now', disk', mem') /\ now' \in Nat /\ now <= now'
    BY <1>3, <1>4, <1>8, <1>9 DEF Aged
  <1> QED
    BY <1>8, <1>9, <1>10, QuietFree

\* The clock is trusted, whether that could be stored or not.
LEMMA ClockReplyStop ==
    ASSUME Inv, StopInv, ClockReply
    PROVE  StopInv'
  <1> DEFINE yes == TRUE
             m0 == [mem EXCEPT !.trusted = yes]
             m == Signal(m0)
             new == NewlyArmed(disk, m, disk.occ \cup KidsOf(disk))
             armed == {x \in disk.armed : x.o \notin new} \cup ArmedBy(new)
             d == [disk EXCEPT !.anchor = boot, !.armed = armed]
  <1>1. mem' = m /\ (Commits(d) \/ CommitFails(disk))
    BY DEF ClockReply
  <1>2. now \in Nat /\ IsMem(mem) /\ IsDisk(disk, boot) /\ Aged(now, disk, mem)
    BY StopFacts, SMTT(30)
  <1>3. m0 \in MemOf(yes, mem.active, mem.timers, mem.vol, mem.dirty, mem.poll)
    <2> HIDE DEF yes
    <2> QED
      BY <1>2, MemFields DEF IsMem
  <1>4. /\ MemShape(m0) /\ m0.trusted = yes /\ m0.active = mem.active /\ m0.vol = mem.vol
        /\ m0.timers = mem.timers /\ m0.dirty = mem.dirty /\ m0.poll = mem.poll
    <2> HIDE DEF yes, m0
    <2> QED
      BY <1>3, MemRead
  <1>5. IsMem(m0)
    <2> HIDE DEF m0
    <2> QED
      BY <1>2, <1>4 DEF IsMem
  <1> HIDE DEF m0, yes
  <1>6. mem'.vol = mem.vol /\ mem'.active = mem.active /\ mem'.timers = mem.timers
    BY <1>1, <1>4, <1>5, SignalEffect
  <1> HIDE DEF armed
  <1>7. d \in DiskOf(disk.occ, disk.ops, disk.kids, armed, disk.rings, boot)
    BY <1>2, DiskFields DEF IsDisk
  <1> HIDE DEF d
  <1>8. d.occ = disk.occ /\ d.ops = disk.ops /\ d.kids = disk.kids /\ d.rings = disk.rings
    BY <1>7, DiskRead
  <1>9. /\ disk'.occ = disk.occ /\ disk'.ops = disk.ops /\ disk'.kids = disk.kids
        /\ disk'.rings = disk.rings
    BY <1>1, <1>8 DEF Commits, CommitFails
  <1>10. UNCHANGED <<now, hist, ctl>>
    BY DEF ClockReply
  <1>11. Aged(now', disk', mem') /\ now' \in Nat /\ now <= now'
    BY <1>2, <1>6, <1>9, <1>10 DEF Aged
  <1>12. CASE UNCHANGED left
    BY <1>6, <1>9, <1>10, <1>11, <1>12, QuietFree
  <1>13. CASE Spends({"commit"})
    <2>1. hist'.stopped = hist.stopped /\ hist.made \subseteq hist'.made
      BY <1>10
    <2> QED
      BY <1>6, <1>9, <1>10, <1>11, <1>13, <2>1, Quiet
  <1> QED
    BY <1>1, <1>12, <1>13 DEF Commits, CommitFails

\* A start finds the store as it was left.
LEMMA StartStop ==
    ASSUME Inv, StopInv, Start
    PROVE  StopInv'
  <1>1. now \in Nat /\ Aged(now, disk, mem)
    BY StopFacts
  <1>2. mem.vol = {}
    BY DEF Start, Inv, DownInv
  <1>3. UNCHANGED <<now, disk, hist, ctl>> /\ mem' = NewMem(disk.anchor = boot')
    BY DEF Start
  <1>4. mem'.vol = {} /\ mem'.active = None /\ mem'.timers = {}
    BY <1>3 DEF NewMem
  <1>5. Aged(now', disk', mem') /\ now' \in Nat /\ now <= now'
    BY <1>1, <1>3, <1>4 DEF Aged
  <1>6. CASE UNCHANGED left
    BY <1>2, <1>3, <1>4, <1>5, <1>6, QuietFree
  <1>7. CASE Spends({"reboot"})
    <2>1. hist'.stopped = hist.stopped /\ hist.made \subseteq hist'.made
          /\ disk'.occ = disk.occ /\ disk'.kids = disk.kids /\ disk'.ops = disk.ops
      BY <1>3
    <2> QED
      BY <1>2, <1>3, <1>4, <1>5, <1>7, <2>1, Quiet
  <1> QED
    BY <1>6, <1>7 DEF Start

\* Time passes.
LEMMA TickStop ==
    ASSUME Inv, StopInv, Tick
    PROVE  StopInv'
  <1>1. now \in Nat /\ IsMem(mem) /\ Aged(now, disk, mem)
    BY StopFacts
  <1>2. now' = now + 1 /\ UNCHANGED <<disk, hist, left, ctl>>
        /\ (mem' = Signal(mem) \/ mem' = mem)
    BY DEF Tick
  <1>3. mem'.vol = mem.vol /\ mem'.active = mem.active /\ mem'.timers = mem.timers
    BY <1>1, <1>2, SignalEffect
  <1>4. now' \in Nat /\ now <= now'
    BY <1>1, <1>2
  <1>5. Aged(now', disk', mem')
    <2>1. \A n \in Nat : n <= now => n <= now'
      BY <1>1, <1>2
    <2> QED
      BY <1>1, <1>2, <1>3, <2>1 DEF Aged
  <1> QED
    BY <1>2, <1>3, <1>4, <1>5, QuietFree

\* A stop or snooze made on the speaker: what is snoozed rings, and so was due.
LEMMA ActStop ==
    ASSUME Inv, StopInv, NEW act, NEW o \in Held(disk, mem), Act(act, o)
    PROVE  StopInv'
  <1> DEFINE isActive == mem.active # None /\ mem.active.o = o
             a == IF isActive THEN None ELSE mem.active
             m0 == [mem EXCEPT !.active = a]
             m == Signal(m0)
             none == {}
             cs == {SnoozeChild(o)}
             cost == {"act"}
  <1>1. /\ now \in Nat /\ boot \in Nat /\ left \in [Events -> Nat] /\ LeftOK
        /\ Known(disk, mem, hist, boot) /\ IsDisk(disk, boot) /\ IsMem(mem)
        /\ HistShape(hist) /\ CtlShape(ctl) /\ Entered(ctl, hist)
        /\ StopAt(now, disk, mem, ctl, hist, ~CommitFailed) /\ Aged(now, disk, mem)
    BY StopFacts
  <1>2. [mem EXCEPT !.active = mem.active] = mem
    BY <1>1 DEF IsMem, MemShape, MemOf
  <1>3. Signal(IF isActive THEN [mem EXCEPT !.active = None] ELSE mem) = m
    <2>1. CASE isActive
      BY <2>1
    <2>2. CASE ~isActive
      BY <1>2, <2>2
    <2> QED
      BY <2>1, <2>2
  <1>4. \/ act = "dismiss" /\ Journals(disk, m, act, o, none, cost)
        \/ act = "snooze" /\ isActive /\ Journals(disk, m, act, o, cs, cost)
    BY <1>3, SMTT(30) DEF Act
  <1>5. (a # None => IsActive(a)) /\ (a = None \/ a = mem.active)
    BY <1>1 DEF IsMem
  <1> HIDE DEF a
  <1>6. IsMem(m0) /\ m0.vol = mem.vol /\ m0.active = a /\ m0.timers = mem.timers
    BY <1>1, <1>5, ActiveSet
  <1> HIDE DEF m0
  <1>7. IsMem(m) /\ m.vol = mem.vol /\ m.active = a /\ m.timers = mem.timers
    BY <1>6, SignalEffect
  <1> HIDE DEF m
  <1>8. Known(disk, m, hist, boot)
    BY <1>1, <1>7, KnownSame
  <1>9. Aged(now, disk, m)
    BY <1>1, <1>5, <1>7 DEF Aged
  <1> DEFINE calm == ~CommitFailed
  <1>10. StopAt(now, disk, mem, ctl, hist, calm)
    BY <1>1
  <1> HIDE DEF calm
  <1>11. StopAt(now, disk, m, ctl, hist, calm)
    <2>1. now <= now /\ (calm => calm)
      BY <1>1
    <2> QED
      BY <1>1, <1>7, <1>9, <1>10, <2>1, QuietAt
  <1>12. o \in Held(disk, m) /\ Executable(disk, m, o)
    BY <1>7, ActiveSame DEF Act
  <1>13. UNCHANGED <<now, ctl>>
    BY DEF Act
  <1>14. isActive => o.due <= now
    BY <1>1 DEF Aged
  <1> HIDE DEF none, cs, cost, isActive
  <1>15. CASE act = "dismiss" /\ Journals(disk, m, act, o, none, cost)
    <2>1. none = {} /\ act # "snooze"
      BY <1>15 DEF none
    <2> QED
      BY <1>1, <1>8, <1>11, <1>12, <1>13, <1>15, <2>1, JournalsAt DEF calm
  <1>16. CASE act = "snooze" /\ isActive /\ Journals(disk, m, act, o, cs, cost)
    <2>1. cs = {SnoozeChild(o)} /\ act = "snooze" /\ o.due <= now
      BY <1>14, <1>16 DEF cs
    <2> QED
      BY <1>1, <1>8, <1>11, <1>12, <1>13, <1>16, <2>1, JournalsAt DEF calm
  <1> QED
    BY <1>4, <1>15, <1>16

\* The parts of it after a step.
LEMMA Restopped ==
    ASSUME NEW events, left \in [Events -> Nat], LeftOK,
           Spends(events) \/ (UNCHANGED left /\ events = {}),
           CtlShape(ctl'), Entered(ctl', hist'), Aged(now', disk', mem'),
           NEW w, w = ViewOf(now', disk', mem', ctl', hist'), Forms(w),
           NEW calm, calm = ~CommitFailed,
           Silent(w, calm), calm /\ "commit" \notin events => Calm(w) /\ mem'.vol = {}
    PROVE  StopInv'
  <1> DEFINE calm2 == ~CommitFailed'
  <1>1. LeftOK' /\ (calm2 => calm /\ "commit" \notin events)
    BY CommitSpent
  <1> HIDE DEF calm2
  <1>2. Silent(w, calm2)
    BY <1>1, Hushed
  <1>3. calm2 => Calm(w) /\ mem'.vol = {}
    BY <1>1
  <1>4. StopAt(now', disk', mem', ctl', hist', calm2)
    BY <1>2, <1>3 DEF StopAt
  <1> QED
    BY <1>1, <1>4 DEF StopInv, calm2

\* A crash: what it loses could not be stored, so a write has failed.
LEMMA CrashStop ==
    ASSUME Inv, StopInv, Crash
    PROVE  StopInv'
  <1> DEFINE lost == {t.op : t \in mem.vol}
             l == hist.lost \cup {op.id : op \in lost}
             s == {x \in hist.stopped : \A op \in lost : op.target # x.o}
             f == {x \in hist.first : x.kept}
             calm == ~CommitFailed
             v == ViewOf(now, disk, mem, ctl, hist)
             w == ViewOf(now', disk', mem', ctl', hist')
             cost == {"crash"}
  <1>1. /\ now \in Nat /\ boot \in Nat /\ left \in [Events -> Nat] /\ LeftOK
        /\ HistShape(hist) /\ CtlShape(ctl) /\ Entered(ctl, hist)
        /\ StopAt(now, disk, mem, ctl, hist, ~CommitFailed) /\ Aged(now, disk, mem)
    BY StopFacts
  <1>2. hist' = [hist EXCEPT !.lost = l, !.stopped = s, !.first = f]
    BY DEF Crash
  <1>3. UNCHANGED <<now, disk, ctl>> /\ Spends(cost) /\ "commit" \notin cost
    BY DEF Crash
  <1>4. mem'.vol = {} /\ mem'.active = None /\ mem'.timers = {}
    BY SMTT(30) DEF Crash, NewMem
  <1>5. hist' \in HistOf(s, f, hist.made, hist.answered, l)
    <2> HIDE DEF s, f, l
    <2> QED
      BY <1>1, <1>2, HistFields
  <1>6. hist'.made = hist.made /\ hist'.stopped = s
    <2> HIDE DEF s, f, l
    <2> QED
      BY <1>5, HistRead
  <1>7. Aged(now', disk', mem')
    BY <1>1, <1>3, <1>4 DEF Aged
  <1>8. CtlShape(ctl') /\ Entered(ctl', hist')
    BY <1>1, <1>3, <1>6 DEF Entered
  <1>9. Forms(v) /\ Silent(v, calm) /\ (calm => Calm(v) /\ mem.vol = {})
    BY <1>1 DEF StopAt
  <1>10. /\ v.now = now /\ v.occ = disk.occ /\ v.kids = KidsOf(disk) \cup VolatileKids(mem)
         /\ v.ops = Ops(disk, mem) /\ v.cal = ctl.cal /\ v.known = ctl.known
         /\ v.pend = ctl.pend /\ v.settled = Ids(ctl.res) /\ v.stopped = hist.stopped
    <2> HIDE DEF v
    <2> QED
      BY ViewRead DEF v
  <1>11. /\ w.now = now /\ w.occ = disk.occ /\ w.kids = KidsOf(disk) \cup VolatileKids(mem')
         /\ w.ops = Ops(disk, mem') /\ w.cal = ctl.cal /\ w.known = ctl.known
         /\ w.pend = ctl.pend /\ w.settled = Ids(ctl.res) /\ w.stopped = s
    <2> HIDE DEF s
    <2>1. /\ w.now = now' /\ w.occ = disk'.occ /\ w.kids = KidsOf(disk') \cup VolatileKids(mem')
          /\ w.ops = Ops(disk', mem') /\ w.cal = ctl'.cal /\ w.known = ctl'.known
          /\ w.pend = ctl'.pend /\ w.settled = Ids(ctl'.res) /\ w.stopped = hist'.stopped
      BY DEF ViewOf
    <2> QED
      BY <1>3, <1>6, <2>1
  <1> HIDE DEF v, w, calm, cost
  <1>12. VolatileKids(mem') = {} /\ Ops(disk, mem') = disk.ops /\ Ops(disk, mem) = disk.ops \cup lost
    BY <1>4 DEF VolatileKids, Ops
  <1>13. calm => lost = {} /\ VolatileKids(mem) = {}
    BY <1>9 DEF VolatileKids
  <1>14. w.stopped = {x \in v.stopped : \A op \in lost : op.target # x.o}
    BY <1>10, <1>11
  <1> HIDE DEF lost
  <1>15. Forms(w) /\ Silent(w, calm)
    BY <1>9, <1>10, <1>11, <1>12, <1>13, <1>14, Losing
  <1>16. calm => Calm(w)
    <2> SUFFICES ASSUME calm PROVE Calm(w)
      OBVIOUS
    <2>1. w.stopped = v.stopped /\ w.ops = v.ops /\ w.kids = v.kids
      BY <1>10, <1>11, <1>12, <1>13, <1>14
    <2>2. v.now \in Nat /\ w.now \in Nat /\ v.now <= w.now
      BY <1>1, <1>10, <1>11
    <2> QED
      BY <1>9, <1>10, <1>11, <2>1, <2>2, Later
  <1>17. w = ViewOf(now', disk', mem', ctl', hist') /\ calm = ~CommitFailed
    BY DEF w, calm
  <1> QED
    BY <1>1, <1>3, <1>4, <1>7, <1>8, <1>15, <1>16, <1>17, Restopped

\* A ring record is another one, or that one under the key of a copy.
Carried(r, q) ==
    /\ Matches(r.o, q.o) /\ r.boot = q.boot /\ r.first = q.first /\ r.deadline = q.deadline
    /\ r.utc = q.utc
Carries(rings, olds) == \A r \in rings : \E q \in olds : Carried(r, q)

\* A record that is moved stays the record it was, of the same due time.
LEMMA MovedFrom ==
    ASSUME NEW b \in Nat, NEW d, IsDisk(d, b), NEW put
    PROVE  Carries(Moved(d, put), d.rings)
  <1> DEFINE old == {x \in d.rings : /\ x.o \notin put
                                     /\ \E k \in Superseded(d, put) : k.o = x.o}
             To(r) == CHOOSE o \in put : Matches(o, r.o)
  <1>1. Moved(d, put) = {[r EXCEPT !.o = To(r)] : r \in old}
    BY DEF Moved
  <1>2. ASSUME NEW r \in old
        PROVE  Matches(To(r), r.o) /\ r \in d.rings /\ IsRing(r, b)
    <2>1. PICK k \in d.kids : k.o = r.o /\ \E o \in put : Matches(o, k.o)
      BY DEF Superseded
    <2>2. \E o \in put : Matches(o, r.o)
      BY <2>1
    <2>3. Matches(To(r), r.o)
      <3> DEFINE x == r.o
      <3>1. \E o \in put : Matches(o, x)
        BY <2>2
      <3>2. To(r) = CHOOSE o \in put : Matches(o, x)
        OBVIOUS
      <3> HIDE DEF x, To
      <3>3. Matches(To(r), x)
        BY <3>1, <3>2, Chosen
      <3> QED
        BY <3>3 DEF x
    <2>4. r \in d.rings
      OBVIOUS
    <2> HIDE DEF To, old
    <2> QED
      BY <2>3, <2>4 DEF IsDisk
  <1>3. ASSUME NEW r, IsRing(r, b), NEW v, Matches(v, r.o)
        PROVE  Carried([r EXCEPT !.o = v], r)
    <2>1. [r EXCEPT !.o = v] \in [o : {v}, boot : {r.boot}, first : {r.first},
                                  deadline : {r.deadline}, utc : {r.utc}]
      BY <1>3 DEF IsRing
    <2> QED
      BY <1>3, <2>1 DEF Carried
  <1> HIDE DEF old, To
  <1>4. ASSUME NEW x \in Moved(d, put) PROVE \E q \in d.rings : Carried(x, q)
    <2>1. PICK r \in old : x = [r EXCEPT !.o = To(r)]
      BY <1>1
    <2>2. Carried(x, r) /\ r \in d.rings
      BY <1>2, <1>3, <2>1
    <2> QED
      BY <2>2
  <1> QED
    BY <1>4 DEF Carries

\* Putting records adds no others.
LEMMA PutCarries ==
    ASSUME NEW rings, NEW put, NEW olds, rings \subseteq olds, Carries(put, olds)
    PROVE  Carries(PutRings(rings, put), olds)
  <1>1. \A r \in rings : Carried(r, r)
    BY DEF Carried, Matches
  <1> QED
    BY <1>1 DEF Carries, PutRings

\* A record that is moved is found under the only copy there is.
LEMMA MovedTo ==
    ASSUME NEW b \in Nat, NEW d, IsDisk(d, b), NEW put, NEW r \in d.rings,
           r.o \in KidsOf(d), r.o \notin put, NEW x \in put, Matches(x, r.o),
           \A y \in put : Matches(y, r.o) => y = x
    PROVE  \E q \in Moved(d, put) : q.o = x
  <1> DEFINE u == r.o
             c == CHOOSE o \in put : Matches(o, u)
  <1>1. c \in put /\ Matches(c, u)
    <2>1. \E o \in put : Matches(o, u)
      OBVIOUS
    <2> HIDE DEF u
    <2> QED
      BY <2>1
  <1>2. c = x
    BY <1>1
  <1>3. PICK k \in d.kids : k.o = r.o
    BY DEF KidsOf
  <1>4. k \in Superseded(d, put)
    BY <1>3 DEF Superseded
  <1>5. [r EXCEPT !.o = c] \in Moved(d, put)
    <2> DEFINE old == {q \in d.rings : /\ q.o \notin put
                                       /\ \E z \in Superseded(d, put) : z.o = q.o}
               To(q) == CHOOSE o \in put : Matches(o, q.o)
    <2>1. Moved(d, put) = {[q EXCEPT !.o = To(q)] : q \in old}
      BY DEF Moved
    <2>2. r \in old
      BY <1>3, <1>4
    <2>3. c = To(r)
      OBVIOUS
    <2> HIDE DEF old, To, c
    <2> QED
      BY <2>1, <2>2, <2>3
  <1> HIDE DEF c
  <1>6. [r EXCEPT !.o = c] \in [o : {c}, boot : {r.boot}, first : {r.first},
                               deadline : {r.deadline}, utc : {r.utc}]
    BY DEF IsDisk, IsRing
  <1>7. [r EXCEPT !.o = c].o = c
    BY <1>6
  <1> QED
    BY <1>2, <1>5, <1>7

\* A record that is kept, or one that is put, is there.
LEMMA PutKeeps ==
    ASSUME NEW rings, NEW put
    PROVE  \A r \in rings \cup put : \E q \in PutRings(rings, put) : q.o = r.o
  BY DEF PutRings

\* What rings is recorded still, wherever its occurrence stays or a copy replaces it.
KeepsRings(d, n, live, put) ==
    \A r \in d.rings :
        /\ r.o \in live /\ (r.o \in put \/ r.o \notin KidsOf(d)) => \E q \in n.rings : q.o = r.o
        /\ r.o \in KidsOf(n) => \E q \in n.rings : q.o = r.o
        /\ r.o \in KidsOf(d) \ live =>
             \A x \in put : Matches(x, r.o) /\ (\A y \in live : Matches(y, r.o) => y = x) =>
                \E q \in n.rings : q.o = x

\* What a delivery makes of the store: the live set, with the operations and the
\* children that it leaves.
Installs(d, n, live, put) ==
    /\ n.occ = live
    /\ n.ops \subseteq d.ops
    /\ \A op \in d.ops : op.res = None \/ (\E x \in live : Matches(op.target, x)) => op \in n.ops
    /\ KidsOf(n) \subseteq KidsOf(d)
    /\ \A x \in put, k \in KidsOf(n) : ~Matches(x, k)
    /\ Carries(n.rings, d.rings) /\ KeepsRings(d, n, live, put)

\* dropSettledOps keeps what has no answer and what is delivered.
LEMMA DropKeeps ==
    ASSUME NEW ops, NEW live
    PROVE  LET n == DropSettledOps(ops, live)
           IN  /\ n \subseteq ops
               /\ \A op \in ops : op.res = None \/ (\E x \in live : Matches(op.target, x)) => op \in n
  BY DEF DropSettledOps

\* So does a delta,
LEMMA DeltaBrings ==
    ASSUME boot \in Nat, NEW d, IsDisk(d, boot), NEW m, NEW gone, NEW put, NEW live,
           live = (d.occ \ gone) \cup put, gone \cap live = {}
    PROVE  Installs(d, DeltaTxn(d, m, gone, put), live, put)
  <1> DEFINE kids == {k \in d.kids \ Superseded(d, put) : k.o \notin gone}
             dropped == {k.o : k \in Superseded(d, put)}
             new == NewlyArmed(d, m, put)
             armed2 == {x \in d.armed : x.o \notin gone \cup dropped \cup new} \cup ArmedBy(new)
             rest == {r \in d.rings : r.o \notin gone \cup (dropped \ put)}
             rings2 == PutRings(rest, Moved(d, put))
             ops2 == DropSettledOps(d.ops, live)
             n == DeltaTxn(d, m, gone, put)
  <1>1. n = [d EXCEPT !.occ = live, !.kids = kids, !.armed = armed2, !.rings = rings2, !.ops = ops2]
    BY SMTT(30) DEF DeltaTxn
  <1>2. n \in DiskOf(live, ops2, kids, armed2, rings2, d.anchor)
    <2> HIDE DEF ops2, kids, armed2, rings2, n
    <2> QED
      BY <1>1, DiskFields DEF IsDisk
  <1>3. n.occ = live /\ n.ops = ops2 /\ n.kids = kids /\ n.rings = rings2
    <2> HIDE DEF ops2, kids, armed2, rings2, n
    <2> QED
      BY <1>2, DiskRead
  <1>4. Carries(rings2, d.rings)
    <2>1. rest \subseteq d.rings
      OBVIOUS
    <2> HIDE DEF rest
    <2> QED
      BY <2>1, MovedFrom, PutCarries
  <1>5. \A k \in kids : k \in d.kids /\ \A x \in put : ~Matches(x, k.o)
    BY DEF Superseded
  <1>6. \A k \in KidsOf(n) : k \in KidsOf(d) /\ \A x \in put : ~Matches(x, k)
    <2> HIDE DEF kids, n
    <2> QED
      BY <1>3, <1>5 DEF KidsOf
  <1>7. ops2 \subseteq d.ops
        /\ \A op \in d.ops : op.res = None \/ (\E x \in live : Matches(op.target, x)) => op \in ops2
    BY DropKeeps
  <1>8. KeepsRings(d, n, live, put)
    <2> DEFINE moved == Moved(d, put)
    <2>1. \A r \in rest \cup moved : \E q \in n.rings : q.o = r.o
      <3>1. n.rings = PutRings(rest, moved)
        <4> HIDE DEF n
        <4> QED
          BY <1>3
      <3> HIDE DEF n, rest, moved
      <3>2. \A r \in rest \cup moved : \E q \in PutRings(rest, moved) : q.o = r.o
        BY PutKeeps
      <3> QED
        BY <3>1, <3>2
    <2>2. ASSUME NEW r \in d.rings, r.o \in live, r.o \in put \/ r.o \notin KidsOf(d)
          PROVE  r \in rest
      <3>1. dropped \subseteq KidsOf(d)
        BY DEF Superseded, KidsOf
      <3>2. r.o \notin gone
        BY <2>2
      <3> HIDE DEF dropped
      <3> QED
        BY <2>2, <3>1, <3>2
    <2>3. ASSUME NEW r \in d.rings, r.o \in KidsOf(n) PROVE r \in rest
      <3>1. PICK k \in kids : k.o = r.o
        <4> HIDE DEF n, kids
        <4> QED
          BY <1>3, <2>3 DEF KidsOf
      <3>2. r.o \notin gone /\ r.o \notin dropped
        BY <3>1 DEF Superseded
      <3> QED
        BY <3>2
    <2>4. ASSUME NEW r \in d.rings, r.o \in KidsOf(d) \ live, NEW x \in put, Matches(x, r.o),
                 \A y \in live : Matches(y, r.o) => y = x
          PROVE  \E q \in moved : q.o = x
      <3>1. r.o \notin put /\ \A y \in put : Matches(y, r.o) => y = x
        BY <2>4
      <3> QED
        BY <2>4, <3>1, MovedTo
    <2> HIDE DEF n, rest, moved
    <2> QED
      BY <2>1, <2>2, <2>3, <2>4 DEF KeepsRings
  <1> HIDE DEF n, ops2, rings2
  <1>9. Installs(d, n, live, put)
    BY <1>3, <1>4, <1>6, <1>7, <1>8 DEF Installs
  <1> QED
    BY <1>9 DEF n

\* and a snapshot.
LEMMA SnapshotBrings ==
    ASSUME boot \in Nat, NEW d, IsDisk(d, boot), NEW m, NEW live, NEW put \in SUBSET live
    PROVE  Installs(d, SnapshotTxn(d, m, live), live, put)
  <1> DEFINE kids == {k \in d.kids \ Superseded(d, live) : ~k.resolved \/ k.o \in live}
             armed2 == IF m.trusted THEN ArmedBy(live \cup {k.o : k \in kids}) ELSE {}
             rest == {r \in d.rings : r.o \in live \/ r.o \in {k.o : k \in kids}}
             rings2 == PutRings(rest, Moved(d, live))
             ops2 == DropSettledOps(d.ops, live)
             n == SnapshotTxn(d, m, live)
  <1>1. n = [d EXCEPT !.occ = live, !.kids = kids, !.armed = armed2, !.rings = rings2, !.ops = ops2]
    BY SMTT(30) DEF SnapshotTxn
  <1>2. n \in DiskOf(live, ops2, kids, armed2, rings2, d.anchor)
    <2> HIDE DEF ops2, kids, armed2, rings2, n
    <2> QED
      BY <1>1, DiskFields DEF IsDisk
  <1>3. n.occ = live /\ n.ops = ops2 /\ n.kids = kids /\ n.rings = rings2
    <2> HIDE DEF ops2, kids, armed2, rings2, n
    <2> QED
      BY <1>2, DiskRead
  <1>4. Carries(rings2, d.rings)
    <2>1. rest \subseteq d.rings
      OBVIOUS
    <2> HIDE DEF rest
    <2> QED
      BY <2>1, MovedFrom, PutCarries
  <1>5. \A k \in kids : k \in d.kids /\ \A x \in live : ~Matches(x, k.o)
    BY DEF Superseded
  <1>6. \A k \in KidsOf(n) : k \in KidsOf(d) /\ \A x \in put : ~Matches(x, k)
    <2> HIDE DEF kids, n
    <2> QED
      BY <1>3, <1>5 DEF KidsOf
  <1>7. ops2 \subseteq d.ops
        /\ \A op \in d.ops : op.res = None \/ (\E x \in live : Matches(op.target, x)) => op \in ops2
    BY DropKeeps
  <1>8. KeepsRings(d, n, live, put)
    <2> DEFINE moved == Moved(d, live)
    <2>1. \A r \in rest \cup moved : \E q \in n.rings : q.o = r.o
      <3>1. n.rings = PutRings(rest, moved)
        <4> HIDE DEF n
        <4> QED
          BY <1>3
      <3> HIDE DEF n, rest, moved
      <3>2. \A r \in rest \cup moved : \E q \in PutRings(rest, moved) : q.o = r.o
        BY PutKeeps
      <3> QED
        BY <3>1, <3>2
    <2>2. ASSUME NEW r \in d.rings, r.o \in live PROVE r \in rest
      BY <2>2
    <2>3. ASSUME NEW r \in d.rings, r.o \in KidsOf(n) PROVE r \in rest
      <3>1. PICK k \in kids : k.o = r.o
        <4> HIDE DEF n, kids
        <4> QED
          BY <1>3, <2>3 DEF KidsOf
      <3> HIDE DEF kids
      <3> QED
        BY <3>1
    <2>4. ASSUME NEW r \in d.rings, r.o \in KidsOf(d) \ live, NEW x \in put, Matches(x, r.o),
                 \A y \in live : Matches(y, r.o) => y = x
          PROVE  \E q \in moved : q.o = x
      <3>1. r.o \notin live /\ x \in live
        BY <2>4
      <3> QED
        BY <2>4, <3>1, MovedTo
    <2> HIDE DEF n, rest, moved
    <2> QED
      BY <2>1, <2>2, <2>3, <2>4 DEF KeepsRings
  <1> HIDE DEF n, ops2, rings2
  <1>9. Installs(d, n, live, put)
    BY <1>3, <1>4, <1>6, <1>7, <1>8 DEF Installs
  <1> QED
    BY <1>9 DEF n

\* What a delivery makes of a stop.
LEMMA DeliversStops ==
    ASSUME NEW h, HistShape(h), NEW d, NEW m, NEW d2, NEW put, \A s \in h.stopped : IsStop(s)
    PROVE  LET n == Delivers(h, d, m, d2, put)
           IN  /\ n.made = h.made
               /\ n.first = {f \in h.first : \E o \in d2.occ \cup KidsOf(d2) : Matches(o, f.o)}
               /\ \A s \in n.stopped : IsStop(s) /\ \E r \in h.stopped :
                     /\ r.o = s.o /\ (r.fresh => s.fresh)
                     /\ (\E x \in put : Matches(x, r.o)) /\
                        ~(\E op \in Ops(d, m) : op.res = None /\ Matches(op.target, r.o)) => s.fresh
  <1> DEFINE yes == TRUE
             Anew(s) == /\ \E o \in put : Matches(o, s.o)
                        /\ ~\E op \in Ops(d, m) : op.res = None /\ Matches(op.target, s.o)
             To(s) == IF Anew(s) THEN [s EXCEPT !.fresh = yes] ELSE s
             a == {To(s) : s \in h.stopped}
             b == {f \in h.first : \E o \in d2.occ \cup KidsOf(d2) : Matches(o, f.o)}
             n == Delivers(h, d, m, d2, put)
  <1>1. n = [h EXCEPT !.stopped = a, !.first = b]
    BY SMTT(30) DEF Delivers
  <1> HIDE DEF n, a, b
  <1>2. n \in HistOf(a, b, h.made, h.answered, h.lost)
    BY <1>1, HistFields
  <1>3. n.stopped = a /\ n.made = h.made /\ n.first = b
    BY <1>2, HistRead
  <1>4. ASSUME NEW s \in a
        PROVE  IsStop(s) /\ \E r \in h.stopped :
                 r.o = s.o /\ (r.fresh => s.fresh) /\ (Anew(r) => s.fresh)
    <2>1. PICK r \in h.stopped : s = To(r)
      BY DEF a
    <2>2. CASE ~Anew(r)
      <3>1. s = r
        BY <2>1, <2>2
      <3> QED
        BY <2>2, <3>1
    <2>3. CASE Anew(r)
      <3>1. s = [r EXCEPT !.fresh = yes]
        BY <2>1, <2>3
      <3> HIDE DEF yes
      <3>2. r \in [o : {r.o}, act : {r.act}, fresh : {r.fresh}] /\ Plain(r.o)
        BY DEF IsStop
      <3>3. s \in [o : {r.o}, act : {r.act}, fresh : {yes}]
        BY <3>1, <3>2
      <3>4. IsStop(s) /\ s.o = r.o /\ s.fresh = yes
        BY <3>2, <3>3 DEF IsStop
      <3> QED
        BY <3>4 DEF yes
    <2> QED
      BY <2>2, <2>3
  <1> QED
    BY <1>3, <1>4, SMTT(30) DEF n, b

\* The controller as far as stops depend on it.
SameCtl(c, e) ==
    CtlShape(e) /\ e.cal = c.cal /\ e.known = c.known /\ e.pend = c.pend /\ e.res = c.res

\* Withdrawals are not part of the argument.
LEMMA CtlGone ==
    ASSUME CtlShape(ctl), NEW g
    PROVE  SameCtl(ctl, [ctl EXCEPT !.gone = g])
  <1> DEFINE e == [ctl EXCEPT !.gone = g]
  <1>1. e \in CtlOf(ctl.cal, ctl.known, ctl.pend, ctl.res, g)
    BY DEF CtlShape, CtlOf
  <1> HIDE DEF e
  <1>2. SameCtl(ctl, e)
    BY <1>1 DEF SameCtl, CtlShape, CtlOf
  <1> QED
    BY <1>2 DEF e

\* A delivery: what it brings is the live set of the calendar.
LEMMA DeliveredStop ==
    ASSUME Inv, StopInv, NEW put, put = Live \ disk.occ, NEW d, Installs(disk, d, Live, put),
           Delivered(put, d), SameCtl(ctl, ctl')
    PROVE  StopInv'
  <1> DEFINE calm == ~CommitFailed
             v == ViewOf(now, disk, mem, ctl, hist)
             w == ViewOf(now', disk', mem', ctl', hist')
             n == Delivers(hist, disk, mem, d, put)
             none == {}
             cost == {"commit"}
  <1>1. /\ now \in Nat /\ left \in [Events -> Nat] /\ LeftOK /\ IsMem(mem)
        /\ HistShape(hist) /\ CtlShape(ctl) /\ Entered(ctl, hist)
        /\ StopAt(now, disk, mem, ctl, hist, ~CommitFailed) /\ Aged(now, disk, mem)
    BY StopFacts
  <1>2. now' = now /\ mem' = Signal(mem)
    BY DEF Delivered
  <1>3. \/ disk' = d /\ UNCHANGED left /\ hist' = n
        \/ disk' = disk /\ Spends(cost) /\ hist' = hist
    BY DEF Delivered, Commits, CommitFails
  <1>4. mem'.vol = mem.vol /\ mem'.active = mem.active /\ mem'.timers = mem.timers
    BY <1>1, <1>2, SignalEffect
  <1>5. Forms(v) /\ Silent(v, calm) /\ (calm => Calm(v) /\ mem.vol = {})
    BY <1>1 DEF StopAt
  <1>6. /\ v.now = now /\ v.occ = disk.occ /\ v.kids = KidsOf(disk) \cup VolatileKids(mem)
        /\ v.ops = Ops(disk, mem) /\ v.cal = ctl.cal /\ v.known = ctl.known
        /\ v.pend = ctl.pend /\ v.settled = Ids(ctl.res) /\ v.stopped = hist.stopped
    <2> HIDE DEF v
    <2> QED
      BY ViewRead DEF v
  <1>7. /\ w.now = now' /\ w.occ = disk'.occ /\ w.kids = KidsOf(disk') \cup VolatileKids(mem')
        /\ w.ops = Ops(disk', mem') /\ w.cal = ctl'.cal /\ w.known = ctl'.known
        /\ w.pend = ctl'.pend /\ w.settled = Ids(ctl'.res) /\ w.stopped = hist'.stopped
    BY DEF ViewOf
  <1>8. w = ViewOf(now', disk', mem', ctl', hist') /\ calm = ~CommitFailed
    OBVIOUS
  <1>9. \A s \in hist.stopped : IsStop(s)
    <2> HIDE DEF v
    <2> QED
      BY <1>5, <1>6 DEF Forms
  <1>10. /\ n.made = hist.made
         /\ \A s \in n.stopped : IsStop(s) /\ \E r \in hist.stopped :
               /\ r.o = s.o /\ (r.fresh => s.fresh)
               /\ (\E x \in put : Matches(x, r.o)) /\
                  ~(\E op \in Ops(disk, mem) : op.res = None /\ Matches(op.target, r.o)) => s.fresh
    BY <1>1, <1>9, DeliversStops
  <1> HIDE DEF v, w, n, calm
  <1>11. w.now = v.now /\ w.cal = v.cal /\ w.known = v.known /\ w.pend = v.pend
         /\ w.settled = v.settled
    BY <1>2, <1>6, <1>7 DEF SameCtl
  <1>12. VolatileKids(mem') = VolatileKids(mem)
         /\ (\A e : Ops(e, mem') = Ops(e, mem))
    BY <1>4 DEF VolatileKids, Ops
  <1>13. CtlShape(ctl') /\ Entered(ctl', hist')
    BY <1>1, <1>3, <1>10 DEF Entered, SameCtl
  <1>14. CASE disk' = disk /\ Spends(cost) /\ hist' = hist
    <2>1. Aged(now', disk', mem')
      BY <1>1, <1>2, <1>4, <1>14 DEF Aged
    <2>2. v.now \in Nat /\ w.now \in Nat /\ v.now <= w.now
      BY <1>1, <1>6, <1>11
    <2>3. w.occ = v.occ /\ w.kids = v.kids /\ w.ops = v.ops /\ w.stopped = v.stopped
      BY <1>6, <1>7, <1>12, <1>14
    <2>4. Forms(w) /\ (\A b : Silent(v, b) => Silent(w, b)) /\ (Calm(v) => Calm(w))
      BY <1>5, <1>11, <2>2, <2>3, Later
    <2>5. Silent(w, calm)
      BY <1>5, <2>4
    <2>6. calm => Calm(w) /\ mem'.vol = {}
      BY <1>4, <1>5, <2>4
    <2> HIDE DEF cost
    <2> QED
      BY <1>1, <1>8, <1>13, <1>14, <2>1, <2>4, <2>5, <2>6, Restopped
  <1>15. CASE disk' = d /\ UNCHANGED left /\ hist' = n
    <2>1. Carries(disk'.rings, disk.rings)
      BY <1>15 DEF Installs
    <2>2. Aged(now', disk', mem')
      BY <1>1, <1>2, <1>4, <2>1 DEF Aged, Carries, Carried, Matches
    <2>3. w.occ = Live /\ KidsOf(disk') \subseteq KidsOf(disk)
      BY <1>7, <1>15 DEF Installs
    <2>4. w.occ \subseteq v.cal /\ w.occ \subseteq v.occ \cup put
      BY <1>6, <2>3 DEF Live
    <2>5. w.kids \subseteq v.kids
      BY <1>6, <1>7, <1>12, <2>3
    <2>6. w.ops \subseteq v.ops
      BY <1>6, <1>7, <1>12, <1>15 DEF Ops, Installs
    <2>7. \A op \in v.ops : op.res = None \/ (\E x \in w.occ : Matches(op.target, x)) => op \in w.ops
      BY <1>6, <1>7, <1>12, <1>15, <2>3 DEF Ops, Installs
    <2>8. \A s \in w.stopped : IsStop(s) /\ \E r \in v.stopped :
            /\ r.o = s.o /\ (r.fresh => s.fresh)
            /\ (\E x \in put : Matches(x, r.o)) /\
               ~(\E op \in v.ops : op.res = None /\ Matches(op.target, r.o)) => s.fresh
      BY <1>6, <1>7, <1>10, <1>15
    <2>9. Brings(v, w, put)
      BY <1>11, <2>4, <2>5, <2>6, <2>7, <2>8 DEF Brings
    <2>10. Forms(w) /\ Silent(w, calm)
      BY <1>5, <2>9, Delivering
    <2>11. calm => Calm(w) /\ mem'.vol = {}
      <3> SUFFICES ASSUME calm PROVE Calm(w) /\ mem'.vol = {}
        OBVIOUS
      <3>1. mem'.vol = {} /\ VolatileKids(mem') = {} /\ Calm(v)
        BY <1>4, <1>5 DEF VolatileKids
      <3>2. w.kids = KidsOf(disk')
        BY <1>7, <3>1
      <3>3. \A x \in w.occ, k \in w.kids : ~Matches(x, k)
        <4> SUFFICES ASSUME NEW x \in w.occ, NEW k \in w.kids PROVE ~Matches(x, k)
          OBVIOUS
        <4>1. CASE x \in put
          BY <1>15, <3>2, <4>1 DEF Installs
        <4>2. CASE x \in v.occ
          BY <2>5, <3>1, <4>2 DEF Calm, Replaced
        <4> QED
          BY <2>4, <4>1, <4>2
      <3> QED
        BY <1>5, <2>9, <3>1, <3>3, Brought
    <2>12. UNCHANGED left /\ none = {}
      BY <1>15
    <2> HIDE DEF none
    <2> QED
      BY <1>1, <1>8, <1>13, <2>2, <2>10, <2>11, <2>12, Restopped
  <1> QED
    BY <1>3, <1>14, <1>15

\* A delta is delivered.
LEMMA ApplyDeltaStop ==
    ASSUME Inv, StopInv, ApplyDelta
    PROVE  StopInv'
  <1> DEFINE gone == (disk.occ \cup ctl.gone) \ Live
             put == Live \ disk.occ
             d == DeltaTxn(disk, mem, gone, put)
  <1>1. Delivered(put, d) /\ ctl' = [ctl EXCEPT !.gone = {}]
    BY DEF ApplyDelta
  <1>2. boot \in Nat /\ IsDisk(disk, boot)
    BY DEF Inv, TypeInv, Known
  <1>3. SameCtl(ctl, ctl')
    BY <1>1, CtlGone DEF StopInv
  <1>4. Live = (disk.occ \ gone) \cup put /\ put = Live \ disk.occ /\ gone \cap Live = {}
    OBVIOUS
  <1>5. Installs(disk, d, Live, put)
    <2> HIDE DEF gone, put
    <2> QED
      BY <1>2, <1>4, DeltaBrings
  <1> HIDE DEF d, put
  <1> QED
    BY <1>1, <1>3, <1>4, <1>5, DeliveredStop

\* A snapshot is delivered.
LEMMA ApplySnapshotStop ==
    ASSUME Inv, StopInv, ApplySnapshot
    PROVE  StopInv'
  <1> DEFINE live == Live
             put == Live \ disk.occ
             d == SnapshotTxn(disk, mem, live)
  <1>1. Delivered(put, d) /\ ctl' = ctl
    BY DEF ApplySnapshot
  <1>2. boot \in Nat /\ IsDisk(disk, boot)
    BY DEF Inv, TypeInv, Known
  <1>3. SameCtl(ctl, ctl')
    BY <1>1 DEF StopInv, SameCtl
  <1>4. put = Live \ disk.occ /\ put \in SUBSET live
    OBVIOUS
  <1>5. Installs(disk, d, Live, put)
    <2> HIDE DEF live, put
    <2>1. Installs(disk, d, live, put)
      BY <1>2, <1>4, SnapshotBrings
    <2> QED
      BY <2>1 DEF live
  <1> HIDE DEF d, put
  <1> QED
    BY <1>1, <1>3, <1>4, <1>5, DeliveredStop

\* What an answer to a journaled operation leaves.
LEMMA ResultView ==
    ASSUME NEW b, NEW d, IsDisk(d, b), NEW op \in d.ops, NEW state
    PROVE  LET n == ResultTxn(d, op, state)
               a == [op EXCEPT !.res = state]
               ends == IF state = "rejected" THEN KidsOf(d) \cap op.child ELSE {}
           IN  /\ KidsOf(n) = KidsOf(d) \ ends
               /\ \A r \in d.rings : r \in n.rings \/ r.o \in ends
               /\ n.occ = d.occ /\ KidsOf(n) \subseteq KidsOf(d) /\ n.rings \subseteq d.rings
               /\ (\E o \in d.occ : Matches(op.target, o)) => n.ops = (d.ops \ {op}) \cup {a}
               /\ ~(\E o \in d.occ : Matches(op.target, o)) => n.ops = d.ops \ {op}
  <1> DEFINE a == [op EXCEPT !.res = state]
             kept == IF \E o \in d.occ : Matches(op.target, o) THEN {a} ELSE {}
             mine == {k \in d.kids : k.o \in op.child}
             gone == IF state = "rejected" THEN {k.o : k \in mine} ELSE {}
             ops2 == (d.ops \ {op}) \cup kept
             ends == IF state = "rejected" THEN KidsOf(d) \cap op.child ELSE {}
             yes == TRUE
             held == {[k EXCEPT !.resolved = yes] : k \in mine}
             kids2 == (d.kids \ mine) \cup (IF state = "rejected" THEN {} ELSE held)
             armed2 == {x \in d.armed : x.o \notin gone}
             rings2 == {r \in d.rings : r.o \notin gone}
             n == ResultTxn(d, op, state)
  <1>1. n = [d EXCEPT !.ops = ops2, !.kids = kids2, !.armed = armed2, !.rings = rings2]
    BY SMTT(30) DEF ResultTxn
  <1>2. n \in DiskOf(d.occ, ops2, kids2, armed2, rings2, d.anchor)
    <2> HIDE DEF ops2, kids2, armed2, rings2, n
    <2> QED
      BY <1>1, DiskFields DEF IsDisk
  <1>3. n.occ = d.occ /\ n.ops = ops2 /\ n.kids = kids2 /\ n.rings = rings2
    <2> HIDE DEF ops2, kids2, armed2, rings2, n
    <2> QED
      BY <1>2, DiskRead
  <1>4. \A k \in held : \E j \in d.kids : j.o = k.o
    <2> SUFFICES ASSUME NEW j \in mine, NEW k, k = [j EXCEPT !.resolved = yes]
                 PROVE  j.o = k.o
      OBVIOUS
    <2>1. IsKid(j)
      BY DEF IsDisk
    <2> HIDE DEF yes
    <2>2. k \in [o : {j.o}, resolved : {yes}]
      BY <2>1 DEF IsKid
    <2> QED
      BY <2>2
  <1>5. \A k \in kids2 : \E j \in d.kids : j.o = k.o
    <2> HIDE DEF held, mine
    <2>1. \A k \in kids2 : k \in d.kids \/ k \in held
      OBVIOUS
    <2> QED
      BY <1>4, <2>1
  <1>9. \A j \in mine : \E k \in held : k.o = j.o
    <2> SUFFICES ASSUME NEW j \in mine PROVE [j EXCEPT !.resolved = yes].o = j.o
      OBVIOUS
    <2>1. IsKid(j)
      BY DEF IsDisk
    <2> HIDE DEF yes
    <2>2. [j EXCEPT !.resolved = yes] \in [o : {j.o}, resolved : {yes}]
      BY <2>1 DEF IsKid
    <2> QED
      BY <2>2
  <1>10. gone = ends
    BY DEF KidsOf
  <1>11. \A k \in mine : k \in d.kids /\ k.o \in op.child
    OBVIOUS
  <1>12. \A k \in d.kids : k \in mine \/ k.o \notin op.child
    OBVIOUS
  <1>13. KidsOf(n) = KidsOf(d) \ ends
    <2> HIDE DEF held, mine, n
    <2>1. CASE state = "rejected"
      <3>1. kids2 = d.kids \ mine /\ ends = KidsOf(d) \cap op.child
        BY <2>1
      <3> HIDE DEF kids2, ends
      <3> QED
        BY <1>3, <1>11, <1>12, <3>1 DEF KidsOf
    <2>2. CASE state # "rejected"
      <3>1. kids2 = (d.kids \ mine) \cup held /\ ends = {}
        BY <2>2
      <3> HIDE DEF kids2, ends
      <3> QED
        BY <1>3, <1>4, <1>9, <1>11, <3>1 DEF KidsOf
    <2> QED
      BY <2>1, <2>2
  <1> HIDE DEF kids2, n
  <1>6. KidsOf(n) \subseteq KidsOf(d)
    BY <1>3, <1>5 DEF KidsOf
  <1>7. rings2 \subseteq d.rings /\ \A r \in d.rings : r \in rings2 \/ r.o \in ends
    BY <1>10
  <1> HIDE DEF rings2, a, ends
  <1>8. /\ (\E o \in d.occ : Matches(op.target, o)) => n.ops = (d.ops \ {op}) \cup {a}
        /\ ~(\E o \in d.occ : Matches(op.target, o)) => n.ops = d.ops \ {op}
    BY <1>3
  <1> QED
    BY <1>3, <1>6, <1>7, <1>8, <1>13 DEF n, a, ends

\* An answer that reaches the speaker, to an operation the controller settled or
\* voids, the controller being as it is after the step.
LEMMA AnswerAt ==
    ASSUME now \in Nat, boot \in Nat, left \in [Events -> Nat], LeftOK,
           Known(disk, mem, hist, boot), NEW h, HistShape(h), h.made = hist.made,
           CtlShape(ctl'), Entered(ctl', hist), now' = now,
           NEW calm, calm = ~CommitFailed,
           StopAt(now, disk, mem, ctl', hist, calm), StopAt(now, disk, mem, ctl', h, calm),
           NEW id, NEW state, ApplyOpResult(id, state, h),
           \A op \in Ops(disk, mem) : op.id = id /\ calm =>
              Answerable(ViewOf(now, disk, mem, ctl', h), op)
    PROVE  StopInv'
  <1> DEFINE v == ViewOf(now, disk, mem, ctl', h)
             w == ViewOf(now', disk', mem', ctl', hist')
             ids == h.answered \cup {id}
             noted == [h EXCEPT !.answered = ids]
             none == {}
             cost == {"commit"}
  <1>1. IsDisk(disk, boot) /\ IsMem(mem) /\ Apart(disk, mem) /\ Ledger(Ops(disk, mem), hist)
        /\ HistShape(hist) /\ Aged(now, disk, mem)
    BY DEF Known, Ledger, StopAt
  <1>2. Forms(v) /\ Silent(v, calm) /\ (calm => Calm(v) /\ mem.vol = {})
    BY DEF StopAt
  <1>3. /\ v.now = now /\ v.occ = disk.occ /\ v.kids = KidsOf(disk) \cup VolatileKids(mem)
        /\ v.ops = Ops(disk, mem) /\ v.cal = ctl'.cal /\ v.known = ctl'.known
        /\ v.pend = ctl'.pend /\ v.settled = Ids(ctl'.res) /\ v.stopped = h.stopped
    <2> HIDE DEF v
    <2> QED
      BY ViewRead DEF v
  <1>4. /\ w.now = now' /\ w.occ = disk'.occ /\ w.kids = KidsOf(disk') \cup VolatileKids(mem')
        /\ w.ops = Ops(disk', mem') /\ w.cal = ctl'.cal /\ w.known = ctl'.known
        /\ w.pend = ctl'.pend /\ w.settled = Ids(ctl'.res) /\ w.stopped = hist'.stopped
    BY DEF ViewOf
  <1>5. w = ViewOf(now', disk', mem', ctl', hist')
    OBVIOUS
  <1>6. noted.stopped = h.stopped /\ noted.made = hist.made
    <2> HIDE DEF ids, noted
    <2>1. noted \in HistOf(h.stopped, h.first, h.made, ids, h.lost)
      BY HistFields DEF noted
    <2> QED
      BY <2>1, HistRead, SMTT(30)
  <1>7. \A op \in Ops(disk, mem) : op.id = id /\ calm => Answerable(v, op)
    OBVIOUS
  <1>8. \A p \in v.ops : p.id \in Nat
    <2>1. \A p \in disk.ops : p.id \in Nat
      BY <1>1 DEF IsDisk, IsOp
    <2>2. \A t \in mem.vol : t.op.id \in Nat
      BY <1>1 DEF IsMem, IsTxn, IsOp
    <2> HIDE DEF v
    <2> QED
      BY <1>3, <2>1, <2>2 DEF Ops
  <1> HIDE DEF v, w, noted
  <1>9. Numbered(v)
    BY <1>1, <1>3 DEF Numbered, Ledger
  <1>11. CASE Volatile(id) # {}
    <2> DEFINE Ans(u) == [u EXCEPT !.op.res = state,
                                   !.kid = IF state = "rejected" THEN {} ELSE @]
               vol == (mem.vol \ Volatile(id)) \cup {Ans(u) : u \in Volatile(id)}
               m == [mem EXCEPT !.vol = vol]
    <2>1. UNCHANGED <<disk, left>> /\ mem' = Signal(m) /\ hist' = noted
      BY <1>11 DEF ApplyOpResult, noted
    <2>2. PICK t \in mem.vol : Volatile(id) = {t} /\ t.op.id = id
      BY <1>1, <1>11 DEF Volatile, Apart
    <2> DEFINE n == Ans(t)
               op == t.op
               a == [op EXCEPT !.res = state]
    <2>3. vol = (mem.vol \ {t}) \cup {n}
      <3> HIDE DEF Ans
      <3> QED
        BY <2>2
    <2>4. IsTxn(t) /\ IsOp(op)
      BY <1>1 DEF IsMem, IsTxn
    <2>5. IsTxn(n) /\ n.op = a
      BY <2>4, AnsweredTxn, ZenonT(40)
    <2>6. n.kid \subseteq t.kid
      <3> DEFINE k == IF state = "rejected" THEN {} ELSE t.kid
      <3>1. n \in [op : {a}, wasKid : {t.wasKid}, kid : {k}, arm : {t.arm}]
        BY <2>4 DEF IsTxn
      <3>2. k \subseteq t.kid
        OBVIOUS
      <3> HIDE DEF n, a, k
      <3> QED
        BY <3>1, <3>2
    <2>7. a.id = op.id /\ a.act = op.act /\ a.target = op.target /\ a.child = op.child
      BY <2>4, AnsweredOp
    <2> HIDE DEF n, vol, Ans, op, a
    <2>8. m \in MemOf(mem.trusted, mem.active, mem.timers, vol, mem.dirty, mem.poll)
      BY <1>1, MemFields DEF IsMem
    <2> HIDE DEF m
    <2>9. /\ MemShape(m) /\ m.trusted = mem.trusted /\ m.active = mem.active /\ m.vol = vol
          /\ m.timers = mem.timers /\ m.dirty = mem.dirty /\ m.poll = mem.poll
      BY <2>8, MemRead
    <2>10. IsMem(m)
      BY <1>1, <2>3, <2>5, <2>9 DEF IsMem
    <2>11. mem'.vol = (mem.vol \ {t}) \cup {n} /\ mem'.active = mem.active
           /\ mem'.timers = mem.timers
      BY <2>1, <2>3, <2>9, <2>10, SignalEffect
    <2>12. Aged(now', disk', mem')
      BY <1>1, <2>1, <2>11 DEF Aged
    <2>13. op \in v.ops /\ op = t.op
      BY <1>3 DEF Ops, op
    <2>14. w.kids \subseteq v.kids
      BY <1>3, <1>4, <2>1, <2>6, <2>11 DEF VolatileKids
    <2>15. w.ops = disk.ops \cup {u.op : u \in (mem.vol \ {t}) \cup {n}}
      BY <1>4, <2>1, <2>11 DEF Ops
    <2>16. \A p \in disk.ops : p # op
      BY <1>1, <2>13 DEF Apart
    <2>17. \A u \in mem.vol : u # t => u.op # op
      BY <1>1, <2>13 DEF Apart
    <2>18. w.ops \subseteq (v.ops \ {op}) \cup {a} /\ v.ops \ {op} \subseteq w.ops /\ a \in w.ops
      BY <1>3, <2>5, <2>13, <2>15, <2>16, <2>17 DEF Ops
    <2>19. w.stopped = v.stopped /\ w.now = v.now /\ w.occ = v.occ /\ w.cal = v.cal
           /\ w.known = v.known /\ w.pend = v.pend /\ w.settled = v.settled
      BY <1>3, <1>4, <1>6, <2>1
    <2>20. Answers(v, w, op, a)
      BY <2>7, <2>13, <2>14, <2>18, <2>19 DEF Answers
    <2>21. ~calm
      BY <1>2, <2>2
    <2>22. Forms(w) /\ Silent(w, calm)
      <3>1. calm => Calm(v) /\ Answerable(v, op)
        BY <2>21
      <3> QED
        BY <1>2, <1>8, <2>20, <3>1, Answering
    <2>23. Entered(ctl', hist')
      BY <1>6, <2>1 DEF Entered
    <2>24. (UNCHANGED left /\ none = {}) /\ (calm => Calm(w) /\ mem'.vol = {})
      BY <2>1, <2>21
    <2> HIDE DEF none
    <2> QED
      BY <1>5, <2>12, <2>22, <2>23, <2>24, Restopped
  <1>12. CASE Volatile(id) = {}
    <2>1. mem' = Signal(mem)
      BY <1>12 DEF ApplyOpResult
    <2>2. mem'.vol = mem.vol /\ mem'.active = mem.active /\ mem'.timers = mem.timers
      BY <1>1, <2>1, SignalEffect
    <2>3. \/ (\E op \in disk.ops : op.id = id /\ Commits(ResultTxn(disk, op, state)))
             /\ hist' = noted
          \/ UNCHANGED <<disk, left, hist>>
          \/ CommitFails(disk) /\ UNCHANGED hist
      BY <1>12 DEF ApplyOpResult, noted
    <2>4. ASSUME NEW op \in disk.ops, op.id = id, Commits(ResultTxn(disk, op, state)),
                 hist' = noted
          PROVE  StopInv'
      <3> DEFINE n == ResultTxn(disk, op, state)
                 a == [op EXCEPT !.res = state]
                 shown == \E o \in disk.occ : Matches(op.target, o)
      <3> DEFINE ends == IF state = "rejected" THEN KidsOf(disk) \cap op.child ELSE {}
      <3>0. /\ KidsOf(n) = KidsOf(disk) \ ends
            /\ \A r \in disk.rings : r \in n.rings \/ r.o \in ends
            /\ n.occ = disk.occ /\ KidsOf(n) \subseteq KidsOf(disk) /\ n.rings \subseteq disk.rings
            /\ shown => n.ops = (disk.ops \ {op}) \cup {a}
            /\ ~shown => n.ops = disk.ops \ {op}
        BY <1>1, <2>4, ResultView, ZenonT(40)
      <3> HIDE DEF ends
      <3>1. /\ n.occ = disk.occ /\ KidsOf(n) \subseteq KidsOf(disk) /\ n.rings \subseteq disk.rings
            /\ shown => n.ops = (disk.ops \ {op}) \cup {a}
            /\ ~shown => n.ops = disk.ops \ {op}
        BY <3>0
      <3>2. a.id = op.id /\ a.act = op.act /\ a.target = op.target /\ a.child = op.child
        BY <1>1, AnsweredOp DEF IsDisk
      <3>3. disk' = n /\ UNCHANGED left
        BY <2>4 DEF Commits
      <3>4. shown <=> \E x \in v.occ : Matches(op.target, x)
        BY <1>3
      <3> HIDE DEF n, a, shown
      <3>5. Aged(now', disk', mem')
        BY <1>1, <2>2, <3>1, <3>3 DEF Aged
      <3>6. \A t \in mem.vol : t.op # op
        BY <1>12, <2>4 DEF Volatile
      <3>7. op \in v.ops
        BY <1>3 DEF Ops
      <3>8. (shown => w.ops = (v.ops \ {op}) \cup {a}) /\ (~shown => w.ops = v.ops \ {op})
        BY <1>3, <1>4, <2>2, <3>1, <3>3, <3>6 DEF Ops
      <3>9. w.kids \subseteq v.kids
        BY <1>3, <1>4, <2>2, <3>1, <3>3 DEF VolatileKids
      <3>10. w.stopped = v.stopped /\ w.now = v.now /\ w.occ = v.occ /\ w.cal = v.cal
             /\ w.known = v.known /\ w.pend = v.pend /\ w.settled = v.settled
        BY <1>3, <1>4, <1>6, <2>4, <3>1, <3>3
      <3>11. Answers(v, w, op, a)
        BY <3>2, <3>4, <3>7, <3>8, <3>9, <3>10 DEF Answers
      <3>12. calm => Calm(v) /\ Answerable(v, op)
        BY <1>2, <1>3, <1>7, <2>4, <3>7
      <3>13. Forms(w) /\ Silent(w, calm)
        BY <1>2, <1>8, <3>11, <3>12, Answering
      <3>14. a \in w.ops => \E x \in v.occ : Matches(op.target, x)
        BY <1>9, <3>2, <3>4, <3>7, <3>8 DEF Numbered
      <3>15. calm => Calm(w) /\ mem'.vol = {}
        <4> SUFFICES ASSUME calm PROVE Calm(w) /\ mem'.vol = {}
          OBVIOUS
        <4>1. Calm(w)
          BY <1>2, <1>8, <1>9, <3>11, <3>12, <3>14, Answered
        <4> QED
          BY <1>2, <2>2, <4>1
      <3>16. Entered(ctl', hist')
        BY <1>6, <2>4 DEF Entered
      <3>17. UNCHANGED left /\ none = {}
        BY <3>3
      <3> HIDE DEF none
      <3> QED
        BY <1>5, <3>5, <3>13, <3>15, <3>16, <3>17, Restopped
    <2>5. ASSUME disk' = disk, hist' = hist, UNCHANGED left \/ Spends(cost)
          PROVE  StopInv'
      <3> DEFINE u == ViewOf(now, disk, mem, ctl', hist)
      <3>1. Forms(u) /\ Silent(u, calm) /\ (calm => Calm(u) /\ mem.vol = {})
        BY DEF StopAt
      <3>2. u.now = now /\ w.now = u.now /\ w.occ = u.occ /\ w.kids = u.kids /\ w.ops = u.ops
            /\ w.cal = u.cal /\ w.known = u.known /\ w.pend = u.pend /\ w.settled = u.settled
            /\ w.stopped = u.stopped
        BY <1>4, <2>2, <2>5 DEF ViewOf, VolatileKids, Ops
      <3> HIDE DEF u
      <3>3. u.now \in Nat /\ w.now \in Nat /\ u.now <= w.now
        BY <3>2
      <3>4. Forms(w) /\ (\A b : Silent(u, b) => Silent(w, b)) /\ (Calm(u) => Calm(w))
        BY <3>1, <3>2, <3>3, Later
      <3>5. Silent(w, calm) /\ (calm => Calm(w) /\ mem'.vol = {})
        BY <2>2, <3>1, <3>4
      <3>6. Aged(now', disk', mem')
        BY <1>1, <2>2, <2>5 DEF Aged
      <3>7. Entered(ctl', hist')
        BY <2>5
      <3>8. CASE UNCHANGED left
        <4>1. UNCHANGED left /\ none = {}
          BY <3>8
        <4> HIDE DEF none
        <4> QED
          BY <1>5, <3>4, <3>5, <3>6, <3>7, <4>1, Restopped
      <3>9. CASE Spends(cost)
        <4> HIDE DEF cost
        <4> QED
          BY <1>5, <3>4, <3>5, <3>6, <3>7, <3>9, Restopped
      <3> QED
        BY <2>5, <3>8, <3>9
    <2> QED
      BY <2>3, <2>4, <2>5 DEF CommitFails
  <1> QED
    BY <1>11, <1>12

\* The controller's fields after those that change together are replaced.
LEMMA CtlFields ==
    ASSUME NEW c, CtlShape(c), NEW pend, NEW res, NEW cal, NEW known, NEW gone
    PROVE  /\ [c EXCEPT !.pend = pend] \in CtlOf(c.cal, c.known, pend, c.res, c.gone)
           /\ [c EXCEPT !.pend = pend, !.res = res, !.cal = cal, !.known = known]
                 \in CtlOf(cal, known, pend, res, c.gone)
           /\ [c EXCEPT !.pend = pend, !.res = res, !.gone = gone]
                 \in CtlOf(c.cal, c.known, pend, res, gone)
  BY DEF CtlShape, CtlOf

\* What a controller given by its fields reads as.
LEMMA CtlRead ==
    ASSUME NEW a, NEW b, NEW p, NEW r, NEW g, NEW c \in CtlOf(a, b, p, r, g)
    PROVE  CtlShape(c) /\ c.cal = a /\ c.known = b /\ c.pend = p /\ c.res = r /\ c.gone = g
  BY DEF CtlShape, CtlOf

\* What an answer of a controller that records nothing makes of a stop.
LEMMA UnrecordedStops ==
    ASSUME NEW h, HistShape(h), NEW op, \A s \in h.stopped : IsStop(s)
    PROVE  LET n == Unrecorded(h, op)
           IN  /\ HistShape(n) /\ n.made = h.made
               /\ \A s \in n.stopped :
                     /\ IsStop(s) /\ (Matches(op.target, s.o) => s.fresh)
                     /\ \E r \in h.stopped : r.o = s.o /\ (r.fresh => s.fresh)
  <1> DEFINE yes == TRUE
             To(s) == IF Matches(s.o, op.target) THEN [s EXCEPT !.fresh = yes] ELSE s
             a == {To(s) : s \in h.stopped}
             n == Unrecorded(h, op)
  <1>1. n = [h EXCEPT !.stopped = a]
    BY SMTT(30) DEF Unrecorded
  <1> HIDE DEF n, a
  <1>2. n \in HistOf(a, h.first, h.made, h.answered, h.lost)
    BY <1>1, HistFields
  <1>3. HistShape(n) /\ n.stopped = a /\ n.made = h.made
    BY <1>2, HistRead
  <1>4. ASSUME NEW s \in a
        PROVE  /\ IsStop(s) /\ (Matches(op.target, s.o) => s.fresh)
               /\ \E r \in h.stopped : r.o = s.o /\ (r.fresh => s.fresh)
    <2>1. PICK r \in h.stopped : s = To(r)
      BY DEF a
    <2>2. CASE ~Matches(r.o, op.target)
      <3>1. s = r
        BY <2>1, <2>2
      <3> QED
        BY <2>2, <3>1 DEF Matches
    <2>3. CASE Matches(r.o, op.target)
      <3>1. s = [r EXCEPT !.fresh = yes]
        BY <2>1, <2>3
      <3> HIDE DEF yes
      <3>2. r \in [o : {r.o}, act : {r.act}, fresh : {r.fresh}] /\ Plain(r.o)
        BY DEF IsStop
      <3>3. s \in [o : {r.o}, act : {r.act}, fresh : {yes}]
        BY <3>1, <3>2
      <3>4. IsStop(s) /\ s.o = r.o /\ s.fresh = yes
        BY <3>2, <3>3 DEF IsStop
      <3> QED
        BY <3>4 DEF yes
    <2> QED
      BY <2>2, <2>3
  <1> QED
    BY <1>3, <1>4, SMTT(30) DEF n

\* Operations go up in order, while all of them are stored.
LEMMA NextUpStored ==
    ASSUME mem.vol = {}, NEW h, NEW v, v = ViewOf(now, disk, mem, ctl, h), NEW op, NextUp(op)
    PROVE  Next1(v, op)
  <1>1. v.ops = disk.ops /\ v.pend = ctl.pend /\ v.settled = Ids(ctl.res)
    BY DEF ViewOf, Ops
  <1> QED
    BY <1>1 DEF Next1, NextUp, Received, Taken, Ids

\* An operation goes up: it is answered once it is settled, enters the journal, or is
\* answered at once if the controller never showed its occurrence.
LEMMA LocalOperationStop ==
    ASSUME Inv, StopInv, NEW op \in Ops(disk, mem), LocalOperation(op)
    PROVE  StopInv'
  <1> DEFINE calm == ~CommitFailed
             v == ViewOf(now, disk, mem, ctl, hist)
             w == ViewOf(now', disk', mem', ctl', hist')
             h == Unrecorded(hist, op)
             id == op.id
             none == {}
  <1>1. /\ now \in Nat /\ boot \in Nat /\ left \in [Events -> Nat] /\ LeftOK
        /\ Known(disk, mem, hist, boot) /\ HistShape(hist) /\ CtlShape(ctl)
        /\ Entered(ctl, hist) /\ Aged(now, disk, mem)
    BY StopFacts
  <1>2. StopAt(now, disk, mem, ctl, hist, calm) /\ calm = ~CommitFailed
    BY StopFacts
  <1>3. Forms(v) /\ Silent(v, calm) /\ (calm => Calm(v) /\ mem.vol = {})
    BY <1>2 DEF StopAt
  <1>4. /\ v.now = now /\ v.occ = disk.occ /\ v.kids = KidsOf(disk) \cup VolatileKids(mem)
        /\ v.ops = Ops(disk, mem) /\ v.cal = ctl.cal /\ v.known = ctl.known
        /\ v.pend = ctl.pend /\ v.settled = Ids(ctl.res) /\ v.stopped = hist.stopped
    <2> HIDE DEF v
    <2> QED
      BY ViewRead DEF v
  <1>5. now' = now /\ op.res = None /\ NextUp(op)
    BY DEF LocalOperation
  <1>6. \A p \in Ops(disk, mem) : p.id = id => p = op
    BY <1>1 DEF Known, Ledger
  <1>7. id \in hist.made
    BY <1>1 DEF Known, Ledger, Ids
  <1>8. v = ViewOf(now, disk, mem, ctl, hist)
    OBVIOUS
  <1> HIDE DEF calm, v, id
  <1>9. calm => Next1(v, op)
    BY <1>3, <1>5, <1>8, NextUpStored
  <1>10. ASSUME NEW r \in ctl.res, r.id = id, ApplyOpResult(id, r.state, hist), UNCHANGED ctl
         PROVE  StopInv'
    <2>1. ASSUME NEW p \in Ops(disk, mem), p.id = id, calm
          PROVE  Answerable(v, p)
      <3>1. p = op
        BY <1>6, <2>1
      <3>2. id \in v.settled
        BY <1>4, <1>10 DEF Ids
      <3>3. p \notin v.pend
        BY <1>3, <2>1, <3>2 DEF Calm, Journaled
      <3> QED
        BY <1>5, <2>1, <3>1, <3>2, <3>3 DEF Answerable
    <2>2. ctl' = ctl /\ CtlShape(ctl') /\ Entered(ctl', hist)
      BY <1>1, <1>10
    <2>3. StopAt(now, disk, mem, ctl', hist, calm)
      BY <1>2, <2>2
    <2>4. v = ViewOf(now, disk, mem, ctl', hist)
      BY <1>8, <2>2
    <2>5. \A p \in Ops(disk, mem) : p.id = id /\ calm =>
             Answerable(ViewOf(now, disk, mem, ctl', hist), p)
      BY <2>1, <2>4
    <2>6. hist.made = hist.made
      OBVIOUS
    <2> DEFINE state == r.state
    <2>7. ApplyOpResult(id, state, hist)
      BY <1>10
    <2> HIDE DEF state
    <2> QED
      BY <1>1, <1>2, <1>5, <2>2, <2>3, <2>5, <2>6, <2>7, AnswerAt
  <1>11. CASE /\ ~Received(op) /\ op.target \in ctl.known
              /\ ctl' = [ctl EXCEPT !.pend = @ \cup {op}]
              /\ UNCHANGED <<disk, mem, lock, hist, left>>
    <2> DEFINE pend == ctl.pend \cup {op}
    <2>1. ctl' = [ctl EXCEPT !.pend = pend]
      BY <1>11
    <2> HIDE DEF pend
    <2>2. ctl' \in CtlOf(ctl.cal, ctl.known, pend, ctl.res, ctl.gone)
      BY <1>1, <2>1, CtlFields
    <2>3. CtlShape(ctl') /\ ctl'.cal = ctl.cal /\ ctl'.known = ctl.known /\ ctl'.pend = pend
          /\ ctl'.res = ctl.res
      BY <2>2, CtlRead
    <2>4. Entered(ctl', hist')
      BY <1>1, <1>7, <1>11, <2>3 DEF Entered, Ids, pend, id
    <2>5. /\ w.now = v.now /\ w.occ = v.occ /\ w.kids = v.kids /\ w.ops = v.ops
          /\ w.cal = v.cal /\ w.known = v.known /\ w.pend = v.pend \cup {op}
          /\ w.settled = v.settled /\ w.stopped = v.stopped
      <3>1. /\ w.now = now' /\ w.occ = disk'.occ /\ w.kids = KidsOf(disk') \cup VolatileKids(mem')
            /\ w.ops = Ops(disk', mem') /\ w.cal = ctl'.cal /\ w.known = ctl'.known
            /\ w.pend = ctl'.pend /\ w.settled = Ids(ctl'.res) /\ w.stopped = hist'.stopped
        BY DEF ViewOf
      <3>2. /\ disk' = disk /\ mem' = mem /\ hist' = hist
        BY <1>11
      <3>3. Ops(disk', mem') = Ops(disk, mem) /\ KidsOf(disk') = KidsOf(disk)
            /\ VolatileKids(mem') = VolatileKids(mem)
        BY <3>2 DEF Ops, KidsOf, VolatileKids
      <3> HIDE DEF w
      <3> QED
        BY <1>4, <1>5, <2>3, <3>1, <3>2, <3>3 DEF pend
    <2>6. w = ViewOf(now', disk', mem', ctl', hist')
      OBVIOUS
    <2> HIDE DEF w
    <2>7. Forms(w)
      BY <1>3, <1>4, <2>5 DEF Forms
    <2>8. Silent(w, calm)
      BY <1>3, <2>5 DEF Silent, Blocks
    <2>9. calm => Calm(w) /\ mem'.vol = {}
      <3> SUFFICES ASSUME calm PROVE Calm(w) /\ mem'.vol = {}
        OBVIOUS
      <3>1. ~Taken(v, op)
        BY <1>4, <1>11 DEF Received, Taken, Ids
      <3>2. op \in v.ops /\ op.target \in v.known
        BY <1>4, <1>11
      <3>3. Enters(v, w, op)
        BY <1>5, <1>9, <2>5, <3>1, <3>2 DEF Enters
      <3>4. \A p \in v.ops : p.id \in Nat
        BY <1>1, <1>3, <1>4 DEF Known, IsDisk, IsOp, Ops
      <3>5. Calm(w)
        BY <1>3, <3>3, <3>4, Entering
      <3> QED
        BY <1>3, <1>11, <3>5
    <2>10. UNCHANGED left /\ none = {} /\ Aged(now', disk', mem')
      BY <1>1, <1>5, <1>11
    <2> HIDE DEF none
    <2> QED
      BY <1>1, <1>2, <2>3, <2>4, <2>6, <2>7, <2>8, <2>9, <2>10, Restopped
  <1>12. ASSUME ~Received(op), NEW state, ApplyOpResult(id, state, h),
                ctl' = [ctl EXCEPT !.gone = @ \cup op.child]
         PROVE  StopInv'
    <2> DEFINE g == ctl.gone \cup op.child
               u == ViewOf(now, disk, mem, ctl', h)
               x == ViewOf(now, disk, mem, ctl', hist)
    <2>1. ctl' = [ctl EXCEPT !.gone = g]
      BY <1>12
    <2>2. SameCtl(ctl, ctl')
      <3> HIDE DEF g
      <3> QED
        BY <1>1, <2>1, CtlGone
    <2>3. \A s \in hist.stopped : IsStop(s)
      BY <1>3, <1>4 DEF Forms
    <2>4. /\ HistShape(h) /\ h.made = hist.made
          /\ \A s \in h.stopped :
                /\ IsStop(s) /\ (Matches(op.target, s.o) => s.fresh)
                /\ \E r \in hist.stopped : r.o = s.o /\ (r.fresh => s.fresh)
      BY <1>1, <2>3, UnrecordedStops
    <2>5. CtlShape(ctl') /\ Entered(ctl', hist)
      BY <1>1, <2>2 DEF SameCtl, Entered
    <2> HIDE DEF h
    <2>6. /\ u.now = v.now /\ u.occ = v.occ /\ u.kids = v.kids /\ u.ops = v.ops /\ u.cal = v.cal
          /\ u.known = v.known /\ u.pend = v.pend /\ u.settled = v.settled
          /\ u.stopped = h.stopped
      BY <1>4, <2>2 DEF ViewOf, SameCtl
    <2>7. x = v
      BY <1>8, <2>2 DEF ViewOf, SameCtl
    <2>8. StopAt(now, disk, mem, ctl', hist, calm)
      <3>1. Forms(x) /\ Silent(x, calm) /\ (calm => Calm(x) /\ mem.vol = {})
        BY <1>3, <2>7
      <3> QED
        BY <1>1, <3>1 DEF StopAt
    <2> HIDE DEF u, x
    <2>9. Forms(u) /\ (\A b : Silent(v, b) => Silent(u, b)) /\ (Calm(v) => Calm(u))
      BY <1>3, <1>4, <2>4, <2>6, Refreshed
    <2>10. Silent(u, calm) /\ (calm => Calm(u) /\ mem.vol = {})
      BY <1>3, <2>9
    <2>11. StopAt(now, disk, mem, ctl', h, calm)
      BY <1>1, <2>9, <2>10 DEF StopAt, u
    <2>12. ASSUME NEW p \in Ops(disk, mem), p.id = id, calm
           PROVE  Answerable(u, p)
      <3>1. p = op
        BY <1>6, <2>12
      <3>2. op \notin u.pend
        BY <1>4, <1>12, <2>6 DEF Received
      <3>3. Next1(u, op)
        BY <1>9, <2>6, <2>12 DEF Next1, Taken
      <3>4. \A s \in u.stopped : Matches(op.target, s.o) => s.fresh
        BY <2>4, <2>6
      <3> QED
        BY <1>5, <3>1, <3>2, <3>3, <3>4 DEF Answerable
    <2>13. \A p \in Ops(disk, mem) : p.id = id /\ calm =>
              Answerable(ViewOf(now, disk, mem, ctl', h), p)
      BY <2>12 DEF u
    <2> QED
      BY <1>1, <1>2, <1>5, <1>12, <2>4, <2>5, <2>8, <2>11, <2>13, AnswerAt
  <1>13. \/ \E r \in ctl.res : r.id = id /\ ApplyOpResult(id, r.state, hist) /\ UNCHANGED ctl
         \/ /\ ~Received(op) /\ op.target \in ctl.known
            /\ ctl' = [ctl EXCEPT !.pend = @ \cup {op}]
            /\ UNCHANGED <<disk, mem, lock, hist, left>>
         \/ /\ ~Received(op) /\ ctl' = [ctl EXCEPT !.gone = @ \cup op.child]
            /\ \E state : ApplyOpResult(id, state, h)
    BY DEF LocalOperation, id
  <1> HIDE DEF h
  <1> QED
    BY <1>10, <1>11, <1>12, <1>13

\* The calendar's key of a child is a child's.
LEMMA FormattedChild ==
    ASSUME NEW p, IsOcc(p), NEW c, MadeFrom(c, p), Child(c), NEW x \in Formatted(c)
    PROVE  Plain(x) /\ IsChild(x) /\ MadeFrom(x, Parent(x)) /\ Matches(x, c)
  <1>1. PICK y \in Reformats : x = [c EXCEPT !.copy = y]
    BY DEF Formatted
  <1>2. x \in [sched : {c.sched}, due : {c.due}, copy : {y}]
    BY <1>1 DEF Child, Own, IsOcc
  <1>3. IsOcc(x) /\ x.sched = c.sched /\ x.due = c.due
    BY <1>2 DEF IsOcc
  <1>4. IsChild(x) /\ Plain(x) /\ Matches(x, c) /\ MadeFrom(x, p)
    BY <1>3 DEF Child, IsChild, Plain, Matches, MadeFrom
  <1>5. Parent(x) = p
    BY <1>4, ParentOf
  <1> QED
    BY <1>4, <1>5

\* What the applier makes of the calendar and the journal: its target leaves, and a
\* child is shown under one key.
Settles(c, e, op, state, new) ==
    /\ \A x \in new :
          Plain(x) /\ (IsChild(x) => MadeFrom(x, Parent(x))) /\ \E k \in op.child : Matches(x, k)
    /\ \A x, y \in new : x = y
    /\ state = "rejected" => new = {}
    /\ CtlShape(e) /\ e.pend = c.pend \ {op}
    /\ e.res = c.res \cup {[id |-> op.id, state |-> state]}
    /\ e.known = c.known \cup new /\ e.cal \subseteq c.cal \cup new
    /\ new # {} => op.target \notin e.cal \ new

\* It does so, or retracts the child of what it refuses.
LEMMA SettledCtl ==
    ASSUME CtlShape(ctl), NEW op, Acts(op), NEW state, Settled(op, state)
    PROVE  \E new : Settles(ctl, ctl', op, state, new)
  <1> DEFINE pend == ctl.pend \ {op}
             res == ctl.res \cup {[id |-> op.id, state |-> state]}
             Choices == IF op.child = {} THEN {{}}
                        ELSE {{c} : c \in UNION {Formatted(x) : x \in op.child}}
             Applied(new) == [ctl EXCEPT
               !.pend = @ \ {op}, !.res = @ \cup {[id |-> op.id, state |-> state]},
               !.cal = (@ \ {op.target}) \cup new, !.known = @ \cup new]
             Refusal == [ctl EXCEPT
               !.pend = @ \ {op}, !.res = @ \cup {[id |-> op.id, state |-> state]},
               !.gone = @ \cup op.child]
  <1>1. ASSUME NEW new \in Choices, ctl' = Applied(new), state = "applied"
        PROVE  Settles(ctl, ctl', op, state, new)
    <2> DEFINE cal == (ctl.cal \ {op.target}) \cup new
               known == ctl.known \cup new
    <2>1. ctl' = [ctl EXCEPT !.pend = pend, !.res = res, !.cal = cal, !.known = known]
      BY <1>1
    <2>2. (\A x \in new : \E c \in op.child : x \in Formatted(c)) /\ \A x, y \in new : x = y
      BY <1>1
    <2> HIDE DEF cal, known, pend, res, Choices
    <2>3. ctl' \in CtlOf(cal, known, pend, res, ctl.gone)
      BY <2>1, CtlFields
    <2>4. CtlShape(ctl') /\ ctl'.cal = cal /\ ctl'.known = known /\ ctl'.pend = pend
          /\ ctl'.res = res
      BY <2>3, CtlRead
    <2>5. ASSUME NEW x \in new
          PROVE  Plain(x) /\ (IsChild(x) => MadeFrom(x, Parent(x)))
                 /\ \E c \in op.child : Matches(x, c)
      <3> DEFINE p == op.target
      <3>1. PICK c \in op.child : x \in Formatted(c)
        BY <2>2
      <3>2. IsOcc(p) /\ MadeFrom(c, p) /\ Child(c)
        BY DEF Acts, Plain
      <3> HIDE DEF p
      <3>3. Plain(x) /\ IsChild(x) /\ MadeFrom(x, Parent(x)) /\ Matches(x, c)
        BY <3>1, <3>2, FormattedChild
      <3> QED
        BY <3>3
    <2> QED
      BY <1>1, <2>2, <2>4, <2>5 DEF Settles, cal, known, pend, res
  <1>2. ASSUME ctl' = Refusal
        PROVE  Settles(ctl, ctl', op, state, {})
    <2> DEFINE gone == ctl.gone \cup op.child
    <2>1. ctl' = [ctl EXCEPT !.pend = pend, !.res = res, !.gone = gone]
      BY <1>2
    <2> HIDE DEF gone, pend, res
    <2>2. ctl' \in CtlOf(ctl.cal, ctl.known, pend, res, gone)
      BY <2>1, CtlFields
    <2>3. CtlShape(ctl') /\ ctl'.pend = pend /\ ctl'.res = res
          /\ ctl'.known = ctl.known /\ ctl'.cal = ctl.cal
      BY <2>2, CtlRead
    <2> QED
      BY <2>3 DEF Settles, pend, res
  <1>3. (state = "applied" /\ \E new \in Choices : ctl' = Applied(new)) \/ ctl' = Refusal
    BY DEF Settled
  <1> HIDE DEF Choices, Applied, Refusal
  <1> QED
    BY <1>1, <1>2, <1>3

\* What stops rely on holds of the controller that has settled an operation.
LEMMA SettledAt ==
    ASSUME Inv, StopInv, NEW op \in ctl.pend, NEW state, Settled(op, state)
    PROVE  StopAt(now, disk, mem, ctl', hist, ~CommitFailed)
  <1> DEFINE calm == ~CommitFailed
             v == ViewOf(now, disk, mem, ctl, hist)
             u == ViewOf(now, disk, mem, ctl', hist)
             pend == ctl.pend \ {op}
             res == ctl.res \cup {[id |-> op.id, state |-> state]}
             id == op.id
  <1>1. /\ now \in Nat /\ boot \in Nat /\ left \in [Events -> Nat] /\ LeftOK
        /\ Known(disk, mem, hist, boot) /\ HistShape(hist) /\ CtlShape(ctl)
        /\ Entered(ctl, hist) /\ Aged(now, disk, mem)
    BY StopFacts
  <1>2. StopAt(now, disk, mem, ctl, hist, calm) /\ calm = ~CommitFailed
    BY StopFacts
  <1>3. Forms(v) /\ Silent(v, calm) /\ (calm => Calm(v) /\ mem.vol = {})
    BY <1>2 DEF StopAt
  <1>4. /\ v.now = now /\ v.occ = disk.occ /\ v.kids = KidsOf(disk) \cup VolatileKids(mem)
        /\ v.ops = Ops(disk, mem) /\ v.cal = ctl.cal /\ v.known = ctl.known
        /\ v.pend = ctl.pend /\ v.settled = Ids(ctl.res) /\ v.stopped = hist.stopped
    <2> HIDE DEF v
    <2> QED
      BY ViewRead DEF v
  <1>5. /\ u.now = now /\ u.occ = disk.occ /\ u.kids = KidsOf(disk) \cup VolatileKids(mem)
        /\ u.ops = Ops(disk, mem) /\ u.cal = ctl'.cal /\ u.known = ctl'.known
        /\ u.pend = ctl'.pend /\ u.settled = Ids(ctl'.res) /\ u.stopped = hist.stopped
    BY DEF ViewOf
  <1>6. u = ViewOf(now, disk, mem, ctl', hist) /\ now' = now
    BY DEF Settled
  <1>7. Acts(op)
    <2> HIDE DEF v
    <2> QED
      BY <1>3, <1>4 DEF Forms
  <1> HIDE DEF calm, v, u, pend, res
  <1>20. PICK shown : Settles(ctl, ctl', op, state, shown)
    BY <1>1, <1>7, SettledCtl
  <1>8. /\ \A x \in shown :
              Plain(x) /\ (IsChild(x) => MadeFrom(x, Parent(x)))
              /\ \E c \in op.child : Matches(x, c)
        /\ CtlShape(ctl') /\ ctl'.pend = pend /\ ctl'.res = res
        /\ ctl'.known = ctl.known \cup shown /\ ctl'.cal \subseteq ctl.cal \cup shown
        /\ shown # {} => op.target \notin ctl'.cal \ shown
    BY <1>20 DEF Settles, pend, res
  <1>9. Ids(res) = Ids(ctl.res) \cup {id}
    <2> DEFINE r == [id |-> op.id, state |-> state]
    <2>1. r.id = id /\ res = ctl.res \cup {r}
      BY DEF res
    <2> HIDE DEF r, id
    <2> QED
      BY <2>1 DEF Ids
  <1>10. Settling(v, u, op, shown)
    BY <1>4, <1>5, <1>8, <1>9 DEF Settling, pend
  <1>11. Forms(u) /\ (\A b : Silent(v, b) => Silent(u, b)) /\ (Calm(v) /\ Numbered(v) => Calm(u))
    BY <1>3, <1>10, Settlement
  <1>12. Numbered(v)
    BY <1>1, <1>4 DEF Numbered, Known, Ledger
  <1>13. Silent(u, calm) /\ (calm => Calm(u) /\ mem.vol = {})
    BY <1>3, <1>11, <1>12
  <1> QED
    BY <1>1, <1>11, <1>13 DEF StopAt, u, calm

\* The applier settles an operation, and the answer arrives, is lost, or is a
\* refusal that goes up with the next session.
LEMMA SettledStop ==
    ASSUME Inv, StopInv, NEW op \in ctl.pend, NEW state, Settled(op, state)
    PROVE  StopInv'
  <1> DEFINE calm == ~CommitFailed
             v == ViewOf(now, disk, mem, ctl, hist)
             u == ViewOf(now, disk, mem, ctl', hist)
             pend == ctl.pend \ {op}
             res == ctl.res \cup {[id |-> op.id, state |-> state]}
             lost == {"lost"}
             refused == {"reject"}
             id == op.id
  <1>1. /\ now \in Nat /\ boot \in Nat /\ left \in [Events -> Nat] /\ LeftOK
        /\ Known(disk, mem, hist, boot) /\ HistShape(hist) /\ CtlShape(ctl)
        /\ Entered(ctl, hist) /\ Aged(now, disk, mem)
    BY StopFacts
  <1>2. StopAt(now, disk, mem, ctl, hist, calm) /\ calm = ~CommitFailed
    BY StopFacts
  <1>3. Forms(v) /\ Silent(v, calm) /\ (calm => Calm(v) /\ mem.vol = {})
    BY <1>2 DEF StopAt
  <1>4. /\ v.now = now /\ v.occ = disk.occ /\ v.kids = KidsOf(disk) \cup VolatileKids(mem)
        /\ v.ops = Ops(disk, mem) /\ v.cal = ctl.cal /\ v.known = ctl.known
        /\ v.pend = ctl.pend /\ v.settled = Ids(ctl.res) /\ v.stopped = hist.stopped
    <2> HIDE DEF v
    <2> QED
      BY ViewRead DEF v
  <1>5. /\ u.now = now /\ u.occ = disk.occ /\ u.kids = KidsOf(disk) \cup VolatileKids(mem)
        /\ u.ops = Ops(disk, mem) /\ u.cal = ctl'.cal /\ u.known = ctl'.known
        /\ u.pend = ctl'.pend /\ u.settled = Ids(ctl'.res) /\ u.stopped = hist.stopped
    BY DEF ViewOf
  <1>6. u = ViewOf(now, disk, mem, ctl', hist) /\ now' = now
    BY DEF Settled
  <1>7. Acts(op)
    <2> HIDE DEF v
    <2> QED
      BY <1>3, <1>4 DEF Forms
  <1> HIDE DEF calm, v, u, pend, res
  <1>20. PICK shown : Settles(ctl, ctl', op, state, shown)
    BY <1>1, <1>7, SettledCtl
  <1>8. /\ \A x \in shown :
              Plain(x) /\ (IsChild(x) => MadeFrom(x, Parent(x)))
              /\ \E c \in op.child : Matches(x, c)
        /\ CtlShape(ctl') /\ ctl'.pend = pend /\ ctl'.res = res
        /\ ctl'.known = ctl.known \cup shown /\ ctl'.cal \subseteq ctl.cal \cup shown
        /\ shown # {} => op.target \notin ctl'.cal \ shown
    BY <1>20 DEF Settles, pend, res
  <1>9. Ids(res) = Ids(ctl.res) \cup {id}
    <2> DEFINE r == [id |-> op.id, state |-> state]
    <2>1. r.id = id /\ res = ctl.res \cup {r}
      BY DEF res
    <2> HIDE DEF r, id
    <2> QED
      BY <2>1 DEF Ids
  <1>14. StopAt(now, disk, mem, ctl', hist, calm)
    BY SettledAt DEF calm
  <1>12. Numbered(v)
    BY <1>1, <1>4 DEF Numbered, Known, Ledger
  <1>13. Forms(u) /\ Silent(u, calm) /\ (calm => Calm(u) /\ mem.vol = {})
    BY <1>14 DEF StopAt, u
  <1>15. Entered(ctl', hist)
    <2>1. id \in Ids(ctl.pend) /\ Ids(pend) \subseteq Ids(ctl.pend)
      BY DEF Ids, pend
    <2> QED
      BY <1>1, <1>8, <1>9, <2>1 DEF Entered
  <1>16. ASSUME ApplyOpResult(id, state, hist)
         PROVE  StopInv'
    <2>1. ASSUME NEW p \in Ops(disk, mem), p.id = id, calm
          PROVE  Answerable(u, p)
      <3>1. op \in v.ops /\ op.res = None
        BY <1>3, <1>4, <2>1 DEF Calm, Journaled
      <3>2. p = op
        BY <1>4, <1>12, <2>1, <3>1 DEF Numbered
      <3>3. op.id \in u.settled /\ op \notin u.pend
        BY <1>5, <1>8, <1>9 DEF pend
      <3> QED
        BY <3>1, <3>2, <3>3 DEF Answerable
    <2>2. \A p \in Ops(disk, mem) : p.id = id /\ calm =>
             Answerable(ViewOf(now, disk, mem, ctl', hist), p)
      BY <2>1 DEF u
    <2>3. hist.made = hist.made
      OBVIOUS
    <2> HIDE DEF id
    <2> QED
      BY <1>1, <1>2, <1>6, <1>8, <1>14, <1>15, <1>16, <2>2, <2>3, AnswerAt
  <1>17. ASSUME NEW cost, Spends(cost), "commit" \notin cost, UNCHANGED <<disk, mem, lock, hist>>
         PROVE  StopInv'
    <2>1. u = ViewOf(now', disk', mem', ctl', hist')
      BY <1>6, <1>17 DEF u
    <2>2. Aged(now', disk', mem') /\ Entered(ctl', hist') /\ mem' = mem
      BY <1>1, <1>6, <1>15, <1>17
    <2> QED
      BY <1>1, <1>2, <1>8, <1>13, <1>17, <2>1, <2>2, Restopped
  <1>18. \/ ApplyOpResult(id, state, hist)
         \/ Spends(lost) /\ UNCHANGED <<disk, mem, lock, hist>>
         \/ Spends(refused) /\ UNCHANGED <<disk, mem, lock, hist>>
    BY DEF Settled
  <1>19. "commit" \notin lost /\ "commit" \notin refused
    OBVIOUS
  <1> HIDE DEF lost, refused
  <1> QED
    BY <1>16, <1>17, <1>18, <1>19

----------------------------------------------------------------------------

\* At first nothing is held and nothing was stopped.
LEMMA InitStop == Init => StopInv
  <1> SUFFICES ASSUME Init PROVE StopInv
    OBVIOUS
  <1> DEFINE v == ViewOf(now, disk, mem, ctl, hist)
             all == {Alarm(a) : a \in Alarms}
             none == {}
             calm == ~CommitFailed
  <1>1. /\ disk.occ = none /\ disk.ops = none /\ disk.kids = none /\ disk.rings = none
        /\ mem.active = None /\ mem.timers = none /\ mem.vol = none /\ now = 0
        /\ ctl = [cal |-> all, known |-> all, pend |-> none, res |-> none, gone |-> none]
        /\ hist.stopped = none /\ hist.made = none
    BY DEF Init, NewMem
  <1> HIDE DEF none, all
  <1>2. ctl \in CtlOf(all, all, none, none, none)
    BY <1>1 DEF CtlOf
  <1>3. CtlShape(ctl) /\ ctl.cal = all /\ ctl.known = all /\ ctl.pend = none /\ ctl.res = none
    BY <1>2, CtlRead
  <1>4. KidsOf(disk) = {} /\ VolatileKids(mem) = {} /\ Ops(disk, mem) = {} /\ Ids(ctl.res) = {}
        /\ Ids(ctl.pend) = {}
    BY <1>1, <1>3 DEF KidsOf, VolatileKids, Ops, Ids, none
  <1>5. /\ v.now = 0 /\ v.occ = {} /\ v.kids = {} /\ v.ops = {} /\ v.cal = all /\ v.known = all
        /\ v.pend = {} /\ v.settled = {} /\ v.stopped = {}
    BY <1>1, <1>3, <1>4 DEF ViewOf, none
  <1>6. \A x \in all : Plain(x) /\ ~IsChild(x)
    <2> SUFFICES ASSUME NEW a \in Alarms, NEW x, x = Alarm(a) PROVE Plain(x) /\ ~IsChild(x)
      BY DEF all
    <2> DEFINE no == FALSE
               s == <<a>>
               d == Due[a]
    <2>1. x = [sched |-> s, due |-> d, copy |-> no] /\ d \in Nat /\ Len(s) = 1
      BY DueAssumption DEF Alarm
    <2> HIDE DEF no, s, d
    <2>2. x.sched = s /\ x.due = d /\ x.copy = no /\ IsOcc(x)
      BY <2>1 DEF IsOcc
    <2>3. ~IsChild(x)
      BY <2>1, <2>2 DEF IsChild
    <2> QED
      BY <2>1, <2>2, <2>3 DEF Plain, no
  <1> HIDE DEF v
  <1>7. Forms(v) /\ Silent(v, calm)
    BY <1>5, <1>6 DEF Forms, Silent
  <1>8. Calm(v)
    <2>1. Recorded(v) /\ Learned(v) /\ Exclusive(v) /\ SnoozedDue(v) /\ Journaled(v)
      BY <1>5 DEF Recorded, Learned, Exclusive, SnoozedDue, Journaled
    <2>2. Unborn(v) /\ Replaced(v) /\ Retired(v) /\ Remade(v)
      BY <1>5, <1>6 DEF Unborn, Replaced, Retired, Remade
    <2> QED
      BY <2>1, <2>2 DEF Calm
  <1>9. Aged(now, disk, mem)
    BY <1>1 DEF Aged, none
  <1>10. StopAt(now, disk, mem, ctl, hist, calm)
    BY <1>1, <1>7, <1>8, <1>9 DEF StopAt, v, none
  <1>11. LeftOK
    BY BudgetAssumption DEF Init, LeftOK, Events
  <1>12. Entered(ctl, hist)
    BY <1>4 DEF Entered
  <1> QED
    BY <1>3, <1>10, <1>11, <1>12 DEF StopInv, calm

\* Every step of the specification keeps it.
LEMMA NextStop == Inv /\ StopInv /\ [Next]_vars => StopInv'
  <1> SUFFICES ASSUME Inv, StopInv, [Next]_vars PROVE StopInv'
    OBVIOUS
  <1>1. CASE UNCHANGED vars
    <2>1. now \in Nat /\ Aged(now, disk, mem)
      BY StopFacts
    <2>2. UNCHANGED <<now, disk, mem, ctl, hist, left>>
      BY <1>1 DEF vars
    <2>3. Aged(now', disk', mem') /\ now' \in Nat /\ now <= now'
      BY <2>1, <2>2
    <2> QED
      BY <2>2, <2>3, QuietFree
  <1>2. CASE Poll
    BY <1>2, PollBeginStop, PollExpireStop, PollStartStop, PollEndStop DEF Poll
  <1>3. CASE Tick
    BY <1>3, TickStop
  <1>4. CASE \E o \in Held(disk, mem) : Act("dismiss", o) \/ Act("snooze", o)
    BY <1>4, ActStop
  <1>5. CASE TimerRing \/ StopTimer \/ ClockReply \/ Crash \/ Start
    BY <1>5, TimerRingStop, StopTimerStop, ClockReplyStop, CrashStop, StartStop
  <1>6. CASE ApplyDelta \/ ApplySnapshot
    BY <1>6, ApplyDeltaStop, ApplySnapshotStop
  <1>7. CASE \E op \in Ops(disk, mem) : LocalOperation(op)
    BY <1>7, LocalOperationStop
  <1>8. CASE \E op \in ctl.pend, state \in {"applied", "rejected"} : Settled(op, state)
    BY <1>8, SettledStop
  <1> QED
    BY <1>1, <1>2, <1>3, <1>4, <1>5, <1>6, <1>7, <1>8 DEF Next

\* What was stopped stays in the way of a ring: an operation blocks it, or it has
\* left the cache, until the controller delivers it anew.
THEOREM Blocking == Spec => []StopInv
  <1>1. Init => Inv /\ StopInv
    BY InitInv, InitStop
  <1>2. (Inv /\ StopInv) /\ [Next]_vars => (Inv /\ StopInv)'
    BY NextInv, NextStop
  <1> QED
    BY <1>1, <1>2, PTL DEF Spec

\* An alarm that was stopped does not sound again, whatever is delivered, answered,
\* replayed or retried, before the controller has answered the stop and delivers it
\* anew; a snooze child does not either unless a write has failed.
THEOREM Stopped == Spec => []StopHolds
  <1>1. Inv /\ StopInv => StopHolds
    <2> SUFFICES ASSUME Inv, StopInv, Clean, Rings, NEW s \in hist.stopped,
                        Matches(s.o, mem.active.o)
                 PROVE  s.fresh \/ (IsChild(s.o) /\ CommitFailed)
      BY DEF StopHolds
    <2> DEFINE calm == ~CommitFailed
               v == ViewOf(now, disk, mem, ctl, hist)
               o == mem.active.o
    <2>1. o \in Held(disk, mem) /\ Executable(disk, mem, o)
      BY DEF Inv, ActiveInv, ActiveOK, Clean, Rings
    <2>2. Silent(v, calm)
      BY DEF StopInv, StopAt
    <2>3. /\ v.occ = disk.occ /\ v.kids = KidsOf(disk) \cup VolatileKids(mem)
          /\ v.ops = Ops(disk, mem) /\ v.stopped = hist.stopped
      BY DEF ViewOf
    <2> HIDE DEF v
    <2>4. o \in v.occ \cup v.kids /\ Matches(o, s.o)
      BY <2>1, <2>3 DEF Held, Matches
    <2>5. ~Blocks(v, s.o)
      BY <2>1, <2>3 DEF Blocks, Executable, Matches
    <2> QED
      BY <2>2, <2>3, <2>4, <2>5 DEF Silent
  <1> QED
    BY <1>1, Invariance, Blocking, PTL

----------------------------------------------------------------------------
(* Rings are not renewed.  What the limit of a ring depends on.              *)

RingsOf(n, d, m, c, h) ==
    [now |-> n, occ |-> d.occ, kids |-> KidsOf(d), ops |-> Ops(d, m), known |-> c.known,
     res |-> c.res, rings |-> d.rings, timers |-> m.timers,
     sounds |-> {a \in {m.active} : a # None /\ ~a.timer}, first |-> h.first]

Cached(v) == v.occ \cup v.kids
HasRing(v, o) == \E r \in v.rings : r.o = o

\* A child that neither the controller nor an operation can bring back.
Stray(v, o) ==
    /\ ~Shown(v, o)
    /\ \A op \in v.ops : op.res = None => \A c \in op.child : ~Matches(c, o)

\* First rings whose limit holds: of an alarm, or while no write has failed.
Counts(f, calm) == calm \/ ~IsChild(f.o)

Limits(v) ==
    /\ \A t \in v.timers : IsChild(t)
    /\ \A r \in v.rings : /\ r.deadline \in Nat /\ r.deadline <= v.now + MaxRingMs
                          /\ r.utc \in Nat /\ r.utc <= v.now + MaxRingMs

Dated(v, f) == Plain(f.o) /\ f.at \in Nat /\ f.o.due <= f.at /\ f.at <= v.now

\* What rang first is cached still, or can never be again, and has its ring
\* record unless the record was not written and it has rung since.
Followed(v, f, calm) ==
    /\ ~Blocks(v, f.o)
    /\ ~IsChild(f.o) => f.o \in v.occ
    /\ calm /\ IsChild(f.o) => (\E o \in Cached(v) : Matches(o, f.o)) \/ Stray(v, f.o)
    /\ Counts(f, calm) => \A o \in Cached(v) : Matches(o, f.o) =>
                             HasRing(v, o) \/ (~f.kept /\ \E a \in v.sounds : a.o = o)

\* No record of it, and no ring, ends later than its limit.
Within(v, f) ==
    /\ \A r \in v.rings : Matches(r.o, f.o) =>
          r.deadline <= f.at + MaxRingMs /\ r.utc <= f.at + MaxRingMs
    /\ \A a \in v.sounds : Matches(a.o, f.o) => a.deadline <= f.at + MaxRingMs

\* The controller knows a child under one key, and none that it refused.
Unique(v) == \A x, y \in v.known : Matches(x, y) => x = y
Refused(v) ==
    \A op \in v.ops, r \in v.res :
        r.id = op.id /\ r.state = "rejected" => \A c \in op.child : ~Shown(v, c)

RingAt(v, calm) ==
    /\ Limits(v)
    /\ \A f \in v.first : /\ Dated(v, f) /\ (calm => f.kept) /\ Followed(v, f, calm)
                          /\ Counts(f, calm) => Within(v, f)
    /\ calm => Unique(v) /\ Refused(v)

RingInv == RingAt(RingsOf(now, disk, mem, ctl, hist), ~CommitFailed)

\* What it reads as.
LEMMA RingsRead ==
    ASSUME NEW n, NEW d, NEW m, NEW c, NEW h, NEW v, v = RingsOf(n, d, m, c, h)
    PROVE  /\ v.now = n /\ v.occ = d.occ /\ v.kids = KidsOf(d) /\ v.ops = Ops(d, m)
           /\ v.known = c.known /\ v.res = c.res /\ v.rings = d.rings
           /\ v.timers = m.timers /\ v.first = h.first
           /\ \A a : a \in v.sounds <=> a = m.active /\ a # None /\ ~a.timer
  BY DEF RingsOf

\* A step that starts no ring: what is left of the first rings is followed still.
LEMMA RingKept ==
    ASSUME NEW v, NEW w, NEW calm, RingAt(v, calm), NEW calm2, calm2 => calm,
           v.now \in Nat, w.now \in Nat, v.now <= w.now, w.first \subseteq v.first,
           \A t \in w.timers : IsChild(t), Carries(w.rings, v.rings),
           \A a \in w.sounds : \E b \in v.sounds : Matches(a.o, b.o) /\ a.deadline = b.deadline,
           \A f \in w.first : Followed(w, f, calm2),
           calm2 => Unique(w) /\ Refused(w)
    PROVE  RingAt(w, calm2)
  <1>1. Limits(w)
    <2> SUFFICES ASSUME NEW r \in w.rings
                 PROVE  /\ r.deadline \in Nat /\ r.deadline <= w.now + MaxRingMs
                        /\ r.utc \in Nat /\ r.utc <= w.now + MaxRingMs
      BY DEF Limits
    <2>1. PICK q \in v.rings : r.deadline = q.deadline /\ r.utc = q.utc
      BY DEF Carries, Carried
    <2>2. /\ q.deadline \in Nat /\ q.deadline <= v.now + MaxRingMs
          /\ q.utc \in Nat /\ q.utc <= v.now + MaxRingMs
      BY DEF RingAt, Limits
    <2> QED
      BY <2>1, <2>2, TimeAssumption
  <1>2. ASSUME NEW f \in w.first
        PROVE  /\ Dated(w, f) /\ (calm2 => f.kept) /\ Followed(w, f, calm2)
               /\ Counts(f, calm2) => Within(w, f)
    <2>1. Dated(v, f) /\ (calm => f.kept) /\ (Counts(f, calm) => Within(v, f))
      BY DEF RingAt
    <2>2. Dated(w, f)
      BY <2>1 DEF Dated
    <2>3. ASSUME Counts(f, calm2) PROVE Within(w, f)
      <3>1. Within(v, f)
        BY <2>1, <2>3 DEF Counts
      <3>2. ASSUME NEW r \in w.rings, Matches(r.o, f.o)
            PROVE  r.deadline <= f.at + MaxRingMs /\ r.utc <= f.at + MaxRingMs
        <4>1. PICK q \in v.rings : Carried(r, q)
          BY DEF Carries
        <4> QED
          BY <3>1, <3>2, <4>1 DEF Within, Carried, Matches
      <3>3. ASSUME NEW a \in w.sounds, Matches(a.o, f.o)
            PROVE  a.deadline <= f.at + MaxRingMs
        <4>1. PICK b \in v.sounds : Matches(a.o, b.o) /\ a.deadline = b.deadline
          OBVIOUS
        <4> QED
          BY <3>1, <3>3, <4>1 DEF Within, Matches
      <3> QED
        BY <3>2, <3>3 DEF Within
    <2> QED
      BY <2>1, <2>2, <2>3
  <1> QED
    BY <1>1, <1>2 DEF RingAt

\* A step that leaves the cache alone, but for children once a write has failed.
LEMMA RingStays ==
    ASSUME NEW v, NEW w, NEW calm, RingAt(v, calm), NEW calm2, calm2 => calm,
           v.now \in Nat, w.now \in Nat, v.now <= w.now, w.first \subseteq v.first,
           \A t \in w.timers : IsChild(t),
           w.occ = v.occ, \A k \in w.kids : IsChild(k), calm2 => w.kids = v.kids,
           w.rings \subseteq v.rings, \A r \in v.rings : r \in w.rings \/ Blocks(v, r.o),
           \A op \in w.ops : \E p \in v.ops : op.target = p.target /\ (calm2 => op = p),
           w.known = v.known, w.res = v.res,
           \A a \in w.sounds : \E b \in v.sounds : Matches(a.o, b.o) /\ a.deadline = b.deadline,
           \A f \in w.first, a \in v.sounds :
              Counts(f, calm2) /\ ~f.kept /\ a.o \in Cached(v) /\ Matches(a.o, f.o) =>
                 \E b \in w.sounds : b.o = a.o
    PROVE  RingAt(w, calm2)
  <1>1. Carries(w.rings, v.rings)
    BY DEF Carries, Carried, Matches
  <1>2. \A o : (Blocks(w, o) => Blocks(v, o)) /\ (Shown(w, o) <=> Shown(v, o))
    BY DEF Blocks, Shown
  <1>3. ASSUME NEW f \in w.first PROVE Followed(w, f, calm2)
    <2>1. Followed(v, f, calm) /\ Dated(v, f)
      BY DEF RingAt
    <2>2. ASSUME calm2, IsChild(f.o)
          PROVE  (\E o \in Cached(w) : Matches(o, f.o)) \/ Stray(w, f.o)
      <3>1. CASE \E o \in Cached(v) : Matches(o, f.o)
        BY <2>2, <3>1 DEF Cached
      <3>2. CASE Stray(v, f.o)
        BY <1>2, <2>2, <3>2 DEF Stray
      <3> QED
        BY <2>1, <2>2, <3>1, <3>2 DEF Followed
    <2>3. ASSUME Counts(f, calm2), NEW o \in Cached(w), Matches(o, f.o)
          PROVE  HasRing(w, o) \/ (~f.kept /\ \E a \in w.sounds : a.o = o)
      <3>1. o \in Cached(v)
        <4>1. CASE calm2
          BY <2>3, <4>1 DEF Cached
        <4>2. CASE ~IsChild(f.o)
          <5>1. ~IsChild(o)
            BY <2>3, <4>2, ChildMatch
          <5> QED
            BY <2>3, <5>1 DEF Cached
        <4> QED
          BY <2>3, <4>1, <4>2 DEF Counts
      <3>2. HasRing(v, o) \/ (~f.kept /\ \E a \in v.sounds : a.o = o)
        BY <2>1, <2>3, <3>1 DEF Followed, Counts
      <3>3. CASE HasRing(v, o)
        <4>1. PICK r \in v.rings : r.o = o
          BY <3>3 DEF HasRing
        <4>2. ~Blocks(v, o)
          BY <2>1, <2>3 DEF Followed, Blocks, Matches
        <4> QED
          BY <4>1, <4>2 DEF HasRing
      <3>4. CASE ~f.kept /\ \E a \in v.sounds : a.o = o
        BY <2>3, <3>1, <3>4
      <3> QED
        BY <3>2, <3>3, <3>4
    <2> QED
      BY <1>2, <2>1, <2>2, <2>3 DEF Followed
  <1>4. calm2 => Unique(w) /\ Refused(w)
    BY <1>2 DEF RingAt, Unique, Refused
  <1> QED
    BY <1>1, <1>3, <1>4, RingKept

\* What is cached is an occurrence like any other, and while no write has failed
\* there is one of each.
LEMMA CachedOnce ==
    ASSUME NEW n, NEW d, NEW m, NEW c, NEW h, NEW calm, StopAt(n, d, m, c, h, calm),
           NEW v, v = RingsOf(n, d, m, c, h), calm => Unique(v)
    PROVE  /\ \A o \in Cached(v) : Plain(o)
           /\ \A k \in v.kids : Child(k) /\ IsChild(k)
           /\ v.occ \subseteq v.known
           /\ calm => \A x, y \in Cached(v) : Matches(x, y) => x = y
           /\ \A x, y \in Cached(v) : Matches(x, y) /\ ~IsChild(y) => x = y
           /\ calm => \A x \in v.occ, k \in v.kids : ~Matches(x, k)
  <1> DEFINE s == ViewOf(n, d, m, c, h)
  <1>1. s.occ = d.occ /\ s.kids = KidsOf(d) \cup VolatileKids(m) /\ s.known = c.known
    BY DEF ViewOf
  <1>2. Forms(s) /\ (calm => Calm(s))
    BY DEF StopAt
  <1> HIDE DEF s
  <1>3. v.occ = s.occ /\ v.kids \subseteq s.kids /\ v.known = s.known
    <2>1. v.occ = d.occ /\ v.kids = KidsOf(d) /\ v.known = c.known
      BY RingsRead
    <2> QED
      BY <1>1, <2>1
  <1>4. \A k \in v.kids : Child(k) /\ IsChild(k) /\ Own(k)
    BY <1>2, <1>3 DEF Forms, Child
  <1>5. v.occ \subseteq v.known /\ \A x \in v.occ : Plain(x)
    BY <1>2, <1>3 DEF Forms
  <1>6. \A o \in Cached(v) : Plain(o)
    BY <1>4, <1>5 DEF Cached, Plain, Child, Own
  <1>7. calm => \A x \in v.occ, k \in v.kids : ~Matches(x, k)
    BY <1>2, <1>3 DEF Calm, Replaced
  <1>8. ASSUME calm, NEW x \in Cached(v), NEW y \in Cached(v), Matches(x, y) PROVE x = y
    <2>1. CASE x \in v.occ /\ y \in v.occ
      BY <1>5, <1>8, <2>1 DEF Unique
    <2>2. CASE x \in v.kids /\ y \in v.kids
      BY <1>4, <1>8, <2>2, OwnMatch
    <2>3. Matches(y, x)
      BY <1>8 DEF Matches
    <2> QED
      BY <1>7, <1>8, <2>1, <2>2, <2>3 DEF Cached
  <1>9. ASSUME NEW x \in Cached(v), NEW y \in Cached(v), Matches(x, y), ~IsChild(y) PROVE x = y
    <2>1. ~IsChild(x)
      BY <1>9, ChildMatch
    <2> QED
      BY <1>6, <1>9, <2>1, PlainMatch
  <1> QED
    BY <1>4, <1>5, <1>6, <1>7, <1>8, <1>9

\* What a stop or snooze changes of it.
LEMMA JournalsView ==
    ASSUME left \in [Events -> Nat], LeftOK, NEW d, NEW m, Known(d, m, hist, boot),
           NEW act, NEW o, NEW child, NEW cost, Journals(d, m, act, o, child, cost)
    PROVE  /\ mem'.active = m.active /\ mem'.timers = m.timers /\ disk'.occ = d.occ
           /\ hist'.first = {f \in hist.first : ~Matches(f.o, o)}
           /\ LeftOK' /\ (~CommitFailed' => ~CommitFailed)
           /\ disk'.rings \subseteq d.rings /\ \A r \in d.rings : r \in disk'.rings \/ r.o = o
           /\ KidsOf(disk') \subseteq KidsOf(d) \cup child
           /\ \A k \in KidsOf(d) : k \in KidsOf(disk') \/ k = o
           /\ \A p \in Ops(disk', mem') :
                 \/ p \in Ops(d, m)
                 \/ p.target = o /\ p.child = child /\ p.id \notin hist.made
  <1> DEFINE op == [id |-> Cardinality(hist.made) + 1, act |-> act, target |-> o,
                    child |-> child, res |-> None]
             t == [op |-> op, wasKid |-> o \in KidsOf(d), kid |-> child,
                   arm |-> IF m.trusted THEN child ELSE {}]
             first == {f \in hist.first : ~Matches(f.o, o)}
  <1>1. hist' = Stops(hist, op)
    BY DEF Journals
  <1>2. \/ Spends(cost) /\ disk' = PersistOps(d, {t}) /\ mem' = m
        \/ Spends(cost \cup {"commit"}) /\ disk' = d /\ mem' = [m EXCEPT !.vol = @ \cup {t}]
    BY DEF Journals
  <1>3. IsDisk(d, boot) /\ IsMem(m) /\ HistShape(hist) /\ Ledger(Ops(d, m), hist)
    BY DEF Known, Ledger
  <1>4. /\ op.id = Cardinality(hist.made) + 1 /\ op.target = o /\ op.child = child
    OBVIOUS
  <1>5. op.id \in Nat /\ op.id \notin hist.made
    <2> DEFINE n == Cardinality(hist.made)
    <2>1. n \in Nat /\ hist.made = 1..n
      BY <1>3, FS_CardinalityType DEF Ledger
    <2>2. op.id = n + 1
      BY <1>4
    <2> HIDE DEF n, op
    <2> QED
      BY <2>1, <2>2
  <1>6. t.op = op /\ t.kid = child
    <2> HIDE DEF op
    <2> QED
      OBVIOUS
  <1>7. t.wasKid => o \in KidsOf(d)
    <2> HIDE DEF op
    <2>1. CASE o \in KidsOf(d)
      BY <2>1
    <2>2. CASE o \notin KidsOf(d)
      BY <2>2
    <2> QED
      BY <2>1, <2>2
  <1>8. hist'.first = first
    <2> DEFINE a == hist.made \cup {op.id}
               b == hist.stopped \cup {[o |-> op.target, act |-> op.act, fresh |-> FALSE]}
               c == {f \in hist.first : ~Matches(f.o, op.target)}
    <2>1. hist' = [hist EXCEPT !.made = a, !.stopped = b, !.first = c]
      BY <1>1, SMTT(30) DEF Stops
    <2>2. c = first
      BY <1>4
    <2> HIDE DEF a, b, c, first
    <2>3. hist' \in HistOf(b, c, a, hist.answered, hist.lost)
      BY <1>3, <2>1, HistFields
    <2> QED
      BY <2>2, <2>3, HistRead
  <1> HIDE DEF op, t
  <1>9. LeftOK' /\ (~CommitFailed' => ~CommitFailed)
    BY <1>2, CommitSpent
  <1>10. CASE Spends(cost) /\ disk' = PersistOps(d, {t}) /\ mem' = m
    <2> DEFINE ts == {t}
    <2>1. ts = {t} /\ t.op.id \in Nat /\ disk' = PersistOps(d, ts) /\ DiskShape(d)
      BY <1>3, <1>5, <1>6, <1>10 DEF IsDisk
    <2> HIDE DEF ts
    <2>2. /\ disk'.occ = d.occ /\ disk'.ops = d.ops \cup {u.op : u \in ts}
          /\ disk'.rings \subseteq d.rings
          /\ KidsOf(disk') = (KidsOf(d) \ (IF t.wasKid THEN {t.op.target} ELSE {})) \cup t.kid
      BY <2>1, PersistView
    <2>3. \A r \in d.rings : r \in disk'.rings \/ \E u \in ts : r.o = u.op.target
      BY <2>1, PersistRings
    <2>4. \A r \in d.rings : r \in disk'.rings \/ r.o = o
      BY <1>4, <1>6, <2>1, <2>3
    <2>5. /\ KidsOf(disk') \subseteq KidsOf(d) \cup child
          /\ \A k \in KidsOf(d) : k \in KidsOf(disk') \/ k = o
      BY <1>4, <1>6, <2>2
    <2>6. disk'.ops = d.ops \cup {op}
      BY <1>6, <2>1, <2>2
    <2>7. Ops(disk', mem') = Ops(d, m) \cup {op}
      BY <1>10, <2>6 DEF Ops
    <2> QED
      BY <1>4, <1>5, <1>8, <1>9, <1>10, <2>2, <2>4, <2>5, <2>7 DEF first
  <1>11. CASE /\ Spends(cost \cup {"commit"}) /\ disk' = d
              /\ mem' = [m EXCEPT !.vol = @ \cup {t}]
    <2> DEFINE vol == m.vol \cup {t}
    <2>1. mem' = [m EXCEPT !.vol = vol]
      BY <1>11
    <2> HIDE DEF vol
    <2>2. mem' \in MemOf(m.trusted, m.active, m.timers, vol, m.dirty, m.poll)
      BY <1>3, <2>1, MemFields DEF IsMem
    <2>3. mem'.active = m.active /\ mem'.vol = vol /\ mem'.timers = m.timers
      BY <2>2, MemRead
    <2>4. Ops(disk', mem') = Ops(d, m) \cup {op}
      BY <1>6, <1>11, <2>3 DEF Ops, vol
    <2> QED
      BY <1>4, <1>5, <1>8, <1>9, <1>11, <2>3, <2>4 DEF first
  <1> QED
    BY <1>2, <1>10, <1>11

\* A stop or snooze, of what rings or of another: m is the memory with the ring
\* that is stopped already ended.
LEMMA JournalsRing ==
    ASSUME now \in Nat, boot \in Nat, left \in [Events -> Nat], LeftOK, NEW d, NEW m,
           Known(d, m, hist, boot), Entered(ctl, hist),
           StopAt(now, d, m, ctl, hist, ~CommitFailed),
           NEW m0, RingAt(RingsOf(now, d, m0, ctl, hist), ~CommitFailed),
           m0.vol = m.vol, m0.timers = m.timers,
           NEW act, NEW o \in Held(d, m), Executable(d, m, o), NEW child, NEW cost,
           m.active = m0.active \/ (m.active = None /\ Matches(o, m0.active.o)),
           child = {} \/ child = {SnoozeChild(o)},
           Journals(d, m, act, o, child, cost), UNCHANGED <<now, ctl>>
    PROVE  RingInv'
  <1> DEFINE v == RingsOf(now, d, m0, ctl, hist)
             w == RingsOf(now', disk', mem', ctl', hist')
             calm == ~CommitFailed
             calm2 == ~CommitFailed'
  <1>1. /\ mem'.active = m.active /\ mem'.timers = m.timers /\ disk'.occ = d.occ
        /\ hist'.first = {f \in hist.first : ~Matches(f.o, o)}
        /\ LeftOK' /\ (calm2 => calm)
        /\ disk'.rings \subseteq d.rings /\ \A r \in d.rings : r \in disk'.rings \/ r.o = o
        /\ KidsOf(disk') \subseteq KidsOf(d) \cup child
        /\ \A k \in KidsOf(d) : k \in KidsOf(disk') \/ k = o
        /\ \A p \in Ops(disk', mem') :
              \/ p \in Ops(d, m)
              \/ p.target = o /\ p.child = child /\ p.id \notin hist.made
    BY JournalsView
  <1>2. /\ v.now = now /\ v.occ = d.occ /\ v.kids = KidsOf(d) /\ v.ops = Ops(d, m0)
        /\ v.known = ctl.known /\ v.res = ctl.res /\ v.rings = d.rings
        /\ v.timers = m0.timers /\ v.first = hist.first
        /\ \A a : a \in v.sounds <=> a = m0.active /\ a # None /\ ~a.timer
    <2> HIDE DEF v
    <2> QED
      BY RingsRead DEF v
  <1>3. /\ w.now = now' /\ w.occ = disk'.occ /\ w.kids = KidsOf(disk')
        /\ w.ops = Ops(disk', mem') /\ w.known = ctl'.known /\ w.res = ctl'.res
        /\ w.rings = disk'.rings /\ w.timers = mem'.timers /\ w.first = hist'.first
        /\ \A a : a \in w.sounds <=> a = mem'.active /\ a # None /\ ~a.timer
    <2> HIDE DEF w
    <2> QED
      BY RingsRead DEF w
  <1>4. RingAt(v, calm) /\ RingInv' = RingAt(w, calm2)
    BY DEF RingInv
  <1>5. Plain(o)
    <2>1. StopAt(now, d, m, ctl, hist, calm)
      OBVIOUS
    <2> HIDE DEF calm
    <2> QED
      BY <2>1, HeldPlain
  <1>6. \A c \in child : now < c.due
    BY <1>5, SnoozeMade
  <1> HIDE DEF v, w, calm, calm2
  <1>7. Ops(d, m0) = Ops(d, m)
    BY DEF Ops
  <1>8. \A p \in w.ops : \/ p \in v.ops
                         \/ p.target = o /\ p.child = child /\ p.id \notin hist.made
    BY <1>1, <1>2, <1>3, <1>7
  <1>9. Carries(w.rings, v.rings)
    BY <1>1, <1>2, <1>3 DEF Carries, Carried, Matches
  <1>10. \A a \in w.sounds : a \in v.sounds
    BY <1>1, <1>2, <1>3
  <1>11. \A x : Shown(w, x) <=> Shown(v, x)
    BY <1>2, <1>3 DEF Shown
  <1>12. ASSUME NEW f \in w.first PROVE Followed(w, f, calm2)
    <2>1. f \in v.first /\ ~Matches(f.o, o)
      BY <1>1, <1>2, <1>3
    <2>2. Followed(v, f, calm) /\ f.o.due <= f.at /\ f.at <= now /\ f.o.due \in Nat /\ f.at \in Nat
      BY <1>2, <1>4, <2>1 DEF RingAt, Dated, Plain
    <2>3. \A c \in child : ~Matches(c, f.o)
      <3> SUFFICES ASSUME NEW c \in child, Matches(c, f.o) PROVE FALSE
        OBVIOUS
      <3>1. c.due = f.o.due /\ now < c.due
        BY <1>6 DEF Matches
      <3> QED
        BY <2>2, <3>1
    <2>4. ~Blocks(w, f.o)
      BY <1>8, <2>1, <2>2 DEF Blocks, Followed, Matches
    <2>5. \A x \in Cached(v) : Matches(x, f.o) => x \in Cached(w) /\ x # o
      BY <1>1, <1>2, <1>3, <2>1 DEF Cached, Matches
    <2>6. \A x \in Cached(w) : Matches(x, f.o) => x \in Cached(v)
      BY <1>1, <1>2, <1>3, <2>3 DEF Cached
    <2>7. ASSUME calm2, IsChild(f.o)
          PROVE  (\E x \in Cached(w) : Matches(x, f.o)) \/ Stray(w, f.o)
      <3>1. (\E x \in Cached(v) : Matches(x, f.o)) \/ Stray(v, f.o)
        BY <1>1, <2>2, <2>7 DEF Followed
      <3>2. CASE Stray(v, f.o)
        BY <1>8, <1>11, <2>3, <3>2 DEF Stray
      <3> QED
        BY <2>5, <3>1, <3>2
    <2>8. ASSUME Counts(f, calm2), NEW x \in Cached(w), Matches(x, f.o)
          PROVE  HasRing(w, x) \/ (~f.kept /\ \E a \in w.sounds : a.o = x)
      <3>1. x \in Cached(v) /\ x # o
        BY <2>5, <2>6, <2>8
      <3>2. HasRing(v, x) \/ (~f.kept /\ \E a \in v.sounds : a.o = x)
        BY <1>1, <2>2, <2>8, <3>1 DEF Followed, Counts
      <3>3. CASE HasRing(v, x)
        BY <1>1, <1>2, <1>3, <3>1, <3>3 DEF HasRing
      <3>4. CASE ~f.kept /\ \E a \in v.sounds : a.o = x
        <4>1. PICK a \in v.sounds : a.o = x
          BY <3>4
        <4>2. ~Matches(o, a.o)
          BY <2>1, <2>8, <4>1 DEF Matches
        <4>3. a \in w.sounds
          BY <1>1, <1>2, <1>3, <4>1, <4>2
        <4> QED
          BY <3>4, <4>1, <4>3
      <3> QED
        BY <3>2, <3>3, <3>4
    <2>9. ~IsChild(f.o) => f.o \in w.occ
      BY <1>1, <1>2, <1>3, <2>2 DEF Followed
    <2> QED
      BY <2>4, <2>7, <2>8, <2>9 DEF Followed
  <1>13. ASSUME calm2 PROVE Unique(w) /\ Refused(w)
    <2>1. Unique(v) /\ Refused(v)
      BY <1>1, <1>4, <1>13 DEF RingAt
    <2>2. \A r \in w.res : r.id \in hist.made
      BY <1>3 DEF Entered, Ids
    <2> QED
      BY <1>2, <1>3, <1>8, <1>11, <2>1, <2>2 DEF Unique, Refused
  <1>14. \A t \in w.timers : IsChild(t)
    BY <1>1, <1>2, <1>3, <1>4 DEF RingAt, Limits
  <1>15. /\ v.now \in Nat /\ w.now \in Nat /\ v.now <= w.now /\ w.first \subseteq v.first
         /\ \A a \in w.sounds : \E b \in v.sounds : Matches(a.o, b.o) /\ a.deadline = b.deadline
    BY <1>1, <1>2, <1>3, <1>10 DEF Matches
  <1>16. RingAt(w, calm2)
    BY <1>1, <1>4, <1>9, <1>12, <1>13, <1>14, <1>15, RingKept
  <1> QED
    BY <1>4, <1>16

\* Ends of a ring that leave its first rings their limit: it was recorded, or what
\* rings is a timer, or a child's once a write has failed.
Loses(f, calm) ==
    \/ f.kept \/ mem.active = None \/ mem.active.timer
    \/ Matches(mem.active.o, f.o) => IsChild(f.o) /\ ~calm

\* A step that changes neither the cache nor the records, and starts no ring.
LEMMA RingQuiet ==
    ASSUME Inv, StopInv, RingInv, NEW events, Spends(events) \/ (UNCHANGED left /\ events = {}),
           now' \in Nat, now <= now', ctl'.known = ctl.known, ctl'.res = ctl.res,
           disk'.occ = disk.occ, disk'.kids = disk.kids, disk'.ops = disk.ops,
           disk'.rings = disk.rings, mem'.vol \subseteq mem.vol,
           \A t \in mem'.timers : IsChild(t) \/ t \in mem.timers,
           hist'.first \subseteq hist.first,
           \/ mem'.active = mem.active
           \/ mem'.active = None /\ \A f \in hist'.first : Loses(f, ~CommitFailed)
    PROVE  RingInv'
  <1> DEFINE v == RingsOf(now, disk, mem, ctl, hist)
             w == RingsOf(now', disk', mem', ctl', hist')
             calm == ~CommitFailed
             calm2 == ~CommitFailed'
  <1>1. /\ now \in Nat /\ left \in [Events -> Nat] /\ LeftOK
        /\ StopAt(now, disk, mem, ctl, hist, calm)
    BY StopFacts
  <1>2. calm2 => calm
    BY <1>1, CommitSpent
  <1>3. RingAt(v, calm) /\ RingInv' = RingAt(w, calm2)
    BY DEF RingInv
  <1>4. /\ v.now = now /\ v.occ = disk.occ /\ v.kids = KidsOf(disk) /\ v.ops = Ops(disk, mem)
        /\ v.known = ctl.known /\ v.res = ctl.res /\ v.rings = disk.rings
        /\ v.timers = mem.timers /\ v.first = hist.first
        /\ \A a : a \in v.sounds <=> a = mem.active /\ a # None /\ ~a.timer
    <2> HIDE DEF v
    <2> QED
      BY RingsRead DEF v
  <1>5. /\ w.now = now' /\ w.occ = disk'.occ /\ w.kids = KidsOf(disk')
        /\ w.ops = Ops(disk', mem') /\ w.known = ctl'.known /\ w.res = ctl'.res
        /\ w.rings = disk'.rings /\ w.timers = mem'.timers /\ w.first = hist'.first
        /\ \A a : a \in w.sounds <=> a = mem'.active /\ a # None /\ ~a.timer
    <2> HIDE DEF w
    <2> QED
      BY RingsRead DEF w
  <1>6. v = RingsOf(now, disk, mem, ctl, hist) /\ (calm => Unique(v))
    BY <1>3 DEF RingAt
  <1>7. mem'.active = None => \A f \in hist'.first : mem'.active = mem.active \/ Loses(f, calm)
    OBVIOUS
  <1>8. mem'.active = mem.active \/ mem'.active = None
    OBVIOUS
  <1> HIDE DEF v, w, calm, calm2
  <1>9. \A k \in v.kids : IsChild(k)
    BY <1>1, <1>6, CachedOnce
  <1>10. w.kids = v.kids /\ w.occ = v.occ /\ w.rings = v.rings /\ w.known = v.known
         /\ w.res = v.res /\ w.first \subseteq v.first
    BY <1>4, <1>5 DEF KidsOf
  <1>11. \A op \in w.ops : op \in v.ops
    BY <1>4, <1>5 DEF Ops
  <1>12. \A t \in w.timers : IsChild(t)
    BY <1>3, <1>4, <1>5 DEF RingAt, Limits
  <1>13. \A a \in w.sounds : \E b \in v.sounds : Matches(a.o, b.o) /\ a.deadline = b.deadline
    BY <1>4, <1>5, <1>8 DEF Matches
  <1>14. ASSUME NEW f \in w.first, NEW a \in v.sounds, Counts(f, calm2), ~f.kept,
                Matches(a.o, f.o)
         PROVE  \E b \in w.sounds : b.o = a.o
    <2>1. CASE mem'.active = mem.active
      BY <1>4, <1>5, <2>1
    <2>2. CASE mem'.active = None /\ Loses(f, calm)
      <3>1. a = mem.active /\ a # None /\ ~a.timer
        BY <1>4
      <3>2. IsChild(f.o) /\ ~calm
        BY <1>14, <2>2, <3>1 DEF Loses
      <3> QED
        BY <1>2, <1>14, <3>2 DEF Counts
    <2> QED
      BY <1>5, <1>7, <1>8, <2>1, <2>2
  <1>15. v.now \in Nat /\ w.now \in Nat /\ v.now <= w.now
    BY <1>1, <1>4, <1>5
  <1>16. RingAt(w, calm2)
    BY <1>2, <1>3, <1>9, <1>10, <1>11, <1>12, <1>13, <1>14, <1>15, RingStays
  <1> QED
    BY <1>3, <1>16

\* The same, without cost.
LEMMA RingFree ==
    ASSUME Inv, StopInv, RingInv, UNCHANGED <<left, ctl, hist>>, now' \in Nat, now <= now',
           disk'.occ = disk.occ, disk'.kids = disk.kids, disk'.ops = disk.ops,
           disk'.rings = disk.rings, mem'.vol = mem.vol, mem'.timers \subseteq mem.timers,
           \/ mem'.active = mem.active
           \/ mem'.active = None /\ \A f \in hist.first : Loses(f, ~CommitFailed)
    PROVE  RingInv'
  <1> DEFINE none == {}
  <1>1. UNCHANGED left /\ none = {}
    OBVIOUS
  <1>2. hist' = hist /\ ctl' = ctl
    OBVIOUS
  <1> HIDE DEF none
  <1> QED
    BY <1>1, <1>2, RingQuiet

\* Steps that only pass time, or change what is not cached.
LEMMA PollEndRing ==
    ASSUME Inv, StopInv, RingInv, PollEnd
    PROVE  RingInv'
  <1> DEFINE no == FALSE
  <1>1. mem' = [mem EXCEPT !.poll = no, !.dirty = no]
    BY DEF PollEnd
  <1>2. now \in Nat /\ IsMem(mem)
    BY StopFacts, SMTT(30)
  <1> HIDE DEF no
  <1>3. mem' \in MemOf(mem.trusted, mem.active, mem.timers, mem.vol, no, no)
    BY <1>1, <1>2, MemFields DEF IsMem
  <1>4. mem'.active = mem.active /\ mem'.vol = mem.vol /\ mem'.timers = mem.timers
    BY <1>3, MemRead
  <1>5. UNCHANGED <<now, disk, hist, left, ctl>>
    BY DEF PollEnd
  <1>6. now' \in Nat /\ now <= now'
    BY <1>2, <1>5
  <1> QED
    BY <1>4, <1>5, <1>6, RingFree

\* A timer is named like a child.
LEMMA TimerRingRing ==
    ASSUME Inv, StopInv, RingInv, TimerRing
    PROVE  RingInv'
  <1> DEFINE s == <<"timer", left["timer"]>>
             t == [sched |-> s, due |-> now, copy |-> FALSE]
             ts == mem.timers \cup {t}
             m == [mem EXCEPT !.timers = ts]
  <1>1. mem' = Signal(m) /\ Spends({"timer"}) /\ Len(s) = 2
    BY DEF TimerRing
  <1>2. now \in Nat /\ IsMem(mem)
    BY StopFacts
  <1> HIDE DEF s
  <1>3. IsChild(t)
    BY <1>1 DEF IsChild
  <1> HIDE DEF t, ts
  <1>4. IsMem(m) /\ m.vol = mem.vol /\ m.timers = ts /\ m.active = mem.active
    BY <1>2, TimersSet
  <1> HIDE DEF m
  <1>5. mem'.vol = mem.vol /\ mem'.timers = ts /\ mem'.active = mem.active
    BY <1>1, <1>4, SignalEffect
  <1>6. UNCHANGED <<now, disk, hist, ctl>>
    BY DEF TimerRing
  <1>7. now' \in Nat /\ now <= now'
    BY <1>2, <1>6
  <1>8. \A x \in mem'.timers : IsChild(x) \/ x \in mem.timers
    BY <1>3, <1>5 DEF ts
  <1>9. /\ disk'.occ = disk.occ /\ disk'.kids = disk.kids /\ disk'.ops = disk.ops
        /\ disk'.rings = disk.rings /\ hist'.first \subseteq hist.first
        /\ ctl'.known = ctl.known /\ ctl'.res = ctl.res
    BY <1>6
  <1> QED
    BY <1>1, <1>5, <1>7, <1>8, <1>9, RingQuiet

\* A timer that is stopped ends no ring of an alarm.
LEMMA StopTimerRing ==
    ASSUME Inv, StopInv, RingInv, StopTimer
    PROVE  RingInv'
  <1>1. PICK t \in mem.timers :
          mem' = Signal([mem EXCEPT
            !.timers = @ \ {t},
            !.active = IF @ # None /\ @.o = t THEN None ELSE @])
    BY DEF StopTimer
  <1> DEFINE ts == mem.timers \ {t}
             a == IF mem.active # None /\ mem.active.o = t THEN None ELSE mem.active
             m == [mem EXCEPT !.timers = ts, !.active = a]
             calm == ~CommitFailed
  <1>2. mem' = Signal(m)
    BY <1>1
  <1>3. now \in Nat /\ IsMem(mem)
    BY StopFacts
  <1>4. /\ a # None => IsActive(a)
        /\ a = mem.active \/ (a = None /\ mem.active.o = t)
        /\ ts \subseteq mem.timers
    BY <1>3, SMTT(30) DEF IsMem
  <1> HIDE DEF ts, a
  <1>5. m \in MemOf(mem.trusted, a, ts, mem.vol, mem.dirty, mem.poll)
    BY <1>3, MemFields DEF IsMem
  <1> HIDE DEF m
  <1>6. /\ MemShape(m) /\ m.trusted = mem.trusted /\ m.active = a /\ m.vol = mem.vol
        /\ m.timers = ts /\ m.dirty = mem.dirty /\ m.poll = mem.poll
    BY <1>5, MemRead
  <1>7. IsMem(m)
    BY <1>3, <1>4, <1>6 DEF IsMem
  <1>8. mem'.vol = mem.vol /\ mem'.timers = ts /\ mem'.active = a
    BY <1>2, <1>6, <1>7, SignalEffect
  <1>9. UNCHANGED <<now, disk, hist, left, ctl>> /\ now' \in Nat /\ now <= now'
    BY <1>3 DEF StopTimer
  <1>10. IsChild(t) /\ \A f \in hist.first : calm => f.kept
    <2> DEFINE v == RingsOf(now, disk, mem, ctl, hist)
    <2>1. RingAt(v, calm)
      BY DEF RingInv
    <2>2. v.timers = mem.timers /\ v.first = hist.first
      BY DEF RingsOf
    <2> HIDE DEF v, calm
    <2> QED
      BY <2>1, <2>2 DEF RingAt, Limits
  <1>11. mem.active.o = t => \A f \in hist.first : Loses(f, calm)
    <2> HIDE DEF calm
    <2> QED
      BY <1>10, ChildMatch DEF Loses
  <1> QED
    BY <1>4, <1>8, <1>9, <1>11, RingFree

\* The clock is trusted, whether that could be stored or not.
LEMMA ClockReplyRing ==
    ASSUME Inv, StopInv, RingInv, ClockReply
    PROVE  RingInv'
  <1> DEFINE yes == TRUE
             m0 == [mem EXCEPT !.trusted = yes]
             m == Signal(m0)
             new == NewlyArmed(disk, m, disk.occ \cup KidsOf(disk))
             armed == {x \in disk.armed : x.o \notin new} \cup ArmedBy(new)
             d == [disk EXCEPT !.anchor = boot, !.armed = armed]
             cost == {"commit"}
  <1>1. mem' = m /\ (Commits(d) \/ CommitFails(disk))
    BY DEF ClockReply
  <1>2. now \in Nat /\ IsMem(mem) /\ IsDisk(disk, boot)
    BY StopFacts, SMTT(30)
  <1>3. m0 \in MemOf(yes, mem.active, mem.timers, mem.vol, mem.dirty, mem.poll)
    <2> HIDE DEF yes
    <2> QED
      BY <1>2, MemFields DEF IsMem
  <1>4. /\ MemShape(m0) /\ m0.trusted = yes /\ m0.active = mem.active /\ m0.vol = mem.vol
        /\ m0.timers = mem.timers /\ m0.dirty = mem.dirty /\ m0.poll = mem.poll
    <2> HIDE DEF yes, m0
    <2> QED
      BY <1>3, MemRead
  <1>5. IsMem(m0)
    <2> HIDE DEF m0
    <2> QED
      BY <1>2, <1>4 DEF IsMem
  <1> HIDE DEF m0, yes
  <1>6. mem'.vol = mem.vol /\ mem'.active = mem.active /\ mem'.timers = mem.timers
    BY <1>1, <1>4, <1>5, SignalEffect
  <1> HIDE DEF armed
  <1>7. d \in DiskOf(disk.occ, disk.ops, disk.kids, armed, disk.rings, boot)
    BY <1>2, DiskFields DEF IsDisk
  <1> HIDE DEF d
  <1>8. d.occ = disk.occ /\ d.ops = disk.ops /\ d.kids = disk.kids /\ d.rings = disk.rings
    BY <1>7, DiskRead
  <1>9. /\ disk'.occ = disk.occ /\ disk'.ops = disk.ops /\ disk'.kids = disk.kids
        /\ disk'.rings = disk.rings
    BY <1>1, <1>8 DEF Commits, CommitFails
  <1>10. UNCHANGED <<now, hist, ctl>>
    BY DEF ClockReply
  <1>11. now' \in Nat /\ now <= now'
    BY <1>2, <1>10
  <1>12. CASE UNCHANGED left
    BY <1>6, <1>9, <1>10, <1>11, <1>12, RingFree
  <1>13. CASE Spends(cost)
    <2>1. /\ hist'.first \subseteq hist.first /\ ctl'.known = ctl.known /\ ctl'.res = ctl.res
          /\ mem'.vol \subseteq mem.vol /\ \A t \in mem'.timers : IsChild(t) \/ t \in mem.timers
      BY <1>6, <1>10
    <2> HIDE DEF cost
    <2> QED
      BY <1>6, <1>9, <1>10, <1>11, <1>13, <2>1, RingQuiet
  <1> QED
    BY <1>1, <1>12, <1>13 DEF Commits, CommitFails

\* A start finds the records as they were left.
LEMMA StartRing ==
    ASSUME Inv, StopInv, RingInv, Start
    PROVE  RingInv'
  <1> DEFINE cost == {"reboot"}
  <1>1. now \in Nat
    BY StopFacts
  <1>2. mem.vol = {} /\ mem.active = None
    BY DEF Start, Inv, DownInv
  <1>3. UNCHANGED <<now, disk, hist, ctl>> /\ mem' = NewMem(disk.anchor = boot')
    BY DEF Start
  <1>4. mem'.vol = {} /\ mem'.active = None /\ mem'.timers = {}
    BY <1>3 DEF NewMem
  <1>5. now' \in Nat /\ now <= now'
    BY <1>1, <1>3
  <1>6. CASE UNCHANGED left
    BY <1>2, <1>3, <1>4, <1>5, <1>6, RingFree
  <1>7. CASE Spends(cost)
    <2>1. /\ hist'.first \subseteq hist.first /\ ctl'.known = ctl.known /\ ctl'.res = ctl.res
          /\ disk'.occ = disk.occ /\ disk'.kids = disk.kids /\ disk'.ops = disk.ops
          /\ disk'.rings = disk.rings /\ mem'.active = mem.active
          /\ mem'.vol \subseteq mem.vol /\ \A t \in mem'.timers : IsChild(t) \/ t \in mem.timers
      BY <1>2, <1>3, <1>4
    <2> HIDE DEF cost
    <2> QED
      BY <1>5, <1>7, <2>1, RingQuiet
  <1> QED
    BY <1>6, <1>7 DEF Start

\* Time passes.
LEMMA TickRing ==
    ASSUME Inv, StopInv, RingInv, Tick
    PROVE  RingInv'
  <1>1. now \in Nat /\ IsMem(mem)
    BY StopFacts
  <1>2. now' = now + 1 /\ UNCHANGED <<disk, hist, left, ctl>>
        /\ (mem' = Signal(mem) \/ mem' = mem)
    BY DEF Tick
  <1>3. mem'.vol = mem.vol /\ mem'.active = mem.active /\ mem'.timers = mem.timers
    BY <1>1, <1>2, SignalEffect
  <1>4. now' \in Nat /\ now <= now'
    BY <1>1, <1>2
  <1> QED
    BY <1>2, <1>3, <1>4, RingFree

\* A crash forgets the rings that were not recorded.
LEMMA CrashRing ==
    ASSUME Inv, StopInv, RingInv, Crash
    PROVE  RingInv'
  <1> DEFINE lost == {t.op : t \in mem.vol}
             l == hist.lost \cup {op.id : op \in lost}
             s == {x \in hist.stopped : \A op \in lost : op.target # x.o}
             f == {x \in hist.first : x.kept}
             cost == {"crash"}
  <1>1. now \in Nat /\ HistShape(hist)
    BY StopFacts
  <1>2. hist' = [hist EXCEPT !.lost = l, !.stopped = s, !.first = f]
    BY DEF Crash
  <1>3. UNCHANGED <<now, disk, ctl>> /\ Spends(cost)
    BY DEF Crash
  <1>4. mem'.vol = {} /\ mem'.active = None /\ mem'.timers = {}
    BY SMTT(30) DEF Crash, NewMem
  <1>5. hist'.first = f
    <2> HIDE DEF s, f, l
    <2>1. hist' \in HistOf(s, f, hist.made, hist.answered, l)
      BY <1>1, <1>2, HistFields
    <2> QED
      BY <2>1, HistRead, SMTT(30)
  <1>6. mem'.active = None /\ \A x \in hist'.first : Loses(x, ~CommitFailed)
    BY <1>4, <1>5 DEF Loses
  <1>7. /\ hist'.first \subseteq hist.first /\ ctl'.known = ctl.known /\ ctl'.res = ctl.res
        /\ disk'.occ = disk.occ /\ disk'.kids = disk.kids /\ disk'.ops = disk.ops
        /\ disk'.rings = disk.rings
        /\ mem'.vol \subseteq mem.vol /\ \A t \in mem'.timers : IsChild(t) \/ t \in mem.timers
    BY <1>3, <1>4, <1>5
  <1>8. now' \in Nat /\ now <= now'
    BY <1>1, <1>3
  <1> HIDE DEF cost
  <1> QED
    BY <1>3, <1>6, <1>7, <1>8, RingQuiet

\* The check at the start of a poll, from a state d, m of this step: a ring goes on
\* under the key that is cached, and one that counts does not end without a stop.
LEMMA CheckActiveRing ==
    ASSUME now \in Nat, boot \in Nat, left \in [Events -> Nat], LeftOK, NEW d, NEW m,
           Known(d, m, hist, boot), Entered(ctl, hist),
           StopAt(now, d, m, ctl, hist, ~CommitFailed),
           RingAt(RingsOf(now, d, m, ctl, hist), ~CommitFailed),
           CheckActive(d, m), UNCHANGED <<now, ctl>>
    PROVE  RingInv'
  <1> DEFINE a == m.active
             ended == [m EXCEPT !.active = None]
             Stays(x) == disk' = d /\ mem' = x /\ UNCHANGED hist
             Still == {o \in Current(d, m, a.o) : Executable(d, m, o)}
             calm == ~CommitFailed
             calm2 == ~CommitFailed'
             v == RingsOf(now, d, m, ctl, hist)
             w == RingsOf(now', disk', mem', ctl', hist')
  <1>1. IsMem(m) /\ StopAt(now, d, m, ctl, hist, calm) /\ Aged(now, d, m) /\ HistShape(hist)
        /\ IsDisk(d, boot)
    BY DEF Known, StopAt, Ledger
  <1>2. IsMem(ended) /\ ended.active = None /\ ended.timers = m.timers /\ ended.vol = m.vol
    BY <1>1, ActiveSet
  <1>3. /\ v.now = now /\ v.occ = d.occ /\ v.kids = KidsOf(d) /\ v.ops = Ops(d, m)
        /\ v.known = ctl.known /\ v.res = ctl.res /\ v.rings = d.rings
        /\ v.timers = m.timers /\ v.first = hist.first
        /\ \A b : b \in v.sounds <=> b = a /\ b # None /\ ~b.timer
    <2> HIDE DEF v
    <2> QED
      BY RingsRead DEF v
  <1>4. /\ w.now = now' /\ w.occ = disk'.occ /\ w.kids = KidsOf(disk')
        /\ w.ops = Ops(disk', mem') /\ w.known = ctl'.known /\ w.res = ctl'.res
        /\ w.rings = disk'.rings /\ w.timers = mem'.timers /\ w.first = hist'.first
        /\ \A b : b \in w.sounds <=> b = mem'.active /\ b # None /\ ~b.timer
    <2> HIDE DEF w
    <2> QED
      BY RingsRead DEF w
  <1>5. RingAt(v, calm) /\ RingInv' = RingAt(w, calm2)
    BY DEF RingInv
  <1>6. \A k \in v.kids : IsChild(k)
    <2>1. v = RingsOf(now, d, m, ctl, hist) /\ (calm => Unique(v))
      BY <1>5 DEF RingAt
    <2> HIDE DEF v, calm
    <2> QED
      BY <1>1, <2>1, CachedOnce
  <1>7. ASSUME disk' = d, UNCHANGED <<hist, left>>, mem'.vol = m.vol, mem'.timers \subseteq m.timers,
               \A x \in w.sounds : \E y \in v.sounds : Matches(x.o, y.o) /\ x.deadline = y.deadline,
               \A f \in v.first, x \in v.sounds :
                  x.o \in Cached(v) /\ Matches(x.o, f.o) /\ ~Blocks(v, f.o) =>
                     \E y \in w.sounds : y.o = x.o
        PROVE  RingInv'
    <2>1. calm2 = calm
      BY <1>7 DEF CommitFailed
    <2> HIDE DEF v, w, calm, calm2
    <2>2. calm2 => calm
      BY <2>1
    <2>3. /\ w.occ = v.occ /\ w.kids = v.kids /\ w.ops = v.ops /\ w.rings = v.rings
          /\ w.known = v.known /\ w.res = v.res /\ w.first = v.first
          /\ v.now \in Nat /\ w.now \in Nat /\ v.now <= w.now
      BY <1>3, <1>4, <1>7 DEF Ops
    <2>4. \A t \in w.timers : IsChild(t)
      BY <1>3, <1>4, <1>5, <1>7 DEF RingAt, Limits
    <2>5. \A f \in w.first, x \in v.sounds :
             Counts(f, calm2) /\ ~f.kept /\ x.o \in Cached(v) /\ Matches(x.o, f.o) =>
                \E y \in w.sounds : y.o = x.o
      BY <1>5, <1>7, <2>3 DEF RingAt, Followed
    <2>6. RingAt(w, calm2)
      BY <1>5, <1>6, <1>7, <2>2, <2>3, <2>4, <2>5, RingStays
    <2> QED
      BY <1>5, <2>6
  <1> HIDE DEF calm, calm2, v, w
  <1>8. CASE a = None /\ Stays(m) /\ UNCHANGED left
    BY <1>3, <1>4, <1>7, <1>8 DEF Matches
  <1>9. CASE /\ a # None /\ a.timer /\ UNCHANGED left
             /\ Stays(IF now < a.deadline THEN m ELSE [ended EXCEPT !.timers = @ \ {a.o}])
    <2>1. CASE mem' = m
      BY <1>3, <1>4, <1>7, <1>9, <2>1 DEF Matches
    <2>2. CASE mem' = [ended EXCEPT !.timers = @ \ {a.o}]
      <3> DEFINE ts == ended.timers \ {a.o}
                 m2 == [ended EXCEPT !.timers = ts]
      <3>1. mem' = m2
        BY <2>2
      <3>2. m2.active = None /\ m2.vol = m.vol /\ m2.timers = ts
        <4> HIDE DEF ended, ts
        <4> QED
          BY <1>2, TimersSet
      <3> HIDE DEF m2, ended
      <3>3. ts \subseteq m.timers
        BY <1>2
      <3>4. v.sounds = {} /\ w.sounds = {}
        BY <1>3, <1>4, <1>9, <3>1, <3>2
      <3> QED
        BY <1>7, <1>9, <3>1, <3>2, <3>3, <3>4
    <2> QED
      BY <1>9, <2>1, <2>2
  <1>10. \A f \in v.first, x \in v.sounds :
            x.o \in Cached(v) /\ Matches(x.o, f.o) /\ ~Blocks(v, f.o) =>
               x = a /\ Current(d, m, a.o) = {a.o} /\ a.o \in Still
    <2> SUFFICES ASSUME NEW f \in v.first, NEW x \in v.sounds, x.o \in Cached(v),
                        Matches(x.o, f.o), ~Blocks(v, f.o)
                 PROVE  x = a /\ Current(d, m, a.o) = {a.o} /\ a.o \in Still
      OBVIOUS
    <2>1. x = a
      BY <1>3
    <2>2. a.o \in Held(d, m)
      BY <1>3, <2>1 DEF Cached, Held
    <2>3. Current(d, m, a.o) = {a.o}
      BY <2>2 DEF Current
    <2>4. Executable(d, m, a.o)
      BY <1>3, <2>1 DEF Executable, Blocks, Matches
    <2> QED
      BY <2>1, <2>3, <2>4
  <1>11. CASE Still = {} /\ Stays(ended) /\ UNCHANGED left
    <2> HIDE DEF ended, Still
    <2>1. w.sounds = {}
      BY <1>2, <1>4, <1>11
    <2> QED
      BY <1>2, <1>7, <1>10, <1>11, <2>1
  <1>12. ASSUME a # None, ~a.timer, NEW o \in Still, UNCHANGED left, Stays([m EXCEPT !.active.o = o])
         PROVE  RingInv'
    <2> DEFINE b == [a EXCEPT !.o = o]
               m2 == [m EXCEPT !.active = b]
    <2>1. b \in [o : {o}, timer : {a.timer}, deadline : {a.deadline}]
      BY <1>1, <1>12 DEF IsMem, IsActive
    <2>2. mem' = m2
      BY <1>12
    <2>3. Matches(o, a.o) /\ o \in Current(d, m, a.o)
      BY DEF Current, Matches
    <2> HIDE DEF b
    <2>4. IsActive(b) /\ b.o = o /\ b.deadline = a.deadline
      BY <2>1 DEF IsActive
    <2>5. m2.active = b /\ m2.vol = m.vol /\ m2.timers = m.timers
      BY <1>1, <2>4, ActiveSet
    <2> HIDE DEF m2
    <2>6. \A x \in w.sounds : \E y \in v.sounds : Matches(x.o, y.o) /\ x.deadline = y.deadline
      <3>1. a \in v.sounds
        BY <1>3, <1>12
      <3>2. \A x \in w.sounds : x = b
        BY <1>4, <2>2, <2>5
      <3> QED
        BY <2>3, <2>4, <3>1, <3>2
    <2>7. o = a.o => b = a
      <3>1. a \in [o : {a.o}, timer : {a.timer}, deadline : {a.deadline}]
        BY <1>1, <1>12 DEF IsMem, IsActive
      <3> QED
        BY <2>1, <3>1
    <2>8. o \in Current(d, m, a.o) /\ a \in v.sounds
      BY <1>3, <1>12, <2>3
    <2> HIDE DEF Still
    <2>9. \A f \in v.first, x \in v.sounds :
            x.o \in Cached(v) /\ Matches(x.o, f.o) /\ ~Blocks(v, f.o) =>
               \E y \in w.sounds : y.o = x.o
      <3> SUFFICES ASSUME NEW f \in v.first, NEW x \in v.sounds, x.o \in Cached(v),
                          Matches(x.o, f.o), ~Blocks(v, f.o)
                   PROVE  \E y \in w.sounds : y.o = x.o
        OBVIOUS
      <3>1. x = a /\ Current(d, m, a.o) = {a.o}
        BY <1>10
      <3>2. o = a.o
        BY <2>8, <3>1
      <3>3. mem'.active = a
        BY <2>2, <2>5, <2>7, <3>2
      <3>4. a \in w.sounds
        BY <1>4, <1>12, <3>3
      <3> QED
        BY <3>1, <3>4
    <2>10. mem'.vol = m.vol /\ mem'.timers \subseteq m.timers
      BY <2>2, <2>5
    <2> QED
      BY <1>7, <1>12, <2>6, <2>9, <2>10
  <1>13. ASSUME NEW o \in Still, Journals(d, ended, "expire", o, {}, {}) PROVE RingInv'
    <2>1. o \in Held(d, m) /\ Executable(d, m, o)
      BY CurrentHeld
    <2> HIDE DEF ended
    <2>2. Known(d, ended, hist, boot)
      BY <1>1, <1>2, KnownSame
    <2>3. o \in Held(d, ended) /\ Executable(d, ended, o)
      BY <1>2, <2>1, ActiveSame
    <2>4. StopAt(now, d, ended, ctl, hist, calm)
      <3>1. now <= now /\ (calm => calm)
        OBVIOUS
      <3>2. Aged(now, d, ended)
        BY <1>1, <1>2 DEF Aged
      <3> QED
        BY <1>1, <1>2, <3>1, <3>2, QuietAt
    <2>5. ended.active = None /\ Matches(o, m.active.o)
      BY <1>2 DEF Current, Matches, Still
    <2> DEFINE none == {}
               act == "expire"
    <2>6. none = {} /\ Journals(d, ended, act, o, none, {})
      BY <1>13
    <2> HIDE DEF none, act
    <2> QED
      BY <1>2, <2>2, <2>3, <2>4, <2>5, <2>6, JournalsRing DEF calm
  <1>14. \/ a = None /\ Stays(m) /\ UNCHANGED left
         \/ /\ a # None /\ a.timer /\ UNCHANGED left
            /\ Stays(IF now < a.deadline THEN m ELSE [ended EXCEPT !.timers = @ \ {a.o}])
         \/ Still = {} /\ Stays(ended) /\ UNCHANGED left
         \/ a # None /\ ~a.timer /\ \E o \in Still : UNCHANGED left /\ Stays([m EXCEPT !.active.o = o])
         \/ \E o \in Still : Journals(d, ended, "expire", o, {}, {})
    BY DEF CheckActive
  <1> HIDE DEF a, ended, Stays, Still
  <1> QED
    BY <1>8, <1>9, <1>11, <1>12, <1>13, <1>14

\* The rings are followed from what it stored.
LEMMA PollBeginRing ==
    ASSUME Inv, StopInv, RingInv, PollBegin
    PROVE  RingInv'
  <1>1. PICK d, m :
             /\ CheckActive(d, m) /\ Known(d, m, hist, boot)
             /\ StopAt(now, d, m, ctl, hist, ~CommitFailed)
             /\ d.occ = disk.occ /\ Ops(d, m) = Ops(disk, mem)
             /\ m.active = mem.active /\ m.timers = mem.timers
             /\ ~CommitFailed => KidsOf(d) = KidsOf(disk)
             /\ d.rings \subseteq disk.rings
             /\ \A r \in disk.rings : r \in d.rings \/ ~Executable(disk, mem, r.o)
    BY PollBeginFrom
  <1> DEFINE calm == ~CommitFailed
             v == RingsOf(now, disk, mem, ctl, hist)
             w == RingsOf(now, d, m, ctl, hist)
  <1>2. /\ now \in Nat /\ boot \in Nat /\ left \in [Events -> Nat] /\ LeftOK
        /\ Entered(ctl, hist)
    BY StopFacts
  <1>3. /\ v.now = now /\ v.occ = disk.occ /\ v.kids = KidsOf(disk) /\ v.ops = Ops(disk, mem)
        /\ v.known = ctl.known /\ v.res = ctl.res /\ v.rings = disk.rings
        /\ v.timers = mem.timers /\ v.first = hist.first
        /\ \A a : a \in v.sounds <=> a = mem.active /\ a # None /\ ~a.timer
    <2> HIDE DEF v
    <2> QED
      BY RingsRead DEF v
  <1>4. /\ w.now = now /\ w.occ = d.occ /\ w.kids = KidsOf(d) /\ w.ops = Ops(d, m)
        /\ w.known = ctl.known /\ w.res = ctl.res /\ w.rings = d.rings
        /\ w.timers = m.timers /\ w.first = hist.first
        /\ \A a : a \in w.sounds <=> a = m.active /\ a # None /\ ~a.timer
    <2> HIDE DEF w
    <2> QED
      BY RingsRead DEF w
  <1>5. RingAt(v, calm)
    BY DEF RingInv
  <1>6. /\ calm => KidsOf(d) = KidsOf(disk)
        /\ StopAt(now, d, m, ctl, hist, calm) /\ w = RingsOf(now, d, m, ctl, hist)
    BY <1>1
  <1> HIDE DEF v, w, calm
  <1>7. \A k \in w.kids : IsChild(k)
    <2>1. calm => Unique(w)
      BY <1>3, <1>4, <1>5 DEF RingAt, Unique
    <2> QED
      BY <1>6, <2>1, CachedOnce
  <1>8. /\ w.occ = v.occ /\ (calm => w.kids = v.kids) /\ w.known = v.known /\ w.res = v.res
        /\ w.first \subseteq v.first /\ v.now \in Nat /\ w.now \in Nat /\ v.now <= w.now
        /\ w.rings \subseteq v.rings
    BY <1>1, <1>2, <1>3, <1>4, <1>6
  <1>9. \A r \in v.rings : r \in w.rings \/ Blocks(v, r.o)
    BY <1>1, <1>3, <1>4 DEF Executable, Blocks
  <1>10. \A op \in w.ops : \E p \in v.ops : op.target = p.target /\ (calm => op = p)
    BY <1>1, <1>3, <1>4
  <1>11. \A a \in w.sounds : a \in v.sounds
    BY <1>1, <1>3, <1>4
  <1>12. \A a \in v.sounds : a \in w.sounds
    BY <1>1, <1>3, <1>4
  <1>13. \A t \in w.timers : IsChild(t)
    BY <1>1, <1>3, <1>4, <1>5 DEF RingAt, Limits
  <1>14. RingAt(w, calm)
    <2>1. \A a \in w.sounds : \E b \in v.sounds : Matches(a.o, b.o) /\ a.deadline = b.deadline
      BY <1>11 DEF Matches
    <2>2. \A f \in w.first, a \in v.sounds :
             Counts(f, calm) /\ ~f.kept /\ a.o \in Cached(v) /\ Matches(a.o, f.o) =>
                \E b \in w.sounds : b.o = a.o
      BY <1>12
    <2> QED
      BY <1>5, <1>7, <1>8, <1>9, <1>10, <1>13, <2>1, <2>2, RingStays
  <1>15. UNCHANGED <<now, ctl>>
    BY DEF PollBegin
  <1> QED
    BY <1>1, <1>2, <1>14, <1>15, CheckActiveRing DEF calm, w

\* PollExpire ends what may ring.
LEMMA PollExpireRing ==
    ASSUME Inv, StopInv, RingInv, PollExpire
    PROVE  RingInv'
  <1>1. PICK c \in Heads(disk, mem) :
          Expired(disk, mem, c) /\ Journals(disk, mem, "expire", c.o, {}, {})
    BY DEF PollExpire
  <1>2. /\ now \in Nat /\ boot \in Nat /\ left \in [Events -> Nat] /\ LeftOK
        /\ Known(disk, mem, hist, boot) /\ Entered(ctl, hist)
        /\ StopAt(now, disk, mem, ctl, hist, ~CommitFailed)
    BY StopFacts
  <1>3. c.o \in Held(disk, mem) /\ Executable(disk, mem, c.o)
    BY <1>1, HeadArmed DEF Heads, Expired
  <1> DEFINE none == {}
             act == "expire"
             o == c.o
  <1>4. none = {} /\ Journals(disk, mem, act, o, none, {})
    BY <1>1
  <1>5. UNCHANGED <<now, ctl>> /\ o \in Held(disk, mem) /\ Executable(disk, mem, o)
    BY <1>3 DEF PollExpire
  <1>6. RingAt(RingsOf(now, disk, mem, ctl, hist), ~CommitFailed)
    BY DEF RingInv
  <1> HIDE DEF none, act, o
  <1> QED
    BY <1>2, <1>4, <1>5, <1>6, JournalsRing

\* A stop or snooze made on the speaker.
LEMMA ActRing ==
    ASSUME Inv, StopInv, RingInv, NEW act, NEW o \in Held(disk, mem), Act(act, o)
    PROVE  RingInv'
  <1> DEFINE isActive == mem.active # None /\ mem.active.o = o
             a == IF isActive THEN None ELSE mem.active
             m0 == [mem EXCEPT !.active = a]
             m == Signal(m0)
             none == {}
             cs == {SnoozeChild(o)}
             cost == {"act"}
  <1>1. /\ now \in Nat /\ boot \in Nat /\ left \in [Events -> Nat] /\ LeftOK
        /\ Known(disk, mem, hist, boot) /\ IsDisk(disk, boot) /\ IsMem(mem)
        /\ HistShape(hist) /\ CtlShape(ctl) /\ Entered(ctl, hist)
        /\ StopAt(now, disk, mem, ctl, hist, ~CommitFailed) /\ Aged(now, disk, mem)
    BY StopFacts
  <1>2. [mem EXCEPT !.active = mem.active] = mem
    BY <1>1 DEF IsMem, MemShape, MemOf
  <1>3. Signal(IF isActive THEN [mem EXCEPT !.active = None] ELSE mem) = m
    <2>1. CASE isActive
      BY <2>1
    <2>2. CASE ~isActive
      BY <1>2, <2>2
    <2> QED
      BY <2>1, <2>2
  <1>4. \/ act = "dismiss" /\ Journals(disk, m, act, o, none, cost)
        \/ act = "snooze" /\ isActive /\ Journals(disk, m, act, o, cs, cost)
    BY <1>3, SMTT(30) DEF Act
  <1>5. (a # None => IsActive(a)) /\ (a = None \/ a = mem.active)
        /\ (a = mem.active \/ (a = None /\ Matches(o, mem.active.o)))
    BY <1>1 DEF IsMem, Matches
  <1> HIDE DEF a
  <1>6. IsMem(m0) /\ m0.vol = mem.vol /\ m0.active = a /\ m0.timers = mem.timers
    BY <1>1, <1>5, ActiveSet
  <1> HIDE DEF m0
  <1>7. IsMem(m) /\ m.vol = mem.vol /\ m.active = a /\ m.timers = mem.timers
    BY <1>6, SignalEffect
  <1> HIDE DEF m
  <1>8. Known(disk, m, hist, boot)
    BY <1>1, <1>7, KnownSame
  <1>9. Aged(now, disk, m)
    BY <1>1, <1>5, <1>7 DEF Aged
  <1> DEFINE calm == ~CommitFailed
  <1>10. StopAt(now, disk, mem, ctl, hist, calm)
    BY <1>1
  <1> HIDE DEF calm
  <1>11. StopAt(now, disk, m, ctl, hist, calm)
    <2>1. now <= now /\ (calm => calm)
      BY <1>1
    <2> QED
      BY <1>1, <1>7, <1>9, <1>10, <2>1, QuietAt
  <1>12. o \in Held(disk, m) /\ Executable(disk, m, o)
    BY <1>7, ActiveSame DEF Act
  <1>13. UNCHANGED <<now, ctl>>
    BY DEF Act
  <1>14. RingAt(RingsOf(now, disk, mem, ctl, hist), calm)
    BY DEF RingInv, calm
  <1> HIDE DEF cost
  <1>15. CASE Journals(disk, m, act, o, none, cost)
    <2>1. none = {}
      OBVIOUS
    <2> HIDE DEF none, cs
    <2> QED
      BY <1>1, <1>5, <1>7, <1>8, <1>11, <1>12, <1>13, <1>14, <1>15, <2>1, JournalsRing DEF calm
  <1>16. CASE Journals(disk, m, act, o, cs, cost)
    <2>1. cs = {SnoozeChild(o)}
      OBVIOUS
    <2> HIDE DEF none, cs
    <2> QED
      BY <1>1, <1>5, <1>7, <1>8, <1>11, <1>12, <1>13, <1>14, <1>16, <2>1, JournalsRing DEF calm
  <1> QED
    BY <1>4, <1>15, <1>16

\* A ring that starts where a record leaves it, and one of a timer.
LEMMA RingResumes ==
    ASSUME NEW v, NEW w, NEW calm, RingAt(v, calm), v.sounds = {},
           w.now = v.now, w.occ = v.occ, w.kids = v.kids, w.ops = v.ops, w.known = v.known,
           w.res = v.res, w.timers = v.timers, w.rings = v.rings, w.first = v.first,
           \A a \in w.sounds : \E r \in v.rings :
              a.o = r.o /\ (a.deadline = r.deadline \/ a.deadline = r.utc \/ a.deadline = 0)
    PROVE  RingAt(w, calm)
  <1>1. \A o : Blocks(w, o) = Blocks(v, o) /\ Shown(w, o) = Shown(v, o)
    BY DEF Blocks, Shown
  <1>2. Cached(w) = Cached(v) /\ \A o : HasRing(w, o) = HasRing(v, o)
    BY DEF Cached, HasRing
  <1>3. ASSUME NEW f \in w.first
        PROVE  /\ Dated(w, f) /\ (calm => f.kept) /\ Followed(w, f, calm)
               /\ Counts(f, calm) => Within(w, f)
    <2>1. /\ Dated(v, f) /\ (calm => f.kept) /\ Followed(v, f, calm)
          /\ Counts(f, calm) => Within(v, f)
      BY DEF RingAt
    <2>2. Dated(w, f)
      BY <2>1 DEF Dated
    <2>3. Stray(v, f.o) => Stray(w, f.o)
      BY <1>1 DEF Stray
    <2>4. Followed(w, f, calm)
      BY <1>1, <1>2, <2>1, <2>3 DEF Followed
    <2>5. ASSUME Counts(f, calm) PROVE Within(w, f)
      <3>1. Within(v, f) /\ f.at \in Nat
        BY <2>1, <2>5 DEF Dated
      <3>2. ASSUME NEW a \in w.sounds, Matches(a.o, f.o) PROVE a.deadline <= f.at + MaxRingMs
        <4>1. PICK r \in v.rings :
                a.o = r.o /\ (a.deadline = r.deadline \/ a.deadline = r.utc \/ a.deadline = 0)
          OBVIOUS
        <4>2. r.deadline <= f.at + MaxRingMs /\ r.utc <= f.at + MaxRingMs
          BY <3>1, <3>2, <4>1 DEF Within
        <4>3. 0 <= f.at + MaxRingMs
          BY <3>1, TimeAssumption
        <4> QED
          BY <4>1, <4>2, <4>3
      <3> QED
        BY <3>1, <3>2 DEF Within
    <2> QED
      BY <2>1, <2>2, <2>4, <2>5
  <1>4. Limits(w)
    BY DEF RingAt, Limits
  <1>5. calm => Unique(w) /\ Refused(w)
    BY <1>1 DEF RingAt, Unique, Refused
  <1> QED
    BY <1>3, <1>4, <1>5 DEF RingAt

\* A ring that has no record: none that counts was of the same occurrence.
LEMMA RingStarts ==
    ASSUME NEW v, NEW w, NEW calm, RingAt(v, calm), NEW calm2, calm2 => calm,
           v.sounds = {}, v.now \in Nat,
           w.now = v.now, w.occ = v.occ, w.kids = v.kids, w.ops = v.ops, w.known = v.known,
           w.res = v.res, w.timers = v.timers,
           NEW c, Plain(c), c.due <= v.now, ~Blocks(v, c), ~HasRing(v, c),
           ~IsChild(c) => c \in v.occ, calm => c \in Cached(v),
           c \notin Cached(v) => IsChild(c),
           calm \/ ~IsChild(c) => \A o \in Cached(v) : Matches(o, c) => o = c,
           NEW e, e = v.now + MaxRingMs,
           \A a \in w.sounds : a.o = c /\ a.deadline = e, v.rings \subseteq w.rings,
           \A r \in w.rings : \/ r \in v.rings
                              \/ r.o = c /\ r.deadline = e /\ (r.utc = e \/ r.utc = 0),
           \A f \in w.first :
              \/ f \in v.first
              \/ /\ f.o = c /\ f.at = v.now /\ (calm2 => f.kept)
                 /\ HasRing(w, c) \/ (~f.kept /\ \E a \in w.sounds : a.o = c)
    PROVE  RingAt(w, calm2)
  <1>1. \A o : Blocks(w, o) = Blocks(v, o) /\ Shown(w, o) = Shown(v, o)
    BY DEF Blocks, Shown
  <1>2. Cached(w) = Cached(v) /\ \A o : HasRing(v, o) => HasRing(w, o)
    BY DEF Cached, HasRing
  <1>3. e \in Nat /\ 0 <= e
    BY TimeAssumption
  <1>4. Limits(v)
    BY DEF RingAt
  <1>5. Limits(w)
    BY <1>3, <1>4 DEF Limits
  <1>6. ASSUME NEW f \in v.first
        PROVE  /\ Dated(w, f) /\ (calm2 => f.kept) /\ Followed(w, f, calm2)
               /\ Counts(f, calm2) => Within(w, f)
    <2>1. /\ Dated(v, f) /\ (calm => f.kept) /\ Followed(v, f, calm)
          /\ Counts(f, calm) => Within(v, f)
      BY DEF RingAt
    <2>2. Dated(w, f)
      BY <2>1 DEF Dated
    <2>3. Stray(v, f.o) => Stray(w, f.o)
      BY <1>1 DEF Stray
    <2>4. Counts(f, calm2) => Counts(f, calm)
      BY DEF Counts
    <2>5. Followed(w, f, calm2)
      BY <1>1, <1>2, <2>1, <2>3, <2>4 DEF Followed
    <2>6. Counts(f, calm2) => ~Matches(c, f.o)
      <3> SUFFICES ASSUME Counts(f, calm2), Matches(c, f.o) PROVE FALSE
        OBVIOUS
      <3>1. CASE c \in Cached(v)
        BY <2>1, <2>4, <3>1 DEF Followed
      <3>2. CASE c \notin Cached(v)
        <4>1. IsChild(f.o)
          BY <3>2, ChildMatch
        <4> QED
          BY <3>2, <4>1 DEF Counts
      <3> QED
        BY <3>1, <3>2
    <2>7. Counts(f, calm2) => Within(w, f)
      BY <2>1, <2>4, <2>6 DEF Within
    <2> QED
      BY <2>1, <2>2, <2>5, <2>7
  <1>7. ASSUME NEW f \in w.first, f.o = c, f.at = v.now, calm2 => f.kept,
               HasRing(w, c) \/ (~f.kept /\ \E a \in w.sounds : a.o = c)
        PROVE  /\ Dated(w, f) /\ (calm2 => f.kept) /\ Followed(w, f, calm2)
               /\ Counts(f, calm2) => Within(w, f)
    <2>1. Dated(w, f)
      BY <1>7 DEF Dated
    <2>2. Followed(w, f, calm2)
      <3>1. ~Blocks(w, f.o) /\ (~IsChild(f.o) => f.o \in w.occ)
        BY <1>1, <1>7
      <3>2. calm2 => \E o \in Cached(w) : Matches(o, f.o)
        BY <1>2, <1>7 DEF Matches
      <3>3. Counts(f, calm2) => \A o \in Cached(w) : Matches(o, f.o) => o = c
        BY <1>2, <1>7 DEF Counts
      <3> QED
        BY <1>7, <3>1, <3>2, <3>3 DEF Followed
    <2>3. Within(w, f)
      BY <1>3, <1>4, <1>7 DEF Within, Limits
    <2> QED
      BY <1>7, <2>1, <2>2, <2>3
  <1>8. calm2 => Unique(w) /\ Refused(w)
    BY <1>1 DEF RingAt, Unique, Refused
  <1> QED
    BY <1>5, <1>6, <1>7, <1>8 DEF RingAt

\* What stands for none is neither a ring nor an answer.
NoneApart == ~IsActive(None) /\ None # "rejected"

\* A ring that starts, from its record or with a new one.
LEMMA PollStartRing ==
    ASSUME Inv, StopInv, RingInv, PollStart, NoneApart
    PROVE  RingInv'
  <1> DEFINE Rs(x) == IF x.timer THEN {} ELSE RingOf(disk, x.o)
             End(x) == IF Rs(x) = {} THEN now + MaxRingMs
                       ELSE RingMono(mem, CHOOSE r \in Rs(x) : TRUE)
             Ring(x) == [o |-> x.o, boot |-> boot, first |-> now, deadline |-> End(x),
                         utc |-> IF mem.trusted THEN End(x) ELSE 0]
             Noted(x, k) == [hist EXCEPT !.first = @ \cup {[o |-> x.o, at |-> now, kept |-> k]}]
  <1>1. PICK z \in Heads(disk, mem) :
          /\ mem' = [mem EXCEPT !.active = [o |-> z.o, timer |-> z.timer, deadline |-> End(z)]]
          /\ \/ (z.timer \/ Rs(z) # {}) /\ UNCHANGED <<disk, hist, left>>
             \/ /\ ~z.timer /\ Rs(z) = {}
                /\ \/ Commits([disk EXCEPT !.rings = @ \cup {Ring(z)}]) /\ hist' = Noted(z, TRUE)
                   \/ CommitFails(disk) /\ hist' = Noted(z, FALSE)
    BY DEF PollStart
  <1> DEFINE c == z.o
             e == End(z)
             a == [o |-> c, timer |-> z.timer, deadline |-> e]
             calm == ~CommitFailed
             calm2 == ~CommitFailed'
             v == RingsOf(now, disk, mem, ctl, hist)
             w == RingsOf(now', disk', mem', ctl', hist')
  <1>2. /\ now \in Nat /\ left \in [Events -> Nat] /\ LeftOK /\ IsDisk(disk, boot) /\ IsMem(mem)
        /\ HistShape(hist) /\ StopAt(now, disk, mem, ctl, hist, calm)
    BY StopFacts
  <1>3. c.due \in Nat /\ c.due <= now
    BY <1>2, HeadDue
  <1>4. IsActive(a) /\ a.o = c /\ a.deadline = e /\ a.timer = z.timer
    <2> HIDE DEF e
    <2> QED
      BY DEF IsActive
  <1>5. mem' = [mem EXCEPT !.active = a] /\ mem.active = None
    BY <1>1 DEF PollStart
  <1>6. UNCHANGED <<now, ctl>>
    BY DEF PollStart
  <1>7. /\ v.now = now /\ v.occ = disk.occ /\ v.kids = KidsOf(disk) /\ v.ops = Ops(disk, mem)
        /\ v.known = ctl.known /\ v.res = ctl.res /\ v.rings = disk.rings
        /\ v.timers = mem.timers /\ v.first = hist.first
        /\ \A b : b \in v.sounds <=> b = mem.active /\ b # None /\ ~b.timer
    <2> HIDE DEF v
    <2> QED
      BY RingsRead DEF v
  <1>8. /\ w.now = now' /\ w.occ = disk'.occ /\ w.kids = KidsOf(disk')
        /\ w.ops = Ops(disk', mem') /\ w.known = ctl'.known /\ w.res = ctl'.res
        /\ w.rings = disk'.rings /\ w.timers = mem'.timers /\ w.first = hist'.first
        /\ \A b : b \in w.sounds <=> b = mem'.active /\ b # None /\ ~b.timer
    <2> HIDE DEF w
    <2> QED
      BY RingsRead DEF w
  <1>9. RingAt(v, calm) /\ RingInv' = RingAt(w, calm2)
    BY DEF RingInv
  <1>10. v = RingsOf(now, disk, mem, ctl, hist)
    OBVIOUS
  <1> DEFINE s == ViewOf(now, disk, mem, ctl, hist)
  <1>11. /\ \A k \in VolatileKids(mem) : IsChild(k)
         /\ calm => mem.vol = {}
    <2>1. s.kids = KidsOf(disk) \cup VolatileKids(mem)
      BY DEF ViewOf
    <2>2. Forms(s) /\ (calm => mem.vol = {})
      BY <1>2 DEF StopAt
    <2> HIDE DEF s
    <2> QED
      BY <2>1, <2>2 DEF Forms, Child
  <1>12. CommitFails(disk) => ~calm2
    <2> DEFINE cost == {"commit"}
    <2>1. CommitFails(disk) => Spends(cost) /\ "commit" \in cost
      BY DEF CommitFails
    <2> HIDE DEF cost
    <2> QED
      BY <1>2, <2>1, CommitSpent
  <1>13. calm2 => calm
    <2>1. CommitFails(disk) \/ UNCHANGED left
      BY <1>1 DEF Commits
    <2> QED
      BY <1>12, <2>1 DEF CommitFailed
  <1> HIDE DEF v, w, s, calm, calm2, a
  <1>14. mem'.active = a /\ mem'.vol = mem.vol /\ mem'.timers = mem.timers
    BY <1>2, <1>4, <1>5, ActiveSet
  <1>15. v.sounds = {} /\ \A b \in w.sounds : b = a /\ b.o = c /\ b.deadline = e /\ ~z.timer
    BY <1>4, <1>5, <1>7, <1>8, <1>14
  <1> HIDE DEF c
  <1>16. CASE (z.timer \/ Rs(z) # {}) /\ UNCHANGED <<disk, hist, left>>
    <2>1. /\ w.now = v.now /\ w.occ = v.occ /\ w.kids = v.kids /\ w.ops = v.ops
          /\ w.known = v.known /\ w.res = v.res /\ w.timers = v.timers /\ w.rings = v.rings
          /\ w.first = v.first
      BY <1>6, <1>7, <1>8, <1>14, <1>16 DEF Ops
    <2>2. calm2 = calm
      BY <1>16 DEF calm, calm2, CommitFailed
    <2>3. ASSUME ~z.timer
          PROVE  \E r \in v.rings :
                   c = r.o /\ (e = r.deadline \/ e = r.utc \/ e = 0)
      <3>1. Rs(z) # {} /\ Rs(z) = RingOf(disk, z.o)
        BY <1>16, <2>3
      <3> DEFINE r == CHOOSE r \in Rs(z) : TRUE
      <3>2. e = RingMono(mem, r)
        BY <3>1
      <3>3. r \in disk.rings /\ r.o = c
        BY <3>1 DEF RingOf, c
      <3> HIDE DEF r, Rs, e
      <3> QED
        BY <1>7, <3>2, <3>3 DEF RingMono
    <2> HIDE DEF e
    <2>4. RingAt(w, calm)
      BY <1>9, <1>15, <2>1, <2>3, RingResumes
    <2> QED
      BY <1>9, <2>2, <2>4
  <1>17. CASE /\ ~z.timer /\ Rs(z) = {}
              /\ \/ Commits([disk EXCEPT !.rings = @ \cup {Ring(z)}]) /\ hist' = Noted(z, TRUE)
                 \/ CommitFails(disk) /\ hist' = Noted(z, FALSE)
    <2>1. e = v.now + MaxRingMs
      BY <1>7, <1>17
    <2>2. c \in Held(disk, mem) /\ Executable(disk, mem, c)
      BY <1>17, HeadArmed DEF Heads, c
    <2>3. Plain(c)
      BY <1>2, <2>2, HeldPlain
    <2>4. ~HasRing(v, c)
      BY <1>7, <1>17 DEF HasRing, RingOf, c
    <2>5. ~Blocks(v, c)
      BY <1>7, <2>2 DEF Blocks, Executable
    <2>6. calm => Unique(v)
      BY <1>9 DEF RingAt
    <2>7. /\ \A k \in v.kids : IsChild(k)
          /\ calm => \A x, y \in Cached(v) : Matches(x, y) => x = y
          /\ \A x, y \in Cached(v) : Matches(x, y) /\ ~IsChild(y) => x = y
      BY <1>2, <1>10, <2>6, CachedOnce
    <2>8. c \in Cached(v) \/ c \in VolatileKids(mem)
      BY <1>7, <2>2 DEF Cached, Held
    <2>9. /\ ~IsChild(c) => c \in v.occ
          /\ calm => c \in Cached(v)
          /\ c \notin Cached(v) => IsChild(c)
      BY <1>11, <2>7, <2>8 DEF Cached, VolatileKids
    <2>10. calm \/ ~IsChild(c) => \A o \in Cached(v) : Matches(o, c) => o = c
      BY <2>7, <2>9
    <2>11. c.due <= v.now /\ v.now \in Nat
      BY <1>2, <1>3, <1>7
    <2> DEFINE r == Ring(z)
               rings == disk.rings \cup {r}
               f1 == [o |-> c, at |-> now, kept |-> TRUE]
               f2 == [o |-> c, at |-> now, kept |-> FALSE]
    <2>12. r.o = c /\ r.deadline = e /\ (r.utc = e \/ r.utc = 0)
      <3> HIDE DEF End
      <3>1. r.utc = IF mem.trusted THEN e ELSE 0
        OBVIOUS
      <3> QED
        BY <3>1 DEF c
    <2> HIDE DEF r, End
    <2>13. ASSUME NEW k, hist' = Noted(z, k)
           PROVE  hist'.first = hist.first \cup {[o |-> c, at |-> now, kept |-> k]}
      <3> DEFINE f == hist.first \cup {[o |-> c, at |-> now, kept |-> k]}
      <3>1. hist' = [hist EXCEPT !.first = f]
        BY <2>13, SMTT(30) DEF c
      <3> HIDE DEF f
      <3>2. hist' \in HistOf(hist.stopped, f, hist.made, hist.answered, hist.lost)
        BY <1>2, <3>1, HistFields
      <3> QED
        BY <3>2, HistRead DEF f
    <2>14. a \in w.sounds
      BY <1>4, <1>8, <1>14, <1>17 DEF NoneApart
    <2>15. CASE Commits([disk EXCEPT !.rings = @ \cup {Ring(z)}]) /\ hist' = Noted(z, TRUE)
      <3>1. disk' = [disk EXCEPT !.rings = rings]
        BY <2>15, SMTT(30) DEF Commits, r
      <3> HIDE DEF rings
      <3>2. disk' \in DiskOf(disk.occ, disk.ops, disk.kids, disk.armed, rings, disk.anchor)
        BY <1>2, <3>1, DiskFields DEF IsDisk
      <3>3. /\ disk'.occ = disk.occ /\ disk'.ops = disk.ops /\ disk'.kids = disk.kids
            /\ disk'.rings = rings
        BY <3>2, DiskRead
      <3>4. /\ w.now = v.now /\ w.occ = v.occ /\ w.kids = v.kids /\ w.ops = v.ops
            /\ w.known = v.known /\ w.res = v.res /\ w.timers = v.timers
        BY <1>6, <1>7, <1>8, <1>14, <3>3 DEF Ops, KidsOf
      <3>5. /\ v.rings \subseteq w.rings /\ HasRing(w, c)
            /\ \A q \in w.rings : \/ q \in v.rings
                                  \/ q.o = c /\ q.deadline = e /\ (q.utc = e \/ q.utc = 0)
        BY <1>7, <1>8, <2>12, <3>3 DEF rings, HasRing
      <3>6. f1.o = c /\ f1.at = now /\ f1.kept
        OBVIOUS
      <3>7. hist'.first = hist.first \cup {f1}
        BY <2>13, <2>15
      <3> HIDE DEF f1
      <3>8. \A f \in w.first :
              \/ f \in v.first
              \/ /\ f.o = c /\ f.at = v.now /\ (calm2 => f.kept)
                 /\ HasRing(w, c) \/ (~f.kept /\ \E b \in w.sounds : b.o = c)
        BY <1>7, <1>8, <3>5, <3>6, <3>7
      <3> HIDE DEF e
      <3>9. RingAt(w, calm2)
        BY <1>9, <1>13, <1>15, <2>1, <2>3, <2>4, <2>5, <2>9, <2>10, <2>11, <3>4, <3>5, <3>8, RingStarts
      <3> QED
        BY <1>9, <3>9
    <2>16. CASE CommitFails(disk) /\ hist' = Noted(z, FALSE)
      <3>1. disk' = disk
        BY <2>16 DEF CommitFails
      <3>2. /\ w.now = v.now /\ w.occ = v.occ /\ w.kids = v.kids /\ w.ops = v.ops
            /\ w.known = v.known /\ w.res = v.res /\ w.timers = v.timers /\ w.rings = v.rings
        BY <1>6, <1>7, <1>8, <1>14, <3>1 DEF Ops
      <3>3. f2.o = c /\ f2.at = now /\ ~f2.kept
        OBVIOUS
      <3>4. hist'.first = hist.first \cup {f2}
        BY <2>13, <2>16
      <3> HIDE DEF f2
      <3>5. ~calm2
        BY <1>12, <2>16
      <3>6. a \in w.sounds /\ a.o = c
        BY <1>4, <2>14
      <3>7. \A f \in w.first :
              \/ f \in v.first
              \/ /\ f.o = c /\ f.at = v.now /\ (calm2 => f.kept)
                 /\ HasRing(w, c) \/ (~f.kept /\ \E b \in w.sounds : b.o = c)
        BY <1>7, <1>8, <3>3, <3>4, <3>5, <3>6
      <3> HIDE DEF e
      <3>8. RingAt(w, calm2)
        BY <1>9, <1>13, <1>15, <2>1, <2>3, <2>4, <2>5, <2>9, <2>10, <2>11, <3>2, <3>7, RingStarts
      <3> QED
        BY <1>9, <3>8
    <2> QED
      BY <1>17, <2>15, <2>16
  <1> QED
    BY <1>1, <1>16, <1>17

\* A delivery: the ring record of what stays stays, and that of a child goes to
\* the copy that replaces it.
LEMMA RingDelivers ==
    ASSUME NEW v, NEW w, NEW calm, RingAt(v, calm), v.now \in Nat,
           w.now = v.now, w.known = v.known, w.res = v.res, w.timers = v.timers,
           w.sounds = v.sounds, v.occ \subseteq v.known, w.occ \subseteq v.known,
           \A x \in v.known : Plain(x), \A k \in v.kids : IsChild(k),
           calm => \A x, y \in Cached(v) : Matches(x, y) => x = y,
           calm => \A x \in v.occ, k \in v.kids : ~Matches(x, k),
           w.kids \subseteq v.kids, w.ops \subseteq v.ops, Carries(w.rings, v.rings),
           w.first \subseteq v.first, \A f \in w.first : \E o \in Cached(w) : Matches(o, f.o),
           NEW put, put = w.occ \ v.occ,
           \A r \in v.rings :
              /\ r.o \in w.occ /\ (r.o \in put \/ r.o \notin v.kids) => HasRing(w, r.o)
              /\ r.o \in w.kids => HasRing(w, r.o)
              /\ r.o \in v.kids \ w.occ =>
                   \A x \in put : Matches(x, r.o) /\ (\A y \in w.occ : Matches(y, r.o) => y = x) =>
                      HasRing(w, x)
    PROVE  RingAt(w, calm)
  <1>1. \A o : (Blocks(w, o) => Blocks(v, o)) /\ Shown(w, o) = Shown(v, o)
    BY DEF Blocks, Shown
  <1>2. calm => Unique(v) /\ Refused(v)
    BY DEF RingAt
  <1>3. ASSUME NEW f \in w.first PROVE Followed(w, f, calm)
    <2>1. Followed(v, f, calm) /\ Dated(v, f) /\ (calm => f.kept)
      BY DEF RingAt
    <2>2. \E o \in Cached(w) : Matches(o, f.o)
      OBVIOUS
    <2>3. ASSUME ~IsChild(f.o), NEW o \in Cached(w), Matches(o, f.o)
          PROVE  o = f.o /\ o \in w.occ
      <3>1. o \in w.occ
        <4>1. ~IsChild(o)
          BY <2>3, ChildMatch
        <4> QED
          BY <2>3, <4>1 DEF Cached
      <3>2. Plain(o) /\ Plain(f.o) /\ Matches(f.o, o)
        BY <2>1, <2>3, <3>1 DEF Dated, Matches
      <3> QED
        BY <2>3, <3>1, <3>2, PlainMatch
    <2>4. ~IsChild(f.o) => f.o \in w.occ
      BY <2>2, <2>3
    <2>5. ASSUME ~IsChild(f.o), NEW o \in Cached(w), Matches(o, f.o)
          PROVE  HasRing(w, o) \/ (~f.kept /\ \E a \in w.sounds : a.o = o)
      <3>1. o = f.o /\ o \in w.occ /\ o \in v.occ
        BY <2>1, <2>3, <2>5 DEF Followed
      <3>2. HasRing(v, o) \/ (~f.kept /\ \E a \in v.sounds : a.o = o)
        BY <2>1, <2>5, <3>1 DEF Followed, Cached, Counts
      <3>3. o \notin v.kids
        BY <2>5, <3>1
      <3> QED
        BY <3>1, <3>2, <3>3 DEF HasRing
    <2>6. ASSUME calm, IsChild(f.o), NEW o \in Cached(w), Matches(o, f.o)
          PROVE  HasRing(w, o)
      <3>1. PICK h \in Cached(v) : Matches(h, f.o)
        <4>1. CASE Stray(v, f.o)
          <5>1. o \notin w.occ
            BY <2>6, <4>1 DEF Stray, Shown
          <5> QED
            BY <2>6, <5>1 DEF Cached
        <4> QED
          BY <2>1, <2>6, <4>1 DEF Followed
      <3>2. HasRing(v, h)
        BY <2>1, <2>6, <3>1 DEF Followed, Counts
      <3>3. PICK r \in v.rings : r.o = h
        BY <3>2 DEF HasRing
      <3>4. Matches(o, h)
        BY <2>6, <3>1 DEF Matches
      <3>5. CASE o \in w.kids
        <4>1. o = h
          BY <2>6, <3>4, <3>5 DEF Cached
        <4> QED
          BY <3>3, <3>5, <4>1
      <3>6. CASE o \in w.occ /\ h \in v.occ
        <4>1. o = h
          BY <1>2, <2>6, <3>4, <3>6 DEF Unique
        <4>2. h \notin v.kids
          BY <2>6, <3>6 DEF Matches
        <4> QED
          BY <3>3, <3>6, <4>1, <4>2
      <3>7. CASE o \in w.occ /\ h \in v.kids
        <4>1. o \in put
          BY <2>6, <3>4, <3>7
        <4>2. \A y \in w.occ : Matches(y, h) => y = o
          <5> SUFFICES ASSUME NEW y \in w.occ, Matches(y, h) PROVE y = o
            OBVIOUS
          <5>1. Matches(y, o)
            BY <3>4 DEF Matches
          <5> QED
            BY <1>2, <2>6, <3>7, <5>1 DEF Unique
        <4>3. CASE h \in w.occ
          <5>1. h = o
            BY <4>2, <4>3 DEF Matches
          <5> QED
            BY <3>3, <3>7, <4>1, <5>1
        <4>4. CASE h \notin w.occ
          BY <3>3, <3>4, <3>7, <4>1, <4>2, <4>4
        <4> QED
          BY <4>3, <4>4
      <3> QED
        BY <3>1, <3>5, <3>6, <3>7 DEF Cached
    <2>7. ~Blocks(w, f.o)
      BY <1>1, <2>1 DEF Followed
    <2> QED
      BY <2>2, <2>4, <2>5, <2>6, <2>7 DEF Followed, Counts
  <1>4. calm => Unique(w) /\ Refused(w)
    BY <1>1, <1>2 DEF Unique, Refused
  <1>5. \A t \in w.timers : IsChild(t)
    BY DEF RingAt, Limits
  <1>6. \A a \in w.sounds : \E b \in v.sounds : Matches(a.o, b.o) /\ a.deadline = b.deadline
    BY DEF Matches
  <1>7. (calm => calm) /\ w.now \in Nat /\ v.now <= w.now
    OBVIOUS
  <1> QED
    BY <1>3, <1>4, <1>5, <1>6, <1>7, RingKept

\* A delivery, or one that could not be stored.
LEMMA DeliveredRing ==
    ASSUME Inv, StopInv, RingInv, NEW put, put = Live \ disk.occ,
           NEW d, Installs(disk, d, Live, put), Delivered(put, d), SameCtl(ctl, ctl')
    PROVE  RingInv'
  <1> DEFINE calm == ~CommitFailed
             calm2 == ~CommitFailed'
             v == RingsOf(now, disk, mem, ctl, hist)
             w == RingsOf(now', disk', mem', ctl', hist')
             s == View
             n == Delivers(hist, disk, mem, d, put)
             cost == {"commit"}
  <1>1. /\ now \in Nat /\ left \in [Events -> Nat] /\ LeftOK /\ IsMem(mem) /\ HistShape(hist)
        /\ StopAt(now, disk, mem, ctl, hist, calm)
    BY StopFacts
  <1>2. now' = now /\ mem' = Signal(mem)
    BY DEF Delivered
  <1>3. \/ disk' = d /\ UNCHANGED left /\ hist' = n
        \/ disk' = disk /\ Spends(cost) /\ hist' = hist
    BY DEF Delivered, Commits, CommitFails
  <1>4. mem'.vol = mem.vol /\ mem'.active = mem.active /\ mem'.timers = mem.timers
    BY <1>1, <1>2, SignalEffect
  <1>5. RingAt(v, calm) /\ RingInv' = RingAt(w, calm2)
    BY DEF RingInv
  <1>6. /\ v.now = now /\ v.occ = disk.occ /\ v.kids = KidsOf(disk) /\ v.ops = Ops(disk, mem)
        /\ v.known = ctl.known /\ v.res = ctl.res /\ v.rings = disk.rings
        /\ v.timers = mem.timers /\ v.first = hist.first
        /\ \A a : a \in v.sounds <=> a = mem.active /\ a # None /\ ~a.timer
    <2> HIDE DEF v
    <2> QED
      BY RingsRead DEF v
  <1>7. /\ w.now = now' /\ w.occ = disk'.occ /\ w.kids = KidsOf(disk')
        /\ w.ops = Ops(disk', mem') /\ w.known = ctl'.known /\ w.res = ctl'.res
        /\ w.rings = disk'.rings /\ w.timers = mem'.timers /\ w.first = hist'.first
        /\ \A a : a \in w.sounds <=> a = mem'.active /\ a # None /\ ~a.timer
    <2> HIDE DEF w
    <2> QED
      BY RingsRead DEF w
  <1>8. v = RingsOf(now, disk, mem, ctl, hist) /\ (calm => Unique(v))
    BY <1>5 DEF RingAt
  <1>9. Forms(s) /\ s.cal = ctl.cal /\ s.known = ctl.known /\ s.stopped = hist.stopped
    <2>1. s.cal = ctl.cal /\ s.known = ctl.known /\ s.stopped = hist.stopped
      BY DEF View, ViewOf
    <2> QED
      BY <1>1, <2>1 DEF StopAt, View
  <1> HIDE DEF s, v, w, calm, calm2
  <1>10. Live \subseteq ctl.known /\ \A x \in ctl.known : Plain(x)
    BY <1>9 DEF Forms, Live
  <1>11. n.first = {f \in hist.first : \E o \in d.occ \cup KidsOf(d) : Matches(o, f.o)}
    <2>1. \A x \in hist.stopped : IsStop(x)
      BY <1>9 DEF Forms
    <2> QED
      BY <1>1, <2>1, DeliversStops
  <1> HIDE DEF n
  <1>12. ctl'.known = ctl.known /\ ctl'.res = ctl.res
    BY DEF SameCtl
  <1>13. CASE disk' = disk /\ Spends(cost) /\ hist' = hist
    <2>1. now' \in Nat /\ now <= now' /\ mem'.vol \subseteq mem.vol
          /\ hist'.first \subseteq hist.first
          /\ (\A t \in mem'.timers : IsChild(t) \/ t \in mem.timers)
          /\ disk'.occ = disk.occ /\ disk'.kids = disk.kids /\ disk'.ops = disk.ops
          /\ disk'.rings = disk.rings
      BY <1>1, <1>2, <1>4, <1>13
    <2> HIDE DEF cost
    <2> QED
      BY <1>4, <1>12, <1>13, <2>1, RingQuiet
  <1>14. CASE disk' = d /\ UNCHANGED left /\ hist' = n
    <2>1. calm2 = calm
      BY <1>14 DEF calm, calm2, CommitFailed
    <2>2. /\ v.occ \subseteq v.known
          /\ \A k \in v.kids : IsChild(k)
          /\ calm => \A x, y \in Cached(v) : Matches(x, y) => x = y
          /\ calm => \A x \in v.occ, k \in v.kids : ~Matches(x, k)
      BY <1>1, <1>8, CachedOnce
    <2>3. /\ w.occ = Live /\ w.kids = KidsOf(d) /\ w.rings = d.rings
          /\ w.kids \subseteq v.kids /\ Carries(w.rings, v.rings) /\ put = w.occ \ v.occ
          /\ KeepsRings(disk, d, Live, put)
      BY <1>6, <1>7, <1>14 DEF Installs
    <2>4. w.ops \subseteq v.ops
      BY <1>4, <1>6, <1>7, <1>14 DEF Ops, Installs
    <2>5. w.first \subseteq v.first /\ \A f \in w.first : \E o \in Cached(w) : Matches(o, f.o)
      BY <1>6, <1>7, <1>11, <1>14 DEF Cached
    <2>6. /\ w.now = v.now /\ w.known = v.known /\ w.res = v.res /\ w.timers = v.timers
          /\ v.now \in Nat
      BY <1>1, <1>2, <1>4, <1>6, <1>7, <1>12
    <2>7. w.sounds = v.sounds
      BY <1>4, <1>6, <1>7
    <2>8. w.occ \subseteq v.known /\ \A x \in v.known : Plain(x)
      BY <1>6, <1>10, <2>3
    <2>9. \A r \in v.rings :
              /\ r.o \in w.occ /\ (r.o \in put \/ r.o \notin v.kids) => HasRing(w, r.o)
              /\ r.o \in w.kids => HasRing(w, r.o)
              /\ r.o \in v.kids \ w.occ =>
                   \A x \in put : Matches(x, r.o) /\ (\A y \in w.occ : Matches(y, r.o) => y = x) =>
                      HasRing(w, x)
      BY <1>6, <2>3 DEF KeepsRings, HasRing
    <2>10. RingAt(w, calm)
      BY <1>5, <2>2, <2>3, <2>4, <2>5, <2>6, <2>7, <2>8, <2>9, RingDelivers
    <2> QED
      BY <1>5, <2>1, <2>10
  <1> QED
    BY <1>3, <1>13, <1>14

\* A delta is delivered.
LEMMA ApplyDeltaRing ==
    ASSUME Inv, StopInv, RingInv, ApplyDelta
    PROVE  RingInv'
  <1> DEFINE gone == (disk.occ \cup ctl.gone) \ Live
             put == Live \ disk.occ
             d == DeltaTxn(disk, mem, gone, put)
  <1>1. Delivered(put, d) /\ ctl' = [ctl EXCEPT !.gone = {}]
    BY DEF ApplyDelta
  <1>2. boot \in Nat /\ IsDisk(disk, boot)
    BY DEF Inv, TypeInv, Known
  <1>3. SameCtl(ctl, ctl')
    BY <1>1, CtlGone DEF StopInv
  <1>4. Live = (disk.occ \ gone) \cup put /\ put = Live \ disk.occ /\ gone \cap Live = {}
    OBVIOUS
  <1>5. Installs(disk, d, Live, put)
    <2> HIDE DEF gone, put
    <2> QED
      BY <1>2, <1>4, DeltaBrings
  <1> HIDE DEF d, put
  <1> QED
    BY <1>1, <1>3, <1>4, <1>5, DeliveredRing

\* A snapshot is delivered.
LEMMA ApplySnapshotRing ==
    ASSUME Inv, StopInv, RingInv, ApplySnapshot
    PROVE  RingInv'
  <1> DEFINE live == Live
             put == Live \ disk.occ
             d == SnapshotTxn(disk, mem, live)
  <1>1. Delivered(put, d) /\ ctl' = ctl
    BY DEF ApplySnapshot
  <1>2. boot \in Nat /\ IsDisk(disk, boot)
    BY DEF Inv, TypeInv, Known
  <1>3. SameCtl(ctl, ctl')
    BY <1>1 DEF StopInv, SameCtl
  <1>4. put = Live \ disk.occ /\ put \in SUBSET live
    OBVIOUS
  <1>5. Installs(disk, d, Live, put)
    <2> HIDE DEF live, put
    <2>1. Installs(disk, d, live, put)
      BY <1>2, <1>4, SnapshotBrings
    <2> QED
      BY <2>1 DEF live
  <1> HIDE DEF d, put
  <1> QED
    BY <1>1, <1>3, <1>4, <1>5, DeliveredRing

\* An answer, which may withdraw children that nothing will bring back.
LEMMA RingAnswers ==
    ASSUME NEW v, NEW w, NEW calm, RingAt(v, calm), NEW calm2, calm2 => calm, v.now \in Nat,
           w.now = v.now, w.occ = v.occ, w.known = v.known, w.res = v.res,
           w.timers = v.timers, w.sounds = v.sounds, w.first = v.first,
           NEW gone, gone \subseteq v.kids, w.kids = v.kids \ gone, \A k \in v.kids : IsChild(k),
           calm => \A x \in v.occ, k \in v.kids : ~Matches(x, k),
           w.rings \subseteq v.rings, \A r \in v.rings : r \in w.rings \/ r.o \in gone,
           \A p \in w.ops : \E q \in v.ops :
              /\ p.target = q.target
              /\ calm2 => p.id = q.id /\ p.child = q.child /\ (p.res = None => q.res = None),
           calm2 => \A c \in gone :
              ~Shown(v, c) /\ \A p \in w.ops : p.res = None => \A x \in p.child : ~Matches(x, c)
    PROVE  RingAt(w, calm2)
  <1>1. \A o : (Blocks(w, o) => Blocks(v, o)) /\ (Shown(w, o) <=> Shown(v, o))
    BY DEF Blocks, Shown
  <1>2. ASSUME NEW f \in w.first PROVE Followed(w, f, calm2)
    <2>1. Followed(v, f, calm)
      BY DEF RingAt
    <2>2. ASSUME calm2, IsChild(f.o)
          PROVE  (\E o \in Cached(w) : Matches(o, f.o)) \/ Stray(w, f.o)
      <3>1. CASE Stray(v, f.o)
        BY <1>1, <2>2, <3>1 DEF Stray
      <3>2. ASSUME NEW o \in Cached(v), Matches(o, f.o), o \notin Cached(w)
            PROVE  Stray(w, f.o)
        <4>1. o \in gone
          BY <3>2 DEF Cached
        <4>2. ~Shown(v, o) /\ \A p \in w.ops : p.res = None => \A x \in p.child : ~Matches(x, o)
          BY <2>2, <4>1
        <4>3. ~Shown(w, f.o)
          BY <1>1, <3>2, <4>2 DEF Shown, Matches
        <4> QED
          BY <3>2, <4>2, <4>3 DEF Stray, Matches
      <3> QED
        BY <2>1, <2>2, <3>1, <3>2 DEF Followed
    <2>3. ASSUME Counts(f, calm2), NEW o \in Cached(w), Matches(o, f.o)
          PROVE  HasRing(w, o) \/ (~f.kept /\ \E a \in w.sounds : a.o = o)
      <3>1. o \in Cached(v)
        BY DEF Cached
      <3>2. HasRing(v, o) \/ (~f.kept /\ \E a \in v.sounds : a.o = o)
        BY <2>1, <2>3, <3>1 DEF Followed, Counts
      <3>3. o \notin gone
        <4> SUFFICES ASSUME o \in gone PROVE FALSE
          OBVIOUS
        <4>1. o \in v.occ /\ o \in v.kids /\ IsChild(o)
          BY DEF Cached
        <4>2. IsChild(f.o)
          BY <2>3, <4>1, ChildMatch
        <4> QED
          BY <2>3, <4>1, <4>2 DEF Counts, Matches
      <3> QED
        BY <3>2, <3>3 DEF HasRing
    <2> QED
      BY <1>1, <2>1, <2>2, <2>3 DEF Followed
  <1>3. calm2 => Unique(w) /\ Refused(w)
    <2> SUFFICES ASSUME calm2 PROVE Unique(w) /\ Refused(w)
      OBVIOUS
    <2>1. Unique(v) /\ Refused(v)
      BY DEF RingAt
    <2>2. Unique(w)
      BY <2>1 DEF Unique
    <2>3. ASSUME NEW p \in w.ops, NEW r \in w.res, r.id = p.id, r.state = "rejected", NEW c \in p.child
          PROVE  ~Shown(w, c)
      <3>1. PICK q \in v.ops : p.id = q.id /\ p.child = q.child
        OBVIOUS
      <3> QED
        BY <1>1, <2>1, <2>3, <3>1 DEF Refused
    <2> QED
      BY <2>2, <2>3 DEF Refused
  <1>4. Carries(w.rings, v.rings)
    BY DEF Carries, Carried, Matches
  <1>5. \A t \in w.timers : IsChild(t)
    BY DEF RingAt, Limits
  <1>6. \A a \in w.sounds : \E b \in v.sounds : Matches(a.o, b.o) /\ a.deadline = b.deadline
    BY DEF Matches
  <1>7. w.now \in Nat /\ v.now <= w.now
    OBVIOUS
  <1> QED
    BY <1>2, <1>3, <1>4, <1>5, <1>6, <1>7, RingKept

\* An answer that reaches the speaker, the controller being as it is after the step:
\* while no write has failed, what it rejects has left no trace with the controller.
LEMMA AnswerRing ==
    ASSUME now \in Nat, boot \in Nat, left \in [Events -> Nat], LeftOK, NoneApart,
           Known(disk, mem, hist, boot), NEW h, HistShape(h), h.first = hist.first,
           now' = now, NEW calm, calm = ~CommitFailed,
           StopAt(now, disk, mem, ctl', hist, calm),
           RingAt(RingsOf(now, disk, mem, ctl', hist), calm),
           NEW id, NEW state, ApplyOpResult(id, state, h),
           \A op \in Ops(disk, mem) : op.id = id /\ calm =>
              /\ op.res = None
              /\ state = "rejected" => \A c \in op.child, x \in ctl'.known : ~Matches(x, c)
    PROVE  RingInv'
  <1> DEFINE v == RingsOf(now, disk, mem, ctl', hist)
             w == RingsOf(now', disk', mem', ctl', hist')
             s == ViewOf(now, disk, mem, ctl', hist)
             calm2 == ~CommitFailed'
             ids == h.answered \cup {id}
             noted == [h EXCEPT !.answered = ids]
             none == {}
             cost == {"commit"}
  <1>1. IsDisk(disk, boot) /\ IsMem(mem) /\ Apart(disk, mem)
    BY DEF Known
  <1>2. Forms(s) /\ (calm => Calm(s) /\ mem.vol = {})
    BY DEF StopAt
  <1>3. s.ops = Ops(disk, mem)
    BY DEF ViewOf
  <1>4. /\ v.now = now /\ v.occ = disk.occ /\ v.kids = KidsOf(disk) /\ v.ops = Ops(disk, mem)
        /\ v.known = ctl'.known /\ v.res = ctl'.res /\ v.rings = disk.rings
        /\ v.timers = mem.timers /\ v.first = hist.first
        /\ \A a : a \in v.sounds <=> a = mem.active /\ a # None /\ ~a.timer
    <2> HIDE DEF v
    <2> QED
      BY RingsRead DEF v
  <1>5. /\ w.now = now' /\ w.occ = disk'.occ /\ w.kids = KidsOf(disk')
        /\ w.ops = Ops(disk', mem') /\ w.known = ctl'.known /\ w.res = ctl'.res
        /\ w.rings = disk'.rings /\ w.timers = mem'.timers /\ w.first = hist'.first
        /\ \A a : a \in w.sounds <=> a = mem'.active /\ a # None /\ ~a.timer
    <2> HIDE DEF w
    <2> QED
      BY RingsRead DEF w
  <1>6. noted.first = hist.first
    <2> HIDE DEF ids, noted
    <2>1. noted \in HistOf(h.stopped, h.first, h.made, ids, h.lost)
      BY HistFields DEF noted
    <2> QED
      BY <2>1, HistRead, SMTT(30)
  <1>7. RingAt(v, calm) /\ RingInv' = RingAt(w, calm2)
    BY DEF RingInv
  <1>8. v = RingsOf(now, disk, mem, ctl', hist) /\ (calm => Unique(v))
    BY <1>7 DEF RingAt
  <1>9. CommitFailed' = (left'["commit"] < Budget["commit"])
    BY DEF CommitFailed
  <1> HIDE DEF v, w, s, calm2, noted
  <1>10. (\A k \in v.kids : IsChild(k)) /\ (calm => \A x \in v.occ, k \in v.kids : ~Matches(x, k))
    BY <1>8, CachedOnce
  \* What is left to show, for the children withdrawn.
  <1>11. ASSUME NEW gone, gone \subseteq v.kids, calm2 => calm, disk'.occ = disk.occ,
                KidsOf(disk') = KidsOf(disk) \ gone, disk'.rings \subseteq disk.rings,
                \A r \in disk.rings : r \in disk'.rings \/ r.o \in gone,
                mem'.active = mem.active, mem'.timers = mem.timers, hist'.first = hist.first,
                \A p \in w.ops : \E q \in v.ops :
                   /\ p.target = q.target
                   /\ calm2 => p.id = q.id /\ p.child = q.child /\ (p.res = None => q.res = None),
                calm2 => \A c \in gone :
                   ~Shown(v, c) /\ \A p \in w.ops : p.res = None => \A x \in p.child : ~Matches(x, c)
         PROVE  RingInv'
    <2>1. w.now = v.now /\ w.occ = v.occ /\ w.known = v.known /\ w.res = v.res
          /\ w.timers = v.timers /\ w.first = v.first /\ w.kids = v.kids \ gone
          /\ w.rings \subseteq v.rings /\ (\A r \in v.rings : r \in w.rings \/ r.o \in gone)
          /\ v.now \in Nat
      BY <1>4, <1>5, <1>11
    <2>2. w.sounds = v.sounds
      BY <1>4, <1>5, <1>11
    <2>3. RingAt(w, calm2)
      BY <1>7, <1>10, <1>11, <2>1, <2>2, RingAnswers
    <2> QED
      BY <1>7, <2>3
  <1>12. CASE Volatile(id) # {}
    <2> DEFINE Ans(u) == [u EXCEPT !.op.res = state,
                                   !.kid = IF state = "rejected" THEN {} ELSE @]
               vol == (mem.vol \ Volatile(id)) \cup {Ans(u) : u \in Volatile(id)}
               m == [mem EXCEPT !.vol = vol]
    <2>1. UNCHANGED <<disk, left>> /\ mem' = Signal(m) /\ hist' = noted
      BY <1>12 DEF ApplyOpResult, noted
    <2>2. \A u \in vol : IsTxn(u) /\ \E t \in mem.vol : u.op.target = t.op.target
      <3> SUFFICES ASSUME NEW t \in mem.vol, NEW u, u = Ans(t)
                   PROVE  IsTxn(u) /\ u.op.target = t.op.target
        BY <1>1, ZenonT(40) DEF IsMem, Volatile
      <3> DEFINE op == t.op
                 a == [op EXCEPT !.res = state]
      <3>1. IsTxn(t) /\ IsOp(op)
        BY <1>1 DEF IsMem, IsTxn
      <3>2. IsTxn(u) /\ u.op = a
        BY <3>1, AnsweredTxn, ZenonT(40)
      <3> HIDE DEF Ans
      <3>3. a.target = op.target
        BY <3>1, AnsweredOp, SMTT(30)
      <3> QED
        BY <3>2, <3>3
    <2> HIDE DEF vol, Ans
    <2>3. m \in MemOf(mem.trusted, mem.active, mem.timers, vol, mem.dirty, mem.poll)
      BY <1>1, MemFields DEF IsMem
    <2> HIDE DEF m
    <2>4. /\ MemShape(m) /\ m.trusted = mem.trusted /\ m.active = mem.active /\ m.vol = vol
          /\ m.timers = mem.timers /\ m.dirty = mem.dirty /\ m.poll = mem.poll
      BY <2>3, MemRead
    <2>5. IsMem(m)
      BY <1>1, <2>2, <2>4 DEF IsMem
    <2>6. mem'.vol = vol /\ mem'.active = mem.active /\ mem'.timers = mem.timers
      BY <2>1, <2>4, <2>5, SignalEffect
    <2>7. mem.vol # {}
      BY <1>12 DEF Volatile
    <2>8. ~calm /\ (calm2 => calm)
      BY <1>2, <1>9, <2>1, <2>7 DEF calm2, CommitFailed
    <2>9. \A p \in w.ops : \E q \in v.ops : p.target = q.target
      <3>1. w.ops = disk.ops \cup {u.op : u \in vol}
        BY <1>5, <2>1, <2>6 DEF Ops
      <3>2. v.ops = disk.ops \cup {t.op : t \in mem.vol}
        BY <1>4 DEF Ops
      <3> QED
        BY <2>2, <3>1, <3>2
    <2>10. none \subseteq v.kids /\ KidsOf(disk') = KidsOf(disk) \ none /\ (\A c \in none : FALSE)
           /\ disk' = disk
      BY <2>1
    <2> HIDE DEF none
    <2> QED
      BY <1>6, <1>11, <2>1, <2>6, <2>8, <2>9, <2>10
  <1>13. CASE Volatile(id) = {}
    <2>1. mem' = Signal(mem)
      BY <1>13 DEF ApplyOpResult
    <2>2. mem'.vol = mem.vol /\ mem'.active = mem.active /\ mem'.timers = mem.timers
      BY <1>1, <2>1, SignalEffect
    <2>3. \/ (\E op \in disk.ops : op.id = id /\ Commits(ResultTxn(disk, op, state)))
             /\ hist' = noted
          \/ UNCHANGED <<disk, left, hist>>
          \/ CommitFails(disk) /\ UNCHANGED hist
      BY <1>13 DEF ApplyOpResult, noted
    <2>4. ASSUME NEW op \in disk.ops, op.id = id, Commits(ResultTxn(disk, op, state)),
                 hist' = noted
          PROVE  RingInv'
      <3> DEFINE n == ResultTxn(disk, op, state)
                 a == [op EXCEPT !.res = state]
                 ends == IF state = "rejected" THEN KidsOf(disk) \cap op.child ELSE {}
                 shown == \E o \in disk.occ : Matches(op.target, o)
      <3>1. /\ KidsOf(n) = KidsOf(disk) \ ends
            /\ \A r \in disk.rings : r \in n.rings \/ r.o \in ends
            /\ n.occ = disk.occ /\ KidsOf(n) \subseteq KidsOf(disk) /\ n.rings \subseteq disk.rings
            /\ shown => n.ops = (disk.ops \ {op}) \cup {a}
            /\ ~shown => n.ops = disk.ops \ {op}
        BY <1>1, <2>4, ResultView, ZenonT(40)
      <3>2. /\ a.id = op.id /\ a.target = op.target /\ a.child = op.child /\ a.res = state
        BY <1>1, AnsweredOp DEF IsDisk
      <3>3. disk' = n /\ UNCHANGED left
        BY <2>4 DEF Commits
      <3>4. ends \subseteq v.kids /\ ends \subseteq op.child /\ (ends # {} => state = "rejected")
        BY <1>4
      <3>5. op \in v.ops /\ (calm => op.res = None)
            /\ (calm /\ state = "rejected" => \A c \in op.child, x \in ctl'.known : ~Matches(x, c))
        BY <1>4, <2>4 DEF Ops
      <3> HIDE DEF n, a, shown, ends
      <3>6. calm2 => calm
        BY <1>9, <3>3 DEF calm2, CommitFailed
      <3>7. w.ops \subseteq (v.ops \ {op}) \cup {a}
        <4>1. \A t \in mem.vol : t.op # op
          BY <1>13, <2>4 DEF Volatile
        <4> QED
          BY <1>4, <1>5, <2>2, <3>1, <3>3, <4>1 DEF Ops
      <3>8. \A p \in w.ops : \E q \in v.ops :
               /\ p.target = q.target
               /\ calm2 => p.id = q.id /\ p.child = q.child /\ (p.res = None => q.res = None)
        BY <3>2, <3>5, <3>6, <3>7
      <3>9. ASSUME calm2, NEW c \in ends, NEW p \in w.ops, p.res = None, NEW x \in p.child,
                   Matches(x, c)
            PROVE  FALSE
        <4>1. p \in v.ops \ {op}
          BY <3>2, <3>4, <3>7, <3>9 DEF NoneApart
        <4>2. MadeFrom(x, p.target) /\ MadeFrom(c, op.target)
          BY <1>2, <1>3, <1>4, <3>4, <3>5, <3>9, <4>1 DEF Forms, Acts
        <4>3. Matches(p.target, op.target)
          BY <3>9, <4>2, SameParent
        <4> QED
          BY <1>2, <1>3, <1>4, <3>5, <3>6, <3>9, <4>1, <4>3 DEF Calm, Exclusive
      <3>10. calm2 => \A c \in ends :
               ~Shown(v, c) /\ \A p \in w.ops : p.res = None => \A x \in p.child : ~Matches(x, c)
        BY <1>4, <3>4, <3>5, <3>6, <3>9 DEF Shown
      <3> QED
        BY <1>6, <1>11, <2>2, <2>4, <3>1, <3>3, <3>4, <3>6, <3>8, <3>10
    <2>5. ASSUME disk' = disk, hist' = hist, UNCHANGED left \/ Spends(cost)
          PROVE  RingInv'
      <3>1. calm2 => calm
        <4>1. CASE UNCHANGED left
          BY <1>9, <4>1 DEF calm2, CommitFailed
        <4>2. CASE Spends(cost)
          <5> HIDE DEF cost
          <5> QED
            BY <4>2, CommitSpent DEF calm2
        <4> QED
          BY <2>5, <4>1, <4>2
      <3>2. w.ops = v.ops
        BY <1>4, <1>5, <2>2, <2>5 DEF Ops
      <3>3. none \subseteq v.kids /\ KidsOf(disk') = KidsOf(disk) \ none /\ (\A c \in none : FALSE)
        BY <2>5
      <3> HIDE DEF none
      <3> QED
        BY <1>11, <2>2, <2>5, <3>1, <3>2, <3>3
    <2> QED
      BY <2>3, <2>4, <2>5 DEF CommitFails
  <1> QED
    BY <1>12, <1>13

\* An operation goes up.
LEMMA LocalOperationRing ==
    ASSUME Inv, StopInv, RingInv, NoneApart, NEW op \in Ops(disk, mem), LocalOperation(op)
    PROVE  RingInv'
  <1> DEFINE calm == ~CommitFailed
             s == ViewOf(now, disk, mem, ctl, hist)
             v == RingsOf(now, disk, mem, ctl, hist)
             h == Unrecorded(hist, op)
             id == op.id
             none == {}
  <1>1. /\ now \in Nat /\ boot \in Nat /\ left \in [Events -> Nat] /\ LeftOK
        /\ Known(disk, mem, hist, boot) /\ HistShape(hist) /\ CtlShape(ctl)
        /\ StopAt(now, disk, mem, ctl, hist, calm) /\ calm = ~CommitFailed
    BY StopFacts
  <1>2. RingAt(v, calm)
    BY DEF RingInv
  <1>3. calm => Calm(s) /\ Refused(v)
    BY <1>1, <1>2 DEF StopAt, RingAt
  <1>4. s.ops = Ops(disk, mem) /\ s.known = ctl.known /\ s.settled = Ids(ctl.res)
    BY DEF ViewOf
  <1>5. v.ops = Ops(disk, mem) /\ v.known = ctl.known /\ v.res = ctl.res
    BY DEF RingsOf
  <1>6. now' = now /\ op.res = None
    BY DEF LocalOperation
  <1>7. \A p \in Ops(disk, mem) : p.id = id => p = op
    BY <1>1 DEF Known, Ledger
  <1>8. \A c, r : ctl'.known = ctl.known /\ ctl'.res = ctl.res =>
           RingsOf(now, disk, mem, ctl', hist) = v
    BY DEF RingsOf
  <1> HIDE DEF calm, v, s, id
  <1>9. ASSUME NEW r \in ctl.res, r.id = id, ApplyOpResult(id, r.state, hist), UNCHANGED ctl
        PROVE  RingInv'
    <2> DEFINE state == r.state
    <2>1. ApplyOpResult(id, state, hist)
      BY <1>9
    <2>2. ASSUME NEW p \in Ops(disk, mem), p.id = id, calm
          PROVE  /\ p.res = None
                 /\ state = "rejected" => \A c \in p.child, x \in ctl'.known : ~Matches(x, c)
      <3>1. p = op /\ op \in v.ops /\ r \in v.res /\ r.id = op.id
        BY <1>5, <1>7, <1>9, <2>2 DEF id
      <3>2. state = "rejected" => \A c \in op.child : ~Shown(v, c)
        BY <1>3, <2>2, <3>1 DEF Refused
      <3> QED
        BY <1>5, <1>6, <1>9, <3>1, <3>2 DEF Shown
    <2>3. ctl' = ctl /\ StopAt(now, disk, mem, ctl', hist, calm)
      BY <1>1, <1>9
    <2>4. RingAt(RingsOf(now, disk, mem, ctl', hist), calm)
      BY <1>2, <1>8, <2>3
    <2>5. hist.first = hist.first
      OBVIOUS
    <2> HIDE DEF state
    <2> QED
      BY <1>1, <1>6, <2>1, <2>2, <2>3, <2>4, <2>5, AnswerRing
  <1>10. CASE /\ ctl' = [ctl EXCEPT !.pend = @ \cup {op}]
              /\ UNCHANGED <<disk, mem, lock, hist, left>>
    <2> DEFINE pend == ctl.pend \cup {op}
    <2>1. ctl' = [ctl EXCEPT !.pend = pend]
      BY <1>10
    <2> HIDE DEF pend
    <2>2. ctl' \in CtlOf(ctl.cal, ctl.known, pend, ctl.res, ctl.gone)
      BY <1>1, <2>1, CtlFields
    <2>3. ctl'.known = ctl.known /\ ctl'.res = ctl.res
      BY <2>2, CtlRead
    <2>4. /\ UNCHANGED left /\ none = {}
          /\ now' \in Nat /\ now <= now' /\ disk'.occ = disk.occ /\ disk'.kids = disk.kids
          /\ disk'.ops = disk.ops /\ disk'.rings = disk.rings /\ mem'.vol \subseteq mem.vol
          /\ (\A t \in mem'.timers : IsChild(t) \/ t \in mem.timers)
          /\ hist'.first \subseteq hist.first /\ mem'.active = mem.active
      BY <1>1, <1>6, <1>10
    <2> HIDE DEF none
    <2> QED
      BY <2>3, <2>4, RingQuiet
  <1>11. ASSUME ~Received(op), NEW state, ApplyOpResult(id, state, h),
                ctl' = [ctl EXCEPT !.gone = @ \cup op.child]
         PROVE  RingInv'
    <2> DEFINE g == ctl.gone \cup op.child
               a == {IF Matches(x.o, op.target) THEN [x EXCEPT !.fresh = TRUE] ELSE x :
                        x \in hist.stopped}
    <2>1. ctl' = [ctl EXCEPT !.gone = g]
      BY <1>11
    <2>2. SameCtl(ctl, ctl')
      <3> HIDE DEF g
      <3> QED
        BY <1>1, <2>1, CtlGone
    <2>3. h = [hist EXCEPT !.stopped = a]
      BY DEF Unrecorded
    <2>4. HistShape(h) /\ h.first = hist.first
      <3> HIDE DEF a, h
      <3>1. h \in HistOf(a, hist.first, hist.made, hist.answered, hist.lost)
        BY <1>1, <2>3, HistFields
      <3> QED
        BY <3>1, HistRead
    <2> HIDE DEF h
    <2>5. RingAt(RingsOf(now, disk, mem, ctl', hist), calm)
      BY <1>2, <1>8, <2>2 DEF SameCtl
    <2>6. StopAt(now, disk, mem, ctl', hist, calm)
      <3> DEFINE u == ViewOf(now, disk, mem, ctl', hist)
      <3>1. u = ViewOf(now, disk, mem, ctl, hist)
        BY <2>2 DEF ViewOf, SameCtl
      <3> QED
        BY <1>1, <3>1 DEF StopAt
    <2>7. ASSUME NEW p \in Ops(disk, mem), p.id = id, calm
          PROVE  /\ p.res = None
                 /\ state = "rejected" => \A c \in p.child, x \in ctl'.known : ~Matches(x, c)
      <3>1. p = op /\ op \in s.ops
        BY <1>4, <1>7, <2>7
      <3>2. op.id \notin s.settled
        BY <1>4, <1>11 DEF Received, Ids
      <3>3. \A c \in op.child : ~Shown(s, c)
        BY <1>3, <1>6, <2>7, <3>1, <3>2 DEF Calm, Unborn
      <3> QED
        BY <1>4, <1>6, <2>2, <3>1, <3>3 DEF Shown, SameCtl
    <2>8. \A p \in Ops(disk, mem) : p.id = id /\ calm =>
             /\ p.res = None
             /\ state = "rejected" => \A c \in p.child, x \in ctl'.known : ~Matches(x, c)
      BY <2>7
    <2>9. ApplyOpResult(id, state, h)
      BY <1>11
    <2> QED
      BY <1>1, <1>6, <2>4, <2>5, <2>6, <2>8, <2>9, AnswerRing
  <1>12. \/ \E r \in ctl.res : r.id = id /\ ApplyOpResult(id, r.state, hist) /\ UNCHANGED ctl
         \/ /\ ctl' = [ctl EXCEPT !.pend = @ \cup {op}]
            /\ UNCHANGED <<disk, mem, lock, hist, left>>
         \/ /\ ~Received(op) /\ ctl' = [ctl EXCEPT !.gone = @ \cup op.child]
            /\ \E state : ApplyOpResult(id, state, h)
    BY DEF LocalOperation, id
  <1> HIDE DEF h
  <1> QED
    BY <1>9, <1>10, <1>11, <1>12

\* The applier settles an operation: the child it shows was not known, and is no
\* child that nothing brings back.
LEMMA RingSettles ==
    ASSUME NEW v, NEW w, NEW calm, RingAt(v, calm), v.now \in Nat,
           w.now = v.now, w.occ = v.occ, w.kids = v.kids, w.ops = v.ops, w.rings = v.rings,
           w.timers = v.timers, w.sounds = v.sounds, w.first = v.first,
           NEW new, w.known = v.known \cup new, NEW r, w.res = v.res \cup {r}, NEW op,
           calm => /\ op \in v.ops /\ op.res = None /\ r.id = op.id
                   /\ \A x \in new : \E c \in op.child : Matches(x, c)
                   /\ \A x, y \in new : x = y
                   /\ r.state = "rejected" => new = {}
                   /\ \A c \in op.child : ~Shown(v, c)
                   /\ \A q \in v.res : q.id # op.id
                   /\ \A p \in v.ops : p.id = op.id => p = op
                   /\ \A p \in v.ops : \A c \in p.child, d \in op.child : Matches(c, d) => p = op
    PROVE  RingAt(w, calm)
  <1>1. ASSUME calm, NEW o, Shown(w, o), ~Shown(v, o)
        PROVE  \E c \in op.child : Matches(c, o)
    <2>1. PICK x \in new : Matches(x, o)
      BY <1>1 DEF Shown
    <2>2. PICK c \in op.child : Matches(x, c)
      BY <1>1
    <2> QED
      BY <2>1, <2>2 DEF Matches
  <1>2. ASSUME NEW f \in w.first PROVE Followed(w, f, calm)
    <2>1. Followed(v, f, calm)
      BY DEF RingAt
    <2>2. ASSUME calm, Stray(v, f.o) PROVE Stray(w, f.o)
      BY <1>1, <2>2 DEF Stray
    <2>3. Cached(w) = Cached(v) /\ ~Blocks(w, f.o)
      BY <2>1 DEF Cached, Blocks, Followed
    <2> QED
      BY <2>1, <2>2, <2>3 DEF Followed, HasRing
  <1>3. ASSUME calm PROVE Unique(w) /\ Refused(w)
    <2>1. Unique(v) /\ Refused(v)
      BY <1>3 DEF RingAt
    <2>2. ASSUME NEW x \in v.known, NEW y \in new, Matches(x, y) \/ Matches(y, x) PROVE FALSE
      <3>1. PICK c \in op.child : Matches(y, c)
        BY <1>3
      <3>2. Shown(v, c)
        BY <2>2, <3>1 DEF Shown, Matches
      <3> QED
        BY <1>3, <3>2
    <2>3. Unique(w)
      BY <1>3, <2>1, <2>2 DEF Unique
    <2>4. ASSUME NEW p \in w.ops, NEW q \in w.res, q.id = p.id, q.state = "rejected",
                 NEW c \in p.child, Shown(w, c)
          PROVE  FALSE
      <3>1. CASE q = r
        <4>1. p = op /\ new = {}
          BY <1>3, <2>4, <3>1
        <4> QED
          BY <1>3, <2>4, <4>1 DEF Shown
      <3>2. CASE q \in v.res
        <4>1. ~Shown(v, c)
          BY <2>1, <2>4, <3>2 DEF Refused
        <4>2. PICK d \in op.child : Matches(d, c)
          BY <1>1, <1>3, <2>4, <4>1
        <4>3. p = op
          BY <1>3, <2>4, <4>2 DEF Matches
        <4> QED
          BY <1>3, <2>4, <3>2, <4>3
      <3> QED
        BY <3>1, <3>2
    <2> QED
      BY <2>3, <2>4 DEF Refused
  <1>4. Carries(w.rings, v.rings)
    BY DEF Carries, Carried, Matches
  <1>5. \A t \in w.timers : IsChild(t)
    BY DEF RingAt, Limits
  <1>6. \A a \in w.sounds : \E b \in v.sounds : Matches(a.o, b.o) /\ a.deadline = b.deadline
    BY DEF Matches
  <1>7. w.now \in Nat /\ v.now <= w.now
    OBVIOUS
  <1> QED
    BY <1>2, <1>3, <1>4, <1>5, <1>6, <1>7, RingKept

\* The applier settles an operation, and the answer arrives or does not.
LEMMA SettledRing ==
    ASSUME Inv, StopInv, RingInv, NoneApart, NEW op \in ctl.pend,
           NEW state \in {"applied", "rejected"}, Settled(op, state)
    PROVE  RingInv'
  <1> DEFINE calm == ~CommitFailed
             s == ViewOf(now, disk, mem, ctl, hist)
             v == RingsOf(now, disk, mem, ctl, hist)
             u == RingsOf(now, disk, mem, ctl', hist)
             w == RingsOf(now', disk', mem', ctl', hist')
             r == [id |-> op.id, state |-> state]
             lost == {"lost"}
             refused == {"reject"}
             id == op.id
  <1>1. /\ now \in Nat /\ boot \in Nat /\ left \in [Events -> Nat] /\ LeftOK
        /\ Known(disk, mem, hist, boot) /\ HistShape(hist) /\ CtlShape(ctl)
        /\ StopAt(now, disk, mem, ctl, hist, calm) /\ calm = ~CommitFailed
    BY StopFacts
  <1>2. StopAt(now, disk, mem, ctl', hist, calm)
    BY SettledAt
  <1>3. Forms(s) /\ (calm => Calm(s))
    BY <1>1 DEF StopAt
  <1>4. /\ s.ops = Ops(disk, mem) /\ s.known = ctl.known /\ s.settled = Ids(ctl.res)
        /\ s.pend = ctl.pend
    BY DEF ViewOf
  <1>5. /\ v.now = now /\ v.ops = Ops(disk, mem) /\ v.known = ctl.known /\ v.res = ctl.res
    BY DEF RingsOf
  <1>6. /\ u.now = v.now /\ u.occ = v.occ /\ u.kids = v.kids /\ u.ops = v.ops
        /\ u.rings = v.rings /\ u.timers = v.timers /\ u.sounds = v.sounds
        /\ u.first = v.first /\ u.known = ctl'.known /\ u.res = ctl'.res
    BY DEF RingsOf
  <1>7. RingAt(v, calm) /\ now' = now /\ r.id = op.id /\ r.state = state
    BY DEF RingInv, Settled
  <1>8. \A p, q \in v.ops : p.id = q.id => p = q
    BY <1>1, <1>5 DEF Known, Ledger
  <1>9. RingInv' = RingAt(w, ~CommitFailed')
    BY DEF RingInv
  <1> HIDE DEF calm, s, v
  <1>10. Acts(op)
    BY <1>3, <1>4 DEF Forms
  <1>11. PICK shown : Settles(ctl, ctl', op, state, shown)
    BY <1>1, <1>10, SettledCtl
  <1>12. /\ \A x \in shown : \E c \in op.child : Matches(x, c)
         /\ \A x, y \in shown : x = y
         /\ state = "rejected" => shown = {}
         /\ ctl'.res = ctl.res \cup {r} /\ ctl'.known = ctl.known \cup shown
    BY <1>11 DEF Settles
  <1>13. ASSUME calm
         PROVE  /\ op \in v.ops /\ op.res = None
                /\ \A c \in op.child : ~Shown(v, c)
                /\ \A q \in v.res : q.id # op.id
                /\ \A p \in v.ops : \A c \in p.child, d \in op.child : Matches(c, d) => p = op
    <2>1. op \in s.ops /\ op.res = None /\ op.id \notin s.settled
      BY <1>3, <1>4, <1>13 DEF Calm, Journaled
    <2>2. \A c \in op.child : ~Shown(v, c)
      BY <1>3, <1>4, <1>5, <1>13, <2>1 DEF Calm, Unborn, Shown
    <2>3. \A q \in v.res : q.id # op.id
      BY <1>4, <1>5, <2>1 DEF Ids
    <2>4. ASSUME NEW p \in v.ops, NEW c \in p.child, NEW d \in op.child, Matches(c, d)
          PROVE  p = op
      <3>1. MadeFrom(c, p.target) /\ MadeFrom(d, op.target)
        BY <1>3, <1>4, <1>5, <1>10, <2>4 DEF Forms, Acts
      <3>2. Matches(p.target, op.target)
        BY <2>4, <3>1, SameParent
      <3> QED
        BY <1>3, <1>4, <1>5, <1>13, <2>1, <3>2 DEF Calm, Exclusive
    <2> QED
      BY <1>4, <1>5, <2>1, <2>2, <2>3, <2>4
  <1> HIDE DEF r, u
  <1>14. RingAt(u, calm)
    <2>1. u.known = v.known \cup shown /\ u.res = v.res \cup {r} /\ v.now \in Nat
      BY <1>1, <1>5, <1>6, <1>12
    <2>2. calm => /\ op \in v.ops /\ op.res = None /\ r.id = op.id
                  /\ \A x \in shown : \E c \in op.child : Matches(x, c)
                  /\ \A x, y \in shown : x = y
                  /\ r.state = "rejected" => shown = {}
                  /\ \A c \in op.child : ~Shown(v, c)
                  /\ \A q \in v.res : q.id # op.id
                  /\ \A p \in v.ops : p.id = op.id => p = op
                  /\ \A p \in v.ops : \A c \in p.child, d \in op.child : Matches(c, d) => p = op
      BY <1>7, <1>8, <1>12, <1>13
    <2> QED
      BY <1>6, <1>7, <2>1, <2>2, RingSettles
  <1>15. ASSUME ApplyOpResult(id, state, hist), state = "applied"
         PROVE  RingInv'
    <2>1. \A p \in Ops(disk, mem) : p.id = id /\ calm =>
             /\ p.res = None
             /\ state = "rejected" => \A c \in p.child, x \in ctl'.known : ~Matches(x, c)
      BY <1>5, <1>8, <1>13, <1>15
    <2>2. hist.first = hist.first
      OBVIOUS
    <2>3. RingAt(RingsOf(now, disk, mem, ctl', hist), calm)
      BY <1>14 DEF u
    <2>4. ApplyOpResult(id, state, hist)
      BY <1>15
    <2> HIDE DEF id
    <2> QED
      BY <1>1, <1>2, <1>7, <2>1, <2>2, <2>3, <2>4, AnswerRing
  <1>16. ASSUME NEW cost, Spends(cost), UNCHANGED <<disk, mem, lock, hist>>
         PROVE  RingInv'
    <2>1. w = u
      BY <1>7, <1>16 DEF u
    <2>2. ~CommitFailed' => calm
      BY <1>1, <1>16, CommitSpent
    <2>3. RingAt(u, ~CommitFailed')
      <3> DEFINE calm2 == ~CommitFailed'
      <3>1. Limits(u) /\ (calm => Unique(u) /\ Refused(u))
            /\ \A f \in u.first : /\ Dated(u, f) /\ (calm => f.kept) /\ Followed(u, f, calm)
                                  /\ Counts(f, calm) => Within(u, f)
        BY <1>14 DEF RingAt
      <3>2. calm2 => calm
        BY <2>2
      <3> HIDE DEF calm2
      <3>3. \A f \in u.first : /\ Followed(u, f, calm2)
                               /\ Counts(f, calm2) => Counts(f, calm)
        BY <3>1, <3>2 DEF Followed, Counts
      <3>4. RingAt(u, calm2)
        BY <3>1, <3>2, <3>3 DEF RingAt
      <3> QED
        BY <3>4 DEF calm2
    <2> QED
      BY <1>9, <2>1, <2>3
  <1>17. \/ ApplyOpResult(id, state, hist) /\ state = "applied"
         \/ Spends(lost) /\ UNCHANGED <<disk, mem, lock, hist>>
         \/ Spends(refused) /\ UNCHANGED <<disk, mem, lock, hist>>
    BY DEF Settled
  <1> HIDE DEF lost, refused
  <1> QED
    BY <1>15, <1>16, <1>17

\* At first nothing has rung.
LEMMA InitRing == Init => RingInv
  <1> SUFFICES ASSUME Init PROVE RingInv
    OBVIOUS
  <1> DEFINE v == RingsOf(now, disk, mem, ctl, hist)
             all == {Alarm(a) : a \in Alarms}
             none == {}
  <1>1. /\ disk.ops = none /\ disk.rings = none /\ mem.timers = none /\ mem.vol = none
        /\ ctl = [cal |-> all, known |-> all, pend |-> none, res |-> none, gone |-> none]
        /\ hist.first = none
    BY DEF Init, NewMem
  <1>2. ASSUME NEW x \in all, NEW y \in all, Matches(x, y) PROVE x = y
    <2> DEFINE no == FALSE
    <2>1. \A z \in all : z \in [sched : {z.sched}, due : {z.due}, copy : {no}]
      <3> SUFFICES ASSUME NEW a \in Alarms, NEW z, z = Alarm(a)
                   PROVE  z \in [sched : {z.sched}, due : {z.due}, copy : {no}]
        OBVIOUS
      <3> DEFINE s == <<a>>
                 d == Due[a]
      <3>1. z = [sched |-> s, due |-> d, copy |-> no]
        BY DEF Alarm
      <3> HIDE DEF s, d, no
      <3> QED
        BY <3>1
    <2> HIDE DEF no, all
    <2> QED
      BY <1>2, <2>1 DEF Matches
  <1> HIDE DEF none, all
  <1>3. ctl \in CtlOf(all, all, none, none, none)
    BY <1>1 DEF CtlOf
  <1>4. ctl.known = all /\ ctl.res = none
    BY <1>3, CtlRead
  <1>5. v.known = all /\ v.res = {} /\ v.rings = {} /\ v.timers = {} /\ v.first = {}
    BY <1>1, <1>4 DEF RingsOf, none
  <1> HIDE DEF v
  <1>6. RingAt(v, ~CommitFailed)
    BY <1>2, <1>5 DEF RingAt, Limits, Unique, Refused
  <1> QED
    BY <1>6 DEF RingInv, v

\* Every step of the specification keeps it.
LEMMA NextRing == NoneApart /\ Inv /\ StopInv /\ RingInv /\ [Next]_vars => RingInv'
  <1> SUFFICES ASSUME NoneApart, Inv, StopInv, RingInv, [Next]_vars PROVE RingInv'
    OBVIOUS
  <1>1. CASE UNCHANGED vars
    <2>1. now \in Nat
      BY StopFacts, SMTT(30)
    <2>2. UNCHANGED <<now, disk, mem, ctl, hist, left>>
      BY <1>1 DEF vars
    <2>3. now' \in Nat /\ now <= now'
      BY <2>1, <2>2
    <2>4. /\ disk'.occ = disk.occ /\ disk'.kids = disk.kids /\ disk'.ops = disk.ops
          /\ disk'.rings = disk.rings /\ mem'.vol = mem.vol /\ mem'.active = mem.active
          /\ mem'.timers \subseteq mem.timers /\ UNCHANGED <<left, ctl, hist>>
      BY <2>2
    <2> QED
      BY <2>3, <2>4, RingFree
  <1>2. CASE Poll
    BY <1>2, PollBeginRing, PollExpireRing, PollStartRing, PollEndRing DEF Poll
  <1>3. CASE Tick
    BY <1>3, TickRing
  <1>4. CASE \E o \in Held(disk, mem) : Act("dismiss", o) \/ Act("snooze", o)
    BY <1>4, ActRing
  <1>5. CASE TimerRing \/ StopTimer \/ ClockReply \/ Crash \/ Start
    BY <1>5, TimerRingRing, StopTimerRing, ClockReplyRing, CrashRing, StartRing
  <1>6. CASE ApplyDelta \/ ApplySnapshot
    BY <1>6, ApplyDeltaRing, ApplySnapshotRing
  <1>7. CASE \E op \in Ops(disk, mem) : LocalOperation(op)
    BY <1>7, LocalOperationRing
  <1>8. CASE \E op \in ctl.pend, state \in {"applied", "rejected"} : Settled(op, state)
    BY <1>8, SettledRing
  <1> QED
    BY <1>1, <1>2, <1>3, <1>4, <1>5, <1>6, <1>7, <1>8 DEF Next

\* What rang first keeps the limit of that ring: with its record, in the ring that
\* goes on, and under the key of the copy that takes over.
THEOREM Limited == NoneApart => (Spec => []RingInv)
  <1>1. Init => Inv /\ StopInv /\ RingInv
    BY InitInv, InitStop, InitRing
  <1>2. NoneApart /\ (Inv /\ StopInv /\ RingInv) /\ [Next]_vars => (Inv /\ StopInv /\ RingInv)'
    BY NextInv, NextStop, NextRing
  <1>3. ASSUME NoneApart PROVE Spec => []RingInv
    <2>1. (Inv /\ StopInv /\ RingInv) /\ [Next]_vars => (Inv /\ StopInv /\ RingInv)'
      BY <1>2, <1>3
    <2> QED
      BY <1>1, <2>1, PTL DEF Spec
  <1> QED
    BY <1>3

\* No restart of the process or of the device, and no copy that takes over a snooze
\* child, rings an occurrence past the limit of its first ring; a child's ring may
\* once a write has failed.
THEOREM NotRenewed == NoneApart => (Spec => []RingNotRenewed)
  <1>1. RingInv => RingNotRenewed
    <2> SUFFICES ASSUME RingInv, Rings, NEW f \in hist.first, Matches(f.o, mem.active.o)
                 PROVE  \/ mem.active.deadline <= f.at + MaxRingMs
                        \/ IsChild(f.o) /\ CommitFailed
      BY DEF RingNotRenewed
    <2> DEFINE calm == ~CommitFailed
               v == RingsOf(now, disk, mem, ctl, hist)
               a == mem.active
    <2>1. f \in v.first /\ a \in v.sounds
      BY DEF RingsOf, Rings
    <2>2. RingAt(v, calm)
      BY DEF RingInv
    <2> HIDE DEF v
    <2>3. Counts(f, calm) => Within(v, f)
      BY <2>1, <2>2 DEF RingAt
    <2>4. CASE Counts(f, calm)
      <3>1. Within(v, f) /\ Matches(a.o, f.o)
        BY <2>3, <2>4 DEF Matches
      <3> QED
        BY <2>1, <3>1 DEF Within
    <2>5. CASE ~Counts(f, calm)
      BY <2>5 DEF Counts
    <2> QED
      BY <2>4, <2>5
  <1>2. ASSUME NoneApart PROVE Spec => []RingNotRenewed
    <2>1. Spec => []RingInv
      BY <1>2, Limited
    <2> QED
      BY <1>1, <2>1, PTL
  <1> QED
    BY <1>2
=============================================================================
