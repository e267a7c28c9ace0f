---------------------------- MODULE AlertExecutor ----------------------------
(***************************************************************************)
(* The alert executor of a speaker (device/internal/alerts): which cached  *)
(* occurrence rings and when, stops and snoozes made on the speaker, the   *)
(* operations they leave for the controller, snooze children until the     *)
(* controller delivers its own copy of them, the clock, process and device *)
(* restarts, and store writes that fail.  The controller is reduced to     *)
(* what the executor sees of it (service/mod.rs): the live set of its      *)
(* calendar, the operations it has journaled, and its answers.             *)
(*                                                                         *)
(* Delivery as such is AlertDelivery, the store's files are AlertStore: a  *)
(* transaction is atomic here and either commits or fails.                 *)
(***************************************************************************)
EXTENDS Naturals, Sequences, FiniteSets

CONSTANTS
    Alarms,     \* schedules of the calendar
    Due,        \* when each is due
    SnoozeMs, MaxRingMs, CatchUpMs,  \* durations, in units of the clock
    Horizon,    \* bound on the clock
    Reformats,  \* whether the calendar may key a snooze child differently
    Budget,     \* bounds on outside events ...
    Kinds,      \* ... and on how many kinds of them a behaviour has
    None

Events == {"act", "timer", "crash", "reboot", "commit", "reject", "lost"}

ASSUME DueAssumption == Due \in [Alarms -> Nat]
ASSUME TimeAssumption ==
    /\ SnoozeMs \in Nat \ {0} /\ MaxRingMs \in Nat \ {0} /\ CatchUpMs \in Nat
    /\ Horizon \in Nat
ASSUME BudgetAssumption == Reformats \subseteq BOOLEAN /\ Budget \in [Events -> Nat] /\ Kinds \in Nat

VARIABLES
    now,   \* UTC and the monotonic clock: a boot's offset is exact
    up,    \* the process runs
    boot,  \* the boot ID
    disk,  \* the durable state of the store
    mem,   \* the executor's memory
    lock,  \* the kernel wakelock is held
    ctl,   \* the controller: calendar, occurrences known, journal
    hist,  \* history: stops, first rings, operations made and their fate
    left   \* what is left of Budget

vars == <<now, up, boot, disk, mem, lock, ctl, hist, left>>

\* What a step takes from the bounds.
Spends(events) ==
    /\ \A e \in events : left[e] > 0
    /\ Cardinality({e \in Events : left[e] < Budget[e]} \cup events) <= Kinds
    /\ left' = [e \in Events |-> IF e \in events THEN left[e] - 1 ELSE left[e]]

----------------------------------------------------------------------------
(* Occurrences.  An ID is derived from the schedule and the formatted due   *)
(* time; copy tells a key of the calendar's that is formatted differently.  *)

Alarm(a) == [sched |-> <<a>>, due |-> Due[a], copy |-> FALSE]
IsChild(o) == Len(o.sched) > 1

\* snoozeChild: the schedule is derived from the parent's ID.
SnoozeChild(o) ==
    [sched |-> <<o.sched, o.due, o.copy>>, due |-> now + SnoozeMs, copy |-> FALSE]

\* The calendar's own identity of a snooze child.
Formatted(o) == {[o EXCEPT !.copy = c] : c \in Reformats}

\* opTargets and supersedes: the same ID, or the same schedule and due time.
Matches(a, b) == a.sched = b.sched /\ a.due = b.due

----------------------------------------------------------------------------
(* What is held, may ring, and is due                                      *)

KidsOf(d) == {k.o : k \in d.kids}
VolatileKids(m) == UNION {t.kid : t \in m.vol}
Held(d, m) == d.occ \cup KidsOf(d) \cup VolatileKids(m)
Ops(d, m) == d.ops \cup {t.op : t \in m.vol}

Executable(d, m, o) == ~\E op \in Ops(d, m) : Matches(op.target, o)
DeliveredCopy(d, o) == \E x \in d.occ : Matches(x, o)

\* armedLocked.
Armed(d, m) ==
    {o \in d.occ \cup KidsOf(d) : Executable(d, m, o)} \cup
    {o \in VolatileKids(m) : Executable(d, m, o) /\ ~DeliveredCopy(d, o)}

\* Mutant: a ring goes on although its occurrence has left the cache.
CurrentAlways(d, m, o) == {o}

\* currentOccurrenceLocked.
Current(d, m, o) ==
    IF o \in Held(d, m) THEN {o} ELSE {x \in d.occ : Matches(x, o)}

\* armedOrRingingLocked, which reconcileWakeLockLocked follows.
LockWanted(d, m) == m.active # None \/ m.timers # {} \/ Armed(d, m) # {}

RingOf(d, o) == {r \in d.rings : r.o = o}
ArmedHere(d, o) == [o |-> o, boot |-> boot] \in d.armed

\* alarmCandidateLocked: the due time in this boot, if it has one.
DueAt(d, o) ==
    IF ArmedHere(d, o) THEN {o.due}
    ELSE {r.first : r \in {x \in RingOf(d, o) : x.boot = boot}}

Candidates(d, m) ==
    (UNION {[o : {o}, timer : {FALSE}, due : DueAt(d, o)] : o \in Armed(d, m)})
    \cup {[o |-> t, timer |-> TRUE, due |-> t.due] : t \in m.timers}

\* headLocked: the due candidates that come first.  IDs of different schedules
\* sort either way; those of a child and its copy always the same way.
Heads(d, m) ==
    {c \in Candidates(d, m) :
        /\ c.due <= now
        /\ \A e \in Candidates(d, m) :
             c.due < e.due \/ (c.due = e.due /\ ~(Matches(c.o, e.o) /\ c.o.copy /\ ~e.o.copy))}

\* ringMonoLocked of the deadline: across boots through trusted UTC, else zero.
RingMono(m, r) ==
    IF r.boot = boot THEN r.deadline ELSE IF m.trusted THEN r.utc ELSE 0

\* expiryLocked.
Expired(d, m, c) ==
    /\ ~c.timer
    /\ IF RingOf(d, c.o) # {}
       THEN \E r \in RingOf(d, c.o) :
                (r.boot = boot \/ m.trusted) /\ now >= RingMono(m, r)
       ELSE m.trusted /\ now > c.o.due + CatchUpMs

----------------------------------------------------------------------------
(* Transactions                                                            *)

\* Mutant: a record of an earlier boot counts as armed.
NewlyArmedOnce(d, m, os) == {o \in os : m.trusted /\ \A x \in d.armed : x.o # o}

\* armOccurrenceLocked outside a snapshot: what is armed needs no new record.
NewlyArmed(d, m, os) == {o \in os : m.trusted /\ ~ArmedHere(d, o)}

ArmedBy(os) == [o : os, boot : {boot}]

\* persistOpLocked of each of ts, in the order of their numbers: the operation,
\* its target's end and its snooze child, unless a later one ends that again.
PersistOps(d, ts) ==
    LET Later(t) == {u \in ts : u.op.id > t.op.id}
        Ended(us) == {u.op.target : u \in us}
        EndedKids(us) == {u.op.target : u \in {v \in us : v.wasKid}}
        kids == UNION {t.kid \ EndedKids(Later(t)) : t \in ts}
        arm == UNION {t.arm \ Ended(Later(t)) : t \in ts}
    IN  [d EXCEPT
           !.ops = @ \cup {t.op : t \in ts},
           !.kids = {k \in @ : k.o \notin EndedKids(ts) /\ \A t \in ts : k.o \notin t.kid}
                    \cup [o : kids, resolved : {FALSE}],
           !.armed = {x \in @ : x.o \notin Ended(ts) /\ \A t \in ts : x.o \notin t.arm}
                     \cup ArmedBy(arm),
           !.rings = {r \in @ : r.o \notin Ended(ts)}]

\* Mutant: a settled operation is dropped although its target is delivered.
DropSettledEarly(ops, delivered) == {op \in ops : op.res = None}

\* Mutant: operations are dropped with their target, answered or not.
DropUndelivered(ops, delivered) ==
    {op \in ops : \E o \in delivered : Matches(op.target, o)}

\* dropSettledOps.
DropSettledOps(ops, delivered) ==
    {op \in ops : op.res = None \/ \E o \in delivered : Matches(op.target, o)}

\* supersedeChildren: the kids replaced by a delivered occurrence of put ...
Superseded(d, put) == {k \in d.kids : \E o \in put : Matches(o, k.o)}

\* Mutant: the ring record of a superseded kid is dropped.
MovedNothing(d, put) == {}

\* ... and their ring records under the delivered ID.
Moved(d, put) ==
    {[r EXCEPT !.o = CHOOSE o \in put : Matches(o, r.o)] :
        r \in {x \in d.rings : /\ x.o \notin put
                               /\ \E k \in Superseded(d, put) : k.o = x.o}}

\* A record put replaces the one of its occurrence.
PutRings(rings, put) == {r \in rings : \A q \in put : q.o # r.o} \cup put

\* ApplyDelta: tombstones for gone, the occurrences put.
DeltaTxn(d, m, gone, put) ==
    LET kids == {k \in d.kids \ Superseded(d, put) : k.o \notin gone}
        dropped == {k.o : k \in Superseded(d, put)}
        new == NewlyArmed(d, m, put)
    IN  [d EXCEPT
           !.occ = (@ \ gone) \cup put,
           !.kids = kids,
           !.armed = {x \in @ : x.o \notin gone \cup dropped \cup new}
                     \cup ArmedBy(new),
           !.rings = PutRings({r \in @ : r.o \notin gone \cup (dropped \ put)}, Moved(d, put)),
           !.ops = DropSettledOps(@, (d.occ \ gone) \cup put)]

\* The last page of ApplySnapshotPage.
SnapshotTxn(d, m, new) ==
    LET kids == {k \in d.kids \ Superseded(d, new) : ~k.resolved \/ k.o \in new}
    IN  [d EXCEPT
           !.occ = new,
           !.kids = kids,
           !.armed = IF m.trusted THEN ArmedBy(new \cup {k.o : k \in kids}) ELSE {},
           !.rings = PutRings({r \in @ : r.o \in new \/ r.o \in {k.o : k \in kids}}, Moved(d, new)),
           !.ops = DropSettledOps(@, new)]

\* ApplyOpResult of a journaled operation.
ResultTxn(d, op, state) ==
    LET kept == IF \E o \in d.occ : Matches(op.target, o)
                THEN {[op EXCEPT !.res = state]} ELSE {}
        mine == {k \in d.kids : k.o \in op.child}
        gone == IF state = "rejected" THEN {k.o : k \in mine} ELSE {}
    IN  [d EXCEPT
           !.ops = (@ \ {op}) \cup kept,
           !.kids = (@ \ mine) \cup
                    (IF state = "rejected" THEN {}
                     ELSE {[k EXCEPT !.resolved = TRUE] : k \in mine}),
           !.armed = {x \in @ : x.o \notin gone},
           !.rings = {r \in @ : r.o \notin gone}]

----------------------------------------------------------------------------
(* History                                                                 *)

\* A stop: an entry of the stops, and the end of the target's ring.
Stops(h, op) ==
    [h EXCEPT !.made = @ \cup {op.id},
              !.stopped = @ \cup {[o |-> op.target, act |-> op.act, fresh |-> FALSE]},
              !.first = {f \in @ : ~Matches(f.o, op.target)}]

\* A delivery: what was stopped, answered and withdrawn is delivered anew;
\* what is no longer held has no ring to continue.
Delivers(h, d, m, d2, put) ==
    [h EXCEPT
       !.stopped = {IF /\ \E o \in put : Matches(o, s.o)
                       /\ ~\E op \in Ops(d, m) : op.res = None /\ Matches(op.target, s.o)
                    THEN [s EXCEPT !.fresh = TRUE] ELSE s : s \in @},
       !.first = {f \in @ : \E o \in d2.occ \cup KidsOf(d2) : Matches(o, f.o)}]

\* The controller answers a stop of what it has not seen, and records nothing.
Unrecorded(h, op) ==
    [h EXCEPT !.stopped = {IF Matches(s.o, op.target) THEN [s EXCEPT !.fresh = TRUE]
                           ELSE s : s \in @}]

----------------------------------------------------------------------------
(* Steps.  Every handler holds the executor's mutex; Poll holds it from    *)
(* PollBegin to PollEnd.                                                   *)

Idle == up /\ ~mem.poll
Signal(m) == [m EXCEPT !.dirty = TRUE]

NewMem(trusted) ==
    [trusted |-> trusted, active |-> None, timers |-> {}, vol |-> {},
     dirty |-> TRUE, poll |-> FALSE]

\* A transaction commits, or fails and leaves the store as it was.
Commits(d) == disk' = d /\ UNCHANGED left
CommitFails(d) == disk' = d /\ Spends({"commit"})

\* newOpLocked and persistOpLocked: on failure the operation is kept in memory.
Journals(d, m, act, o, child, cost) ==
    LET op == [id |-> Cardinality(hist.made) + 1, act |-> act, target |-> o,
               child |-> child, res |-> None]
        t == [op |-> op, wasKid |-> o \in KidsOf(d), kid |-> child,
              arm |-> IF m.trusted THEN child ELSE {}]
    IN  /\ hist' = Stops(hist, op)
        /\ \/ Spends(cost) /\ disk' = PersistOps(d, {t}) /\ mem' = m
           \/ /\ Spends(cost \cup {"commit"}) /\ disk' = d
              /\ mem' = [m EXCEPT !.vol = @ \cup {t}]

\* Mutant: the wakelock is taken and never given back.
ReconcileAcquires == lock' = (lock \/ LockWanted(disk', mem'))

\* reconcileWakeLockLocked.
Reconcile == lock' = LockWanted(disk', mem')

Tick ==
    /\ now < Horizon /\ (up => ~mem.dirty /\ ~mem.poll)
    /\ now' = now + 1
    /\ mem' = IF up THEN Signal(mem) ELSE mem
    /\ UNCHANGED <<up, boot, disk, lock, ctl, hist, left>>

\* checkActiveLocked.
CheckActive(d, m) ==
    LET a == m.active
        ended == [m EXCEPT !.active = None]
        Stays(x) == disk' = d /\ mem' = x /\ UNCHANGED hist
        Still == {o \in Current(d, m, a.o) : Executable(d, m, o)}
    IN  \/ a = None /\ Stays(m) /\ UNCHANGED left
        \/ /\ a # None /\ a.timer /\ UNCHANGED left
           /\ Stays(IF now < a.deadline THEN m
                    ELSE [ended EXCEPT !.timers = @ \ {a.o}])
        \/ /\ a # None /\ ~a.timer
           /\ \/ Still = {} /\ Stays(ended) /\ UNCHANGED left
              \/ \E o \in Still :
                   \/ /\ now < a.deadline /\ UNCHANGED left
                      /\ Stays([m EXCEPT !.active.o = o])
                   \/ now >= a.deadline /\ Journals(d, ended, "expire", o, {}, {})

\* retryVolatileLocked: the operations that commit now.  One the controller has
\* answered stays in memory; one that fails, or whose second is not up, too.
Retriable == {t \in mem.vol : t.op.res = None}

\* Mutant: an operation that was stored stays in memory as well.
KeptAll(which) == mem.vol

Kept(which) == mem.vol \ which

PollBegin ==
    /\ Idle /\ (mem.dirty \/ Retriable # {})
    /\ \E which \in SUBSET Retriable :
         CheckActive(PersistOps(disk, which), [mem EXCEPT !.poll = TRUE, !.vol = Kept(which)])
    /\ UNCHANGED <<now, up, boot, lock, ctl>>

\* The head of the queue is past its deadline or its catch-up window.
PollExpire ==
    /\ up /\ mem.poll /\ mem.active = None
    /\ \E c \in Heads(disk, mem) :
         Expired(disk, mem, c) /\ Journals(disk, mem, "expire", c.o, {}, {})
    /\ UNCHANGED <<now, up, boot, lock, ctl>>

\* startLocked: a ring never waits for its record, which may fail.
PollStart ==
    /\ up /\ mem.poll /\ mem.active = None
    /\ \E c \in Heads(disk, mem) :
         LET rings == IF c.timer THEN {} ELSE RingOf(disk, c.o)
             end == IF rings = {} THEN now + MaxRingMs
                    ELSE RingMono(mem, CHOOSE r \in rings : TRUE)
             ring == [o |-> c.o, boot |-> boot, first |-> now, deadline |-> end,
                      utc |-> IF mem.trusted THEN end ELSE 0]
         IN  /\ ~Expired(disk, mem, c)
             /\ mem' = [mem EXCEPT !.active =
                          [o |-> c.o, timer |-> c.timer, deadline |-> end]]
             /\ \/ /\ c.timer \/ rings # {}
                   /\ UNCHANGED <<disk, hist, left>>
                \/ /\ ~c.timer /\ rings = {}
                   /\ \/ /\ Commits([disk EXCEPT !.rings = @ \cup {ring}])
                         /\ hist' = [hist EXCEPT !.first = @ \cup
                                       {[o |-> c.o, at |-> now, kept |-> TRUE]}]
                      \/ /\ CommitFails(disk)
                         /\ hist' = [hist EXCEPT !.first = @ \cup
                                       {[o |-> c.o, at |-> now, kept |-> FALSE]}]
    /\ UNCHANGED <<now, up, boot, lock, ctl>>

PollEnd ==
    /\ up /\ mem.poll /\ (mem.active # None \/ Heads(disk, mem) = {})
    /\ mem' = [mem EXCEPT !.poll = FALSE, !.dirty = FALSE]
    /\ UNCHANGED <<now, up, boot, disk, ctl, hist, left>>
    /\ Reconcile

Poll == PollBegin \/ PollExpire \/ PollStart \/ PollEnd

\* Act of a stop or snooze that is not refused.
Act(act, o) ==
    /\ Idle /\ o \in Held(disk, mem) /\ Executable(disk, mem, o)
    /\ LET isActive == mem.active # None /\ mem.active.o = o
           m == Signal(IF isActive THEN [mem EXCEPT !.active = None] ELSE mem)
       IN  \/ act = "dismiss" /\ Journals(disk, m, act, o, {}, {"act"})
           \/ /\ act = "snooze" /\ isActive /\ mem.trusted
              /\ Journals(disk, m, act, o, {SnoozeChild(o)}, {"act"})
    /\ Reconcile
    /\ UNCHANGED <<now, up, boot, ctl>>

\* HandleTimerRing, and Act on the timer.
TimerRing ==
    /\ Idle /\ Spends({"timer"})
    /\ mem' = Signal([mem EXCEPT !.timers = @ \cup
                        {[sched |-> <<"timer", left["timer"]>>, due |-> now, copy |-> FALSE]}])
    /\ UNCHANGED <<now, up, boot, disk, ctl, hist>>
    /\ Reconcile
StopTimer ==
    /\ Idle
    /\ \E t \in mem.timers :
         mem' = Signal([mem EXCEPT
           !.timers = @ \ {t},
           !.active = IF @ # None /\ @.o = t THEN None ELSE @])
    /\ UNCHANGED <<now, up, boot, disk, ctl, hist, left>>
    /\ Reconcile

\* ApplyClockReply, once two answers agree on an offset that is new: everything
\* cached is armed.  The offset stands in memory although the commit fails.
ClockReply ==
    /\ Idle
    /\ LET m == Signal([mem EXCEPT !.trusted = TRUE])
           new == NewlyArmed(disk, m, disk.occ \cup KidsOf(disk))
           d == [disk EXCEPT
                   !.anchor = boot,
                   !.armed = {x \in @ : x.o \notin new} \cup ArmedBy(new)]
       IN  /\ m.trusted # mem.trusted \/ d # disk
           /\ mem' = m
           /\ Commits(d) \/ (~mem.trusted /\ CommitFails(disk))
    /\ UNCHANGED <<now, up, boot, lock, ctl, hist>>

\* The process is killed, or closes and releases the wakelock.
Crash ==
    /\ Idle /\ Spends({"crash"})
    /\ up' = FALSE /\ mem' = NewMem(FALSE)
    /\ lock' \in {lock, FALSE}
    /\ LET lost == {t.op : t \in mem.vol}
       IN  hist' = [hist EXCEPT
             !.lost = @ \cup {op.id : op \in lost},
             !.stopped = {s \in @ : \A op \in lost : op.target # s.o},
             !.first = {f \in @ : f.kept}]
    /\ UNCHANGED <<now, boot, disk, ctl>>

\* NewExecutor, in the same boot or after a restart of the device.
Start ==
    /\ ~up /\ up' = TRUE
    /\ \/ boot' = boot /\ UNCHANGED left
       \/ boot' = boot + 1 /\ Spends({"reboot"})
    /\ mem' = NewMem(disk.anchor = boot')
    /\ UNCHANGED <<now, disk, ctl, hist>>
    /\ Reconcile

----------------------------------------------------------------------------
(* The controller                                                          *)

\* Endpoint::live.
Live ==
    {o \in ctl.cal : /\ \A op \in ctl.pend : op.target # o
                     /\ o.due + CatchUpMs >= now}

\* A delta or a snapshot brings the speaker to the live set.
Delivered(put, d) ==
    /\ mem' = Signal(mem)
    /\ \/ /\ Commits(d)
          /\ hist' = Delivers(hist, disk, mem, d, put)
          /\ lock' = LockWanted(d, mem)
       \/ CommitFails(disk) /\ UNCHANGED <<hist, lock>>
    /\ UNCHANGED <<now, up, boot>>

ApplyDelta ==
    /\ Idle
    /\ LET gone == (disk.occ \cup ctl.gone) \ Live
       IN  /\ gone # {} \/ Live # disk.occ
           /\ Delivered(Live \ disk.occ, DeltaTxn(disk, mem, gone, Live \ disk.occ))
    /\ ctl' = [ctl EXCEPT !.gone = {}]
ApplySnapshot ==
    /\ Idle /\ disk # SnapshotTxn(disk, mem, Live)
    /\ Delivered(Live \ disk.occ, SnapshotTxn(disk, mem, Live))
    /\ UNCHANGED ctl

Volatile(id) == {t \in mem.vol : t.op.id = id}

\* ApplyOpResult, for an operation in memory and for a journaled one.
ApplyOpResult(id, state, h) ==
    /\ \/ /\ Volatile(id) # {} /\ UNCHANGED <<disk, left>>
          /\ mem' = Signal([mem EXCEPT !.vol = (@ \ Volatile(id)) \cup
               {[t EXCEPT !.op.res = state, !.kid = IF state = "rejected" THEN {} ELSE @] :
                   t \in Volatile(id)}])
          /\ hist' = [h EXCEPT !.answered = @ \cup {id}]
       \/ /\ Volatile(id) = {} /\ mem' = Signal(mem)
          /\ \/ /\ \E op \in disk.ops : op.id = id /\ Commits(ResultTxn(disk, op, state))
                /\ hist' = [h EXCEPT !.answered = @ \cup {id}]
             \/ /\ \A op \in disk.ops : op.id # id
                /\ UNCHANGED <<disk, left, hist>>
             \/ CommitFails(disk) /\ UNCHANGED hist
    /\ Reconcile

\* PendingOperations go up in order, the journaled ones first.
Received(op) == op \in ctl.pend \/ \E r \in ctl.res : r.id = op.id
NextUp(op) == \A p \in disk.ops : p.id < op.id /\ p.res = None => Received(p)

\* local_operation: one already journaled is answered once settled; one on an
\* occurrence the calendar has not shown is answered at once.
LocalOperation(op) ==
    /\ Idle /\ op.res = None /\ NextUp(op)
    /\ \/ \E r \in ctl.res :
            r.id = op.id /\ ApplyOpResult(op.id, r.state, hist) /\ UNCHANGED ctl
       \/ /\ ~Received(op) /\ op.target \in ctl.known
          /\ ctl' = [ctl EXCEPT !.pend = @ \cup {op}]
          /\ UNCHANGED <<disk, mem, lock, hist, left>>
       \/ /\ ~Received(op) /\ op.target \notin ctl.known
          /\ ApplyOpResult(op.id, IF op.act = "snooze" THEN "rejected" ELSE "applied",
                           Unrecorded(hist, op))
          /\ ctl' = [ctl EXCEPT !.gone = @ \cup op.child]
    /\ UNCHANGED <<now, up, boot>>

\* settled: the applier, which takes operations in order, has written the
\* calendar, or was refused, which retracts the child of a snooze.  The answer
\* may be lost with the session; the next one repeats those that are missing.
Settled(op, state) ==
    /\ \A p \in ctl.pend : op.id <= p.id
    /\ \/ /\ state = "applied"
          /\ \E shown \in IF op.child = {} THEN {{}}
                          ELSE {{c} : c \in UNION {Formatted(x) : x \in op.child}} :
               ctl' = [ctl EXCEPT
                 !.pend = @ \ {op}, !.res = @ \cup {[id |-> op.id, state |-> state]},
                 !.cal = (@ \ {op.target}) \cup shown, !.known = @ \cup shown]
          /\ \/ /\ Idle /\ \A p \in disk.ops : p.id < op.id /\ p.res = None => ~Received(p)
                /\ ApplyOpResult(op.id, state, hist)
             \/ Spends({"lost"}) /\ UNCHANGED <<disk, mem, lock, hist>>
       \/ /\ state = "rejected" /\ Spends({"reject"})
          /\ ctl' = [ctl EXCEPT
               !.pend = @ \ {op}, !.res = @ \cup {[id |-> op.id, state |-> state]},
               !.gone = @ \cup op.child]
          /\ UNCHANGED <<disk, mem, lock, hist>>
    /\ UNCHANGED <<now, up, boot>>

----------------------------------------------------------------------------

Init ==
    /\ now = 0 /\ up = TRUE /\ boot = 0
    /\ disk = [occ |-> {}, ops |-> {}, kids |-> {}, armed |-> {}, rings |-> {},
               anchor |-> None]
    /\ mem = NewMem(FALSE)
    /\ lock = FALSE
    /\ ctl = [cal |-> {Alarm(a) : a \in Alarms}, known |-> {Alarm(a) : a \in Alarms},
              pend |-> {}, res |-> {}, gone |-> {}]
    /\ hist = [stopped |-> {}, first |-> {}, made |-> {}, answered |-> {}, lost |-> {}]
    /\ left = Budget

Next ==
    \/ Tick \/ Poll
    \/ \E o \in Held(disk, mem) : Act("dismiss", o) \/ Act("snooze", o)
    \/ TimerRing \/ StopTimer \/ ClockReply \/ Crash \/ Start
    \/ ApplyDelta \/ ApplySnapshot
    \/ \E op \in Ops(disk, mem) : LocalOperation(op)
    \/ \E op \in ctl.pend, state \in {"applied", "rejected"} : Settled(op, state)

Spec == Init /\ [][Next]_vars

\* Poll runs every tick and on every signal, a process that ended is started
\* again, clock requests repeat each second until two answers agree, and the
\* controller brings the cache to its live set.
FairSpec ==
    /\ Spec
    /\ WF_vars(Poll) /\ WF_vars(Start)
    /\ WF_vars(ClockReply /\ ~mem.trusted) /\ WF_vars(ApplyDelta)

----------------------------------------------------------------------------
(* Properties                                                              *)

CommitFailed == left["commit"] < Budget["commit"]
Clean == Idle /\ ~mem.dirty
Rings == mem.active # None /\ ~mem.active.timer

TypeOK ==
    /\ now \in 0..Horizon /\ up \in BOOLEAN /\ boot \in Nat /\ lock \in BOOLEAN
    /\ \A x \in disk.armed \cup disk.rings : x.boot <= boot
    /\ \A op \in Ops(disk, mem) : op.id \in hist.made
    /\ \A p, q \in Ops(disk, mem) : p.id = q.id => p = q
    /\ \A r, q \in disk.rings : r.o = q.o => r = q
    /\ mem.trusted \in BOOLEAN /\ mem.dirty \in BOOLEAN /\ mem.poll \in BOOLEAN
    /\ left \in [Events -> Nat]

\* An alarm the user or the ring limit stopped does not sound again, whatever
\* is delivered, answered, replayed from the store or retried, unless the
\* controller has answered the stop and delivers the occurrence anew, or had
\* never seen it (executor_replay).  A snooze that could not be stored is stored
\* again later with its child, whatever became of the child meanwhile.
StopHolds ==
    Clean /\ Rings =>
        \A s \in hist.stopped :
            Matches(s.o, mem.active.o) => s.fresh \/ (IsChild(s.o) /\ CommitFailed)

\* No operation is forgotten before the controller has answered it, unless the
\* process died while the store could not be written.
KeptUntilAnswered ==
    up => hist.made \subseteq
            hist.answered \cup hist.lost \cup {op.id : op \in Ops(disk, mem)}

\* Restarts of process and device, and the controller's copy taking over from
\* the speaker's own, never ring an occurrence past its first ring's limit.
\* A snooze that is stored late brings its child back beside the copy.
RingNotRenewed ==
    Rings => \A f \in hist.first :
                Matches(f.o, mem.active.o) => \/ mem.active.deadline <= f.at + MaxRingMs
                                              \/ IsChild(f.o) /\ CommitFailed

\* The wakelock is held exactly while something is armed or rings, across
\* failed writes, restarts and a lock left behind by a killed process.
LockInStep == Idle => lock = LockWanted(disk, mem)

\* What rings is in the cache and not stopped: a ring ends with its occurrence,
\* and follows a snooze child to the copy that replaced it.
ActiveIsHeld ==
    Clean /\ Rings =>
        mem.active.o \in Held(disk, mem) /\ Executable(disk, mem, mem.active.o)

\* A snooze child delivered under the speaker's own ID, which executor_disarm
\* is about, or a clock that became trusted although its commit failed, leaves
\* an occurrence without its deadline.
Exempt(o) ==
    ((IsChild(o) /\ ~o.copy) \/ CommitFailed) /\ mem.trusted /\ ~ArmedHere(disk, o)

\* A due alarm of the cache rings, is stopped or expires: the speaker is never
\* silent for good while one waits.
DueRings ==
    []<>~(/\ mem.active = None
          /\ \E o \in Armed(disk, mem) : o.due <= now /\ ~Exempt(o))

\* Every alarm of the cache that may ring has its deadline in this boot once the
\* clock is trusted: no further message is needed.
NeedsNoMessage ==
    Idle /\ mem.trusted /\ ~CommitFailed =>
        \A o \in Armed(disk, mem) : ArmedHere(disk, o)

\* A dismissal that was persisted stops its occurrence for good.
DismissalIsFinal ==
    Clean /\ Rings =>
        ~\E s \in hist.stopped : s.act = "dismiss" /\ Matches(s.o, mem.active.o)
=============================================================================
