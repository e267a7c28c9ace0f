----------------------------- MODULE AlertApplier -----------------------------
(***************************************************************************)
(* How the controller writes one speaker's alarm operations to its Home    *)
(* Assistant calendar (crates/alerts/src/service): operations journaled in *)
(* order, one applier that performs their writes one at a time, the feed   *)
(* that reads the calendar back, the guard that deletes again what a       *)
(* restored calendar brings back, unanswered and refused calls,            *)
(* reconnects, and restarts of the controller between any two steps.       *)
(*                                                                         *)
(* Home Assistant and its calendar are external: an event is a uid, its    *)
(* schedule, the operation that created it, and the keys of the            *)
(* occurrences it still has.  The service sees only the occurrences in the *)
(* window of its subscription, which each new subscription moves on, and   *)
(* the backlog before it, read when it subscribes.  The binding of the     *)
(* calendar is left out.                                                   *)
(***************************************************************************)
EXTENDS Naturals, Sequences, SequencesExt, FiniteSets

CONSTANTS
    Ops,     \* operations that may be journaled
    Plan,    \* what each is: [action, sched, key, new], new what it creates
             \* ([sched, key]) or None
    Events0, \* the calendar at the start: [sched, keys]
    Windows, \* the occurrences due in each window, as time passes
    MaxActs, \* bound on operations journaled and moves of the window together
    MaxWire, \* bound on the pushes under way
    Budget,  \* bounds on outside events ...
    Kinds,   \* ... and on how many kinds of them a behaviour has
    None

Faults == {"unknown", "refused", "down", "crash", "restore", "remove"}

ASSUME PlanAssumption ==
    /\ \A op \in Ops : Plan[op].action \in {"create", "cancel", "dismiss", "snooze"}
    /\ None \notin Ops
ASSUME EventsAssumption ==
    IsFiniteSet(Events0) /\ \A e \in Events0 : IsFiniteSet(e.keys)
ASSUME WindowAssumption == Len(Windows) \in Nat \ {0}
ASSUME BoundAssumption ==
    MaxActs \in Nat /\ MaxWire \in Nat \ {0} /\ Kinds \in Nat /\ Budget \in [Faults -> Nat]

VARIABLES
    now,   \* the window the time is in
    cal,   \* Home Assistant's calendar, and the uids given out
    conn,  \* connected to Home Assistant
    feed,  \* the subscription
    frame, \* its window
    wire,  \* pushes read from Home Assistant and not yet handled
    owed,  \* the calendar changed since the last push
    view,  \* the service's view: its events, their window, and whether read
           \* on this connection
    newer, \* the view is of a later push than the one the applier noted
    rows,  \* the journal: each operation's state and step, and their order
    jobs,  \* work queued for the applier
    pc,    \* where the applier is
    guarding, \* occurrences a guard job is queued for
    hist,  \* history: what operations wrote, and the backup
    left   \* what is left of Budget

ha == <<now, cal, conn, owed>>
stream == <<feed, frame>>
service == <<view, newer, rows, jobs, guarding>>
vars == <<ha, stream, wire, service, pc, hist, left>>

Spends(fault) ==
    /\ left[fault] > 0
    /\ Cardinality({f \in Faults : left[f] < Budget[f]} \cup {fault}) <= Kinds
    /\ left' = [left EXCEPT ![fault] = @ - 1]

----------------------------------------------------------------------------
(* Reading a calendar                                                      *)

Event(uid, sched, op, keys) == [uid |-> uid, sched |-> sched, op |-> op, keys |-> keys]
Finds(events, sched, key) == {e \in events : e.sched = sched /\ key \in e.keys}
ScheduleUid(events, sched) == {e \in events : e.sched = sched}
CreatedBy(events, op) == {e \in events : e.op = op}

\* The event an operation creates: its own, or a snooze's child.
NewEvent(op, uid) == Event(uid, Plan[op].new.sched, op, {Plan[op].new.key})

\* What a reading of the occurrences K shows of the calendar.
Visible(events, K) ==
    {Event(e.uid, e.sched, e.op, e.keys \cap K) : e \in {x \in events : x.keys \cap K # {}}}

\* Mutant: the backlog is not read.
PastNone(w) == {}

\* The occurrences due before a window.
Past(w) == (UNION {Windows[i] : i \in 1..w}) \ Windows[w]

\* delete_event: the whole event, or one occurrence of it.
Without(events, target) ==
    LET hit == {e \in events : e.uid = target.uid}
        rest == {Event(e.uid, e.sched, e.op, e.keys \ {target.key}) : e \in hit}
    IN  (events \ hit) \cup
        (IF target.key = None THEN {} ELSE {e \in rest : e.keys # {}})

TargetOf(e, key) == [uid |-> e.uid, key |-> key]

----------------------------------------------------------------------------
(* The journal                                                             *)

Pending == {op \in Ops : rows.state[op] = "pending"}
Settled == {op \in Ops : rows.state[op] \in {"applied", "rejected"}}
Applied == {op \in Ops : rows.state[op] = "applied"}
Terminal(op) == Plan[op].action \in {"dismiss", "snooze"}

\* RestoreGuard, and Endpoint::guarded: handled by an applied operation.
Cancelled(sched) == \E op \in Applied : Plan[op].sched = sched /\ Plan[op].action = "cancel"
Guarded(sched, key) ==
    \/ Cancelled(sched)
    \/ \E op \in Applied : Plan[op].sched = sched /\ Terminal(op) /\ Plan[op].key = key

\* Operations are journaled and windows pass within the bound.
MayAct == Len(rows.order) + now <= MaxActs

OpJob(op) == [op |-> op, target |-> None, occ |-> None]

\* Mutant: rows are queued again in no particular order.
RequeueAny == {SetToSeq(Pending), Reverse(SetToSeq(Pending))}

\* Mutants: settled rows are queued again; pending ones are not.
RequeueAll == {rows.order}
RequeueNone == {<<>>}

Earlier(order, a, b) ==
    \E i, j \in DOMAIN order : i < j /\ order[i] = a /\ order[j] = b

\* PendingOps: what a restart queues again, in order.
Requeue == {order \in SetToSeqs(Pending) :
              \A i, j \in DOMAIN order : i < j => Earlier(rows.order, order[i], order[j])}

\* local_operation and the other requests: JournalOps, then the applier's queue.
Journal(op) ==
    /\ rows.state[op] = "none" /\ MayAct
    /\ rows' = [rows EXCEPT !.state[op] = "pending", !.order = Append(@, op)]
    /\ jobs' = Append(jobs, OpJob(op))
    /\ UNCHANGED <<ha, stream, wire, view, newer, guarding, pc, hist, left>>

----------------------------------------------------------------------------
(* The feed and the view                                                   *)

Outdated(read) == [read EXCEPT !.cur = FALSE]

\* A new connection is a new generation: what was read before is not of it.
Disconnect ==
    /\ conn /\ Spends("down")
    /\ conn' = FALSE
    /\ feed' = IF feed = "on" THEN "old" ELSE feed
    /\ wire' = [i \in DOMAIN wire |-> Outdated(wire[i])]
    /\ view' = IF view = None THEN None ELSE Outdated(view)
    /\ UNCHANGED <<now, cal, owed, frame, newer, rows, jobs, guarding, pc, hist>>
Connect ==
    /\ ~conn /\ conn' = TRUE
    /\ UNCHANGED <<now, cal, owed, stream, wire, service, pc, hist, left>>

TimePasses ==
    /\ now < Len(Windows) /\ MayAct /\ now' = now + 1
    /\ UNCHANGED <<cal, conn, owed, stream, wire, service, pc, hist, left>>

\* What a push of the subscription with window w reads, and the backlog found
\* when it was made.
Read(w, backlog) ==
    [cur |-> TRUE, at |-> w, events |-> Visible(cal.events, Windows[w]), backlog |-> backlog]
Reads(w, backlog) == wire' = Append(wire, Read(w, backlog)) /\ owed' = FALSE

\* attempt: the window is fixed and the backlog read, unless that fails; the
\* subscription's first push is a fresh read.
Subscribe ==
    /\ conn /\ feed = "off" /\ Len(wire) < MaxWire
    /\ feed' = "on" /\ frame' = now
    /\ \/ Reads(now, Visible(cal.events, Past(now))) /\ UNCHANGED left
       \/ Reads(now, {}) /\ Spends("refused")
    /\ UNCHANGED <<now, cal, conn, service, pc, hist>>
Push ==
    /\ owed /\ feed = "on" /\ Len(wire) < MaxWire /\ Reads(frame, {})
    /\ UNCHANGED <<now, cal, conn, stream, service, pc, hist, left>>

\* The subscription ends with its connection, at a request of the applier for a
\* fresh read (which may be older than it), or after an hour.
EndFeed ==
    /\ feed # "off" /\ feed' = "off"
    /\ UNCHANGED <<ha, frame, wire, service, pc, hist, left>>

\* guard_delete: one job for each handled occurrence a reading shows again, for
\* an event that shows it.
Handled(events) ==
    {occ \in UNION {{e.sched} \X e.keys : e \in events} :
        Guarded(occ[1], occ[2]) /\ occ \notin guarding}
GuardJob(e, occ) ==
    [op |-> None, occ |-> occ,
     target |-> TargetOf(e, IF Cancelled(occ[1]) THEN None ELSE occ[2])]
GuardJobs(events) ==
    LET order == SetToSeq(Handled(events))
    IN  \E by \in [Handled(events) -> events] :
            /\ \A occ \in DOMAIN by : by[occ].sched = occ[1] /\ occ[2] \in by[occ].keys
            /\ jobs' = jobs \o [i \in DOMAIN order |-> GuardJob(by[order[i]], order[i])]

\* feed_event: process_backlog, then rebuild_view.
Publish ==
    /\ wire # <<>>
    /\ view' = [Head(wire) EXCEPT !.backlog = {}] /\ newer' = TRUE /\ wire' = Tail(wire)
    /\ LET shown == Head(wire).events \cup Head(wire).backlog
       IN  GuardJobs(shown) /\ guarding' = guarding \cup Handled(shown)
    /\ UNCHANGED <<ha, stream, rows, pc, hist, left>>

----------------------------------------------------------------------------
(* The applier                                                             *)

At(where, job, step) == [at |-> where, job |-> job, step |-> step, call |-> None,
                         forced |-> FALSE, result |-> None]
IdlePc == At("idle", None, 0)

Take ==
    /\ pc.at = "idle" /\ jobs # <<>>
    /\ LET job == Head(jobs)
       IN  pc' = At("fresh", job, IF job.op = None THEN 0 ELSE rows.step[job.op])
    /\ jobs' = Tail(jobs)
    /\ UNCHANGED <<ha, stream, wire, view, newer, rows, guarding, hist, left>>

\* fresh_view.
Fresh == conn /\ view # None /\ view.cur

Decide(result) ==
    /\ pc' = [pc EXCEPT !.at = "settle", !.result = result]
    /\ UNCHANGED <<newer, rows>>
Calls(kind, target) ==
    /\ pc' = [pc EXCEPT !.at = "call", !.call = [kind |-> kind, target |-> target]]
    /\ newer' = FALSE
    /\ UNCHANGED rows
DeletesOrDone(found, key) ==
    \/ found = {} /\ Decide("applied")
    \/ \E e \in found : Calls("delete", TargetOf(e, key))

\* Mutant: the parent is deleted first.
SnoozeParentFirst(op) ==
    LET p == Plan[op]
    IN  \/ /\ Finds(view.events, p.sched, p.key) # {}
           /\ DeletesOrDone(Finds(view.events, p.sched, p.key), p.key)
        \/ /\ Finds(view.events, p.sched, p.key) = {}
           /\ IF CreatedBy(view.events, op) = {} THEN Calls("create", None)
              ELSE Decide("applied")

\* snooze: the child first, under the operation's id, then the parent.
Snooze(op) ==
    LET p == Plan[op]
    IN  \/ /\ pc.step = 0 /\ CreatedBy(view.events, op) = {}
           /\ IF ScheduleUid(view.events, p.sched) = {} THEN Decide("rejected")
              ELSE Calls("create", None)
        \/ /\ pc.step = 0 /\ CreatedBy(view.events, op) # {}
           /\ pc' = [pc EXCEPT !.step = 1]
           /\ rows' = [rows EXCEPT !.step[op] = 1]
           /\ UNCHANGED newer
        \/ pc.step = 1 /\ DeletesOrDone(Finds(view.events, p.sched, p.key), p.key)

\* Mutant: the calendar is not looked at before a create.
CreateAlways(op) == Calls("create", None)

\* create, cancel, delete_occurrence.
Create(op) ==
    IF CreatedBy(view.events, op) # {} THEN Decide("applied") ELSE Calls("create", None)

Cancel(op) == DeletesOrDone(ScheduleUid(view.events, Plan[op].sched), None)

\* An occurrence due before the window is looked up and deleted through REST.
DeleteOccurrence(op) ==
    LET p == Plan[op]
        seen == Finds(view.events, p.sched, p.key)
        there == Finds(cal.events, p.sched, p.key)
    IN  IF seen = {} /\ p.key \in Past(view.at) /\ there # {}
        THEN \E e \in there : Calls("past", TargetOf(e, p.key))
        ELSE DeletesOrDone(seen, p.key)

\* An attempt starts from a view read on this connection.
Attempt ==
    /\ pc.at = "fresh" /\ Fresh
    /\ LET op == pc.job.op
       IN  \/ op = None /\ Calls("delete", pc.job.target)
           \/ op # None /\ Plan[op].action = "create" /\ Create(op)
           \/ op # None /\ Plan[op].action = "cancel" /\ Cancel(op)
           \/ op # None /\ Plan[op].action = "dismiss" /\ DeleteOccurrence(op)
           \/ op # None /\ Plan[op].action = "snooze" /\ Snooze(op)
    /\ UNCHANGED <<ha, stream, wire, view, jobs, guarding, hist, left>>

\* What the call does to the calendar when it reaches it.
Write ==
    LET c == pc.call
    IN  IF c.kind = "create"
        THEN /\ cal' = [events |-> cal.events \cup {NewEvent(pc.job.op, cal.uids + 1)},
                        uids |-> cal.uids + 1]
             /\ hist' = [hist EXCEPT !.created = @ \cup {pc.job.op}]
        ELSE /\ cal' = [cal EXCEPT !.events = Without(@, c.target)]
             /\ hist' = [hist EXCEPT !.deleted = @ \cup {pc.job.op}]
Missing == pc.call.kind # "create" /\ Without(cal.events, pc.call.target) = cal.events

Next1(where) == pc' = [pc EXCEPT !.at = where]
Result(result) == pc' = [pc EXCEPT !.at = "settle", !.result = result]

\* Mutant: the occurrence stays marked after its guard job.
GuardDoneKeeps == pc' = IdlePc /\ UNCHANGED <<guarding, rows>>

GuardDone ==
    /\ pc' = IdlePc /\ guarding' = guarding \ {pc.job.occ}
    /\ UNCHANGED rows

\* A refused delete is decided by a fresh view; one before the window by looking
\* it up again, which may fail as well.
Refused(result) ==
    /\ CASE pc.call.kind = "create" -> Result("rejected")
         [] pc.call.kind = "delete" -> Next1("reread")
         [] pc.call.kind = "past" -> Result(result)
    /\ UNCHANGED <<rows, guarding>>

\* The answer to the write, or none.
CallAnswered ==
    /\ pc.at = "call" /\ conn
    /\ \/ /\ ~Missing /\ Write /\ owed' = TRUE /\ UNCHANGED left
          /\ IF pc.job.op = None THEN GuardDone
             ELSE /\ IF pc.call.kind = "past" THEN Result("applied") ELSE Next1("confirm")
                  /\ UNCHANGED guarding
                  /\ rows' = IF Plan[pc.job.op].action = "create"
                             THEN [rows EXCEPT !.step[pc.job.op] = 1] ELSE rows
       \/ /\ Missing /\ UNCHANGED <<cal, owed, hist, left>>
          /\ IF pc.job.op = None THEN GuardDone ELSE Refused("applied")
       \/ /\ Spends("refused") /\ UNCHANGED <<cal, owed, hist>>
          /\ IF pc.job.op = None THEN GuardDone ELSE Refused("rejected")
    /\ UNCHANGED <<now, conn, stream, wire, view, newer, jobs>>
NotDispatched ==
    /\ pc.at = "call" /\ ~conn
    /\ IF pc.job.op = None THEN GuardDone
       ELSE Next1("fresh") /\ UNCHANGED <<rows, guarding>>
    /\ UNCHANGED <<ha, stream, wire, view, newer, jobs, hist, left>>
Unanswered ==
    /\ pc.at = "call" /\ Spends("unknown")
    /\ \/ ~Missing /\ conn /\ Write /\ owed' = TRUE
       \/ UNCHANGED <<cal, owed, hist>>
    /\ IF pc.job.op = None THEN GuardDone
       ELSE /\ IF pc.call.kind = "past" THEN pc' = At("fresh", pc.job, pc.step)
               ELSE pc' = [pc EXCEPT !.at = "reread", !.forced = TRUE]
            /\ UNCHANGED <<rows, guarding>>
    /\ UNCHANGED <<now, conn, stream, wire, view, newer, jobs>>

\* The subscription shows what the write was for.
Shown ==
    LET op == pc.job.op
        p == Plan[op]
    IN  CASE pc.call.kind = "create" -> CreatedBy(view.events, op) # {}
          [] p.action = "cancel" -> ScheduleUid(view.events, p.sched) = {}
          [] OTHER -> Finds(view.events, p.sched, p.key) = {}

Confirmed == view # None /\ newer /\ Shown

\* confirm: after the write, then once more after a forced read.  A deadline may
\* pass before what it waits for comes.
Confirm ==
    /\ pc.at = "confirm"
    /\ \/ /\ Confirmed
          /\ IF Plan[pc.job.op].action = "snooze" /\ pc.call.kind = "create"
             THEN /\ pc' = At("fresh", pc.job, 1)
                  /\ rows' = [rows EXCEPT !.step[pc.job.op] = 1]
             ELSE /\ pc' = [pc EXCEPT !.at = "settle", !.result = "applied"]
                  /\ UNCHANGED rows
       \/ /\ ~Confirmed /\ ~pc.forced /\ UNCHANGED rows
          /\ pc' = [pc EXCEPT !.forced = TRUE]
       \/ /\ ~Confirmed /\ pc.forced /\ UNCHANGED rows
          /\ pc' = [pc EXCEPT !.at = "settle", !.result = "rejected"]
    /\ UNCHANGED <<ha, stream, wire, view, newer, jobs, guarding, hist, left>>

\* reread, until a newer push or its deadline: an unanswered write is tried
\* again, a refused delete is decided.
RereadDone ==
    /\ pc.at = "reread"
    /\ IF pc.forced THEN pc' = At("fresh", pc.job, pc.step)
       ELSE pc' = [pc EXCEPT !.at = "settle",
                     !.result = IF Confirmed THEN "applied" ELSE "rejected"]
    /\ UNCHANGED <<ha, stream, wire, service, hist, left>>

Settle ==
    /\ pc.at = "settle"
    /\ rows' = [rows EXCEPT !.state[pc.job.op] = pc.result]
    /\ pc' = IdlePc
    /\ UNCHANGED <<ha, stream, wire, view, newer, jobs, guarding, hist, left>>

----------------------------------------------------------------------------
(* Restarts and the outside                                                *)

\* The controller restarts: only the journal is left.
Restart ==
    /\ Spends("crash")
    /\ \E order \in Requeue : jobs' = [i \in DOMAIN order |-> OpJob(order[i])]
    /\ pc' = IdlePc /\ view' = None /\ newer' = FALSE /\ wire' = <<>>
    /\ feed' = "off" /\ guarding' = {} /\ conn' = FALSE
    /\ UNCHANGED <<now, cal, owed, frame, rows, hist>>

\* A backup of the calendar is restored; the user deletes an event.
Restore ==
    /\ Spends("restore")
    /\ \E e \in hist.seen : cal' = [cal EXCEPT !.events =
                              {x \in @ : x.uid # e.uid} \cup {e}]
    /\ owed' = TRUE
    /\ UNCHANGED <<now, conn, stream, wire, service, pc, hist>>
UserRemoves ==
    /\ Spends("remove")
    /\ \E e \in cal.events :
         cal' = [cal EXCEPT !.events = @ \ {e}]
    /\ owed' = TRUE
    /\ UNCHANGED <<now, conn, stream, wire, service, pc, hist>>

----------------------------------------------------------------------------

Init ==
    LET start == SetToSeq(Events0)
        events == {Event(i, start[i].sched, None, start[i].keys) : i \in DOMAIN start}
    IN  /\ cal = [events |-> events, uids |-> Len(start)]
        /\ hist = [created |-> {}, deleted |-> {}, seen |-> events]
        /\ now = 1 /\ frame = 1 /\ conn = FALSE /\ feed = "off"
        /\ wire = <<>> /\ owed = FALSE /\ view = None /\ newer = FALSE
        /\ rows = [state |-> [op \in Ops |-> "none"], step |-> [op \in Ops |-> 0],
                   order |-> <<>>]
        /\ jobs = <<>> /\ guarding = {} /\ pc = IdlePc
        /\ left = Budget

Next ==
    \/ \E op \in Ops : Journal(op)
    \/ TimePasses \/ Disconnect \/ Connect \/ Subscribe \/ EndFeed \/ Push \/ Publish
    \/ Take \/ Attempt \/ CallAnswered \/ NotDispatched \/ Unanswered
    \/ Confirm \/ RereadDone \/ Settle
    \/ Restart \/ Restore \/ UserRemoves

Spec == Init /\ [][Next]_vars

\* Time passes, the feed reconnects, follows and rolls its subscription each hour,
\* and the applier's task runs; outside events need not happen.
FairSpec ==
    /\ Spec
    /\ WF_vars(TimePasses) /\ WF_vars(Connect) /\ WF_vars(Subscribe) /\ WF_vars(Push) /\ WF_vars(Publish)
    /\ WF_vars(EndFeed)
    /\ WF_vars(Take) /\ WF_vars(Attempt) /\ WF_vars(CallAnswered)
    /\ WF_vars(NotDispatched) /\ WF_vars(Confirm) /\ WF_vars(RereadDone)
    /\ WF_vars(Settle)

----------------------------------------------------------------------------
(* Properties                                                              *)

Present(op) ==
    LET p == Plan[op]
    IN  IF p.action = "cancel" THEN ScheduleUid(cal.events, p.sched) # {}
        ELSE Finds(cal.events, p.sched, p.key) # {}
Handles(op) == Terminal(op) \/ Plan[op].action = "cancel"

\* What the applier works on is pending, and each occurrence being guarded has
\* exactly the one job for it.
TypeOK ==
    /\ pc.at # "idle" /\ pc.job.op # None => pc.job.op \in Pending
    /\ guarding = {jobs[i].occ : i \in {j \in DOMAIN jobs : jobs[j].op = None}} \cup
                  (IF pc.at # "idle" /\ pc.job.op = None THEN {pc.job.occ} ELSE {})
    /\ Len(wire) <= MaxWire /\ newer \in BOOLEAN /\ owed \in BOOLEAN

\* No write of an operation before every operation journaled earlier is settled,
\* across restarts: an alarm cancelled after it was snoozed stays cancelled.
InOrder ==
    pc.at = "call" /\ pc.job.op # None =>
        \A op \in Ops : Earlier(rows.order, op, pc.job.op) => op \in Settled

\* What an operation creates is due in every window there has been.
Framed(op) == \A w \in 1..now : Plan[op].new.key \in Windows[w]

\* A restart between any two steps of a create or a snooze does not repeat the
\* event it wrote, as long as every call is answered and the event is due in
\* every window: an alarm set for more than a week ahead, or one that was due
\* before the window moved on, is not seen by the repeated create.
NoDuplicate ==
    left["unknown"] = Budget["unknown"] =>
        \A e, f \in cal.events : e.op = f.op /\ e.op # None /\ Framed(e.op) => e = f

\* The parent of a snooze is not deleted before the child has been written, so
\* no restart in between leaves neither.
SnoozeKeepsAlarm ==
    \A op \in hist.deleted :
        op # None /\ Plan[op].action = "snooze" => op \in hist.created

\* Every journaled operation is settled, whatever connections, answers and
\* restarts come between.
LiveSettles == \A op \in Ops : op \in Pending ~> op \in Settled

\* An occurrence an applied operation handled does not stay on the calendar,
\* although a backup brings it back.
LiveHandled ==
    \A op \in Ops : Handles(op) =>
        (op \in Applied /\ Present(op) ~> ~Present(op))

\* A create is recovered by repeating only what is missing: no operation has
\* two events.
RepeatsOnlyMissing ==
    \A e, f \in cal.events : e.op = f.op /\ e.op # None => e = f
=============================================================================
