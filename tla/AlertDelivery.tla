--------------------------- MODULE AlertDelivery ---------------------------
(***************************************************************************)
(* Delivery of one speaker's alert cache: the controller's `Delivery`      *)
(* (crates/alerts/src/delivery.rs), the part of the alert service that     *)
(* drives it (service/mod.rs), the device's cache of live occurrences      *)
(* (device/internal/alerts/delivery.go) and the control session between    *)
(* them.  The controller publishes numbered versions of the live set; the  *)
(* device holds one of them and acknowledges its number.                   *)
(*                                                                         *)
(* A version is a function from occurrence ids to contents, Absent when    *)
(* the occurrence is not live.  Revisions are kept on the controller only, *)
(* where `armed` reads them: the device never compares them.               *)
(***************************************************************************)
EXTENDS Integers, Sequences, FiniteSets

CONSTANTS
    Occurrences,  \* occurrence ids, ordered as their UUID text is
    Contents,     \* what a live occurrence says (due time, label, sound...)
    Absent,       \* not a content: the occurrence is not live
    NoVersion,    \* not a version: nothing sent, nothing read yet
    PageObjects,  \* SNAPSHOT_PAGE_OBJECTS
    Budget        \* how often each kind of outside event may happen

\* The outside events, each bounded by Budget: edits of the calendar, and the
\* faults, which Budget["faults"] also bounds together.
Faults == {"session", "crash", "forget", "retract", "db", "commit", "drop",
           "reboot", "damage"}
Events == Faults \cup {"calendar", "faults"}

ASSUME OccurrencesAssumption ==
    Occurrences \subseteq Int /\ IsFiniteSet(Occurrences)
ASSUME AbsentAssumption == Absent \notin Contents
ASSUME PageAssumption == PageObjects \in Nat \ {0}
ASSUME BudgetAssumption == Budget \in [Events -> Nat]

Objects == Contents \cup {Absent}
Versions == [Occurrences -> Objects]
Empty == [id \in Occurrences |-> Absent]

ASSUME NoVersionAssumption == NoVersion \notin Versions

VARIABLES
    row,       \* the alert_delivery row; epoch 0 while there is none
    bound,     \* Endpoint.delivery is Some
    d,         \* that Delivery, without its session (kept in att)
    att,       \* Endpoint.attached: its session (0: none) and hello
    desired,   \* the live set of the last calendar push, or NoVersion
    calendar,  \* the live set Home Assistant's calendar holds now
    link,      \* the control session: its number, and up, dying or down
    down, up,  \* messages to the device; events for the alert service
    dev,       \* the device's durable delivery state
    stage,     \* Executor.stage: pages of a snapshot, or count 0
    hist,      \* every <<epoch, sequence, version>> posted (history)
    left       \* what is left of Budget

vars == <<row, bound, d, att, desired, calendar, link, down, up, dev, stage,
          hist, left>>

\* A fault taken from `budget`, n times.
Spent(budget, fault, n) ==
    [budget EXCEPT ![fault] = @ - n, !["faults"] = @ - n]
Allows(budget, fault, n) == budget[fault] >= n /\ budget["faults"] >= n
Spend(fault) ==
    /\ Allows(left, fault, 1)
    /\ left' = Spent(left, fault, 1)

----------------------------------------------------------------------------
(* Delivery: pure steps, each returning an outbox                          *)

Lower(a, b) == IF a <= b THEN a ELSE b
Higher(a, b) == IF a <= b THEN b ELSE a

\* Mutant: the sequence is resumed at the acknowledged one.
NewDeliveryAtAcked(r) ==
    [epoch |-> r.epoch, sequence |-> r.acked, acked |-> r.acked,
     sent |-> NoVersion, revision |-> [id \in Occurrences |-> 0],
     unacked |-> <<>>, owed |-> FALSE]

\* Delivery::new of the row `r`.
NewDelivery(r) ==
    [epoch |-> r.epoch, sequence |-> r.sequence,
     acked |-> Lower(r.acked, r.sequence), sent |-> NoVersion,
     revision |-> [id \in Occurrences |-> 0], unacked |-> <<>>,
     owed |-> FALSE]

\* What a step of delivery produced: the state after it, bodies to post, and
\* whether a position is to be recorded first.
Outbox(after, bodies, moved) ==
    [after |-> after, bodies |-> bodies, moved |-> moved]

\* unacked.retain(|delta| delta.sequence > acked); the queue is ascending.
Retain(unacked, acked) ==
    SubSeq(unacked,
           Cardinality({i \in DOMAIN unacked : unacked[i].sequence <= acked}) + 1,
           Len(unacked))

\* Mutant: any earlier sequence of the epoch is in step.
InStepIfEarlier(dl, hello) ==
    /\ hello.epoch = dl.epoch
    /\ dl.sent # NoVersion
    /\ hello.acked <= dl.sequence

\* Whether a device that says `hello` holds what this process sent, up to
\* deltas that can still be sent again.
InStep(dl, hello) ==
    /\ hello.epoch = dl.epoch
    /\ dl.sent # NoVersion
    /\ hello.acked <= dl.sequence
    /\ \/ hello.acked = dl.sequence
       \/ dl.unacked # <<>> /\ dl.unacked[1].sequence <= hello.acked + 1

\* Delivery::attach
AttachOutbox(dl, hello) ==
    IF InStep(dl, hello)
    THEN LET rest == Retain(dl.unacked, hello.acked)
         IN  Outbox([dl EXCEPT !.acked = Higher(@, hello.acked),
                               !.unacked = rest, !.owed = FALSE],
                    rest, hello.acked > dl.acked)
    ELSE Outbox([dl EXCEPT !.owed = TRUE], <<>>, FALSE)

\* Mutant: need_snapshot is not remembered.
AckIgnoringNeed(dl, ack) == Outbox(dl, <<>>, FALSE)

\* Delivery::ack
AckOutbox(dl, ack) ==
    LET asked == [dl EXCEPT !.owed = @ \/ ack.need]
        news  == /\ ack.durable
                 /\ ack.epoch = dl.epoch
                 /\ ack.through <= dl.sequence
                 /\ ack.through > dl.acked
    IN  IF news
        THEN Outbox([asked EXCEPT !.acked = ack.through,
                                  !.unacked = Retain(@, ack.through)],
                    <<>>, TRUE)
        ELSE Outbox(asked, <<>>, FALSE)

\* The ids whose object differs between two versions.
Changed(old, new) == {id \in Occurrences : old[id] # new[id]}

\* How many of `ids` go before id, tombstones first and each kind by id, and
\* the chunk of at most PageObjects that id falls into.
Before(id, ids, new) ==
    Cardinality({other \in ids :
        \/ new[other] = Absent /\ new[id] # Absent
        \/ (new[other] = Absent) = (new[id] = Absent) /\ other < id})
Chunk(id, ids, new) == (Before(id, ids, new) \div PageObjects) + 1
Chunks(ids) == (Cardinality(ids) + PageObjects - 1) \div PageObjects

\* The objects of the k-th chunk of `ids`, and the ids they name.
ChunkIds(ids, new, k) == {id \in ids : Chunk(id, ids, new) = k}
Only(ids, version) ==
    [id \in Occurrences |-> IF id \in ids THEN version[id] ELSE Absent]

\* The version in force once the first k chunks from old to new are applied.
Partial(old, new, k) ==
    [id \in Occurrences |->
        IF Chunk(id, Changed(old, new), new) <= k THEN new[id] ELSE old[id]]

\* A delta body: objects put, ids deleted.  `version` is history: what a
\* device that held the previous sequence's version holds after it.
Delta(epoch, sequence, put, del, version) ==
    [type |-> "delta", epoch |-> epoch, sequence |-> sequence,
     put |-> put, del |-> del, version |-> version]

\* next_delta for the k-th chunk of the changes from dl.sent to new.
ChunkDelta(dl, new, k) ==
    LET ids == ChunkIds(Changed(dl.sent, new), new, k)
    IN  Delta(dl.epoch, dl.sequence + k, Only(ids, new),
              {id \in ids : new[id] = Absent}, Partial(dl.sent, new, k))

\* Delivery::refresh of a session in step: one delta per chunk of changes.
DeltasOutbox(dl, new) ==
    LET ids    == Changed(dl.sent, new)
        n      == Chunks(ids)
        deltas == [k \in 1..n |-> ChunkDelta(dl, new, k)]
    IN  Outbox([dl EXCEPT
                  !.sequence = @ + n,
                  !.sent = Partial(dl.sent, new, n),
                  !.revision = [id \in Occurrences |->
                      IF id \in ids THEN dl.sequence + Chunk(id, ids, new)
                                    ELSE dl.revision[id]],
                  !.unacked = @ \o deltas],
               deltas, n > 0)

\* Mutant: the high-water mark is the last sequence, not the next one.
LastSequence(dl) == dl.sequence

\* The sequence of the next snapshot or single delta.
NextSequence(dl) == dl.sequence + 1

\* Mutant: an object keeps its revision whatever its content.
RevisionIfSent(dl, new, high) ==
    [id \in Occurrences |->
        IF dl.sent # NoVersion THEN dl.revision[id] ELSE high]

\* In a snapshot an object keeps its revision while its content is the same.
SnapshotRevision(dl, new, high) ==
    [id \in Occurrences |->
        IF dl.sent # NoVersion /\ dl.sent[id] = new[id]
        THEN dl.revision[id] ELSE high]

\* Delivery::snapshot: the pages of `new` at the next sequence, each with the
\* digest of the whole (modelled as the whole); what was unacknowledged is
\* superseded.
SnapshotOutbox(dl, new) ==
    LET high  == NextSequence(dl)
        live  == {id \in Occurrences : new[id] # Absent}
        n     == IF live = {} THEN 1 ELSE Chunks(live)
        pages == [k \in 1..n |->
                    [type |-> "snapshot", epoch |-> dl.epoch, high |-> high,
                     index |-> k - 1, count |-> n, digest |-> new,
                     put |-> Only(ChunkIds(live, new, k), new)]]
    IN  Outbox([dl EXCEPT
                  !.sequence = high, !.sent = new, !.unacked = <<>>,
                  !.owed = FALSE,
                  !.revision = SnapshotRevision(dl, new, high)],
               pages, TRUE)

\* Delivery::refresh
RefreshOutbox(dl, new) ==
    IF dl.owed \/ dl.sent = NoVersion THEN SnapshotOutbox(dl, new)
                                      ELSE DeltasOutbox(dl, new)

\* Delivery::retract of one child: nothing while a snapshot is owed.
RetractOutbox(dl, child) ==
    IF dl.owed \/ dl.sent = NoVersion
    THEN Outbox(dl, <<>>, FALSE)
    ELSE LET version == [dl.sent EXCEPT ![child] = Absent]
             delta   == Delta(dl.epoch, NextSequence(dl), Empty, {child}, version)
         IN  Outbox([dl EXCEPT !.sequence = NextSequence(dl), !.sent = version,
                               !.unacked = Append(@, delta)],
                    <<delta>>, TRUE)

\* Delivery::armed: the device acknowledged the object as last sent.
Armed(dl, id) ==
    /\ dl.sent # NoVersion
    /\ dl.sent[id] # Absent
    /\ dl.revision[id] <= dl.acked

----------------------------------------------------------------------------
(* The service's turn on one message: outboxes sent in order               *)

\* SetDeliveryPosition: both positions only rise.
Recorded(r, dl) ==
    LET sequence == Higher(r.sequence, dl.sequence)
    IN  [r EXCEPT !.sequence = sequence,
                  !.acked = Lower(Higher(@, dl.acked), sequence)]

\* send_outbox: the position is recorded before anything is posted, and a
\* failed write (`written` FALSE) posts nothing.
Send(turn, outbox, written) ==
    IF outbox.moved /\ ~written
    THEN [turn EXCEPT !.d = outbox.after, !.failed = @ + 1]
    ELSE [turn EXCEPT !.d = outbox.after,
                      !.row = IF outbox.moved THEN Recorded(@, outbox.after)
                                              ELSE @,
                      !.posts = @ \o outbox.bodies]

\* refresh, once the service has a view of the calendar.
Refresh(turn, new, written) ==
    IF new = NoVersion THEN turn
                       ELSE Send(turn, RefreshOutbox(turn.d, new), written)

Turn(r, dl) == [row |-> r, d |-> dl, posts |-> <<>>, failed |-> 0]

\* What posting a body claims of its sequence.
Claims(bodies) ==
    {IF m.type = "delta" THEN <<m.epoch, m.sequence, m.version>>
                         ELSE <<m.epoch, m.high, m.digest>> :
        m \in {bodies[i] : i \in DOMAIN bodies}}

\* The turn's effects.  A post goes out only on the session the runtime still
\* has attached; otherwise the link refuses it and it is dropped.
Finish(turn, session, budget) ==
    /\ turn.failed > 0 => Allows(budget, "db", turn.failed)
    /\ left' = Spent(budget, "db", turn.failed)
    /\ row' = turn.row
    /\ d' = turn.d
    /\ hist' = hist \cup Claims(turn.posts)
    /\ down' = IF link.state = "up" /\ link.session = session
               THEN down \o turn.posts ELSE down

----------------------------------------------------------------------------
(* The alert service                                                       *)

NoRow == [epoch |-> 0, sequence |-> 0, acked |-> 0]
NoSession == [session |-> 0, epoch |-> 0, acked |-> 0]

\* Mutant: a speaker added again gets its old epoch.
FirstEpoch == 1

\* Uuid::new_v4 for a new row: one more than any epoch used before.
FreshEpoch == 1 + Budget["forget"] - left["forget"]

\* FeedEvent::Bound: the row is created or kept, and a speaker that had no
\* delivery state gets it, with the session it is attached to.  A failed
\* write leaves all as it was.
Bind ==
    /\ ~bound
    /\ LET r == IF row.epoch = 0 THEN [NoRow EXCEPT !.epoch = FreshEpoch]
                                 ELSE row
           dl == NewDelivery(r)
       IN  IF att.session = 0
           THEN Finish(Turn(r, dl), 0, left)
           ELSE \E written \in BOOLEAN :
                  Finish(Refresh(Send(Turn(r, dl), AttachOutbox(dl, att), TRUE),
                                 desired, written),
                         att.session, left)
    /\ bound' = TRUE
    /\ UNCHANGED <<att, desired, calendar, link, up, dev, stage>>

\* Msg::Attach: unacknowledged deltas again or a snapshot owed, then refresh.
Attach ==
    /\ up # <<>> /\ Head(up).type = "attach"
    /\ att' = [session |-> Head(up).session, epoch |-> Head(up).epoch,
               acked |-> Head(up).acked]
    /\ IF bound
       THEN \E first, second \in BOOLEAN :
              Finish(Refresh(Send(Turn(row, d), AttachOutbox(d, att'), first),
                             desired, second),
                     att'.session, left)
       ELSE UNCHANGED <<row, d, hist, down, left>>
    /\ up' = Tail(up)
    /\ UNCHANGED <<bound, desired, calendar, link, dev, stage>>

\* Msg::Detach, ignored for a session that is not the attached one.
Detach ==
    /\ up # <<>> /\ Head(up).type = "detach"
    /\ att' = IF att.session = Head(up).session THEN NoSession ELSE att
    /\ up' = Tail(up)
    /\ UNCHANGED <<row, bound, d, desired, calendar, link, down, dev, stage,
                   hist, left>>

\* Msg::Inbound with an alert.ack: the position, and a snapshot when one is
\* owed.  Acks of other sessions are ignored.
Ack ==
    /\ up # <<>> /\ Head(up).type = "ack"
    /\ IF bound /\ att.session = Head(up).session
       THEN \E first, second \in BOOLEAN :
              LET acked == Send(Turn(row, d), AckOutbox(d, Head(up)), first)
              IN  Finish(IF acked.d.owed THEN Refresh(acked, desired, second)
                                         ELSE acked,
                         att.session, left)
       ELSE UNCHANGED <<row, d, hist, down, left>>
    /\ up' = Tail(up)
    /\ UNCHANGED <<bound, att, desired, calendar, link, dev, stage>>

\* FeedEvent::Push: the view is rebuilt from what the calendar holds, and the
\* attached speaker is brought to it.
Push ==
    /\ desired # calendar
    /\ desired' = calendar
    /\ IF bound /\ att.session # 0
       THEN \E written \in BOOLEAN :
              Finish(Refresh(Turn(row, d), calendar, written), att.session, left)
       ELSE UNCHANGED <<row, d, hist, down, left>>
    /\ UNCHANGED <<bound, att, calendar, link, up, dev, stage>>

\* A local snooze settled as rejected: its child is tombstoned on the device
\* (retract_child), then the speaker is refreshed.
Retract(child) ==
    /\ bound /\ att.session # 0 /\ Allows(left, "retract", 1)
    /\ \E first, second \in BOOLEAN :
          Finish(Refresh(Send(Turn(row, d), RetractOutbox(d, child), first),
                         desired, second),
                 att.session, Spent(left, "retract", 1))
    /\ UNCHANGED <<bound, att, desired, calendar, link, up, dev, stage>>

\* The controller stops and starts again: memory is rebuilt from the row
\* (`register`; a failed read leaves the delivery state to Bind).
Restart ==
    /\ Allows(left, "crash", 1)
    /\ LET rest == Spent(left, "crash", 1)
       IN  \/ left' = rest /\ bound' = (row.epoch # 0)
          \/ /\ Allows(rest, "db", 1)
             /\ left' = Spent(rest, "db", 1)
             /\ bound' = FALSE
    /\ d' = NewDelivery(row)
    /\ att' = NoSession
    /\ desired' = NoVersion
    /\ up' = <<>>
    /\ link' = [link EXCEPT !.state = IF @ = "up" THEN "dying" ELSE @]
    /\ UNCHANGED <<row, calendar, down, dev, stage, hist>>

\* The device is deleted on the dashboard: its session ends, its endpoint and
\* its row go, and it may be added again later.
Forget ==
    /\ row.epoch # 0
    /\ Spend("forget")
    /\ row' = NoRow
    /\ bound' = FALSE
    /\ d' = NewDelivery(NoRow)
    /\ att' = NoSession
    /\ desired' = NoVersion
    /\ up' = <<>>
    /\ link' = [link EXCEPT !.state = IF @ = "up" THEN "dying" ELSE @]
    /\ UNCHANGED <<calendar, down, dev, stage, hist>>

\* Someone edits the speaker's calendar in Home Assistant.
EditCalendar(version) ==
    /\ version # calendar
    /\ left["calendar"] > 0
    /\ left' = [left EXCEPT !["calendar"] = @ - 1]
    /\ calendar' = version
    /\ UNCHANGED <<row, bound, d, att, desired, link, down, up, dev, stage, hist>>

----------------------------------------------------------------------------
(* The control session                                                     *)

\* HelloAlerts: a damaged store announces no epoch.
Hello ==
    [epoch |-> IF dev.corrupt THEN 0 ELSE dev.epoch, acked |-> dev.acked]

\* The device dials, says hello and reads session.ready; the runtime announces
\* the session to the services.
Connect ==
    /\ link.state = "down"
    /\ link' = [state |-> "up", session |-> link.session + 1]
    /\ up' = Append(up, [type |-> "attach", session |-> link'.session,
                         epoch |-> Hello.epoch, acked |-> Hello.acked])
    /\ UNCHANGED <<row, bound, d, att, desired, calendar, down, dev, stage,
                   hist, left>>

\* The session ends at the controller: acks still in flight are lost, and the
\* runtime reports the end unless its event queue is full.  The device may
\* still read what was already sent.
EndSession ==
    /\ link.state = "up"
    /\ Spend("session")
    /\ link' = [link EXCEPT !.state = "dying"]
    /\ \E kept \in 0..Len(up) :
          /\ \A i \in (kept + 1)..Len(up) :
                up[i].type = "ack" /\ up[i].session = link.session
          /\ \E report \in {<<>>, <<[type |-> "detach", session |-> link.session]>>} :
                up' = SubSeq(up, 1, kept) \o report
    /\ UNCHANGED <<row, bound, d, att, desired, calendar, down, dev, stage, hist>>

\* The device sees the end; what it has not read is gone.
Lost ==
    /\ link.state = "dying"
    /\ link' = [link EXCEPT !.state = "down"]
    /\ down' = <<>>
    /\ UNCHANGED <<row, bound, d, att, desired, calendar, up, dev, stage, hist, left>>

----------------------------------------------------------------------------
(* The device                                                              *)

NoStage == [epoch |-> 0, high |-> 0, count |-> 0, digest |-> Empty,
            next |-> 0, values |-> Empty]

\* The device reads the next message of its session.
Receives(type) ==
    /\ link.state # "down"
    /\ down # <<>>
    /\ Head(down).type = type
    /\ down' = Tail(down)

\* Mutant: the ack names the last sequence before the one expected.
AckOfExpected(state, need, durable) ==
    [type |-> "ack", session |-> link.session, epoch |-> state.epoch,
     through |-> state.acked - 1, durable |-> durable,
     need |-> need \/ state.corrupt]

\* ackLocked of the device's state after the message.
AckOf(state, need, durable) ==
    [type |-> "ack", session |-> link.session, epoch |-> state.epoch,
     through |-> state.acked, durable |-> durable,
     need |-> need \/ state.corrupt]

EmptyAck ==
    [type |-> "ack", session |-> link.session, epoch |-> 0, through |-> 0,
     durable |-> FALSE, need |-> FALSE]

\* logSend: the ack is queued for the controller.  A full send queue drops
\* it, and a session that is ending carries it nowhere.
Reply(ack, budget) ==
    \/ /\ up' = IF link.state = "up" THEN Append(up, ack) ELSE up
       /\ left' = budget
    \/ /\ link.state = "up"
       /\ Allows(budget, "drop", 1)
       /\ left' = Spent(budget, "drop", 1)
       /\ UNCHANGED up

\* The cache after delta m: deletes before puts.
Applied(m, occ) ==
    [id \in Occurrences |->
        IF m.put[id] # Absent THEN m.put[id]
        ELSE IF id \in m.del THEN Absent ELSE occ[id]]

\* Mutant: any later delta is applied, whatever was missed before it.
FollowsWithGap(m) ==
    ~dev.corrupt /\ dev.epoch # 0 /\ m.epoch = dev.epoch /\ m.sequence > dev.acked

\* ApplyDelta's condition on the position.
Follows(m) ==
    /\ ~dev.corrupt
    /\ dev.epoch # 0
    /\ m.epoch = dev.epoch
    /\ m.sequence = dev.acked + 1

\* ApplyDelta: a delta that follows is committed; any other leaves the state
\* unchanged and its ack asks for a snapshot.
ApplyDelta ==
    /\ Receives("delta")
    /\ IF Follows(Head(down))
       THEN /\ dev' = [dev EXCEPT !.acked = Head(down).sequence,
                                  !.occ = Applied(Head(down), @)]
            /\ Reply(AckOf(dev', FALSE, TRUE), left)
       ELSE /\ Reply(AckOf(dev, TRUE, TRUE), left)
            /\ UNCHANGED dev
    /\ UNCHANGED <<row, bound, d, att, desired, calendar, link, stage, hist>>

\* The stage page p belongs to: a first page starts one.
StageFor(p) ==
    IF p.index = 0
    THEN [epoch |-> p.epoch, high |-> p.high, count |-> p.count,
          digest |-> p.digest, next |-> 0, values |-> Empty]
    ELSE stage

Fits(p) ==
    LET sg == StageFor(p)
    IN  /\ sg.count > 0
        /\ sg.next = p.index
        /\ sg.epoch = p.epoch
        /\ sg.high = p.high
        /\ sg.count = p.count
        /\ sg.digest = p.digest

\* The objects staged once page p is added.
Staged(p) ==
    [id \in Occurrences |->
        IF p.put[id] # Absent THEN p.put[id] ELSE StageFor(p).values[id]]

\* Whether page p is the last and the whole has its digest.
Completes(p) ==
    /\ Fits(p)
    /\ p.index + 1 >= p.count
    /\ Staged(p) = p.digest

\* ApplySnapshotPage: the last page replaces the cache in one transaction;
\* an earlier one is staged, and the supervisor sends the empty ack it
\* returns; a page that does not fit discards the stage.
ApplySnapshotPage ==
    /\ Receives("snapshot")
    /\ LET p == Head(down)
       IN  IF Completes(p)
           THEN /\ dev' = [epoch |-> p.epoch, acked |-> p.high,
                           occ |-> Staged(p), corrupt |-> FALSE]
                /\ stage' = NoStage
                /\ Reply(AckOf(dev', FALSE, TRUE), left)
           ELSE /\ UNCHANGED dev
                /\ IF Fits(p) /\ p.index + 1 < p.count
                   THEN /\ stage' = [StageFor(p) EXCEPT !.next = @ + 1,
                                                        !.values = Staged(p)]
                        /\ Reply(EmptyAck, left)
                   ELSE /\ stage' = NoStage
                        /\ Reply(AckOf(dev, TRUE, TRUE), left)
    /\ UNCHANGED <<row, bound, d, att, desired, calendar, link, hist>>

\* The commit of a delta or a snapshot fails: the state is unchanged, and the
\* ack, not durable, asks for a snapshot.
CommitFails ==
    /\ \/ Receives("delta") /\ Follows(Head(down)) /\ UNCHANGED stage
       \/ Receives("snapshot") /\ Completes(Head(down)) /\ stage' = NoStage
    /\ Allows(left, "commit", 1)
    /\ Reply(AckOf(dev, TRUE, FALSE), Spent(left, "commit", 1))
    /\ UNCHANGED <<row, bound, d, att, desired, calendar, link, dev, hist>>

\* The device restarts with its store intact: staged pages are lost.
Reboot ==
    /\ link.state # "up"
    /\ Spend("reboot")
    /\ link' = [link EXCEPT !.state = "down"]
    /\ down' = <<>>
    /\ stage' = NoStage
    /\ UNCHANGED <<row, bound, d, att, desired, calendar, up, dev, hist>>

\* What openStore can recover from a damaged store: nothing, or a version the
\* device may have held before.
Recoverable ==
    {[epoch |-> 0, acked |-> 0, occ |-> Empty, corrupt |-> TRUE]}
    \cup {[epoch |-> h[1], acked |-> h[2], occ |-> h[3], corrupt |-> TRUE] :
            h \in {g \in hist : g[1] = dev.epoch /\ g[2] <= dev.acked}}

\* The device restarts and finds its store damaged.
Damage ==
    /\ link.state # "up"
    /\ Spend("damage")
    /\ dev' \in Recoverable
    /\ link' = [link EXCEPT !.state = "down"]
    /\ down' = <<>>
    /\ stage' = NoStage
    /\ UNCHANGED <<row, bound, d, att, desired, calendar, up, hist>>

----------------------------------------------------------------------------

Init ==
    /\ row = NoRow
    /\ bound = FALSE
    /\ d = NewDelivery(NoRow)
    /\ att = NoSession
    /\ desired = NoVersion
    /\ calendar = Empty
    /\ link = [state |-> "down", session |-> 0]
    /\ down = <<>>
    /\ up = <<>>
    /\ dev = [epoch |-> 0, acked |-> 0, occ |-> Empty, corrupt |-> FALSE]
    /\ stage = NoStage
    /\ hist = {}
    /\ left = Budget

\* The steps the two programs take by themselves.
Progress ==
    \/ Bind \/ Attach \/ Detach \/ Ack \/ Push
    \/ Connect \/ Lost
    \/ ApplyDelta \/ ApplySnapshotPage

Next ==
    \/ Bind \/ Attach \/ Detach \/ Ack \/ Push
    \/ \E child \in Occurrences : Retract(child)
    \/ Restart \/ Forget
    \/ \E version \in Versions : EditCalendar(version)
    \/ Connect \/ EndSession \/ Lost
    \/ ApplyDelta \/ ApplySnapshotPage \/ CommitFails
    \/ Reboot \/ Damage

\* The service's actor and the device's reader keep running, a lost session
\* is noticed (heartbeats) and dialled again (Link.Run), and Home Assistant
\* pushes what its calendar holds: while some such step is possible, one is
\* eventually taken.
Fairness == WF_vars(Progress)

Spec == Init /\ [][Next]_vars
FairSpec == Spec /\ Fairness

----------------------------------------------------------------------------
(* Properties                                                              *)

Epochs == Nat
Messages ==
    [type : {"delta"}, epoch : Epochs, sequence : Nat, put : Versions,
     del : SUBSET Occurrences, version : Versions]
Pages ==
    [type : {"snapshot"}, epoch : Epochs, high : Nat, index : Nat,
     count : Nat, digest : Versions, put : Versions]
EventsUp ==
    [type : {"attach"}, session : Nat, epoch : Epochs, acked : Nat]
    \cup [type : {"detach"}, session : Nat]
    \cup [type : {"ack"}, session : Nat, epoch : Epochs, through : Nat,
          durable : BOOLEAN, need : BOOLEAN]

Rows == [epoch : Epochs, sequence : Nat, acked : Nat]
Deliveries ==
    [epoch : Epochs, sequence : Nat, acked : Nat,
     sent : Versions \cup {NoVersion}, revision : [Occurrences -> Nat],
     unacked : Seq(Messages), owed : BOOLEAN]
Sessions == [session : Nat, epoch : Epochs, acked : Nat]
Links == [state : {"up", "dying", "down"}, session : Nat]
Caches == [epoch : Epochs, acked : Nat, occ : Versions, corrupt : BOOLEAN]
Stages ==
    [epoch : Epochs, high : Nat, count : Nat, digest : Versions, next : Nat,
     values : Versions]

\* Every variable has the values the code's types allow.
TypeOK ==
    /\ row \in Rows
    /\ bound \in BOOLEAN
    /\ d \in Deliveries
    /\ att \in Sessions
    /\ desired \in Versions \cup {NoVersion}
    /\ calendar \in Versions
    /\ link \in Links
    /\ down \in Seq(Messages \cup Pages)
    /\ up \in Seq(EventsUp)
    /\ dev \in Caches
    /\ stage \in Stages
    /\ hist \subseteq Epochs \X Nat \X Versions
    /\ left \in [Events -> Nat]

\* "A sequence number is never reused with other content" (delivery.rs): two
\* bodies posted under one epoch and sequence lead to the same version.
SequenceNeverReused ==
    \A g, h \in hist : g[1] = h[1] /\ g[2] = h[2] => g[3] = h[3]

\* The cache of an undamaged device is, whole, the version the controller
\* posted under the epoch and sequence the device acknowledges: never a mix
\* of two versions, never a version under another number.
CacheIsPublished ==
    dev.epoch # 0 /\ ~dev.corrupt => <<dev.epoch, dev.acked, dev.occ>> \in hist

\* `attach` trusts a hello that names the current sequence: the device then
\* holds what the controller believes it sent.
CaughtUpAgrees ==
    bound /\ d.sent # NoVersion /\ dev.epoch = d.epoch
        /\ dev.acked = d.sequence /\ ~dev.corrupt
    => dev.occ = d.sent

\* `armed` tells the user that the speaker holds the alarm as last sent; an
\* undamaged speaker does.
ArmedIsHeld ==
    \A id \in Occurrences :
        bound /\ Armed(d, id) /\ ~dev.corrupt => dev.occ[id] = d.sent[id]

\* A session on which nothing is in flight is in step: the speaker holds what
\* the calendar says.  An ack dropped by a full send queue or a position that
\* could not be recorded leaves a quiet session behind; the next change or
\* session repairs it.
QuietIsInStep ==
    /\ left["drop"] = Budget["drop"] /\ left["db"] = Budget["db"]
    /\ bound /\ desired = calendar
    /\ link.state = "up" /\ up = <<>> /\ down = <<>>
    => dev.occ = calendar /\ ~dev.corrupt

\* The specification of the cache this delivery implements: what is published
\* is what was posted, and the cache is the device's durable state.  Within an
\* epoch an undamaged device only moves forward, although it installs any
\* complete snapshot whatever its number.
Cache == INSTANCE AlertCache WITH published <- hist, cache <- dev, None <- Empty
ImplementsCache == Cache!Spec

\* Once edits, losses, restarts and damage stop, the speaker comes to hold
\* what the calendar says, and keeps it.
Converges == <>[](dev.occ = calendar /\ ~dev.corrupt)
=============================================================================
