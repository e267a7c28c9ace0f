------------------------ MODULE AlertDeliveryProofs ------------------------
(***************************************************************************)
(* Theorems about AlertDelivery for every set of occurrences and contents, *)
(* every page size and every number of faults.                             *)
(***************************************************************************)
EXTENDS AlertDelivery, FiniteSetTheorems, SequenceTheorems, TLAPS

Bodies == Messages \cup Pages

\* An outbox, and a turn, with the parts their users read.
IsOutbox(o) == o.after \in Deliveries /\ o.bodies \in Seq(Bodies)
Turns == [row : Rows, d : Deliveries, posts : Seq(Bodies), failed : Nat]

----------------------------------------------------------------------------
(* Types of the pure steps                                                 *)

\* A quotient of naturals is a natural, and zero only below the divisor.
LEMMA DivNat ==
    ASSUME NEW a \in Nat, NEW b \in Nat \ {0}
    PROVE  a \div b \in Nat
  BY SMT

\* At least one object makes at least one page.
LEMMA DivPositive ==
    ASSUME NEW a \in Nat, NEW b \in Nat \ {0}, a >= 1
    PROVE  (a + b - 1) \div b # 0
  BY SMT

\* The empty version is a version.
LEMMA EmptyType == Empty \in Versions
  BY DEF Empty, Versions, Objects

\* Every set of ids is finite, and a natural number of chunks holds it.
LEMMA ChunksType ==
    ASSUME NEW ids \in SUBSET Occurrences
    PROVE  Cardinality(ids) \in Nat /\ Chunks(ids) \in Nat
  <1>1. IsFiniteSet(ids) /\ Cardinality(ids) \in Nat
    BY OccurrencesAssumption, FS_Subset, FS_CardinalityType
  <1>2. Cardinality(ids) + PageObjects - 1 \in Nat
    BY <1>1, PageAssumption
  <1> QED
    BY <1>1, <1>2, PageAssumption, DivNat DEF Chunks

\* The chunk of an id is a number, at least one.
LEMMA ChunkType ==
    ASSUME NEW id, NEW ids \in SUBSET Occurrences, NEW new
    PROVE  Chunk(id, ids, new) \in Nat \ {0}
  <1>1. Before(id, ids, new) \in Nat
    BY OccurrencesAssumption, FS_Subset, FS_CardinalityType DEF Before
  <1>2. Before(id, ids, new) \div PageObjects \in Nat
    BY <1>1, PageAssumption, DivNat
  <1> QED
    BY <1>2 DEF Chunk

\* A version restricted to some ids, and a version part of the way from one
\* to another, are versions.
LEMMA OnlyType ==
    ASSUME NEW ids, NEW new \in Versions
    PROVE  Only(ids, new) \in Versions
  BY DEF Only, Versions, Objects

\* The version that a prefix of the deltas amounts to is a version.
LEMMA PartialType ==
    ASSUME NEW old \in Versions, NEW new \in Versions, NEW k
    PROVE  Partial(old, new, k) \in Versions
  BY DEF Partial, Versions

\* What Retain keeps of a queue is a queue of its elements.
LEMMA RetainType ==
    ASSUME NEW queue \in Seq(Messages), NEW acked
    PROVE  /\ Retain(queue, acked) \in Seq(Messages)
           /\ \A i \in 1..Len(Retain(queue, acked)) :
                 \E j \in 1..Len(queue) : Retain(queue, acked)[i] = queue[j]
  <1> DEFINE passed == {i \in DOMAIN queue : queue[i].sequence <= acked}
             m == Cardinality(passed) + 1
  <1>1. Len(queue) \in Nat /\ DOMAIN queue = 1..Len(queue)
    BY LenProperties
  <1>2. IsFiniteSet(passed)
    <2>1. IsFiniteSet(1..Len(queue))
      BY <1>1, FS_Interval
    <2>2. passed \subseteq 1..Len(queue)
      BY <1>1
    <2> QED
      BY <2>1, <2>2, FS_Subset
  <1>3. m \in Nat \ {0}
    BY <1>2, FS_CardinalityType
  <1>4. \A i \in m..Len(queue) : queue[i] \in Messages
    BY <1>1, <1>3, ElementOfSeq
  <1> HIDE DEF m
  <1>5. /\ SubSeq(queue, m, Len(queue)) \in Seq(Messages)
        /\ Len(SubSeq(queue, m, Len(queue))) =
              IF m <= Len(queue) THEN Len(queue) - m + 1 ELSE 0
        /\ \A i \in 1..(Len(queue) - m + 1) :
              SubSeq(queue, m, Len(queue))[i] = queue[m + i - 1]
    BY <1>1, <1>3, <1>4, SubSeqProperties
  <1>6. Retain(queue, acked) = SubSeq(queue, m, Len(queue))
    BY DEF Retain, m
  <1> QED
    BY <1>1, <1>3, <1>5, <1>6

\* Delivery::new yields a delivery state.
LEMMA NewDeliveryType ==
    ASSUME NEW r \in Rows
    PROVE  NewDelivery(r) \in Deliveries
  BY EmptySeq DEF NewDelivery, Rows, Deliveries, Lower, Epochs

\* What the delivery emits on a hello is an outbox.
LEMMA AttachOutboxType ==
    ASSUME NEW dl \in Deliveries, NEW hello, hello.acked \in Nat
    PROVE  IsOutbox(AttachOutbox(dl, hello))
  <1>1. Retain(dl.unacked, hello.acked) \in Seq(Messages)
    BY RetainType DEF Deliveries
  <1>2. Retain(dl.unacked, hello.acked) \in Seq(Bodies)
    BY <1>1, SeqMonotonic DEF Bodies
  <1>3. <<>> \in Seq(Bodies)
    BY EmptySeq
  <1> QED
    BY <1>1, <1>2, <1>3 DEF AttachOutbox, Outbox, IsOutbox, Deliveries, Higher

\* What it emits on an acknowledgement is an outbox.
LEMMA AckOutboxType ==
    ASSUME NEW dl \in Deliveries, NEW ack, ack.through \in Nat,
           ack.need \in BOOLEAN
    PROVE  IsOutbox(AckOutbox(dl, ack))
  <1>1. Retain(dl.unacked, ack.through) \in Seq(Messages)
    BY RetainType DEF Deliveries
  <1>2. <<>> \in Seq(Bodies)
    BY EmptySeq
  <1>3. [dl EXCEPT !.owed = @ \/ ack.need] \in Deliveries
    BY DEF Deliveries
  <1> QED
    BY <1>1, <1>2, <1>3 DEF AckOutbox, Outbox, IsOutbox, Deliveries

\* A delivery state with new values for what a refresh changes is one.
LEMMA UpdateType ==
    ASSUME NEW dl \in Deliveries, NEW sequence \in Nat, NEW sent \in Versions,
           NEW revision \in [Occurrences -> Nat], NEW unacked \in Seq(Messages)
    PROVE  [dl EXCEPT !.sequence = sequence, !.sent = sent,
                      !.revision = revision, !.unacked = unacked] \in Deliveries
  BY DEF Deliveries

\* The deltas of a refresh are messages of the delivery's epoch.
LEMMA ChunkDeltaType ==
    ASSUME NEW dl \in Deliveries, dl.sent \in Versions, NEW new \in Versions,
           NEW k \in Nat
    PROVE  ChunkDelta(dl, new, k) \in Messages
  <1> DEFINE ids == ChunkIds(Changed(dl.sent, new), new, k)
  <1>1. ids \subseteq Occurrences
    BY DEF ChunkIds, Changed
  <1>2. Only(ids, new) \in Versions /\ Partial(dl.sent, new, k) \in Versions
    BY OnlyType, PartialType
  <1>3. dl.epoch \in Epochs /\ dl.sequence + k \in Nat
    BY DEF Deliveries
  <1> QED
    BY <1>1, <1>2, <1>3 DEF ChunkDelta, Delta, Messages

\* What it emits as deltas is an outbox.
LEMMA DeltasOutboxType ==
    ASSUME NEW dl \in Deliveries, dl.sent \in Versions, NEW new \in Versions
    PROVE  IsOutbox(DeltasOutbox(dl, new))
  <1> DEFINE ids == Changed(dl.sent, new)
             n == Chunks(ids)
             deltas == [k \in 1..n |-> ChunkDelta(dl, new, k)]
             revision == [id \in Occurrences |->
                            IF id \in ids THEN dl.sequence + Chunk(id, ids, new)
                                          ELSE dl.revision[id]]
             after == [dl EXCEPT !.sequence = dl.sequence + n,
                                 !.sent = Partial(dl.sent, new, n),
                                 !.revision = revision,
                                 !.unacked = dl.unacked \o deltas]
  <1>1. ids \in SUBSET Occurrences
    BY DEF Changed
  <1>2. n \in Nat
    BY <1>1, ChunksType
  <1>3. deltas \in Seq(Messages) /\ deltas \in Seq(Bodies)
    <2>1. deltas \in [1..n -> Messages]
      BY <1>2, ChunkDeltaType
    <2>2. deltas \in Seq(Messages)
      BY <1>2, <2>1, SeqDef
    <2> QED
      BY <2>2, SeqMonotonic DEF Bodies
  <1>4. dl.unacked \o deltas \in Seq(Messages)
    BY <1>3, ConcatProperties DEF Deliveries
  <1>5. revision \in [Occurrences -> Nat]
    <2>1. \A id \in Occurrences : Chunk(id, ids, new) \in Nat
      BY <1>1, ChunkType
    <2> HIDE DEF ids
    <2> QED
      BY <2>1 DEF Deliveries
  <1>6. Partial(dl.sent, new, n) \in Versions
    BY PartialType
  <1>7. DeltasOutbox(dl, new) = Outbox(after, deltas, n > 0)
    BY DEF DeltasOutbox
  <1> HIDE DEF ids, n, deltas, revision
  <1>8. after \in Deliveries
    <2>1. dl.sequence + n \in Nat
      BY <1>2 DEF Deliveries
    <2> QED
      BY <1>4, <1>5, <1>6, <2>1, UpdateType
  <1> HIDE DEF after
  <1> QED
    BY <1>3, <1>7, <1>8 DEF IsOutbox, Outbox

\* The pages of a snapshot, and the state after it.
LEMMA SnapshotOutboxType ==
    ASSUME NEW dl \in Deliveries, NEW new \in Versions
    PROVE  IsOutbox(SnapshotOutbox(dl, new))
  <1> DEFINE high == NextSequence(dl)
             live == {id \in Occurrences : new[id] # Absent}
             n == IF live = {} THEN 1 ELSE Chunks(live)
             page(k) == [type |-> "snapshot", epoch |-> dl.epoch,
                         high |-> high, index |-> k - 1, count |-> n,
                         digest |-> new,
                         put |-> Only(ChunkIds(live, new, k), new)]
             pages == [k \in 1..n |-> page(k)]
             after == [dl EXCEPT !.sequence = high, !.sent = new,
                                 !.unacked = <<>>, !.owed = FALSE,
                                 !.revision = SnapshotRevision(dl, new, high)]
  <1>1. n \in Nat
    BY ChunksType
  <1>2. high \in Nat
    BY DEF NextSequence, Deliveries
  <1>3. SnapshotRevision(dl, new, high) \in [Occurrences -> Nat]
    BY <1>2 DEF SnapshotRevision, Deliveries
  <1>4. after \in Deliveries
    BY <1>2, <1>3, EmptySeq DEF Deliveries
  <1>5. pages \in Seq(Bodies)
    <2>1. ASSUME NEW k \in 1..n
          PROVE  page(k) \in Pages
      <3>1. Only(ChunkIds(live, new, k), new) \in Versions
        BY OnlyType
      <3>2. dl.epoch \in Epochs /\ k - 1 \in Nat
        BY <1>1 DEF Deliveries
      <3> HIDE DEF n, high
      <3> QED
        BY <1>1, <1>2, <3>1, <3>2 DEF Pages
    <2>2. pages \in [1..n -> Bodies]
      BY <2>1 DEF Bodies
    <2> HIDE DEF pages, n
    <2> QED
      BY <1>1, <2>2, SeqDef
  <1>6. SnapshotOutbox(dl, new) = Outbox(after, pages, TRUE)
    BY DEF SnapshotOutbox
  <1> QED
    BY <1>4, <1>5, <1>6 DEF IsOutbox, Outbox

\* What a refresh emits, deltas or a snapshot, is an outbox.
LEMMA RefreshOutboxType ==
    ASSUME NEW dl \in Deliveries, NEW new \in Versions
    PROVE  IsOutbox(RefreshOutbox(dl, new))
  <1>1. dl.sent = NoVersion \/ dl.sent \in Versions
    BY DEF Deliveries
  <1> QED
    BY <1>1, DeltasOutboxType, SnapshotOutboxType DEF RefreshOutbox

\* What a retraction emits is an outbox.
LEMMA RetractOutboxType ==
    ASSUME NEW dl \in Deliveries, NEW child \in Occurrences
    PROVE  IsOutbox(RetractOutbox(dl, child))
  <1>1. CASE dl.owed \/ dl.sent = NoVersion
    BY <1>1, EmptySeq DEF RetractOutbox, IsOutbox, Outbox
  <1>2. CASE ~(dl.owed \/ dl.sent = NoVersion)
    <2> DEFINE version == [dl.sent EXCEPT ![child] = Absent]
               delta == Delta(dl.epoch, NextSequence(dl), Empty, {child}, version)
    <2>1. version \in Versions
      BY <1>2 DEF Versions, Objects, Deliveries
    <2>2. NextSequence(dl) \in Nat /\ dl.epoch \in Epochs
      BY DEF NextSequence, Deliveries
    <2> HIDE DEF version
    <2>3. delta \in Messages
      BY <2>1, <2>2, EmptyType DEF Delta, Messages
    <2>4. <<delta>> \in Seq(Bodies)
      BY <2>3 DEF Bodies
    <2>5. Append(dl.unacked, delta) \in Seq(Messages)
      BY <2>3, AppendProperties DEF Deliveries
    <2> HIDE DEF delta
    <2>6. [dl EXCEPT !.sequence = NextSequence(dl), !.sent = version,
                     !.unacked = Append(@, delta)] \in Deliveries
      BY <2>1, <2>2, <2>5 DEF Deliveries
    <2> QED
      BY <1>2, <2>4, <2>6 DEF RetractOutbox, IsOutbox, Outbox, delta, version
  <1> QED
    BY <1>1, <1>2

----------------------------------------------------------------------------
(* Types of a turn                                                         *)

\* Recording and posting an outbox leaves a turn.
LEMMA SendType ==
    ASSUME NEW turn \in Turns, NEW o, IsOutbox(o), NEW written
    PROVE  Send(turn, o, written) \in Turns
  <1>1. Recorded(turn.row, o.after) \in Rows
    BY DEF Recorded, Turns, Rows, Deliveries, IsOutbox, Higher, Lower
  <1>2. turn.posts \o o.bodies \in Seq(Bodies)
    BY ConcatProperties DEF Turns, IsOutbox
  <1>3. CASE o.moved /\ ~written
    <2>1. Send(turn, o, written) = [turn EXCEPT !.d = o.after,
                                       !.failed = turn.failed + 1]
      BY <1>3 DEF Send, Turns
    <2>2. turn.failed + 1 \in Nat
      BY DEF Turns
    <2> QED
      BY <2>1, <2>2 DEF Turns, IsOutbox
  <1>4. CASE o.moved /\ written
    <2>1. Send(turn, o, written) = [turn EXCEPT !.d = o.after,
                                       !.row = Recorded(turn.row, o.after),
                                       !.posts = turn.posts \o o.bodies]
      BY <1>4 DEF Send, Turns
    <2> QED
      BY <1>1, <1>2, <2>1 DEF Turns, IsOutbox
  <1>5. CASE ~o.moved
    <2>1. Send(turn, o, written) = [turn EXCEPT !.d = o.after, !.row = turn.row,
                                       !.posts = turn.posts \o o.bodies]
      BY <1>5 DEF Send, Turns
    <2> QED
      BY <1>2, <2>1 DEF Turns, IsOutbox
  <1> QED
    BY <1>3, <1>4, <1>5

\* So does a whole refresh.
LEMMA RefreshType ==
    ASSUME NEW turn \in Turns, NEW new \in Versions \cup {NoVersion},
           NEW written
    PROVE  Refresh(turn, new, written) \in Turns
  <1>1. turn.d \in Deliveries
    BY DEF Turns
  <1>2. CASE new = NoVersion
    BY <1>2 DEF Refresh
  <1>3. CASE new # NoVersion
    BY <1>1, <1>3, RefreshOutboxType, SendType DEF Refresh
  <1> QED
    BY <1>2, <1>3

\* A turn begins as a turn.
LEMMA FreshTurnType ==
    ASSUME NEW r \in Rows, NEW dl \in Deliveries
    PROVE  Turn(r, dl) \in Turns
  BY EmptySeq DEF Turn, Turns

\* What bodies claim is an epoch, a sequence and a version.
LEMMA ClaimsType ==
    ASSUME NEW bodies \in Seq(Bodies)
    PROVE  Claims(bodies) \subseteq Epochs \X Nat \X Versions
  <1>1. \A i \in DOMAIN bodies : bodies[i] \in Bodies
    BY LenProperties, ElementOfSeq
  <1>2. \A m \in Bodies : m.type = "delta" => m \in Messages
    BY DEF Bodies, Messages, Pages
  <1>3. \A m \in Bodies : m.type # "delta" => m \in Pages
    BY DEF Bodies, Messages, Pages
  <1>4. \A m \in Messages : <<m.epoch, m.sequence, m.version>> \in Epochs \X Nat \X Versions
    BY DEF Messages
  <1>5. \A m \in Pages : <<m.epoch, m.high, m.digest>> \in Epochs \X Nat \X Versions
    BY DEF Pages
  <1> QED
    BY <1>1, <1>2, <1>3, <1>4, <1>5 DEF Claims

\* The budget after a fault it allows.
LEMMA SpentType ==
    ASSUME NEW budget \in [Events -> Nat], NEW fault \in Faults, NEW n \in Nat,
           n > 0 => Allows(budget, fault, n)
    PROVE  /\ Spent(budget, fault, n) \in [Events -> Nat]
           /\ \A e \in Events : Spent(budget, fault, n)[e] <= budget[e]
           /\ \A e \in Faults \ {fault} : Spent(budget, fault, n)[e] = budget[e]
           /\ Spent(budget, fault, n)[fault] = budget[fault] - n
  <1>1. fault # "faults" /\ fault \in Events /\ "faults" \in Events
    BY DEF Faults, Events
  <1>2. "faults" \notin Faults /\ Faults \subseteq Events
    BY DEF Faults, Events
  <1> QED
    BY <1>1, <1>2 DEF Spent, Allows

\* The type invariant and its strengthening: FreshEpoch needs the number of
\* deletions left to be no more than the budget.
TypeInv ==
    /\ TypeOK
    /\ \A e \in Events : left[e] <= Budget[e]

\* A turn's effects keep the types of what it changes.
LEMMA FinishType ==
    ASSUME TypeInv, NEW turn \in Turns, NEW session,
           NEW budget \in [Events -> Nat], \A e \in Events : budget[e] <= left[e],
           Finish(turn, session, budget)
    PROVE  /\ row' \in Rows /\ d' \in Deliveries
           /\ hist' \subseteq Epochs \X Nat \X Versions
           /\ down' \in Seq(Bodies)
           /\ left' \in [Events -> Nat]
           /\ \A e \in Events : left'[e] <= Budget[e]
  <1>1. row' \in Rows /\ d' \in Deliveries
    BY DEF Finish, Turns
  <1>2. Claims(turn.posts) \subseteq Epochs \X Nat \X Versions
    BY ClaimsType DEF Turns
  <1>3. hist' \subseteq Epochs \X Nat \X Versions
    BY <1>2 DEF Finish, TypeInv, TypeOK
  <1>4. down' \in Seq(Bodies)
    <2>1. down \in Seq(Bodies) /\ turn.posts \in Seq(Bodies)
      BY DEF TypeInv, TypeOK, Bodies, Turns
    <2> QED
      BY <2>1, ConcatProperties DEF Finish
  <1>5. "db" \in Faults /\ turn.failed \in Nat
    BY DEF Faults, Turns
  <1>6. left' = Spent(budget, "db", turn.failed)
    BY DEF Finish
  <1>7. /\ left' \in [Events -> Nat]
        /\ \A e \in Events : left'[e] <= budget[e]
    BY <1>5, <1>6, SpentType DEF Finish
  <1>8. \A e \in Events : left'[e] <= Budget[e]
    <2> SUFFICES ASSUME NEW e \in Events PROVE left'[e] <= Budget[e]
      OBVIOUS
    <2>1. left'[e] \in Nat /\ budget[e] \in Nat /\ left[e] \in Nat /\ Budget[e] \in Nat
      BY <1>7, BudgetAssumption DEF TypeInv, TypeOK
    <2>2. left'[e] <= budget[e] /\ budget[e] <= left[e] /\ left[e] <= Budget[e]
      BY <1>7 DEF TypeInv
    <2> QED
      BY <2>1, <2>2
  <1> QED
    BY <1>1, <1>3, <1>4, <1>7, <1>8

----------------------------------------------------------------------------
(* Type correctness                                                        *)

\* The kinds of events at the service.
LEMMA EventUpTypes ==
    ASSUME NEW e \in EventsUp
    PROVE  /\ e.type = "attach" => e.session \in Nat /\ e.epoch \in Epochs /\ e.acked \in Nat
           /\ e.type = "ack" => e.through \in Nat /\ e.need \in BOOLEAN
  BY DEF EventsUp

\* An ack of a device state is an event.
LEMMA AckOfType ==
    ASSUME link \in Links, NEW state \in Caches, NEW need \in BOOLEAN,
           NEW durable \in BOOLEAN
    PROVE  AckOf(state, need, durable) \in EventsUp
  <1>1. (need \/ state.corrupt) \in BOOLEAN
    OBVIOUS
  <1>2. link.session \in Nat /\ state.epoch \in Epochs /\ state.acked \in Nat
    BY DEF Links, Caches
  <1>3. AckOf(state, need, durable)
          \in [type : {"ack"}, session : Nat, epoch : Epochs, through : Nat,
               durable : BOOLEAN, need : BOOLEAN]
    BY <1>1, <1>2 DEF AckOf
  <1> QED
    BY <1>3 DEF EventsUp

\* The reply to a message keeps the types of what it changes.
LEMMA ReplyType ==
    ASSUME TypeInv, NEW ack \in EventsUp, NEW budget \in [Events -> Nat],
           \A e \in Events : budget[e] <= Budget[e], Reply(ack, budget)
    PROVE  /\ up' \in Seq(EventsUp)
           /\ left' \in [Events -> Nat]
           /\ \A e \in Events : left'[e] <= Budget[e]
  <1>1. up' \in Seq(EventsUp)
    <2>1. up \in Seq(EventsUp) /\ Append(up, ack) \in Seq(EventsUp)
      BY AppendProperties DEF TypeInv, TypeOK
    <2> QED
      BY <2>1 DEF Reply
  <1>2. CASE left' = budget
    BY <1>1, <1>2
  <1>3. CASE Allows(budget, "drop", 1) /\ left' = Spent(budget, "drop", 1)
    <2>1. "drop" \in Faults
      BY DEF Faults
    <2>2. left' \in [Events -> Nat] /\ \A e \in Events : left'[e] <= budget[e]
      BY <1>3, <2>1, SpentType
    <2>3. \A e \in Events : left'[e] <= Budget[e]
      BY <2>2, BudgetAssumption
    <2> QED
      BY <1>1, <2>2, <2>3
  <1> QED
    BY <1>2, <1>3 DEF Reply

\* A fault taken from what is left keeps the budget's type.
LEMMA SpendType ==
    ASSUME TypeInv, NEW fault \in Faults, Spend(fault)
    PROVE  /\ left' \in [Events -> Nat]
           /\ \A e \in Events : left'[e] <= Budget[e]
  <1>1. left' \in [Events -> Nat] /\ \A e \in Events : left'[e] <= left[e]
    BY SpentType DEF Spend, TypeInv, TypeOK
  <1>2. \A e \in Events : left[e] \in Nat /\ Budget[e] \in Nat /\ left[e] <= Budget[e]
    BY BudgetAssumption DEF TypeInv, TypeOK
  <1>3. \A e \in Events : left'[e] \in Nat
    BY <1>1
  <1>4. \A e \in Events : left'[e] <= Budget[e]
    BY <1>1, <1>2, <1>3
  <1> QED
    BY <1>1, <1>4

\* A page keeps the stage a stage.
LEMMA StageTypes ==
    ASSUME stage \in Stages, NEW p \in Pages
    PROVE  /\ StageFor(p) \in Stages
           /\ Staged(p) \in Versions
           /\ [StageFor(p) EXCEPT !.next = @ + 1, !.values = Staged(p)] \in Stages
           /\ NoStage \in Stages
  <1>1. StageFor(p) \in Stages
    BY EmptyType DEF StageFor, Stages, Pages
  <1>2. Staged(p) \in Versions
    BY <1>1 DEF Staged, Versions, Stages, Pages
  <1>3. NoStage \in Stages
    BY EmptyType DEF NoStage, Stages, Epochs
  <1>4. ASSUME NEW sg \in Stages, NEW next \in Nat, NEW values \in Versions
        PROVE  [sg EXCEPT !.next = next, !.values = values] \in Stages
    BY DEF Stages
  <1>5. StageFor(p).next + 1 \in Nat
    BY <1>1 DEF Stages
  <1>6. [StageFor(p) EXCEPT !.next = StageFor(p).next + 1, !.values = Staged(p)]
           \in Stages
    BY <1>1, <1>2, <1>4, <1>5
  <1> QED
    BY <1>1, <1>2, <1>3, <1>6

\* A delta applied to a cache leaves a version.
LEMMA AppliedType ==
    ASSUME NEW m \in Messages, NEW occ \in Versions
    PROVE  Applied(m, occ) \in Versions
  BY DEF Applied, Versions, Objects, Messages

\* A received message is a delta or a page, and the rest stays in order.
LEMMA ReceivesType ==
    ASSUME TypeInv, NEW type, Receives(type)
    PROVE  /\ down' \in Seq(Bodies)
           /\ type = "delta" => Head(down) \in Messages
           /\ type = "snapshot" => Head(down) \in Pages
  <1>1. down \in Seq(Bodies) /\ down # <<>>
    BY DEF TypeInv, TypeOK, Bodies, Receives
  <1>2. Head(down) \in Bodies /\ Tail(down) \in Seq(Bodies)
    BY <1>1, HeadTailProperties
  <1> QED
    BY <1>2 DEF Receives, Bodies, Messages, Pages

\* What the service's turn leaves alone, and what it changes, in a step that
\* ends with Finish.
LEMMA TurnTypeInv ==
    ASSUME TypeInv, NEW turn \in Turns, NEW session,
           NEW budget \in [Events -> Nat], \A e \in Events : budget[e] <= left[e],
           Finish(turn, session, budget),
           bound' \in BOOLEAN, att' \in Sessions,
           desired' \in Versions \cup {NoVersion}, up' \in Seq(EventsUp),
           UNCHANGED <<calendar, link, dev, stage>>
    PROVE  TypeInv'
  <1>1. /\ row' \in Rows /\ d' \in Deliveries
        /\ hist' \subseteq Epochs \X Nat \X Versions
        /\ down' \in Seq(Bodies)
        /\ left' \in [Events -> Nat]
        /\ \A e \in Events : left'[e] <= Budget[e]
    BY FinishType
  <1>2. TypeOK'
    BY <1>1 DEF TypeInv, TypeOK, Bodies
  <1> QED
    BY <1>1, <1>2 DEF TypeInv

\* A new row's epoch is a positive number.
LEMMA FreshEpochType ==
    ASSUME TypeInv
    PROVE  FreshEpoch \in Nat \ {0}
  <1>1. "forget" \in Events
    BY DEF Events, Faults
  <1>2. left["forget"] \in Nat /\ Budget["forget"] \in Nat /\ left["forget"] <= Budget["forget"]
    BY <1>1, BudgetAssumption DEF TypeInv, TypeOK
  <1> QED
    BY <1>2 DEF FreshEpoch

\* The row Bind reads or creates.
BoundRow == IF row.epoch = 0 THEN [NoRow EXCEPT !.epoch = FreshEpoch] ELSE row

\* The row a delivery is bound to is a row.
LEMMA BoundRowType ==
    ASSUME TypeInv
    PROVE  BoundRow \in Rows
  BY FreshEpochType DEF BoundRow, NoRow, Rows, TypeInv, TypeOK, Epochs

\* The head of the service's event queue, and the rest of it.
LEMMA EventType ==
    ASSUME TypeInv, up # <<>>
    PROVE  Head(up) \in EventsUp /\ Tail(up) \in Seq(EventsUp)
  BY HeadTailProperties DEF TypeInv, TypeOK

\* Binding a delivery preserves types.
LEMMA BindType ==
    ASSUME TypeInv, Bind
    PROVE  TypeInv'
  <1> DEFINE dl == NewDelivery(BoundRow)
  <1>1. BoundRow \in Rows /\ dl \in Deliveries
    BY BoundRowType, NewDeliveryType
  <1>2. left \in [Events -> Nat] /\ \A e \in Events : left[e] <= left[e]
    BY DEF TypeInv, TypeOK
  <1>3. PICK turn \in Turns, session \in Nat : Finish(turn, session, left)
    <2>1. Turn(BoundRow, dl) \in Turns
      BY <1>1, FreshTurnType
    <2>2. CASE att.session = 0
      <3>1. Finish(Turn(BoundRow, dl), 0, left)
        BY <2>2 DEF Bind, BoundRow
      <3> QED
        BY <2>1, <3>1
    <2>3. CASE att.session # 0
      <3>1. PICK written \in BOOLEAN :
               Finish(Refresh(Send(Turn(BoundRow, dl), AttachOutbox(dl, att), TRUE),
                              desired, written),
                      att.session, left)
        BY <2>3 DEF Bind, BoundRow
      <3>2. IsOutbox(AttachOutbox(dl, att))
        BY <1>1, AttachOutboxType DEF TypeInv, TypeOK, Sessions
      <3>3. Send(Turn(BoundRow, dl), AttachOutbox(dl, att), TRUE) \in Turns
        BY <2>1, <3>2, SendType
      <3>4. desired \in Versions \cup {NoVersion}
        BY DEF TypeInv, TypeOK
      <3>5. Refresh(Send(Turn(BoundRow, dl), AttachOutbox(dl, att), TRUE),
                    desired, written) \in Turns
        BY <3>3, <3>4, RefreshType
      <3>6. att.session \in Nat
        BY DEF TypeInv, TypeOK, Sessions
      <3> QED
        BY <3>1, <3>5, <3>6
    <2> QED
      BY <2>2, <2>3
  <1>4. /\ bound' \in BOOLEAN /\ att' \in Sessions
        /\ desired' \in Versions \cup {NoVersion} /\ up' \in Seq(EventsUp)
        /\ UNCHANGED <<calendar, link, dev, stage>>
    BY DEF Bind, TypeInv, TypeOK
  <1> QED
    BY <1>2, <1>3, <1>4, TurnTypeInv

\* Handling a hello preserves types.
LEMMA AttachType ==
    ASSUME TypeInv, Attach
    PROVE  TypeInv'
  <1>1. Head(up) \in EventsUp /\ up' \in Seq(EventsUp) /\ Head(up).type = "attach"
    BY EventType DEF Attach
  <1>2. att' \in Sessions
    BY <1>1, EventUpTypes DEF Attach, Sessions
  <1>3. /\ bound' \in BOOLEAN /\ desired' \in Versions \cup {NoVersion}
        /\ UNCHANGED <<calendar, link, dev, stage>>
    BY DEF Attach, TypeInv, TypeOK
  <1>4. left \in [Events -> Nat] /\ \A e \in Events : left[e] <= left[e]
    BY DEF TypeInv, TypeOK
  <1>5. CASE bound
    <2>1. PICK first, second \in BOOLEAN :
             Finish(Refresh(Send(Turn(row, d), AttachOutbox(d, att'), first),
                            desired, second), att'.session, left)
      BY <1>5 DEF Attach
    <2>2. Turn(row, d) \in Turns /\ d \in Deliveries
      BY FreshTurnType DEF TypeInv, TypeOK
    <2>3. att'.acked \in Nat
      BY <1>2 DEF Sessions
    <2>4. IsOutbox(AttachOutbox(d, att'))
      BY <2>2, <2>3, AttachOutboxType
    <2>5. Refresh(Send(Turn(row, d), AttachOutbox(d, att'), first), desired, second) \in Turns
      BY <2>2, <2>4, SendType, RefreshType DEF TypeInv, TypeOK
    <2> QED
      BY <1>1, <1>2, <1>3, <1>4, <2>1, <2>5, TurnTypeInv
  <1>6. CASE ~bound
    BY <1>1, <1>2, <1>3, <1>6 DEF Attach, TypeInv, TypeOK
  <1> QED
    BY <1>5, <1>6

\* Handling an acknowledgement preserves types.
LEMMA AckType ==
    ASSUME TypeInv, Ack
    PROVE  TypeInv'
  <1>1. Head(up) \in EventsUp /\ up' \in Seq(EventsUp) /\ Head(up).type = "ack"
    BY EventType DEF Ack
  <1>2. /\ bound' \in BOOLEAN /\ att' \in Sessions
        /\ desired' \in Versions \cup {NoVersion}
        /\ UNCHANGED <<calendar, link, dev, stage>>
    BY DEF Ack, TypeInv, TypeOK
  <1>3. left \in [Events -> Nat] /\ \A e \in Events : left[e] <= left[e]
    BY DEF TypeInv, TypeOK
  <1>4. CASE bound /\ att.session = Head(up).session
    <2> DEFINE acked(first) == Send(Turn(row, d), AckOutbox(d, Head(up)), first)
               turn(first, second) == IF acked(first).d.owed
                                      THEN Refresh(acked(first), desired, second)
                                      ELSE acked(first)
    <2>1. PICK first, second \in BOOLEAN : Finish(turn(first, second), att.session, left)
      BY <1>4 DEF Ack
    <2>2. Turn(row, d) \in Turns /\ d \in Deliveries
      BY FreshTurnType DEF TypeInv, TypeOK
    <2>3. IsOutbox(AckOutbox(d, Head(up)))
      BY <1>1, <2>2, EventUpTypes, AckOutboxType
    <2>4. acked(first) \in Turns
      BY <2>2, <2>3, SendType
    <2> HIDE DEF acked
    <2>5. turn(first, second) \in Turns
      BY <2>4, RefreshType DEF TypeInv, TypeOK
    <2> HIDE DEF turn
    <2> QED
      BY <1>1, <1>2, <1>3, <2>1, <2>5, TurnTypeInv
  <1>5. CASE ~(bound /\ att.session = Head(up).session)
    BY <1>1, <1>2, <1>5 DEF Ack, TypeInv, TypeOK
  <1> QED
    BY <1>4, <1>5

\* Pushing a calendar version preserves types.
LEMMA PushType ==
    ASSUME TypeInv, Push
    PROVE  TypeInv'
  <1>1. /\ bound' \in BOOLEAN /\ att' \in Sessions
        /\ desired' \in Versions \cup {NoVersion} /\ up' \in Seq(EventsUp)
        /\ UNCHANGED <<calendar, link, dev, stage>>
    BY DEF Push, TypeInv, TypeOK
  <1>2. left \in [Events -> Nat] /\ \A e \in Events : left[e] <= left[e]
    BY DEF TypeInv, TypeOK
  <1>3. CASE bound /\ att.session # 0
    <2>1. PICK written \in BOOLEAN :
             Finish(Refresh(Turn(row, d), calendar, written), att.session, left)
      BY <1>3 DEF Push
    <2>2. Refresh(Turn(row, d), calendar, written) \in Turns
      BY FreshTurnType, RefreshType DEF TypeInv, TypeOK
    <2> QED
      BY <1>1, <1>2, <2>1, <2>2, TurnTypeInv
  <1>4. CASE ~(bound /\ att.session # 0)
    BY <1>1, <1>4 DEF Push, TypeInv, TypeOK
  <1> QED
    BY <1>3, <1>4

\* Retracting an occurrence preserves types.
LEMMA RetractType ==
    ASSUME TypeInv, NEW child \in Occurrences, Retract(child)
    PROVE  TypeInv'
  <1>1. /\ bound' \in BOOLEAN /\ att' \in Sessions
        /\ desired' \in Versions \cup {NoVersion} /\ up' \in Seq(EventsUp)
        /\ UNCHANGED <<calendar, link, dev, stage>>
    BY DEF Retract, TypeInv, TypeOK
  <1>2. /\ Spent(left, "retract", 1) \in [Events -> Nat]
        /\ \A e \in Events : Spent(left, "retract", 1)[e] <= left[e]
    <2>1. "retract" \in Faults /\ left \in [Events -> Nat]
      BY DEF Faults, TypeInv, TypeOK
    <2> QED
      BY <2>1, SpentType DEF Retract
  <1>3. PICK first, second \in BOOLEAN :
           Finish(Refresh(Send(Turn(row, d), RetractOutbox(d, child), first),
                          desired, second), att.session, Spent(left, "retract", 1))
    BY DEF Retract
  <1>4. Turn(row, d) \in Turns /\ d \in Deliveries
    BY FreshTurnType DEF TypeInv, TypeOK
  <1>5. Refresh(Send(Turn(row, d), RetractOutbox(d, child), first), desired, second) \in Turns
    BY <1>4, RetractOutboxType, SendType, RefreshType DEF TypeInv, TypeOK
  <1> QED
    BY <1>1, <1>2, <1>3, <1>5, TurnTypeInv

\* A controller restart preserves types.
LEMMA RestartType ==
    ASSUME TypeInv, Restart
    PROVE  TypeInv'
  <1> DEFINE rest == Spent(left, "crash", 1)
  <1>1. "crash" \in Faults /\ "db" \in Faults /\ left \in [Events -> Nat]
    BY DEF Faults, TypeInv, TypeOK
  <1>2. rest \in [Events -> Nat] /\ \A e \in Events : rest[e] <= left[e]
    BY <1>1, SpentType DEF Restart
  <1>3. left' \in [Events -> Nat] /\ \A e \in Events : left'[e] <= left[e]
    <2>1. CASE left' = rest
      BY <1>2, <2>1
    <2>2. CASE Allows(rest, "db", 1) /\ left' = Spent(rest, "db", 1)
      <3>1. left' \in [Events -> Nat] /\ \A e \in Events : left'[e] <= rest[e]
        BY <1>1, <1>2, <2>2, SpentType
      <3>2. \A e \in Events : left'[e] \in Nat /\ rest[e] \in Nat /\ left[e] \in Nat
        BY <1>1, <1>2, <3>1
      <3> QED
        BY <1>2, <3>1, <3>2
    <2> QED
      BY <2>1, <2>2 DEF Restart
  <1>4. \A e \in Events : left'[e] <= Budget[e]
    <2>1. \A e \in Events : left'[e] \in Nat /\ left[e] \in Nat /\ Budget[e] \in Nat
      BY <1>1, <1>3, BudgetAssumption
    <2> QED
      BY <1>3, <2>1 DEF TypeInv
  <1>5. d' \in Deliveries /\ att' \in Sessions /\ up' \in Seq(EventsUp)
    BY NewDeliveryType, EmptySeq DEF Restart, NoSession, Sessions, Epochs, TypeInv, TypeOK
  <1>6. link' \in Links /\ bound' \in BOOLEAN
    BY DEF Restart, Links, TypeInv, TypeOK
  <1> QED
    BY <1>3, <1>4, <1>5, <1>6 DEF Restart, TypeInv, TypeOK

\* Deleting a device preserves types.
LEMMA ForgetType ==
    ASSUME TypeInv, Forget
    PROVE  TypeInv'
  <1>1. left' \in [Events -> Nat] /\ \A e \in Events : left'[e] <= Budget[e]
    BY SpendType DEF Forget, Faults
  <1>2. NoRow \in Rows
    BY DEF NoRow, Rows, Epochs
  <1>3. row' \in Rows /\ d' \in Deliveries /\ att' \in Sessions /\ up' \in Seq(EventsUp)
    BY <1>2, NewDeliveryType, EmptySeq DEF Forget, NoSession, Sessions, Epochs
  <1>4. link' \in Links /\ bound' \in BOOLEAN
    BY DEF Forget, Links, TypeInv, TypeOK
  <1> QED
    BY <1>1, <1>3, <1>4 DEF Forget, TypeInv, TypeOK

\* Editing the calendar preserves types.
LEMMA EditCalendarType ==
    ASSUME TypeInv, NEW version \in Versions, EditCalendar(version)
    PROVE  TypeInv'
  <1>1. "calendar" \in Events /\ left \in [Events -> Nat]
    BY DEF Events, TypeInv, TypeOK
  <1>2. left' \in [Events -> Nat] /\ \A e \in Events : left'[e] <= left[e]
    BY <1>1 DEF EditCalendar
  <1>3. \A e \in Events : left'[e] \in Nat /\ left[e] \in Nat /\ Budget[e] \in Nat
    BY <1>1, <1>2, BudgetAssumption
  <1>4. \A e \in Events : left'[e] <= Budget[e]
    BY <1>2, <1>3 DEF TypeInv
  <1> QED
    BY <1>2, <1>4 DEF EditCalendar, TypeInv, TypeOK

\* Opening, losing and ending a session preserve types.
LEMMA SessionTypes ==
    ASSUME TypeInv, Connect \/ Detach \/ EndSession \/ Lost
    PROVE  TypeInv'
  <1>1. CASE Connect
    <2>1. link' \in Links
      BY <1>1 DEF Connect, Links, TypeInv, TypeOK
    <2>2. Hello.epoch \in Epochs /\ Hello.acked \in Nat
      BY DEF Hello, Caches, TypeInv, TypeOK, Epochs
    <2>3. [type |-> "attach", session |-> link'.session, epoch |-> Hello.epoch,
           acked |-> Hello.acked] \in EventsUp
      BY <2>1, <2>2 DEF EventsUp, Links
    <2>4. up' \in Seq(EventsUp)
      BY <1>1, <2>3, AppendProperties DEF Connect, TypeInv, TypeOK
    <2> QED
      BY <1>1, <2>1, <2>4 DEF Connect, TypeInv, TypeOK
  <1>2. CASE Detach
    <2>1. up' \in Seq(EventsUp)
      BY <1>2, EventType DEF Detach
    <2>2. att' \in Sessions
      BY <1>2 DEF Detach, NoSession, Sessions, Epochs, TypeInv, TypeOK
    <2> QED
      BY <1>2, <2>1, <2>2 DEF Detach, TypeInv, TypeOK
  <1>3. CASE EndSession
    <2>1. left' \in [Events -> Nat] /\ \A e \in Events : left'[e] <= Budget[e]
      BY <1>3, SpendType DEF EndSession, Faults
    <2>2. link' \in Links /\ link.session \in Nat
      BY <1>3 DEF EndSession, Links, TypeInv, TypeOK
    <2>3. up' \in Seq(EventsUp)
      <3> DEFINE detach == [type |-> "detach", session |-> link.session]
      <3>1. PICK kept \in 0..Len(up), report \in {<<>>, <<detach>>} :
               up' = SubSeq(up, 1, kept) \o report
        BY <1>3 DEF EndSession
      <3>2. Len(up) \in Nat /\ \A i \in 1..kept : up[i] \in EventsUp
        BY ElementOfSeq, LenProperties DEF TypeInv, TypeOK
      <3>3. kept \in Int /\ 1 \in Int
        BY <3>2
      <3>4. SubSeq(up, 1, kept) \in Seq(EventsUp)
        BY <3>2, <3>3, SubSeqProperties
      <3>5. detach \in EventsUp
        BY <2>2 DEF EventsUp
      <3> HIDE DEF detach
      <3>6. <<>> \in Seq(EventsUp) /\ <<detach>> \in Seq(EventsUp)
        BY <3>5, EmptySeq
      <3>7. report \in Seq(EventsUp)
        BY <3>6
      <3> QED
        BY <3>1, <3>4, <3>7, ConcatProperties
    <2> QED
      BY <1>3, <2>1, <2>2, <2>3 DEF EndSession, TypeInv, TypeOK
  <1>4. CASE Lost
    <2>1. link' \in Links /\ down' \in Seq(Messages \cup Pages)
      BY <1>4, EmptySeq DEF Lost, Links, TypeInv, TypeOK
    <2> QED
      BY <1>4, <2>1 DEF Lost, TypeInv, TypeOK
  <1> QED
    BY <1>1, <1>2, <1>3, <1>4

\* A delta applied by the device preserves types.
LEMMA ApplyDeltaType ==
    ASSUME TypeInv, ApplyDelta
    PROVE  TypeInv'
  <1> DEFINE m == Head(down)
  <1>1. m \in Messages /\ down' \in Seq(Bodies)
    BY ReceivesType DEF ApplyDelta
  <1>2. /\ left \in [Events -> Nat] /\ dev \in Caches /\ link \in Links
        /\ \A e \in Events : left[e] <= Budget[e]
    BY DEF TypeInv, TypeOK
  <1>3. CASE Follows(m)
    <2>1. dev' \in Caches
      <3>1. Applied(m, dev.occ) \in Versions /\ m.sequence \in Nat
        BY <1>1, <1>2, AppliedType DEF Caches, Messages
      <3>2. dev' = [dev EXCEPT !.acked = m.sequence, !.occ = Applied(m, dev.occ)]
        BY <1>3 DEF ApplyDelta
      <3> HIDE DEF m
      <3> QED
        BY <1>2, <3>1, <3>2 DEF Caches
    <2>2. AckOf(dev', FALSE, TRUE) \in EventsUp /\ Reply(AckOf(dev', FALSE, TRUE), left)
      BY <1>2, <1>3, <2>1, AckOfType DEF ApplyDelta
    <2> QED
      BY <1>1, <1>2, <2>1, <2>2, ReplyType DEF ApplyDelta, TypeInv, TypeOK, Bodies
  <1>4. CASE ~Follows(m)
    <2>1. dev' \in Caches
      BY <1>2, <1>4 DEF ApplyDelta
    <2>2. AckOf(dev, TRUE, TRUE) \in EventsUp /\ Reply(AckOf(dev, TRUE, TRUE), left)
      BY <1>2, <1>4, AckOfType DEF ApplyDelta
    <2> QED
      BY <1>1, <1>2, <2>1, <2>2, ReplyType DEF ApplyDelta, TypeInv, TypeOK, Bodies
  <1> QED
    BY <1>3, <1>4

\* A page applied by the device preserves types.
LEMMA ApplySnapshotPageType ==
    ASSUME TypeInv, ApplySnapshotPage
    PROVE  TypeInv'
  <1> DEFINE p == Head(down)
  <1>1. p \in Pages /\ down' \in Seq(Bodies)
    BY ReceivesType DEF ApplySnapshotPage
  <1>2. /\ left \in [Events -> Nat] /\ dev \in Caches /\ link \in Links
        /\ stage \in Stages /\ \A e \in Events : left[e] <= Budget[e]
    BY DEF TypeInv, TypeOK
  <1>3. /\ Staged(p) \in Versions /\ NoStage \in Stages
        /\ [StageFor(p) EXCEPT !.next = @ + 1, !.values = Staged(p)] \in Stages
    BY <1>1, <1>2, StageTypes
  <1>4. CASE Completes(p)
    <2>1. dev' \in Caches /\ stage' \in Stages
      <3>1. p.epoch \in Epochs /\ p.high \in Nat
        BY <1>1 DEF Pages
      <3>2. /\ dev' = [epoch |-> p.epoch, acked |-> p.high, occ |-> Staged(p),
                      corrupt |-> FALSE]
            /\ stage' = NoStage
        BY <1>4 DEF ApplySnapshotPage
      <3> HIDE DEF p
      <3> QED
        BY <1>3, <3>1, <3>2 DEF Caches
    <2>2. AckOf(dev', FALSE, TRUE) \in EventsUp /\ Reply(AckOf(dev', FALSE, TRUE), left)
      BY <1>2, <1>4, <2>1, AckOfType DEF ApplySnapshotPage
    <2> QED
      BY <1>1, <1>2, <2>1, <2>2, ReplyType DEF ApplySnapshotPage, TypeInv, TypeOK, Bodies
  <1>5. CASE ~Completes(p)
    <2>1. dev' \in Caches /\ stage' \in Stages
      BY <1>2, <1>3, <1>5 DEF ApplySnapshotPage
    <2>2. PICK ack \in EventsUp : Reply(ack, left)
      <3>1. EmptyAck \in EventsUp
        BY <1>2 DEF EmptyAck, EventsUp, Links, Epochs
      <3>2. AckOf(dev, TRUE, TRUE) \in EventsUp
        BY <1>2, AckOfType
      <3> QED
        BY <1>5, <3>1, <3>2 DEF ApplySnapshotPage
    <2> QED
      BY <1>1, <1>2, <2>1, <2>2, ReplyType DEF ApplySnapshotPage, TypeInv, TypeOK, Bodies
  <1> QED
    BY <1>4, <1>5

\* A failed commit on the device preserves types.
LEMMA CommitFailsType ==
    ASSUME TypeInv, CommitFails
    PROVE  TypeInv'
  <1>1. down' \in Seq(Bodies)
    BY ReceivesType DEF CommitFails
  <1>2. stage' \in Stages
    BY EmptyType DEF CommitFails, NoStage, Stages, Epochs, TypeInv, TypeOK
  <1>3. /\ AckOf(dev, TRUE, FALSE) \in EventsUp
        /\ Reply(AckOf(dev, TRUE, FALSE), Spent(left, "commit", 1))
    BY AckOfType DEF CommitFails, TypeInv, TypeOK
  <1>4. /\ Spent(left, "commit", 1) \in [Events -> Nat]
        /\ \A e \in Events : Spent(left, "commit", 1)[e] <= left[e]
    BY SpentType DEF CommitFails, Faults, TypeInv, TypeOK
  <1>5. \A e \in Events : Spent(left, "commit", 1)[e] <= Budget[e]
    <2>1. \A e \in Events : /\ Spent(left, "commit", 1)[e] \in Nat
                            /\ left[e] \in Nat /\ Budget[e] \in Nat
      BY <1>4, BudgetAssumption DEF TypeInv, TypeOK
    <2> QED
      BY <1>4, <2>1 DEF TypeInv
  <1>6. up' \in Seq(EventsUp) /\ left' \in [Events -> Nat] /\ \A e \in Events : left'[e] <= Budget[e]
    BY <1>3, <1>4, <1>5, ReplyType
  <1> QED
    BY <1>1, <1>2, <1>6 DEF CommitFails, TypeInv, TypeOK, Bodies

\* A reboot and a damaged store preserve types.
LEMMA DeviceRestartTypes ==
    ASSUME TypeInv, Reboot \/ Damage
    PROVE  TypeInv'
  <1>1. NoStage \in Stages
    BY EmptyType DEF NoStage, Stages, Epochs
  <1>2. left' \in [Events -> Nat] /\ \A e \in Events : left'[e] <= Budget[e]
    BY SpendType DEF Reboot, Damage, Faults
  <1>3. link' \in Links /\ down' \in Seq(Messages \cup Pages)
    BY EmptySeq DEF Reboot, Damage, Links, TypeInv, TypeOK
  <1>4. dev' \in Caches
    <2>1. Recoverable \subseteq Caches
      <3>1. \A h \in hist : h[1] \in Epochs /\ h[2] \in Nat /\ h[3] \in Versions
        BY DEF TypeInv, TypeOK
      <3>2. [epoch |-> 0, acked |-> 0, occ |-> Empty, corrupt |-> TRUE] \in Caches
        BY EmptyType DEF Caches, Epochs
      <3>3. \A h \in hist : [epoch |-> h[1], acked |-> h[2], occ |-> h[3],
                             corrupt |-> TRUE] \in Caches
        BY <3>1 DEF Caches
      <3> QED
        BY <3>2, <3>3 DEF Recoverable
    <2>2. dev \in Caches
      BY DEF TypeInv, TypeOK
    <2> QED
      BY <2>1, <2>2 DEF Reboot, Damage
  <1> QED
    BY <1>1, <1>2, <1>3, <1>4 DEF Reboot, Damage, TypeInv, TypeOK

\* The initial states are typed.
LEMMA InitType ==
    ASSUME Init
    PROVE  TypeInv
  <1>1. NoRow \in Rows /\ NoSession \in Sessions
    BY DEF NoRow, Rows, NoSession, Sessions, Epochs
  <1>2. NewDelivery(NoRow) \in Deliveries
    BY <1>1, NewDeliveryType
  <1>3. dev \in Caches /\ stage \in Stages /\ link \in Links
    BY EmptyType DEF Init, Caches, NoStage, Stages, Links, Epochs
  <1>4. \A e \in Events : left[e] <= Budget[e]
    BY BudgetAssumption DEF Init
  <1> QED
    BY <1>1, <1>2, <1>3, <1>4, EmptyType, EmptySeq, BudgetAssumption DEF Init, TypeInv, TypeOK

\* Every step preserves types.
LEMMA NextType ==
    ASSUME TypeInv, [Next]_vars
    PROVE  TypeInv'
  <1>1. CASE UNCHANGED vars
    BY <1>1 DEF vars, TypeInv, TypeOK
  <1>2. CASE Bind
    BY <1>2, BindType
  <1>3. CASE Attach
    BY <1>3, AttachType
  <1>4. CASE Ack
    BY <1>4, AckType
  <1>5. CASE Push
    BY <1>5, PushType
  <1>6. ASSUME NEW child \in Occurrences, Retract(child) PROVE TypeInv'
    BY <1>6, RetractType
  <1>7. CASE Restart
    BY <1>7, RestartType
  <1>8. CASE Forget
    BY <1>8, ForgetType
  <1>9. ASSUME NEW version \in Versions, EditCalendar(version) PROVE TypeInv'
    BY <1>9, EditCalendarType
  <1>10. CASE Connect \/ Detach \/ EndSession \/ Lost
    BY <1>10, SessionTypes
  <1>11. CASE ApplyDelta
    BY <1>11, ApplyDeltaType
  <1>12. CASE ApplySnapshotPage
    BY <1>12, ApplySnapshotPageType
  <1>13. CASE CommitFails
    BY <1>13, CommitFailsType
  <1>14. CASE Reboot \/ Damage
    BY <1>14, DeviceRestartTypes
  <1> QED
    BY <1>1, <1>2, <1>3, <1>4, <1>5, <1>6, <1>7, <1>8, <1>9, <1>10, <1>11,
       <1>12, <1>13, <1>14 DEF Next

\* Every variable keeps its type: the device's and the service's handlers
\* never build a message, a row or a version outside what the code's types
\* allow, and no budget runs below zero.
THEOREM TypeCorrect == Spec => []TypeOK
  <1>1. Init => TypeInv
    BY InitType
  <1>2. TypeInv /\ [Next]_vars => TypeInv'
    BY NextType
  <1>3. TypeInv => TypeOK
    BY DEF TypeInv
  <1> QED
    BY <1>1, <1>2, <1>3, PTL DEF Spec

----------------------------------------------------------------------------
(* Safety while positions are recorded.  The history G of claims grows as  *)
(* bodies are posted; each body rests on a claim the history already has.  *)

\* One version per epoch and sequence.
Unambiguous(G) == \A g, h \in G : g[1] = h[1] /\ g[2] = h[2] => g[3] = h[3]

\* What body m says is in G, and a delta leads to its version from the one
\* before it.
Backed(m, G) ==
    IF m.type = "delta"
    THEN /\ <<m.epoch, m.sequence, m.version>> \in G
         /\ \E v \in Versions : /\ <<m.epoch, m.sequence - 1, v>> \in G
                                /\ m.version = Applied(m, v)
    ELSE <<m.epoch, m.high, m.digest>> \in G

AllBacked(bodies, G) == \A i \in 1..Len(bodies) : Backed(bodies[i], G)

\* The delivery state dl agrees with the claims G: it is at the highest
\* sequence of its epoch, at the version claimed there.
Accounts(dl, G) ==
    /\ \A h \in G : h[1] = dl.epoch => h[2] <= dl.sequence
    /\ dl.sent # NoVersion => <<dl.epoch, dl.sequence, dl.sent>> \in G
    /\ AllBacked(dl.unacked, G)

\* Outbox o keeps dl's account of G as its bodies are posted.
Keeps(dl, o, G) ==
    LET G2 == G \cup Claims(o.bodies)
    IN  /\ Unambiguous(G2)
        /\ Accounts(o.after, G2)
        /\ AllBacked(o.bodies, G2)
        /\ \A g \in Claims(o.bodies) : g \in G \/ g[1] = dl.epoch
        /\ o.after.epoch = dl.epoch
        /\ o.after.sequence >= dl.sequence
        /\ ~o.moved => o.after.sequence = dl.sequence

\* A turn in an epoch, none of whose writes failed, keeps the account of the
\* claims H before it, and its row is at the same position.
Sound(turn, H, epoch) ==
    turn.failed = 0 =>
        LET G == H \cup Claims(turn.posts)
        IN  /\ Unambiguous(G)
            /\ Accounts(turn.d, G)
            /\ AllBacked(turn.posts, G)
            /\ \A g \in Claims(turn.posts) : g \in H \/ g[1] = epoch
            /\ turn.d.epoch = epoch /\ turn.row.epoch = epoch
            /\ turn.row.sequence = turn.d.sequence

ClaimSet == SUBSET (Epochs \X Nat \X Versions)

\* What is backed stays backed as claims are added.
LEMMA BackedGrows ==
    ASSUME NEW G, NEW G2, G \subseteq G2, NEW m, Backed(m, G)
    PROVE  Backed(m, G2)
  BY DEF Backed

\* The elements of a sequence; those of a concatenation are those of its parts.
Elems(s) == {s[i] : i \in 1..Len(s)}

\* The entries of a queue behind another are those of both.
LEMMA ConcatElems ==
    ASSUME NEW S, NEW a \in Seq(S), NEW b \in Seq(S)
    PROVE  Elems(a \o b) = Elems(a) \cup Elems(b)
  <1> DEFINE c == a \o b
             m == Len(a)
             n == Len(b)
  <1>1. /\ Len(c) = m + n
        /\ \A i \in 1..m + n : c[i] = IF i <= m THEN a[i] ELSE b[i - m]
    BY ConcatProperties
  <1>2. m \in Nat /\ n \in Nat
    BY LenProperties
  <1>3. Elems(a) = {a[i] : i \in 1..m} /\ Elems(b) = {b[i] : i \in 1..n}
    BY DEF Elems
  <1>4. Elems(c) = {c[i] : i \in 1..m + n}
    BY <1>1 DEF Elems
  <1> HIDE DEF c, m, n
  <1>5. ASSUME NEW x \in Elems(c)
        PROVE  x \in Elems(a) \/ x \in Elems(b)
    <2>1. PICK i \in 1..m + n : x = c[i]
      BY <1>4
    <2>2. CASE i <= m
      <3>1. i \in 1..m /\ x = a[i]
        BY <1>1, <1>2, <2>1, <2>2
      <3> QED
        BY <1>3, <3>1
    <2>3. CASE ~(i <= m)
      <3>1. i - m \in 1..n /\ x = b[i - m]
        BY <1>1, <1>2, <2>1, <2>3
      <3> QED
        BY <1>3, <3>1
    <2> QED
      BY <2>2, <2>3
  <1>6. ASSUME NEW x \in Elems(a)
        PROVE  x \in Elems(c)
    <2>1. PICK j \in 1..m : x = a[j]
      BY <1>3
    <2>2. j \in 1..m + n /\ x = c[j]
      BY <1>1, <1>2, <2>1
    <2> QED
      BY <1>4, <2>2
  <1>7. ASSUME NEW x \in Elems(b)
        PROVE  x \in Elems(c)
    <2>1. PICK j \in 1..n : x = b[j]
      BY <1>3
    <2>2. m + j \in 1..m + n /\ (m + j) - m = j /\ ~(m + j <= m)
      BY <1>2
    <2>3. x = c[m + j]
      BY <1>1, <2>1, <2>2
    <2> QED
      BY <1>4, <2>2, <2>3
  <1>8. Elems(c) = Elems(a) \cup Elems(b)
    BY <1>5, <1>6, <1>7
  <1> QED
    BY <1>8 DEF c

\* What one body claims.
Claim(m) == IF m.type = "delta" THEN <<m.epoch, m.sequence, m.version>>
                                ELSE <<m.epoch, m.high, m.digest>>

\* The claims of a queue, by index and by entry.
LEMMA ClaimsOf ==
    ASSUME NEW s \in Seq(Bodies)
    PROVE  /\ Claims(s) = {Claim(s[i]) : i \in 1..Len(s)}
           /\ Claims(s) = {Claim(m) : m \in Elems(s)}
  <1>1. DOMAIN s = 1..Len(s)
    BY LenProperties
  <1>2. Claims(s) = {Claim(m) : m \in Elems(s)}
    BY <1>1 DEF Claims, Claim, Elems
  <1>3. {Claim(m) : m \in Elems(s)} = {Claim(s[i]) : i \in 1..Len(s)}
    BY DEF Elems
  <1> QED
    BY <1>2, <1>3

\* The claims of two lists of bodies.
LEMMA ClaimsConcat ==
    ASSUME NEW a \in Seq(Bodies), NEW b \in Seq(Bodies)
    PROVE  Claims(a \o b) = Claims(a) \cup Claims(b)
  <1>1. a \o b \in Seq(Bodies)
    BY ConcatProperties
  <1>2. Elems(a \o b) = Elems(a) \cup Elems(b)
    BY ConcatElems
  <1>3. /\ Claims(a) = {Claim(m) : m \in Elems(a)}
        /\ Claims(b) = {Claim(m) : m \in Elems(b)}
        /\ Claims(a \o b) = {Claim(m) : m \in Elems(a \o b)}
    BY <1>1, ClaimsOf
  <1> QED
    BY <1>2, <1>3

\* The bodies of two lists.
LEMMA AllBackedConcat ==
    ASSUME NEW a \in Seq(Bodies), NEW b \in Seq(Bodies), NEW G,
           AllBacked(a, G), AllBacked(b, G)
    PROVE  AllBacked(a \o b, G)
  <1>1. \A s : AllBacked(s, G) <=> \A m \in Elems(s) : Backed(m, G)
    BY DEF AllBacked, Elems
  <1>2. Elems(a \o b) = Elems(a) \cup Elems(b)
    BY ConcatElems
  <1> QED
    BY <1>1, <1>2

\* What a history backs, a longer one backs.
LEMMA AllBackedGrows ==
    ASSUME NEW G, NEW G2, G \subseteq G2, NEW s, AllBacked(s, G)
    PROVE  AllBacked(s, G2)
  BY BackedGrows DEF AllBacked

\* Sending an outbox that keeps the account keeps the turn sound.
LEMMA SendSound ==
    ASSUME NEW turn \in Turns, NEW H \in ClaimSet, NEW epoch, Sound(turn, H, epoch), NEW o, IsOutbox(o),
           turn.failed = 0 => Keeps(turn.d, o, H \cup Claims(turn.posts)),
           NEW written
    PROVE  Sound(Send(turn, o, written), H, epoch)
  <1> DEFINE G == H \cup Claims(turn.posts)
             sent == Send(turn, o, written)
  <1>1. turn.failed \in Nat
    BY DEF Turns
  <1>2. CASE o.moved /\ ~written
    <2>1. sent.failed = turn.failed + 1
      BY <1>2 DEF Send, Turns
    <2> QED
      BY <1>1, <2>1 DEF Sound
  <1>3. CASE turn.failed # 0 /\ ~(o.moved /\ ~written)
    <2>1. sent.failed = turn.failed
      BY <1>3 DEF Send, Turns
    <2> QED
      BY <1>3, <2>1 DEF Sound
  <1>4. CASE turn.failed = 0 /\ ~(o.moved /\ ~written)
    <2>1. /\ sent.d = o.after
          /\ sent.posts = turn.posts \o o.bodies
          /\ sent.row = IF o.moved THEN Recorded(turn.row, o.after) ELSE turn.row
      BY <1>4 DEF Send, Turns
    <2>2. turn.posts \in Seq(Bodies) /\ o.bodies \in Seq(Bodies)
      BY DEF Turns, IsOutbox
    <2>3. Claims(sent.posts) = Claims(turn.posts) \cup Claims(o.bodies)
      BY <2>1, <2>2, ClaimsConcat
    <2> DEFINE G2 == G \cup Claims(o.bodies)
    <2>4. H \cup Claims(sent.posts) = G2
      BY <2>3
    <2>5. Keeps(turn.d, o, G)
      BY <1>4
    <2>6. /\ AllBacked(turn.posts, G)
          /\ \A g \in Claims(turn.posts) : g \in H \/ g[1] = epoch
          /\ turn.d.epoch = epoch /\ turn.row.epoch = epoch
          /\ turn.row.sequence = turn.d.sequence
      BY <1>4 DEF Sound
    <2>7. Unambiguous(G2) /\ Accounts(sent.d, G2)
      BY <2>1, <2>5 DEF Keeps
    <2>8. AllBacked(sent.posts, G2)
      <3>1. AllBacked(o.bodies, G2)
        BY <2>5 DEF Keeps
      <3>2. AllBacked(turn.posts, G2)
        BY <2>6, AllBackedGrows
      <3> QED
        BY <2>1, <2>2, <3>1, <3>2, AllBackedConcat
    <2>9. sent.d.epoch = epoch
      BY <2>1, <2>5, <2>6 DEF Keeps
    <2>10. \A g \in Claims(sent.posts) : g \in H \/ g[1] = epoch
      BY <2>3, <2>5, <2>6 DEF Keeps
    <2>11. sent.row.epoch = epoch
      BY <2>1, <2>6 DEF Recorded, Turns, Rows
    <2>12. sent.row.sequence = sent.d.sequence
      <3>1. turn.row \in Rows /\ o.after \in Deliveries
        BY DEF Turns, IsOutbox
      <3>2. turn.row.sequence \in Nat /\ o.after.sequence \in Nat
        BY <3>1 DEF Rows, Deliveries
      <3>3. o.after.sequence >= turn.row.sequence
        BY <2>5, <2>6 DEF Keeps
      <3>4. CASE o.moved
        <4>1. Recorded(turn.row, o.after).sequence = Higher(turn.row.sequence, o.after.sequence)
          BY <3>1 DEF Recorded, Rows
        <4>2. Higher(turn.row.sequence, o.after.sequence) = o.after.sequence
          BY <3>2, <3>3 DEF Higher
        <4> QED
          BY <2>1, <3>4, <4>1, <4>2
      <3>5. CASE ~o.moved
        BY <2>1, <2>5, <2>6, <3>5 DEF Keeps
      <3> QED
        BY <3>4, <3>5
    <2> HIDE DEF G, sent
    <2> QED
      BY <2>4, <2>7, <2>8, <2>9, <2>10, <2>11, <2>12 DEF Sound, sent
  <1> QED
    BY <1>2, <1>3, <1>4

----------------------------------------------------------------------------
(* Each step of the delivery keeps its account of the claims               *)

\* An outbox that posts only what was claimed before, at the same version.
LEMMA RepeatKeeps ==
    ASSUME NEW dl \in Deliveries, NEW G \in ClaimSet, Unambiguous(G), Accounts(dl, G),
           NEW o, IsOutbox(o), AllBacked(o.bodies, G), AllBacked(o.after.unacked, G),
           o.after.epoch = dl.epoch, o.after.sequence = dl.sequence,
           o.after.sent = dl.sent
    PROVE  Keeps(dl, o, G)
  <1>1. Claims(o.bodies) \subseteq G
    <2>1. \A i \in 1..Len(o.bodies) : Claim(o.bodies[i]) \in G
      BY DEF AllBacked, Backed, Claim
    <2> QED
      BY <2>1, ClaimsOf DEF IsOutbox
  <1>2. G \cup Claims(o.bodies) = G
    BY <1>1
  <1>3. Accounts(o.after, G)
    BY DEF Accounts
  <1>4. dl.sequence >= dl.sequence
    BY DEF Deliveries
  <1> QED
    BY <1>1, <1>2, <1>3, <1>4 DEF Keeps

\* What is kept of the unacknowledged deltas is still backed.
LEMMA RetainBacked ==
    ASSUME NEW dl \in Deliveries, NEW G, Accounts(dl, G), NEW acked
    PROVE  AllBacked(Retain(dl.unacked, acked), G)
  <1>1. dl.unacked \in Seq(Messages)
    BY DEF Deliveries
  <1>2. \A i \in 1..Len(Retain(dl.unacked, acked)) :
           \E j \in 1..Len(dl.unacked) : Retain(dl.unacked, acked)[i] = dl.unacked[j]
    BY <1>1, RetainType, SMTT(30)
  <1> QED
    BY <1>2 DEF Accounts, AllBacked

\* A hello only repeats earlier claims and keeps the account of the history.
LEMMA AttachKeeps ==
    ASSUME NEW dl \in Deliveries, NEW hello, hello.acked \in Nat,
           NEW G \in ClaimSet, Unambiguous(G), Accounts(dl, G)
    PROVE  Keeps(dl, AttachOutbox(dl, hello), G)
  <1> DEFINE o == AttachOutbox(dl, hello)
             rest == Retain(dl.unacked, hello.acked)
  <1>1. IsOutbox(o)
    BY AttachOutboxType
  <1>2. AllBacked(rest, G) /\ AllBacked(dl.unacked, G) /\ AllBacked(<<>>, G)
    <2>1. AllBacked(<<>>, G)
      BY DEF AllBacked
    <2> QED
      BY <2>1, RetainBacked DEF Accounts
  <1>3. /\ o.after.epoch = dl.epoch
        /\ o.after.sequence = dl.sequence
        /\ o.after.sent = dl.sent
        /\ o.bodies = rest \/ o.bodies = <<>>
        /\ o.after.unacked = rest \/ o.after.unacked = dl.unacked
    BY DEF AttachOutbox, Outbox, Deliveries
  <1> HIDE DEF o, rest
  <1>4. AllBacked(o.bodies, G) /\ AllBacked(o.after.unacked, G)
    BY <1>2, <1>3
  <1>5. Keeps(dl, o, G)
    BY <1>1, <1>3, <1>4, RepeatKeeps
  <1> QED
    BY <1>5 DEF o

\* An acknowledgement makes no claim and keeps the account of the history.
LEMMA AckKeeps ==
    ASSUME NEW dl \in Deliveries, NEW ack, ack.through \in Nat,
           ack.need \in BOOLEAN, NEW G \in ClaimSet, Unambiguous(G), Accounts(dl, G)
    PROVE  Keeps(dl, AckOutbox(dl, ack), G)
  <1> DEFINE o == AckOutbox(dl, ack)
             rest == Retain(dl.unacked, ack.through)
  <1>1. IsOutbox(o)
    BY AckOutboxType
  <1>2. AllBacked(rest, G) /\ AllBacked(dl.unacked, G) /\ AllBacked(<<>>, G)
    <2>1. AllBacked(<<>>, G)
      BY DEF AllBacked
    <2> QED
      BY <2>1, RetainBacked DEF Accounts
  <1>3. /\ o.after.epoch = dl.epoch
        /\ o.after.sequence = dl.sequence
        /\ o.after.sent = dl.sent
        /\ o.bodies = <<>>
        /\ o.after.unacked = rest \/ o.after.unacked = dl.unacked
    BY DEF AckOutbox, Outbox, Deliveries
  <1> HIDE DEF o, rest
  <1>4. AllBacked(o.bodies, G) /\ AllBacked(o.after.unacked, G)
    BY <1>2, <1>3
  <1>5. Keeps(dl, o, G)
    BY <1>1, <1>3, <1>4, RepeatKeeps
  <1> QED
    BY <1>5 DEF o

\* New claims above everything claimed in the epoch leave the history
\* unambiguous.
LEMMA NewClaims ==
    ASSUME NEW dl \in Deliveries, NEW G \in ClaimSet, Unambiguous(G), Accounts(dl, G),
           NEW N \in ClaimSet, Unambiguous(N),
           \A g \in N : g[1] = dl.epoch /\ g[2] > dl.sequence
    PROVE  Unambiguous(G \cup N)
  <1>1. \A g \in G : g[2] \in Nat
    BY DEF ClaimSet
  <1>2. dl.sequence \in Nat /\ \A g \in N : g[2] \in Nat
    BY DEF Deliveries, ClaimSet
  <1>3. \A g \in G, h \in N : g[1] = h[1] => g[2] # h[2]
    BY <1>1, <1>2 DEF Accounts
  <1> QED
    BY <1>3 DEF Unambiguous

\* No chunk applied: the version is the old one.
LEMMA PartialNone ==
    ASSUME NEW old \in Versions, NEW new \in Versions
    PROVE  Partial(old, new, 0) = old
  <1>1. \A id : Chunk(id, Changed(old, new), new) \in Nat \ {0}
    BY ChunkType DEF Changed
  <1>2. \A id : ~(Chunk(id, Changed(old, new), new) <= 0)
    BY <1>1
  <1>3. Partial(old, new, 0) = [id \in Occurrences |-> old[id]]
    BY <1>2 DEF Partial
  <1> QED
    BY <1>3 DEF Versions

\* The k-th delta leads from the version of the first k - 1 chunks to that of
\* the first k: the split of one change into deltas is right at each of them.
LEMMA ChunkStep ==
    ASSUME NEW dl \in Deliveries, dl.sent \in Versions, NEW new \in Versions,
           NEW k \in Nat \ {0}
    PROVE  Applied(ChunkDelta(dl, new, k), Partial(dl.sent, new, k - 1))
              = Partial(dl.sent, new, k)
  <1> DEFINE old == dl.sent
             chunk(id) == Chunk(id, Changed(old, new), new)
             m == ChunkDelta(dl, new, k)
             occ == Partial(old, new, k - 1)
  <1>1. \A id : chunk(id) \in Nat
    BY ChunkType DEF Changed
  <1>2. \A id \in Occurrences :
           /\ m.put[id] = IF old[id] # new[id] /\ chunk(id) = k THEN new[id] ELSE Absent
           /\ id \in m.del <=> old[id] # new[id] /\ chunk(id) = k /\ new[id] = Absent
    BY DEF ChunkDelta, Delta, Only, ChunkIds, Changed
  <1>3. \A id \in Occurrences : occ[id] = IF chunk(id) <= k - 1 THEN new[id] ELSE old[id]
    BY DEF Partial
  <1>4. \A id \in Occurrences :
           Partial(old, new, k)[id] = IF chunk(id) <= k THEN new[id] ELSE old[id]
    BY DEF Partial
  <1> HIDE DEF chunk, m, occ
  <1>5. ASSUME NEW id \in Occurrences
        PROVE  (IF m.put[id] # Absent THEN m.put[id]
                ELSE IF id \in m.del THEN Absent ELSE occ[id])
                 = Partial(old, new, k)[id]
    <2>1. chunk(id) <= k <=> chunk(id) <= k - 1 \/ chunk(id) = k
      BY <1>1
    <2>2. chunk(id) = k => ~(chunk(id) <= k - 1)
      BY <1>1
    <2> QED
      BY <1>2, <1>3, <1>4, <2>1, <2>2
  <1>6. Applied(m, occ) = [id \in Occurrences |-> Partial(old, new, k)[id]]
    BY <1>5 DEF Applied
  <1>7. Partial(old, new, k) = [id \in Occurrences |-> Partial(old, new, k)[id]]
    BY DEF Partial
  <1> QED
    BY <1>6, <1>7 DEF m, occ

\* Deltas claim fresh positions, each with the content it stands for.
LEMMA DeltasKeeps ==
    ASSUME NEW dl \in Deliveries, dl.sent \in Versions, NEW new \in Versions,
           NEW G \in ClaimSet, Unambiguous(G), Accounts(dl, G)
    PROVE  Keeps(dl, DeltasOutbox(dl, new), G)
  <1> DEFINE n == Chunks(Changed(dl.sent, new))
             deltas == [k \in 1..n |-> ChunkDelta(dl, new, k)]
             version(k) == Partial(dl.sent, new, k)
             o == DeltasOutbox(dl, new)
             N == Claims(deltas)
             G2 == G \cup N
  <1>1. n \in Nat
    BY ChunksType DEF Changed
  <1>2. /\ deltas \in Seq(Messages) /\ deltas \in Seq(Bodies)
        /\ Len(deltas) = n
        /\ \A k \in 1..n : deltas[k] = ChunkDelta(dl, new, k)
    <2>1. deltas \in [1..n -> Messages]
      BY <1>1, ChunkDeltaType
    <2>2. deltas \in Seq(Messages) /\ Len(deltas) = n
      BY <1>1, <2>1, SeqDef, LenProperties
    <2>3. deltas \in Seq(Bodies)
      BY <2>2, SeqMonotonic DEF Bodies
    <2> QED
      BY <2>2, <2>3
  <1>3. /\ o.bodies = deltas
        /\ o.after.epoch = dl.epoch
        /\ o.after.sequence = dl.sequence + n
        /\ o.after.sent = version(n)
        /\ o.after.unacked = dl.unacked \o deltas
        /\ o.moved <=> n > 0
    BY DEF DeltasOutbox, Outbox, Deliveries
  <1>4. \A k \in 1..n : /\ deltas[k].type = "delta"
                        /\ deltas[k].epoch = dl.epoch
                        /\ deltas[k].sequence = dl.sequence + k
                        /\ deltas[k].version = version(k)
    BY <1>2 DEF ChunkDelta, Delta
  <1>5. dl.sequence \in Nat /\ dl.epoch \in Epochs
    BY DEF Deliveries
  <1> HIDE DEF n, deltas, o
  <1>6. N = {<<dl.epoch, dl.sequence + k, version(k)>> : k \in 1..n}
    <2>1. N = {Claim(deltas[k]) : k \in 1..n}
      BY <1>2, ClaimsOf
    <2>2. \A k \in 1..n : Claim(deltas[k]) = <<dl.epoch, dl.sequence + k, version(k)>>
      BY <1>4 DEF Claim
    <2> HIDE DEF version
    <2> QED
      BY <2>1, <2>2
  <1>7. \A k \in Nat : version(k) \in Versions
    BY PartialType
  <1>8. version(0) = dl.sent
    BY PartialNone
  <1>9. \A k \in 1..n : version(k) = Applied(deltas[k], version(k - 1))
    <2>1. \A k \in 1..n : k \in Nat \ {0}
      BY <1>1
    <2> QED
      BY <1>2, <2>1, ChunkStep
  <1> HIDE DEF version, N
  <1>10. N \in ClaimSet
    BY <1>1, <1>5, <1>6, <1>7 DEF ClaimSet
  <1>11. Unambiguous(N) /\ \A g \in N : g[1] = dl.epoch /\ g[2] > dl.sequence
    BY <1>1, <1>5, <1>6 DEF Unambiguous
  <1>12. Unambiguous(G2)
    BY <1>10, <1>11, NewClaims
  <1>13. \A k \in 0..n : <<dl.epoch, dl.sequence + k, version(k)>> \in G2
    <2>1. <<dl.epoch, dl.sequence + 0, version(0)>> \in G
      <3>1. dl.sent # NoVersion
        BY NoVersionAssumption
      <3>2. dl.sequence + 0 = dl.sequence
        BY <1>5
      <3> QED
        BY <1>8, <3>1, <3>2 DEF Accounts
    <2>2. \A k \in 0..n : k = 0 \/ k \in 1..n
      BY <1>1
    <2> QED
      BY <1>6, <2>1, <2>2
  <1>14. AllBacked(deltas, G2)
    <2> SUFFICES ASSUME NEW k \in 1..n PROVE Backed(deltas[k], G2)
      BY <1>2 DEF AllBacked
    <2>1. k \in 0..n /\ k - 1 \in 0..n /\ k - 1 \in Nat
      BY <1>1
    <2>2. deltas[k].sequence - 1 = dl.sequence + (k - 1)
      BY <1>1, <1>4, <1>5
    <2>3. <<deltas[k].epoch, deltas[k].sequence, deltas[k].version>> \in G2
      BY <1>4, <1>13, <2>1
    <2>4. <<deltas[k].epoch, deltas[k].sequence - 1, version(k - 1)>> \in G2
      BY <1>4, <1>13, <2>1, <2>2
    <2>5. version(k - 1) \in Versions /\ deltas[k].version = Applied(deltas[k], version(k - 1))
      BY <1>4, <1>7, <1>9, <2>1
    <2> QED
      BY <1>4, <2>3, <2>4, <2>5 DEF Backed
  <1>15. AllBacked(dl.unacked \o deltas, G2)
    <2>1. dl.unacked \in Seq(Messages) /\ dl.unacked \in Seq(Bodies)
      BY SeqMonotonic DEF Deliveries, Bodies
    <2>2. AllBacked(dl.unacked, G2)
      BY AllBackedGrows DEF Accounts
    <2> QED
      BY <1>2, <1>14, <2>1, <2>2, AllBackedConcat
  <1>16. \A h \in G2 : h[1] = dl.epoch => h[2] <= dl.sequence + n
    <2>1. \A h \in G : h[1] = dl.epoch => h[2] <= dl.sequence + n
      <3>1. \A h \in G : h[2] \in Nat
        BY DEF ClaimSet
      <3> QED
        BY <1>1, <1>5, <3>1 DEF Accounts
    <2>2. \A h \in N : h[2] <= dl.sequence + n
      BY <1>1, <1>5, <1>6
    <2> QED
      BY <2>1, <2>2
  <1>17. Accounts(o.after, G2)
    <2>1. n \in 0..n
      BY <1>1
    <2>2. <<dl.epoch, dl.sequence + n, version(n)>> \in G2
      BY <1>13, <2>1
    <2> QED
      BY <1>3, <1>15, <1>16, <2>2 DEF Accounts
  <1>18. /\ o.after.sequence >= dl.sequence
         /\ ~o.moved => o.after.sequence = dl.sequence
    BY <1>1, <1>3, <1>5
  <1>19. \A g \in N : g[1] = dl.epoch
    BY <1>11
  <1>20. Keeps(dl, o, G)
    BY <1>3, <1>12, <1>14, <1>17, <1>18, <1>19 DEF Keeps, N
  <1> QED
    BY <1>20 DEF o

\* One new claim, at the next sequence.
LEMMA NextClaim ==
    ASSUME NEW dl \in Deliveries, NEW G \in ClaimSet, Unambiguous(G), Accounts(dl, G),
           NEW v \in Versions
    PROVE  LET G2 == G \cup {<<dl.epoch, NextSequence(dl), v>>}
           IN  /\ Unambiguous(G2)
               /\ \A h \in G2 : h[1] = dl.epoch => h[2] <= NextSequence(dl)
               /\ NextSequence(dl) \in Nat /\ NextSequence(dl) > dl.sequence
  <1> DEFINE c == <<dl.epoch, NextSequence(dl), v>>
  <1>1. dl.sequence \in Nat /\ dl.epoch \in Epochs
    BY DEF Deliveries
  <1>2. NextSequence(dl) \in Nat /\ NextSequence(dl) > dl.sequence
    BY <1>1 DEF NextSequence
  <1>3. {c} \in ClaimSet
    BY <1>1, <1>2 DEF ClaimSet
  <1>4. Unambiguous({c}) /\ \A g \in {c} : g[1] = dl.epoch /\ g[2] > dl.sequence
    BY <1>2 DEF Unambiguous
  <1>5. Unambiguous(G \cup {c})
    BY <1>3, <1>4, NewClaims
  <1>6. \A h \in G : h[1] = dl.epoch => h[2] <= NextSequence(dl)
    <2>1. \A h \in G : h[2] \in Nat
      BY DEF ClaimSet
    <2> QED
      BY <1>1, <1>2, <2>1 DEF Accounts
  <1>7. c[2] <= NextSequence(dl)
    BY <1>2
  <1> QED
    BY <1>2, <1>5, <1>6, <1>7

\* A snapshot claims fresh positions, each with the content it stands for.
LEMMA SnapshotKeeps ==
    ASSUME NEW dl \in Deliveries, NEW new \in Versions,
           NEW G \in ClaimSet, Unambiguous(G), Accounts(dl, G)
    PROVE  Keeps(dl, SnapshotOutbox(dl, new), G)
  <1> DEFINE o == SnapshotOutbox(dl, new)
             live == {id \in Occurrences : new[id] # Absent}
             n == IF live = {} THEN 1 ELSE Chunks(live)
             c == <<dl.epoch, NextSequence(dl), new>>
             G2 == G \cup {c}
             page(k) == [type |-> "snapshot", epoch |-> dl.epoch,
                         high |-> NextSequence(dl), index |-> k - 1, count |-> n,
                         digest |-> new, put |-> Only(ChunkIds(live, new, k), new)]
  <1>1. IsOutbox(o)
    BY SnapshotOutboxType
  <1>2. n \in Nat \ {0}
    <2>1. CASE live = {}
      BY <2>1
    <2>2. CASE live # {}
      <3>1. Cardinality(live) \in Nat /\ IsFiniteSet(live)
        BY OccurrencesAssumption, FS_Subset, FS_CardinalityType
      <3>2. Cardinality(live) >= 1
        BY <2>2, <3>1, FS_EmptySet
      <3>3. Chunks(live) \in Nat
        BY ChunksType
      <3>4. (Cardinality(live) + PageObjects - 1) \div PageObjects # 0
        BY <3>1, <3>2, PageAssumption, DivPositive
      <3> QED
        BY <2>2, <3>3, <3>4 DEF Chunks
    <2> QED
      BY <2>1, <2>2
  <1>3. /\ o.bodies = [k \in 1..n |-> page(k)]
        /\ o.after.epoch = dl.epoch /\ o.after.sequence = NextSequence(dl)
        /\ o.after.sent = new /\ o.after.unacked = <<>> /\ o.moved
    BY DEF SnapshotOutbox, Outbox, Deliveries
  <1>12. \A k : /\ page(k).type = "snapshot" /\ page(k).epoch = dl.epoch
                /\ page(k).high = NextSequence(dl) /\ page(k).digest = new
    OBVIOUS
  <1> HIDE DEF o, n, page
  <1>4. /\ o.bodies \in Seq(Bodies) /\ Len(o.bodies) = n
        /\ \A k \in 1..n : o.bodies[k] = page(k)
    <2>1. o.bodies \in Seq(Bodies) /\ DOMAIN o.bodies = 1..n
      BY <1>1, <1>3 DEF IsOutbox
    <2>2. Len(o.bodies) = n
      BY <1>2, <2>1, LenProperties
    <2> QED
      BY <1>3, <2>1, <2>2
  <1>5. \A k \in 1..n : Claim(o.bodies[k]) = c /\ o.bodies[k].type # "delta"
    BY <1>4, <1>12 DEF Claim
  <1>6. Claims(o.bodies) = {c}
    <2>1. Claims(o.bodies) = {Claim(o.bodies[k]) : k \in 1..n}
      BY <1>4, ClaimsOf
    <2>2. 1 \in 1..n
      BY <1>2
    <2> HIDE DEF c
    <2> QED
      BY <1>5, <2>1, <2>2
  <1>7. /\ Unambiguous(G2)
        /\ \A h \in G2 : h[1] = dl.epoch => h[2] <= NextSequence(dl)
        /\ NextSequence(dl) \in Nat /\ NextSequence(dl) > dl.sequence
    BY NextClaim
  <1>8. AllBacked(o.bodies, G2) /\ AllBacked(<<>>, G2)
    <2>1. AllBacked(<<>>, G2)
      BY DEF AllBacked
    <2>2. AllBacked(o.bodies, G2)
      BY <1>4, <1>5 DEF AllBacked, Backed, Claim
    <2> QED
      BY <2>1, <2>2
  <1>9. Accounts(o.after, G2)
    BY <1>3, <1>7, <1>8 DEF Accounts
  <1>10. NextSequence(dl) >= dl.sequence
    BY <1>7 DEF Deliveries
  <1>11. Keeps(dl, o, G)
    <2>1. G \cup Claims(o.bodies) = G2
      BY <1>6
    <2>2. \A g \in Claims(o.bodies) : g \in G \/ g[1] = dl.epoch
      BY <1>6
    <2> HIDE DEF G2, c
    <2> QED
      BY <1>3, <1>7, <1>8, <1>9, <1>10, <2>1, <2>2 DEF Keeps
  <1> QED
    BY <1>11 DEF o

\* A retraction claims a fresh position with the content it stands for.
LEMMA RetractKeeps ==
    ASSUME NEW dl \in Deliveries, NEW child \in Occurrences,
           NEW G \in ClaimSet, Unambiguous(G), Accounts(dl, G)
    PROVE  Keeps(dl, RetractOutbox(dl, child), G)
  <1> DEFINE o == RetractOutbox(dl, child)
  <1>1. IsOutbox(o)
    BY RetractOutboxType
  <1>2. CASE dl.owed \/ dl.sent = NoVersion
    <2>1. o.after = dl /\ o.bodies = <<>>
      BY <1>2 DEF RetractOutbox, Outbox
    <2>2. AllBacked(<<>>, G) /\ AllBacked(dl.unacked, G)
      BY DEF AllBacked, Accounts
    <2> QED
      BY <1>1, <2>1, <2>2, RepeatKeeps
  <1>3. CASE ~(dl.owed \/ dl.sent = NoVersion)
    <2> DEFINE version == [dl.sent EXCEPT ![child] = Absent]
               delta == Delta(dl.epoch, NextSequence(dl), Empty, {child}, version)
               c == <<dl.epoch, NextSequence(dl), version>>
               G2 == G \cup {c}
    <2>1. dl.sent \in Versions /\ version \in Versions
      BY <1>3 DEF Versions, Objects, Deliveries
    <2>2. /\ o.bodies = <<delta>> /\ o.moved
          /\ o.after.epoch = dl.epoch /\ o.after.sequence = NextSequence(dl)
          /\ o.after.sent = version /\ o.after.unacked = Append(dl.unacked, delta)
      BY <1>3 DEF RetractOutbox, Outbox, Deliveries
    <2>3. /\ delta.type = "delta" /\ delta.epoch = dl.epoch
          /\ delta.sequence = NextSequence(dl) /\ delta.version = version
          /\ delta.put = Empty /\ delta.del = {child}
      BY DEF Delta
    <2>4. version = Applied(delta, dl.sent)
      <3> HIDE DEF delta
      <3>1. \A id \in Occurrences : delta.put[id] = Absent
        BY <2>3 DEF Empty
      <3>2. Applied(delta, dl.sent) =
               [id \in Occurrences |-> IF id = child THEN Absent ELSE dl.sent[id]]
        BY <2>3, <3>1 DEF Applied
      <3> QED
        BY <2>1, <3>2 DEF Versions
    <2>5. /\ Unambiguous(G2)
          /\ \A h \in G2 : h[1] = dl.epoch => h[2] <= NextSequence(dl)
          /\ NextSequence(dl) \in Nat /\ NextSequence(dl) > dl.sequence
      BY <2>1, NextClaim
    <2>6. dl.sequence \in Nat /\ NextSequence(dl) - 1 = dl.sequence
      BY DEF NextSequence, Deliveries
    <2>7. delta \in Messages
      BY <2>1, <2>5, EmptyType DEF Delta, Messages, Deliveries
    <2> HIDE DEF o, delta, version
    <2>8. Backed(delta, G2)
      <3>1. <<dl.epoch, dl.sequence, dl.sent>> \in G
        BY <1>3 DEF Accounts
      <3> QED
        BY <2>1, <2>3, <2>4, <2>6, <3>1 DEF Backed
    <2>9. <<delta>> \in Seq(Bodies) /\ Claims(<<delta>>) = {c}
      <3>1. <<delta>> \in Seq(Bodies) /\ Len(<<delta>>) = 1 /\ <<delta>>[1] = delta
        BY <2>7 DEF Bodies
      <3>2. Claim(delta) = c
        BY <2>3 DEF Claim
      <3> HIDE DEF c
      <3>3. Claims(<<delta>>) = {Claim(<<delta>>[i]) : i \in 1..Len(<<delta>>)}
        BY <3>1, ClaimsOf
      <3> QED
        BY <3>1, <3>2, <3>3
    <2>10. AllBacked(<<delta>>, G2)
      BY <2>8 DEF AllBacked
    <2>11. AllBacked(Append(dl.unacked, delta), G2)
      <3>1. dl.unacked \in Seq(Messages)
        BY DEF Deliveries
      <3>2. /\ Len(Append(dl.unacked, delta)) = Len(dl.unacked) + 1
            /\ \A i \in 1..Len(dl.unacked) : Append(dl.unacked, delta)[i] = dl.unacked[i]
            /\ Append(dl.unacked, delta)[Len(dl.unacked) + 1] = delta
            /\ Len(dl.unacked) \in Nat
        BY <2>7, <3>1, AppendProperties, LenProperties
      <3>3. AllBacked(dl.unacked, G2)
        BY AllBackedGrows DEF Accounts
      <3> DEFINE u == Append(dl.unacked, delta)
                 l == Len(dl.unacked)
      <3> HIDE DEF u, l
      <3>4. \A i \in 1..l + 1 : i \in 1..l \/ i = l + 1
        BY <3>2 DEF l
      <3>5. \A i \in 1..l + 1 : Backed(u[i], G2)
        BY <2>8, <3>2, <3>3, <3>4 DEF AllBacked, u, l
      <3> QED
        BY <3>2, <3>5 DEF AllBacked, u, l
    <2>12. Accounts(o.after, G2)
      BY <2>2, <2>5, <2>11 DEF Accounts
    <2>13. NextSequence(dl) >= dl.sequence
      BY <2>5, <2>6
    <2>14. G \cup Claims(o.bodies) = G2
      BY <2>2, <2>9
    <2>15. \A g \in Claims(o.bodies) : g \in G \/ g[1] = dl.epoch
      BY <2>2, <2>9
    <2>16. AllBacked(o.bodies, G2)
      BY <2>2, <2>10
    <2> HIDE DEF G2, c
    <2>17. Keeps(dl, o, G)
      BY <2>2, <2>5, <2>12, <2>13, <2>14, <2>15, <2>16 DEF Keeps
    <2> QED
      BY <2>17 DEF o
  <1> QED
    BY <1>2, <1>3

\* A refresh claims fresh positions, each with the content it stands for.
LEMMA RefreshKeeps ==
    ASSUME NEW dl \in Deliveries, NEW new \in Versions,
           NEW G \in ClaimSet, Unambiguous(G), Accounts(dl, G)
    PROVE  Keeps(dl, RefreshOutbox(dl, new), G)
  <1>1. dl.sent = NoVersion \/ dl.sent \in Versions
    BY DEF Deliveries
  <1> QED
    BY <1>1, DeltasKeeps, SnapshotKeeps DEF RefreshOutbox

\* Refreshing keeps the turn sound.
LEMMA RefreshSound ==
    ASSUME NEW turn \in Turns, NEW H \in ClaimSet, NEW epoch, Sound(turn, H, epoch),
           NEW new \in Versions \cup {NoVersion}, NEW written
    PROVE  Sound(Refresh(turn, new, written), H, epoch)
  <1>1. CASE new = NoVersion
    BY <1>1 DEF Refresh
  <1>2. CASE new # NoVersion
    <2>1. turn.d \in Deliveries /\ turn.posts \in Seq(Bodies) /\ new \in Versions
      BY <1>2 DEF Turns
    <2>2. H \cup Claims(turn.posts) \in ClaimSet
      BY <2>1, ClaimsType DEF ClaimSet
    <2>3. IsOutbox(RefreshOutbox(turn.d, new))
      BY <2>1, RefreshOutboxType
    <2>4. turn.failed = 0 => Keeps(turn.d, RefreshOutbox(turn.d, new), H \cup Claims(turn.posts))
      BY <2>1, <2>2, RefreshKeeps DEF Sound
    <2> QED
      BY <1>2, <2>3, <2>4, SendSound DEF Refresh
  <1> QED
    BY <1>1, <1>2

----------------------------------------------------------------------------
(* The inductive invariant.  It holds until the first failed write of a    *)
(* position (or read of the row): from then on a number may be reused.     *)

\* The row carries the newest epoch and is not behind any claim of it; the
\* service's memory agrees with the claims; whatever is on its way to the
\* device is backed; and the properties that follow.
Safe ==
    /\ row.epoch # 0 => row.epoch = FreshEpoch
    /\ \A h \in hist : /\ h[1] <= FreshEpoch
                       /\ h[1] = FreshEpoch => /\ row.epoch = FreshEpoch
                                               /\ h[2] <= row.sequence
    /\ bound => /\ row.epoch # 0
                /\ d.epoch = row.epoch /\ d.sequence = row.sequence
                /\ Accounts(d, hist)
    /\ AllBacked(down, hist)
    /\ Unambiguous(hist)
    /\ CacheIsPublished

\* No write of a position, and no read of the row, has failed.
AllRecorded == left["db"] = Budget["db"]

SafeInv == TypeInv /\ (AllRecorded => Safe)

\* What a service action hands to Finish.
IsTurn(turn, budget) ==
    /\ turn \in Turns
    /\ budget \in [Events -> Nat]
    /\ \A e \in Events : budget[e] <= left[e]
    /\ budget["forget"] = left["forget"]
    /\ Safe => Sound(turn, hist, FreshEpoch)

\* A bound speaker's turn starts sound.
LEMMA TurnStarts ==
    ASSUME TypeInv, bound
    PROVE  /\ Turn(row, d) \in Turns /\ d \in Deliveries /\ hist \in ClaimSet
           /\ Safe => /\ Sound(Turn(row, d), hist, FreshEpoch)
                      /\ Unambiguous(hist) /\ Accounts(d, hist)
  <1>1. Turn(row, d) \in Turns /\ d \in Deliveries /\ hist \in ClaimSet
    BY FreshTurnType DEF TypeInv, TypeOK, ClaimSet
  <1>2. ASSUME Safe
        PROVE  Sound(Turn(row, d), hist, FreshEpoch) /\ Unambiguous(hist) /\ Accounts(d, hist)
    <2>1. /\ Turn(row, d).posts = <<>> /\ Turn(row, d).d = d /\ Turn(row, d).row = row
          /\ Claims(<<>>) = {} /\ AllBacked(<<>>, hist)
      BY DEF Turn, Claims, AllBacked
    <2>2. hist \cup Claims(<<>>) = hist
      BY <2>1
    <2> QED
      BY <1>2, <2>1, <2>2 DEF Safe, Sound
  <1> QED
    BY <1>1, <1>2

\* A turn that sends one outbox and then refreshes.
LEMMA TwoSends ==
    ASSUME TypeInv, NEW turn \in Turns, NEW o, IsOutbox(o),
           Safe => Sound(turn, hist, FreshEpoch) /\ Keeps(turn.d, o, hist),
           turn.posts = <<>>, NEW first, NEW second
    PROVE  LET sent == Send(turn, o, first)
           IN  /\ sent \in Turns /\ Refresh(sent, desired, second) \in Turns
               /\ Safe => /\ Sound(sent, hist, FreshEpoch)
                          /\ Sound(Refresh(sent, desired, second), hist, FreshEpoch)
  <1> DEFINE sent == Send(turn, o, first)
  <1>1. sent \in Turns /\ desired \in Versions \cup {NoVersion} /\ hist \in ClaimSet
    BY SendType DEF TypeInv, TypeOK, ClaimSet
  <1>2. Refresh(sent, desired, second) \in Turns
    BY <1>1, RefreshType
  <1>3. ASSUME Safe
        PROVE  Sound(sent, hist, FreshEpoch)
    <2>1. Claims(<<>>) = {}
      BY DEF Claims
    <2>2. hist \cup Claims(turn.posts) = hist
      BY <2>1
    <2> QED
      BY <1>1, <1>3, <2>2, SendSound
  <1>4. ASSUME Safe
        PROVE  Sound(Refresh(sent, desired, second), hist, FreshEpoch)
    BY <1>1, <1>3, <1>4, RefreshSound
  <1> QED
    BY <1>1, <1>2, <1>3, <1>4

\* The part of a service action that a turn does not explain.
Idle == UNCHANGED <<row, bound, d, hist, down, left>>
Works ==
    /\ bound'
    /\ \E turn, session, budget : IsTurn(turn, budget) /\ Finish(turn, session, budget)

\* Binding is a turn of the delivery.
LEMMA BindTurn ==
    ASSUME TypeInv, Bind
    PROVE  Works
  <1> DEFINE dl == NewDelivery(BoundRow)
             turn == Turn(BoundRow, dl)
             o == AttachOutbox(dl, att)
  <1>1. BoundRow \in Rows /\ dl \in Deliveries /\ turn \in Turns /\ hist \in ClaimSet
    BY BoundRowType, NewDeliveryType, FreshTurnType DEF TypeInv, TypeOK, ClaimSet
  <1>2. /\ turn.posts = <<>> /\ turn.d = dl /\ turn.row = BoundRow
        /\ Claims(<<>>) = {} /\ AllBacked(<<>>, hist)
        /\ dl.epoch = BoundRow.epoch /\ dl.sequence = BoundRow.sequence
        /\ dl.sent = NoVersion /\ dl.unacked = <<>>
    BY DEF Turn, NewDelivery, Claims, AllBacked
  <1>3. ASSUME Safe
        PROVE  Sound(turn, hist, FreshEpoch) /\ Unambiguous(hist) /\ Accounts(dl, hist)
    <2>1. BoundRow.epoch = FreshEpoch
      BY <1>3 DEF Safe, BoundRow, NoRow
    <2>2. FreshEpoch # 0
      BY FreshEpochType
    <2>3. \A h \in hist : h[1] = FreshEpoch => h[2] <= BoundRow.sequence
      <3>1. row.epoch # 0 => BoundRow = row
        BY DEF BoundRow
      <3>2. \A h \in hist : h[1] = FreshEpoch => /\ row.epoch = FreshEpoch
                                                 /\ h[2] <= row.sequence
        BY <1>3 DEF Safe
      <3> QED
        BY <2>2, <3>1, <3>2
    <2>4. Accounts(dl, hist)
      BY <1>2, <2>1, <2>3 DEF Accounts
    <2>5. hist \cup Claims(<<>>) = hist
      BY <1>2
    <2> HIDE DEF turn, dl
    <2> QED
      BY <1>2, <1>3, <2>1, <2>4, <2>5 DEF Safe, Sound
  <1>4. left \in [Events -> Nat] /\ \A e \in Events : left[e] <= left[e]
    BY DEF TypeInv, TypeOK
  <1>5. CASE att.session = 0
    <2>1. Finish(turn, 0, left)
      BY <1>5 DEF Bind, BoundRow
    <2>2. IsTurn(turn, left)
      BY <1>1, <1>3, <1>4 DEF IsTurn
    <2> QED
      BY <2>1, <2>2 DEF Works, Bind
  <1>6. CASE att.session # 0
    <2>1. PICK written \in BOOLEAN :
             Finish(Refresh(Send(turn, o, TRUE), desired, written), att.session, left)
      BY <1>6 DEF Bind, BoundRow
    <2>2. att.acked \in Nat
      BY DEF TypeInv, TypeOK, Sessions
    <2>3. IsOutbox(o)
      BY <1>1, <2>2, AttachOutboxType
    <2>4. Safe => Keeps(dl, o, hist)
      BY <1>1, <1>3, <2>2, AttachKeeps
    <2> HIDE DEF turn, dl, o
    <2>5. /\ Refresh(Send(turn, o, TRUE), desired, written) \in Turns
          /\ Safe => Sound(Refresh(Send(turn, o, TRUE), desired, written), hist, FreshEpoch)
      BY <1>1, <1>2, <1>3, <2>3, <2>4, TwoSends
    <2>6. IsTurn(Refresh(Send(turn, o, TRUE), desired, written), left)
      BY <1>4, <2>5 DEF IsTurn
    <2> QED
      BY <2>1, <2>6 DEF Works, Bind
  <1> QED
    BY <1>5, <1>6

\* A hello is ignored or handled in one turn.
LEMMA AttachTurn ==
    ASSUME TypeInv, Attach
    PROVE  Idle \/ Works
  <1>1. CASE ~bound
    BY <1>1 DEF Attach, Idle
  <1>2. CASE bound
    <2> DEFINE o == AttachOutbox(d, att')
               turn == Turn(row, d)
    <2>1. PICK first, second \in BOOLEAN :
             Finish(Refresh(Send(turn, o, first), desired, second), att'.session, left)
      BY <1>2 DEF Attach
    <2>2. att'.acked \in Nat
      BY EventType, EventUpTypes DEF Attach
    <2>3. /\ turn \in Turns /\ d \in Deliveries /\ hist \in ClaimSet
          /\ turn.posts = <<>> /\ turn.d = d
          /\ Safe => /\ Sound(turn, hist, FreshEpoch)
                     /\ Unambiguous(hist) /\ Accounts(d, hist)
      BY <1>2, TurnStarts DEF Turn
    <2>4. IsOutbox(o)
      BY <2>2, <2>3, AttachOutboxType
    <2>5. Safe => Keeps(d, o, hist)
      BY <2>2, <2>3, AttachKeeps
    <2> HIDE DEF turn, o
    <2>6. /\ Refresh(Send(turn, o, first), desired, second) \in Turns
          /\ Safe => Sound(Refresh(Send(turn, o, first), desired, second), hist, FreshEpoch)
      BY <2>3, <2>4, <2>5, TwoSends
    <2>7. IsTurn(Refresh(Send(turn, o, first), desired, second), left)
      BY <2>6 DEF IsTurn, TypeInv, TypeOK
    <2> QED
      BY <1>2, <2>1, <2>7 DEF Works, Attach
  <1> QED
    BY <1>1, <1>2

\* An acknowledgement is ignored or handled in one turn.
LEMMA AckTurn ==
    ASSUME TypeInv, Ack
    PROVE  Idle \/ Works
  <1>1. CASE ~(bound /\ att.session = Head(up).session)
    BY <1>1 DEF Ack, Idle
  <1>2. CASE bound /\ att.session = Head(up).session
    <2> DEFINE o == AckOutbox(d, Head(up))
               turn == Turn(row, d)
               end(first, second) == IF Send(turn, o, first).d.owed
                                     THEN Refresh(Send(turn, o, first), desired, second)
                                     ELSE Send(turn, o, first)
    <2>1. PICK first, second \in BOOLEAN : Finish(end(first, second), att.session, left)
      BY <1>2 DEF Ack
    <2>2. Head(up).through \in Nat /\ Head(up).need \in BOOLEAN
      BY EventType, EventUpTypes DEF Ack
    <2>3. /\ turn \in Turns /\ d \in Deliveries /\ hist \in ClaimSet
          /\ turn.posts = <<>> /\ turn.d = d
          /\ Safe => /\ Sound(turn, hist, FreshEpoch)
                     /\ Unambiguous(hist) /\ Accounts(d, hist)
      BY <1>2, TurnStarts DEF Turn
    <2>4. IsOutbox(o)
      BY <2>2, <2>3, AckOutboxType
    <2>5. Safe => Keeps(d, o, hist)
      BY <2>2, <2>3, AckKeeps
    <2> HIDE DEF turn, o
    <2>6. /\ Send(turn, o, first) \in Turns
          /\ Refresh(Send(turn, o, first), desired, second) \in Turns
          /\ Safe => /\ Sound(Send(turn, o, first), hist, FreshEpoch)
                     /\ Sound(Refresh(Send(turn, o, first), desired, second), hist, FreshEpoch)
      BY <2>3, <2>4, <2>5, TwoSends
    <2>7. end(first, second) \in Turns /\ (Safe => Sound(end(first, second), hist, FreshEpoch))
      BY <2>6
    <2> HIDE DEF end
    <2>8. IsTurn(end(first, second), left)
      BY <2>7 DEF IsTurn, TypeInv, TypeOK
    <2> QED
      BY <1>2, <2>1, <2>8 DEF Works, Ack
  <1> QED
    BY <1>1, <1>2

\* A calendar version is ignored or handled in one turn.
LEMMA PushTurn ==
    ASSUME TypeInv, Push
    PROVE  Idle \/ Works
  <1>1. CASE ~(bound /\ att.session # 0)
    BY <1>1 DEF Push, Idle
  <1>2. CASE bound /\ att.session # 0
    <2> DEFINE end(written) == Refresh(Turn(row, d), calendar, written)
    <2>1. PICK written \in BOOLEAN : Finish(end(written), att.session, left)
      BY <1>2 DEF Push
    <2>2. /\ Turn(row, d) \in Turns /\ hist \in ClaimSet
          /\ Safe => Sound(Turn(row, d), hist, FreshEpoch)
      BY <1>2, TurnStarts
    <2>3. calendar \in Versions \cup {NoVersion}
      BY DEF TypeInv, TypeOK
    <2>4. end(written) \in Turns /\ (Safe => Sound(end(written), hist, FreshEpoch))
      BY <2>2, <2>3, RefreshType, RefreshSound
    <2> HIDE DEF end
    <2>5. IsTurn(end(written), left)
      BY <2>4 DEF IsTurn, TypeInv, TypeOK
    <2> QED
      BY <1>2, <2>1, <2>5 DEF Works, Push
  <1> QED
    BY <1>1, <1>2

\* A retraction is handled in one turn.
LEMMA RetractTurn ==
    ASSUME TypeInv, NEW child \in Occurrences, Retract(child)
    PROVE  Works
  <1> DEFINE o == RetractOutbox(d, child)
             turn == Turn(row, d)
             budget == Spent(left, "retract", 1)
  <1>1. PICK first, second \in BOOLEAN :
           Finish(Refresh(Send(turn, o, first), desired, second), att.session, budget)
    BY DEF Retract
  <1>2. /\ turn \in Turns /\ d \in Deliveries /\ hist \in ClaimSet
        /\ turn.posts = <<>> /\ turn.d = d
        /\ Safe => /\ Sound(turn, hist, FreshEpoch)
                   /\ Unambiguous(hist) /\ Accounts(d, hist)
    BY TurnStarts DEF Turn, Retract
  <1>3. IsOutbox(o) /\ (Safe => Keeps(d, o, hist))
    BY <1>2, RetractOutboxType, RetractKeeps
  <1>4. /\ budget \in [Events -> Nat]
        /\ \A e \in Events : budget[e] <= left[e]
        /\ budget["forget"] = left["forget"]
    <2>1. "retract" \in Faults /\ "forget" \in Faults \ {"retract"} /\ left \in [Events -> Nat]
      BY DEF Faults, TypeInv, TypeOK
    <2> QED
      BY <2>1, SpentType DEF Retract
  <1> HIDE DEF turn, o, budget
  <1>5. /\ Refresh(Send(turn, o, first), desired, second) \in Turns
        /\ Safe => Sound(Refresh(Send(turn, o, first), desired, second), hist, FreshEpoch)
    BY <1>2, <1>3, TwoSends
  <1>6. IsTurn(Refresh(Send(turn, o, first), desired, second), budget)
    BY <1>4, <1>5 DEF IsTurn
  <1> QED
    BY <1>1, <1>6 DEF Works, Retract

\* A turn's effects keep the invariant while nothing fails to be recorded.
LEMMA WorksSafe ==
    ASSUME SafeInv, Works, UNCHANGED dev
    PROVE  AllRecorded' => AllRecorded /\ Safe'
  <1> SUFFICES ASSUME AllRecorded' PROVE AllRecorded /\ Safe'
    OBVIOUS
  <1>1. PICK turn, session, budget : IsTurn(turn, budget) /\ Finish(turn, session, budget)
    BY DEF Works
  <1>2. "db" \in Faults /\ "db" \in Events /\ "forget" \in Faults \ {"db"}
    BY DEF Faults, Events
  <1>3. turn.failed \in Nat /\ budget \in [Events -> Nat] /\ turn \in Turns
    BY <1>1 DEF IsTurn, Turns
  <1>4. left' = Spent(budget, "db", turn.failed) /\ (turn.failed > 0 => Allows(budget, "db", turn.failed))
    BY <1>1 DEF Finish
  <1>5. left'["db"] = budget["db"] - turn.failed /\ left'["forget"] = budget["forget"]
    BY <1>2, <1>3, <1>4, SpentType
  <1>6. budget["db"] <= left["db"] /\ left["db"] <= Budget["db"] /\ left'["db"] = Budget["db"]
    BY <1>1, <1>2 DEF IsTurn, SafeInv, TypeInv, AllRecorded
  <1>7. left["db"] \in Nat /\ Budget["db"] \in Nat /\ budget["db"] \in Nat
    BY <1>2, <1>3, BudgetAssumption DEF SafeInv, TypeInv, TypeOK
  <1>8. turn.failed = 0 /\ AllRecorded
    BY <1>3, <1>5, <1>6, <1>7 DEF AllRecorded
  <1>9. Safe /\ FreshEpoch' = FreshEpoch
    <2>1. left'["forget"] = left["forget"]
      BY <1>1, <1>5 DEF IsTurn
    <2> QED
      BY <1>8, <2>1 DEF SafeInv, FreshEpoch
  <1>10. /\ hist' = hist \cup Claims(turn.posts)
         /\ row' = turn.row /\ d' = turn.d
         /\ down' = down \/ down' = down \o turn.posts
    BY <1>1 DEF Finish
  <1>11. /\ Unambiguous(hist')
         /\ Accounts(d', hist')
         /\ AllBacked(turn.posts, hist')
         /\ \A g \in Claims(turn.posts) : g \in hist \/ g[1] = FreshEpoch
         /\ d'.epoch = FreshEpoch /\ row'.epoch = FreshEpoch
         /\ row'.sequence = d'.sequence
    BY <1>1, <1>8, <1>9, <1>10 DEF IsTurn, Sound
  <1>12. \A h \in hist' : /\ h[1] <= FreshEpoch
                          /\ h[1] = FreshEpoch => h[2] <= row'.sequence
    <2>1. FreshEpoch \in Nat
      BY FreshEpochType DEF SafeInv
    <2>2. \A h \in hist' : h[1] <= FreshEpoch
      BY <1>9, <1>10, <1>11, <2>1 DEF Safe
    <2> QED
      BY <1>11, <2>2 DEF Accounts
  <1>13. FreshEpoch # 0
    BY FreshEpochType DEF SafeInv
  <1>14. AllBacked(down', hist')
    <2>1. AllBacked(down, hist')
      BY <1>9, <1>10, AllBackedGrows DEF Safe
    <2>2. down \in Seq(Bodies) /\ turn.posts \in Seq(Bodies)
      BY <1>3 DEF SafeInv, TypeInv, TypeOK, Bodies, Turns
    <2> QED
      BY <1>10, <1>11, <2>1, <2>2, AllBackedConcat
  <1>15. CacheIsPublished'
    BY <1>9, <1>10 DEF Safe, CacheIsPublished
  <1> QED
    BY <1>8, <1>9, <1>11, <1>12, <1>13, <1>14, <1>15 DEF Safe

\* A step that leaves the service's state and the history alone.
LEMMA QuietSafe ==
    ASSUME SafeInv, UNCHANGED <<row, bound, d, hist>>, left' \in [Events -> Nat],
           left'["db"] <= left["db"], left'["forget"] = left["forget"],
           Safe => AllBacked(down', hist) /\ CacheIsPublished'
    PROVE  AllRecorded' => AllRecorded /\ Safe'
  <1> SUFFICES ASSUME AllRecorded' PROVE AllRecorded /\ Safe'
    OBVIOUS
  <1>1. "db" \in Events
    BY DEF Events, Faults
  <1>2. AllRecorded
    BY <1>1, BudgetAssumption DEF AllRecorded, SafeInv, TypeInv, TypeOK
  <1>3. Safe /\ FreshEpoch' = FreshEpoch
    BY <1>2 DEF SafeInv, FreshEpoch
  <1> QED
    BY <1>2, <1>3 DEF Safe

\* The message a device reads is backed, and so is what is left.
LEMMA ReadBacked ==
    ASSUME TypeInv, NEW type, Receives(type), AllBacked(down, hist)
    PROVE  Backed(Head(down), hist) /\ AllBacked(down', hist)
  <1>1. down \in Seq(Bodies) /\ down # <<>> /\ down' = Tail(down)
    BY DEF Receives, TypeInv, TypeOK, Bodies
  <1>2. Len(down) \in Nat \ {0} /\ Head(down) = down[1]
    BY <1>1, EmptySeq
  <1>3. /\ Len(Tail(down)) = Len(down) - 1
        /\ \A i \in 1..Len(Tail(down)) : Tail(down)[i] = down[i + 1]
    BY <1>1, HeadTailProperties
  <1>4. 1 \in 1..Len(down) /\ \A i \in 1..Len(down) - 1 : i + 1 \in 1..Len(down)
    BY <1>2
  <1> QED
    BY <1>1, <1>2, <1>3, <1>4 DEF AllBacked

\* What the faults and the reply take from the budget.
LEMMA SpendQuiet ==
    ASSUME TypeInv, NEW fault \in Faults \ {"forget"}, Spend(fault)
    PROVE  left'["db"] <= left["db"] /\ left'["forget"] = left["forget"]
  <1>1. /\ left \in [Events -> Nat] /\ "forget" \in Faults \ {fault}
        /\ "db" \in Events
    BY DEF TypeInv, TypeOK, Faults, Events
  <1> QED
    BY <1>1, SpentType DEF Spend

\* A reply of the device spends neither a database fault nor a deletion.
LEMMA ReplyQuiet ==
    ASSUME TypeInv, NEW ack, NEW budget \in [Events -> Nat],
           budget["db"] <= left["db"], budget["forget"] = left["forget"],
           Reply(ack, budget)
    PROVE  left'["db"] <= left["db"] /\ left'["forget"] = left["forget"]
  <1>1. /\ "drop" \in Faults /\ "db" \in Faults \ {"drop"} /\ "forget" \in Faults \ {"drop"}
    BY DEF Faults
  <1>2. CASE left' = budget
    BY <1>2
  <1>3. CASE Allows(budget, "drop", 1) /\ left' = Spent(budget, "drop", 1)
    <2>1. left'["db"] = budget["db"] /\ left'["forget"] = budget["forget"]
      BY <1>1, <1>3, SpentType
    <2> QED
      BY <2>1
  <1> QED
    BY <1>2, <1>3 DEF Reply

\* A delta applied by the device keeps the history unambiguous and the cache backed.
LEMMA ApplyDeltaSafe ==
    ASSUME SafeInv, ApplyDelta
    PROVE  AllRecorded' => AllRecorded /\ Safe'
  <1> DEFINE m == Head(down)
  <1>1. TypeInv /\ TypeInv'
    BY ApplyDeltaType DEF SafeInv
  <1>2. left \in [Events -> Nat] /\ "db" \in Events /\ left["db"] <= left["db"] /\ left' \in [Events -> Nat]
    BY <1>1 DEF TypeInv, TypeOK, Events, Faults
  <1>3. left'["db"] <= left["db"] /\ left'["forget"] = left["forget"]
    BY <1>1, <1>2, ReplyQuiet DEF ApplyDelta
  <1>4. ASSUME Safe
        PROVE  AllBacked(down', hist) /\ CacheIsPublished'
    <2>1. Backed(m, hist) /\ AllBacked(down', hist) /\ m \in Messages
      BY <1>1, <1>4, ReadBacked, ReceivesType DEF Safe, ApplyDelta
    <2>2. CASE ~Follows(m)
      BY <1>4, <2>1, <2>2 DEF ApplyDelta, Safe, CacheIsPublished
    <2>3. CASE Follows(m)
      <3>1. PICK v \in Versions : /\ <<m.epoch, m.sequence - 1, v>> \in hist
                                  /\ m.version = Applied(m, v)
        BY <2>1 DEF Backed, Messages
      <3>2. <<m.epoch, m.sequence, m.version>> \in hist
        BY <2>1 DEF Backed, Messages
      <3>3. m.epoch = dev.epoch /\ m.sequence - 1 = dev.acked /\ dev.epoch # 0 /\ ~dev.corrupt
        BY <1>1, <2>1, <2>3 DEF Follows, Messages, TypeInv, TypeOK, Caches
      <3>4. <<dev.epoch, dev.acked, dev.occ>> \in hist
        BY <1>4, <3>3 DEF Safe, CacheIsPublished
      <3>5. v = dev.occ
        BY <1>4, <3>1, <3>3, <3>4 DEF Safe, Unambiguous
      <3>6. dev' = [dev EXCEPT !.acked = m.sequence, !.occ = Applied(m, dev.occ)] /\ hist' = hist
        BY <2>3 DEF ApplyDelta
      <3>7. dev'.epoch = m.epoch /\ dev'.acked = m.sequence /\ dev'.occ = m.version
        BY <1>1, <3>1, <3>3, <3>5, <3>6 DEF TypeInv, TypeOK, Caches
      <3> QED
        BY <2>1, <3>2, <3>6, <3>7 DEF CacheIsPublished
    <2> QED
      BY <2>2, <2>3
  <1> QED
    BY <1>2, <1>3, <1>4, QuietSafe DEF ApplyDelta

\* So does a page.
LEMMA ApplySnapshotPageSafe ==
    ASSUME SafeInv, ApplySnapshotPage
    PROVE  AllRecorded' => AllRecorded /\ Safe'
  <1> DEFINE p == Head(down)
  <1>1. TypeInv /\ TypeInv'
    BY ApplySnapshotPageType DEF SafeInv
  <1>2. left \in [Events -> Nat] /\ "db" \in Events /\ left["db"] <= left["db"] /\ left' \in [Events -> Nat]
    BY <1>1 DEF TypeInv, TypeOK, Events, Faults
  <1>3. left'["db"] <= left["db"] /\ left'["forget"] = left["forget"]
    <2>1. PICK ack : Reply(ack, left)
      BY DEF ApplySnapshotPage
    <2> QED
      BY <1>1, <1>2, <2>1, ReplyQuiet
  <1>4. ASSUME Safe
        PROVE  AllBacked(down', hist) /\ CacheIsPublished'
    <2>1. Backed(p, hist) /\ AllBacked(down', hist) /\ p \in Pages
      BY <1>1, <1>4, ReadBacked, ReceivesType DEF Safe, ApplySnapshotPage
    <2>2. CASE ~Completes(p)
      BY <1>4, <2>1, <2>2 DEF ApplySnapshotPage, Safe, CacheIsPublished
    <2>3. CASE Completes(p)
      <3>1. <<p.epoch, p.high, p.digest>> \in hist
        BY <2>1 DEF Backed, Pages
      <3>2. dev'.epoch = p.epoch /\ dev'.acked = p.high /\ dev'.occ = p.digest /\ hist' = hist
        BY <2>3 DEF ApplySnapshotPage, Completes
      <3> QED
        BY <2>1, <3>1, <3>2 DEF CacheIsPublished
    <2> QED
      BY <2>2, <2>3
  <1> QED
    BY <1>2, <1>3, <1>4, QuietSafe DEF ApplySnapshotPage

\* A failed commit changes no cache.
LEMMA CommitFailsSafe ==
    ASSUME SafeInv, CommitFails
    PROVE  AllRecorded' => AllRecorded /\ Safe'
  <1> DEFINE budget == Spent(left, "commit", 1)
  <1>1. TypeInv /\ TypeInv'
    BY CommitFailsType DEF SafeInv
  <1>2. /\ budget \in [Events -> Nat]
        /\ budget["db"] = left["db"] /\ budget["forget"] = left["forget"]
    <2>1. /\ left \in [Events -> Nat] /\ "commit" \in Faults
          /\ "db" \in Faults \ {"commit"} /\ "forget" \in Faults \ {"commit"}
      BY <1>1 DEF TypeInv, TypeOK, Faults
    <2> QED
      BY <2>1, SpentType DEF CommitFails
  <1>3. left["db"] \in Nat
    BY <1>1 DEF TypeInv, TypeOK, Events, Faults
  <1>4. left'["db"] <= left["db"] /\ left'["forget"] = left["forget"]
    <2>1. budget["db"] <= left["db"]
      BY <1>2, <1>3
    <2>2. PICK ack : Reply(ack, budget)
      BY DEF CommitFails
    <2> HIDE DEF budget
    <2> QED
      BY <1>1, <1>2, <2>1, <2>2, ReplyQuiet
  <1>5. ASSUME Safe
        PROVE  AllBacked(down', hist) /\ CacheIsPublished'
    <2>1. AllBacked(down', hist)
      BY <1>1, <1>5, ReadBacked DEF Safe, CommitFails
    <2> QED
      BY <1>5, <2>1 DEF Safe, CommitFails, CacheIsPublished
  <1>6. left' \in [Events -> Nat] /\ UNCHANGED <<row, bound, d, hist>>
    BY <1>1 DEF TypeInv, TypeOK, CommitFails
  <1> QED
    BY <1>4, <1>5, <1>6, QuietSafe

\* Steps of the link, the calendar and the device's restarts.
LEMMA OutsideSafe ==
    ASSUME SafeInv, TypeInv',
           \/ Detach \/ Connect \/ EndSession \/ Lost \/ Reboot \/ Damage
           \/ \E version \in Versions : EditCalendar(version)
    PROVE  AllRecorded' => AllRecorded /\ Safe'
  <1>1. left \in [Events -> Nat] /\ left' \in [Events -> Nat] /\ TypeInv
    BY DEF SafeInv, TypeInv, TypeOK
  <1>2. left["db"] \in Nat
    BY <1>1 DEF Events, Faults
  <1>3. left'["db"] <= left["db"] /\ left'["forget"] = left["forget"]
    <2>1. CASE UNCHANGED left
      BY <1>2, <2>1
    <2>2. CASE Spend("session") \/ Spend("reboot") \/ Spend("damage")
      BY <1>1, <2>2, SpendQuiet DEF Faults
    <2>3. CASE \E version \in Versions : EditCalendar(version)
      BY <1>1, <1>2, <2>3 DEF EditCalendar
    <2> QED
      BY <2>1, <2>2, <2>3 DEF Detach, Connect, EndSession, Lost, Reboot, Damage
  <1>4. UNCHANGED <<row, bound, d, hist>>
    BY DEF Detach, Connect, EndSession, Lost, Reboot, Damage, EditCalendar
  <1>5. ASSUME Safe
        PROVE  AllBacked(down', hist) /\ CacheIsPublished'
    <2>1. AllBacked(<<>>, hist)
      BY DEF AllBacked
    <2>2. down' = down \/ down' = <<>>
      BY DEF Detach, Connect, EndSession, Lost, Reboot, Damage, EditCalendar
    <2>3. AllBacked(down', hist)
      BY <1>5, <2>1, <2>2 DEF Safe
    <2>4. dev' = dev \/ dev'.corrupt
      BY DEF Detach, Connect, EndSession, Lost, Reboot, Damage, EditCalendar, Recoverable
    <2>5. CacheIsPublished'
      BY <1>4, <1>5, <2>4 DEF Safe, CacheIsPublished
    <2> QED
      BY <2>3, <2>5
  <1> QED
    BY <1>1, <1>3, <1>4, <1>5, QuietSafe

\* A restart keeps what was recorded before it was sent.
LEMMA RestartSafe ==
    ASSUME SafeInv, Restart
    PROVE  AllRecorded' => AllRecorded /\ Safe'
  <1> SUFFICES ASSUME AllRecorded' PROVE AllRecorded /\ Safe'
    OBVIOUS
  <1> DEFINE rest == Spent(left, "crash", 1)
  <1>1. /\ left \in [Events -> Nat] /\ "crash" \in Faults /\ "db" \in Faults \ {"crash"}
        /\ "forget" \in Faults \ {"crash"} /\ "forget" \in Faults \ {"db"} /\ "db" \in Faults
        /\ "db" \in Events
    BY DEF SafeInv, TypeInv, TypeOK, Faults, Events
  <1>2. rest \in [Events -> Nat] /\ rest["db"] = left["db"] /\ rest["forget"] = left["forget"]
    BY <1>1, SpentType DEF Restart
  <1>3. left["db"] \in Nat /\ Budget["db"] \in Nat /\ left["db"] <= Budget["db"]
    BY <1>1, BudgetAssumption DEF SafeInv, TypeInv
  <1>4. left'["db"] <= left["db"] /\ left'["forget"] = left["forget"]
    <2>1. CASE left' = rest
      BY <1>2, <1>3, <2>1
    <2>2. CASE Allows(rest, "db", 1) /\ left' = Spent(rest, "db", 1)
      <3> HIDE DEF rest
      <3>1. left'["db"] = rest["db"] - 1 /\ left'["forget"] = rest["forget"]
        BY <1>1, <1>2, <2>2, SpentType
      <3> QED
        BY <1>2, <1>3, <3>1
    <2> QED
      BY <2>1, <2>2 DEF Restart
  <1>5. AllRecorded
    <2>1. left'["db"] = Budget["db"]
      BY DEF AllRecorded
    <2> QED
      BY <1>3, <1>4, <2>1 DEF AllRecorded
  <1>6. Safe /\ FreshEpoch' = FreshEpoch
    BY <1>4, <1>5 DEF SafeInv, FreshEpoch
  <1>7. UNCHANGED <<row, hist, down, dev>> /\ d' = NewDelivery(row) /\ (bound' => row.epoch # 0)
    BY DEF Restart
  <1>8. row.epoch # 0 => Accounts(NewDelivery(row), hist)
    <2>1. /\ NewDelivery(row).epoch = row.epoch /\ NewDelivery(row).sequence = row.sequence
          /\ NewDelivery(row).sent = NoVersion /\ NewDelivery(row).unacked = <<>>
          /\ AllBacked(<<>>, hist)
      BY DEF NewDelivery, AllBacked
    <2> HIDE DEF NewDelivery
    <2> QED
      BY <1>6, <2>1 DEF Safe, Accounts
  <1>9. NewDelivery(row).epoch = row.epoch /\ NewDelivery(row).sequence = row.sequence
    BY DEF NewDelivery
  <1> QED
    BY <1>5, <1>6, <1>7, <1>8, <1>9 DEF Safe, CacheIsPublished

\* A deleted device starts again in an epoch no claim has used.
LEMMA ForgetSafe ==
    ASSUME SafeInv, Forget
    PROVE  AllRecorded' => AllRecorded /\ Safe'
  <1> SUFFICES ASSUME AllRecorded' PROVE AllRecorded /\ Safe'
    OBVIOUS
  <1>1. left \in [Events -> Nat] /\ "forget" \in Faults /\ "db" \in Faults \ {"forget"}
    BY DEF SafeInv, TypeInv, TypeOK, Faults
  <1>2. left'["db"] = left["db"] /\ left'["forget"] = left["forget"] - 1
    <2>1. Allows(left, "forget", 1) /\ left' = Spent(left, "forget", 1)
      BY DEF Forget, Spend
    <2>2. 1 \in Nat /\ (1 > 0 => Allows(left, "forget", 1))
      BY <2>1
    <2> QED
      BY <1>1, <2>1, <2>2, SpentType
  <1>3. AllRecorded /\ Safe
    BY <1>2 DEF AllRecorded, SafeInv
  <1>4. left["forget"] \in Nat /\ Budget["forget"] \in Nat
    BY <1>1, BudgetAssumption DEF Events
  <1>5. FreshEpoch' = FreshEpoch + 1 /\ FreshEpoch \in Nat
    <2>1. FreshEpoch \in Nat
      BY FreshEpochType DEF SafeInv
    <2> QED
      BY <1>2, <1>4, <2>1 DEF FreshEpoch
  <1>6. \A h \in hist : h[1] \in Nat /\ h[1] <= FreshEpoch
    BY <1>3 DEF Safe, SafeInv, TypeInv, TypeOK, Epochs
  <1>7. \A h \in hist : h[1] <= FreshEpoch' /\ h[1] # FreshEpoch'
    BY <1>5, <1>6
  <1>8. row'.epoch = 0 /\ ~bound' /\ UNCHANGED <<down, dev, hist>>
    BY DEF Forget, NoRow
  <1> QED
    BY <1>3, <1>7, <1>8 DEF Safe, CacheIsPublished

\* The inductive step.
LEMMA SafeStep ==
    ASSUME SafeInv, [Next]_vars
    PROVE  AllRecorded' => AllRecorded /\ Safe'
  <1> DEFINE Goal == AllRecorded' => AllRecorded /\ Safe'
  <1>1. TypeInv
    BY DEF SafeInv
  <1>2. Idle /\ UNCHANGED dev => Goal
    BY DEF Idle, SafeInv, AllRecorded, Safe, FreshEpoch, CacheIsPublished
  <1>3. CASE UNCHANGED vars
    BY <1>2, <1>3 DEF vars, Idle
  <1>4. CASE Bind
    BY <1>1, <1>4, BindTurn, WorksSafe DEF Bind
  <1>5. CASE Attach
    BY <1>1, <1>2, <1>5, AttachTurn, WorksSafe DEF Attach
  <1>6. CASE Ack
    BY <1>1, <1>2, <1>6, AckTurn, WorksSafe DEF Ack
  <1>7. CASE Push
    BY <1>1, <1>2, <1>7, PushTurn, WorksSafe DEF Push
  <1>8. ASSUME NEW child \in Occurrences, Retract(child) PROVE Goal
    BY <1>1, <1>8, RetractTurn, WorksSafe DEF Retract
  <1>9. CASE Restart
    BY <1>9, RestartSafe
  <1>10. CASE Forget
    BY <1>10, ForgetSafe
  <1>11. CASE Detach \/ Connect \/ EndSession \/ Lost
    BY <1>1, <1>11, SessionTypes, OutsideSafe
  <1>12. CASE Reboot \/ Damage
    BY <1>1, <1>12, DeviceRestartTypes, OutsideSafe
  <1>13. CASE \E version \in Versions : EditCalendar(version)
    BY <1>1, <1>13, EditCalendarType, OutsideSafe
  <1>14. CASE ApplyDelta
    BY <1>14, ApplyDeltaSafe
  <1>15. CASE ApplySnapshotPage
    BY <1>15, ApplySnapshotPageSafe
  <1>16. CASE CommitFails
    BY <1>16, CommitFailsSafe
  <1> QED
    BY <1>3, <1>4, <1>5, <1>6, <1>7, <1>8, <1>9, <1>10, <1>11, <1>12, <1>13, <1>14,
       <1>15, <1>16 DEF Next

\* The inductive invariant holds in every behaviour.
LEMMA SafeInvariant == Spec => []SafeInv
  <1>1. Init => SafeInv
    <2> SUFFICES ASSUME Init PROVE SafeInv
      OBVIOUS
    <2>1. TypeInv
      BY InitType
    <2>2. row.epoch = 0 /\ ~bound /\ down = <<>> /\ hist = {} /\ dev.epoch = 0
      BY DEF Init, NoRow
    <2>3. AllBacked(<<>>, {}) /\ Unambiguous({})
      BY DEF AllBacked, Unambiguous
    <2> QED
      BY <2>1, <2>2, <2>3 DEF SafeInv, Safe, CacheIsPublished
  <1>2. SafeInv /\ [Next]_vars => SafeInv'
    <2> SUFFICES ASSUME SafeInv, [Next]_vars PROVE SafeInv'
      OBVIOUS
    <2>1. TypeInv'
      BY NextType DEF SafeInv
    <2> QED
      BY <2>1, SafeStep DEF SafeInv
  <1> QED
    BY <1>1, <1>2, PTL DEF Spec

\* "A sequence number is never reused with other content" (delivery.rs), for
\* as long as every position was recorded: whatever sessions, processes,
\* messages and stores are lost, two bodies posted under one epoch and
\* sequence lead to the same version.
THEOREM NumbersAreNeverReused == Spec => [](AllRecorded => SequenceNeverReused)
  <1>1. SafeInv => (AllRecorded => SequenceNeverReused)
    BY DEF SafeInv, Safe, Unambiguous, SequenceNeverReused
  <1> QED
    BY <1>1, SafeInvariant, PTL

\* An undamaged device holds, whole, a version the controller posted under
\* the number the device acknowledges, for as long as every position was
\* recorded.
THEOREM CachesArePublished == Spec => [](AllRecorded => CacheIsPublished)
  <1>1. SafeInv => (AllRecorded => CacheIsPublished)
    BY DEF SafeInv, Safe
  <1> QED
    BY <1>1, SafeInvariant, PTL

\* A device at the controller's current sequence holds what the controller
\* believes it sent, which is what `attach` relies on when it sends nothing.
THEOREM CaughtUpDevicesAgree == Spec => [](AllRecorded => CaughtUpAgrees)
  <1>1. SafeInv => (AllRecorded => CaughtUpAgrees)
    <2> SUFFICES ASSUME Safe, bound, d.sent # NoVersion, dev.epoch = d.epoch,
                        dev.acked = d.sequence, ~dev.corrupt
                 PROVE  dev.occ = d.sent
      BY DEF SafeInv, CaughtUpAgrees
    <2>1. <<d.epoch, d.sequence, d.sent>> \in hist
      BY DEF Safe, Accounts
    <2>2. <<dev.epoch, dev.acked, dev.occ>> \in hist
      BY DEF Safe, CacheIsPublished
    <2> QED
      BY <2>1, <2>2 DEF Safe, Unambiguous
  <1> QED
    BY <1>1, SafeInvariant, PTL
----------------------------------------------------------------------------
(* A quiet session is in step.  Of a speaker attached to a live session,    *)
(* either the messages on their way bring the cache to the version last     *)
(* sent, or an acknowledgement that asks for a snapshot is on its way back. *)

\* The live ids of a version, and its pages.
Live(new) == {id \in Occurrences : new[id] # Absent}
PageCount(new) == IF Live(new) = {} THEN 1 ELSE Chunks(Live(new))
PageOf(epoch, high, new, k) ==
    [type |-> "snapshot", epoch |-> epoch, high |-> high, index |-> k - 1,
     count |-> PageCount(new), digest |-> new,
     put |-> Only(ChunkIds(Live(new), new, k), new)]

\* The objects of the first k pages of a version, and the stage that holds
\* them.
Front(new, k) ==
    [id \in Occurrences |->
        IF new[id] # Absent /\ Chunk(id, Live(new), new) <= k
        THEN new[id] ELSE Absent]
StageAt(epoch, high, new, k) ==
    [epoch |-> epoch, high |-> high, count |-> PageCount(new), digest |-> new,
     next |-> k, values |-> Front(new, k)]

\* A chunk of objects is one of those counted: the number of pages is at
\* least the number of the last one.
LEMMA DivBound ==
    ASSUME NEW a \in Nat, NEW b \in Nat, NEW n \in Nat \ {0}, a + 1 <= b
    PROVE  (a \div n) + 1 <= (b + n - 1) \div n
  <1>1. (a + n) \div n = (a \div n) + 1
    BY SMTT(30)
  <1>2. (a + n) \div n <= (b + n - 1) \div n
    BY SMTT(30)
  <1> QED
    BY <1>1, <1>2

\* Every id of a set falls into one of the set's chunks.
LEMMA ChunkWithin ==
    ASSUME NEW ids \in SUBSET Occurrences, NEW id \in ids, NEW new
    PROVE  Chunk(id, ids, new) <= Chunks(ids)
  <1> DEFINE before == {other \in ids :
                          \/ new[other] = Absent /\ new[id] # Absent
                          \/ (new[other] = Absent) = (new[id] = Absent) /\ other < id}
  <1>1. IsFiniteSet(ids) /\ Cardinality(ids) \in Nat
    BY OccurrencesAssumption, FS_Subset, FS_CardinalityType
  <1>2. id \notin before /\ before \subseteq ids
    <2>1. id \in Int
      BY OccurrencesAssumption
    <2> QED
      BY <2>1
  <1>3. IsFiniteSet(before) /\ Cardinality(before) \in Nat
    BY <1>1, <1>2, FS_Subset, FS_CardinalityType
  <1>4. Cardinality(before) + 1 <= Cardinality(ids)
    <2>1. IsFiniteSet(ids \ {id}) /\ Cardinality(ids \ {id}) = Cardinality(ids) - 1
      BY <1>1, FS_RemoveElement
    <2>2. Cardinality(before) <= Cardinality(ids \ {id})
      BY <1>2, <2>1, FS_Subset
    <2> QED
      BY <1>1, <1>3, <2>1, <2>2
  <1>5. Before(id, ids, new) = Cardinality(before)
    BY DEF Before
  <1> HIDE DEF before
  <1> QED
    BY <1>1, <1>3, <1>4, <1>5, PageAssumption, DivBound DEF Chunk, Chunks

\* All chunks applied: the version is the new one.
LEMMA PartialAll ==
    ASSUME NEW old \in Versions, NEW new \in Versions
    PROVE  Partial(old, new, Chunks(Changed(old, new))) = new
  <1> DEFINE ids == Changed(old, new)
  <1>1. ids \in SUBSET Occurrences /\ \A id \in Occurrences : id \notin ids => old[id] = new[id]
    BY DEF Changed
  <1>2. \A id \in ids : Chunk(id, ids, new) <= Chunks(ids)
    BY <1>1, ChunkWithin
  <1> HIDE DEF ids
  <1>3. Partial(old, new, Chunks(ids)) = [id \in Occurrences |-> new[id]]
    BY <1>1, <1>2 DEF Partial, ids
  <1> QED
    BY <1>3 DEF Versions, ids

\* A version has at least one page.
LEMMA PageCountType ==
    ASSUME NEW new \in Versions
    PROVE  PageCount(new) \in Nat \ {0}
  <1>1. CASE Live(new) = {}
    BY <1>1 DEF PageCount
  <1>2. CASE Live(new) # {}
    <2>1. Live(new) \in SUBSET Occurrences
      BY DEF Live
    <2>2. Cardinality(Live(new)) \in Nat /\ IsFiniteSet(Live(new))
      BY <2>1, OccurrencesAssumption, FS_Subset, FS_CardinalityType
    <2>3. Cardinality(Live(new)) >= 1
      BY <1>2, <2>2, FS_EmptySet
    <2>4. Chunks(Live(new)) \in Nat
      BY <2>1, ChunksType
    <2>5. (Cardinality(Live(new)) + PageObjects - 1) \div PageObjects # 0
      BY <2>2, <2>3, PageAssumption, DivPositive
    <2> QED
      BY <1>2, <2>4, <2>5 DEF PageCount, Chunks
  <1> QED
    BY <1>1, <1>2

\* No page staged, one more page staged, all pages staged.
LEMMA FrontSteps ==
    ASSUME NEW new \in Versions
    PROVE  /\ Front(new, 0) = Empty
           /\ \A k \in Nat : \A id \in Occurrences :
                 (IF PageOf(0, 0, new, k + 1).put[id] # Absent
                  THEN PageOf(0, 0, new, k + 1).put[id] ELSE Front(new, k)[id])
                    = Front(new, k + 1)[id]
           /\ Front(new, PageCount(new)) = new
  <1> DEFINE chunk(id) == Chunk(id, Live(new), new)
  <1>1. Live(new) \in SUBSET Occurrences
    BY DEF Live
  <1>2. \A id : chunk(id) \in Nat \ {0}
    BY <1>1, ChunkType
  <1>3. \A id \in Live(new) : chunk(id) <= PageCount(new)
    BY <1>1, ChunkWithin DEF PageCount
  <1>4. \A k : \A id \in Occurrences :
           Front(new, k)[id] = IF new[id] # Absent /\ chunk(id) <= k THEN new[id] ELSE Absent
    BY DEF Front
  <1>5. \A k : \A id \in Occurrences :
           PageOf(0, 0, new, k).put[id] = IF new[id] # Absent /\ chunk(id) = k THEN new[id] ELSE Absent
    BY DEF PageOf, Only, ChunkIds, Live
  <1>6. \A id \in Occurrences : new[id] # Absent => id \in Live(new)
    BY DEF Live
  <1>7. Front(new, 0) = Empty
    <2>1. \A id : ~(chunk(id) <= 0)
      BY <1>2
    <2> QED
      BY <2>1 DEF Front, Empty
  <1>8. Front(new, PageCount(new)) = new
    <2>1. Front(new, PageCount(new)) = [id \in Occurrences |-> new[id]]
      BY <1>3, <1>6 DEF Front
    <2> QED
      BY <2>1 DEF Versions
  <1> HIDE DEF chunk
  <1>9. ASSUME NEW k \in Nat, NEW id \in Occurrences
        PROVE  (IF PageOf(0, 0, new, k + 1).put[id] # Absent
                THEN PageOf(0, 0, new, k + 1).put[id] ELSE Front(new, k)[id])
                  = Front(new, k + 1)[id]
    <2>1. chunk(id) <= k + 1 <=> chunk(id) <= k \/ chunk(id) = k + 1
      BY <1>2
    <2> QED
      BY <1>4, <1>5, <2>1
  <1> QED
    BY <1>7, <1>8, <1>9

\* The unacknowledged deltas are the last ones of the epoch, in order.
Numbered(dl) ==
    \A i \in 1..Len(dl.unacked) :
        /\ dl.unacked[i].epoch = dl.epoch
        /\ dl.unacked[i].sequence + (Len(dl.unacked) - i) = dl.sequence

\* Bodies that are deltas numbered from the one after `from`, and bodies that
\* are the pages of one snapshot.
Runs(bodies, epoch, from) ==
    \A i \in 1..Len(bodies) : /\ bodies[i].type = "delta"
                              /\ bodies[i].epoch = epoch
                              /\ bodies[i].sequence = from + i
Whole(bodies, epoch, high, new) ==
    /\ Len(bodies) = PageCount(new)
    /\ \A i \in 1..Len(bodies) : bodies[i] = PageOf(epoch, high, new, i)

\* What outbox o posts leads a device from dl's position to the position after.
Chains(dl, o) ==
    /\ o.after.epoch = dl.epoch
    /\ Numbered(dl) => Numbered(o.after)
    /\ \/ /\ Runs(o.bodies, dl.epoch, dl.sequence)
          /\ o.after.sequence = dl.sequence + Len(o.bodies)
       \/ \E new \in Versions : Whole(o.bodies, dl.epoch, o.after.sequence, new)

\* What Retain keeps of the last deltas are the last deltas; of a queue that
\* reaches back to the one after `acked` it keeps exactly those above it.
LEMMA RetainLast ==
    ASSUME NEW dl \in Deliveries, Numbered(dl), NEW acked \in Nat
    PROVE  LET rest == Retain(dl.unacked, acked)
           IN  /\ \A i \in 1..Len(rest) :
                     /\ rest[i].epoch = dl.epoch
                     /\ rest[i].sequence + (Len(rest) - i) = dl.sequence
               /\ /\ acked <= dl.sequence
                  /\ \/ acked = dl.sequence
                     \/ dl.unacked # <<>> /\ dl.unacked[1].sequence <= acked + 1
                  => Runs(rest, dl.epoch, acked) /\ Len(rest) = dl.sequence - acked
  <1> DEFINE queue == dl.unacked
             l == Len(queue)
             passed == {i \in DOMAIN queue : queue[i].sequence <= acked}
             m == Cardinality(passed) + 1
             rest == Retain(queue, acked)
  <1>1. /\ queue \in Seq(Messages) /\ l \in Nat /\ DOMAIN queue = 1..l
        /\ dl.sequence \in Nat /\ dl.epoch \in Epochs
    BY LenProperties DEF Deliveries
  <1>2. \A i \in 1..l : /\ queue[i] \in Messages
                        /\ queue[i].epoch = dl.epoch
                        /\ queue[i].sequence + (l - i) = dl.sequence
    BY <1>1, ElementOfSeq DEF Numbered
  <1>3. \A i \in 1..l : queue[i].sequence \in Nat /\ queue[i].type = "delta"
    BY <1>2 DEF Messages
  <1>4. IsFiniteSet(passed) /\ passed \subseteq 1..l
    <2>1. IsFiniteSet(1..l)
      BY <1>1, FS_Interval
    <2> QED
      BY <1>1, <2>1, FS_Subset
  <1>5. m \in Nat \ {0}
    BY <1>4, FS_CardinalityType
  <1>6. rest = SubSeq(queue, m, l)
    BY DEF Retain
  <1> HIDE DEF rest, l, queue, m
  <1>7. /\ Len(rest) = IF m <= l THEN l - m + 1 ELSE 0
        /\ \A i \in 1..(l - m + 1) : rest[i] = queue[m + i - 1]
    <2>1. \A i \in m..l : queue[i] \in Messages
      BY <1>1, <1>2, <1>5
    <2> QED
      BY <1>1, <1>5, <1>6, <2>1, SubSeqProperties
  <1>8. ASSUME NEW i \in 1..Len(rest)
        PROVE  /\ m + i - 1 \in 1..l /\ rest[i] = queue[m + i - 1]
               /\ Len(rest) = l - m + 1
    BY <1>1, <1>5, <1>7
  <1>9. \A i \in 1..Len(rest) : /\ rest[i].epoch = dl.epoch
                                /\ rest[i].sequence + (Len(rest) - i) = dl.sequence
    <2> SUFFICES ASSUME NEW i \in 1..Len(rest)
                 PROVE  /\ rest[i].epoch = dl.epoch
                        /\ rest[i].sequence + (Len(rest) - i) = dl.sequence
      OBVIOUS
    <2>1. queue[m + i - 1].sequence + (l - (m + i - 1)) = dl.sequence /\ queue[m + i - 1].epoch = dl.epoch
      BY <1>2, <1>8
    <2>2. l - (m + i - 1) = Len(rest) - i
      BY <1>1, <1>5, <1>8
    <2> QED
      BY <1>8, <2>1, <2>2
  <1>10. ASSUME acked <= dl.sequence,
                \/ acked = dl.sequence
                \/ queue # <<>> /\ queue[1].sequence <= acked + 1
         PROVE  Runs(rest, dl.epoch, acked) /\ Len(rest) = dl.sequence - acked
    <2> DEFINE cut == acked - dl.sequence + l
    <2>1. cut \in Nat /\ cut <= l
      <3>1. CASE acked = dl.sequence
        BY <1>1, <3>1
      <3>2. CASE queue # <<>> /\ queue[1].sequence <= acked + 1
        <4>1. 1 \in 1..l
          BY <1>1, <3>2, EmptySeq DEF l
        <4>2. queue[1].sequence + (l - 1) = dl.sequence /\ queue[1].sequence \in Nat
          BY <1>2, <1>3, <4>1
        <4> QED
          BY <1>1, <1>10, <3>2, <4>2
      <3> QED
        BY <1>10, <3>1, <3>2
    <2>2. \A i \in 1..l : queue[i].sequence <= acked <=> i <= cut
      BY <1>1, <1>2, <1>3
    <2>3. passed = 1..cut
      BY <1>1, <2>1, <2>2
    <2>4. m = cut + 1
      <3>1. Cardinality(1..cut) = cut
        BY <2>1, FS_Interval
      <3> QED
        BY <2>3, <3>1 DEF m
    <2>5. Len(rest) = dl.sequence - acked
      BY <1>1, <1>7, <2>1, <2>4
    <2>6. \A i \in 1..Len(rest) : rest[i].type = "delta"
      BY <1>3, <1>8
    <2>7. \A i \in 1..Len(rest) : rest[i].sequence = acked + i
      <3> SUFFICES ASSUME NEW i \in 1..Len(rest) PROVE rest[i].sequence = acked + i
        OBVIOUS
      <3> DEFINE at == rest[i].sequence
                 last == dl.sequence
      <3>1. at \in Nat /\ last \in Nat /\ acked \in Nat /\ i \in Int
        BY <1>1, <1>3, <1>8
      <3>2. at + (Len(rest) - i) = last
        BY <1>9
      <3>3. at + ((last - acked) - i) = last
        BY <2>5, <3>2
      <3> HIDE DEF at, last
      <3>4. at = acked + i
        BY <3>1, <3>3
      <3> QED
        BY <3>4 DEF at
    <2> QED
      BY <1>9, <2>5, <2>6, <2>7 DEF Runs
  <1> QED
    BY <1>9, <1>10 DEF rest, queue

\* What a hello makes the delivery post leads from the hello's position to the
\* delivery's, when the two are in step.
LEMMA AttachResumes ==
    ASSUME NEW dl \in Deliveries, Numbered(dl), NEW hello, hello.acked \in Nat
    PROVE  LET o == AttachOutbox(dl, hello)
           IN  /\ Numbered(o.after)
               /\ o.after.epoch = dl.epoch /\ o.after.sequence = dl.sequence
               /\ o.after.sent = dl.sent
               /\ ~o.after.owed => /\ hello.epoch = dl.epoch
                                   /\ Runs(o.bodies, dl.epoch, hello.acked)
                                   /\ hello.acked + Len(o.bodies) = dl.sequence
  <1> DEFINE o == AttachOutbox(dl, hello)
             rest == Retain(dl.unacked, hello.acked)
  <1>1. CASE InStep(dl, hello)
    <2>1. /\ o.after.epoch = dl.epoch /\ o.after.sequence = dl.sequence
          /\ o.after.sent = dl.sent /\ o.after.unacked = rest /\ o.bodies = rest
      BY <1>1 DEF AttachOutbox, Outbox, Deliveries
    <2>2. /\ hello.epoch = dl.epoch
          /\ hello.acked <= dl.sequence
          /\ \/ hello.acked = dl.sequence
             \/ dl.unacked # <<>> /\ dl.unacked[1].sequence <= hello.acked + 1
      BY <1>1 DEF InStep
    <2>3. /\ \A i \in 1..Len(rest) :
                /\ rest[i].epoch = dl.epoch
                /\ rest[i].sequence + (Len(rest) - i) = dl.sequence
          /\ Runs(rest, dl.epoch, hello.acked) /\ Len(rest) = dl.sequence - hello.acked
      BY <2>2, RetainLast
    <2> HIDE DEF o, rest
    <2>4. Numbered(o.after)
      BY <2>1, <2>3 DEF Numbered
    <2>5. hello.acked + Len(o.bodies) = dl.sequence
      BY <2>1, <2>3 DEF Deliveries
    <2>6. o.bodies = rest /\ Runs(o.bodies, dl.epoch, hello.acked)
      BY <2>1, <2>3
    <2> QED
      BY <2>1, <2>2, <2>4, <2>5, <2>6 DEF o
  <1>2. CASE ~InStep(dl, hello)
    <2>1. /\ o.after.epoch = dl.epoch /\ o.after.sequence = dl.sequence
          /\ o.after.sent = dl.sent /\ o.after.unacked = dl.unacked /\ o.after.owed
      BY <1>2 DEF AttachOutbox, Outbox, Deliveries
    <2> HIDE DEF o
    <2>2. Numbered(o.after)
      BY <2>1 DEF Numbered
    <2> QED
      BY <2>1, <2>2 DEF o
  <1> QED
    BY <1>1, <1>2

\* An acknowledgement posts nothing.
LEMMA AckChains ==
    ASSUME NEW dl \in Deliveries, NEW ack, ack.through \in Nat
    PROVE  LET o == AckOutbox(dl, ack)
           IN  /\ Chains(dl, o) /\ o.after.sent = dl.sent /\ o.bodies = <<>>
               /\ o.after.owed = (dl.owed \/ ack.need)
  <1> DEFINE o == AckOutbox(dl, ack)
             rest == Retain(dl.unacked, ack.through)
  <1>1. /\ o.after.epoch = dl.epoch /\ o.after.sequence = dl.sequence
        /\ o.after.sent = dl.sent /\ o.bodies = <<>>
        /\ o.after.unacked = rest \/ o.after.unacked = dl.unacked
        /\ o.after.owed = (dl.owed \/ ack.need)
    BY DEF AckOutbox, Outbox, Deliveries
  <1>2. ASSUME Numbered(dl)
        PROVE  Numbered(o.after)
    <2>1. \A i \in 1..Len(rest) : /\ rest[i].epoch = dl.epoch
                                  /\ rest[i].sequence + (Len(rest) - i) = dl.sequence
      BY <1>2, RetainLast
    <2> HIDE DEF o, rest
    <2> QED
      BY <1>1, <1>2, <2>1 DEF Numbered
  <1> HIDE DEF o
  <1>3. Runs(o.bodies, dl.epoch, dl.sequence) /\ o.after.sequence = dl.sequence + Len(o.bodies)
    BY <1>1 DEF Runs, Deliveries
  <1>4. Chains(dl, o)
    BY <1>1, <1>2, <1>3 DEF Chains
  <1> QED
    BY <1>1, <1>4 DEF o

\* New deltas at the end of the unacknowledged ones keep them the last.
LEMMA NumberedGrows ==
    ASSUME NEW dl \in Deliveries, Numbered(dl), NEW bodies \in Seq(Messages),
           Runs(bodies, dl.epoch, dl.sequence), NEW after,
           after.unacked = dl.unacked \o bodies, after.epoch = dl.epoch,
           after.sequence = dl.sequence + Len(bodies)
    PROVE  Numbered(after)
  <1> DEFINE u == dl.unacked
             c == u \o bodies
             m == Len(u)
             n == Len(bodies)
  <1>1. /\ Len(c) = m + n /\ m \in Nat /\ n \in Nat
        /\ \A i \in 1..m + n : c[i] = IF i <= m THEN u[i] ELSE bodies[i - m]
    BY ConcatProperties, LenProperties DEF Deliveries
  <1>2. dl.sequence \in Nat
    BY DEF Deliveries
  <1>3. /\ \A i \in 1..m : u[i].epoch = dl.epoch /\ u[i].sequence + (m - i) = dl.sequence
        /\ \A i \in 1..n : bodies[i].epoch = dl.epoch /\ bodies[i].sequence = dl.sequence + i
    BY DEF Numbered, Runs
  <1>4. \A i \in 1..m : u[i].sequence \in Nat
    <2>1. u \in Seq(Messages)
      BY DEF Deliveries
    <2>2. \A i \in 1..Len(u) : u[i] \in Messages
      BY <2>1, ElementOfSeq
    <2> QED
      BY <2>2 DEF Messages
  <1> HIDE DEF u, c, m, n
  <1>5. ASSUME NEW i \in 1..m + n
        PROVE  c[i].epoch = dl.epoch /\ c[i].sequence + ((m + n) - i) = dl.sequence + n
    <2>1. CASE i <= m
      <3>1. i \in 1..m /\ c[i] = u[i]
        BY <1>1, <2>1
      <3>2. u[i].sequence \in Nat /\ u[i].sequence + (m - i) = dl.sequence /\ u[i].epoch = dl.epoch
        BY <1>3, <1>4, <3>1
      <3>3. \A x, s \in Nat : x + (m - i) = s => x + ((m + n) - i) = s + n
        BY <1>1
      <3> QED
        BY <1>2, <3>1, <3>2, <3>3
    <2>2. CASE ~(i <= m)
      <3>1. i - m \in 1..n /\ c[i] = bodies[i - m]
        BY <1>1, <2>2
      <3>2. bodies[i - m].sequence = dl.sequence + (i - m) /\ bodies[i - m].epoch = dl.epoch
        BY <1>3, <3>1
      <3>3. \A s \in Nat : (s + (i - m)) + ((m + n) - i) = s + n
        BY <1>1
      <3> QED
        BY <1>2, <3>1, <3>2, <3>3
    <2> QED
      BY <2>1, <2>2
  <1>6. Len(c) = m + n /\ after.unacked = c /\ after.sequence = dl.sequence + n
    BY <1>1 DEF c, n, u
  <1> QED
    BY <1>5, <1>6 DEF Numbered

\* A refresh in step posts the deltas to the new version.
LEMMA DeltasChains ==
    ASSUME NEW dl \in Deliveries, dl.sent \in Versions, NEW new \in Versions
    PROVE  LET o == DeltasOutbox(dl, new)
           IN  /\ Chains(dl, o) /\ o.after.sent = new /\ o.after.owed = dl.owed
  <1> DEFINE n == Chunks(Changed(dl.sent, new))
             deltas == [k \in 1..n |-> ChunkDelta(dl, new, k)]
             o == DeltasOutbox(dl, new)
  <1>1. n \in Nat
    BY ChunksType DEF Changed
  <1>2. /\ deltas \in Seq(Messages) /\ Len(deltas) = n
        /\ \A k \in 1..n : deltas[k] = ChunkDelta(dl, new, k)
    <2>1. deltas \in [1..n -> Messages]
      BY <1>1, ChunkDeltaType
    <2>2. deltas \in Seq(Messages) /\ Len(deltas) = n
      BY <1>1, <2>1, SeqDef, LenProperties
    <2>3. \A k \in 1..n : deltas[k] = ChunkDelta(dl, new, k)
      OBVIOUS
    <2> QED
      BY <2>2, <2>3
  <1>3. /\ o.bodies = deltas
        /\ o.after.epoch = dl.epoch
        /\ o.after.sequence = dl.sequence + n
        /\ o.after.sent = Partial(dl.sent, new, n)
        /\ o.after.unacked = dl.unacked \o deltas
        /\ o.after.owed = dl.owed
    BY DEF DeltasOutbox, Outbox, Deliveries
  <1>4. \A k \in 1..n : /\ deltas[k].type = "delta"
                        /\ deltas[k].epoch = dl.epoch
                        /\ deltas[k].sequence = dl.sequence + k
    BY <1>2 DEF ChunkDelta, Delta
  <1>5. Partial(dl.sent, new, n) = new
    BY PartialAll
  <1> HIDE DEF n, deltas, o
  <1>6. Runs(deltas, dl.epoch, dl.sequence)
    BY <1>2, <1>4 DEF Runs
  <1>7. Numbered(dl) => Numbered(o.after)
    BY <1>2, <1>3, <1>6, NumberedGrows
  <1>8. Chains(dl, o)
    BY <1>2, <1>3, <1>6, <1>7 DEF Chains
  <1> QED
    BY <1>3, <1>5, <1>8 DEF o

\* A snapshot posts the pages of the new version.
LEMMA SnapshotChains ==
    ASSUME NEW dl \in Deliveries, NEW new \in Versions
    PROVE  LET o == SnapshotOutbox(dl, new)
           IN  /\ Chains(dl, o) /\ o.after.sent = new /\ o.after.owed = FALSE
               /\ Whole(o.bodies, dl.epoch, o.after.sequence, new)
  <1> DEFINE o == SnapshotOutbox(dl, new)
             n == PageCount(new)
             pages == [k \in 1..n |-> PageOf(dl.epoch, NextSequence(dl), new, k)]
  <1>1. /\ o.bodies = pages
        /\ o.after.epoch = dl.epoch /\ o.after.sequence = NextSequence(dl)
        /\ o.after.sent = new /\ o.after.unacked = <<>> /\ o.after.owed = FALSE
    BY DEF SnapshotOutbox, Outbox, Deliveries, PageOf, PageCount, Live
  <1>2. n \in Nat
    BY PageCountType
  <1>3. Len(pages) = n /\ \A k \in 1..n : pages[k] = PageOf(dl.epoch, NextSequence(dl), new, k)
    BY <1>2, LenProperties
  <1> HIDE DEF o, n, pages
  <1>4. Whole(o.bodies, dl.epoch, o.after.sequence, new)
    BY <1>1, <1>3 DEF Whole, n
  <1>5. Numbered(o.after)
    BY <1>1 DEF Numbered
  <1>6. Chains(dl, o)
    BY <1>1, <1>4, <1>5 DEF Chains
  <1> QED
    BY <1>1, <1>4, <1>6 DEF o

\* A refresh leaves the new version sent and nothing owed; where a snapshot
\* was owed, it is one.
LEMMA RefreshChains ==
    ASSUME NEW dl \in Deliveries, NEW new \in Versions
    PROVE  LET o == RefreshOutbox(dl, new)
           IN  /\ Chains(dl, o) /\ o.after.sent = new /\ ~o.after.owed
               /\ dl.owed \/ dl.sent = NoVersion
                    => Whole(o.bodies, dl.epoch, o.after.sequence, new)
  <1>1. CASE dl.owed \/ dl.sent = NoVersion
    <2>1. RefreshOutbox(dl, new) = SnapshotOutbox(dl, new)
      BY <1>1 DEF RefreshOutbox
    <2> QED
      BY <2>1, SnapshotChains
  <1>2. CASE ~(dl.owed \/ dl.sent = NoVersion)
    <2>1. RefreshOutbox(dl, new) = DeltasOutbox(dl, new)
      BY <1>2 DEF RefreshOutbox
    <2>2. dl.sent \in Versions /\ ~dl.owed
      BY <1>2 DEF Deliveries
    <2> QED
      BY <1>2, <2>1, <2>2, DeltasChains
  <1> QED
    BY <1>1, <1>2

\* A retraction posts one delta, or nothing.
LEMMA RetractChains ==
    ASSUME NEW dl \in Deliveries, NEW child \in Occurrences
    PROVE  LET o == RetractOutbox(dl, child)
           IN  /\ Chains(dl, o) /\ o.after.owed = dl.owed
               /\ o.after.sent = NoVersion <=> dl.sent = NoVersion
  <1> DEFINE o == RetractOutbox(dl, child)
  <1>1. CASE dl.owed \/ dl.sent = NoVersion
    <2>1. o.after = dl /\ o.bodies = <<>>
      BY <1>1 DEF RetractOutbox, Outbox
    <2> HIDE DEF o
    <2>2. Runs(o.bodies, dl.epoch, dl.sequence) /\ o.after.sequence = dl.sequence + Len(o.bodies)
      BY <2>1 DEF Runs, Deliveries
    <2>3. Chains(dl, o)
      BY <2>1, <2>2 DEF Chains
    <2> QED
      BY <2>1, <2>3 DEF o
  <1>2. CASE ~(dl.owed \/ dl.sent = NoVersion)
    <2> DEFINE version == [dl.sent EXCEPT ![child] = Absent]
               delta == Delta(dl.epoch, NextSequence(dl), Empty, {child}, version)
    <2>1. dl.sent \in Versions /\ version \in Versions /\ version # NoVersion
      BY <1>2, NoVersionAssumption DEF Versions, Objects, Deliveries
    <2>2. /\ o.bodies = <<delta>>
          /\ o.after.epoch = dl.epoch /\ o.after.sequence = NextSequence(dl)
          /\ o.after.sent = version /\ o.after.unacked = Append(dl.unacked, delta)
          /\ o.after.owed = dl.owed
      BY <1>2 DEF RetractOutbox, Outbox, Deliveries
    <2>3. /\ delta.type = "delta" /\ delta.epoch = dl.epoch
          /\ delta.sequence = NextSequence(dl)
      BY DEF Delta
    <2>4. dl.sequence \in Nat /\ NextSequence(dl) = dl.sequence + 1
      BY DEF NextSequence, Deliveries
    <2>5. delta \in Messages
      BY <2>1, <2>4, EmptyType DEF Delta, Messages, Deliveries
    <2> HIDE DEF o, delta, version
    <2>6. /\ <<delta>> \in Seq(Messages) /\ Len(<<delta>>) = 1 /\ <<delta>>[1] = delta
          /\ Append(dl.unacked, delta) = dl.unacked \o <<delta>>
      BY <2>5, AppendIsConcat DEF Deliveries
    <2>7. Runs(<<delta>>, dl.epoch, dl.sequence)
      <3>1. \A i \in 1..Len(<<delta>>) : i = 1
        BY <2>6
      <3> QED
        BY <2>3, <2>4, <2>6, <3>1 DEF Runs
    <2>8. Numbered(dl) => Numbered(o.after)
      BY <2>2, <2>4, <2>6, <2>7, NumberedGrows
    <2>9. Chains(dl, o)
      BY <2>2, <2>4, <2>6, <2>7, <2>8 DEF Chains
    <2>10. o.after.sent # NoVersion /\ dl.sent # NoVersion
      BY <1>2, <2>1, <2>2
    <2> QED
      BY <2>2, <2>9, <2>10 DEF o
  <1> QED
    BY <1>1, <1>2

\* After its first n messages, queue q is the deltas of the epoch that lead to
\* seq; before them come the last pages of the snapshot of `new`, of which the
\* stage holds the pages already read.
DeltaTail(q, n, epoch, seq) ==
    \A i \in 1..Len(q) : i > n => /\ q[i].type = "delta"
                                  /\ q[i].epoch = epoch
                                  /\ q[i].sequence + (Len(q) - i) = seq
PageTail(q, n, sg, epoch, high, new) ==
    /\ \A i \in 1..n : i + PageCount(new) > n =>
          q[i] = PageOf(epoch, high, new, i + PageCount(new) - n)
    /\ n < PageCount(new) => sg = StageAt(epoch, high, new, PageCount(new) - n)

\* A device with this cache and stage that reads q ends at the position: it is
\* as far behind as q is long, or q holds the rest of a snapshot.
OnTrack(cache, sg, q, epoch, seq) ==
    \/ /\ ~cache.corrupt /\ cache.epoch = epoch
       /\ cache.acked + Len(q) = seq
       /\ DeltaTail(q, 0, epoch, seq)
    \/ \E n \in 1..Len(q), new \in Versions :
          /\ DeltaTail(q, n, epoch, seq)
          /\ PageTail(q, n, sg, epoch, seq - (Len(q) - n), new)

\* More deltas behind a tail of deltas.
LEMMA DeltaTailRuns ==
    ASSUME NEW q \in Seq(Bodies), NEW b \in Seq(Bodies), NEW n \in 0..Len(q),
           NEW epoch, NEW seq \in Nat, DeltaTail(q, n, epoch, seq),
           Runs(b, epoch, seq)
    PROVE  DeltaTail(q \o b, n, epoch, seq + Len(b))
  <1> DEFINE c == q \o b
             l == Len(q)
             k == Len(b)
  <1>1. /\ Len(c) = l + k /\ l \in Nat /\ k \in Nat
        /\ \A i \in 1..l + k : c[i] = IF i <= l THEN q[i] ELSE b[i - l]
    BY ConcatProperties, LenProperties
  <1>2. \A m \in Bodies : m.type = "delta" => m.sequence \in Nat
    BY DEF Bodies, Messages, Pages
  <1>3. /\ \A i \in 1..l : i > n => /\ q[i].type = "delta" /\ q[i].epoch = epoch
                                   /\ q[i].sequence \in Nat
                                   /\ q[i].sequence + (l - i) = seq
        /\ \A i \in 1..k : /\ b[i].type = "delta" /\ b[i].epoch = epoch
                           /\ b[i].sequence = seq + i
    <2>1. \A i \in 1..Len(q) : q[i] \in Bodies
      BY ElementOfSeq
    <2> QED
      BY <1>2, <2>1 DEF DeltaTail, Runs
  <1> HIDE DEF c, l, k
  <1>4. ASSUME NEW i \in 1..l + k, i > n
        PROVE  /\ c[i].type = "delta" /\ c[i].epoch = epoch
               /\ c[i].sequence + ((l + k) - i) = seq + k
    <2>1. CASE i <= l
      <3>1. i \in 1..l /\ c[i] = q[i]
        BY <1>1, <2>1
      <3>2. /\ q[i].type = "delta" /\ q[i].epoch = epoch /\ q[i].sequence \in Nat
            /\ q[i].sequence + (l - i) = seq
        BY <1>3, <1>4, <3>1
      <3>3. \A x \in Nat : x + (l - i) = seq => x + ((l + k) - i) = seq + k
        BY <1>1
      <3> QED
        BY <3>1, <3>2, <3>3
    <2>2. CASE ~(i <= l)
      <3>1. i - l \in 1..k /\ c[i] = b[i - l]
        BY <1>1, <2>2
      <3>2. /\ b[i - l].type = "delta" /\ b[i - l].epoch = epoch
            /\ b[i - l].sequence = seq + (i - l)
        BY <1>3, <3>1
      <3>3. (seq + (i - l)) + ((l + k) - i) = seq + k
        BY <1>1
      <3> QED
        BY <3>1, <3>2, <3>3
    <2> QED
      BY <2>1, <2>2
  <1>5. Len(c) = l + k /\ c = q \o b /\ k = Len(b)
    BY <1>1 DEF c, k
  <1> QED
    BY <1>4, <1>5 DEF DeltaTail

\* Deltas posted behind what is on its way lead on from it.
LEMMA TrackRuns ==
    ASSUME NEW cache \in Caches, NEW sg, NEW q \in Seq(Bodies), NEW b \in Seq(Bodies),
           NEW epoch, NEW seq \in Nat, OnTrack(cache, sg, q, epoch, seq),
           Runs(b, epoch, seq)
    PROVE  OnTrack(cache, sg, q \o b, epoch, seq + Len(b))
  <1> DEFINE c == q \o b
             l == Len(q)
             k == Len(b)
  <1>1. /\ Len(c) = l + k /\ l \in Nat /\ k \in Nat
        /\ \A i \in 1..l : c[i] = q[i]
    BY ConcatProperties, LenProperties
  <1>2. cache.acked \in Nat
    BY DEF Caches
  <1>3. CASE /\ ~cache.corrupt /\ cache.epoch = epoch
             /\ cache.acked + Len(q) = seq /\ DeltaTail(q, 0, epoch, seq)
    <2>1. 0 \in 0..Len(q)
      BY LenProperties
    <2>2. DeltaTail(c, 0, epoch, seq + k)
      BY <1>3, <2>1, DeltaTailRuns
    <2>3. cache.acked + (l + k) = seq + k
      BY <1>1, <1>2, <1>3
    <2> QED
      BY <1>1, <1>3, <2>2, <2>3 DEF OnTrack
  <1>4. ASSUME NEW n \in 1..Len(q), NEW new \in Versions,
               DeltaTail(q, n, epoch, seq),
               PageTail(q, n, sg, epoch, seq - (Len(q) - n), new)
        PROVE  OnTrack(cache, sg, c, epoch, seq + k)
    <2>1. n \in 0..Len(q) /\ n \in 1..Len(c) /\ \A i \in 1..n : i \in 1..l
      BY <1>1
    <2>2. DeltaTail(c, n, epoch, seq + k)
      BY <1>4, <2>1, DeltaTailRuns
    <2>3. (seq + k) - (Len(c) - n) = seq - (Len(q) - n)
      BY <1>1
    <2>4. \A i \in 1..n : c[i] = q[i]
      BY <1>1, <2>1
    <2> HIDE DEF c, k
    <2>5. PageTail(c, n, sg, epoch, (seq + k) - (Len(c) - n), new)
      BY <1>4, <2>3, <2>4 DEF PageTail
    <2> QED
      BY <2>1, <2>2, <2>5 DEF OnTrack
  <1> QED
    BY <1>3, <1>4 DEF OnTrack

\* A whole snapshot leads to its position whatever is on its way before it.
LEMMA TrackWhole ==
    ASSUME NEW cache, NEW sg, NEW q \in Seq(Bodies), NEW b \in Seq(Bodies),
           NEW epoch, NEW seq \in Nat, NEW new \in Versions,
           Whole(b, epoch, seq, new)
    PROVE  OnTrack(cache, sg, q \o b, epoch, seq)
  <1> DEFINE c == q \o b
             l == Len(q)
             k == Len(b)
             p == PageCount(new)
  <1>1. /\ Len(c) = l + k /\ l \in Nat /\ k \in Nat
        /\ \A i \in 1..l + k : c[i] = IF i <= l THEN q[i] ELSE b[i - l]
    BY ConcatProperties, LenProperties
  <1>2. k = p /\ \A i \in 1..k : b[i] = PageOf(epoch, seq, new, i)
    BY DEF Whole
  <1>3. p \in Nat \ {0}
    BY PageCountType
  <1> HIDE DEF c, l, k, p
  <1>4. DeltaTail(c, l + k, epoch, seq)
    BY <1>1 DEF DeltaTail
  <1>5. l + k \in 1..Len(c) /\ seq - (Len(c) - (l + k)) = seq
    BY <1>1, <1>2, <1>3
  <1>6. ASSUME NEW i \in 1..l + k, i + p > l + k
        PROVE  c[i] = PageOf(epoch, seq, new, i + p - (l + k))
    <2>1. i > l /\ i - l \in 1..k /\ i + p - (l + k) = i - l
      BY <1>1, <1>2, <1>3, <1>6
    <2> QED
      BY <1>1, <1>2, <2>1
  <1>7. ~(l + k < p)
    BY <1>1, <1>2
  <1>8. PageTail(c, l + k, sg, epoch, seq, new)
    BY <1>6, <1>7 DEF PageTail, p
  <1>9. PageTail(c, l + k, sg, epoch, seq - (Len(c) - (l + k)), new)
    BY <1>5, <1>8
  <1>10. OnTrack(cache, sg, c, epoch, seq)
    BY <1>4, <1>5, <1>9 DEF OnTrack
  <1> QED
    BY <1>10 DEF c

\* One message fewer: what is left of a tail.
LEMMA TailRest ==
    ASSUME NEW q \in Seq(Bodies), q # <<>>
    PROVE  /\ Tail(q) \in Seq(Bodies) /\ Len(q) \in Nat \ {0}
           /\ Len(Tail(q)) = Len(q) - 1 /\ Head(q) = q[1]
           /\ \A i \in 1..Len(Tail(q)) : Tail(q)[i] = q[i + 1]
           /\ \A n \in Nat : \A epoch, seq :
                 DeltaTail(q, n + 1, epoch, seq) => DeltaTail(Tail(q), n, epoch, seq)
           /\ \A epoch, seq :
                 DeltaTail(q, 0, epoch, seq) => DeltaTail(Tail(q), 0, epoch, seq)
  <1> DEFINE r == Tail(q)
             l == Len(r)
  <1>1. /\ r \in Seq(Bodies) /\ Len(q) \in Nat \ {0} /\ Head(q) = q[1]
        /\ l = Len(q) - 1 /\ \A i \in 1..l : r[i] = q[i + 1]
    BY HeadTailProperties, EmptySeq, LenProperties
  <1>2. l \in Nat /\ Len(q) = l + 1
    BY <1>1
  <1> HIDE DEF r, l
  <1>3. \A i \in 1..l : i + 1 \in 1..l + 1 /\ (l + 1) - (i + 1) = l - i
    BY <1>2
  <1>4. ASSUME NEW n \in Nat, NEW epoch, NEW seq, DeltaTail(q, n + 1, epoch, seq)
        PROVE  DeltaTail(r, n, epoch, seq)
    <2>1. \A i \in 1..l : i > n => i + 1 > n + 1
      BY <1>2
    <2>2. \A i \in 1..l + 1 : i > n + 1 => /\ q[i].type = "delta" /\ q[i].epoch = epoch
                                            /\ q[i].sequence + ((l + 1) - i) = seq
      BY <1>2, <1>4 DEF DeltaTail
    <2>3. \A i \in 1..l : i > n => /\ r[i].type = "delta" /\ r[i].epoch = epoch
                                    /\ r[i].sequence + (l - i) = seq
      BY <1>1, <1>3, <2>1, <2>2
    <2> QED
      BY <2>3 DEF DeltaTail, l
  <1>5. ASSUME NEW epoch, NEW seq, DeltaTail(q, 0, epoch, seq)
        PROVE  DeltaTail(r, 0, epoch, seq)
    <2>1. \A i \in 1..l : i > 0 => i + 1 > 0
      BY <1>2
    <2>2. \A i \in 1..l + 1 : i > 0 => /\ q[i].type = "delta" /\ q[i].epoch = epoch
                                        /\ q[i].sequence + ((l + 1) - i) = seq
      BY <1>2, <1>5 DEF DeltaTail
    <2>3. \A i \in 1..l : i > 0 => /\ r[i].type = "delta" /\ r[i].epoch = epoch
                                    /\ r[i].sequence + (l - i) = seq
      BY <1>1, <1>3, <2>1, <2>2
    <2> QED
      BY <2>3 DEF DeltaTail, l
  <1> QED
    BY <1>1, <1>4, <1>5 DEF r, l

\* A page behind the pages read: what the device makes of it.
LEMMA PageRead ==
    ASSUME NEW epoch, NEW high, NEW new \in Versions, NEW k \in Nat,
           k < PageCount(new), NEW p, p = PageOf(epoch, high, new, k + 1),
           k > 0 => stage = StageAt(epoch, high, new, k)
    PROVE  /\ StageFor(p) = StageAt(epoch, high, new, k)
           /\ Fits(p) /\ Staged(p) = Front(new, k + 1)
           /\ Completes(p) <=> k + 1 = PageCount(new)
  <1>1. /\ p.index = k /\ p.epoch = epoch /\ p.high = high
        /\ p.count = PageCount(new) /\ p.digest = new
        /\ p.put = PageOf(0, 0, new, k + 1).put
    BY DEF PageOf
  <1>2. /\ Front(new, 0) = Empty /\ Front(new, PageCount(new)) = new
        /\ \A id \in Occurrences :
              (IF PageOf(0, 0, new, k + 1).put[id] # Absent
               THEN PageOf(0, 0, new, k + 1).put[id] ELSE Front(new, k)[id])
                 = Front(new, k + 1)[id]
    BY FrontSteps
  <1>3. PageCount(new) \in Nat \ {0}
    BY PageCountType
  <1>4. StageFor(p) = StageAt(epoch, high, new, k)
    <2>1. CASE k = 0
      BY <1>1, <1>2, <2>1 DEF StageFor, StageAt
    <2>2. CASE k # 0
      BY <1>1, <2>2 DEF StageFor
    <2> QED
      BY <2>1, <2>2
  <1>5. /\ StageFor(p).epoch = epoch /\ StageFor(p).high = high
        /\ StageFor(p).count = PageCount(new) /\ StageFor(p).digest = new
        /\ StageFor(p).next = k /\ StageFor(p).values = Front(new, k)
    BY <1>4 DEF StageAt
  <1>6. Fits(p)
    BY <1>1, <1>3, <1>5 DEF Fits
  <1>7. Staged(p) = Front(new, k + 1)
    <2>1. Staged(p) = [id \in Occurrences |-> Front(new, k + 1)[id]]
      BY <1>1, <1>2, <1>5 DEF Staged
    <2> QED
      BY <2>1 DEF Front
  <1>8. Completes(p) <=> k + 1 = PageCount(new)
    <2>1. CASE k + 1 = PageCount(new)
      BY <1>1, <1>2, <1>3, <1>6, <1>7, <2>1 DEF Completes
    <2>2. CASE k + 1 # PageCount(new)
      <3>1. ~(p.index + 1 >= p.count)
        BY <1>1, <1>3, <2>2
      <3> QED
        BY <2>2, <3>1 DEF Completes
    <2> QED
      BY <2>1, <2>2
  <1> QED
    BY <1>4, <1>6, <1>7, <1>8

\* Where the rest of a snapshot is on its way: the next message is before its
\* pages, and may do anything; or it is the page that is due.
LEMMA TrackedPage ==
    ASSUME NEW q \in Seq(Bodies), q # <<>>, NEW sg, NEW epoch, NEW seq \in Nat,
           NEW n \in 1..Len(q), NEW new \in Versions,
           DeltaTail(q, n, epoch, seq),
           PageTail(q, n, sg, epoch, seq - (Len(q) - n), new)
    PROVE  \/ /\ n > PageCount(new)
              /\ \A cache, sg2 : OnTrack(cache, sg2, Tail(q), epoch, seq)
           \/ /\ n <= PageCount(new)
              /\ Head(q) = PageOf(epoch, seq - (Len(q) - n), new, (PageCount(new) - n) + 1)
              /\ n < PageCount(new) =>
                    sg = StageAt(epoch, seq - (Len(q) - n), new, PageCount(new) - n)
              /\ n > 1 => \A cache : OnTrack(cache,
                    StageAt(epoch, seq - (Len(q) - n), new, (PageCount(new) - n) + 1),
                    Tail(q), epoch, seq)
  <1> DEFINE r == Tail(q)
             p == PageCount(new)
             high == seq - (Len(q) - n)
             at == (p - n) + 1
  <1>1. /\ r \in Seq(Bodies) /\ Len(q) \in Nat \ {0}
        /\ Len(r) = Len(q) - 1 /\ Head(q) = q[1]
        /\ \A i \in 1..Len(r) : r[i] = q[i + 1]
    BY TailRest
  <1>2. p \in Nat \ {0}
    BY PageCountType
  <1>3. n \in Nat /\ n - 1 \in Nat /\ (n - 1) + 1 = n
    OBVIOUS
  <1>4. DeltaTail(r, n - 1, epoch, seq)
    BY <1>3, TailRest
  <1>5. high = seq - (Len(r) - (n - 1))
    BY <1>1
  <1>6. \A i \in 1..n : i + p > n => q[i] = PageOf(epoch, high, new, i + p - n)
    BY DEF PageTail
  <1> HIDE DEF r, p, high, at
  <1>7. \A i \in 1..n - 1 : i + p > n - 1 => r[i] = PageOf(epoch, high, new, i + p - (n - 1))
    <2> SUFFICES ASSUME NEW i \in 1..n - 1, i + p > n - 1
                 PROVE  r[i] = PageOf(epoch, high, new, i + p - (n - 1))
      OBVIOUS
    <2>1. /\ i \in 1..Len(r) /\ i + 1 \in 1..n /\ (i + 1) + p > n
          /\ (i + 1) + p - n = i + p - (n - 1)
      BY <1>1, <1>2
    <2> QED
      BY <1>1, <1>6, <2>1
  <1>8. ASSUME n > 1, NEW sg2, NEW cache,
               n - 1 < p => sg2 = StageAt(epoch, high, new, p - (n - 1))
        PROVE  OnTrack(cache, sg2, r, epoch, seq)
    <2>1. n - 1 \in 1..Len(r)
      BY <1>1, <1>8
    <2>2. PageTail(r, n - 1, sg2, epoch, high, new)
      BY <1>7, <1>8 DEF PageTail, p
    <2>3. PageTail(r, n - 1, sg2, epoch, seq - (Len(r) - (n - 1)), new)
      BY <1>5, <2>2
    <2> QED
      BY <1>4, <2>1, <2>3 DEF OnTrack
  <1>9. CASE n > p
    <2>1. n > 1 /\ ~(n - 1 < p)
      BY <1>2, <1>9
    <2>2. \A cache, sg2 : OnTrack(cache, sg2, r, epoch, seq)
      BY <1>8, <2>1
    <2> QED
      BY <1>9, <2>2 DEF r, p
  <1>10. CASE ~(n > p)
    <2>1. n <= p /\ 1 \in 1..n /\ 1 + p > n /\ 1 + p - n = at
      BY <1>2, <1>10 DEF at
    <2>2. Head(q) = PageOf(epoch, high, new, at)
      BY <1>1, <1>6, <2>1
    <2>3. n < p => sg = StageAt(epoch, high, new, p - n)
      BY DEF PageTail, p, high
    <2>4. p - (n - 1) = at
      BY <1>2 DEF at
    <2>5. n > 1 => \A cache : OnTrack(cache, StageAt(epoch, high, new, at), r, epoch, seq)
      BY <1>8, <2>4
    <2> QED
      BY <2>1, <2>2, <2>3, <2>5 DEF r, p, high, at
  <1> QED
    BY <1>9, <1>10

\* The session's order.  A live session is announced behind what the service
\* has not read of earlier ones, or is the attached one; until it is attached,
\* nothing is on its way to the device, which is where its hello says.
Announced(i) == up[i].type = "attach" /\ up[i].session = link.session
Session ==
    /\ link.state = "up" => link.session # 0
    /\ link.state = "down" => down = <<>>
    /\ att.session <= link.session
    /\ \A i \in 1..Len(up) : up[i].session <= link.session
    /\ \A i \in 1..Len(up) : up[i].type = "attach" =>
          /\ att.session < up[i].session
          /\ \A j \in 1..i - 1 : up[j].session < up[i].session
    /\ link.state = "up" =>
          /\ \A i \in 1..Len(up) : up[i].type = "detach" => up[i].session < link.session
          /\ att.session = link.session \/ \E i \in 1..Len(up) : Announced(i)
          /\ \A i \in 1..Len(up) : Announced(i) =>
                down = <<>> /\ up[i].epoch = Hello.epoch /\ up[i].acked = Hello.acked

\* Types of the numbers of sessions.
LEMMA SessionNumbers ==
    ASSUME TypeInv
    PROVE  /\ att.session \in Nat /\ link.session \in Nat /\ Len(up) \in Nat
           /\ \A i \in 1..Len(up) : up[i].session \in Nat
  <1>1. up \in Seq(EventsUp) /\ \A e \in EventsUp : e.session \in Nat
    BY DEF TypeInv, TypeOK, EventsUp
  <1>2. \A i \in 1..Len(up) : up[i] \in EventsUp
    BY <1>1, ElementOfSeq
  <1>3. att.session \in Nat /\ link.session \in Nat
    BY DEF TypeInv, TypeOK, Sessions, Links
  <1> QED
    BY <1>1, <1>2, <1>3, LenProperties

\* What is left of the events once the first is read.
LEMMA EventsLeft ==
    ASSUME TypeInv, up # <<>>
    PROVE  /\ Len(up) \in Nat \ {0} /\ Head(up) = up[1]
           /\ Len(Tail(up)) = Len(up) - 1
           /\ \A i \in 1..Len(Tail(up)) : i + 1 \in 2..Len(up) /\ Tail(up)[i] = up[i + 1]
           /\ \A i \in 2..Len(up) : i - 1 \in 1..Len(Tail(up)) /\ Tail(up)[i - 1] = up[i]
  <1>1. up \in Seq(EventsUp)
    BY DEF TypeInv, TypeOK
  <1>2. /\ Len(up) \in Nat \ {0} /\ Head(up) = up[1]
        /\ Len(Tail(up)) = Len(up) - 1
        /\ \A i \in 1..Len(Tail(up)) : Tail(up)[i] = up[i + 1]
    BY <1>1, HeadTailProperties, EmptySeq, LenProperties
  <1>3. \A i \in 1..Len(Tail(up)) : i + 1 \in 2..Len(up)
    BY <1>2
  <1>4. \A i \in 2..Len(up) : i - 1 \in 1..Len(Tail(up)) /\ (i - 1) + 1 = i
    BY <1>2
  <1> QED
    BY <1>2, <1>3, <1>4

\* Reading one event keeps the order of sessions.
LEMMA ReadSession ==
    ASSUME TypeInv, TypeInv', Session, up # <<>>, up' = Tail(up), UNCHANGED <<link, dev>>,
           att'.session <= link.session,
           \A i \in 2..Len(up) : up[i].type = "attach" => att'.session < up[i].session,
           link.state = "up" => \/ att'.session = link.session
                                \/ \E i \in 2..Len(up) : Announced(i),
           (link.state = "up" /\ att'.session = link.session) \/ down' = down
    PROVE  Session'
  <1> DEFINE n == Len(up)
             m == Len(up')
  <1>1. /\ n \in Nat \ {0} /\ m = n - 1
        /\ \A i \in 1..m : i + 1 \in 2..n /\ up'[i] = up[i + 1]
        /\ \A i \in 2..n : i - 1 \in 1..m /\ up'[i - 1] = up[i]
    BY EventsLeft
  <1>2. \A i \in 2..n : i \in 1..n
    OBVIOUS
  <1>3. /\ att.session \in Nat /\ link.session \in Nat /\ att'.session \in Nat
        /\ \A i \in 1..n : up[i].session \in Nat
    <2>1. att'.session \in Nat
      BY DEF TypeInv, TypeOK, Sessions
    <2> QED
      BY <2>1, SessionNumbers
  <1>4. \A i \in 1..m : up'[i].session <= link.session
    BY <1>1, <1>2 DEF Session
  <1>5. ASSUME NEW i \in 1..m, up'[i].type = "attach"
        PROVE  /\ att'.session < up'[i].session
               /\ \A j \in 1..i - 1 : up'[j].session < up'[i].session
    <2>1. att'.session < up[i + 1].session
      BY <1>1, <1>5
    <2>2. \A j \in 1..i : up[j].session < up[i + 1].session
      <3>1. i + 1 \in 1..n /\ up[i + 1].type = "attach" /\ (i + 1) - 1 = i
        BY <1>1, <1>2, <1>5
      <3> QED
        BY <3>1 DEF Session
    <2>3. \A j \in 1..i - 1 : j \in 1..m /\ j + 1 \in 1..i
      BY <1>1
    <2> QED
      BY <1>1, <2>1, <2>2, <2>3
  <1>6. ASSUME link.state = "up"
        PROVE  /\ \A i \in 1..m : up'[i].type = "detach" => up'[i].session < link.session
               /\ att'.session = link.session \/ \E i \in 1..m : Announced(i)'
               /\ \A i \in 1..m : Announced(i)' =>
                     down' = <<>> /\ up'[i].epoch = Hello.epoch /\ up'[i].acked = Hello.acked
    <2>1. \A i \in 1..m : up'[i].type = "detach" => up'[i].session < link.session
      BY <1>1, <1>2, <1>6 DEF Session
    <2>2. \A i \in 1..m : Announced(i)' <=> Announced(i + 1)
      BY <1>1 DEF Announced
    <2>3. att'.session = link.session \/ \E i \in 1..m : Announced(i)'
      <3>1. ASSUME NEW i \in 2..n, Announced(i)
            PROVE  \E k \in 1..m : Announced(k)'
        BY <1>1, <3>1 DEF Announced
      <3> QED
        BY <1>6, <3>1
    <2>4. ASSUME NEW i \in 1..m, Announced(i)'
          PROVE  down' = <<>> /\ up'[i].epoch = Hello.epoch /\ up'[i].acked = Hello.acked
      <3>1. Announced(i + 1) /\ i + 1 \in 2..n /\ i + 1 \in 1..n /\ up'[i] = up[i + 1]
        BY <1>1, <1>2, <2>2, <2>4
      <3>2. att'.session # link.session
        <4>1. att'.session < link.session
          BY <3>1 DEF Announced
        <4> QED
          BY <1>3, <4>1
      <3> QED
        BY <1>6, <3>1, <3>2 DEF Session
    <2> QED
      BY <2>1, <2>3, <2>4
  <1>7. Hello' = Hello
    BY DEF Hello
  <1>8. (link.state = "up" => link.session # 0) /\ (link.state = "down" => down' = <<>>)
    BY DEF Session
  <1> HIDE DEF n, m
  <1> QED
    BY <1>4, <1>5, <1>6, <1>7, <1>8 DEF Session, m

\* So does a turn that reads none.
LEMMA TurnSession ==
    ASSUME TypeInv, Session, UNCHANGED <<att, link, up, dev>>,
           (link.state = "up" /\ att.session = link.session) \/ down' = down
    PROVE  Session'
  <1>1. ASSUME link.state = "up", NEW i \in 1..Len(up), Announced(i)
        PROVE  down' = <<>>
    <2>1. att.session < link.session
      BY <1>1 DEF Session, Announced
    <2>2. att.session # link.session
      BY <2>1, SessionNumbers
    <2> QED
      BY <1>1, <2>2 DEF Session
  <1>2. Hello' = Hello /\ \A i : Announced(i)' <=> Announced(i)
    BY DEF Hello, Announced
  <1>3. link.state = "down" => down' = <<>>
    BY DEF Session
  <1> QED
    BY <1>1, <1>2, <1>3 DEF Session

\* A device that reads a message is past the hello of its session.
LEMMA ReplySession ==
    ASSUME TypeInv, Session, down # <<>>, UNCHANGED <<att, link>>,
           NEW ack, ack.type = "ack", ack.session = link.session,
           up' = up \/ up' = Append(up, ack)
    PROVE  Session'
  <1> DEFINE n == Len(up)
             m == Len(up')
  <1>1. link.state # "down"
    BY DEF Session
  <1>2. /\ n \in Nat /\ link.session \in Nat
        /\ \A i \in 1..n : up'[i] = up[i]
        /\ m = n \/ (m = n + 1 /\ up'[n + 1] = ack)
    <2>1. CASE up' = up
      <3>1. Len(up') = Len(up) /\ \A i : up'[i] = up[i]
        BY <2>1
      <3> QED
        BY <3>1, SessionNumbers
    <2>2. CASE up' = Append(up, ack)
      <3>1. up \in Seq(EventsUp) /\ up \in Seq(EventsUp \cup {ack})
        BY SeqMonotonic DEF TypeInv, TypeOK
      <3>2. m = n + 1 /\ up'[n + 1] = ack /\ \A i \in 1..n : up'[i] = up[i]
        BY <2>2, <3>1, AppendProperties
      <3> QED
        BY <3>2, SessionNumbers
    <2> QED
      BY <2>1, <2>2
  <1> HIDE DEF n, m
  <1>3. \A i \in 1..m :
           \/ i \in 1..n
           \/ i = n + 1 /\ up'[i].type = "ack" /\ up'[i].session = link.session
    <2>1. CASE m = n
      BY <2>1
    <2>2. CASE m = n + 1 /\ up'[n + 1] = ack
      <3>1. \A i \in 1..n + 1 : i \in 1..n \/ i = n + 1
        BY <1>2
      <3> QED
        BY <2>2, <3>1
    <2> QED
      BY <1>2, <2>1, <2>2
  <1>5. link.state = "up" => \A i \in 1..n : ~Announced(i)
    BY DEF Session, n
  <1>6. link.state = "up" => att.session = link.session
    BY <1>5 DEF Session, n
  <1>7. \A i \in 1..m : up'[i].session <= link.session
    <2>1. \A i \in 1..n : up'[i].session <= link.session
      BY <1>2 DEF Session, n
    <2> QED
      BY <1>2, <1>3, <2>1
  <1>8. ASSUME NEW i \in 1..m, up'[i].type = "attach"
        PROVE  /\ att.session < up'[i].session
               /\ \A j \in 1..i - 1 : up'[j].session < up'[i].session
    <2>1. i \in 1..n /\ up[i].type = "attach"
      BY <1>2, <1>3, <1>8
    <2>2. \A j \in 1..i - 1 : j \in 1..n
      BY <1>2, <2>1
    <2>3. att.session < up[i].session /\ \A j \in 1..i - 1 : up[j].session < up[i].session
      BY <2>1 DEF Session, n
    <2> QED
      BY <1>2, <2>1, <2>2, <2>3
  <1>9. ASSUME link.state = "up"
        PROVE  /\ \A i \in 1..m : up'[i].type = "detach" => up'[i].session < link.session
               /\ \A i \in 1..m : ~Announced(i)'
    <2>1. \A i \in 1..m : up'[i].type = "detach" => up'[i].session < link.session
      <3>1. \A i \in 1..n : up[i].type = "detach" => up[i].session < link.session
        BY <1>9 DEF Session, n
      <3> QED
        BY <1>2, <1>3, <3>1
    <2>2. \A i \in 1..m : ~Announced(i)'
      BY <1>2, <1>3, <1>5, <1>9 DEF Announced
    <2> QED
      BY <2>1, <2>2
  <1>10. link.state = "up" => link.session # 0
    BY DEF Session
  <1> QED
    BY <1>1, <1>6, <1>7, <1>8, <1>9, <1>10 DEF Session, m

\* A new session is announced behind everything else.
LEMMA ConnectSession ==
    ASSUME TypeInv, Session, Connect
    PROVE  Session'
  <1> DEFINE n == Len(up)
             s == link.session + 1
             e == [type |-> "attach", session |-> s,
                   epoch |-> Hello.epoch, acked |-> Hello.acked]
  <1>1. /\ link.state = "down" /\ down = <<>>
        /\ link'.state = "up" /\ link'.session = s
        /\ UNCHANGED <<att, down, dev>> /\ up' = Append(up, e)
    BY DEF Connect, Session
  <1>2. /\ n \in Nat /\ link.session \in Nat /\ att.session \in Nat
        /\ \A i \in 1..n : up[i].session \in Nat
    BY SessionNumbers
  <1>3. e.type = "attach" /\ e.session = s /\ e.epoch = Hello.epoch /\ e.acked = Hello.acked
    OBVIOUS
  <1> HIDE DEF e
  <1>4. /\ Len(up') = n + 1 /\ up'[n + 1] = e
        /\ \A i \in 1..n : up'[i] = up[i]
    <2>1. up \in Seq(EventsUp \cup {e})
      BY SeqMonotonic DEF TypeInv, TypeOK
    <2> QED
      BY <1>1, <2>1, AppendProperties
  <1> HIDE DEF n
  <1>5. \A i \in 1..n + 1 : i \in 1..n \/ i = n + 1
    BY <1>2
  <1>6. \A i \in 1..n : up[i].session < s /\ up[i].session <= s
    BY <1>2 DEF Session, n
  <1>7. att.session < s /\ att.session <= s /\ s # 0 /\ s <= s
    BY <1>2 DEF Session
  <1>8. ASSUME NEW i \in 1..n + 1, up'[i].type = "attach"
        PROVE  /\ att.session < up'[i].session
               /\ \A j \in 1..i - 1 : up'[j].session < up'[i].session
    <2>1. \A j \in 1..i - 1 : j \in 1..n
      BY <1>2
    <2>2. CASE i \in 1..n
      <3>1. att.session < up[i].session /\ \A j \in 1..i - 1 : up[j].session < up[i].session
        BY <1>4, <1>8, <2>2 DEF Session, n
      <3> QED
        BY <1>4, <2>1, <2>2, <3>1
    <2>3. CASE i = n + 1
      BY <1>3, <1>4, <1>6, <1>7, <2>1, <2>3
    <2> QED
      BY <1>5, <2>2, <2>3
  <1>9. \A i \in 1..n + 1 : up'[i].session <= s
    BY <1>3, <1>4, <1>5, <1>6, <1>7
  <1>10. \A i \in 1..n + 1 : up'[i].type = "detach" => up'[i].session < s
    BY <1>3, <1>4, <1>5, <1>6
  <1>11. \E i \in 1..n + 1 : up'[i].type = "attach" /\ up'[i].session = s
    <2>1. n + 1 \in 1..n + 1
      BY <1>2
    <2> QED
      BY <1>3, <1>4, <2>1
  <1>12. ASSUME NEW i \in 1..n + 1, Announced(i)'
         PROVE  down' = <<>> /\ up'[i].epoch = Hello'.epoch /\ up'[i].acked = Hello'.acked
    <2>1. up'[i].session = s
      BY <1>1, <1>12 DEF Announced
    <2>2. i \notin 1..n
      <3>1. \A x \in Nat : x < s => x # s
        BY <1>2
      <3> QED
        BY <1>2, <1>4, <1>6, <2>1, <3>1
    <2>3. i = n + 1 /\ Hello' = Hello
      BY <1>1, <1>5, <2>2 DEF Hello
    <2> QED
      BY <1>1, <1>3, <1>4, <2>3
  <1>13. att' = att /\ Len(up') = n + 1
    BY <1>1, <1>4
  <1> HIDE DEF s
  <1>14. \E i \in 1..n + 1 : Announced(i)'
    BY <1>1, <1>11 DEF Announced
  <1>15. /\ \A i \in 1..Len(up') : up'[i].session <= link'.session
         /\ \A i \in 1..Len(up') : up'[i].type = "attach" =>
               /\ att'.session < up'[i].session
               /\ \A j \in 1..i - 1 : up'[j].session < up'[i].session
    BY <1>1, <1>8, <1>9, <1>13
  <1>16. /\ \A i \in 1..Len(up') : up'[i].type = "detach" => up'[i].session < link'.session
         /\ \E i \in 1..Len(up') : Announced(i)'
         /\ \A i \in 1..Len(up') : Announced(i)' =>
               down' = <<>> /\ up'[i].epoch = Hello'.epoch /\ up'[i].acked = Hello'.acked
    BY <1>1, <1>10, <1>12, <1>13, <1>14
  <1>17. link'.state # "down" /\ link'.session # 0 /\ att'.session <= link'.session
    BY <1>1, <1>7, <1>13
  <1> QED
    BY <1>15, <1>16, <1>17 DEF Session

\* A session that is over: only what its past announced matters.
LEMMA OverSession ==
    ASSUME TypeInv, Session, link'.state # "up", link'.session = link.session,
           link'.state = "down" => down' = <<>>,
           att' = att \/ att' = NoSession,
           \/ up' = up \/ up' = <<>>
    PROVE  Session'
  <1>1. att.session \in Nat /\ link.session \in Nat /\ \A i \in 1..Len(up) : up[i].session \in Nat
    BY SessionNumbers
  <1>2. att'.session = att.session \/ att'.session = 0
    BY DEF NoSession
  <1>3. att'.session <= link'.session
    BY <1>1, <1>2 DEF Session
  <1>4. CASE up' = <<>>
    <2>1. \A i \in 1..Len(up') : FALSE
      BY <1>4
    <2> QED
      BY <1>3, <2>1 DEF Session
  <1>5. CASE up' = up
    <2>1. \A i \in 1..Len(up') : up'[i].session <= link'.session
      BY <1>5 DEF Session
    <2>2. ASSUME NEW i \in 1..Len(up'), up'[i].type = "attach"
          PROVE  /\ att'.session < up'[i].session
                 /\ \A j \in 1..i - 1 : up'[j].session < up'[i].session
      <3>1. /\ i \in 1..Len(up) /\ att.session < up[i].session
            /\ \A j \in 1..i - 1 : up[j].session < up[i].session
        BY <1>5, <2>2 DEF Session
      <3>2. att'.session < up[i].session
        BY <1>1, <1>2, <3>1
      <3> QED
        BY <1>5, <3>1, <3>2
    <2> QED
      BY <1>3, <2>1, <2>2 DEF Session
  <1> QED
    BY <1>4, <1>5

\* The end of a session is reported behind everything else.
LEMMA EndSessionSession ==
    ASSUME TypeInv, Session, EndSession
    PROVE  Session'
  <1>1. link'.state = "dying" /\ link'.session = link.session /\ UNCHANGED att
    BY DEF EndSession, TypeInv, TypeOK, Links
  <1>2. PICK kept \in 0..Len(up) :
           \E report \in {<<>>, <<[type |-> "detach", session |-> link.session]>>} :
              up' = SubSeq(up, 1, kept) \o report
    BY DEF EndSession
  <1>3. /\ Len(up) \in Nat /\ link.session \in Nat
        /\ \A i \in 1..Len(up) : up[i].session \in Nat
    BY SessionNumbers
  <1> DEFINE front == SubSeq(up, 1, kept)
             e == [type |-> "detach", session |-> link.session]
             n == Len(up')
  <1>4. /\ front \in Seq(EventsUp) /\ Len(front) = kept
        /\ \A i \in 1..kept : i \in 1..Len(up) /\ front[i] = up[i]
    <2>1. up \in Seq(EventsUp)
      BY DEF TypeInv, TypeOK
    <2>2. \A i \in 1..kept : i \in 1..Len(up) /\ up[i] \in EventsUp
      BY <1>3, <2>1, ElementOfSeq
    <2>3. /\ front \in Seq(EventsUp)
          /\ Len(front) = IF 1 <= kept THEN kept - 1 + 1 ELSE 0
          /\ \A i \in 1..(kept - 1 + 1) : front[i] = up[1 + i - 1]
      BY <1>3, <2>1, <2>2, SubSeqProperties
    <2>4. kept - 1 + 1 = kept /\ \A i \in 1..kept : 1 + i - 1 = i
      BY <1>3
    <2>5. (IF 1 <= kept THEN kept - 1 + 1 ELSE 0) = kept
      BY <1>3
    <2> QED
      BY <2>2, <2>3, <2>4, <2>5
  <1>5. e \in EventsUp /\ e.type = "detach" /\ e.session = link.session
    BY <1>3 DEF EventsUp
  <1> HIDE DEF front, e
  <1>6. /\ \A i \in 1..n : \/ i \in 1..kept /\ up'[i] = up[i]
                           \/ i = kept + 1 /\ up'[i] = e
        /\ \A i \in 1..n : \A j \in 1..i - 1 : j \in 1..kept /\ j \in 1..n
    <2>1. CASE up' = front \o <<>>
      <3>1. up' = front
        BY <1>4, <2>1, ConcatEmptySeq
      <3> QED
        BY <1>3, <1>4, <3>1
    <2>2. CASE up' = front \o <<e>>
      <3>1. <<e>> \in Seq(EventsUp) /\ Len(<<e>>) = 1 /\ <<e>>[1] = e
        BY <1>5
      <3>2. /\ n = kept + 1
            /\ \A i \in 1..kept + 1 : up'[i] = IF i <= kept THEN front[i] ELSE <<e>>[i - kept]
        BY <1>4, <2>2, <3>1, ConcatProperties
      <3>3. \A i \in 1..kept + 1 : i \in 1..kept \/ (i = kept + 1 /\ ~(i <= kept) /\ i - kept = 1)
        BY <1>3
      <3>4. \A i \in 1..kept : i \in 1..kept + 1 /\ i <= kept
        BY <1>3
      <3>5. \A i \in 1..n : \/ i \in 1..kept /\ up'[i] = up[i]
                            \/ i = kept + 1 /\ up'[i] = e
        BY <1>4, <3>1, <3>2, <3>3, <3>4
      <3>6. \A i \in 1..n : \A j \in 1..i - 1 : j \in 1..kept /\ j \in 1..n
        <4> HIDE DEF n
        <4> QED
          BY <1>3, <3>2
      <3> QED
        BY <3>5, <3>6
    <2> QED
      BY <1>2, <2>1, <2>2 DEF front, e
  <1> HIDE DEF n
  <1>7. \A i \in 1..n : up'[i].session <= link.session
    <2>1. link.session <= link.session
      BY <1>3
    <2> QED
      BY <1>4, <1>5, <1>6, <2>1 DEF Session
  <1>8. ASSUME NEW i \in 1..n, up'[i].type = "attach"
        PROVE  /\ att.session < up'[i].session
               /\ \A j \in 1..i - 1 : up'[j].session < up'[i].session
    <2>1. i \in 1..kept /\ i \in 1..Len(up) /\ up'[i] = up[i]
      BY <1>4, <1>5, <1>6, <1>8
    <2>2. att.session < up[i].session /\ \A j \in 1..i - 1 : up[j].session < up[i].session
      BY <1>8, <2>1 DEF Session
    <2>3. \A j \in 1..i - 1 : up'[j] = up[j]
      <3>1. \A j \in 1..i - 1 : j \in 1..kept /\ j \in 1..n
        BY <1>6
      <3>2. kept + 1 \notin 1..kept
        BY <1>3
      <3> QED
        BY <1>6, <3>1, <3>2
    <2> QED
      BY <2>1, <2>2, <2>3
  <1>9. att.session <= link.session
    BY DEF Session
  <1> QED
    BY <1>1, <1>7, <1>8, <1>9 DEF Session, n

\* A speaker attached to a session has been sent what the service last saw of
\* the calendar; before it saw any, nothing was sent.
Brought ==
    /\ bound /\ att.session # 0 /\ desired # NoVersion => d.sent = desired /\ ~d.owed
    /\ desired = NoVersion => d.sent = NoVersion

\* An acknowledgement of this session that asks for a snapshot is on its way.
Asked ==
    \E i \in 1..Len(up) : /\ up[i].type = "ack" /\ up[i].session = link.session
                          /\ up[i].need

\* On the attached session, what was sent arrives or is asked for again.
Sync ==
    bound /\ link.state = "up" /\ att.session = link.session /\ d.sent # NoVersion
    => Asked \/ OnTrack(dev, stage, down, d.epoch, d.sequence)

\* No acknowledgement was dropped by a full queue, and every position was
\* recorded.
NoLoss == left["drop"] = Budget["drop"] /\ AllRecorded

SteadyInv ==
    SafeInv /\ Session /\ Brought /\ Numbered(d) /\ (NoLoss => Sync)

\* A turn none of whose writes failed leaves the device on track behind what
\* is on its way, unless it asked for a snapshot.
Leads(turn, asked) ==
    turn.failed = 0 /\ turn.d.sent # NoVersion
    => asked \/ OnTrack(dev, stage, down \o turn.posts, turn.d.epoch, turn.d.sequence)

\* Bodies behind bodies behind bodies.
LEMMA BodiesAssociative ==
    ASSUME NEW a \in Seq(Bodies), NEW b \in Seq(Bodies), NEW c \in Seq(Bodies)
    PROVE  (a \o b) \o c = a \o (b \o c)
  <1> DEFINE ab == a \o b
             bc == b \o c
             x == ab \o c
             y == a \o bc
             l == Len(a)
             m == Len(b)
             n == Len(c)
  <1>0. \A s, t \in Seq(Bodies) :
           /\ s \o t \in Seq(Bodies) /\ Len(s \o t) = Len(s) + Len(t)
           /\ \A i \in 1..Len(s) + Len(t) :
                 (s \o t)[i] = IF i <= Len(s) THEN s[i] ELSE t[i - Len(s)]
    BY ConcatProperties
  <1>1. l \in Nat /\ m \in Nat /\ n \in Nat
    BY LenProperties
  <1>2. /\ ab \in Seq(Bodies) /\ Len(ab) = l + m
        /\ \A i \in 1..l + m : ab[i] = IF i <= l THEN a[i] ELSE b[i - l]
    BY ConcatProperties
  <1>3. /\ bc \in Seq(Bodies) /\ Len(bc) = m + n
        /\ \A i \in 1..m + n : bc[i] = IF i <= m THEN b[i] ELSE c[i - m]
    BY ConcatProperties
  <1> HIDE DEF ab, bc
  <1>4. /\ x \in Seq(Bodies) /\ Len(x) = Len(ab) + n
        /\ \A i \in 1..Len(ab) + n : x[i] = IF i <= Len(ab) THEN ab[i] ELSE c[i - Len(ab)]
    BY <1>0, <1>2, Zenon
  <1>5. /\ y \in Seq(Bodies) /\ Len(y) = l + Len(bc)
        /\ \A i \in 1..l + Len(bc) : y[i] = IF i <= l THEN a[i] ELSE bc[i - l]
    BY <1>0, <1>3, Zenon
  <1> HIDE DEF x, y, l, m, n
  <1>6. Len(x) = l + m + n /\ Len(y) = l + m + n
    BY <1>1, <1>2, <1>3, <1>4, <1>5
  <1>7. ASSUME NEW i \in 1..l + m + n
        PROVE  x[i] = y[i]
    <2>1. CASE i <= l
      <3>1. i \in 1..l + m /\ i <= l + m
        BY <1>1, <2>1
      <3>2. x[i] = ab[i] /\ ab[i] = a[i]
        BY <1>1, <1>2, <1>4, <2>1, <3>1
      <3>3. y[i] = a[i]
        BY <1>1, <1>3, <1>5, <2>1
      <3> QED
        BY <3>2, <3>3
    <2>2. CASE ~(i <= l) /\ i <= l + m
      <3>1. i \in 1..l + m /\ i - l \in 1..m + n /\ i - l <= m
        BY <1>1, <2>2
      <3>2. x[i] = ab[i] /\ ab[i] = b[i - l]
        BY <1>1, <1>2, <1>4, <2>2, <3>1
      <3>3. y[i] = bc[i - l] /\ bc[i - l] = b[i - l]
        BY <1>1, <1>3, <1>5, <2>2, <3>1
      <3> QED
        BY <3>2, <3>3
    <2>3. CASE ~(i <= l + m)
      <3>1. /\ i - l \in 1..m + n /\ ~(i - l <= m) /\ ~(i <= l)
            /\ (i - l) - m = i - (l + m)
        BY <1>1, <2>3
      <3>2. x[i] = c[i - (l + m)]
        BY <1>1, <1>2, <1>4, <2>3, <3>1
      <3>3. y[i] = bc[i - l] /\ bc[i - l] = c[(i - l) - m]
        BY <1>1, <1>3, <1>5, <2>3, <3>1
      <3> QED
        BY <3>1, <3>2, <3>3
    <2> QED
      BY <1>1, <2>1, <2>2, <2>3
  <1>8. x = y
    BY <1>4, <1>5, <1>6, <1>7, SeqEqual
  <1> QED
    BY <1>8 DEF x, y, ab, bc

\* Sending an outbox that leads on from the delivery's position, or a snapshot.
LEMMA SendLeads ==
    ASSUME TypeInv, NEW turn \in Turns, NEW o, IsOutbox(o), NEW asked, NEW written,
           \/ Leads(turn, asked) /\ Chains(turn.d, o)
              /\ (turn.d.sent = NoVersion => \/ o.after.sent = NoVersion
                                            \/ \E new \in Versions :
                                                  Whole(o.bodies, o.after.epoch, o.after.sequence, new))
           \/ \E new \in Versions : Whole(o.bodies, o.after.epoch, o.after.sequence, new)
    PROVE  Leads(Send(turn, o, written), asked)
  <1> DEFINE sent == Send(turn, o, written)
  <1>1. turn.failed \in Nat
    BY DEF Turns
  <1>2. CASE o.moved /\ ~written
    <2>1. sent.failed = turn.failed + 1
      BY <1>2 DEF Send, Turns
    <2>2. sent.failed # 0
      BY <1>1, <2>1
    <2> QED
      BY <2>2 DEF Leads
  <1>3. CASE ~(o.moved /\ ~written)
    <2>1. sent.failed = turn.failed /\ sent.d = o.after /\ sent.posts = turn.posts \o o.bodies
      BY <1>3 DEF Send, Turns
    <2>2. /\ down \in Seq(Bodies) /\ turn.posts \in Seq(Bodies) /\ o.bodies \in Seq(Bodies)
          /\ turn.d \in Deliveries /\ o.after \in Deliveries /\ dev \in Caches
      BY DEF TypeInv, TypeOK, Bodies, Turns, IsOutbox
    <2>3. /\ down \o sent.posts = (down \o turn.posts) \o o.bodies
          /\ down \o turn.posts \in Seq(Bodies)
      <3>1. (down \o turn.posts) \o o.bodies = down \o (turn.posts \o o.bodies)
        BY <2>2, BodiesAssociative
      <3>2. down \o turn.posts \in Seq(Bodies)
        BY <2>2, ConcatProperties
      <3> HIDE DEF sent
      <3> QED
        BY <2>1, <3>1, <3>2
    <2>4. turn.d.sequence \in Nat /\ o.after.sequence \in Nat
      BY <2>2 DEF Deliveries
    <2> HIDE DEF sent
    <2>5. CASE \E new \in Versions : Whole(o.bodies, o.after.epoch, o.after.sequence, new)
      <3>1. OnTrack(dev, stage, (down \o turn.posts) \o o.bodies, o.after.epoch, o.after.sequence)
        BY <2>2, <2>3, <2>4, <2>5, TrackWhole
      <3> QED
        BY <2>1, <2>3, <3>1 DEF Leads, sent
    <2>6. CASE /\ Leads(turn, asked) /\ Chains(turn.d, o)
               /\ turn.d.sent = NoVersion => o.after.sent = NoVersion
               /\ ~(\E new \in Versions : Whole(o.bodies, o.after.epoch, o.after.sequence, new))
      <3>1. /\ o.after.epoch = turn.d.epoch
            /\ Runs(o.bodies, turn.d.epoch, turn.d.sequence)
            /\ o.after.sequence = turn.d.sequence + Len(o.bodies)
        BY <2>6 DEF Chains
      <3>2. ASSUME sent.failed = 0, sent.d.sent # NoVersion, ~asked
            PROVE  OnTrack(dev, stage, down \o sent.posts, sent.d.epoch, sent.d.sequence)
        <4>1. OnTrack(dev, stage, down \o turn.posts, turn.d.epoch, turn.d.sequence)
          BY <2>1, <2>6, <3>2 DEF Leads
        <4>2. OnTrack(dev, stage, (down \o turn.posts) \o o.bodies, turn.d.epoch,
                      turn.d.sequence + Len(o.bodies))
          BY <2>2, <2>3, <2>4, <3>1, <4>1, TrackRuns
        <4> QED
          BY <2>1, <2>3, <3>1, <4>2
      <3>3. Leads(sent, asked)
        BY <3>2 DEF Leads
      <3> QED
        BY <3>3 DEF sent
    <2> QED
      BY <2>5, <2>6
  <1> QED
    BY <1>2, <1>3

\* What a turn has after a refresh, and that it leads on.
LEMMA RefreshLeads ==
    ASSUME TypeInv, NEW turn \in Turns, NEW new \in Versions \cup {NoVersion},
           NEW asked, NEW written, NEW asked2,
           asked => asked2,
           \/ Leads(turn, asked)
           \/ turn.d.owed /\ new # NoVersion
    PROVE  LET end == Refresh(turn, new, written)
           IN  /\ Leads(end, asked2)
               /\ end \in Turns
               /\ end.d.epoch = turn.d.epoch
               /\ Numbered(turn.d) => Numbered(end.d)
               /\ new # NoVersion => end.d.sent = new /\ ~end.d.owed
               /\ new = NoVersion => end = turn
  <1> DEFINE end == Refresh(turn, new, written)
             o == RefreshOutbox(turn.d, new)
  <1>1. turn.d \in Deliveries /\ end \in Turns
    BY RefreshType DEF Turns
  <1>2. CASE new = NoVersion
    <2>1. end = turn
      BY <1>2 DEF Refresh
    <2> HIDE DEF end
    <2>2. Leads(end, asked2)
      BY <1>2, <2>1 DEF Leads
    <2> QED
      BY <1>1, <1>2, <2>1, <2>2 DEF end
  <1>3. CASE new # NoVersion
    <2>1. end = Send(turn, o, written) /\ new \in Versions /\ IsOutbox(o)
      BY <1>1, <1>3, RefreshOutboxType DEF Refresh
    <2>2. /\ Chains(turn.d, o) /\ o.after.sent = new /\ ~o.after.owed
          /\ turn.d.owed \/ turn.d.sent = NoVersion
               => Whole(o.bodies, turn.d.epoch, o.after.sequence, new)
      BY <1>1, <2>1, RefreshChains
    <2>3. o.after.epoch = turn.d.epoch /\ (Numbered(turn.d) => Numbered(o.after))
      BY <2>2 DEF Chains
    <2>4. end.d = o.after
      BY <2>1 DEF Send, Turns
    <2> HIDE DEF end, o
    <2>5. turn.d.owed \/ turn.d.sent = NoVersion
            => \E v \in Versions : Whole(o.bodies, o.after.epoch, o.after.sequence, v)
      BY <2>1, <2>2, <2>3
    <2>6. Leads(end, asked)
      BY <2>1, <2>2, <2>5, SendLeads
    <2>7. Leads(end, asked2)
      BY <2>6 DEF Leads
    <2>8. /\ end.d.epoch = turn.d.epoch
          /\ Numbered(turn.d) => Numbered(end.d)
          /\ end.d.sent = new /\ ~end.d.owed
      BY <2>2, <2>3, <2>4
    <2> QED
      BY <1>1, <1>3, <2>7, <2>8 DEF end
  <1> QED
    BY <1>2, <1>3

\* What sending an outbox leaves of the delivery.
LEMMA SendDelivery ==
    ASSUME NEW turn \in Turns, NEW o, IsOutbox(o), NEW written
    PROVE  Send(turn, o, written).d = o.after /\ Send(turn, o, written) \in Turns
  BY SendType DEF Send, Turns

\* A turn of the attached session that leads on keeps the session in step.
LEMMA TurnSync ==
    ASSUME SafeInv, NEW turn \in Turns, NEW session, NEW budget \in [Events -> Nat],
           Finish(turn, session, budget), UNCHANGED <<link, dev, stage>>,
           budget["drop"] = left["drop"], budget["db"] = left["db"],
           link.state = "up" /\ att'.session = link.session
             => session = link.session /\ (NoLoss => Leads(turn, Asked'))
    PROVE  NoLoss' => NoLoss /\ Sync'
  <1> SUFFICES ASSUME NoLoss' PROVE NoLoss /\ Sync'
    OBVIOUS
  <1>1. "db" \in Faults /\ "drop" \in Faults \ {"db"} /\ "db" \in Events /\ "drop" \in Events
    BY DEF Faults, Events
  <1>2. turn.failed \in Nat
    BY DEF Turns
  <1>3. left'["db"] = budget["db"] - turn.failed /\ left'["drop"] = budget["drop"]
    BY <1>1, <1>2, SpentType DEF Finish
  <1>4. left["db"] \in Nat /\ Budget["db"] \in Nat /\ left["db"] <= Budget["db"]
    BY <1>1, BudgetAssumption DEF SafeInv, TypeInv, TypeOK
  <1>5. left'["db"] = Budget["db"] /\ left'["drop"] = Budget["drop"]
    BY DEF NoLoss, AllRecorded
  <1>6. turn.failed = 0 /\ left["db"] = Budget["db"] /\ left["drop"] = Budget["drop"]
    BY <1>2, <1>3, <1>4, <1>5
  <1>7. NoLoss
    BY <1>6 DEF NoLoss, AllRecorded
  <1>8. ASSUME link.state = "up", att'.session = link.session, d'.sent # NoVersion
        PROVE  Asked' \/ OnTrack(dev, stage, down', d'.epoch, d'.sequence)
    <2>1. session = link.session /\ Leads(turn, Asked')
      BY <1>7, <1>8
    <2>2. down' = down \o turn.posts /\ d' = turn.d
      BY <1>8, <2>1 DEF Finish
    <2> QED
      BY <1>6, <1>8, <2>1, <2>2 DEF Leads
  <1>9. Sync'
    BY <1>8 DEF Sync
  <1> QED
    BY <1>7, <1>9

\* A turn on the fresh or the current delivery state, before it sends.
LEMMA StartLeads ==
    ASSUME TypeInv, NEW r \in Rows, NEW dl \in Deliveries, NEW asked,
           \/ dl.sent = NoVersion
           \/ asked \/ OnTrack(dev, stage, down, dl.epoch, dl.sequence)
    PROVE  Turn(r, dl) \in Turns /\ Turn(r, dl).d = dl /\ Leads(Turn(r, dl), asked)
  <1>1. Turn(r, dl) \in Turns /\ Turn(r, dl).d = dl /\ Turn(r, dl).posts = <<>>
    BY FreshTurnType DEF Turn
  <1>2. down \o <<>> = down
    BY ConcatEmptySeq DEF TypeInv, TypeOK
  <1> QED
    BY <1>1, <1>2 DEF Leads

\* The faults a service action without one of its own leaves alone.
LEMMA SameBudget ==
    ASSUME TypeInv
    PROVE  left \in [Events -> Nat] /\ left["drop"] = left["drop"] /\ left["db"] = left["db"]
  BY DEF TypeInv, TypeOK

\* Binding a delivery.
LEMMA BindSteady ==
    ASSUME SteadyInv, Bind
    PROVE  Session' /\ Brought' /\ Numbered(d') /\ (NoLoss' => Sync')
  <1> DEFINE dl == NewDelivery(BoundRow)
             turn == Turn(BoundRow, dl)
             o == AttachOutbox(dl, att)
  <1>1. TypeInv /\ Session /\ SafeInv
    BY DEF SteadyInv, SafeInv
  <1>2. /\ dl \in Deliveries /\ BoundRow \in Rows /\ dl.sent = NoVersion /\ dl.unacked = <<>>
        /\ UNCHANGED <<att, desired, link, up, dev, stage>> /\ bound'
    BY <1>1, BoundRowType, NewDeliveryType DEF NewDelivery, Bind
  <1>3. turn \in Turns /\ turn.d = dl /\ Leads(turn, Asked')
    BY <1>1, <1>2, StartLeads
  <1>4. Numbered(dl)
    BY <1>2 DEF Numbered
  <1>5. left \in [Events -> Nat] /\ left["drop"] = left["drop"] /\ left["db"] = left["db"]
    BY <1>1, SameBudget
  <1>6. link.state = "up" => link.session # 0
    BY <1>1 DEF Session
  <1>7. CASE att.session = 0
    <2>1. Finish(turn, 0, left)
      BY <1>7 DEF Bind, BoundRow
    <2> HIDE DEF turn, dl, o
    <2>2. d' = dl /\ ((link.state = "up" /\ link.session = 0) \/ down' = down)
      BY <1>3, <2>1 DEF Finish
    <2>3. Session'
      BY <1>1, <1>2, <1>6, <2>2, TurnSession
    <2>4. NoLoss' => NoLoss /\ Sync'
      BY <1>1, <1>2, <1>3, <1>5, <1>6, <1>7, <2>1, TurnSync
    <2>5. Brought'
      BY <1>2, <1>7, <2>2 DEF Brought
    <2> QED
      BY <1>4, <2>2, <2>3, <2>4, <2>5
  <1>8. CASE att.session # 0
    <2>1. PICK written \in BOOLEAN :
             Finish(Refresh(Send(turn, o, TRUE), desired, written), att.session, left)
      BY <1>8 DEF Bind, BoundRow
    <2>2. att.acked \in Nat /\ desired \in Versions \cup {NoVersion}
      BY <1>1 DEF TypeInv, TypeOK, Sessions
    <2>3. /\ IsOutbox(o) /\ Numbered(o.after) /\ o.after.sent = NoVersion
      BY <1>2, <1>4, <2>2, AttachOutboxType, AttachResumes
    <2> DEFINE sent == Send(turn, o, TRUE)
               end == Refresh(sent, desired, written)
    <2> HIDE DEF turn, dl, o
    <2>4. sent.d = o.after /\ sent \in Turns
      BY <1>3, <2>3, SendDelivery
    <2>5. Leads(sent, Asked')
      BY <2>3, <2>4 DEF Leads
    <2> HIDE DEF sent
    <2>6. /\ Leads(end, Asked') /\ end \in Turns
          /\ Numbered(end.d)
          /\ desired # NoVersion => end.d.sent = desired /\ ~end.d.owed
          /\ desired = NoVersion => end.d.sent = NoVersion
      BY <1>1, <2>2, <2>3, <2>4, <2>5, RefreshLeads
    <2>7. Finish(end, att.session, left)
      BY <2>1 DEF sent
    <2> HIDE DEF end
    <2>8. d' = end.d /\ ((link.state = "up" /\ link.session = att.session) \/ down' = down)
      BY <2>7 DEF Finish
    <2>9. Session'
      BY <1>1, <1>2, <2>8, TurnSession
    <2>10. NoLoss' => NoLoss /\ Sync'
      BY <1>1, <1>2, <1>5, <2>6, <2>7, TurnSync
    <2>11. Brought'
      BY <1>2, <2>6, <2>8 DEF Brought
    <2> QED
      BY <2>6, <2>8, <2>9, <2>10, <2>11
  <1> QED
    BY <1>7, <1>8

\* A calendar version pushed to the service.
LEMMA PushSteady ==
    ASSUME SteadyInv, Push
    PROVE  Session' /\ Brought' /\ Numbered(d') /\ (NoLoss' => Sync')
  <1>1. TypeInv /\ Session /\ SafeInv /\ Brought /\ Numbered(d) /\ (NoLoss => Sync)
    BY DEF SteadyInv, SafeInv
  <1>2. /\ UNCHANGED <<bound, att, link, up, dev, stage>> /\ desired' = calendar
        /\ calendar \in Versions /\ calendar # NoVersion
        /\ d \in Deliveries /\ row \in Rows
    BY <1>1, NoVersionAssumption DEF Push, TypeInv, TypeOK
  <1>3. left \in [Events -> Nat] /\ left["drop"] = left["drop"] /\ left["db"] = left["db"]
    BY <1>1, SameBudget
  <1>4. link.state = "up" => link.session # 0
    BY <1>1 DEF Session
  <1>5. CASE ~(bound /\ att.session # 0)
    <2>1. UNCHANGED <<d, down, left>>
      BY <1>5 DEF Push
    <2>2. Session'
      BY <1>1, <1>2, <2>1, TurnSession
    <2>3. Brought'
      BY <1>2, <1>5, <2>1 DEF Brought
    <2>4. Sync'
      BY <1>2, <1>4, <1>5, <2>1 DEF Sync
    <2> QED
      BY <1>1, <2>1, <2>2, <2>3, <2>4
  <1>6. CASE bound /\ att.session # 0
    <2> DEFINE turn == Turn(row, d)
    <2>1. PICK written \in BOOLEAN : Finish(Refresh(turn, calendar, written), att.session, left)
      BY <1>6 DEF Push
    <2> DEFINE end == Refresh(turn, calendar, written)
               asked == ~(NoLoss /\ link.state = "up" /\ att.session = link.session) \/ Asked
    <2>2. turn \in Turns /\ turn.d = d /\ Leads(turn, asked)
      BY <1>1, <1>2, <1>6, StartLeads DEF Sync
    <2> HIDE DEF turn
    <2>3. /\ Leads(end, asked) /\ end \in Turns /\ Numbered(end.d)
          /\ end.d.sent = calendar /\ ~end.d.owed
      BY <1>1, <1>2, <2>2, RefreshLeads
    <2> HIDE DEF end
    <2>4. Asked' = Asked
      BY <1>2 DEF Asked
    <2>5. NoLoss /\ link.state = "up" /\ att.session = link.session => Leads(end, Asked')
      BY <2>3, <2>4 DEF Leads
    <2>6. Finish(end, att.session, left)
      BY <2>1 DEF end
    <2>7. d' = end.d /\ ((link.state = "up" /\ link.session = att.session) \/ down' = down)
      BY <2>6 DEF Finish
    <2>8. Session'
      BY <1>1, <1>2, <2>7, TurnSession
    <2>9. NoLoss' => NoLoss /\ Sync'
      BY <1>1, <1>2, <1>3, <2>3, <2>5, <2>6, TurnSync
    <2>10. Brought'
      BY <1>2, <2>3, <2>7 DEF Brought
    <2> QED
      BY <2>3, <2>7, <2>8, <2>9, <2>10
  <1> QED
    BY <1>5, <1>6

\* A rejected snooze taken back.
LEMMA RetractSteady ==
    ASSUME SteadyInv, NEW child \in Occurrences, Retract(child)
    PROVE  Session' /\ Brought' /\ Numbered(d') /\ (NoLoss' => Sync')
  <1> DEFINE turn == Turn(row, d)
             o == RetractOutbox(d, child)
             budget == Spent(left, "retract", 1)
             asked == ~(NoLoss /\ link.state = "up" /\ att.session = link.session) \/ Asked
  <1>1. TypeInv /\ Session /\ SafeInv /\ Brought /\ Numbered(d) /\ (NoLoss => Sync)
    BY DEF SteadyInv, SafeInv
  <1>2. /\ UNCHANGED <<bound, att, desired, link, up, dev, stage>> /\ bound /\ att.session # 0
        /\ desired \in Versions \cup {NoVersion} /\ d \in Deliveries /\ row \in Rows
    BY <1>1 DEF Retract, TypeInv, TypeOK
  <1>3. PICK first, second \in BOOLEAN :
           Finish(Refresh(Send(turn, o, first), desired, second), att.session, budget)
    BY DEF Retract
  <1>4. budget \in [Events -> Nat] /\ budget["drop"] = left["drop"] /\ budget["db"] = left["db"]
    <2>1. /\ "retract" \in Faults /\ "drop" \in Faults \ {"retract"} /\ "db" \in Faults \ {"retract"}
          /\ left \in [Events -> Nat]
      BY <1>1 DEF Faults, TypeInv, TypeOK
    <2> QED
      BY <2>1, SpentType DEF Retract
  <1>5. turn \in Turns /\ turn.d = d /\ Leads(turn, asked)
    BY <1>1, <1>2, StartLeads DEF Sync
  <1>6. /\ IsOutbox(o) /\ Chains(d, o) /\ o.after.owed = d.owed
        /\ o.after.sent = NoVersion <=> d.sent = NoVersion
    BY <1>2, RetractOutboxType, RetractChains
  <1> DEFINE sent == Send(turn, o, first)
             end == Refresh(sent, desired, second)
  <1>7. Finish(end, att.session, budget)
    BY <1>3
  <1> HIDE DEF turn, o, budget
  <1>8. sent.d = o.after /\ sent \in Turns /\ Numbered(o.after) /\ Leads(sent, asked)
    <2>1. sent.d = o.after /\ sent \in Turns
      BY <1>5, <1>6, SendDelivery
    <2>2. Numbered(o.after)
      BY <1>1, <1>6 DEF Chains
    <2>3. turn.d.sent = NoVersion => \/ o.after.sent = NoVersion
                                     \/ \E new \in Versions :
                                           Whole(o.bodies, o.after.epoch, o.after.sequence, new)
      BY <1>5, <1>6
    <2> HIDE DEF sent
    <2>4. Chains(turn.d, o) /\ Leads(turn, asked)
      BY <1>5, <1>6
    <2>5. Leads(sent, asked)
      BY <1>1, <1>5, <1>6, <2>3, <2>4, SendLeads, SMTT(30) DEF sent
    <2> QED
      BY <2>1, <2>2, <2>5
  <1> HIDE DEF sent
  <1>9. /\ Leads(end, asked) /\ end \in Turns /\ Numbered(end.d)
        /\ desired # NoVersion => end.d.sent = desired /\ ~end.d.owed
        /\ desired = NoVersion => end.d.sent = o.after.sent
    <2> HIDE DEF asked
    <2>1. TypeInv /\ desired \in Versions \cup {NoVersion}
      BY <1>1, <1>2
    <2>2. sent \in Turns /\ Leads(sent, asked) /\ Numbered(sent.d) /\ sent.d = o.after
      BY <1>8
    <2>3. Leads(end, asked)
      <3>1. asked => asked
        OBVIOUS
      <3> QED
        BY <2>1, <2>2, <3>1, RefreshLeads
    <2>4. Numbered(end.d)
      BY <2>1, <2>2, RefreshLeads
    <2>5. desired # NoVersion => end.d.sent = desired /\ ~end.d.owed
      BY <2>1, <2>2, RefreshLeads
    <2>6. desired = NoVersion => end = sent
      BY DEF Refresh
    <2>7. end \in Turns
      BY <2>1, <2>2, RefreshType
    <2> HIDE DEF end
    <2> QED
      BY <2>2, <2>3, <2>4, <2>5, <2>6, <2>7
  <1> HIDE DEF end
  <1>10. Asked' = Asked
    BY <1>2 DEF Asked
  <1>11. NoLoss /\ link.state = "up" /\ att.session = link.session => Leads(end, Asked')
    BY <1>9, <1>10 DEF Leads
  <1>12. d' = end.d /\ ((link.state = "up" /\ link.session = att.session) \/ down' = down)
    BY <1>7 DEF Finish
  <1>13. Session'
    BY <1>1, <1>2, <1>12, TurnSession
  <1>14. NoLoss' => NoLoss /\ Sync'
    BY <1>1, <1>2, <1>4, <1>7, <1>9, <1>11, TurnSync
  <1>15. Brought'
    BY <1>1, <1>2, <1>6, <1>9, <1>12 DEF Brought
  <1> QED
    BY <1>9, <1>12, <1>13, <1>14, <1>15

\* The session an announcement attaches is behind those announced after it,
\* and the device is where its hello said.
LEMMA AttachOrder ==
    ASSUME TypeInv, Session, up # <<>>, Head(up).type = "attach"
    PROVE  /\ Head(up).session <= link.session
           /\ \A i \in 2..Len(up) : up[i].type = "attach" => Head(up).session < up[i].session
           /\ link.state = "up" => \/ Head(up).session = link.session
                                   \/ \E i \in 2..Len(up) : Announced(i)
           /\ link.state = "up" /\ Head(up).session = link.session
                => down = <<>> /\ Head(up).epoch = Hello.epoch /\ Head(up).acked = Hello.acked
  <1>1. Len(up) \in Nat \ {0} /\ Head(up) = up[1] /\ 1 \in 1..Len(up)
    BY EventsLeft
  <1>2. /\ att.session \in Nat /\ link.session \in Nat
        /\ \A i \in 1..Len(up) : up[i].session \in Nat
    BY SessionNumbers
  <1>3. up[1].session <= link.session /\ att.session < up[1].session
    BY <1>1 DEF Session
  <1>4. ASSUME NEW i \in 2..Len(up), up[i].type = "attach"
        PROVE  up[1].session < up[i].session
    <2>1. i \in 1..Len(up) /\ 1 \in 1..i - 1
      OBVIOUS
    <2> QED
      BY <1>4, <2>1 DEF Session
  <1>5. ASSUME link.state = "up"
        PROVE  up[1].session = link.session \/ \E i \in 2..Len(up) : Announced(i)
    <2>1. att.session # link.session
      BY <1>1, <1>2, <1>3
    <2>2. PICK i \in 1..Len(up) : Announced(i)
      BY <1>5, <2>1 DEF Session
    <2>3. i = 1 \/ i \in 2..Len(up)
      BY <1>1
    <2> QED
      BY <2>2, <2>3 DEF Announced
  <1>6. ASSUME link.state = "up", up[1].session = link.session
        PROVE  down = <<>> /\ up[1].epoch = Hello.epoch /\ up[1].acked = Hello.acked
    <2>1. Announced(1)
      BY <1>1, <1>6 DEF Announced
    <2> QED
      BY <1>1, <1>6, <2>1 DEF Session
  <1> QED
    BY <1>1, <1>3, <1>4, <1>5, <1>6

\* A session attached.
LEMMA AttachSteady ==
    ASSUME SteadyInv, TypeInv', Attach
    PROVE  Session' /\ Brought' /\ Numbered(d') /\ (NoLoss' => Sync')
  <1> DEFINE turn == Turn(row, d)
             o == AttachOutbox(d, att')
             here == link.state = "up" /\ att'.session = link.session
  <1>1. /\ TypeInv /\ Session /\ SafeInv /\ Brought /\ Numbered(d) /\ (NoLoss => Sync)
        /\ NoLoss => Safe
    BY DEF SteadyInv, SafeInv, NoLoss
  <1>2. /\ UNCHANGED <<bound, desired, link, dev, stage>> /\ up # <<>> /\ up' = Tail(up)
        /\ att'.session = Head(up).session /\ att'.epoch = Head(up).epoch
        /\ att'.acked = Head(up).acked
        /\ desired \in Versions \cup {NoVersion} /\ d \in Deliveries /\ row \in Rows
    BY <1>1 DEF Attach, TypeInv, TypeOK
  <1>3. /\ att'.session <= link.session
        /\ \A i \in 2..Len(up) : up[i].type = "attach" => att'.session < up[i].session
        /\ link.state = "up" => att'.session = link.session \/ \E i \in 2..Len(up) : Announced(i)
        /\ here => down = <<>> /\ att'.epoch = Hello.epoch /\ att'.acked = Hello.acked
    BY <1>1, <1>2, AttachOrder DEF Attach
  <1>4. link.state = "up" => link.session # 0
    BY <1>1 DEF Session
  <1>5. CASE ~bound
    <2>1. UNCHANGED <<d, down, left>>
      BY <1>5 DEF Attach
    <2>2. Session'
      BY <1>1, <1>2, <1>3, <2>1, ReadSession
    <2>3. Brought'
      BY <1>1, <1>2, <1>5, <2>1 DEF Brought
    <2>4. Sync'
      BY <1>2, <1>5 DEF Sync
    <2> QED
      BY <1>1, <2>1, <2>2, <2>3, <2>4
  <1>6. CASE bound
    <2>1. PICK first, second \in BOOLEAN :
             Finish(Refresh(Send(turn, o, first), desired, second), att'.session, left)
      BY <1>6 DEF Attach
    <2>2. att'.acked \in Nat
      BY DEF TypeInv, TypeOK, Sessions
    <2>3. turn \in Turns /\ turn.d = d /\ turn.posts = <<>>
      BY <1>2, FreshTurnType DEF Turn
    <2>4. /\ IsOutbox(o) /\ Numbered(o.after) /\ o.after.epoch = d.epoch
          /\ o.after.sequence = d.sequence /\ o.after.sent = d.sent
          /\ ~o.after.owed => /\ att'.epoch = d.epoch
                              /\ Runs(o.bodies, d.epoch, att'.acked)
                              /\ att'.acked + Len(o.bodies) = d.sequence
      BY <1>1, <1>2, <2>2, AttachOutboxType, AttachResumes
    <2> DEFINE sent == Send(turn, o, first)
               end == Refresh(sent, desired, second)
               asked == ~(NoLoss /\ here) \/ Asked'
    <2> HIDE DEF turn, o
    <2>5. sent.d = o.after /\ sent \in Turns
      BY <2>3, <2>4, SendDelivery
    <2>6. ASSUME NoLoss, here, ~o.after.owed, sent.failed = 0
          PROVE  OnTrack(dev, stage, down \o sent.posts, d.epoch, d.sequence)
      <3>1. sent.posts = <<>> \o o.bodies
        <4>1. turn.failed \in Nat
          BY <2>3 DEF Turns
        <4>2. ~(o.moved /\ ~first)
          BY <2>3, <2>6, <4>1 DEF Send, Turns
        <4> QED
          BY <2>3, <4>2 DEF Send, Turns
      <3>2. o.bodies \in Seq(Bodies)
        BY <2>4 DEF IsOutbox
      <3>3. down \o sent.posts = o.bodies
        BY <1>3, <2>6, <3>1, <3>2, ConcatEmptySeq
      <3>4. d.epoch # 0
        BY <1>1, <1>6, <2>6 DEF Safe
      <3>5. ~dev.corrupt /\ dev.epoch = d.epoch /\ dev.acked = att'.acked
        BY <1>3, <2>4, <2>6, <3>4 DEF Hello
      <3>6. DeltaTail(o.bodies, 0, d.epoch, d.sequence)
        <4>1. /\ Len(o.bodies) \in Nat
              /\ \A i \in 1..Len(o.bodies) :
                    /\ o.bodies[i].type = "delta" /\ o.bodies[i].epoch = d.epoch
                    /\ o.bodies[i].sequence = att'.acked + i
          BY <2>4, <2>6, <3>2, LenProperties DEF Runs
        <4>2. \A a, l \in Nat : \A i \in 1..l : (a + i) + (l - i) = a + l
          OBVIOUS
        <4> QED
          BY <2>2, <2>4, <2>6, <4>1, <4>2 DEF DeltaTail
      <3> HIDE DEF sent
      <3> QED
        BY <2>4, <2>6, <3>3, <3>5, <3>6 DEF OnTrack
    <2>7. Leads(sent, asked) \/ (sent.d.owed /\ desired # NoVersion)
      <3>1. CASE o.after.owed /\ desired # NoVersion
        BY <2>5, <3>1
      <3>2. CASE o.after.owed /\ desired = NoVersion
        <4>1. sent.d.sent = NoVersion
          BY <1>1, <2>4, <2>5, <3>2 DEF Brought
        <4> QED
          BY <4>1 DEF Leads
      <3>3. CASE ~o.after.owed
        BY <2>4, <2>5, <2>6, <3>3 DEF Leads
      <3> QED
        BY <3>1, <3>2, <3>3
    <2>8. TypeInv /\ desired \in Versions \cup {NoVersion} /\ Numbered(sent.d)
      BY <1>1, <1>2, <2>4, <2>5
    <2>9. Finish(end, att'.session, left)
      BY <2>1
    <2> HIDE DEF sent, asked
    <2>10. Leads(end, asked)
      <3>1. asked => asked
        OBVIOUS
      <3> QED
        BY <2>5, <2>7, <2>8, <3>1, RefreshLeads
    <2>11. Numbered(end.d)
      <3>1. CASE desired = NoVersion
        BY <2>8, <3>1 DEF Refresh
      <3>2. CASE desired # NoVersion
        <4>1. sent.d \in Deliveries /\ desired \in Versions
          BY <2>5, <2>8, <3>2 DEF Turns
        <4>2. Chains(sent.d, RefreshOutbox(sent.d, desired))
          BY <4>1, RefreshChains
        <4>3. end.d = RefreshOutbox(sent.d, desired).after
          BY <2>5, <3>2 DEF Refresh, Send, Turns
        <4> QED
          BY <2>8, <4>2, <4>3 DEF Chains
      <3> QED
        BY <3>1, <3>2
    <2>12. /\ desired # NoVersion => end.d.sent = desired /\ ~end.d.owed
           /\ desired = NoVersion => end.d.sent = d.sent
      <3>1. CASE desired = NoVersion
        BY <2>4, <2>5, <3>1 DEF Refresh
      <3>2. CASE desired # NoVersion
        <4>1. sent.d \in Deliveries /\ desired \in Versions
          BY <2>5, <2>8, <3>2 DEF Turns
        <4>2. /\ RefreshOutbox(sent.d, desired).after.sent = desired
              /\ ~RefreshOutbox(sent.d, desired).after.owed
          BY <4>1, RefreshChains
        <4>3. end.d = RefreshOutbox(sent.d, desired).after
          BY <2>5, <3>2 DEF Refresh, Send, Turns
        <4> QED
          BY <3>2, <4>2, <4>3
      <3> QED
        BY <3>1, <3>2
    <2>13. end \in Turns
      BY <2>5, <2>8, RefreshType
    <2> HIDE DEF end
    <2>14. left \in [Events -> Nat] /\ left["drop"] = left["drop"] /\ left["db"] = left["db"]
      BY <1>1, SameBudget
    <2>15. NoLoss /\ here => Leads(end, Asked')
      BY <2>10 DEF Leads, asked
    <2>16. d' = end.d /\ (here \/ down' = down)
      BY <2>9 DEF Finish
    <2>17. Session'
      BY <1>1, <1>2, <1>3, <2>16, ReadSession
    <2>18. NoLoss' => NoLoss /\ Sync'
      BY <1>1, <1>2, <2>9, <2>13, <2>14, <2>15, TurnSync
    <2>19. Brought'
      BY <1>1, <1>2, <2>12, <2>16 DEF Brought
    <2> QED
      BY <2>11, <2>16, <2>17, <2>18, <2>19
  <1> QED
    BY <1>5, <1>6

\* An event that announces nothing leaves the attached session in order.
LEMMA OtherOrder ==
    ASSUME TypeInv, Session, up # <<>>, Head(up).type # "attach"
    PROVE  /\ att.session <= link.session
           /\ \A i \in 2..Len(up) : up[i].type = "attach" => att.session < up[i].session
           /\ link.state = "up" => \/ att.session = link.session
                                   \/ \E i \in 2..Len(up) : Announced(i)
  <1>1. Len(up) \in Nat \ {0} /\ Head(up) = up[1]
    BY EventsLeft
  <1>2. \A i \in 2..Len(up) : i \in 1..Len(up)
    OBVIOUS
  <1>3. ASSUME link.state = "up", att.session # link.session
        PROVE  \E i \in 2..Len(up) : Announced(i)
    <2>1. PICK i \in 1..Len(up) : Announced(i)
      BY <1>3 DEF Session
    <2>2. i = 1 \/ i \in 2..Len(up)
      BY <1>1
    <2> QED
      BY <1>1, <2>1, <2>2 DEF Announced
  <1> QED
    BY <1>2, <1>3 DEF Session

\* A request for a snapshot stays on its way until it is read.
LEMMA AskedLeft ==
    ASSUME TypeInv, up # <<>>, up' = Tail(up), UNCHANGED link, Asked
    PROVE  \/ Asked'
           \/ Head(up).type = "ack" /\ Head(up).session = link.session /\ Head(up).need
  <1>1. /\ Len(up) \in Nat \ {0} /\ Head(up) = up[1]
        /\ \A i \in 2..Len(up) : i - 1 \in 1..Len(up') /\ up'[i - 1] = up[i]
    BY EventsLeft
  <1>2. PICK i \in 1..Len(up) : up[i].type = "ack" /\ up[i].session = link.session /\ up[i].need
    BY DEF Asked
  <1>3. CASE i = 1
    BY <1>1, <1>2, <1>3
  <1>4. CASE i # 1
    <2>1. i \in 2..Len(up)
      BY <1>1, <1>4
    <2>2. /\ i - 1 \in 1..Len(up') /\ up'[i - 1].type = "ack"
          /\ up'[i - 1].session = link'.session /\ up'[i - 1].need
      BY <1>1, <1>2, <2>1
    <2> QED
      BY <2>2 DEF Asked
  <1> QED
    BY <1>3, <1>4

\* A session detached.
LEMMA DetachSteady ==
    ASSUME SteadyInv, TypeInv', Detach
    PROVE  Session' /\ Brought' /\ Numbered(d') /\ (NoLoss' => Sync')
  <1>1. TypeInv /\ Session /\ Brought /\ Numbered(d) /\ (NoLoss => Sync)
    BY DEF SteadyInv, SafeInv
  <1>2. /\ UNCHANGED <<bound, d, desired, link, down, dev, stage, left>>
        /\ up # <<>> /\ up' = Tail(up) /\ Head(up).type = "detach"
        /\ \/ att' = NoSession /\ att.session = Head(up).session
           \/ att' = att
    BY DEF Detach
  <1>3. /\ att.session <= link.session
        /\ \A i \in 2..Len(up) : up[i].type = "attach" => att.session < up[i].session
        /\ link.state = "up" => att.session = link.session \/ \E i \in 2..Len(up) : Announced(i)
    BY <1>1, <1>2, OtherOrder
  <1>4. /\ att.session \in Nat /\ link.session \in Nat
        /\ Len(up) \in Nat \ {0} /\ Head(up) = up[1] /\ 1 \in 1..Len(up)
        /\ \A i \in 2..Len(up) : i \in 1..Len(up) /\ up[i].session \in Nat
    BY <1>1, <1>2, SessionNumbers, EventsLeft
  <1>5. link.state = "up" => link.session # 0 /\ Head(up).session < link.session
    BY <1>1, <1>2, <1>4 DEF Session
  <1>6. att' = NoSession => att'.session = 0
    BY DEF NoSession
  <1>7. Session'
    <2>1. att'.session <= link.session
      BY <1>2, <1>3, <1>4, <1>6
    <2>2. \A i \in 2..Len(up) : up[i].type = "attach" => att'.session < up[i].session
      BY <1>2, <1>3, <1>4, <1>6
    <2>3. link.state = "up" => att'.session = link.session \/ \E i \in 2..Len(up) : Announced(i)
      BY <1>2, <1>3, <1>4, <1>5
    <2> QED
      BY <1>1, <1>2, <2>1, <2>2, <2>3, ReadSession
  <1>8. Brought'
    BY <1>1, <1>2, <1>6 DEF Brought
  <1>9. NoLoss' => Sync'
    <2>1. Asked => Asked'
      BY <1>1, <1>2, AskedLeft
    <2>2. link.state = "up" /\ att'.session = link.session => att' = att
      BY <1>2, <1>5, <1>6
    <2>3. NoLoss' => NoLoss
      BY <1>2 DEF NoLoss, AllRecorded
    <2> QED
      BY <1>1, <1>2, <2>1, <2>2, <2>3 DEF Sync
  <1> QED
    BY <1>1, <1>2, <1>7, <1>8, <1>9

\* What a turn sends of the view, where anything is owed.
LEMMA OwedLeads ==
    ASSUME TypeInv, NEW turn \in Turns, NEW new \in Versions \cup {NoVersion},
           NEW asked, NEW written, Numbered(turn.d), NEW end,
           end = IF turn.d.owed THEN Refresh(turn, new, written) ELSE turn,
           \/ Leads(turn, asked)
           \/ turn.d.owed /\ new # NoVersion
    PROVE  /\ Leads(end, asked) /\ end \in Turns /\ Numbered(end.d)
           /\ new # NoVersion /\ turn.d.sent = new => end.d.sent = new /\ ~end.d.owed
           /\ new = NoVersion => end.d.sent = turn.d.sent
  <1>1. CASE ~turn.d.owed
    <2>1. end = turn
      BY <1>1
    <2>2. Leads(end, asked)
      BY <1>1, <2>1 DEF Leads
    <2> QED
      BY <1>1, <2>1, <2>2
  <1>2. CASE turn.d.owed
    <2>1. end = Refresh(turn, new, written)
      BY <1>2
    <2>2. asked => asked
      OBVIOUS
    <2>3. Leads(Refresh(turn, new, written), asked)
      BY <2>2, RefreshLeads
    <2>4. Leads(end, asked)
      BY <2>1, <2>3 DEF Leads
    <2>5. end \in Turns
      BY <2>1, RefreshType
    <2>6. CASE new = NoVersion
      <3>1. end = turn
        BY <2>1, <2>6 DEF Refresh
      <3> QED
        BY <2>4, <2>5, <2>6, <3>1
    <2>7. CASE new # NoVersion
      <3>1. turn.d \in Deliveries /\ new \in Versions
        BY <2>7 DEF Turns
      <3>2. /\ Chains(turn.d, RefreshOutbox(turn.d, new))
            /\ RefreshOutbox(turn.d, new).after.sent = new
            /\ ~RefreshOutbox(turn.d, new).after.owed
        BY <3>1, RefreshChains
      <3>3. end.d = RefreshOutbox(turn.d, new).after
        BY <2>1, <2>7 DEF Refresh, Send, Turns
      <3> QED
        BY <2>4, <2>5, <2>7, <3>2, <3>3 DEF Chains
    <2> QED
      BY <2>6, <2>7
  <1> QED
    BY <1>1, <1>2

\* An acknowledgement read.
LEMMA AckSteady ==
    ASSUME SteadyInv, TypeInv', Ack
    PROVE  Session' /\ Brought' /\ Numbered(d') /\ (NoLoss' => Sync')
  <1> DEFINE ack == Head(up)
             turn == Turn(row, d)
             o == AckOutbox(d, ack)
             here == link.state = "up" /\ att.session = link.session
  <1>1. TypeInv /\ Session /\ SafeInv /\ Brought /\ Numbered(d) /\ (NoLoss => Sync)
    BY DEF SteadyInv, SafeInv
  <1>2. /\ UNCHANGED <<bound, att, desired, link, dev, stage>> /\ up # <<>> /\ up' = Tail(up)
        /\ ack.type = "ack"
        /\ desired \in Versions \cup {NoVersion} /\ d \in Deliveries /\ row \in Rows
    BY <1>1 DEF Ack, TypeInv, TypeOK
  <1>3. /\ att'.session <= link.session
        /\ \A i \in 2..Len(up) : up[i].type = "attach" => att'.session < up[i].session
        /\ link.state = "up" => att'.session = link.session \/ \E i \in 2..Len(up) : Announced(i)
    BY <1>1, <1>2, OtherOrder
  <1>4. Asked => Asked' \/ (ack.session = link.session /\ ack.need)
    BY <1>1, <1>2, AskedLeft
  <1>5. CASE ~(bound /\ att.session = ack.session)
    <2>1. UNCHANGED <<d, down, left>>
      BY <1>5 DEF Ack
    <2>2. Session'
      BY <1>1, <1>2, <1>3, <2>1, ReadSession
    <2>3. Brought'
      BY <1>1, <1>2, <2>1 DEF Brought
    <2>4. NoLoss' => NoLoss
      BY <2>1 DEF NoLoss, AllRecorded
    <2>5. NoLoss' => Sync'
      BY <1>1, <1>2, <1>4, <1>5, <2>1, <2>4 DEF Sync
    <2> QED
      BY <1>1, <2>1, <2>2, <2>3, <2>5
  <1>6. CASE bound /\ att.session = ack.session
    <2>1. PICK first, second \in BOOLEAN :
             Finish(IF Send(turn, o, first).d.owed
                    THEN Refresh(Send(turn, o, first), desired, second)
                    ELSE Send(turn, o, first), att.session, left)
      BY <1>6 DEF Ack
    <2>2. ack.through \in Nat /\ ack.need \in BOOLEAN
      BY <1>1, <1>2, EventType, EventUpTypes
    <2>3. turn \in Turns /\ turn.d = d
      BY <1>2, FreshTurnType DEF Turn
    <2>4. /\ Chains(d, o) /\ o.after.sent = d.sent /\ o.bodies = <<>>
          /\ o.after.owed = (d.owed \/ ack.need)
      BY <1>2, <2>2, AckChains
    <2>5. IsOutbox(o)
      BY <1>2, <2>2, AckOutboxType
    <2>6. Numbered(o.after)
      BY <1>1, <2>4 DEF Chains
    <2> DEFINE sent == Send(turn, o, first)
               end == IF sent.d.owed THEN Refresh(sent, desired, second) ELSE sent
               asked == ~(NoLoss /\ here) \/ Asked'
    <2>7. ~ack.need => Leads(turn, asked)
      <3>1. ASSUME ~ack.need
            PROVE  d.sent = NoVersion \/ asked \/ OnTrack(dev, stage, down, d.epoch, d.sequence)
        BY <1>1, <1>4, <1>6, <3>1 DEF Sync
      <3> HIDE DEF asked
      <3> QED
        BY <1>1, <1>2, <3>1, StartLeads
    <2> HIDE DEF turn, o
    <2>8. sent.d = o.after /\ sent \in Turns
      BY <2>3, <2>5, SendDelivery
    <2> HIDE DEF asked
    <2>9. Leads(sent, asked) \/ (sent.d.owed /\ desired # NoVersion)
      <3>1. CASE ~ack.need
        <4>1. /\ Chains(turn.d, o) /\ Leads(turn, asked)
              /\ turn.d.sent = NoVersion => \/ o.after.sent = NoVersion
                                            \/ \E new \in Versions :
                                                  Whole(o.bodies, o.after.epoch, o.after.sequence, new)
          BY <2>3, <2>4, <2>7, <3>1
        <4> HIDE DEF sent
        <4>2. Leads(sent, asked)
          BY <1>1, <2>3, <2>5, <4>1, SendLeads, SMTT(30) DEF sent
        <4> QED
          BY <4>2
      <3>2. CASE ack.need /\ desired # NoVersion
        BY <2>4, <2>8, <3>2
      <3>3. CASE ack.need /\ desired = NoVersion
        <4>1. sent.d.sent = NoVersion
          BY <1>1, <2>4, <2>8, <3>3 DEF Brought
        <4> QED
          BY <4>1 DEF Leads
      <3> QED
        BY <3>1, <3>2, <3>3
    <2>10. Finish(end, att.session, left)
      BY <2>1
    <2> HIDE DEF sent
    <2>11. Numbered(sent.d)
      BY <2>6, <2>8
    <2>12. end = IF sent.d.owed THEN Refresh(sent, desired, second) ELSE sent
      OBVIOUS
    <2> HIDE DEF end
    <2>13. /\ TypeInv /\ desired \in Versions \cup {NoVersion} /\ sent \in Turns
           /\ Leads(sent, asked) \/ (sent.d.owed /\ desired # NoVersion)
      BY <1>1, <1>2, <2>8, <2>9
    <2>14. Leads(end, asked) /\ end \in Turns /\ Numbered(end.d)
      BY <2>11, <2>12, <2>13, OwedLeads
    <2>15. /\ desired # NoVersion /\ sent.d.sent = desired => end.d.sent = desired /\ ~end.d.owed
           /\ desired = NoVersion => end.d.sent = sent.d.sent
      BY <2>11, <2>12, <2>13, OwedLeads
    <2>16. left \in [Events -> Nat] /\ left["drop"] = left["drop"] /\ left["db"] = left["db"]
      BY <1>1, SameBudget
    <2>17. NoLoss /\ here => Leads(end, Asked')
      BY <2>14 DEF Leads, asked
    <2>18. d' = end.d /\ (here \/ down' = down)
      BY <2>10 DEF Finish
    <2>19. Session'
      BY <1>1, <1>2, <1>3, <2>18, ReadSession
    <2>20. NoLoss' => NoLoss /\ Sync'
      BY <1>1, <1>2, <2>10, <2>14, <2>16, <2>17, TurnSync
    <2>21. Brought'
      BY <1>1, <1>2, <2>4, <2>8, <2>15, <2>18 DEF Brought
    <2> QED
      BY <2>14, <2>18, <2>19, <2>20, <2>21
  <1> QED
    BY <1>5, <1>6

\* What the link, the calendar and the device's restarts leave of a session
\* that is not live, or of one whose messages they do not touch.
LEMMA OutsideSteady ==
    ASSUME SteadyInv, UNCHANGED <<bound, d, att, desired>>, Session',
           link'.state = "up" => att.session # link'.session
    PROVE  Session' /\ Brought' /\ Numbered(d') /\ (NoLoss' => Sync')
  BY DEF SteadyInv, Brought, Sync

\* The link and the restarts of the device.
LEMMA LinkSteady ==
    ASSUME SteadyInv, Connect \/ EndSession \/ Lost \/ Reboot \/ Damage
    PROVE  Session' /\ Brought' /\ Numbered(d') /\ (NoLoss' => Sync')
  <1>1. TypeInv /\ Session
    BY DEF SteadyInv, SafeInv
  <1>2. UNCHANGED <<bound, d, att, desired>>
    BY DEF Connect, EndSession, Lost, Reboot, Damage
  <1>3. CASE Connect
    <2>1. link'.state = "up" /\ link'.session = link.session + 1
      BY <1>3 DEF Connect
    <2>2. att.session # link'.session
      BY <1>1, <2>1, SessionNumbers DEF Session
    <2>3. Session'
      BY <1>1, <1>3, ConnectSession
    <2> QED
      BY <1>2, <2>2, <2>3, OutsideSteady
  <1>4. CASE EndSession
    <2>1. link'.state # "up"
      BY <1>1, <1>4 DEF EndSession, TypeInv, TypeOK, Links
    <2>2. Session'
      BY <1>1, <1>4, EndSessionSession
    <2> QED
      BY <1>2, <2>1, <2>2, OutsideSteady
  <1>5. CASE Lost \/ Reboot \/ Damage
    <2>1. /\ link'.state = "down" /\ link'.session = link.session /\ down' = <<>>
          /\ att' = att /\ up' = up
      BY <1>1, <1>5 DEF Lost, Reboot, Damage, TypeInv, TypeOK, Links
    <2>2. Session'
      BY <1>1, <2>1, OverSession
    <2> QED
      BY <1>2, <2>1, <2>2, OutsideSteady
  <1> QED
    BY <1>3, <1>4, <1>5

\* The controller stops, or forgets the speaker.
LEMMA StopSteady ==
    ASSUME SteadyInv, Restart \/ Forget
    PROVE  Session' /\ Brought' /\ Numbered(d') /\ (NoLoss' => Sync')
  <1>1. TypeInv /\ Session
    BY DEF SteadyInv, SafeInv
  <1>2. /\ att' = NoSession /\ desired' = NoVersion /\ up' = <<>> /\ down' = down
        /\ link'.session = link.session /\ link'.state # "up"
        /\ link'.state = "down" => link.state = "down"
        /\ d' = NewDelivery(row) \/ d' = NewDelivery(NoRow)
    BY <1>1 DEF Restart, Forget, TypeInv, TypeOK, Links
  <1>3. d'.sent = NoVersion /\ d'.unacked = <<>>
    BY <1>2 DEF NewDelivery
  <1>4. Session'
    <2>1. link'.state = "down" => down' = <<>>
      BY <1>1, <1>2 DEF Session
    <2> QED
      BY <1>1, <1>2, <2>1, OverSession
  <1>5. Brought' /\ Sync'
    BY <1>2, <1>3 DEF Brought, Sync
  <1>6. Numbered(d')
    BY <1>3 DEF Numbered
  <1> QED
    BY <1>4, <1>5, <1>6

\* Someone edits the calendar.
LEMMA EditSteady ==
    ASSUME SteadyInv, NEW version \in Versions, EditCalendar(version)
    PROVE  Session' /\ Brought' /\ Numbered(d') /\ (NoLoss' => Sync')
  <1>1. TypeInv /\ Session /\ Brought /\ Numbered(d) /\ (NoLoss => Sync)
    BY DEF SteadyInv, SafeInv
  <1>2. UNCHANGED <<bound, d, att, desired, link, down, up, dev, stage>>
    BY DEF EditCalendar
  <1>3. Session'
    BY <1>1, <1>2, TurnSession
  <1>4. NoLoss' => NoLoss
    BY <1>1 DEF EditCalendar, NoLoss, AllRecorded, TypeInv, TypeOK
  <1>5. Sync' = Sync
    BY <1>2 DEF Sync, Asked
  <1> QED
    BY <1>1, <1>2, <1>3, <1>4, <1>5 DEF Brought

\* A message read by the device: its answer asks for a snapshot, or what is
\* left on its way is on track.
LEMMA DeviceSteady ==
    ASSUME SteadyInv, UNCHANGED <<bound, d, att, desired, link>>, down # <<>>,
           NEW ack, ack.type = "ack", ack.session = link.session,
           NEW budget \in [Events -> Nat], budget["drop"] = left["drop"],
           budget["db"] = left["db"], Reply(ack, budget),
           NoLoss /\ bound /\ OnTrack(dev, stage, down, d.epoch, d.sequence)
             => ack.need \/ OnTrack(dev', stage', down', d.epoch, d.sequence)
    PROVE  Session' /\ Brought' /\ Numbered(d') /\ (NoLoss' => Sync')
  <1>1. TypeInv /\ Session /\ Brought /\ Numbered(d) /\ (NoLoss => Sync)
    BY DEF SteadyInv, SafeInv
  <1>2. up' = up \/ up' = Append(up, ack)
    BY DEF Reply
  <1>3. Session'
    BY <1>1, <1>2, ReplySession
  <1>4. Brought' /\ Numbered(d')
    BY <1>1 DEF Brought
  <1>5. ASSUME NoLoss'
        PROVE  NoLoss /\ (link.state = "up" => up' = Append(up, ack))
    <2>1. "drop" \in Faults /\ "db" \in Faults \ {"drop"} /\ "drop" \in Events
      BY DEF Faults, Events
    <2>2. left'["drop"] = Budget["drop"] /\ left'["db"] = Budget["db"]
      BY <1>5 DEF NoLoss, AllRecorded
    <2>3. left["drop"] \in Nat /\ Budget["drop"] \in Nat /\ left["drop"] <= Budget["drop"]
      BY <1>1, <2>1, BudgetAssumption DEF TypeInv, TypeOK
    <2>4. CASE left' = budget /\ up' = IF link.state = "up" THEN Append(up, ack) ELSE up
      BY <2>2, <2>4 DEF NoLoss, AllRecorded
    <2>5. CASE Allows(budget, "drop", 1) /\ left' = Spent(budget, "drop", 1)
      <3>1. left'["drop"] = budget["drop"] - 1
        BY <2>1, <2>5, SpentType
      <3>2. FALSE
        BY <2>2, <2>3, <3>1
      <3> QED
        BY <3>2
    <2> QED
      BY <2>4, <2>5 DEF Reply
  <1>6. ASSUME up' = Append(up, ack)
        PROVE  Asked \/ ack.need => Asked'
    <2>1. up \in Seq(EventsUp \cup {ack}) /\ ack \in EventsUp \cup {ack}
      BY <1>1, SeqMonotonic DEF TypeInv, TypeOK
    <2>2. /\ Len(up') = Len(up) + 1 /\ up'[Len(up) + 1] = ack /\ Len(up) \in Nat
          /\ \A i \in 1..Len(up) : up'[i] = up[i]
      BY <1>6, <2>1, AppendProperties, LenProperties
    <2>3. \A i \in 1..Len(up) : i \in 1..Len(up')
      BY <2>2
    <2>4. Len(up) + 1 \in 1..Len(up')
      BY <2>2
    <2>5. Asked => Asked'
      BY <2>2, <2>3 DEF Asked
    <2>6. ASSUME ack.need
          PROVE  Asked'
      <3>1. \E i \in 1..Len(up') : up'[i] = ack
        BY <2>2, <2>4
      <3> QED
        BY <2>6, <3>1 DEF Asked
    <2> QED
      BY <2>5, <2>6
  <1>7. ASSUME NoLoss', bound, link.state = "up", att.session = link.session, d.sent # NoVersion
        PROVE  Asked' \/ OnTrack(dev', stage', down', d.epoch, d.sequence)
    <2>1. NoLoss /\ up' = Append(up, ack)
      BY <1>5, <1>7
    <2>2. Asked \/ OnTrack(dev, stage, down, d.epoch, d.sequence)
      BY <1>1, <1>7, <2>1 DEF Sync
    <2> QED
      BY <1>6, <1>7, <2>1, <2>2
  <1>8. NoLoss' => Sync'
    BY <1>7 DEF Sync
  <1> QED
    BY <1>3, <1>4, <1>8

\* A delta on track is applied on track.
LEMMA DeltaOnTrack ==
    ASSUME TypeInv, NEW epoch, NEW seq \in Nat, ApplyDelta, Follows(Head(down)),
           OnTrack(dev, stage, down, epoch, seq)
    PROVE  OnTrack(dev', stage', down', epoch, seq)
  <1> DEFINE m == Head(down)
  <1>1. down \in Seq(Bodies) /\ down # <<>> /\ down' = Tail(down) /\ m.type = "delta" /\ stage' = stage
    BY DEF ApplyDelta, Receives, TypeInv, TypeOK, Bodies
  <1>2. /\ Len(down) \in Nat \ {0} /\ Len(down') = Len(down) - 1 /\ m = down[1]
        /\ DeltaTail(down, 0, epoch, seq) => DeltaTail(down', 0, epoch, seq)
    BY <1>1, TailRest
  <1>3. /\ dev'.acked = m.sequence /\ dev'.epoch = dev.epoch /\ dev'.corrupt = dev.corrupt
        /\ ~dev.corrupt /\ m.epoch = dev.epoch /\ m.sequence \in Nat
    <2>1. m \in Messages
      BY ReceivesType DEF ApplyDelta
    <2> QED
      BY <2>1 DEF ApplyDelta, Follows, TypeInv, TypeOK, Caches, Messages
  <1>4. CASE /\ ~dev.corrupt /\ dev.epoch = epoch
             /\ dev.acked + Len(down) = seq /\ DeltaTail(down, 0, epoch, seq)
    <2>1. m.sequence + (Len(down) - 1) = seq
      BY <1>2, <1>4 DEF DeltaTail
    <2> QED
      BY <1>2, <1>3, <1>4, <2>1 DEF OnTrack
  <1>5. ASSUME NEW n \in 1..Len(down), NEW new \in Versions,
               DeltaTail(down, n, epoch, seq),
               PageTail(down, n, stage, epoch, seq - (Len(down) - n), new)
        PROVE  OnTrack(dev', stage', down', epoch, seq)
    <2>1. \A high, k : m # PageOf(epoch, high, new, k)
      BY <1>1 DEF PageOf
    <2>2. \/ \A cache, sg2 : OnTrack(cache, sg2, Tail(down), epoch, seq)
          \/ m = PageOf(epoch, seq - (Len(down) - n), new, (PageCount(new) - n) + 1)
      BY <1>1, <1>5, TrackedPage
    <2> QED
      BY <1>1, <2>1, <2>2
  <1> QED
    BY <1>4, <1>5 DEF OnTrack

\* A page on track is staged or installed on track.
LEMMA PageOnTrack ==
    ASSUME TypeInv, NEW epoch, NEW seq \in Nat, ApplySnapshotPage,
           OnTrack(dev, stage, down, epoch, seq)
    PROVE  OnTrack(dev', stage', down', epoch, seq)
  <1> DEFINE p == Head(down)
  <1>1. down \in Seq(Bodies) /\ down # <<>> /\ down' = Tail(down) /\ p.type = "snapshot"
    BY DEF ApplySnapshotPage, Receives, TypeInv, TypeOK, Bodies
  <1>2. Len(down) \in Nat \ {0} /\ Len(down') = Len(down) - 1 /\ p = down[1]
    BY <1>1, TailRest
  <1>3. ~DeltaTail(down, 0, epoch, seq)
    BY <1>1, <1>2 DEF DeltaTail
  <1>4. PICK n \in 1..Len(down), new \in Versions :
           /\ DeltaTail(down, n, epoch, seq)
           /\ PageTail(down, n, stage, epoch, seq - (Len(down) - n), new)
    BY <1>3 DEF OnTrack
  <1> DEFINE count == PageCount(new)
             high == seq - (Len(down) - n)
  <1>5. CASE n > count
    <2>1. \/ \A cache, sg2 : OnTrack(cache, sg2, Tail(down), epoch, seq)
          \/ n <= PageCount(new)
      BY <1>1, <1>4, TrackedPage
    <2>2. ~(n <= PageCount(new))
      BY <1>5, PageCountType
    <2> QED
      BY <1>1, <2>1, <2>2
  <1>6. CASE ~(n > count)
    <2>1. /\ n <= count
          /\ p = PageOf(epoch, high, new, (count - n) + 1)
          /\ n < count => stage = StageAt(epoch, high, new, count - n)
          /\ n > 1 => \A cache : OnTrack(cache, StageAt(epoch, high, new, (count - n) + 1),
                                         Tail(down), epoch, seq)
      BY <1>1, <1>4, <1>6, TrackedPage
    <2>2. count \in Nat \ {0}
      BY PageCountType
    <2> HIDE DEF count, high
    <2> DEFINE k == count - n
    <2>3. k \in Nat /\ k < count /\ (k > 0 => n < count) /\ (k + 1 = count <=> n = 1)
      BY <2>1, <2>2
    <2>4. /\ k < PageCount(new) /\ p = PageOf(epoch, high, new, k + 1)
          /\ k > 0 => stage = StageAt(epoch, high, new, k)
      BY <2>1, <2>3 DEF count
    <2>5. /\ StageFor(p) = StageAt(epoch, high, new, k)
          /\ Fits(p) /\ Staged(p) = Front(new, k + 1)
          /\ Completes(p) <=> k + 1 = count
      <3> HIDE DEF k, p
      <3>1. /\ StageFor(p) = StageAt(epoch, high, new, k)
            /\ Fits(p) /\ Staged(p) = Front(new, k + 1)
            /\ Completes(p) <=> k + 1 = PageCount(new)
        BY <2>3, <2>4, PageRead
      <3> QED
        BY <3>1 DEF count
    <2>6. p.epoch = epoch /\ p.high = high /\ p.index = k /\ p.count = count
      BY <2>3, <2>4 DEF PageOf, count
    <2>7. CASE n = 1
      <3>1. dev'.epoch = epoch /\ dev'.acked = high /\ ~dev'.corrupt
        <4>1. Completes(p)
          BY <2>3, <2>5, <2>7
        <4>2. dev' = [epoch |-> p.epoch, acked |-> p.high, occ |-> Staged(p), corrupt |-> FALSE]
          BY <4>1 DEF ApplySnapshotPage
        <4> QED
          BY <2>6, <4>2
      <3>2. DeltaTail(down', 0, epoch, seq)
        <4>1. DeltaTail(down, 0 + 1, epoch, seq)
          BY <1>4, <2>7
        <4> QED
          BY <1>1, <4>1, TailRest
      <3>3. dev'.acked + Len(down') = seq
        BY <1>2, <2>7, <3>1 DEF high
      <3> QED
        BY <3>1, <3>2, <3>3 DEF OnTrack
    <2>8. CASE n # 1
      <3>1. ~Completes(p) /\ p.index + 1 < p.count /\ n > 1
        BY <2>2, <2>3, <2>5, <2>6, <2>8
      <3>2. stage' = [StageFor(p) EXCEPT !.next = @ + 1, !.values = Staged(p)] /\ dev' = dev
        BY <2>5, <3>1 DEF ApplySnapshotPage
      <3>3. stage' = StageAt(epoch, high, new, k + 1)
        <4> DEFINE sg == StageAt(epoch, high, new, k)
        <4>1. stage' = [sg EXCEPT !.next = sg.next + 1, !.values = Front(new, k + 1)]
          BY <2>5, <3>2
        <4>2. sg.next = k
          BY DEF StageAt
        <4>3. stage' = [sg EXCEPT !.next = k + 1, !.values = Front(new, k + 1)]
          BY <4>1, <4>2
        <4> QED
          BY <4>3 DEF StageAt
      <3> QED
        BY <1>1, <2>1, <3>1, <3>2, <3>3
    <2> QED
      BY <2>7, <2>8
  <1> QED
    BY <1>5, <1>6

\* A delta read by the device.
LEMMA ApplyDeltaSteady ==
    ASSUME SteadyInv, ApplyDelta
    PROVE  Session' /\ Brought' /\ Numbered(d') /\ (NoLoss' => Sync')
  <1>1. TypeInv
    BY DEF SteadyInv, SafeInv
  <1>2. /\ UNCHANGED <<bound, d, att, desired, link>> /\ down # <<>>
        /\ left \in [Events -> Nat] /\ d.sequence \in Nat
    BY <1>1 DEF ApplyDelta, Receives, TypeInv, TypeOK, Deliveries
  <1>3. CASE Follows(Head(down))
    <2> DEFINE ack == AckOf(dev', FALSE, TRUE)
    <2>1. Reply(ack, left) /\ ack.type = "ack" /\ ack.session = link.session
      BY <1>3 DEF ApplyDelta, AckOf
    <2>2. OnTrack(dev, stage, down, d.epoch, d.sequence)
            => OnTrack(dev', stage', down', d.epoch, d.sequence)
      BY <1>1, <1>2, <1>3, DeltaOnTrack
    <2> HIDE DEF ack
    <2> QED
      BY <1>2, <2>1, <2>2, DeviceSteady
  <1>4. CASE ~Follows(Head(down))
    <2> DEFINE ack == AckOf(dev, TRUE, TRUE)
    <2>1. Reply(ack, left) /\ ack.type = "ack" /\ ack.session = link.session /\ ack.need
      BY <1>4 DEF ApplyDelta, AckOf
    <2> HIDE DEF ack
    <2> QED
      BY <1>2, <2>1, DeviceSteady
  <1> QED
    BY <1>3, <1>4

\* A page read by the device.
LEMMA ApplySnapshotPageSteady ==
    ASSUME SteadyInv, ApplySnapshotPage
    PROVE  Session' /\ Brought' /\ Numbered(d') /\ (NoLoss' => Sync')
  <1>1. TypeInv
    BY DEF SteadyInv, SafeInv
  <1>2. /\ UNCHANGED <<bound, d, att, desired, link>> /\ down # <<>>
        /\ left \in [Events -> Nat] /\ d.sequence \in Nat
    BY <1>1 DEF ApplySnapshotPage, Receives, TypeInv, TypeOK, Deliveries
  <1>3. OnTrack(dev, stage, down, d.epoch, d.sequence)
          => OnTrack(dev', stage', down', d.epoch, d.sequence)
    BY <1>1, <1>2, PageOnTrack
  <1>4. \E ack : Reply(ack, left) /\ ack.type = "ack" /\ ack.session = link.session
    <2>1. \A state, need, durable : /\ AckOf(state, need, durable).type = "ack"
                                    /\ AckOf(state, need, durable).session = link.session
      BY DEF AckOf
    <2>2. EmptyAck.type = "ack" /\ EmptyAck.session = link.session
      BY DEF EmptyAck
    <2>3. \/ Reply(AckOf(dev', FALSE, TRUE), left)
          \/ Reply(EmptyAck, left)
          \/ Reply(AckOf(dev, TRUE, TRUE), left)
      BY DEF ApplySnapshotPage
    <2> QED
      BY <2>1, <2>2, <2>3
  <1>5. PICK ack : Reply(ack, left) /\ ack.type = "ack" /\ ack.session = link.session
    BY <1>4
  <1> QED
    BY <1>2, <1>3, <1>5, DeviceSteady

\* A commit that fails.
LEMMA CommitFailsSteady ==
    ASSUME SteadyInv, CommitFails
    PROVE  Session' /\ Brought' /\ Numbered(d') /\ (NoLoss' => Sync')
  <1> DEFINE ack == AckOf(dev, TRUE, FALSE)
             budget == Spent(left, "commit", 1)
  <1>1. TypeInv
    BY DEF SteadyInv, SafeInv
  <1>2. UNCHANGED <<bound, d, att, desired, link>> /\ down # <<>>
    BY DEF CommitFails, Receives
  <1>3. budget \in [Events -> Nat] /\ budget["drop"] = left["drop"] /\ budget["db"] = left["db"]
    <2>1. /\ left \in [Events -> Nat] /\ "commit" \in Faults
          /\ "db" \in Faults \ {"commit"} /\ "drop" \in Faults \ {"commit"}
      BY <1>1 DEF TypeInv, TypeOK, Faults
    <2> QED
      BY <2>1, SpentType DEF CommitFails
  <1>4. Reply(ack, budget) /\ ack.type = "ack" /\ ack.session = link.session /\ ack.need
    BY DEF CommitFails, AckOf
  <1> HIDE DEF ack, budget
  <1> QED
    BY <1>2, <1>3, <1>4, DeviceSteady

\* The inductive step.
LEMMA SteadyStep ==
    ASSUME SteadyInv, TypeInv', [Next]_vars
    PROVE  Session' /\ Brought' /\ Numbered(d') /\ (NoLoss' => Sync')
  <1> DEFINE Goal == Session' /\ Brought' /\ Numbered(d') /\ (NoLoss' => Sync')
  <1>1. CASE UNCHANGED vars
    BY <1>1 DEF vars, SteadyInv, Session, Announced, Hello, Brought, Numbered, NoLoss, AllRecorded,
                Sync, Asked
  <1>2. CASE Bind
    BY <1>2, BindSteady
  <1>3. CASE Attach
    BY <1>3, AttachSteady
  <1>4. CASE Detach
    BY <1>4, DetachSteady
  <1>5. CASE Ack
    BY <1>5, AckSteady
  <1>6. CASE Push
    BY <1>6, PushSteady
  <1>7. ASSUME NEW child \in Occurrences, Retract(child) PROVE Goal
    BY <1>7, RetractSteady
  <1>8. CASE Restart \/ Forget
    BY <1>8, StopSteady
  <1>9. ASSUME NEW version \in Versions, EditCalendar(version) PROVE Goal
    BY <1>9, EditSteady
  <1>10. CASE Connect \/ EndSession \/ Lost \/ Reboot \/ Damage
    BY <1>10, LinkSteady
  <1>11. CASE ApplyDelta
    BY <1>11, ApplyDeltaSteady
  <1>12. CASE ApplySnapshotPage
    BY <1>12, ApplySnapshotPageSteady
  <1>13. CASE CommitFails
    BY <1>13, CommitFailsSteady
  <1> QED
    BY <1>1, <1>2, <1>3, <1>4, <1>5, <1>6, <1>7, <1>8, <1>9, <1>10, <1>11, <1>12, <1>13 DEF Next

\* The inductive invariant holds in every behaviour.
LEMMA SteadyInvariant == Spec => []SteadyInv
  <1>1. Init => Session /\ Brought /\ Numbered(d) /\ Sync
    <2> SUFFICES ASSUME Init PROVE Session /\ Brought /\ Numbered(d) /\ Sync
      OBVIOUS
    <2>1. /\ link = [state |-> "down", session |-> 0] /\ down = <<>> /\ up = <<>>
          /\ ~bound /\ desired = NoVersion /\ att.session = 0
          /\ d.sent = NoVersion /\ d.unacked = <<>>
      BY DEF Init, NewDelivery, NoSession
    <2>2. Session
      BY <2>1 DEF Session
    <2> QED
      BY <2>1, <2>2 DEF Brought, Numbered, Sync
  <1>2. Session /\ Brought /\ Numbered(d) /\ Sync /\ SafeInv => SteadyInv
    BY DEF SteadyInv
  <1>3. SteadyInv /\ SafeInv' /\ [Next]_vars => SteadyInv'
    <2> SUFFICES ASSUME SteadyInv, SafeInv', [Next]_vars PROVE SteadyInv'
      OBVIOUS
    <2>1. TypeInv'
      BY DEF SafeInv
    <2> QED
      BY <2>1, SteadyStep DEF SteadyInv
  <1> QED
    BY <1>1, <1>2, <1>3, SafeInvariant, PTL DEF Spec

\* On a session on which nothing is in flight the speaker holds what the
\* calendar says, if no acknowledgement was dropped and every position was
\* recorded: `attach`, `ack` and `refresh` need no other message than those
\* they send.
THEOREM QuietSessionsAreInStep == Spec => []QuietIsInStep
  <1>1. SteadyInv => QuietIsInStep
    <2> SUFFICES ASSUME SteadyInv, NoLoss, bound, desired = calendar,
                        link.state = "up", up = <<>>, down = <<>>
                 PROVE  dev.occ = calendar /\ ~dev.corrupt
      BY DEF QuietIsInStep, NoLoss, AllRecorded
    <2>1. TypeInv /\ Safe /\ Session /\ Brought /\ Sync
      BY DEF SteadyInv, SafeInv, NoLoss
    <2>2. link.session # 0 /\ att.session = link.session /\ ~Asked
      BY <2>1 DEF Session, Asked
    <2>3. desired # NoVersion /\ d.sent = calendar
      BY <2>1, <2>2, NoVersionAssumption DEF Brought, TypeInv, TypeOK
    <2>4. OnTrack(dev, stage, down, d.epoch, d.sequence)
      BY <2>1, <2>2, <2>3 DEF Sync
    <2>5. ~dev.corrupt /\ dev.epoch = d.epoch /\ dev.acked = d.sequence
      BY <2>1, <2>4 DEF OnTrack, TypeInv, TypeOK, Caches, Deliveries
    <2>6. d.epoch # 0 /\ <<d.epoch, d.sequence, d.sent>> \in hist
      BY <2>1, <2>3 DEF Safe, Accounts
    <2>7. <<dev.epoch, dev.acked, dev.occ>> \in hist
      BY <2>1, <2>5, <2>6 DEF Safe, CacheIsPublished
    <2>8. dev.occ = d.sent
      BY <2>1, <2>5, <2>6, <2>7 DEF Safe, Unambiguous
    <2> QED
      BY <2>3, <2>5, <2>8
  <1> QED
    BY <1>1, SteadyInvariant, PTL
=============================================================================
