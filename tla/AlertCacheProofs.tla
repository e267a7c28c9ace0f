-------------------------- MODULE AlertCacheProofs --------------------------
(***************************************************************************)
(* AlertDelivery implements AlertCache, and what `armed` says is so, for   *)
(* every set of occurrences and contents, every page size and every number *)
(* of faults, for as long as every position was recorded.                  *)
(*                                                                         *)
(* Both rest on one order: a snapshot on its way to the device carries a   *)
(* higher number than anything sent before it and than anything the device *)
(* ever reported, wherever that report is by now.  The device compares no  *)
(* numbers when it installs a snapshot; the order is what keeps an old one *)
(* from replacing a newer one.                                             *)
(***************************************************************************)
EXTENDS AlertDeliveryProofs, QueueLemmas

\* Positions, <<epoch, number>> or longer, in the order they are given out.
Less(a, b) == a[1] < b[1] \/ (a[1] = b[1] /\ a[2] < b[2])
AtMost(a, b) == a[1] < b[1] \/ (a[1] = b[1] /\ a[2] <= b[2])

\* Body m may go before page p: its number is lower, or both are pages of one
\* snapshot, in order.
Precedes(m, p) ==
    \/ Less(Claim(m), Claim(p))
    \/ /\ m.type = "snapshot" /\ m.epoch = p.epoch /\ m.high = p.high
       /\ m.count = p.count /\ m.index < p.index

\* Every page in `bodies` is one of its snapshot, after all that it may follow.
Paged(bodies) ==
    \A j \in 1..Len(bodies) :
        bodies[j].type = "snapshot" =>
            /\ bodies[j].index < bodies[j].count
            /\ \A i \in 1..(j - 1) : Precedes(bodies[i], bodies[j])

\* Position c was reported by a device whose state is now dv: the service has
\* given out up to `top`, an undamaged device has not fallen behind c, and
\* every snapshot in `bodies` is newer than c.
Holds(c, top, dv, bodies) ==
    /\ AtMost(c, top)
    /\ ~dv.corrupt => AtMost(c, <<dv.epoch, dv.acked>>)
    /\ \A j \in 1..Len(bodies) :
          bodies[j].type = "snapshot" => Less(c, Claim(bodies[j]))

\* The positions some part of the system has from the device: its own, that
\* of the attached session's hello, the acknowledged ones of the row and of
\* the service, and those in events on their way to the service.
Acknowledged(r) == {c \in {<<r.epoch, r.acked>>} : c[2] > 0}
Report(e) ==
    IF e.type = "attach" THEN {<<e.epoch, e.acked>>}
    ELSE IF e.type = "ack" /\ e.durable THEN {<<e.epoch, e.through>>}
    ELSE {}
InFlight(events) == UNION {Report(events[i]) : i \in 1..Len(events)}
Reports ==
    {<<dev.epoch, dev.acked>>, <<att.epoch, att.acked>>}
    \cup Acknowledged(row)
    \cup (IF bound THEN Acknowledged(d) ELSE {})
    \cup InFlight(up)

\* The highest position given out.
Top == <<FreshEpoch, row.sequence>>

\* From an object's revision on, every version claimed in G has the object as
\* it was last sent.
Revised(dl, G) ==
    dl.sent # NoVersion =>
        \A id \in Occurrences :
            dl.sent[id] # Absent =>
                /\ dl.revision[id] > 0
                /\ \A h \in G : h[1] = dl.epoch /\ h[2] >= dl.revision[id]
                                => h[3][id] = dl.sent[id]

\* The inductive invariant, next to Safe.
Order ==
    /\ row.epoch = 0 => row.sequence = 0
    /\ Paged(down)
    /\ \A c \in Reports : Holds(c, Top, dev, down)
    /\ bound => Revised(d, hist)

OrderInv == SafeInv /\ (AllRecorded => Order)

----------------------------------------------------------------------------
(* Positions and queues of bodies                                          *)

Positions == Epochs \X Nat

\* What a body claims has an epoch and a number.
LEMMA ClaimTypes ==
    ASSUME NEW m \in Bodies
    PROVE  Claim(m)[1] \in Nat /\ Claim(m)[2] \in Nat /\ Claim(m)[1] = m.epoch
  BY DEF Claim, Bodies, Messages, Pages, Epochs

\* The order of positions is transitive.
LEMMA OrderOf ==
    ASSUME NEW a, NEW b, NEW c, a[1] \in Nat, a[2] \in Nat, b[1] \in Nat, b[2] \in Nat,
           c[1] \in Nat, c[2] \in Nat
    PROVE  /\ AtMost(a, b) /\ AtMost(b, c) => AtMost(a, c)
           /\ AtMost(a, b) /\ Less(b, c) => Less(a, c)
           /\ Less(a, b) /\ AtMost(b, c) => Less(a, c)
           /\ Less(a, b) => AtMost(a, b)
           /\ AtMost(a, a)
  BY DEF Less, AtMost

\* A position below one that is held is held.
LEMMA HoldsBelow ==
    ASSUME NEW b \in Positions, NEW c \in Positions, NEW top \in Positions,
           NEW dv \in Caches, NEW bodies \in Seq(Bodies),
           AtMost(b, c), Holds(c, top, dv, bodies)
    PROVE  Holds(b, top, dv, bodies)
  <1>1. /\ b[1] \in Nat /\ b[2] \in Nat /\ c[1] \in Nat /\ c[2] \in Nat
        /\ top[1] \in Nat /\ top[2] \in Nat
    BY DEF Positions, Epochs
  <1>2. <<dv.epoch, dv.acked>>[1] \in Nat /\ <<dv.epoch, dv.acked>>[2] \in Nat
    BY DEF Caches, Epochs
  <1>3. AtMost(b, top)
    BY <1>1, OrderOf DEF Holds
  <1>4. ~dv.corrupt => AtMost(b, <<dv.epoch, dv.acked>>)
    BY <1>1, <1>2, OrderOf, SMTT(30) DEF Holds
  <1>5. ASSUME NEW j \in 1..Len(bodies), bodies[j].type = "snapshot"
        PROVE  Less(b, Claim(bodies[j]))
    <2>1. bodies[j] \in Bodies
      BY ElementOfSeq
    <2>2. Claim(bodies[j])[1] \in Nat /\ Claim(bodies[j])[2] \in Nat
      BY <2>1, ClaimTypes
    <2>3. Less(c, Claim(bodies[j]))
      BY <1>5 DEF Holds
    <2> QED
      BY <1>1, <2>2, <2>3, OrderOf
  <1> QED
    BY <1>3, <1>4, <1>5 DEF Holds

\* What is left of a queue is paged, and the body read may precede its pages.
LEMMA PagedTail ==
    ASSUME NEW q \in Seq(Bodies), q # <<>>, Paged(q)
    PROVE  /\ Paged(Tail(q))
           /\ \A j \in 1..Len(Tail(q)) :
                 Tail(q)[j].type = "snapshot" =>
                    /\ Tail(q)[j].index < Tail(q)[j].count
                    /\ Precedes(Head(q), Tail(q)[j])
           /\ Head(q).type = "snapshot" => Head(q).index < Head(q).count
  <1> DEFINE t == Tail(q)
  <1>1. /\ Len(t) = Len(q) - 1 /\ Len(q) \in Nat /\ Len(q) > 0 /\ Head(q) = q[1]
        /\ \A i \in 1..Len(t) : t[i] = q[i + 1] /\ i + 1 \in 1..Len(q)
    BY TailOf
  <1> HIDE DEF t
  <1>2. ASSUME NEW j \in 1..Len(t), t[j].type = "snapshot"
        PROVE  /\ t[j].index < t[j].count
               /\ Precedes(Head(q), t[j])
               /\ \A i \in 1..(j - 1) : Precedes(t[i], t[j])
    <2>1. t[j] = q[j + 1] /\ j + 1 \in 1..Len(q)
      BY <1>1
    <2>2. /\ t[j].index < t[j].count
          /\ \A i \in 1..j : Precedes(q[i], t[j])
      <3>1. (j + 1) - 1 = j
        BY <1>1
      <3> QED
        BY <1>2, <2>1, <3>1 DEF Paged
    <2>3. 1 \in 1..j /\ \A i \in 1..(j - 1) : i + 1 \in 1..j /\ i \in 1..Len(t)
      BY <1>1
    <2> QED
      BY <1>1, <2>2, <2>3
  <1>3. 1 \in 1..Len(q)
    BY <1>1
  <1>4. Head(q).type = "snapshot" => Head(q).index < Head(q).count
    BY <1>1, <1>3 DEF Paged
  <1>5. Paged(t)
    BY <1>2 DEF Paged
  <1> QED
    BY <1>2, <1>4, <1>5 DEF t

\* A paged queue stays paged when bodies are added whose pages are newer than
\* all of it.
LEMMA PagedConcat ==
    ASSUME NEW a \in Seq(Bodies), NEW b \in Seq(Bodies), Paged(a), Paged(b),
           \A i \in 1..Len(a), j \in 1..Len(b) :
              b[j].type = "snapshot" => Less(Claim(a[i]), Claim(b[j]))
    PROVE  Paged(a \o b)
  <1> DEFINE c == a \o b
             m == Len(a)
  <1>1. /\ Len(a) \in Nat /\ Len(b) \in Nat /\ Len(c) = Len(a) + Len(b)
        /\ \A i \in 1..Len(a) : c[i] = a[i]
        /\ \A i \in 1..Len(b) : c[m + i] = b[i]
        /\ \A i \in 1..Len(c) : i \in 1..Len(a) \/ \E k \in 1..Len(b) : i = m + k
    BY ConcatOf
  <1> HIDE DEF c
  <1>2. ASSUME NEW j \in 1..Len(c), c[j].type = "snapshot"
        PROVE  c[j].index < c[j].count /\ \A i \in 1..(j - 1) : Precedes(c[i], c[j])
    <2>1. CASE j \in 1..Len(a)
      <3>1. c[j] = a[j] /\ \A i \in 1..(j - 1) : i \in 1..Len(a)
        BY <1>1, <2>1
      <3> QED
        BY <1>1, <1>2, <2>1, <3>1 DEF Paged
    <2>2. ASSUME NEW k \in 1..Len(b), j = m + k
          PROVE  c[j].index < c[j].count /\ \A i \in 1..(j - 1) : Precedes(c[i], c[j])
      <3>1. c[j] = b[k]
        BY <1>1, <2>2
      <3>2. b[k].index < b[k].count /\ \A i \in 1..(k - 1) : Precedes(b[i], b[k])
        BY <1>2, <3>1 DEF Paged
      <3>3. ASSUME NEW i \in 1..(j - 1)
            PROVE  Precedes(c[i], b[k])
        <4>1. i \in 1..Len(c)
          BY <1>1
        <4>2. CASE i \in 1..Len(a)
          BY <1>1, <1>2, <3>1, <4>2 DEF Precedes
        <4>3. ASSUME NEW n \in 1..Len(b), i = m + n
              PROVE  Precedes(c[i], b[k])
          <5>1. n \in 1..(k - 1)
            BY <1>1, <2>2, <4>3
          <5> QED
            BY <1>1, <3>2, <4>3, <5>1
        <4> QED
          BY <1>1, <4>1, <4>2, <4>3
      <3> QED
        BY <3>1, <3>2, <3>3
    <2> QED
      BY <1>1, <2>1, <2>2
  <1>3. Paged(c)
    BY <1>2 DEF Paged
  <1> QED
    BY <1>3 DEF c

----------------------------------------------------------------------------
(* Each step of the delivery keeps the order and the revisions             *)

\* Outbox o of dl, after the claims G: its pages are newer than all that dl
\* gave out, and revisions stay right.
Orders(dl, o, G) ==
    /\ Paged(o.bodies)
    /\ \A j \in 1..Len(o.bodies) :
          o.bodies[j].type = "snapshot" =>
             o.bodies[j].epoch = dl.epoch /\ o.bodies[j].high > dl.sequence
    /\ Revised(dl, G) => Revised(o.after, G \cup Claims(o.bodies))

\* Deltas alone hold no page.
LEMMA NoPages ==
    ASSUME NEW s \in Seq(Messages)
    PROVE  /\ \A j \in 1..Len(s) : s[j].type # "snapshot"
           /\ Paged(s)
  <1>1. \A j \in 1..Len(s) : s[j] \in Messages
    BY ElementOfSeq
  <1>2. \A j \in 1..Len(s) : s[j].type = "delta"
    BY <1>1 DEF Messages
  <1>3. \A j \in 1..Len(s) : s[j].type # "snapshot"
    BY <1>2
  <1> QED
    BY <1>3 DEF Paged

\* Deltas sent again.
LEMMA RepeatOrders ==
    ASSUME NEW dl, NEW o, NEW G, o.bodies \in Seq(Messages), AllBacked(o.bodies, G),
           o.after.epoch = dl.epoch, o.after.sent = dl.sent,
           o.after.revision = dl.revision
    PROVE  Orders(dl, o, G)
  <1>1. Claims(o.bodies) \subseteq G
    <2>1. \A i \in 1..Len(o.bodies) : Claim(o.bodies[i]) \in G
      BY DEF AllBacked, Backed, Claim
    <2>2. o.bodies \in Seq(Bodies)
      BY SeqMonotonic DEF Bodies
    <2> QED
      BY <2>1, <2>2, ClaimsOf
  <1>2. G \cup Claims(o.bodies) = G
    BY <1>1
  <1>3. Revised(dl, G) => Revised(o.after, G)
    BY DEF Revised
  <1> QED
    BY <1>2, <1>3, NoPages DEF Orders

\* Attaching, and taking an ack, send at most deltas that were sent before.
LEMMA AttachOrders ==
    ASSUME NEW dl \in Deliveries, NEW hello, NEW G, Accounts(dl, G)
    PROVE  Orders(dl, AttachOutbox(dl, hello), G)
  <1> DEFINE o == AttachOutbox(dl, hello)
             rest == Retain(dl.unacked, hello.acked)
  <1>1. rest \in Seq(Messages) /\ <<>> \in Seq(Messages)
    BY RetainType, EmptySeq DEF Deliveries
  <1>2. AllBacked(rest, G) /\ AllBacked(<<>>, G)
    BY RetainBacked DEF AllBacked
  <1>3. /\ o.after.epoch = dl.epoch /\ o.after.sent = dl.sent
        /\ o.after.revision = dl.revision
        /\ o.bodies = rest \/ o.bodies = <<>>
    BY DEF AttachOutbox, Outbox, Deliveries
  <1> HIDE DEF o, rest
  <1>4. Orders(dl, o, G)
    BY <1>1, <1>2, <1>3, RepeatOrders
  <1> QED
    BY <1>4 DEF o

\* An acknowledgement puts nothing on the wire, so it orders every history.
LEMMA AckOrders ==
    ASSUME NEW dl \in Deliveries, NEW ack, NEW G
    PROVE  Orders(dl, AckOutbox(dl, ack), G)
  <1> DEFINE o == AckOutbox(dl, ack)
  <1>1. <<>> \in Seq(Messages) /\ AllBacked(<<>>, G)
    BY EmptySeq DEF AllBacked
  <1>2. /\ o.after.epoch = dl.epoch /\ o.after.sent = dl.sent
        /\ o.after.revision = dl.revision /\ o.bodies = <<>>
    BY DEF AckOutbox, Outbox, Deliveries
  <1> HIDE DEF o
  <1>3. Orders(dl, o, G)
    BY <1>1, <1>2, RepeatOrders
  <1> QED
    BY <1>3 DEF o

\* Deltas for a change: an object that changed is right from its chunk's
\* delta on, the others are as before.
LEMMA DeltasOrders ==
    ASSUME NEW dl \in Deliveries, dl.sent \in Versions, NEW new \in Versions,
           NEW G \in ClaimSet, Accounts(dl, G)
    PROVE  Orders(dl, DeltasOutbox(dl, new), G)
  <1> DEFINE ids == Changed(dl.sent, new)
             n == Chunks(ids)
             deltas == [k \in 1..n |-> ChunkDelta(dl, new, k)]
             version(k) == Partial(dl.sent, new, k)
             chunk(id) == Chunk(id, ids, new)
             o == DeltasOutbox(dl, new)
  <1>1. n \in Nat /\ dl.sequence \in Nat
    BY ChunksType DEF Changed, Deliveries
  <1>2. deltas \in Seq(Messages) /\ deltas \in Seq(Bodies) /\ Len(deltas) = n
    <2>1. deltas \in [1..n -> Messages]
      BY <1>1, ChunkDeltaType
    <2>2. deltas \in Seq(Messages) /\ Len(deltas) = n
      BY <1>1, <2>1, SeqDef, LenProperties
    <2> QED
      BY <2>2, SeqMonotonic DEF Bodies
  <1>3. /\ o.bodies = deltas /\ o.after.epoch = dl.epoch /\ o.after.sent = version(n)
        /\ o.after.revision = [id \in Occurrences |->
              IF id \in ids THEN dl.sequence + chunk(id) ELSE dl.revision[id]]
    BY DEF DeltasOutbox, Outbox, Deliveries
  <1>4. \A k \in 1..n : Claim(deltas[k]) = <<dl.epoch, dl.sequence + k, version(k)>>
    BY DEF ChunkDelta, Delta, Claim
  <1>5. \A id : chunk(id) \in Nat \ {0}
    BY ChunkType DEF Changed
  <1>6. \A id \in Occurrences, k \in Nat :
           version(k)[id] = IF chunk(id) <= k THEN new[id] ELSE dl.sent[id]
    BY DEF Partial
  <1>7. \A id \in Occurrences : id \in ids <=> dl.sent[id] # new[id]
    BY DEF Changed
  <1> HIDE DEF n, deltas, o, version, chunk, ids
  <1>8. Claims(deltas) = {<<dl.epoch, dl.sequence + k, version(k)>> : k \in 1..n}
    BY <1>2, <1>4, ClaimsOf
  <1>9. ASSUME Revised(dl, G), NEW id \in Occurrences, version(n)[id] # Absent
        PROVE  /\ o.after.revision[id] > 0
               /\ \A h \in G \cup Claims(deltas) :
                     h[1] = dl.epoch /\ h[2] >= o.after.revision[id]
                     => h[3][id] = version(n)[id]
    <2>1. CASE id \in ids
      <3>1. o.after.revision[id] = dl.sequence + chunk(id)
        BY <1>3, <2>1
      <3>2. chunk(id) \in Nat \ {0}
        BY <1>5
      <3>3. \A h \in G : h[1] = dl.epoch => ~(h[2] >= o.after.revision[id])
        <4>1. \A h \in G : h[2] \in Nat
          BY DEF ClaimSet
        <4> QED
          BY <1>1, <3>1, <3>2, <4>1 DEF Accounts
      <3>4. ASSUME NEW k \in 1..n, dl.sequence + k >= o.after.revision[id]
            PROVE  version(k)[id] = version(n)[id]
        <4>1. chunk(id) <= k /\ chunk(id) <= n /\ k \in Nat
          BY <1>1, <3>1, <3>2, <3>4
        <4> QED
          BY <1>1, <1>6, <4>1
      <3>5. o.after.revision[id] > 0
        BY <1>1, <3>1, <3>2
      <3> QED
        BY <1>8, <3>3, <3>4, <3>5
    <2>2. CASE id \notin ids
      <3>1. o.after.revision[id] = dl.revision[id] /\ dl.sent[id] = new[id]
        BY <1>3, <1>7, <2>2
      <3>2. \A k \in Nat : version(k)[id] = dl.sent[id]
        BY <1>6, <3>1
      <3>3. dl.sent # NoVersion
        BY NoVersionAssumption
      <3>4. /\ dl.revision[id] > 0
            /\ \A h \in G : h[1] = dl.epoch /\ h[2] >= dl.revision[id]
                            => h[3][id] = dl.sent[id]
        BY <1>1, <1>9, <3>2, <3>3 DEF Revised
      <3>5. \A k \in 1..n : k \in Nat
        BY <1>1
      <3> QED
        BY <1>1, <1>8, <3>1, <3>2, <3>4, <3>5
    <2> QED
      BY <2>1, <2>2
  <1>10. Revised(dl, G) => Revised(o.after, G \cup Claims(deltas))
    BY <1>3, <1>9 DEF Revised
  <1>11. Orders(dl, o, G)
    BY <1>2, <1>3, <1>10, NoPages DEF Orders
  <1> QED
    BY <1>11 DEF o

\* A snapshot takes the next number: its pages are newer than all before, an
\* object that is as it was keeps its revision, and any other is right from
\* this snapshot on.
LEMMA SnapshotOrders ==
    ASSUME NEW dl \in Deliveries, NEW new \in Versions, NEW G \in ClaimSet,
           Accounts(dl, G)
    PROVE  Orders(dl, SnapshotOutbox(dl, new), G)
  <1> DEFINE o == SnapshotOutbox(dl, new)
             live == {id \in Occurrences : new[id] # Absent}
             n == IF live = {} THEN 1 ELSE Chunks(live)
             high == NextSequence(dl)
             page(k) == [type |-> "snapshot", epoch |-> dl.epoch, high |-> high,
                         index |-> k - 1, count |-> n, digest |-> new,
                         put |-> Only(ChunkIds(live, new, k), new)]
  <1>1. IsOutbox(o)
    BY SnapshotOutboxType
  <1>2. n \in Nat /\ dl.sequence \in Nat /\ high = dl.sequence + 1
    BY ChunksType DEF NextSequence, Deliveries
  <1>3. /\ o.bodies = [k \in 1..n |-> page(k)]
        /\ o.after.epoch = dl.epoch /\ o.after.sent = new
        /\ o.after.revision = SnapshotRevision(dl, new, high)
    BY DEF SnapshotOutbox, Outbox, Deliveries
  <1>4. \A k : /\ page(k).type = "snapshot" /\ page(k).epoch = dl.epoch
               /\ page(k).high = high /\ page(k).digest = new
               /\ page(k).index = k - 1 /\ page(k).count = n
    OBVIOUS
  <1> HIDE DEF o, n, page
  <1>5. /\ o.bodies \in Seq(Bodies) /\ Len(o.bodies) = n
        /\ \A k \in 1..n : o.bodies[k] = page(k)
    <2>1. o.bodies \in Seq(Bodies) /\ DOMAIN o.bodies = 1..n
      BY <1>1, <1>3 DEF IsOutbox
    <2>2. Len(o.bodies) = n
      BY <1>2, <2>1, LenProperties
    <2> QED
      BY <1>3, <2>1, <2>2
  <1>6. Paged(o.bodies)
    <2> SUFFICES ASSUME NEW j \in 1..n
                 PROVE  /\ o.bodies[j].index < o.bodies[j].count
                        /\ \A i \in 1..(j - 1) : Precedes(o.bodies[i], o.bodies[j])
      BY <1>5 DEF Paged
    <2>1. o.bodies[j].index < o.bodies[j].count
      BY <1>2, <1>4, <1>5
    <2>2. ASSUME NEW i \in 1..(j - 1)
          PROVE  Precedes(o.bodies[i], o.bodies[j])
      <3>1. i \in 1..n /\ i - 1 < j - 1
        BY <1>2
      <3> QED
        BY <1>4, <1>5, <3>1 DEF Precedes
    <2> QED
      BY <2>1, <2>2
  <1>7. \A j \in 1..n : o.bodies[j].epoch = dl.epoch /\ o.bodies[j].high > dl.sequence
    BY <1>2, <1>4, <1>5
  <1>8. \A h \in Claims(o.bodies) : h = <<dl.epoch, high, new>>
    <2>1. Claims(o.bodies) = {Claim(o.bodies[k]) : k \in 1..n}
      BY <1>5, ClaimsOf
    <2>2. \A k \in 1..n : Claim(o.bodies[k]) = <<dl.epoch, high, new>>
      BY <1>4, <1>5 DEF Claim
    <2> QED
      BY <2>1, <2>2
  <1>9. ASSUME Revised(dl, G), NEW id \in Occurrences, new[id] # Absent
        PROVE  /\ o.after.revision[id] > 0
               /\ \A h \in G \cup Claims(o.bodies) :
                     h[1] = dl.epoch /\ h[2] >= o.after.revision[id]
                     => h[3][id] = new[id]
    <2>1. CASE dl.sent # NoVersion /\ dl.sent[id] = new[id]
      <3>1. o.after.revision[id] = dl.revision[id]
        BY <1>3, <2>1 DEF SnapshotRevision
      <3>2. /\ dl.revision[id] > 0
            /\ \A h \in G : h[1] = dl.epoch /\ h[2] >= dl.revision[id]
                            => h[3][id] = dl.sent[id]
        BY <1>9, <2>1 DEF Revised
      <3> QED
        BY <1>8, <2>1, <3>1, <3>2
    <2>2. CASE ~(dl.sent # NoVersion /\ dl.sent[id] = new[id])
      <3>1. o.after.revision[id] = high
        BY <1>3, <2>2 DEF SnapshotRevision
      <3>2. \A h \in G : h[1] = dl.epoch => ~(h[2] >= high)
        <4>1. \A h \in G : h[2] \in Nat
          BY DEF ClaimSet
        <4> QED
          BY <1>2, <4>1 DEF Accounts
      <3> QED
        BY <1>2, <1>8, <3>1, <3>2
    <2> QED
      BY <2>1, <2>2
  <1>10. Revised(dl, G) => Revised(o.after, G \cup Claims(o.bodies))
    BY <1>3, <1>9 DEF Revised
  <1>11. Orders(dl, o, G)
    BY <1>5, <1>6, <1>7, <1>10 DEF Orders
  <1> QED
    BY <1>11 DEF o

\* The child retracted is not held any more; the other objects are as before.
LEMMA RetractOrders ==
    ASSUME NEW dl \in Deliveries, NEW child \in Occurrences, NEW G \in ClaimSet,
           Accounts(dl, G)
    PROVE  Orders(dl, RetractOutbox(dl, child), G)
  <1> DEFINE o == RetractOutbox(dl, child)
  <1>1. CASE dl.owed \/ dl.sent = NoVersion
    <2>1. o.after = dl /\ o.bodies = <<>>
      BY <1>1 DEF RetractOutbox, Outbox
    <2>2. <<>> \in Seq(Messages) /\ AllBacked(<<>>, G)
      BY EmptySeq DEF AllBacked
    <2> QED
      BY <2>1, <2>2, RepeatOrders
  <1>2. CASE ~(dl.owed \/ dl.sent = NoVersion)
    <2> DEFINE version == [dl.sent EXCEPT ![child] = Absent]
               delta == Delta(dl.epoch, NextSequence(dl), Empty, {child}, version)
    <2>1. dl.sent \in Versions /\ version \in Versions
      BY <1>2 DEF Versions, Objects, Deliveries
    <2>2. /\ o.bodies = <<delta>>
          /\ o.after.epoch = dl.epoch /\ o.after.sent = version
          /\ o.after.revision = dl.revision
      BY <1>2 DEF RetractOutbox, Outbox, Deliveries
    <2>3. /\ delta.type = "delta" /\ delta.epoch = dl.epoch
          /\ delta.sequence = NextSequence(dl) /\ delta.version = version
      BY DEF Delta
    <2>4. delta \in Messages
      BY <2>1, EmptyType DEF Delta, Messages, Deliveries, NextSequence
    <2> HIDE DEF delta
    <2>5. /\ <<delta>> \in Seq(Messages) /\ <<delta>> \in Seq(Bodies)
          /\ Len(<<delta>>) = 1 /\ <<delta>>[1] = delta
      BY <2>4, SeqMonotonic DEF Bodies
    <2>6. Claims(<<delta>>) = {<<dl.epoch, NextSequence(dl), version>>}
      <3>1. Claims(<<delta>>) = {Claim(<<delta>>[i]) : i \in 1..Len(<<delta>>)}
        BY <2>5, ClaimsOf
      <3>2. Claim(delta) = <<dl.epoch, NextSequence(dl), version>>
        BY <2>3 DEF Claim
      <3> QED
        BY <2>5, <3>1, <3>2
    <2>7. \A id \in Occurrences : version[id] # Absent => version[id] = dl.sent[id]
      BY <2>1 DEF Versions
    <2> HIDE DEF version
    <2>8. ASSUME Revised(dl, G), NEW id \in Occurrences, version[id] # Absent
          PROVE  /\ dl.revision[id] > 0
                 /\ \A h \in G \cup Claims(<<delta>>) :
                       h[1] = dl.epoch /\ h[2] >= dl.revision[id] => h[3][id] = version[id]
      <3>1. /\ dl.revision[id] > 0
            /\ \A h \in G : h[1] = dl.epoch /\ h[2] >= dl.revision[id]
                            => h[3][id] = dl.sent[id]
        BY <1>2, <2>7, <2>8 DEF Revised
      <3> QED
        BY <2>6, <2>7, <2>8, <3>1
    <2>9. Revised(dl, G) => Revised(o.after, G \cup Claims(<<delta>>))
      BY <2>2, <2>8 DEF Revised
    <2> HIDE DEF o
    <2> QED
      BY <2>2, <2>5, <2>9, NoPages DEF Orders, o
  <1> QED
    BY <1>1, <1>2

\* A refresh sends a snapshot or deltas.
LEMMA RefreshOrders ==
    ASSUME NEW dl \in Deliveries, NEW new \in Versions, NEW G \in ClaimSet,
           Accounts(dl, G)
    PROVE  Orders(dl, RefreshOutbox(dl, new), G)
  <1>1. dl.sent = NoVersion \/ dl.sent \in Versions
    BY DEF Deliveries
  <1> QED
    BY <1>1, DeltasOrders, SnapshotOrders DEF RefreshOutbox

----------------------------------------------------------------------------
(* A turn of the service                                                   *)

\* A turn in an epoch whose numbers were given out up to `floor` before it:
\* the pages it posts are newer, and revisions are right.
Orderly(turn, H, epoch, floor) ==
    turn.failed = 0 =>
        /\ Paged(turn.posts)
        /\ \A j \in 1..Len(turn.posts) :
              turn.posts[j].type = "snapshot" =>
                 turn.posts[j].epoch = epoch /\ turn.posts[j].high > floor
        /\ turn.d.sequence >= floor
        /\ Revised(turn.d, H \cup Claims(turn.posts))

\* The positions a turn holds as acknowledged are at most `a`.
Within(turn, a) == turn.d.acked <= a /\ turn.row.acked <= a

\* Sending an orderly outbox keeps the turn orderly.
LEMMA SendOrderly ==
    ASSUME NEW turn \in Turns, NEW H \in ClaimSet, NEW epoch \in Nat, NEW floor \in Nat,
           \A h \in H : h[1] <= epoch,
           Sound(turn, H, epoch), Orderly(turn, H, epoch, floor), NEW o, IsOutbox(o),
           turn.failed = 0 => /\ Keeps(turn.d, o, H \cup Claims(turn.posts))
                              /\ Orders(turn.d, o, H \cup Claims(turn.posts)),
           NEW written
    PROVE  Orderly(Send(turn, o, written), H, epoch, floor)
  <1> DEFINE G == H \cup Claims(turn.posts)
             sent == Send(turn, o, written)
  <1>1. turn.failed \in Nat
    BY DEF Turns
  <1>2. CASE o.moved /\ ~written
    <2>1. sent.failed = turn.failed + 1
      BY <1>2 DEF Send, Turns
    <2> QED
      BY <1>1, <2>1 DEF Orderly
  <1>3. CASE turn.failed # 0 /\ ~(o.moved /\ ~written)
    <2>1. sent.failed = turn.failed
      BY <1>3 DEF Send, Turns
    <2> QED
      BY <1>3, <2>1 DEF Orderly
  <1>4. CASE turn.failed = 0 /\ ~(o.moved /\ ~written)
    <2>1. sent.d = o.after /\ sent.posts = turn.posts \o o.bodies
      BY <1>4 DEF Send, Turns
    <2>2. turn.posts \in Seq(Bodies) /\ o.bodies \in Seq(Bodies)
      BY DEF Turns, IsOutbox
    <2>3. H \cup Claims(sent.posts) = G \cup Claims(o.bodies)
      BY <2>1, <2>2, ClaimsConcat
    <2>4. Keeps(turn.d, o, G) /\ Orders(turn.d, o, G)
      BY <1>4
    <2>5. /\ Paged(turn.posts) /\ turn.d.sequence >= floor /\ Revised(turn.d, G)
          /\ \A j \in 1..Len(turn.posts) :
                turn.posts[j].type = "snapshot" =>
                   turn.posts[j].epoch = epoch /\ turn.posts[j].high > floor
      BY <1>4 DEF Orderly
    <2>6. turn.d.epoch = epoch /\ turn.d.sequence \in Nat /\ o.after.sequence \in Nat
      BY <1>4 DEF Sound, Turns, Deliveries, IsOutbox
    <2>7. \A h \in G : AtMost(h, <<epoch, turn.d.sequence>>)
      <3>1. G \in ClaimSet
        BY <2>2, ClaimsType DEF ClaimSet
      <3>2. \A h \in G : h[1] \in Nat /\ h[2] \in Nat
        BY <3>1 DEF ClaimSet, Epochs
      <3>3. \A h \in G : h[1] = epoch => h[2] <= turn.d.sequence
        BY <1>4, <2>6 DEF Sound, Accounts
      <3>4. \A h \in G : h[1] <= epoch
        BY <1>4 DEF Sound
      <3> HIDE DEF G
      <3> QED
        BY <3>2, <3>3, <3>4 DEF AtMost
    <2>8. ASSUME NEW j \in 1..Len(o.bodies), o.bodies[j].type = "snapshot"
          PROVE  /\ o.bodies[j].epoch = epoch /\ o.bodies[j].high > floor
                 /\ \A h \in G : Less(h, Claim(o.bodies[j]))
      <3>1. o.bodies[j].epoch = epoch /\ o.bodies[j].high > turn.d.sequence
        BY <2>4, <2>6, <2>8 DEF Orders
      <3>2. o.bodies[j].high \in Nat
        <4>1. o.bodies[j] \in Bodies
          BY <2>2, ElementOfSeq
        <4> QED
          BY <2>8, <4>1 DEF Bodies, Messages, Pages
      <3>3. Claim(o.bodies[j])[1] = epoch /\ Claim(o.bodies[j])[2] = o.bodies[j].high
        BY <2>8, <3>1 DEF Claim
      <3>4. G \in ClaimSet
        BY <2>2, ClaimsType DEF ClaimSet
      <3>5. \A h \in G : h[1] \in Nat /\ h[2] \in Nat
        BY <3>4 DEF ClaimSet, Epochs
      <3> HIDE DEF G
      <3>6. \A h \in G : Less(h, Claim(o.bodies[j]))
        BY <2>6, <2>7, <3>1, <3>2, <3>3, <3>5, SMTT(30) DEF AtMost, Less
      <3> QED
        BY <2>5, <2>6, <3>1, <3>2, <3>6
    <2>9. Paged(turn.posts \o o.bodies)
      <3>1. Paged(o.bodies)
        BY <2>4 DEF Orders
      <3>2. \A i \in 1..Len(turn.posts) : Claim(turn.posts[i]) \in G
        BY <2>2, ClaimsOf
      <3> HIDE DEF G
      <3> QED
        BY <2>2, <2>5, <2>8, <3>1, <3>2, PagedConcat
    <2>10. \A j \in 1..Len(sent.posts) :
              sent.posts[j].type = "snapshot" =>
                 sent.posts[j].epoch = epoch /\ sent.posts[j].high > floor
      <3> HIDE DEF G, sent
      <3>1. \A j \in 1..Len(sent.posts) :
               \/ j \in 1..Len(turn.posts) /\ sent.posts[j] = turn.posts[j]
               \/ \E k \in 1..Len(o.bodies) : sent.posts[j] = o.bodies[k]
        <4> DEFINE q == turn.posts
                   r == o.bodies
        <4>1. /\ \A i \in 1..Len(q) : (q \o r)[i] = q[i]
              /\ \A i \in 1..Len(r) : (q \o r)[Len(q) + i] = r[i]
              /\ \A i \in 1..Len(q \o r) : i \in 1..Len(q) \/ \E k \in 1..Len(r) : i = Len(q) + k
          <5>1. q \in Seq(Bodies) /\ r \in Seq(Bodies)
            BY <2>2
          <5> HIDE DEF q, r
          <5>2. \A i \in 1..Len(q) : (q \o r)[i] = q[i]
            BY ONLY <5>1, ConcatOf
          <5>3. \A i \in 1..Len(r) : (q \o r)[Len(q) + i] = r[i]
            BY ONLY <5>1, ConcatOf
          <5>4. \A i \in 1..Len(q \o r) : i \in 1..Len(q) \/ \E k \in 1..Len(r) : i = Len(q) + k
            BY ONLY <5>1, ConcatOf
          <5> QED
            BY ONLY <5>2, <5>3, <5>4
        <4>2. sent.posts = q \o r
          BY <2>1
        <4> HIDE DEF q, r
        <4>3. \A j \in 1..Len(sent.posts) :
                 \/ j \in 1..Len(q) /\ sent.posts[j] = q[j]
                 \/ \E k \in 1..Len(r) : sent.posts[j] = r[k]
          BY <4>1, <4>2
        <4> QED
          BY <4>3 DEF q, r
      <3> QED
        BY <2>5, <2>8, <3>1, ZenonT(40)
    <2>11. o.after.sequence >= floor
      BY <2>4, <2>5, <2>6 DEF Keeps
    <2>12. Revised(o.after, G \cup Claims(o.bodies))
      BY <2>4, <2>5 DEF Orders
    <2> HIDE DEF G, sent
    <2> QED
      BY <2>1, <2>3, <2>9, <2>10, <2>11, <2>12 DEF Orderly, sent
  <1> QED
    BY <1>2, <1>3, <1>4

\* Refreshing keeps a turn orderly.
LEMMA RefreshOrderly ==
    ASSUME NEW turn \in Turns, NEW H \in ClaimSet, NEW epoch \in Nat, NEW floor \in Nat,
           \A h \in H : h[1] <= epoch,
           Sound(turn, H, epoch), Orderly(turn, H, epoch, floor),
           NEW new \in Versions \cup {NoVersion}, NEW written
    PROVE  Orderly(Refresh(turn, new, written), H, epoch, floor)
  <1>1. CASE new = NoVersion
    BY <1>1 DEF Refresh
  <1>2. CASE new # NoVersion
    <2>1. turn.d \in Deliveries /\ turn.posts \in Seq(Bodies) /\ new \in Versions
      BY <1>2 DEF Turns
    <2>2. H \cup Claims(turn.posts) \in ClaimSet
      BY <2>1, ClaimsType DEF ClaimSet
    <2>3. IsOutbox(RefreshOutbox(turn.d, new))
      BY <2>1, RefreshOutboxType
    <2>4. turn.failed = 0 =>
             /\ Keeps(turn.d, RefreshOutbox(turn.d, new), H \cup Claims(turn.posts))
             /\ Orders(turn.d, RefreshOutbox(turn.d, new), H \cup Claims(turn.posts))
      BY <2>1, <2>2, RefreshKeeps, RefreshOrders DEF Sound
    <2>5. Orderly(Send(turn, RefreshOutbox(turn.d, new), written), H, epoch, floor)
      BY <2>3, <2>4, SendOrderly
    <2> QED
      BY <1>2, <2>5 DEF Refresh
  <1> QED
    BY <1>1, <1>2

\* Recording a position, and refreshing, raise no acknowledged position above
\* what bounds both.
LEMMA SendWithin ==
    ASSUME NEW turn \in Turns, NEW o, IsOutbox(o), NEW a \in Nat, Within(turn, a),
           o.after.acked <= a, NEW written
    PROVE  Within(Send(turn, o, written), a)
  <1>1. turn.row \in Rows /\ o.after \in Deliveries
    BY DEF Turns, IsOutbox
  <1>2. /\ turn.row.acked \in Nat /\ turn.row.sequence \in Nat
        /\ o.after.acked \in Nat /\ o.after.sequence \in Nat
    BY <1>1 DEF Rows, Deliveries
  <1>3. Recorded(turn.row, o.after).acked <= a
    <2>1. Recorded(turn.row, o.after).acked =
             Lower(Higher(turn.row.acked, o.after.acked),
                   Higher(turn.row.sequence, o.after.sequence))
      BY <1>1 DEF Recorded, Rows
    <2> QED
      BY <1>2, <2>1 DEF Lower, Higher, Within
  <1>4. /\ Send(turn, o, written).d = o.after
        /\ \/ Send(turn, o, written).row = turn.row
           \/ Send(turn, o, written).row = Recorded(turn.row, o.after)
    BY DEF Send, Turns
  <1> QED
    BY <1>3, <1>4 DEF Within

\* A refresh sends and never moves the acknowledged position.
LEMMA RefreshWithin ==
    ASSUME NEW turn \in Turns, NEW a \in Nat, Within(turn, a),
           NEW new \in Versions \cup {NoVersion}, NEW written
    PROVE  Within(Refresh(turn, new, written), a)
  <1>1. CASE new = NoVersion
    BY <1>1 DEF Refresh
  <1>2. CASE new # NoVersion
    <2>1. turn.d \in Deliveries /\ new \in Versions
      BY <1>2 DEF Turns
    <2>2. IsOutbox(RefreshOutbox(turn.d, new))
      BY <2>1, RefreshOutboxType
    <2>3. RefreshOutbox(turn.d, new).after.acked = turn.d.acked
      BY <2>1 DEF RefreshOutbox, SnapshotOutbox, DeltasOutbox, Outbox, Deliveries
    <2>4. Within(Send(turn, RefreshOutbox(turn.d, new), written), a)
      BY <2>2, <2>3, SendWithin DEF Within
    <2> QED
      BY <1>2, <2>4 DEF Refresh
  <1> QED
    BY <1>1, <1>2

----------------------------------------------------------------------------
(* The positions reported                                                  *)

\* The reports in a queue of events whose head is taken, to which an event is
\* added, or of which only the first are left.
LEMMA InFlightOf ==
    ASSUME NEW q \in Seq(EventsUp)
    PROVE  /\ q # <<>> => InFlight(Tail(q)) \subseteq InFlight(q) /\ Report(Head(q)) \subseteq InFlight(q)
           /\ \A e \in EventsUp : InFlight(Append(q, e)) \subseteq (InFlight(q) \cup Report(e))
           /\ InFlight(<<>>) = {}
  <1>1. ASSUME q # <<>>
        PROVE  InFlight(Tail(q)) \subseteq InFlight(q) /\ Report(Head(q)) \subseteq InFlight(q)
    <2>1. /\ Head(q) = q[1] /\ Len(q) \in Nat /\ Len(q) > 0
          /\ \A i \in 1..Len(Tail(q)) : Tail(q)[i] = q[i + 1] /\ i + 1 \in 1..Len(q)
      BY <1>1, TailOf
    <2>2. 1 \in 1..Len(q)
      BY <2>1
    <2> QED
      BY <2>1, <2>2 DEF InFlight
  <1>2. ASSUME NEW e \in EventsUp
        PROVE  InFlight(Append(q, e)) \subseteq (InFlight(q) \cup Report(e))
    <2>1. /\ Append(q, e)[Len(q) + 1] = e
          /\ \A i \in 1..Len(q) : Append(q, e)[i] = q[i]
          /\ \A i \in 1..Len(Append(q, e)) : i \in 1..Len(q) \/ i = Len(q) + 1
      BY AppendOf
    <2> QED
      BY <2>1 DEF InFlight
  <1>3. InFlight(<<>>) = {}
    BY DEF InFlight
  <1> QED
    BY <1>1, <1>2, <1>3

\* A cut queue with only silent events behind it reports nothing new.
LEMMA InFlightKept ==
    ASSUME NEW q \in Seq(EventsUp), NEW k \in 0..Len(q), NEW r \in Seq(EventsUp),
           \A i \in 1..Len(r) : Report(r[i]) = {}
    PROVE  InFlight(SubSeq(q, 1, k) \o r) \subseteq InFlight(q)
  <1> DEFINE s == SubSeq(q, 1, k)
  <1>1. Len(q) \in Nat
    BY LenProperties
  <1>2. s \in Seq(EventsUp) /\ Len(s) = k /\ \A i \in 1..k : s[i] = q[i] /\ i \in 1..Len(q)
    <2>1. \A i \in 1..k : i \in 1..Len(q) /\ (1 + i) - 1 = i
      BY <1>1
    <2>2. \A i \in 1..k : q[i] \in EventsUp
      BY <2>1, ElementOfSeq
    <2>3. 1 \in Nat /\ k \in Nat /\ (k - 1) + 1 = k /\ (1 <= k <=> k # 0)
      BY <1>1
    <2>4. /\ SubSeq(q, 1, k) \in Seq(EventsUp)
          /\ Len(SubSeq(q, 1, k)) = IF 1 <= k THEN k - 1 + 1 ELSE 0
          /\ \A i \in 1..(k - 1 + 1) : SubSeq(q, 1, k)[i] = q[1 + i - 1]
      BY <1>1, <2>2, <2>3, SubSeqProperties
    <2> QED
      BY <2>1, <2>3, <2>4
  <1> HIDE DEF s
  <1>3. /\ \A i \in 1..Len(s) : (s \o r)[i] = s[i]
        /\ \A i \in 1..Len(r) : (s \o r)[Len(s) + i] = r[i]
        /\ \A i \in 1..Len(s \o r) : i \in 1..Len(s) \/ \E n \in 1..Len(r) : i = Len(s) + n
    <2>1. s \in Seq(EventsUp) /\ r \in Seq(EventsUp)
      BY <1>2
    <2> QED
      BY ONLY <2>1, ConcatOf, SMTT(30)
  <1>4. \A i \in 1..Len(s \o r) : Report((s \o r)[i]) \subseteq InFlight(q)
    <2> SUFFICES ASSUME NEW i \in 1..Len(s \o r)
                 PROVE  Report((s \o r)[i]) \subseteq InFlight(q)
      OBVIOUS
    <2>1. CASE i \in 1..Len(s)
      <3>1. (s \o r)[i] = q[i] /\ i \in 1..Len(q)
        BY <1>2, <1>3, <2>1
      <3> QED
        BY <3>1 DEF InFlight
    <2>2. ASSUME NEW n \in 1..Len(r), i = Len(s) + n
          PROVE  Report((s \o r)[i]) \subseteq InFlight(q)
      BY <1>3, <2>2
    <2> QED
      BY <1>3, <2>1, <2>2
  <1>5. InFlight(s \o r) \subseteq InFlight(q)
    BY <1>4 DEF InFlight
  <1> QED
    BY <1>5 DEF s

\* Reports are positions.
LEMMA ReportType ==
    ASSUME NEW e \in EventsUp
    PROVE  Report(e) \subseteq Positions
  <1>1. e.type = "attach" => e.epoch \in Epochs /\ e.acked \in Nat
    BY DEF EventsUp
  <1>2. e.type = "ack" => e.epoch \in Epochs /\ e.through \in Nat
    BY DEF EventsUp
  <1> QED
    BY <1>1, <1>2 DEF Report, Positions

\* Every reported position is a pair of an epoch and a sequence number.
LEMMA ReportsType ==
    ASSUME TypeOK
    PROVE  Reports \subseteq Positions
  <1>1. <<dev.epoch, dev.acked>> \in Positions /\ <<att.epoch, att.acked>> \in Positions
    BY DEF TypeOK, Caches, Sessions, Positions
  <1>2. Acknowledged(row) \subseteq Positions /\ Acknowledged(d) \subseteq Positions
    BY DEF TypeOK, Rows, Deliveries, Positions, Acknowledged
  <1>3. InFlight(up) \subseteq Positions
    <2>1. \A i \in 1..Len(up) : up[i] \in EventsUp
      BY ElementOfSeq DEF TypeOK
    <2> QED
      BY <2>1, ReportType DEF InFlight
  <1> QED
    BY <1>1, <1>2, <1>3 DEF Reports

\* The highest position the controller has issued is such a pair too.
LEMMA TopType ==
    ASSUME TypeInv
    PROVE  Top \in Positions
  BY FreshEpochType DEF TypeInv, TypeOK, Rows, Top, Positions, Epochs

\* The order is kept when what was held is held, and every report is below
\* one made before or is held.
LEMMA OrderKept ==
    ASSUME TypeInv, Order, Top' \in Positions, dev' \in Caches, down' \in Seq(Bodies),
           Reports' \subseteq Positions,
           \A c \in Positions : Holds(c, Top, dev, down) => Holds(c, Top', dev', down'),
           \A b \in Reports' : \/ Holds(b, Top', dev', down')
                               \/ \E c \in Reports : AtMost(b, c),
           Paged(down'), bound' => Revised(d', hist'),
           row'.epoch = 0 => row'.sequence = 0
    PROVE  Order'
  <1>1. Reports \subseteq Positions
    BY ReportsType DEF TypeInv
  <1>2. ASSUME NEW b \in Reports'
        PROVE  Holds(b, Top', dev', down')
    <2>1. ASSUME NEW c \in Reports, AtMost(b, c)
          PROVE  Holds(b, Top', dev', down')
      <3>1. Holds(c, Top', dev', down')
        BY <1>1 DEF Order
      <3>2. b \in Positions /\ c \in Positions
        BY <1>1
      <3> QED
        BY <2>1, <3>1, <3>2, HoldsBelow
    <2> QED
      BY <2>1
  <1> QED
    BY <1>2 DEF Order

----------------------------------------------------------------------------
(* The service's actions                                                   *)

\* The device reported the position `a` of the current epoch, or a is none.
Trusted(a) == a = 0 \/ Holds(<<FreshEpoch, a>>, Top, dev, down)

\* What a service action hands to Finish.
Serves(turn, session, budget, a) ==
    /\ IsTurn(turn, budget)
    /\ Finish(turn, session, budget)
    /\ a \in Nat
    /\ Within(turn, a)
    /\ Safe /\ Order => Trusted(a) /\ Orderly(turn, hist, FreshEpoch, row.sequence)
InOrder ==
    /\ bound'
    /\ \E turn, session, budget, a : Serves(turn, session, budget, a)

\* A turn that leaves every write recorded had no failed one.
LEMMA TurnRecorded ==
    ASSUME TypeInv, NEW turn, NEW session, NEW budget, IsTurn(turn, budget),
           Finish(turn, session, budget), AllRecorded'
    PROVE  turn.failed = 0 /\ AllRecorded /\ FreshEpoch' = FreshEpoch
  <1>1. "db" \in Faults /\ "db" \in Events /\ "forget" \in Faults \ {"db"}
    BY DEF Faults, Events
  <1>2. turn.failed \in Nat /\ budget \in [Events -> Nat]
    BY DEF IsTurn, Turns
  <1>3. /\ left' = Spent(budget, "db", turn.failed)
        /\ turn.failed > 0 => Allows(budget, "db", turn.failed)
    BY DEF Finish
  <1>4. left'["db"] = budget["db"] - turn.failed /\ left'["forget"] = budget["forget"]
    BY <1>1, <1>2, <1>3, SpentType
  <1>5. budget["db"] <= left["db"] /\ left["db"] <= Budget["db"] /\ left'["db"] = Budget["db"]
    BY <1>1 DEF IsTurn, TypeInv, AllRecorded
  <1>6. left["db"] \in Nat /\ Budget["db"] \in Nat /\ budget["db"] \in Nat
    BY <1>1, <1>2, BudgetAssumption DEF TypeInv, TypeOK
  <1>7. turn.failed = 0 /\ AllRecorded
    BY <1>2, <1>4, <1>5, <1>6 DEF AllRecorded
  <1>8. left'["forget"] = left["forget"]
    BY <1>4 DEF IsTurn
  <1> QED
    BY <1>7, <1>8 DEF FreshEpoch

\* The positions the service holds as acknowledged were reported.
LEMMA AckedTrusted ==
    ASSUME TypeInv, Safe, Order
    PROVE  /\ bound => Trusted(d.acked) /\ Trusted(row.acked)
           /\ row.epoch # 0 => Trusted(row.acked)
           /\ \A a, b \in Nat : Trusted(a) /\ Trusted(b) => Trusted(Higher(a, b))
  <1>1. d.acked \in Nat /\ row.acked \in Nat
    BY DEF TypeInv, TypeOK, Deliveries, Rows
  <1>2. row.epoch # 0 /\ row.acked # 0 => <<row.epoch, row.acked>> \in Reports
    BY <1>1 DEF Reports, Acknowledged
  <1>3. bound /\ d.acked # 0 => <<d.epoch, d.acked>> \in Reports
    BY <1>1 DEF Reports, Acknowledged
  <1>4. /\ row.epoch # 0 => row.epoch = FreshEpoch
        /\ bound => row.epoch # 0 /\ d.epoch = row.epoch
    BY DEF Safe
  <1>5. \A c \in Reports : Holds(c, Top, dev, down)
    BY DEF Order
  <1> HIDE DEF Reports
  <1> QED
    BY <1>2, <1>3, <1>4, <1>5 DEF Trusted, Higher

\* A turn that starts from an orderly state, sends an outbox and refreshes.
LEMMA TwoSendsOrderly ==
    ASSUME TypeInv, NEW turn \in Turns, turn.posts = <<>>, NEW o, IsOutbox(o),
           NEW a \in Nat, Within(turn, a), o.after.acked <= a,
           Safe => Sound(turn, hist, FreshEpoch) /\ Keeps(turn.d, o, hist),
           Safe /\ Order => /\ Orders(turn.d, o, hist) /\ Revised(turn.d, hist)
                            /\ turn.d.sequence >= row.sequence,
           NEW first, NEW second
    PROVE  LET sent == Send(turn, o, first)
           IN  /\ Within(sent, a) /\ Within(Refresh(sent, desired, second), a)
               /\ Safe /\ Order =>
                     /\ Orderly(sent, hist, FreshEpoch, row.sequence)
                     /\ Orderly(Refresh(sent, desired, second), hist, FreshEpoch, row.sequence)
  <1> DEFINE sent == Send(turn, o, first)
  <1>1. sent \in Turns /\ desired \in Versions \cup {NoVersion} /\ hist \in ClaimSet
    BY SendType DEF TypeInv, TypeOK, ClaimSet
  <1>2. Within(sent, a)
    BY SendWithin
  <1>3. Within(Refresh(sent, desired, second), a)
    <2> HIDE DEF sent
    <2> QED
      BY <1>1, <1>2, RefreshWithin
  <1>4. ASSUME Safe, Order
        PROVE  /\ Orderly(sent, hist, FreshEpoch, row.sequence)
               /\ Orderly(Refresh(sent, desired, second), hist, FreshEpoch, row.sequence)
    <2>1. FreshEpoch \in Nat /\ row.sequence \in Nat
      BY FreshEpochType DEF TypeInv, TypeOK, Rows
    <2>2. \A h \in hist : h[1] <= FreshEpoch
      BY <1>4 DEF Safe
    <2>3. Claims(<<>>) = {} /\ Paged(<<>>) /\ ~\E j \in 1..Len(<<>>) : TRUE
      BY DEF Claims, Paged
    <2>4. hist \cup Claims(turn.posts) = hist
      BY <2>3
    <2>5. Orderly(turn, hist, FreshEpoch, row.sequence)
      BY <1>4, <2>3, <2>4 DEF Orderly
    <2>6. Orderly(sent, hist, FreshEpoch, row.sequence)
      BY <1>1, <1>4, <2>1, <2>2, <2>4, <2>5, SendOrderly
    <2>7. Sound(sent, hist, FreshEpoch)
      BY <1>4, TwoSends
    <2> HIDE DEF sent
    <2>8. Orderly(Refresh(sent, desired, second), hist, FreshEpoch, row.sequence)
      BY <1>1, <2>1, <2>2, <2>6, <2>7, RefreshOrderly
    <2> QED
      BY <2>6, <2>8
  <1> QED
    BY <1>2, <1>3, <1>4

\* Bind: nothing was sent by this delivery state, so the attached session's
\* hello is not in step and its position is not taken.
LEMMA BindOrderly ==
    ASSUME TypeInv, Bind
    PROVE  InOrder
  <1> DEFINE r == BoundRow
             dl == NewDelivery(r)
             turn == Turn(r, dl)
             o == AttachOutbox(dl, att)
  <1>1. r \in Rows /\ dl \in Deliveries /\ turn \in Turns /\ hist \in ClaimSet
    BY BoundRowType, NewDeliveryType, FreshTurnType DEF TypeInv, TypeOK, ClaimSet
  <1>2. /\ turn.posts = <<>> /\ turn.d = dl /\ turn.row = r /\ turn.failed = 0
        /\ dl.epoch = r.epoch /\ dl.sequence = r.sequence
        /\ dl.acked = Lower(r.acked, r.sequence)
        /\ dl.sent = NoVersion /\ dl.unacked = <<>>
    BY DEF Turn, NewDelivery
  <1>3. r.acked \in Nat /\ r.sequence \in Nat
    BY <1>1 DEF Rows
  <1>4. r.acked <= r.acked /\ dl.acked <= r.acked
    BY <1>2, <1>3 DEF Lower
  <1>5. Within(turn, r.acked)
    BY <1>2, <1>4 DEF Within
  <1>6. ASSUME Safe
        PROVE  Sound(turn, hist, FreshEpoch) /\ Unambiguous(hist) /\ Accounts(dl, hist)
    <2>1. r.epoch = FreshEpoch
      BY <1>6 DEF Safe, BoundRow, NoRow
    <2>2. FreshEpoch # 0
      BY FreshEpochType
    <2>3. \A h \in hist : h[1] = FreshEpoch => h[2] <= r.sequence
      <3>1. row.epoch # 0 => r = row
        BY DEF BoundRow
      <3>2. \A h \in hist : h[1] = FreshEpoch => /\ row.epoch = FreshEpoch
                                                 /\ h[2] <= row.sequence
        BY <1>6 DEF Safe
      <3> HIDE DEF r
      <3> QED
        BY <2>2, <3>1, <3>2
    <2>4. AllBacked(<<>>, hist) /\ Claims(<<>>) = {}
      BY DEF AllBacked, Claims
    <2> HIDE DEF turn, dl, r
    <2>5. Accounts(dl, hist)
      BY <1>2, <2>1, <2>3, <2>4 DEF Accounts
    <2>6. hist \cup Claims(<<>>) = hist
      BY <2>4
    <2> QED
      BY <1>2, <1>6, <2>1, <2>4, <2>5, <2>6 DEF Safe, Sound
  <1>7. ASSUME Safe, Order
        PROVE  /\ Trusted(r.acked) /\ Revised(dl, hist) /\ r.sequence >= row.sequence
    <2>1. row.epoch # 0 => Trusted(r.acked) /\ r.sequence = row.sequence
      BY <1>7, AckedTrusted DEF BoundRow
    <2>2. row.epoch = 0 => r.acked = 0 /\ r.sequence = 0 /\ row.sequence = 0
      BY <1>7 DEF BoundRow, NoRow, Order
    <2>3. Revised(dl, hist)
      BY <1>2 DEF Revised
    <2> HIDE DEF r
    <2> QED
      BY <1>3, <2>1, <2>2, <2>3 DEF Trusted
  <1>8. left \in [Events -> Nat] /\ \A e \in Events : left[e] <= left[e]
    BY DEF TypeInv, TypeOK
  <1>9. CASE att.session = 0
    <2>1. Finish(turn, 0, left)
      BY <1>9 DEF Bind, BoundRow
    <2>2. IsTurn(turn, left)
      BY <1>1, <1>6, <1>8 DEF IsTurn
    <2> HIDE DEF turn, dl, r
    <2>3. ASSUME Safe, Order
          PROVE  Orderly(turn, hist, FreshEpoch, row.sequence)
      <3>1. Claims(<<>>) = {} /\ Paged(<<>>) /\ ~\E j \in 1..Len(<<>>) : TRUE
        BY DEF Claims, Paged
      <3>2. hist \cup Claims(<<>>) = hist
        BY <3>1
      <3> QED
        BY <1>2, <1>7, <2>3, <3>1, <3>2 DEF Orderly
    <2>4. Serves(turn, 0, left, r.acked)
      BY <1>3, <1>5, <1>7, <2>1, <2>2, <2>3 DEF Serves
    <2> QED
      BY <2>4 DEF InOrder, Bind
  <1>10. CASE att.session # 0
    <2>1. PICK written \in BOOLEAN :
             Finish(Refresh(Send(turn, o, TRUE), desired, written), att.session, left)
      BY <1>10 DEF Bind, BoundRow
    <2>2. att.acked \in Nat
      BY DEF TypeInv, TypeOK, Sessions
    <2>3. IsOutbox(o)
      BY <1>1, <2>2, AttachOutboxType
    <2>4. o.after.acked = dl.acked
      <3>1. ~InStep(dl, att)
        BY <1>2 DEF InStep
      <3> HIDE DEF dl
      <3> QED
        BY <1>1, <3>1 DEF AttachOutbox, Outbox, Deliveries
    <2>5. Safe => Keeps(dl, o, hist) /\ Orders(dl, o, hist)
      BY <1>1, <1>6, <2>2, AttachKeeps, AttachOrders
    <2> HIDE DEF turn, dl, o, r
    <2>6. /\ Refresh(Send(turn, o, TRUE), desired, written) \in Turns
          /\ Safe => Sound(Refresh(Send(turn, o, TRUE), desired, written), hist, FreshEpoch)
      BY <1>1, <1>2, <1>6, <2>3, <2>5, TwoSends
    <2>7. /\ Within(Refresh(Send(turn, o, TRUE), desired, written), r.acked)
          /\ Safe /\ Order => Orderly(Refresh(Send(turn, o, TRUE), desired, written),
                                      hist, FreshEpoch, row.sequence)
      BY <1>1, <1>2, <1>3, <1>4, <1>5, <1>6, <1>7, <2>3, <2>4, <2>5, TwoSendsOrderly
    <2>8. IsTurn(Refresh(Send(turn, o, TRUE), desired, written), left)
      BY <1>8, <2>6 DEF IsTurn
    <2>9. Serves(Refresh(Send(turn, o, TRUE), desired, written), att.session, left, r.acked)
      BY <1>3, <1>7, <2>1, <2>7, <2>8 DEF Serves
    <2> QED
      BY <2>9 DEF InOrder, Bind
  <1> QED
    BY <1>9, <1>10

\* What the turn of a bound speaker starts from.
LEMMA BoundStarts ==
    ASSUME TypeInv, bound
    PROVE  /\ Turn(row, d) \in Turns /\ d \in Deliveries /\ hist \in ClaimSet
           /\ Turn(row, d).posts = <<>> /\ Turn(row, d).d = d
           /\ d.acked \in Nat /\ row.acked \in Nat
           /\ Higher(d.acked, row.acked) \in Nat
           /\ d.acked <= Higher(d.acked, row.acked)
           /\ row.acked <= Higher(d.acked, row.acked)
           /\ \A a \in Nat : d.acked <= a /\ row.acked <= a => Within(Turn(row, d), a)
           /\ Safe => /\ Sound(Turn(row, d), hist, FreshEpoch)
                      /\ Unambiguous(hist) /\ Accounts(d, hist)
                      /\ d.sequence >= row.sequence /\ d.epoch = FreshEpoch
           /\ Safe /\ Order => Trusted(Higher(d.acked, row.acked)) /\ Revised(d, hist)
  <1>1. /\ Turn(row, d) \in Turns /\ d \in Deliveries /\ hist \in ClaimSet
        /\ Safe => /\ Sound(Turn(row, d), hist, FreshEpoch)
                   /\ Unambiguous(hist) /\ Accounts(d, hist)
    BY TurnStarts
  <1>2. Turn(row, d).posts = <<>> /\ Turn(row, d).d = d /\ Turn(row, d).row = row
    BY DEF Turn
  <1>3. /\ d.acked \in Nat /\ row.acked \in Nat
        /\ d.sequence \in Nat /\ row.sequence \in Nat
    BY DEF TypeInv, TypeOK, Deliveries, Rows
  <1>4. /\ Higher(d.acked, row.acked) \in Nat
        /\ d.acked <= Higher(d.acked, row.acked)
        /\ row.acked <= Higher(d.acked, row.acked)
    BY <1>3 DEF Higher
  <1>5. Safe => d.sequence >= row.sequence /\ d.epoch = FreshEpoch
    BY <1>3 DEF Safe
  <1>6. Safe /\ Order => Trusted(Higher(d.acked, row.acked)) /\ Revised(d, hist)
    BY <1>3, AckedTrusted DEF Order
  <1> QED
    BY <1>1, <1>2, <1>3, <1>4, <1>5, <1>6 DEF Within

\* Attach: a hello that is in step names the current epoch, and its position
\* was reported by the device.
LEMMA AttachOrderly ==
    ASSUME TypeInv, Attach
    PROVE  Idle \/ InOrder
  <1>1. CASE ~bound
    BY <1>1 DEF Attach, Idle
  <1>2. CASE bound
    <2> DEFINE o == AttachOutbox(d, att')
               turn == Turn(row, d)
               base == Higher(d.acked, row.acked)
               a == IF InStep(d, att') THEN Higher(base, att'.acked) ELSE base
    <2>1. PICK first, second \in BOOLEAN :
             Finish(Refresh(Send(turn, o, first), desired, second), att'.session, left)
      BY <1>2 DEF Attach
    <2>2. att'.acked \in Nat
      BY EventType, EventUpTypes DEF Attach
    <2>3. /\ turn \in Turns /\ d \in Deliveries /\ hist \in ClaimSet
          /\ turn.posts = <<>> /\ turn.d = d
          /\ d.acked \in Nat /\ row.acked \in Nat /\ base \in Nat
          /\ d.acked <= base /\ row.acked <= base
          /\ \A b \in Nat : d.acked <= b /\ row.acked <= b => Within(turn, b)
          /\ Safe => /\ Sound(turn, hist, FreshEpoch)
                     /\ Unambiguous(hist) /\ Accounts(d, hist)
                     /\ d.sequence >= row.sequence /\ d.epoch = FreshEpoch
          /\ Safe /\ Order => Trusted(base) /\ Revised(d, hist)
      BY <1>2, BoundStarts
    <2>4. IsOutbox(o)
      BY <2>2, <2>3, AttachOutboxType
    <2>5. Safe => Keeps(d, o, hist) /\ Orders(d, o, hist)
      BY <2>2, <2>3, AttachKeeps, AttachOrders
    <2>6. o.after.acked = IF InStep(d, att') THEN Higher(d.acked, att'.acked) ELSE d.acked
      BY <2>3 DEF AttachOutbox, Outbox, Deliveries
    <2> HIDE DEF base, turn, o
    <2>7. a \in Nat /\ d.acked <= a /\ row.acked <= a /\ o.after.acked <= a
      BY <2>2, <2>3, <2>6 DEF Higher
    <2>8. ASSUME Safe, Order
          PROVE  Trusted(a)
      <3>1. Trusted(base)
        BY <2>3, <2>8
      <3>2. ASSUME InStep(d, att')
            PROVE  Trusted(att'.acked)
        <4>1. att'.epoch = FreshEpoch
          BY <2>3, <2>8, <3>2 DEF InStep
        <4>2. <<att'.epoch, att'.acked>> \in Report(Head(up))
          BY DEF Attach, Report
        <4>3. Report(Head(up)) \subseteq InFlight(up)
          BY InFlightOf DEF Attach, TypeInv, TypeOK
        <4>4. <<att'.epoch, att'.acked>> \in Reports
          BY <4>2, <4>3 DEF Reports
        <4> QED
          BY <2>8, <4>1, <4>4 DEF Order, Trusted
      <3> QED
        BY <2>2, <2>3, <2>8, <3>1, <3>2, AckedTrusted
    <2> HIDE DEF a
    <2>9. /\ Refresh(Send(turn, o, first), desired, second) \in Turns
          /\ Safe => Sound(Refresh(Send(turn, o, first), desired, second), hist, FreshEpoch)
      BY <2>3, <2>4, <2>5, TwoSends
    <2>10. /\ Within(Refresh(Send(turn, o, first), desired, second), a)
           /\ Safe /\ Order => Orderly(Refresh(Send(turn, o, first), desired, second),
                                       hist, FreshEpoch, row.sequence)
      <3>1. Within(turn, a)
        BY <2>3, <2>7
      <3> QED
        BY <2>3, <2>4, <2>5, <2>7, <3>1, TwoSendsOrderly
    <2>11. IsTurn(Refresh(Send(turn, o, first), desired, second), left)
      BY <2>9 DEF IsTurn, TypeInv, TypeOK
    <2>12. Serves(Refresh(Send(turn, o, first), desired, second), att'.session, left, a)
      BY <2>1, <2>7, <2>8, <2>10, <2>11 DEF Serves
    <2> QED
      BY <1>2, <2>12 DEF InOrder, Attach
  <1> QED
    BY <1>1, <1>2

\* Ack: a position taken from an ack is durable, of the current epoch, and was
\* reported by the device.
LEMMA AckOrderly ==
    ASSUME TypeInv, Ack
    PROVE  Idle \/ InOrder
  <1>1. CASE ~(bound /\ att.session = Head(up).session)
    BY <1>1 DEF Ack, Idle
  <1>2. CASE bound /\ att.session = Head(up).session
    <2> DEFINE e == Head(up)
               o == AckOutbox(d, e)
               turn == Turn(row, d)
               base == Higher(d.acked, row.acked)
               news == e.durable /\ e.epoch = d.epoch
               a == IF news THEN Higher(base, e.through) ELSE base
               end(first, second) == IF Send(turn, o, first).d.owed
                                     THEN Refresh(Send(turn, o, first), desired, second)
                                     ELSE Send(turn, o, first)
    <2>1. PICK first, second \in BOOLEAN : Finish(end(first, second), att.session, left)
      BY <1>2 DEF Ack
    <2>2. e.through \in Nat /\ e.need \in BOOLEAN
      BY EventType, EventUpTypes DEF Ack
    <2>3. /\ turn \in Turns /\ d \in Deliveries /\ hist \in ClaimSet
          /\ turn.posts = <<>> /\ turn.d = d
          /\ d.acked \in Nat /\ row.acked \in Nat /\ base \in Nat
          /\ d.acked <= base /\ row.acked <= base
          /\ \A b \in Nat : d.acked <= b /\ row.acked <= b => Within(turn, b)
          /\ Safe => /\ Sound(turn, hist, FreshEpoch)
                     /\ Unambiguous(hist) /\ Accounts(d, hist)
                     /\ d.sequence >= row.sequence /\ d.epoch = FreshEpoch
          /\ Safe /\ Order => Trusted(base) /\ Revised(d, hist)
      BY <1>2, BoundStarts
    <2>4. IsOutbox(o)
      BY <2>2, <2>3, AckOutboxType
    <2>5. Safe => Keeps(d, o, hist) /\ Orders(d, o, hist)
      BY <2>2, <2>3, AckKeeps, AckOrders
    <2>6. o.after.acked = d.acked \/ (news /\ o.after.acked = e.through)
      <3> DEFINE asked == [d EXCEPT !.owed = @ \/ e.need]
                 taken == [asked EXCEPT !.acked = e.through,
                                        !.unacked = Retain(@, e.through)]
      <3>1. asked \in Deliveries /\ asked.acked = d.acked
        BY <2>2, <2>3 DEF Deliveries
      <3>2. \/ o = Outbox(asked, <<>>, FALSE)
            \/ news /\ o = Outbox(taken, <<>>, TRUE)
        BY DEF AckOutbox
      <3> HIDE DEF asked
      <3>3. taken.acked = e.through
        BY <3>1 DEF Deliveries
      <3> HIDE DEF taken, o
      <3> QED
        BY <3>1, <3>2, <3>3 DEF Outbox
    <2>7. ASSUME Safe, Order, news
          PROVE  Trusted(e.through)
      <3>1. e.epoch = FreshEpoch
        BY <2>3, <2>7
      <3>2. <<e.epoch, e.through>> \in Report(e)
        BY <2>7 DEF Ack, Report
      <3>3. Report(e) \subseteq InFlight(up)
        BY InFlightOf DEF Ack, TypeInv, TypeOK
      <3>4. <<e.epoch, e.through>> \in Reports
        BY <3>2, <3>3 DEF Reports
      <3> QED
        BY <2>7, <3>1, <3>4 DEF Order, Trusted
    <2> HIDE DEF base, turn, o, news, e
    <2>8. a \in Nat /\ d.acked <= a /\ row.acked <= a /\ o.after.acked <= a
      <3>1. CASE news
        BY <2>2, <2>3, <2>6, <3>1 DEF Higher
      <3>2. CASE ~news
        BY <2>2, <2>3, <2>6, <3>2
      <3> QED
        BY <3>1, <3>2
    <2>9. Safe /\ Order => Trusted(a)
      BY <2>2, <2>3, <2>7, AckedTrusted
    <2> HIDE DEF a
    <2>10. /\ Send(turn, o, first) \in Turns
           /\ Refresh(Send(turn, o, first), desired, second) \in Turns
           /\ Safe => /\ Sound(Send(turn, o, first), hist, FreshEpoch)
                      /\ Sound(Refresh(Send(turn, o, first), desired, second), hist, FreshEpoch)
      BY <2>3, <2>4, <2>5, TwoSends
    <2>11. /\ Within(Send(turn, o, first), a)
           /\ Within(Refresh(Send(turn, o, first), desired, second), a)
           /\ Safe /\ Order =>
                 /\ Orderly(Send(turn, o, first), hist, FreshEpoch, row.sequence)
                 /\ Orderly(Refresh(Send(turn, o, first), desired, second),
                            hist, FreshEpoch, row.sequence)
      <3>1. Within(turn, a)
        BY <2>3, <2>8
      <3> QED
        BY <2>3, <2>4, <2>5, <2>8, <3>1, TwoSendsOrderly
    <2>12. /\ end(first, second) \in Turns /\ Within(end(first, second), a)
           /\ Safe => Sound(end(first, second), hist, FreshEpoch)
           /\ Safe /\ Order => Orderly(end(first, second), hist, FreshEpoch, row.sequence)
      BY <2>10, <2>11
    <2> HIDE DEF end
    <2>13. IsTurn(end(first, second), left)
      BY <2>12 DEF IsTurn, TypeInv, TypeOK
    <2>14. Serves(end(first, second), att.session, left, a)
      BY <2>1, <2>8, <2>9, <2>12, <2>13 DEF Serves
    <2> QED
      BY <1>2, <2>14 DEF InOrder, Ack
  <1> QED
    BY <1>1, <1>2

\* Push takes no position.
LEMMA PushOrderly ==
    ASSUME TypeInv, Push
    PROVE  Idle \/ InOrder
  <1>1. CASE ~(bound /\ att.session # 0)
    BY <1>1 DEF Push, Idle
  <1>2. CASE bound /\ att.session # 0
    <2> DEFINE turn == Turn(row, d)
               a == Higher(d.acked, row.acked)
               end(written) == Refresh(turn, calendar, written)
    <2>1. PICK written \in BOOLEAN : Finish(end(written), att.session, left)
      BY <1>2 DEF Push
    <2>2. /\ turn \in Turns /\ d \in Deliveries /\ hist \in ClaimSet
          /\ turn.posts = <<>> /\ turn.d = d /\ a \in Nat
          /\ Within(turn, a)
          /\ Safe => Sound(turn, hist, FreshEpoch) /\ d.sequence >= row.sequence
          /\ Safe /\ Order => Trusted(a) /\ Revised(d, hist)
      BY <1>2, BoundStarts
    <2>3. calendar \in Versions \cup {NoVersion}
      BY DEF TypeInv, TypeOK
    <2> HIDE DEF turn, a
    <2>4. end(written) \in Turns /\ (Safe => Sound(end(written), hist, FreshEpoch))
      BY <2>2, <2>3, RefreshType, RefreshSound
    <2>5. Within(end(written), a)
      BY <2>2, <2>3, RefreshWithin
    <2>6. ASSUME Safe, Order
          PROVE  Orderly(end(written), hist, FreshEpoch, row.sequence)
      <3>1. FreshEpoch \in Nat /\ row.sequence \in Nat
        BY FreshEpochType DEF TypeInv, TypeOK, Rows
      <3>2. \A h \in hist : h[1] <= FreshEpoch
        BY <2>6 DEF Safe
      <3>3. Claims(<<>>) = {} /\ Paged(<<>>) /\ ~\E j \in 1..Len(<<>>) : TRUE
        BY DEF Claims, Paged
      <3>4. hist \cup Claims(<<>>) = hist
        BY <3>3
      <3>5. Orderly(turn, hist, FreshEpoch, row.sequence)
        BY <2>2, <2>6, <3>3, <3>4 DEF Orderly
      <3> QED
        BY <2>2, <2>3, <2>6, <3>1, <3>2, <3>5, RefreshOrderly
    <2> HIDE DEF end
    <2>7. IsTurn(end(written), left)
      BY <2>4 DEF IsTurn, TypeInv, TypeOK
    <2>8. Serves(end(written), att.session, left, a)
      BY <2>1, <2>2, <2>5, <2>6, <2>7 DEF Serves
    <2> QED
      BY <1>2, <2>8 DEF InOrder, Push
  <1> QED
    BY <1>1, <1>2

\* Nor does Retract.
LEMMA RetractOrderly ==
    ASSUME TypeInv, NEW child \in Occurrences, Retract(child)
    PROVE  InOrder
  <1> DEFINE o == RetractOutbox(d, child)
             turn == Turn(row, d)
             a == Higher(d.acked, row.acked)
             budget == Spent(left, "retract", 1)
  <1>1. PICK first, second \in BOOLEAN :
           Finish(Refresh(Send(turn, o, first), desired, second), att.session, budget)
    BY DEF Retract
  <1>2. /\ turn \in Turns /\ d \in Deliveries /\ hist \in ClaimSet
        /\ turn.posts = <<>> /\ turn.d = d /\ a \in Nat /\ d.acked <= a
        /\ Within(turn, a)
        /\ Safe => /\ Sound(turn, hist, FreshEpoch)
                   /\ Unambiguous(hist) /\ Accounts(d, hist)
                   /\ d.sequence >= row.sequence
        /\ Safe /\ Order => Trusted(a) /\ Revised(d, hist)
    BY BoundStarts DEF Retract
  <1>3. IsOutbox(o) /\ (Safe => Keeps(d, o, hist) /\ Orders(d, o, hist))
    BY <1>2, RetractOutboxType, RetractKeeps, RetractOrders
  <1>4. o.after.acked = d.acked
    BY <1>2 DEF RetractOutbox, Outbox, Deliveries
  <1>5. /\ budget \in [Events -> Nat]
        /\ \A e \in Events : budget[e] <= left[e]
        /\ budget["forget"] = left["forget"]
    <2>1. "retract" \in Faults /\ "forget" \in Faults \ {"retract"} /\ left \in [Events -> Nat]
      BY DEF Faults, TypeInv, TypeOK
    <2> QED
      BY <2>1, SpentType DEF Retract
  <1> HIDE DEF turn, o, budget, a
  <1>6. /\ Refresh(Send(turn, o, first), desired, second) \in Turns
        /\ Safe => Sound(Refresh(Send(turn, o, first), desired, second), hist, FreshEpoch)
    BY <1>2, <1>3, TwoSends
  <1>7. /\ Within(Refresh(Send(turn, o, first), desired, second), a)
        /\ Safe /\ Order => Orderly(Refresh(Send(turn, o, first), desired, second),
                                    hist, FreshEpoch, row.sequence)
    BY <1>2, <1>3, <1>4, TwoSendsOrderly
  <1>8. IsTurn(Refresh(Send(turn, o, first), desired, second), budget)
    BY <1>5, <1>6 DEF IsTurn
  <1>9. Serves(Refresh(Send(turn, o, first), desired, second), att.session, budget, a)
    BY <1>1, <1>2, <1>7, <1>8 DEF Serves
  <1> QED
    BY <1>9 DEF InOrder, Retract

\* Reports in the next state, when its types are right.
LEMMA NextTypes ==
    ASSUME TypeInv'
    PROVE  /\ Top' \in Positions /\ dev' \in Caches /\ down' \in Seq(Bodies)
           /\ Reports' \subseteq Positions
           /\ FreshEpoch' \in Nat \ {0} /\ row'.sequence \in Nat
  <1>1. "forget" \in Events
    BY DEF Events, Faults
  <1>2. left'["forget"] \in Nat /\ Budget["forget"] \in Nat /\ left'["forget"] <= Budget["forget"]
    BY <1>1, BudgetAssumption DEF TypeInv, TypeOK
  <1>3. FreshEpoch' \in Nat \ {0}
    BY <1>2 DEF FreshEpoch
  <1>4. dev' \in Caches /\ down' \in Seq(Bodies) /\ row' \in Rows /\ row'.sequence \in Nat
    BY DEF TypeInv, TypeOK, Bodies, Rows
  <1>5. Top' \in Positions
    BY <1>3, <1>4 DEF Top, Positions, Epochs
  <1>6. /\ <<dev'.epoch, dev'.acked>> \in Positions
        /\ <<att'.epoch, att'.acked>> \in Positions
    BY DEF TypeInv, TypeOK, Caches, Sessions, Positions
  <1>7. Acknowledged(row') \subseteq Positions /\ Acknowledged(d') \subseteq Positions
    BY DEF TypeInv, TypeOK, Rows, Deliveries, Positions, Acknowledged
  <1>8. InFlight(up') \subseteq Positions
    <2>1. up' \in Seq(EventsUp)
      BY DEF TypeInv, TypeOK
    <2>2. \A i \in 1..Len(up') : up'[i] \in EventsUp
      BY <2>1, ElementOfSeq
    <2> QED
      BY <2>2, ReportType DEF InFlight
  <1> QED
    BY <1>3, <1>4, <1>5, <1>6, <1>7, <1>8 DEF Reports

\* A turn keeps the order: its pages are newer than all that was given out,
\* so than every report, and what it takes as acknowledged was reported.
LEMMA WorksOrder ==
    ASSUME OrderInv, SafeInv', AllRecorded', InOrder, UNCHANGED dev,
           <<att'.epoch, att'.acked>> \in Reports, InFlight(up') \subseteq Reports
    PROVE  Order'
  <1>1. PICK turn, session, budget, a : Serves(turn, session, budget, a)
    BY DEF InOrder
  <1>2. TypeInv /\ TypeInv' /\ bound'
    BY DEF OrderInv, SafeInv, InOrder
  <1>3. turn.failed = 0 /\ AllRecorded /\ FreshEpoch' = FreshEpoch
    BY <1>1, <1>2, TurnRecorded DEF Serves
  <1>4. Safe /\ Order /\ Safe'
    BY <1>3 DEF OrderInv, SafeInv
  <1>5. /\ hist' = hist \cup Claims(turn.posts) /\ row' = turn.row /\ d' = turn.d
        /\ down' = down \/ down' = down \o turn.posts
    BY <1>1 DEF Serves, Finish
  <1>6. /\ Paged(turn.posts)
        /\ \A j \in 1..Len(turn.posts) :
              turn.posts[j].type = "snapshot" =>
                 turn.posts[j].epoch = FreshEpoch /\ turn.posts[j].high > row.sequence
        /\ turn.d.sequence >= row.sequence
        /\ Revised(turn.d, hist \cup Claims(turn.posts))
    BY <1>1, <1>3, <1>4 DEF Serves, Orderly
  <1>7. /\ a \in Nat /\ d'.acked <= a /\ row'.acked <= a /\ Trusted(a)
    BY <1>1, <1>4, <1>5 DEF Serves, Within
  <1>8. /\ Top' \in Positions /\ dev' \in Caches /\ down' \in Seq(Bodies)
        /\ Reports' \subseteq Positions /\ row'.sequence \in Nat
    BY <1>2, NextTypes
  <1>9. /\ Top \in Positions /\ dev \in Caches /\ down \in Seq(Bodies)
        /\ turn.posts \in Seq(Bodies) /\ FreshEpoch \in Nat /\ row.sequence \in Nat
        /\ FreshEpoch # 0
    BY <1>1, <1>2, TopType, FreshEpochType
       DEF TypeInv, TypeOK, Bodies, Serves, IsTurn, Turns, Rows
  <1>10. /\ d'.epoch = FreshEpoch /\ row'.epoch = FreshEpoch
         /\ row'.sequence = d'.sequence /\ row'.sequence >= row.sequence
    BY <1>1, <1>3, <1>4, <1>5, <1>6 DEF Serves, IsTurn, Sound
  <1>11. ASSUME NEW j \in 1..Len(turn.posts), turn.posts[j].type = "snapshot",
                NEW c, c[1] \in Nat, c[2] \in Nat, AtMost(c, Top)
         PROVE  Less(c, Claim(turn.posts[j]))
    <2>1. turn.posts[j] \in Bodies
      BY <1>9, ElementOfSeq
    <2>2. turn.posts[j].high \in Nat
      BY <1>11, <2>1 DEF Bodies, Messages, Pages
    <2>3. Claim(turn.posts[j])[1] = FreshEpoch /\ Claim(turn.posts[j])[2] = turn.posts[j].high
      BY <1>6, <1>11 DEF Claim
    <2>4. turn.posts[j].high > row.sequence
      BY <1>6, <1>11
    <2>5. Top[1] = FreshEpoch /\ Top[2] = row.sequence
      BY DEF Top
    <2> HIDE DEF Top
    <2> QED
      BY <1>9, <1>11, <2>2, <2>3, <2>4, <2>5 DEF AtMost, Less
  <1>12. Paged(down')
    <2>1. CASE down' = down
      BY <1>4, <2>1 DEF Order
    <2>2. CASE down' = down \o turn.posts
      <3>1. ASSUME NEW i \in 1..Len(down)
            PROVE  /\ Claim(down[i])[1] \in Nat /\ Claim(down[i])[2] \in Nat
                   /\ AtMost(Claim(down[i]), Top)
        <4>1. down[i] \in Bodies
          BY <1>9, ElementOfSeq
        <4>2. Claim(down[i])[1] \in Nat /\ Claim(down[i])[2] \in Nat
          BY <4>1, ClaimTypes
        <4>3. Claim(down[i]) \in hist
          <5>1. Backed(down[i], hist)
            BY <1>4 DEF Safe, AllBacked
          <5> QED
            BY <5>1 DEF Backed, Claim
        <4>4. /\ Claim(down[i])[1] <= FreshEpoch
              /\ Claim(down[i])[1] = FreshEpoch => Claim(down[i])[2] <= row.sequence
          BY <1>4, <4>3 DEF Safe
        <4>5. Top[1] = FreshEpoch /\ Top[2] = row.sequence
          BY DEF Top
        <4> HIDE DEF Top, Claim
        <4> QED
          BY <1>9, <4>2, <4>4, <4>5 DEF AtMost
      <3>2. \A i \in 1..Len(down), j \in 1..Len(turn.posts) :
               turn.posts[j].type = "snapshot" => Less(Claim(down[i]), Claim(turn.posts[j]))
        BY <1>11, <3>1
      <3>3. Paged(down)
        BY <1>4 DEF Order
      <3> QED
        BY <1>6, <1>9, <2>2, <3>2, <3>3, PagedConcat
    <2> QED
      BY <1>5, <2>1, <2>2
  <1>13. ASSUME NEW c \in Positions, Holds(c, Top, dev, down)
         PROVE  Holds(c, Top', dev', down')
    <2>1. c[1] \in Nat /\ c[2] \in Nat
      BY DEF Positions, Epochs
    <2>2. AtMost(c, Top)
      BY <1>13 DEF Holds
    <2>3. AtMost(c, Top')
      <3>1. Top[1] = FreshEpoch /\ Top[2] = row.sequence
        BY DEF Top
      <3>2. Top'[1] = FreshEpoch /\ Top'[2] = row'.sequence
        BY <1>3 DEF Top
      <3> HIDE DEF Top
      <3> QED
        BY <1>8, <1>9, <1>10, <2>1, <2>2, <3>1, <3>2 DEF AtMost
    <2>4. ASSUME NEW j \in 1..Len(down'), down'[j].type = "snapshot"
          PROVE  Less(c, Claim(down'[j]))
      <3>1. CASE down' = down
        BY <1>13, <2>4, <3>1 DEF Holds
      <3>2. CASE down' = down \o turn.posts
        <4> DEFINE q == down
                   r == turn.posts
        <4>1. q \in Seq(Bodies) /\ r \in Seq(Bodies) /\ down' = q \o r
          BY <1>9, <3>2
        <4> HIDE DEF q, r
        <4>2. /\ \A i \in 1..Len(q) : (q \o r)[i] = q[i]
              /\ \A i \in 1..Len(r) : (q \o r)[Len(q) + i] = r[i]
              /\ \A i \in 1..Len(q \o r) : i \in 1..Len(q) \/ \E k \in 1..Len(r) : i = Len(q) + k
          BY ONLY <4>1, ConcatOf, SMTT(30)
        <4>3. CASE j \in 1..Len(q)
          <5>1. down'[j] = q[j]
            BY <4>1, <4>2, <4>3
          <5> QED
            BY <1>13, <2>4, <4>3, <5>1 DEF Holds, q
        <4>4. ASSUME NEW k \in 1..Len(r), j = Len(q) + k
              PROVE  Less(c, Claim(down'[j]))
          <5>1. down'[j] = r[k]
            BY <4>1, <4>2, <4>4
          <5> QED
            BY <1>11, <2>1, <2>2, <2>4, <5>1 DEF r
        <4> QED
          BY <4>1, <4>2, <4>3, <4>4
      <3> QED
        BY <1>5, <3>1, <3>2
    <2> QED
      BY <1>13, <2>3, <2>4 DEF Holds
  <1>14. ASSUME NEW b \in Acknowledged(row') \cup Acknowledged(d')
         PROVE  Holds(b, Top', dev', down')
    <2>1. b[1] = FreshEpoch /\ b[2] <= a /\ b[2] > 0 /\ b \in Positions
      <3>1. b = <<row'.epoch, row'.acked>> \/ b = <<d'.epoch, d'.acked>>
        BY DEF Acknowledged
      <3>2. row'.epoch \in Epochs /\ row'.acked \in Nat /\ d'.epoch \in Epochs /\ d'.acked \in Nat
        BY <1>2 DEF TypeInv, TypeOK, Rows, Deliveries
      <3> QED
        BY <1>7, <1>10, <3>1, <3>2 DEF Acknowledged, Positions
    <2> DEFINE p == <<FreshEpoch, a>>
    <2>2. p \in Positions /\ p[1] = FreshEpoch /\ p[2] = a
      BY <1>7, <1>9 DEF Positions, Epochs
    <2>3. Holds(p, Top, dev, down)
      <3>1. a # 0
        BY <1>7, <2>1 DEF Positions
      <3> QED
        BY <1>7, <3>1 DEF Trusted
    <2> HIDE DEF p
    <2>4. Holds(p, Top', dev', down')
      BY <1>13, <2>2, <2>3
    <2>5. AtMost(b, p)
      BY <2>1, <2>2 DEF AtMost
    <2> QED
      BY <1>8, <2>1, <2>2, <2>4, <2>5, HoldsBelow
  <1>15. ASSUME NEW b \in Reports'
         PROVE  Holds(b, Top', dev', down')
    <2>1. \/ b \in Reports
          \/ b \in Acknowledged(row') \cup Acknowledged(d')
      <3>1. Reports' = {<<dev'.epoch, dev'.acked>>, <<att'.epoch, att'.acked>>}
                       \cup Acknowledged(row')
                       \cup (IF bound' THEN Acknowledged(d') ELSE {})
                       \cup InFlight(up')
        BY DEF Reports
      <3>2. <<dev'.epoch, dev'.acked>> \in Reports
        BY DEF Reports
      <3> QED
        BY <1>2, <3>1, <3>2
    <2>2. ASSUME b \in Reports PROVE Holds(b, Top', dev', down')
      <3>1. b \in Positions /\ Holds(b, Top, dev, down)
        BY <1>2, <1>4, <2>2, ReportsType DEF TypeInv, Order
      <3> QED
        BY <1>13, <3>1
    <2> QED
      BY <1>14, <2>1, <2>2
  <1>16. Revised(d', hist') /\ row'.epoch # 0
    BY <1>5, <1>6, <1>9, <1>10
  <1> QED
    BY <1>12, <1>15, <1>16 DEF Order

----------------------------------------------------------------------------
(* The other actions                                                       *)

\* What is held stays held when the device is unchanged or damaged and nothing
\* is added to what is on its way to it.
LEMMA HeldOn ==
    ASSUME TypeInv, TypeInv', AtMost(Top, Top'), down' = down \/ down' = <<>>,
           dev' = dev \/ dev'.corrupt, Paged(down)
    PROVE  /\ \A c \in Positions : Holds(c, Top, dev, down) => Holds(c, Top', dev', down')
           /\ Paged(down')
  <1>1. Top \in Positions /\ Top' \in Positions
    BY TopType, NextTypes
  <1>2. Paged(<<>>) /\ ~\E j \in 1..Len(<<>>) : TRUE
    BY DEF Paged
  <1>3. Paged(down')
    BY <1>2
  <1>4. ASSUME NEW c \in Positions, Holds(c, Top, dev, down)
        PROVE  Holds(c, Top', dev', down')
    <2>1. /\ c[1] \in Nat /\ c[2] \in Nat /\ Top[1] \in Nat /\ Top[2] \in Nat
          /\ Top'[1] \in Nat /\ Top'[2] \in Nat
      BY <1>1 DEF Positions, Epochs
    <2>2. AtMost(c, Top) /\ (~dev.corrupt => AtMost(c, <<dev.epoch, dev.acked>>))
      BY <1>4 DEF Holds
    <2>3. AtMost(c, Top')
      BY <2>1, <2>2, OrderOf
    <2>4. ~dev'.corrupt => AtMost(c, <<dev'.epoch, dev'.acked>>)
      BY <2>2
    <2>5. \A j \in 1..Len(down') : down'[j].type = "snapshot" => Less(c, Claim(down'[j]))
      BY <1>2, <1>4 DEF Holds
    <2> QED
      BY <2>3, <2>4, <2>5 DEF Holds
  <1> QED
    BY <1>3, <1>4

\* Every position is at most itself, and no position is below the first.
LEMMA Reflexive ==
    ASSUME NEW c \in Positions
    PROVE  AtMost(c, c) /\ AtMost(<<0, 0>>, c)
  BY DEF AtMost, Positions, Epochs

\* Steps that leave the service's delivery state alone.
LEMMA OutsideOrder ==
    ASSUME TypeInv, TypeInv', Order, UNCHANGED <<row, bound, d, hist>>,
           FreshEpoch' = FreshEpoch, down' = down \/ down' = <<>>,
           \/ dev' = dev
           \/ dev'.corrupt /\ AtMost(<<dev'.epoch, dev'.acked>>, <<dev.epoch, dev.acked>>),
           \E c \in Reports : AtMost(<<att'.epoch, att'.acked>>, c),
           \A b \in InFlight(up') : \E c \in Reports : AtMost(b, c)
    PROVE  Order'
  <1>1. Top' = Top /\ Top \in Positions /\ Reports \subseteq Positions
    BY TopType, ReportsType DEF Top, TypeInv
  <1>2. AtMost(Top, Top')
    BY <1>1, Reflexive
  <1>3. /\ \A c \in Positions : Holds(c, Top, dev, down) => Holds(c, Top', dev', down')
        /\ Paged(down')
    BY <1>2, HeldOn DEF Order
  <1>4. <<dev.epoch, dev.acked>> \in Reports
    BY DEF Reports
  <1>5. \E c \in Reports : AtMost(<<dev'.epoch, dev'.acked>>, c)
    <2>1. AtMost(<<dev.epoch, dev.acked>>, <<dev.epoch, dev.acked>>)
      BY <1>1, <1>4, Reflexive
    <2> QED
      BY <1>4, <2>1
  <1>6. \A b \in Acknowledged(row') \cup (IF bound' THEN Acknowledged(d') ELSE {}) :
           b \in Reports /\ AtMost(b, b)
    BY <1>1, Reflexive DEF Reports
  <1>7. Reports' = {<<dev'.epoch, dev'.acked>>, <<att'.epoch, att'.acked>>}
                   \cup Acknowledged(row')
                   \cup (IF bound' THEN Acknowledged(d') ELSE {})
                   \cup InFlight(up')
    BY DEF Reports
  <1>8. \A b \in Reports' : \E c \in Reports : AtMost(b, c)
    <2> HIDE DEF Reports
    <2> QED
      BY <1>5, <1>6, <1>7
  <1>9. bound' => Revised(d', hist')
    BY DEF Order
  <1>10. row'.epoch = 0 => row'.sequence = 0
    BY DEF Order
  <1>11. /\ Top' \in Positions /\ dev' \in Caches /\ down' \in Seq(Bodies)
         /\ Reports' \subseteq Positions
    BY NextTypes
  <1> QED
    BY <1>3, <1>8, <1>9, <1>10, <1>11, OrderKept

\* The steps of the link, the calendar and the device's restarts, and the
\* service's turns on events that do not reach the delivery state.
LEMMA OutsideSteps ==
    ASSUME TypeInv, TypeInv', Order, UNCHANGED <<row, bound, d, hist>>,
           FreshEpoch' = FreshEpoch,
           \/ Detach \/ Connect \/ EndSession \/ Lost \/ Reboot \/ Damage
           \/ \E version \in Versions : EditCalendar(version)
           \/ (Attach \/ Ack \/ Push) /\ UNCHANGED down
    PROVE  Order'
  <1>1. up \in Seq(EventsUp) /\ dev \in Caches
    BY DEF TypeInv, TypeOK
  <1>2. Reports \subseteq Positions
    BY ReportsType DEF TypeInv
  <1>3. /\ <<dev.epoch, dev.acked>> \in Reports /\ <<att.epoch, att.acked>> \in Reports
        /\ InFlight(up) \subseteq Reports
    BY DEF Reports
  <1>4. \A c \in Reports : AtMost(c, c) /\ AtMost(<<0, 0>>, c)
    BY <1>2, Reflexive
  <1>5. up # <<>> => /\ InFlight(Tail(up)) \subseteq Reports
                     /\ Report(Head(up)) \subseteq Reports
    BY <1>1, <1>3, InFlightOf
  <1> DEFINE Below(b) == \E c \in Reports : AtMost(b, c)
  <1>6. \A c \in Reports : Below(c)
    BY <1>4
  <1>7. Below(<<0, 0>>)
    BY <1>3, <1>4
  <1>8. \/ dev' = dev
        \/ dev'.corrupt /\ AtMost(<<dev'.epoch, dev'.acked>>, <<dev.epoch, dev.acked>>)
    <2>1. CASE Damage
      <3>1. CASE dev' = [epoch |-> 0, acked |-> 0, occ |-> Empty, corrupt |-> TRUE]
        BY <1>3, <1>4, <3>1
      <3>2. ASSUME NEW h \in hist, h[1] = dev.epoch, h[2] <= dev.acked,
                   dev' = [epoch |-> h[1], acked |-> h[2], occ |-> h[3], corrupt |-> TRUE]
            PROVE  dev'.corrupt /\ AtMost(<<dev'.epoch, dev'.acked>>, <<dev.epoch, dev.acked>>)
        BY <3>2 DEF AtMost
      <3> QED
        BY <2>1, <3>1, <3>2 DEF Damage, Recoverable
    <2> QED
      BY <2>1 DEF Detach, Connect, EndSession, Lost, Reboot, EditCalendar, Attach, Ack, Push
  <1>9. down' = down \/ down' = <<>>
    BY DEF Detach, Connect, EndSession, Lost, Reboot, Damage, EditCalendar
  <1>10. Below(<<att'.epoch, att'.acked>>)
    <2>1. CASE Attach
      <3>1. <<att'.epoch, att'.acked>> \in Report(Head(up)) /\ up # <<>>
        BY <2>1 DEF Attach, Report
      <3> QED
        BY <1>5, <1>6, <3>1
    <2>2. CASE att' = NoSession
      BY <1>7, <2>2 DEF NoSession
    <2>3. CASE att' = att
      BY <1>3, <1>6, <2>3
    <2> QED
      BY <2>1, <2>2, <2>3
         DEF Detach, Connect, EndSession, Lost, Reboot, Damage, EditCalendar, Ack, Push
  <1>11. \A b \in InFlight(up') : Below(b)
    <2>1. CASE up' = up
      BY <1>3, <1>6, <2>1
    <2>2. CASE up # <<>> /\ up' = Tail(up)
      BY <1>5, <1>6, <2>2
    <2>3. CASE Connect
      <3> DEFINE e == [type |-> "attach", session |-> link'.session,
                       epoch |-> Hello.epoch, acked |-> Hello.acked]
      <3>1. up' = Append(up, e)
        BY <2>3 DEF Connect
      <3>2. Hello.epoch = (IF dev.corrupt THEN 0 ELSE dev.epoch) /\ Hello.acked = dev.acked
        BY DEF Hello
      <3>3. e \in EventsUp
        <4>1. link'.session \in Nat /\ dev.epoch \in Epochs /\ dev.acked \in Nat /\ 0 \in Epochs
          BY <1>1 DEF TypeInv, TypeOK, Links, Caches, Epochs
        <4> QED
          BY <3>2, <4>1 DEF EventsUp
      <3>4. Report(e) = {<<Hello.epoch, Hello.acked>>}
        BY DEF Report
      <3>5. AtMost(<<Hello.epoch, Hello.acked>>, <<dev.epoch, dev.acked>>)
        <4>1. dev.epoch \in Nat /\ dev.acked \in Nat
          BY <1>1 DEF Caches, Epochs
        <4> QED
          BY <3>2, <4>1 DEF AtMost
      <3> HIDE DEF e
      <3>6. InFlight(up') \subseteq (InFlight(up) \cup {<<Hello.epoch, Hello.acked>>})
        BY <1>1, <3>1, <3>3, <3>4, InFlightOf
      <3>7. Below(<<Hello.epoch, Hello.acked>>)
        BY <1>3, <3>5
      <3> QED
        BY <1>3, <1>6, <3>6, <3>7
    <2>4. CASE EndSession
      <3> DEFINE end == <<[type |-> "detach", session |-> link.session]>>
      <3>1. PICK kept \in 0..Len(up), report \in {<<>>, end} :
               up' = SubSeq(up, 1, kept) \o report
        BY <2>4 DEF EndSession
      <3>2. report \in Seq(EventsUp) /\ \A i \in 1..Len(report) : Report(report[i]) = {}
        <4> DEFINE e == [type |-> "detach", session |-> link.session]
        <4>1. e \in EventsUp /\ Report(e) = {}
          BY DEF EventsUp, Report, TypeInv, TypeOK, Links
        <4> HIDE DEF e
        <4>2. <<>> \in Seq(EventsUp) /\ <<e>> \in Seq(EventsUp) /\ Len(<<e>>) = 1 /\ <<e>>[1] = e
          BY <4>1
        <4>3. report = <<>> \/ report = <<e>>
          BY DEF e
        <4>4. CASE report = <<>>
          BY <4>2, <4>4
        <4>5. CASE report = <<e>>
          <5>1. \A i \in 1..Len(report) : report[i] = e
            BY <4>2, <4>5
          <5> QED
            BY <4>1, <4>2, <4>5, <5>1
        <4> QED
          BY <4>3, <4>4, <4>5
      <3>3. InFlight(up') \subseteq InFlight(up)
        BY <1>1, <3>1, <3>2, InFlightKept
      <3> QED
        BY <1>3, <1>6, <3>3
    <2> QED
      BY <2>1, <2>2, <2>3, <2>4
         DEF Detach, Lost, Reboot, Damage, EditCalendar, Attach, Ack, Push
  <1> QED
    BY <1>8, <1>9, <1>10, <1>11, OutsideOrder

\* The events for the service after a reply.
LEMMA ReplyFlight ==
    ASSUME TypeInv, NEW ack \in EventsUp, NEW budget, Reply(ack, budget)
    PROVE  InFlight(up') \subseteq (InFlight(up) \cup Report(ack))
  <1>1. up \in Seq(EventsUp)
    BY DEF TypeInv, TypeOK
  <1>2. up' = up \/ up' = Append(up, ack)
    BY DEF Reply
  <1> QED
    BY <1>1, <1>2, InFlightOf

\* The device reads a message, moves on or stays, and answers.
LEMMA ReadOrder ==
    ASSUME TypeInv, TypeInv', Order, NEW type, Receives(type),
           UNCHANGED <<row, bound, d, hist, att>>, FreshEpoch' = FreshEpoch,
           \/ dev' = dev
           \/ /\ \A c \in Positions : Holds(c, Top, dev, down)
                                      => AtMost(c, <<dev'.epoch, dev'.acked>>)
              /\ Holds(<<dev'.epoch, dev'.acked>>, Top, dev', Tail(down)),
           InFlight(up') \subseteq (InFlight(up) \cup {<<dev'.epoch, dev'.acked>>})
    PROVE  Order'
  <1> DEFINE pos == <<dev'.epoch, dev'.acked>>
  <1>1. down \in Seq(Bodies) /\ down # <<>> /\ down' = Tail(down) /\ Top' = Top
    BY DEF TypeInv, TypeOK, Bodies, Receives, Top
  <1>2. Paged(down) /\ \A c \in Reports : Holds(c, Top, dev, down)
    BY DEF Order
  <1>3. Paged(down')
    BY <1>1, <1>2, PagedTail
  <1>4. \A j \in 1..Len(down') : \E i \in 1..Len(down) : down'[j] = down[i]
    BY <1>1, TailOf
  <1>5. ASSUME NEW c \in Positions, Holds(c, Top, dev, down)
        PROVE  Holds(c, Top', dev', down')
    <2>1. /\ AtMost(c, Top)
          /\ ~dev.corrupt => AtMost(c, <<dev.epoch, dev.acked>>)
          /\ \A j \in 1..Len(down) : down[j].type = "snapshot" => Less(c, Claim(down[j]))
      BY <1>5 DEF Holds
    <2>2. ~dev'.corrupt => AtMost(c, pos)
      BY <1>5, <2>1
    <2>3. \A j \in 1..Len(down') : down'[j].type = "snapshot" => Less(c, Claim(down'[j]))
      BY <1>4, <2>1
    <2> HIDE DEF Top
    <2> QED
      BY <1>1, <2>1, <2>2, <2>3 DEF Holds
  <1>6. Reports \subseteq Positions
    BY ReportsType DEF TypeInv
  <1>7. Holds(pos, Top', dev', down')
    <2>1. CASE dev' = dev
      <3>1. pos \in Reports
        BY <2>1 DEF Reports
      <3> HIDE DEF Reports, pos
      <3> QED
        BY <1>2, <1>5, <1>6, <3>1
    <2>2. CASE Holds(pos, Top, dev', Tail(down))
      <3> HIDE DEF Top
      <3> QED
        BY <1>1, <2>2
    <2> QED
      BY <2>1, <2>2
  <1>8. \A b \in Reports' : b = pos \/ b \in Reports
    <2>1. Reports' = {<<dev'.epoch, dev'.acked>>, <<att'.epoch, att'.acked>>}
                     \cup Acknowledged(row')
                     \cup (IF bound' THEN Acknowledged(d') ELSE {})
                     \cup InFlight(up')
      BY DEF Reports
    <2>2. /\ <<att'.epoch, att'.acked>> \in Reports /\ Acknowledged(row') \subseteq Reports
          /\ (IF bound' THEN Acknowledged(d') ELSE {}) \subseteq Reports
          /\ InFlight(up) \subseteq Reports
      BY DEF Reports
    <2> HIDE DEF Reports
    <2> QED
      BY <2>1, <2>2
  <1> HIDE DEF pos
  <1>9. \A b \in Reports' : Holds(b, Top', dev', down')
    BY <1>2, <1>5, <1>6, <1>7, <1>8
  <1>10. (bound' => Revised(d', hist')) /\ (row'.epoch = 0 => row'.sequence = 0)
    BY DEF Order
  <1> QED
    BY <1>3, <1>9, <1>10 DEF Order

\* A delta that follows takes the device to a position below every page behind
\* it.
LEMMA ApplyDeltaOrder ==
    ASSUME TypeInv, TypeInv', Safe, Order, ApplyDelta, FreshEpoch' = FreshEpoch
    PROVE  Order'
  <1> DEFINE m == Head(down)
             pos == <<dev'.epoch, dev'.acked>>
  <1>1. down \in Seq(Bodies) /\ down # <<>> /\ m \in Messages /\ Receives("delta")
    BY ReceivesType DEF ApplyDelta, TypeInv, TypeOK, Bodies, Receives
  <1>2. link \in Links /\ dev \in Caches /\ dev' \in Caches
    BY DEF TypeInv, TypeOK
  <1>3. InFlight(up') \subseteq (InFlight(up) \cup {pos})
    <2>1. PICK ack : /\ \E need \in BOOLEAN : ack = AckOf(dev', need, TRUE)
                     /\ Reply(ack, left)
      BY DEF ApplyDelta
    <2>2. ack \in EventsUp
      BY <1>2, <2>1, AckOfType
    <2>3. Report(ack) = {pos}
      BY <2>1 DEF Report, AckOf
    <2> HIDE DEF pos
    <2> QED
      BY <2>1, <2>2, <2>3, ReplyFlight
  <1>4. CASE ~Follows(m)
    <2>1. dev' = dev
      BY <1>4 DEF ApplyDelta
    <2> QED
      BY <1>1, <1>3, <2>1, ReadOrder DEF ApplyDelta
  <1>5. CASE Follows(m)
    <2>1. /\ dev' = [dev EXCEPT !.acked = m.sequence, !.occ = Applied(m, @)]
          /\ ~dev.corrupt /\ m.epoch = dev.epoch /\ m.sequence = dev.acked + 1
      BY <1>5 DEF ApplyDelta, Follows
    <2>2. /\ dev'.epoch = dev.epoch /\ dev'.acked = dev.acked + 1 /\ ~dev'.corrupt
          /\ dev.epoch \in Nat /\ dev.acked \in Nat
      BY <1>2, <2>1 DEF Caches, Epochs
    <2>3. Claim(m)[1] = pos[1] /\ Claim(m)[2] = pos[2]
      BY <1>1, <2>1, <2>2 DEF Claim, Messages
    <2>4. \A c \in Positions : Holds(c, Top, dev, down) => AtMost(c, pos)
      <3>1. ASSUME NEW c \in Positions, Holds(c, Top, dev, down)
            PROVE  AtMost(c, pos)
        <4>1. AtMost(c, <<dev.epoch, dev.acked>>) /\ c[1] \in Nat /\ c[2] \in Nat
          BY <2>1, <3>1 DEF Holds, Positions, Epochs
        <4> QED
          BY <2>2, <4>1 DEF AtMost
      <3> QED
        BY <3>1
    <2>5. AtMost(pos, Top)
      <3>1. Claim(m) \in hist
        <4>1. Backed(m, hist)
          BY <1>1, ReadBacked DEF Safe
        <4> QED
          BY <4>1 DEF Backed, Claim
      <3>2. /\ Claim(m)[1] <= FreshEpoch
            /\ Claim(m)[1] = FreshEpoch => Claim(m)[2] <= row.sequence
        BY <3>1 DEF Safe
      <3>3. FreshEpoch \in Nat /\ row.sequence \in Nat
        BY FreshEpochType DEF TypeInv, TypeOK, Rows
      <3>4. Top[1] = FreshEpoch /\ Top[2] = row.sequence
        BY DEF Top
      <3> HIDE DEF Top
      <3> QED
        BY <2>2, <2>3, <3>2, <3>3, <3>4 DEF AtMost
    <2>6. \A j \in 1..Len(Tail(down)) :
             Tail(down)[j].type = "snapshot" => Less(pos, Claim(Tail(down)[j]))
      <3>1. \A j \in 1..Len(Tail(down)) :
               Tail(down)[j].type = "snapshot" => Precedes(m, Tail(down)[j])
        BY <1>1, PagedTail DEF Order
      <3>2. m.type # "snapshot"
        BY <1>1 DEF Messages
      <3> HIDE DEF m, pos
      <3>3. \A j \in 1..Len(Tail(down)) :
               Tail(down)[j].type = "snapshot" => Less(Claim(m), Claim(Tail(down)[j]))
        BY <3>1, <3>2 DEF Precedes
      <3> HIDE DEF Claim
      <3> QED
        BY <2>3, <3>3 DEF Less
    <2>7. AtMost(pos, pos)
      BY <2>2 DEF AtMost
    <2>8. Holds(pos, Top, dev', Tail(down))
      BY <2>5, <2>6, <2>7 DEF Holds
    <2> QED
      BY <1>1, <1>3, <2>4, <2>8, ReadOrder DEF ApplyDelta
  <1> QED
    BY <1>4, <1>5

\* The last page of a snapshot takes the device to a position above all it
\* ever reported, and below every page behind it: those of its own snapshot
\* were before it.
LEMMA ApplySnapshotPageOrder ==
    ASSUME TypeInv, TypeInv', Safe, Order, ApplySnapshotPage, FreshEpoch' = FreshEpoch
    PROVE  Order'
  <1> DEFINE p == Head(down)
             pos == <<dev'.epoch, dev'.acked>>
  <1>1. down \in Seq(Bodies) /\ down # <<>> /\ p \in Pages /\ Receives("snapshot")
    BY ReceivesType DEF ApplySnapshotPage, TypeInv, TypeOK, Bodies, Receives
  <1>2. link \in Links /\ dev \in Caches /\ dev' \in Caches
    BY DEF TypeInv, TypeOK
  <1>3. InFlight(up') \subseteq (InFlight(up) \cup {pos})
    <2>1. PICK ack : /\ (\E need \in BOOLEAN : ack = AckOf(dev', need, TRUE)) \/ ack = EmptyAck
                     /\ Reply(ack, left)
      BY DEF ApplySnapshotPage
    <2>2. ASSUME NEW need \in BOOLEAN
          PROVE  AckOf(dev', need, TRUE) \in EventsUp /\ Report(AckOf(dev', need, TRUE)) = {pos}
      <3>1. Report(AckOf(dev', need, TRUE)) = {pos}
        BY DEF Report, AckOf
      <3> QED
        BY <1>2, <3>1, AckOfType
    <2>3. EmptyAck \in EventsUp /\ Report(EmptyAck) = {}
      BY <1>2 DEF EmptyAck, EventsUp, Links, Epochs, Report
    <2> HIDE DEF pos
    <2> QED
      BY <2>1, <2>2, <2>3, ReplyFlight
  <1>4. CASE ~Completes(p)
    <2>1. dev' = dev
      BY <1>4 DEF ApplySnapshotPage
    <2> QED
      BY <1>1, <1>3, <2>1, ReadOrder DEF ApplySnapshotPage
  <1>5. CASE Completes(p)
    <2>1. dev' = [epoch |-> p.epoch, acked |-> p.high, occ |-> Staged(p), corrupt |-> FALSE]
      BY <1>5 DEF ApplySnapshotPage
    <2>2. /\ dev'.epoch = p.epoch /\ dev'.acked = p.high
          /\ p.epoch \in Nat /\ p.high \in Nat /\ p.index \in Nat /\ p.count \in Nat
          /\ p.index + 1 >= p.count /\ p.type = "snapshot"
      BY <1>1, <1>5, <2>1 DEF Pages, Epochs, Completes
    <2>3. Claim(p)[1] = pos[1] /\ Claim(p)[2] = pos[2]
      BY <2>2 DEF Claim
    <2>4. \A c \in Positions : Holds(c, Top, dev, down) => AtMost(c, pos)
      <3>1. 1 \in 1..Len(down) /\ down[1] = p
        BY <1>1, TailOf
      <3>2. ASSUME NEW c \in Positions, Holds(c, Top, dev, down)
            PROVE  AtMost(c, pos)
        <4>1. Less(c, Claim(p)) /\ c[1] \in Nat /\ c[2] \in Nat
          BY <2>2, <3>1, <3>2 DEF Holds, Positions, Epochs
        <4> HIDE DEF Claim
        <4> QED
          BY <2>2, <2>3, <4>1 DEF Less, AtMost
      <3> QED
        BY <3>2
    <2>5. AtMost(pos, Top)
      <3>1. Claim(p) \in hist
        <4>1. Backed(p, hist)
          BY <1>1, ReadBacked DEF Safe
        <4> QED
          BY <4>1 DEF Backed, Claim
      <3>2. /\ Claim(p)[1] <= FreshEpoch
            /\ Claim(p)[1] = FreshEpoch => Claim(p)[2] <= row.sequence
        BY <3>1 DEF Safe
      <3>3. FreshEpoch \in Nat /\ row.sequence \in Nat
        BY FreshEpochType DEF TypeInv, TypeOK, Rows
      <3>4. Top[1] = FreshEpoch /\ Top[2] = row.sequence
        BY DEF Top
      <3> HIDE DEF Top
      <3> QED
        BY <2>2, <2>3, <3>2, <3>3, <3>4 DEF AtMost
    <2>6. ASSUME NEW j \in 1..Len(Tail(down)), Tail(down)[j].type = "snapshot"
          PROVE  Less(pos, Claim(Tail(down)[j]))
      <3> DEFINE q == Tail(down)[j]
      <3>1. q.index < q.count /\ Precedes(p, q)
        BY <1>1, <2>6, PagedTail DEF Order
      <3>2. q \in Pages
        <4>1. q \in Bodies
          BY <1>1, TailOf, ElementOfSeq
        <4> QED
          BY <2>6, <4>1 DEF Bodies, Messages, Pages
      <3>3. q.index \in Nat /\ q.count \in Nat
        BY <3>2 DEF Pages
      <3> HIDE DEF p, q, pos
      <3>4. Less(Claim(p), Claim(q))
        BY <2>2, <3>1, <3>3 DEF Precedes
      <3>5. Less(pos, Claim(q))
        <4> HIDE DEF Claim
        <4> QED
          BY <2>3, <3>4 DEF Less
      <3> QED
        BY <3>5 DEF q
    <2>7. AtMost(pos, pos)
      BY <2>2 DEF AtMost
    <2>8. Holds(pos, Top, dev', Tail(down))
      BY <2>5, <2>6, <2>7 DEF Holds
    <2> QED
      BY <1>1, <1>3, <2>4, <2>8, ReadOrder DEF ApplySnapshotPage
  <1> QED
    BY <1>4, <1>5

\* A commit that fails moves nothing, and its ack reports no position.
LEMMA CommitFailsOrder ==
    ASSUME TypeInv, TypeInv', Order, CommitFails, FreshEpoch' = FreshEpoch
    PROVE  Order'
  <1>1. link \in Links /\ dev \in Caches
    BY DEF TypeInv, TypeOK
  <1>2. AckOf(dev, TRUE, FALSE) \in EventsUp /\ Report(AckOf(dev, TRUE, FALSE)) = {}
    <2>1. Report(AckOf(dev, TRUE, FALSE)) = {}
      BY DEF Report, AckOf
    <2> QED
      BY <1>1, <2>1, AckOfType
  <1>3. InFlight(up') \subseteq InFlight(up)
    <2>1. PICK budget : Reply(AckOf(dev, TRUE, FALSE), budget)
      BY DEF CommitFails
    <2> QED
      BY <1>2, <2>1, ReplyFlight
  <1>4. PICK type : Receives(type)
    BY DEF CommitFails
  <1>5. dev' = dev /\ UNCHANGED <<row, bound, d, hist, att>>
    BY DEF CommitFails
  <1> QED
    BY <1>3, <1>4, <1>5, ReadOrder

\* The controller starts again: what it takes as acknowledged is in the row.
LEMMA RestartOrder ==
    ASSUME TypeInv, TypeInv', Order, Restart, FreshEpoch' = FreshEpoch
    PROVE  Order'
  <1>1. /\ UNCHANGED <<row, hist, down, dev>> /\ d' = NewDelivery(row)
        /\ att' = NoSession /\ up' = <<>>
    BY DEF Restart
  <1>2. Top' = Top /\ Top \in Positions /\ Reports \subseteq Positions
    BY <1>1, TopType, ReportsType DEF Top, TypeInv
  <1>3. /\ \A c \in Positions : Holds(c, Top, dev, down) => Holds(c, Top', dev', down')
        /\ Paged(down')
    <2>1. AtMost(Top, Top')
      BY <1>2, Reflexive
    <2> QED
      BY <1>1, <2>1, HeldOn DEF Order
  <1>4. <<dev.epoch, dev.acked>> \in Reports /\ Acknowledged(row) \subseteq Reports
    BY DEF Reports
  <1>5. \A c \in Reports : AtMost(c, c) /\ AtMost(<<0, 0>>, c)
    BY <1>2, Reflexive
  <1>6. \A b \in Acknowledged(d') : \E c \in Acknowledged(row) : AtMost(b, c)
    <2>1. /\ d'.epoch = row.epoch /\ d'.acked = Lower(row.acked, row.sequence)
          /\ row.acked \in Nat /\ row.sequence \in Nat /\ row.epoch \in Nat
      BY <1>1 DEF NewDelivery, TypeInv, TypeOK, Rows, Epochs
    <2>2. ASSUME NEW b \in Acknowledged(d')
          PROVE  <<row.epoch, row.acked>> \in Acknowledged(row) /\ AtMost(b, <<row.epoch, row.acked>>)
      BY <2>1 DEF Acknowledged, Lower, AtMost
    <2> QED
      BY <2>2
  <1>7. InFlight(up') = {} /\ <<att'.epoch, att'.acked>> = <<0, 0>>
    BY <1>1 DEF InFlight, NoSession
  <1>8. Reports' = {<<dev'.epoch, dev'.acked>>, <<att'.epoch, att'.acked>>}
                   \cup Acknowledged(row')
                   \cup (IF bound' THEN Acknowledged(d') ELSE {})
                   \cup InFlight(up')
    BY DEF Reports
  <1>9. \A b \in Reports' : \E c \in Reports : AtMost(b, c)
    <2> HIDE DEF Reports
    <2> QED
      BY <1>1, <1>4, <1>5, <1>6, <1>7, <1>8
  <1>10. bound' => Revised(d', hist')
    BY <1>1 DEF Revised, NewDelivery
  <1>11. row'.epoch = 0 => row'.sequence = 0
    BY <1>1 DEF Order
  <1>12. /\ Top' \in Positions /\ dev' \in Caches /\ down' \in Seq(Bodies)
         /\ Reports' \subseteq Positions
    BY NextTypes
  <1> QED
    BY <1>3, <1>9, <1>10, <1>11, <1>12, OrderKept

\* The speaker is deleted: the next epoch is above all positions.
LEMMA ForgetOrder ==
    ASSUME TypeInv, TypeInv', Order, Forget, FreshEpoch' = FreshEpoch + 1
    PROVE  Order'
  <1>1. /\ UNCHANGED <<hist, down, dev>> /\ row' = NoRow /\ ~bound'
        /\ att' = NoSession /\ up' = <<>>
    BY DEF Forget
  <1>2. Top \in Positions /\ Reports \subseteq Positions
    BY TopType, ReportsType DEF TypeInv
  <1>3. AtMost(Top, Top')
    <2>1. Top[1] = FreshEpoch /\ Top'[1] = FreshEpoch + 1 /\ FreshEpoch \in Nat
      BY FreshEpochType DEF Top
    <2> HIDE DEF Top
    <2> QED
      BY <2>1 DEF AtMost
  <1>4. /\ \A c \in Positions : Holds(c, Top, dev, down) => Holds(c, Top', dev', down')
        /\ Paged(down')
    BY <1>1, <1>3, HeldOn DEF Order
  <1>5. <<dev.epoch, dev.acked>> \in Reports
    BY DEF Reports
  <1>6. \A c \in Reports : AtMost(c, c) /\ AtMost(<<0, 0>>, c)
    BY <1>2, Reflexive
  <1>7. /\ InFlight(up') = {} /\ <<att'.epoch, att'.acked>> = <<0, 0>>
        /\ Acknowledged(row') = {} /\ row'.sequence = 0
    BY <1>1 DEF InFlight, NoSession, NoRow, Acknowledged
  <1>8. Reports' = {<<dev'.epoch, dev'.acked>>, <<att'.epoch, att'.acked>>}
                   \cup Acknowledged(row')
                   \cup (IF bound' THEN Acknowledged(d') ELSE {})
                   \cup InFlight(up')
    BY DEF Reports
  <1>9. \A b \in Reports' : \E c \in Reports : AtMost(b, c)
    <2> HIDE DEF Reports
    <2> QED
      BY <1>1, <1>5, <1>6, <1>7, <1>8
  <1>10. /\ Top' \in Positions /\ dev' \in Caches /\ down' \in Seq(Bodies)
         /\ Reports' \subseteq Positions
    BY NextTypes
  <1> QED
    BY <1>1, <1>4, <1>7, <1>9, <1>10, OrderKept

\* Only a deletion moves on to the next epoch.
LEMMA EpochSteps ==
    ASSUME TypeInv
    PROVE  /\ Forget => FreshEpoch' = FreshEpoch + 1
           /\ \/ Detach \/ Connect \/ EndSession \/ Lost \/ Reboot \/ Damage
              \/ \E version \in Versions : EditCalendar(version)
              \/ ApplyDelta \/ ApplySnapshotPage \/ CommitFails \/ Restart
              \/ UNCHANGED left
              => FreshEpoch' = FreshEpoch
  <1>1. /\ left \in [Events -> Nat] /\ "forget" \in Events /\ "db" \in Events
        /\ "forget" \in Faults /\ "calendar" # "forget"
    BY DEF TypeInv, TypeOK, Events, Faults
  <1>2. left["db"] \in Nat /\ left["forget"] \in Nat /\ Budget["forget"] \in Nat
    BY <1>1, BudgetAssumption
  <1>3. ASSUME Forget PROVE FreshEpoch' = FreshEpoch + 1
    <2>1. Allows(left, "forget", 1) /\ left' = Spent(left, "forget", 1)
      BY <1>3 DEF Forget, Spend
    <2>2. left'["forget"] = left["forget"] - 1
      BY <1>1, <2>1, SpentType
    <2> QED
      BY <1>2, <2>2 DEF FreshEpoch
  <1>4. UNCHANGED left => left'["forget"] = left["forget"]
    OBVIOUS
  <1>5. Detach \/ Connect \/ Lost => UNCHANGED left
    BY DEF Detach, Connect, Lost
  <1>6. EndSession \/ Reboot \/ Damage => left'["forget"] = left["forget"]
    BY SpendQuiet DEF EndSession, Reboot, Damage, Faults
  <1>7. (\E version \in Versions : EditCalendar(version)) => left'["forget"] = left["forget"]
    BY <1>1 DEF EditCalendar
  <1>8. ApplyDelta \/ ApplySnapshotPage => left'["forget"] = left["forget"]
    <2> SUFFICES ASSUME ApplyDelta \/ ApplySnapshotPage
                 PROVE  left'["forget"] = left["forget"]
      OBVIOUS
    <2>1. PICK ack : Reply(ack, left)
      BY DEF ApplyDelta, ApplySnapshotPage
    <2> QED
      BY <1>1, <1>2, <2>1, ReplyQuiet
  <1>9. CommitFails => left'["forget"] = left["forget"]
    <2> SUFFICES ASSUME CommitFails PROVE left'["forget"] = left["forget"]
      OBVIOUS
    <2> DEFINE budget == Spent(left, "commit", 1)
    <2>1. budget \in [Events -> Nat] /\ budget["db"] = left["db"] /\ budget["forget"] = left["forget"]
      <3>1. "commit" \in Faults /\ "db" \in Faults \ {"commit"} /\ "forget" \in Faults \ {"commit"}
        BY DEF Faults
      <3> QED
        BY <1>1, <3>1, SpentType DEF CommitFails
    <2>2. PICK ack : Reply(ack, budget)
      BY DEF CommitFails
    <2> HIDE DEF budget
    <2>3. budget["db"] <= left["db"]
      BY <1>2, <2>1
    <2> QED
      BY <2>1, <2>2, <2>3, ReplyQuiet
  <1>10. Restart => left'["forget"] = left["forget"]
    <2> SUFFICES ASSUME Restart PROVE left'["forget"] = left["forget"]
      OBVIOUS
    <2> DEFINE rest == Spent(left, "crash", 1)
    <2>1. /\ "crash" \in Faults /\ "db" \in Faults
          /\ "forget" \in Faults \ {"crash"} /\ "forget" \in Faults \ {"db"}
      BY DEF Faults
    <2>2. rest \in [Events -> Nat] /\ rest["forget"] = left["forget"]
      BY <1>1, <2>1, SpentType DEF Restart
    <2>3. left' = rest \/ (Allows(rest, "db", 1) /\ left' = Spent(rest, "db", 1))
      BY DEF Restart
    <2> HIDE DEF rest
    <2>4. Allows(rest, "db", 1) => Spent(rest, "db", 1)["forget"] = rest["forget"]
      BY <2>1, <2>2, SpentType
    <2> QED
      BY <2>2, <2>3, <2>4
  <1>11. \/ Detach \/ Connect \/ EndSession \/ Lost \/ Reboot \/ Damage
         \/ \E version \in Versions : EditCalendar(version)
         \/ ApplyDelta \/ ApplySnapshotPage \/ CommitFails \/ Restart
         \/ UNCHANGED left
         => left'["forget"] = left["forget"]
    BY <1>4, <1>5, <1>6, <1>7, <1>8, <1>9, <1>10
  <1>12. left'["forget"] = left["forget"] => FreshEpoch' = FreshEpoch
    BY DEF FreshEpoch
  <1> QED
    BY <1>3, <1>11, <1>12

\* The inductive step.
LEMMA OrderStep ==
    ASSUME OrderInv, SafeInv', [Next]_vars, AllRecorded'
    PROVE  Order'
  <1>1. AllRecorded /\ Safe' /\ Safe /\ Order /\ TypeInv /\ TypeInv'
    BY SafeStep DEF OrderInv, SafeInv
  <1>2. /\ <<att.epoch, att.acked>> \in Reports /\ InFlight(up) \subseteq Reports
        /\ up # <<>> => InFlight(Tail(up)) \subseteq Reports /\ Report(Head(up)) \subseteq Reports
    <2>1. up \in Seq(EventsUp)
      BY <1>1 DEF TypeInv, TypeOK
    <2>2. up # <<>> => InFlight(Tail(up)) \subseteq InFlight(up) /\ Report(Head(up)) \subseteq InFlight(up)
      BY <2>1, InFlightOf
    <2> QED
      BY <2>2 DEF Reports
  <1>3. Idle => UNCHANGED <<row, bound, d, hist, down>> /\ FreshEpoch' = FreshEpoch
    BY <1>1, EpochSteps DEF Idle
  <1>4. CASE UNCHANGED vars
    <2>1. /\ UNCHANGED <<row, down, dev, bound, d, hist, up, att>> /\ UNCHANGED left
      BY <1>4 DEF vars
    <2>2. FreshEpoch' = FreshEpoch
      BY <2>1 DEF FreshEpoch
    <2>3. Reports' = Reports /\ Top' = Top
      BY <2>1, <2>2 DEF Reports, Top
    <2> QED
      BY <1>1, <2>1, <2>3 DEF Order
  <1>5. CASE Bind
    <2>1. InOrder /\ UNCHANGED <<dev, att, up>>
      BY <1>1, <1>5, BindOrderly DEF Bind
    <2> QED
      BY <1>2, <2>1, WorksOrder
  <1>6. CASE Attach
    <2>1. /\ up # <<>> /\ up' = Tail(up) /\ UNCHANGED dev
          /\ <<att'.epoch, att'.acked>> \in Report(Head(up))
      BY <1>6 DEF Attach, Report
    <2>2. InFlight(up') \subseteq Reports /\ <<att'.epoch, att'.acked>> \in Reports
      BY <1>2, <2>1
    <2>3. CASE Idle
      BY <1>1, <1>3, <1>6, <2>3, OutsideSteps
    <2>4. CASE InOrder
      BY <2>1, <2>2, <2>4, WorksOrder
    <2> QED
      BY <1>1, <1>6, <2>3, <2>4, AttachOrderly
  <1>7. CASE Ack
    <2>1. up # <<>> /\ up' = Tail(up) /\ UNCHANGED <<dev, att>>
      BY <1>7 DEF Ack
    <2>2. CASE Idle
      BY <1>1, <1>3, <1>7, <2>2, OutsideSteps
    <2>3. CASE InOrder
      BY <1>2, <2>1, <2>3, WorksOrder
    <2> QED
      BY <1>1, <1>7, <2>2, <2>3, AckOrderly
  <1>8. CASE Push
    <2>1. UNCHANGED <<dev, att, up>>
      BY <1>8 DEF Push
    <2>2. CASE Idle
      BY <1>1, <1>3, <1>8, <2>2, OutsideSteps
    <2>3. CASE InOrder
      BY <1>2, <2>1, <2>3, WorksOrder
    <2> QED
      BY <1>1, <1>8, <2>2, <2>3, PushOrderly
  <1>9. ASSUME NEW child \in Occurrences, Retract(child) PROVE Order'
    <2>1. InOrder /\ UNCHANGED <<dev, att, up>>
      BY <1>1, <1>9, RetractOrderly DEF Retract
    <2> QED
      BY <1>2, <2>1, WorksOrder
  <1>10. CASE Restart
    BY <1>1, <1>10, EpochSteps, RestartOrder
  <1>11. CASE Forget
    BY <1>1, <1>11, EpochSteps, ForgetOrder
  <1>12. CASE \/ Detach \/ Connect \/ EndSession \/ Lost \/ Reboot \/ Damage
              \/ \E version \in Versions : EditCalendar(version)
    <2>1. UNCHANGED <<row, bound, d, hist>>
      BY <1>12 DEF Detach, Connect, EndSession, Lost, Reboot, Damage, EditCalendar
    <2> QED
      BY <1>1, <1>12, <2>1, EpochSteps, OutsideSteps
  <1>13. CASE ApplyDelta
    BY <1>1, <1>13, EpochSteps, ApplyDeltaOrder
  <1>14. CASE ApplySnapshotPage
    BY <1>1, <1>14, EpochSteps, ApplySnapshotPageOrder
  <1>15. CASE CommitFails
    BY <1>1, <1>15, EpochSteps, CommitFailsOrder
  <1> QED
    BY <1>4, <1>5, <1>6, <1>7, <1>8, <1>9, <1>10, <1>11, <1>12, <1>13, <1>14, <1>15 DEF Next

\* The inductive invariant holds in every reachable state.
LEMMA OrderInvariant == Spec => []OrderInv
  <1>1. Init => Order
    <2> SUFFICES ASSUME Init PROVE Order
      OBVIOUS
    <2>1. /\ row = NoRow /\ bound = FALSE /\ att = NoSession /\ up = <<>> /\ down = <<>>
          /\ dev = [epoch |-> 0, acked |-> 0, occ |-> Empty, corrupt |-> FALSE]
      BY DEF Init
    <2>2. Paged(<<>>) /\ ~\E j \in 1..Len(<<>>) : TRUE
      BY DEF Paged
    <2>3. InFlight(up) = {} /\ Acknowledged(row) = {} /\ row.sequence = 0
      BY <2>1 DEF InFlight, Acknowledged, NoRow
    <2>4. \A c \in Reports : c = <<0, 0>>
      BY <2>1, <2>3 DEF Reports, NoSession
    <2>5. FreshEpoch \in Nat \ {0}
      BY InitType, FreshEpochType
    <2>6. Holds(<<0, 0>>, Top, dev, down)
      <3>1. Top[1] = FreshEpoch
        BY DEF Top
      <3>2. AtMost(<<0, 0>>, Top)
        <4> HIDE DEF Top
        <4> QED
          BY <2>5, <3>1 DEF AtMost
      <3>3. dev.epoch = 0 /\ dev.acked = 0
        BY <2>1
      <3>4. AtMost(<<0, 0>>, <<dev.epoch, dev.acked>>)
        BY <3>3 DEF AtMost
      <3> QED
        BY <2>1, <2>2, <3>2, <3>4 DEF Holds
    <2> QED
      BY <2>1, <2>2, <2>3, <2>4, <2>6 DEF Order
  <1>2. OrderInv /\ SafeInv' /\ [Next]_vars => OrderInv'
    BY OrderStep DEF OrderInv
  <1>3. SafeInv /\ Order => OrderInv
    BY DEF OrderInv
  <1>4. Init /\ SafeInv => OrderInv
    BY <1>1, <1>3
  <1> QED
    BY <1>2, <1>4, SafeInvariant, PTL DEF Spec

----------------------------------------------------------------------------
(* The theorems                                                            *)

\* `armed` tells the user that the speaker holds the alarm as last sent, and
\* an undamaged speaker does, for as long as every position was recorded:
\* whatever acks were lost or late, and however often the speaker, the session
\* or the controller was started again.
THEOREM ArmedAlarmsAreHeld == Spec => [](AllRecorded => ArmedIsHeld)
  <1>1. OrderInv => (AllRecorded => ArmedIsHeld)
    <2> SUFFICES ASSUME TypeInv, Safe, Order, NEW id \in Occurrences,
                        bound, Armed(d, id), ~dev.corrupt
                 PROVE  dev.occ[id] = d.sent[id]
      BY DEF OrderInv, SafeInv, ArmedIsHeld
    <2>1. d.sent # NoVersion /\ d.sent[id] # Absent /\ d.revision[id] <= d.acked
      BY DEF Armed
    <2>2. /\ d.revision[id] > 0
          /\ \A h \in hist : h[1] = d.epoch /\ h[2] >= d.revision[id]
                             => h[3][id] = d.sent[id]
      BY <2>1 DEF Order, Revised
    <2>3. /\ d.acked \in Nat /\ d.revision[id] \in Nat /\ d.epoch \in Nat
          /\ dev.epoch \in Nat /\ dev.acked \in Nat
      BY DEF TypeInv, TypeOK, Deliveries, Caches, Epochs
    <2>4. AtMost(<<d.epoch, d.acked>>, <<dev.epoch, dev.acked>>)
      <3>1. d.acked > 0
        BY <2>1, <2>2, <2>3
      <3>2. <<d.epoch, d.acked>> \in Reports
        BY <3>1 DEF Reports, Acknowledged
      <3> QED
        BY <3>2 DEF Order, Holds
    <2>5. /\ d.epoch = FreshEpoch /\ FreshEpoch \in Nat \ {0}
          /\ \A h \in hist : h[1] <= FreshEpoch
      BY FreshEpochType DEF Safe
    <2>6. dev.epoch >= d.epoch
      BY <2>3, <2>4 DEF AtMost
    <2>7. <<dev.epoch, dev.acked, dev.occ>> \in hist
      <3>1. dev.epoch # 0
        BY <2>3, <2>5, <2>6
      <3> QED
        BY <3>1 DEF Safe, CacheIsPublished
    <2>8. dev.epoch <= FreshEpoch
      BY <2>5, <2>7
    <2>9. dev.epoch = d.epoch
      BY <2>3, <2>5, <2>6, <2>8
    <2>10. dev.acked >= d.revision[id]
      BY <2>1, <2>3, <2>4, <2>9 DEF AtMost
    <2> QED
      BY <2>2, <2>7, <2>9, <2>10
  <1> QED
    BY <1>1, OrderInvariant, PTL

\* A step of the delivery is a step of the cache it implements, or changes
\* neither the versions published nor the cache.
LEMMA CacheStep ==
    ASSUME OrderInv, SafeInv', [Next]_vars, AllRecorded'
    PROVE  [Cache!Next]_<<hist, dev>>
  <1>1. AllRecorded /\ Safe' /\ Safe /\ Order /\ TypeInv
    BY SafeStep DEF OrderInv, SafeInv
  <1>2. ASSUME hist \subseteq hist', UNCHANGED dev
        PROVE  Cache!Publish
    BY <1>1, <1>2 DEF Cache!Publish, Cache!Functional, Safe, Unambiguous
  <1>3. ASSUME dev'.corrupt, UNCHANGED hist
        PROVE  Cache!Damage
    BY <1>3 DEF Cache!Damage
  <1>4. (\E turn, session, budget : Finish(turn, session, budget)) => hist \subseteq hist'
    BY DEF Finish
  <1>5. CASE Bind \/ Attach \/ Ack \/ Push \/ \E child \in Occurrences : Retract(child)
    <2>1. UNCHANGED dev
      BY <1>5 DEF Bind, Attach, Ack, Push, Retract
    <2>2. hist \subseteq hist'
      BY <1>4, <1>5 DEF Bind, Attach, Ack, Push, Retract
    <2> QED
      BY <1>2, <2>1, <2>2 DEF Cache!Next
  <1>6. CASE Damage
    <2>1. dev'.corrupt /\ UNCHANGED hist
      BY <1>6 DEF Damage, Recoverable
    <2> QED
      BY <1>3, <2>1 DEF Cache!Next
  <1>7. CASE ApplyDelta
    <2> DEFINE m == Head(down)
    <2>1. CASE ~Follows(m)
      BY <1>7, <2>1 DEF ApplyDelta
    <2>2. CASE Follows(m)
      <3>1. Backed(m, hist) /\ m \in Messages
        BY <1>1, <1>7, ReadBacked, ReceivesType DEF Safe, ApplyDelta
      <3>2. /\ dev' = [dev EXCEPT !.acked = m.sequence, !.occ = Applied(m, @)]
            /\ ~dev.corrupt /\ dev.epoch # 0
            /\ m.epoch = dev.epoch /\ m.sequence = dev.acked + 1 /\ UNCHANGED hist
        BY <1>7, <2>2 DEF ApplyDelta, Follows
      <3>3. dev \in Caches
        BY <1>1 DEF TypeInv, TypeOK
      <3>4. /\ dev'.epoch = dev.epoch /\ dev'.acked = m.sequence /\ dev'.corrupt = FALSE
            /\ dev.acked < m.sequence
        BY <3>2, <3>3 DEF Caches
      <3>5. <<dev'.epoch, dev'.acked, dev'.occ>> \in hist
        BY <1>1, <3>2, <3>4 DEF Safe, CacheIsPublished
      <3>6. dev' = [epoch |-> dev'.epoch, acked |-> dev'.acked, occ |-> dev'.occ,
                    corrupt |-> FALSE]
        BY <3>2, <3>3, <3>4 DEF Caches
      <3>7. Cache!Take
        <4> DEFINE v == <<dev'.epoch, dev'.acked, dev'.occ>>
        <4>1. v \in hist /\ v[1] = dev'.epoch /\ v[2] = dev'.acked /\ v[3] = dev'.occ
          BY <3>5
        <4>2. dev.acked < v[2]
          BY <3>4, <4>1
        <4> HIDE DEF v
        <4> QED
          BY <3>2, <3>6, <4>1, <4>2 DEF Cache!Take
      <3> QED
        BY <3>7 DEF Cache!Next
    <2> QED
      BY <2>1, <2>2
  <1>8. CASE ApplySnapshotPage
    <2> DEFINE p == Head(down)
    <2>1. CASE ~Completes(p)
      BY <1>8, <2>1 DEF ApplySnapshotPage
    <2>2. CASE Completes(p)
      <3>1. Backed(p, hist) /\ p \in Pages
        BY <1>1, <1>8, ReadBacked, ReceivesType DEF Safe, ApplySnapshotPage
      <3>2. /\ dev' = [epoch |-> p.epoch, acked |-> p.high, occ |-> p.digest, corrupt |-> FALSE]
            /\ UNCHANGED hist /\ p.type = "snapshot"
        BY <1>8, <2>2, <3>1 DEF ApplySnapshotPage, Completes, Pages
      <3> DEFINE v == <<p.epoch, p.high, p.digest>>
      <3>3. v \in hist /\ v[1] = p.epoch /\ v[2] = p.high /\ v[3] = p.digest
        BY <3>1, <3>2 DEF Backed
      <3>4. Less(<<dev.epoch, dev.acked>>, v)
        <4>1. 1 \in 1..Len(down) /\ down[1] = p
          BY <1>1, <1>8, TailOf DEF ApplySnapshotPage, Receives, TypeInv, TypeOK
        <4>2. <<dev.epoch, dev.acked>> \in Reports
          BY DEF Reports
        <4>3. Less(<<dev.epoch, dev.acked>>, Claim(p))
          BY <1>1, <3>2, <4>1, <4>2 DEF Order, Holds
        <4> QED
          BY <3>2, <4>3 DEF Claim, Less
      <3>5. dev.epoch # v[1] \/ dev.acked < v[2]
        <4>1. dev.epoch \in Nat
          BY <1>1 DEF TypeInv, TypeOK, Caches, Epochs
        <4> QED
          BY <3>4, <4>1 DEF Less
      <3> HIDE DEF v
      <3>6. Cache!Take
        BY <3>2, <3>3, <3>5 DEF Cache!Take
      <3> QED
        BY <3>6 DEF Cache!Next
    <2> QED
      BY <2>1, <2>2
  <1>9. CASE \/ Detach \/ Connect \/ EndSession \/ Lost \/ Reboot \/ CommitFails
             \/ Restart \/ Forget \/ \E version \in Versions : EditCalendar(version)
    BY <1>9 DEF Detach, Connect, EndSession, Lost, Reboot, CommitFails, Restart,
                Forget, EditCalendar
  <1>10. CASE UNCHANGED vars
    BY <1>10 DEF vars
  <1> QED
    BY <1>5, <1>6, <1>7, <1>8, <1>9, <1>10 DEF Next

\* Delivery implements the cache of AlertCache while positions are recorded:
\* the versions posted are published each under one number, and the device's
\* durable cache moves, whole, from a published version to a later one of the
\* epoch or to one of another epoch, however messages and acks are lost or
\* late, although the device installs a complete snapshot whatever its number.
THEOREM DeliveryImplementsCache == Spec /\ []AllRecorded => ImplementsCache
  <1>1. Init => Cache!Init
    BY DEF Init, Cache!Init
  <1>2. OrderInv /\ SafeInv' /\ [Next]_vars /\ AllRecorded' => [Cache!Next]_<<hist, dev>>
    BY CacheStep
  <1> QED
    BY <1>1, <1>2, OrderInvariant, SafeInvariant, PTL DEF Spec, ImplementsCache, Cache!Spec
=============================================================================
