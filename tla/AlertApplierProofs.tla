-------------------------- MODULE AlertApplierProofs --------------------------
(***************************************************************************)
(* Theorems about AlertApplier for every set of operations, every calendar *)
(* to start with and every number of faults and restarts.                  *)
(***************************************************************************)
EXTENDS AlertApplier, FiniteSetTheorems, QueueLemmas

Scheds == {e.sched : e \in Events0} \cup {Plan[op].sched : op \in Ops}
              \cup {Plan[op].new.sched : op \in Ops}
Keys == (UNION {e.keys : e \in Events0}) \cup {Plan[op].key : op \in Ops}
              \cup {Plan[op].new.key : op \in Ops}
Writers == Ops \cup {None}

FiniteKeys == {K \in SUBSET Keys : IsFiniteSet(K)}
EventRecords == [uid : Nat, sched : Scheds, op : Writers, keys : FiniteKeys]
Calendars == {E \in SUBSET EventRecords : IsFiniteSet(E)}
ReadRecords == [cur : BOOLEAN, at : Nat, events : Calendars, backlog : Calendars]

States == {"none", "pending", "applied", "rejected"}
RowRecords == [state : [Ops -> States], step : [Ops -> {0, 1}], order : Seq(Ops)]

Targets == [uid : Nat, key : Keys \cup {None}] \cup {None}
Jobs == [op : Writers, target : Targets, occ : (Scheds \X Keys) \cup {None}]
CallRecords == [kind : {"create", "delete", "past"}, target : Targets]
Points == {"idle", "fresh", "call", "confirm", "reread", "settle"}
PcRecords == [at : Points, job : Jobs \cup {None}, step : {0, 1},
              call : CallRecords \cup {None}, forced : BOOLEAN,
              result : {None, "applied", "rejected"}]

CalType ==
    /\ cal \in [events : Calendars, uids : Nat]
    /\ hist \in [created : SUBSET Ops, deleted : SUBSET Writers, seen : Calendars]
    /\ \A e \in hist.seen : e.op = None
    /\ conn \in BOOLEAN /\ owed \in BOOLEAN
    /\ left \in [Faults -> Nat] /\ \A f \in Faults : left[f] <= Budget[f]

FeedType ==
    /\ wire \in Seq(ReadRecords) /\ Len(wire) <= MaxWire
    /\ view \in ReadRecords \cup {None} /\ newer \in BOOLEAN

\* The subscription's window is one there has been.
TimeType == now \in 1..Len(Windows) /\ frame \in 1..now

\* Where the applier is says what it works on.
ApplierType ==
    /\ rows \in RowRecords /\ jobs \in Seq(Jobs) /\ pc \in PcRecords
    /\ pc.at # "idle" => pc.job \in Jobs
    /\ pc.at \in {"confirm", "reread", "settle"} => pc.job.op \in Ops
    /\ pc.at = "settle" => pc.result \in {"applied", "rejected"}
    /\ pc.at \in {"call", "confirm", "reread"} => pc.call \in CallRecords
    /\ pc.at = "call" /\ pc.call.kind = "create" => pc.job.op \in Ops

TypeInv == CalType /\ FeedType /\ TimeType /\ ApplierType

\* The journal lists every operation it has a row for, once.
JournalInv ==
    /\ \A i, j \in 1..Len(rows.order) : rows.order[i] = rows.order[j] => i = j
    /\ \A op \in Ops : rows.state[op] # "none" <=> \E i \in 1..Len(rows.order) : rows.order[i] = op

\* The applier's operation and the queued ones are the pending ones, in the
\* journal's order.
Busy == pc.at # "idle"
QueueInv ==
    /\ \A k \in 1..Len(jobs) : jobs[k].op # None => jobs[k].op \in Pending
    /\ \A k, m \in 1..Len(jobs) :
         k < m /\ jobs[k].op # None /\ jobs[m].op # None => Earlier(rows.order, jobs[k].op, jobs[m].op)
    /\ Busy /\ pc.job.op # None =>
         /\ pc.job.op \in Pending
         /\ \A k \in 1..Len(jobs) : jobs[k].op # None => Earlier(rows.order, pc.job.op, jobs[k].op)
    /\ \A op \in Pending : \/ Busy /\ pc.job.op = op
                           \/ \E k \in 1..Len(jobs) : jobs[k].op = op

\* An occurrence that is being guarded has one job.
GuardInv ==
    /\ \A occ : occ \in guarding <=>
         \/ Busy /\ pc.job.op = None /\ pc.job.occ = occ
         \/ \E k \in 1..Len(jobs) : jobs[k].op = None /\ jobs[k].occ = occ
    /\ \A k, m \in 1..Len(jobs) :
         jobs[k].op = None /\ jobs[m].op = None /\ jobs[k].occ = jobs[m].occ => k = m
    /\ Busy /\ pc.job.op = None =>
         \A k \in 1..Len(jobs) : jobs[k].op = None => jobs[k].occ # pc.job.occ

\* Whoever shows an operation's event, the operation wrote it.
WroteAll(events, created) == \A e \in events : e.op # None => e.op \in created
CreatedInv ==
    /\ WroteAll(cal.events, hist.created)
    /\ \A i \in 1..Len(wire) : WroteAll(wire[i].events, hist.created)
    /\ view # None => WroteAll(view.events, hist.created)
    /\ \A op \in hist.created : rows.state[op] # "none"

\* A snooze is at its second step, in the journal and in the applier, only when
\* its child was written; it deletes only then.
Snoozes(op) == op # None /\ Plan[op].action = "snooze"
SnoozeInv ==
    /\ SnoozeKeepsAlarm
    /\ \A op \in Ops : Snoozes(op) /\ rows.step[op] = 1 => op \in hist.created
    /\ Busy /\ Snoozes(pc.job.op) =>
         /\ pc.step = rows.step[pc.job.op]
         /\ pc.at = "call" /\ pc.call.kind # "create" => pc.step = 1

\* What an operation wrote has the one occurrence it was to have.
KeyInv == \A e \in cal.events : e.op # None => e.keys = {Plan[e.op].new.key}

\* While every call was answered, of what is due in every window: a pending
\* operation's event is known to have been written, or every read shows it; so a
\* create is called only for want of the event.
ShowsIt(events, op) == \E e \in events : e.op = op
EveryReadShows(op) ==
    /\ \A i \in 1..Len(wire) : ShowsIt(wire[i].events, op)
    /\ view # None => ShowsIt(view.events, op)
Steady == {op \in Ops : Framed(op)}
NoTwo(events, ops) == \A e, f \in events : e.op = f.op /\ e.op \in ops => e = f
OnceInv ==
    left["unknown"] = Budget["unknown"] =>
        /\ NoTwo(cal.events, Steady)
        /\ \A op \in Steady : op \in Pending /\ ShowsIt(cal.events, op) =>
             \/ pc.at \in {"confirm", "settle"} /\ pc.job.op = op
             \/ Plan[op].action = "snooze" /\ rows.step[op] = 1
             \/ EveryReadShows(op)
        /\ pc.at = "call" /\ pc.call.kind = "create" /\ pc.job.op \in Steady =>
             ~ShowsIt(cal.events, pc.job.op)

----------------------------------------------------------------------------
(* Finite sets and their listings                                          *)

\* The images of a finite set's elements are a finite set.
LEMMA FiniteImage ==
    ASSUME NEW S, IsFiniteSet(S), NEW f
    PROVE  IsFiniteSet({f[x] : x \in S})
  <1> DEFINE T == {f[x] : x \in S}
             g == [x \in S |-> f[x]]
  <1>1. g \in Surjection(S, T)
    BY DEF Surjection
  <1> QED
    BY <1>1, FS_Surjection

\* A listing of a finite set is a sequence that has each element once.
LEMMA ListingOf ==
    ASSUME NEW S, IsFiniteSet(S), NEW f \in [1..Cardinality(S) -> S],
           \A i, j \in 1..Cardinality(S) : f[i] = f[j] => i = j
    PROVE  /\ f \in Seq(S) /\ DOMAIN f = 1..Len(f) /\ Len(f) \in Nat
           /\ \A i, j \in 1..Len(f) : f[i] = f[j] => i = j
           /\ \A x \in S : \E i \in 1..Len(f) : f[i] = x
  <1> DEFINE n == Cardinality(S)
  <1>1. n \in Nat
    BY FS_CardinalityType
  <1> HIDE DEF n
  <1>2. f \in [1..n -> S] /\ \A i, j \in 1..n : f[i] = f[j] => i = j
    BY DEF n
  <1>3. f \in Seq(S) /\ Len(f) = n
    BY <1>1, <1>2, SeqDef, LenProperties
  <1>4. IsFiniteSet(1..n) /\ Cardinality(1..n) = n
    <2>1. 1 \in Int /\ n \in Int
      BY <1>1
    <2>2. IsFiniteSet(1..n) /\ Cardinality(1..n) = IF 1 > n THEN 0 ELSE n - 1 + 1
      BY <2>1, FS_Interval
    <2> QED
      BY <1>1, <2>2
  <1>5. f \in Injection(1..n, S)
    BY <1>2 DEF Injection, IsInjective
  <1>6. f \in Surjection(1..n, S)
    BY <1>4, <1>5, FS_Injection DEF n
  <1> QED
    BY <1>1, <1>2, <1>3, <1>6 DEF Surjection

\* The order the sweep files jobs in: a sequence without repetition of exactly the set.
LEMMA SetToSeqOf ==
    ASSUME NEW S, IsFiniteSet(S)
    PROVE  LET f == SetToSeq(S)
           IN  /\ f \in Seq(S) /\ DOMAIN f = 1..Len(f) /\ Len(f) \in Nat
               /\ \A i, j \in 1..Len(f) : f[i] = f[j] => i = j
               /\ \A x \in S : \E i \in 1..Len(f) : f[i] = x
  <1> DEFINE n == Cardinality(S)
             Lists(f) == \A i, j \in 1..n : f[i] = f[j] => i = j
  <1>1. PICK g \in Bijection(1..n, S) : TRUE
    BY FS_CardinalityType DEF ExistsBijection
  <1>2. g \in [1..n -> S] /\ IsInjective(g)
    BY <1>1 DEF Bijection, Injection, IsInjective
  <1>3. SetToSeq(S) \in [1..n -> S] /\ IsInjective(SetToSeq(S))
    BY <1>2 DEF SetToSeq
  <1>4. Lists(SetToSeq(S))
    BY <1>3 DEF IsInjective
  <1> QED
    BY <1>3, <1>4, ListingOf

\* The same of any order a set can be put in.
LEMMA SetToSeqsOf ==
    ASSUME NEW S, IsFiniteSet(S), NEW f \in SetToSeqs(S)
    PROVE  /\ f \in Seq(S) /\ DOMAIN f = 1..Len(f) /\ Len(f) \in Nat
           /\ \A i, j \in 1..Len(f) : f[i] = f[j] => i = j
           /\ \A x \in S : \E i \in 1..Len(f) : f[i] = x
  <1>1. f \in [1..Cardinality(S) -> S] /\ \A i, j \in 1..Cardinality(S) : f[i] = f[j] => i = j
    BY DEF SetToSeqs
  <1> QED
    BY <1>1, ListingOf, ZenonT(80)

----------------------------------------------------------------------------
(* The calendar                                                            *)

\* What an operation creates is an event that bears its name.
LEMMA NewEventType ==
    ASSUME NEW op \in Ops, NEW uid \in Nat
    PROVE  /\ NewEvent(op, uid) \in EventRecords /\ NewEvent(op, uid).op = op
           /\ NewEvent(op, uid).keys = {Plan[op].new.key}
  <1>1. Plan[op].new.sched \in Scheds /\ Plan[op].new.key \in Keys /\ op \in Writers
    BY DEF Scheds, Keys, Writers
  <1>2. {Plan[op].new.key} \in FiniteKeys
    BY <1>1, FS_Singleton DEF FiniteKeys
  <1> QED
    BY <1>1, <1>2 DEF NewEvent, Event, EventRecords

\* A delete leaves a calendar, and of each event no more than there was.
LEMMA WithoutType ==
    ASSUME NEW events \in Calendars, NEW target
    PROVE  /\ Without(events, target) \in Calendars
           /\ \A x \in Without(events, target) : \E e \in events :
                x.op = e.op /\ x.keys \subseteq e.keys /\ (x = e \/ x.keys # {})
           /\ \A ops : NoTwo(events, ops) => NoTwo(Without(events, target), ops)
  <1> DEFINE hit == {e \in events : e.uid = target.uid}
             cut == [e \in events |-> Event(e.uid, e.sched, e.op, e.keys \ {target.key})]
             rest == {cut[e] : e \in hit}
             kept == IF target.key = None THEN {} ELSE {e \in rest : e.keys # {}}
  <1>1. events \subseteq EventRecords /\ IsFiniteSet(events)
    BY DEF Calendars
  <1>2. Without(events, target) = (events \ hit) \cup kept
    <2>1. rest = {Event(e.uid, e.sched, e.op, e.keys \ {target.key}) : e \in hit}
      OBVIOUS
    <2> QED
      BY <2>1 DEF Without
  <1>3. ASSUME NEW e \in events
        PROVE  cut[e] \in EventRecords /\ cut[e].op = e.op /\ cut[e].keys \subseteq e.keys
    <2>1. e.keys \ {target.key} \in FiniteKeys
      <3>1. e.keys \in SUBSET Keys /\ IsFiniteSet(e.keys)
        BY <1>1, <1>3 DEF EventRecords, FiniteKeys
      <3>2. IsFiniteSet(e.keys \ {target.key})
        BY <3>1, FS_RemoveElement
      <3> QED
        BY <3>1, <3>2 DEF FiniteKeys
    <2> QED
      BY <1>1, <1>3, <2>1 DEF EventRecords, Event
  <1>4. IsFiniteSet(hit)
    BY <1>1, FS_Subset
  <1>5. IsFiniteSet(rest)
    BY <1>4, FiniteImage
  <1> HIDE DEF cut
  <1>6. kept \subseteq rest /\ rest \subseteq EventRecords
    BY <1>3
  <1>7. IsFiniteSet(kept) /\ IsFiniteSet(events \ hit)
    BY <1>1, <1>5, <1>6, FS_Subset
  <1>8. IsFiniteSet((events \ hit) \cup kept)
    BY <1>7, FS_Union
  <1>9. Without(events, target) \in Calendars
    BY <1>1, <1>2, <1>6, <1>8 DEF Calendars
  <1>10. \A x \in Without(events, target) :
           (x \in events /\ x \notin hit) \/ \E e \in hit : x = cut[e] /\ x.keys # {}
    BY <1>2, <1>6
  <1>11. \A x \in Without(events, target) : \E e \in events :
           x.op = e.op /\ x.keys \subseteq e.keys /\ (x = e \/ x.keys # {})
    BY <1>3, <1>10
  <1>12. ASSUME NEW ops, NoTwo(events, ops) PROVE NoTwo(Without(events, target), ops)
    BY <1>3, <1>10, <1>12 DEF NoTwo
  <1> QED
    BY <1>9, <1>11, <1>12

\* A reading shows a calendar, and every event with an occurrence it is of.
LEMMA VisibleType ==
    ASSUME NEW events \in Calendars, NEW K
    PROVE  /\ Visible(events, K) \in Calendars
           /\ \A x \in Visible(events, K) : \E e \in events : x.op = e.op
           /\ \A e \in events : e.keys \cap K # {} => \E x \in Visible(events, K) : x.op = e.op
  <1> DEFINE hit == {x \in events : x.keys \cap K # {}}
             cut == [e \in events |-> Event(e.uid, e.sched, e.op, e.keys \cap K)]
  <1>1. events \subseteq EventRecords /\ IsFiniteSet(events)
    BY DEF Calendars
  <1>2. Visible(events, K) = {cut[e] : e \in hit}
    BY DEF Visible
  <1>3. ASSUME NEW e \in events
        PROVE  cut[e] \in EventRecords /\ cut[e].op = e.op
    <2>1. e.keys \in SUBSET Keys /\ IsFiniteSet(e.keys)
      BY <1>1, <1>3 DEF EventRecords, FiniteKeys
    <2>2. IsFiniteSet(e.keys \cap K)
      BY <2>1, FS_Subset
    <2>3. e.keys \cap K \in FiniteKeys
      BY <2>1, <2>2 DEF FiniteKeys
    <2> QED
      BY <1>1, <1>3, <2>3 DEF EventRecords, Event
  <1>4. IsFiniteSet(hit)
    BY <1>1, FS_Subset
  <1>5. IsFiniteSet({cut[e] : e \in hit})
    BY <1>4, FiniteImage
  <1> HIDE DEF cut
  <1> QED
    BY <1>2, <1>3, <1>5 DEF Calendars

\* One event more, one less, or one for those of its uid.
LEMMA CalendarType ==
    ASSUME NEW events \in Calendars, NEW e
    PROVE  /\ e \in EventRecords => events \cup {e} \in Calendars
           /\ events \ {e} \in Calendars
           /\ e \in EventRecords => {x \in events : x.uid # e.uid} \cup {e} \in Calendars
  <1>1. events \subseteq EventRecords /\ IsFiniteSet(events)
    BY DEF Calendars
  <1>2. IsFiniteSet(events \cup {e}) /\ IsFiniteSet(events \ {e})
    BY <1>1, FS_AddElement, FS_RemoveElement
  <1>3. IsFiniteSet({x \in events : x.uid # e.uid})
    BY <1>1, FS_Subset
  <1>4. IsFiniteSet({x \in events : x.uid # e.uid} \cup {e})
    BY <1>3, FS_AddElement
  <1> QED
    BY <1>1, <1>2, <1>4 DEF Calendars

\* The occurrences to be guarded are finitely many.
LEMMA HandledType ==
    ASSUME NEW events \in Calendars
    PROVE  /\ IsFiniteSet(Handled(events)) /\ Handled(events) \subseteq Scheds \X Keys
           /\ \A occ \in Handled(events) : occ \notin guarding
  <1> DEFINE shown == [e \in events |-> {e.sched} \X e.keys]
             all == {shown[e] : e \in events}
  <1>1. events \subseteq EventRecords /\ IsFiniteSet(events)
    BY DEF Calendars
  <1>2. ASSUME NEW e \in events
        PROVE  IsFiniteSet(shown[e]) /\ shown[e] \subseteq Scheds \X Keys
    <2>1. e.keys \subseteq Keys /\ IsFiniteSet(e.keys) /\ e.sched \in Scheds
      BY <1>1, <1>2 DEF EventRecords, FiniteKeys
    <2>2. IsFiniteSet({e.sched} \X e.keys)
      BY <2>1, FS_Singleton, FS_Product
    <2> QED
      BY <2>1, <2>2
  <1>3. all = {{e.sched} \X e.keys : e \in events}
    OBVIOUS
  <1> HIDE DEF shown
  <1>4. IsFiniteSet(all)
    BY <1>1, FiniteImage
  <1>5. \A T \in all : IsFiniteSet(T) /\ T \subseteq Scheds \X Keys
    BY <1>2
  <1>6. IsFiniteSet(UNION all) /\ UNION all \subseteq Scheds \X Keys
    BY <1>4, <1>5, FS_UNION
  <1>7. Handled(events) \subseteq UNION all
    BY <1>3 DEF Handled
  <1>8. IsFiniteSet(Handled(events))
    BY <1>6, <1>7, FS_Subset
  <1> QED
    BY <1>6, <1>7, <1>8 DEF Handled

----------------------------------------------------------------------------
(* What each action does                                                   *)

\* The applier's position, rewritten in one or two of its fields.
Same(p) == p.job = pc.job /\ p.step = pc.step
\* Moving on within a job keeps its job, call and step.
LEMMA PcMoves ==
    ASSUME pc \in PcRecords, NEW a \in Points
    PROVE  LET p == [pc EXCEPT !.at = a]
           IN  /\ p \in PcRecords /\ Same(p) /\ p.at = a /\ p.call = pc.call
               /\ p.result = pc.result
  BY DEF PcRecords, Same
\* Deciding a result keeps the job and step it is of.
LEMMA PcDecides ==
    ASSUME pc \in PcRecords, NEW r \in {"applied", "rejected"}
    PROVE  LET p == [pc EXCEPT !.at = "settle", !.result = r]
           IN  p \in PcRecords /\ Same(p) /\ p.at = "settle" /\ p.result = r
  BY DEF PcRecords, Same, Points
\* Issuing a call keeps the job and step it is for.
LEMMA PcCalls ==
    ASSUME pc \in PcRecords, NEW c \in CallRecords
    PROVE  LET p == [pc EXCEPT !.at = "call", !.call = c]
           IN  p \in PcRecords /\ Same(p) /\ p.at = "call" /\ p.call = c
  BY DEF PcRecords, Same, Points
\* A forced reread keeps the job, and its call until the step is planned anew.
LEMMA PcForces ==
    ASSUME pc \in PcRecords
    PROVE  /\ LET p == [pc EXCEPT !.at = "reread", !.forced = TRUE]
              IN  p \in PcRecords /\ Same(p) /\ p.at = "reread" /\ p.call = pc.call
           /\ LET p == [pc EXCEPT !.forced = TRUE]
              IN  p \in PcRecords /\ Same(p) /\ p.at = pc.at /\ p.call = pc.call
  BY DEF PcRecords, Same, Points
\* Going to the second step of a job keeps the job.
LEMMA PcSteps ==
    ASSUME pc \in PcRecords
    PROVE  LET p == [pc EXCEPT !.step = 1]
           IN  p \in PcRecords /\ p.job = pc.job /\ p.step = 1 /\ p.at = pc.at
  BY DEF PcRecords

\* A freshly placed worker is a worker record.
LEMMA AtType ==
    ASSUME NEW a \in Points, NEW job \in Jobs \cup {None}, NEW step \in {0, 1}
    PROVE  LET p == At(a, job, step)
           IN  p \in PcRecords /\ p.at = a /\ p.job = job /\ p.step = step
  BY DEF At, PcRecords

\* So is the idle one.
LEMMA IdleType == IdlePc \in PcRecords /\ IdlePc.at = "idle"
  BY AtType DEF IdlePc, Points

\* A fault is spent, and no other.
LEMMA SpendsEffect ==
    ASSUME CalType, NEW f \in Faults, Spends(f)
    PROVE  /\ left' \in [Faults -> Nat] /\ \A g \in Faults : left'[g] <= Budget[g]
           /\ left'[f] < Budget[f] /\ \A g \in Faults \ {f} : left'[g] = left[g]
  <1>1. /\ left \in [Faults -> Nat] /\ \A g \in Faults : left[g] <= Budget[g] /\ Budget[g] \in Nat
        /\ left[f] > 0 /\ left' = [left EXCEPT ![f] = left[f] - 1]
    BY BoundAssumption DEF CalType, Spends
  <1> QED
    BY <1>1

\* A write that reaches the calendar.
LEMMA WriteEffect ==
    ASSUME CalType, Write, pc.call \in CallRecords, pc.job.op \in Writers,
           pc.call.kind = "create" => pc.job.op \in Ops
    PROVE  /\ cal' \in [events : Calendars, uids : Nat]
           /\ hist' \in [created : SUBSET Ops, deleted : SUBSET Writers, seen : Calendars]
           /\ hist'.seen = hist.seen
           /\ \/ /\ pc.call.kind = "create" /\ pc.job.op \in Ops
                 /\ \E e \in EventRecords : /\ e.op = pc.job.op /\ cal'.events = cal.events \cup {e}
                                            /\ e.keys = {Plan[e.op].new.key}
                 /\ hist'.created = hist.created \cup {pc.job.op} /\ hist'.deleted = hist.deleted
              \/ /\ pc.call.kind # "create"
                 /\ cal'.events = Without(cal.events, pc.call.target)
                 /\ hist'.created = hist.created /\ hist'.deleted = hist.deleted \cup {pc.job.op}
  <1>1. /\ cal \in [events : Calendars, uids : Nat]
        /\ hist \in [created : SUBSET Ops, deleted : SUBSET Writers, seen : Calendars]
    BY DEF CalType
  <1>2. CASE pc.call.kind = "create"
    <2> DEFINE e == NewEvent(pc.job.op, cal.uids + 1)
    <2>1. /\ cal' = [events |-> cal.events \cup {e}, uids |-> cal.uids + 1]
          /\ hist' = [hist EXCEPT !.created = hist.created \cup {pc.job.op}]
      BY <1>2 DEF Write
    <2>2. e \in EventRecords /\ e.op = pc.job.op /\ e.keys = {Plan[e.op].new.key}
      BY <1>1, <1>2, NewEventType
    <2> HIDE DEF e
    <2>3. cal.events \cup {e} \in Calendars
      BY <1>1, <2>2, CalendarType
    <2> QED
      BY <1>1, <1>2, <2>1, <2>2, <2>3
  <1>3. CASE pc.call.kind # "create"
    <2>1. /\ cal' = [cal EXCEPT !.events = Without(cal.events, pc.call.target)]
          /\ hist' = [hist EXCEPT !.deleted = hist.deleted \cup {pc.job.op}]
      BY <1>3 DEF Write
    <2>2. Without(cal.events, pc.call.target) \in Calendars
      BY <1>1, WithoutType
    <2> QED
      BY <1>1, <1>3, <2>1, <2>2
  <1> QED
    BY <1>1, <1>2, <1>3

\* A row's step is written, and nothing else of the journal.
LEMMA RowSteps ==
    ASSUME rows \in RowRecords, NEW op \in Ops
    PROVE  LET r == [rows EXCEPT !.step[op] = 1]
           IN  /\ r \in RowRecords /\ r.state = rows.state /\ r.order = rows.order
               /\ r.step[op] = 1 /\ \A x \in Ops \ {op} : r.step[x] = rows.step[x]
  BY DEF RowRecords

\* A row's state is written, and nothing else of the journal.
LEMMA RowSettles ==
    ASSUME rows \in RowRecords, NEW op \in Ops, NEW s \in States
    PROVE  LET r == [rows EXCEPT !.state[op] = s]
           IN  /\ r \in RowRecords /\ r.step = rows.step /\ r.order = rows.order
               /\ r.state[op] = s /\ \A x \in Ops \ {op} : r.state[x] = rows.state[x]
  BY DEF RowRecords

\* An attempt decides at once, deletes, creates what the view does not show, or
\* goes on to the second step of a snooze whose child the view shows.
AttemptDecides == pc'.at = "settle" /\ pc.job.op \in Ops /\ pc'.step = pc.step /\ rows' = rows
                  /\ pc'.result \in {"applied", "rejected"}
AttemptDeletes == /\ pc'.at = "call" /\ pc'.call \in CallRecords /\ pc'.call.kind # "create"
                  /\ pc'.step = pc.step /\ rows' = rows
                  /\ Snoozes(pc.job.op) => pc.step = 1
AttemptCreates == /\ pc'.at = "call" /\ pc'.call \in CallRecords /\ pc'.call.kind = "create"
                  /\ pc'.step = pc.step /\ rows' = rows
                  /\ pc.job.op \in Ops /\ ~ShowsIt(view.events, pc.job.op)
                  /\ Snoozes(pc.job.op) => pc.step = 0
AttemptSteps == /\ pc'.at = "fresh" /\ pc'.step = 1 /\ rows' = [rows EXCEPT !.step[pc.job.op] = 1]
                /\ pc.job.op \in Ops /\ Snoozes(pc.job.op) /\ ShowsIt(view.events, pc.job.op)
\* What an attempt at a step leaves behind: the job, the view it read, and the call it decides on.
LEMMA AttemptEffect ==
    ASSUME TypeInv, Attempt
    PROVE  /\ pc.at = "fresh" /\ pc.job \in Jobs /\ pc' \in PcRecords /\ pc'.job = pc.job
           /\ view \in ReadRecords /\ newer' \in BOOLEAN
           /\ UNCHANGED <<cal, conn, owed, feed, wire, view, jobs, guarding, hist, left>>
           /\ AttemptDecides \/ AttemptDeletes \/ AttemptCreates \/ AttemptSteps
  <1> DEFINE op == pc.job.op
  <1>1. /\ pc.at = "fresh" /\ pc.job \in Jobs /\ pc \in PcRecords
        /\ view \in ReadRecords /\ newer \in BOOLEAN /\ view.events \in Calendars
    <2>1. pc.at = "fresh" /\ view # None
      BY DEF Attempt, Fresh
    <2>2. pc.at = "fresh" /\ pc.job \in Jobs /\ pc \in PcRecords /\ view \in ReadRecords /\ newer \in BOOLEAN
      BY <2>1 DEF TypeInv, FeedType, ApplierType
    <2> QED
      BY <2>2 DEF ReadRecords
  <1>2. UNCHANGED <<cal, conn, owed, feed, wire, view, jobs, guarding, hist, left>>
    BY DEF Attempt, ha, stream
  <1>3. \A e \in view.events : e.uid \in Nat
    BY <1>1 DEF Calendars, EventRecords
  <1>4. pc.job.target \in Targets /\ op \in Writers
    BY <1>1 DEF Jobs
  <1>5. None \in Targets /\ \A x \in Ops : Plan[x].key \in Keys
    BY DEF Targets, Keys
  <1> DEFINE Done == /\ pc' \in PcRecords /\ pc'.job = pc.job /\ newer' \in BOOLEAN
                     /\ AttemptDecides \/ AttemptDeletes \/ AttemptCreates \/ AttemptSteps
  <1>6. ASSUME NEW r \in {"applied", "rejected"}, Decide(r), op \in Ops PROVE Done
    <2>1. pc' = [pc EXCEPT !.at = "settle", !.result = r] /\ newer' = newer /\ rows' = rows
      BY <1>6 DEF Decide
    <2>2. pc' \in PcRecords /\ Same(pc') /\ pc'.at = "settle" /\ pc'.result = r
      BY <1>1, <2>1, PcDecides
    <2> QED
      BY <1>1, <1>6, <2>1, <2>2 DEF Same, AttemptDecides
  <1>7. ASSUME NEW k \in {"delete", "past"}, NEW t \in Targets, Calls(k, t),
               Snoozes(op) => pc.step = 1
        PROVE  Done
    <2> DEFINE c == [kind |-> k, target |-> t]
    <2>1. c \in CallRecords /\ c.kind # "create"
      BY DEF CallRecords
    <2>2. pc' = [pc EXCEPT !.at = "call", !.call = c] /\ newer' = FALSE /\ rows' = rows
      BY <1>7 DEF Calls
    <2> HIDE DEF c
    <2>3. pc' \in PcRecords /\ Same(pc') /\ pc'.at = "call" /\ pc'.call = c
      BY <1>1, <2>1, <2>2, PcCalls
    <2>4. pc'.job = pc.job /\ pc'.step = pc.step
      BY <2>3 DEF Same
    <2>5. AttemptDeletes
      BY <1>7, <2>1, <2>2, <2>3, <2>4 DEF AttemptDeletes
    <2> QED
      BY <2>2, <2>3, <2>4, <2>5
  <1>8. ASSUME Calls("create", None), op \in Ops, CreatedBy(view.events, op) = {},
               Snoozes(op) => pc.step = 0
        PROVE  Done
    <2> DEFINE c == [kind |-> "create", target |-> None]
    <2>1. c \in CallRecords /\ c.kind = "create"
      BY <1>5 DEF CallRecords
    <2>2. pc' = [pc EXCEPT !.at = "call", !.call = c] /\ newer' = FALSE /\ rows' = rows
      BY <1>8 DEF Calls
    <2> HIDE DEF c
    <2>3. pc' \in PcRecords /\ Same(pc') /\ pc'.at = "call" /\ pc'.call = c
      BY <1>1, <2>1, <2>2, PcCalls
    <2>4. ~ShowsIt(view.events, op)
      BY <1>8 DEF ShowsIt, CreatedBy
    <2>5. pc'.job = pc.job /\ pc'.step = pc.step
      BY <2>3 DEF Same
    <2>6. AttemptCreates
      BY <1>8, <2>1, <2>2, <2>3, <2>4, <2>5 DEF AttemptCreates
    <2> QED
      BY <2>2, <2>3, <2>5, <2>6
  <1>9. ASSUME NEW found \in SUBSET view.events, NEW key \in Keys \cup {None},
               DeletesOrDone(found, key), op \in Ops, Snoozes(op) => pc.step = 1
        PROVE  Done
    <2>1. CASE Decide("applied")
      BY <1>6, <1>9, <2>1
    <2>2. CASE \E e \in found : Calls("delete", TargetOf(e, key))
      <3>1. PICK e \in found : Calls("delete", TargetOf(e, key))
        BY <2>2
      <3>2. TargetOf(e, key) \in Targets
        BY <1>3, <1>9 DEF TargetOf, Targets
      <3> QED
        BY <1>7, <1>9, <3>1, <3>2
    <2> QED
      BY <1>9, <2>1, <2>2 DEF DeletesOrDone
  <1> HIDE DEF Done
  <1>10. CASE op = None /\ Calls("delete", pc.job.target)
    <2>1. ~Snoozes(op)
      BY <1>10 DEF Snoozes
    <2>2. Done
      BY <1>4, <1>7, <1>10, <2>1
    <2> QED
      BY <1>1, <1>2, <2>2 DEF Done
  <1>11. CASE op # None
    <2>1. op \in Ops
      BY <1>4, <1>11 DEF Writers
    <2>2. CASE Plan[op].action = "create" /\ Create(op)
      <3>1. ~Snoozes(op)
        BY <2>2 DEF Snoozes
      <3>2. CASE CreatedBy(view.events, op) # {}
        <4>1. Decide("applied")
          BY <2>2, <3>2 DEF Create
        <4> QED
          BY <1>6, <2>1, <4>1, <1>1, <1>2 DEF Done
      <3>3. CASE CreatedBy(view.events, op) = {}
        <4>1. Calls("create", None)
          BY <2>2, <3>3 DEF Create
        <4> QED
          BY <1>8, <2>1, <3>1, <3>3, <4>1, <1>1, <1>2 DEF Done
      <3> QED
        BY <3>2, <3>3
    <2>3. CASE Plan[op].action = "cancel" /\ Cancel(op)
      <3>1. ~Snoozes(op)
        BY <2>3 DEF Snoozes
      <3>2. ScheduleUid(view.events, Plan[op].sched) \in SUBSET view.events
        BY DEF ScheduleUid
      <3>3. DeletesOrDone(ScheduleUid(view.events, Plan[op].sched), None)
        BY <2>3 DEF Cancel
      <3> QED
        BY <1>9, <2>1, <3>1, <3>2, <3>3, <1>1, <1>2 DEF Done
    <2>4. CASE Plan[op].action = "dismiss" /\ DeleteOccurrence(op)
      <3>1. ~Snoozes(op)
        BY <2>4 DEF Snoozes
      <3>2. Finds(view.events, Plan[op].sched, Plan[op].key) \in SUBSET view.events
        BY DEF Finds
      <3>3. CASE DeletesOrDone(Finds(view.events, Plan[op].sched, Plan[op].key), Plan[op].key)
        BY <1>5, <1>9, <2>1, <3>1, <3>2, <3>3, <1>1, <1>2 DEF Done
      <3>4. CASE \E e \in Finds(cal.events, Plan[op].sched, Plan[op].key) :
                   Calls("past", TargetOf(e, Plan[op].key))
        <4>1. PICK e \in cal.events : Calls("past", TargetOf(e, Plan[op].key))
          BY <3>4 DEF Finds
        <4>2. e.uid \in Nat
          BY DEF TypeInv, CalType, Calendars, EventRecords
        <4>3. TargetOf(e, Plan[op].key) \in Targets
          BY <1>5, <2>1, <4>2 DEF TargetOf, Targets
        <4> QED
          BY <1>7, <3>1, <4>1, <4>3, <1>1, <1>2 DEF Done
      <3> QED
        BY <2>4, <3>3, <3>4 DEF DeleteOccurrence
    <2>5. CASE Plan[op].action = "snooze" /\ Snooze(op)
      <3>1. CASE pc.step = 0 /\ CreatedBy(view.events, op) = {} /\ Decide("rejected")
        BY <1>6, <2>1, <3>1, <1>1, <1>2 DEF Done
      <3>2. CASE pc.step = 0 /\ CreatedBy(view.events, op) = {} /\ Calls("create", None)
        BY <1>8, <2>1, <3>2, <1>1, <1>2 DEF Done
      <3>3. CASE /\ CreatedBy(view.events, op) # {} /\ pc' = [pc EXCEPT !.step = 1]
                 /\ rows' = [rows EXCEPT !.step[op] = 1] /\ newer' = newer
        <4>1. pc' \in PcRecords /\ pc'.job = pc.job /\ pc'.step = 1 /\ pc'.at = "fresh"
          BY <1>1, <3>3, PcSteps
        <4>2. ShowsIt(view.events, op)
          BY <3>3 DEF ShowsIt, CreatedBy
        <4>3. Snoozes(op)
          BY <1>11, <2>5 DEF Snoozes
        <4>4. AttemptSteps
          BY <2>1, <3>3, <4>1, <4>2, <4>3 DEF AttemptSteps
        <4> QED
          BY <1>1, <1>2, <3>3, <4>1, <4>4
      <3>4. CASE pc.step = 1 /\ DeletesOrDone(Finds(view.events, Plan[op].sched, Plan[op].key), Plan[op].key)
        <4>1. Finds(view.events, Plan[op].sched, Plan[op].key) \in SUBSET view.events
          BY DEF Finds
        <4> QED
          BY <1>5, <1>9, <2>1, <3>4, <4>1, <1>1, <1>2 DEF Done
      <3> QED
        BY <2>5, <3>1, <3>2, <3>3, <3>4 DEF Snooze
    <2> QED
      BY <1>11, <2>2, <2>3, <2>4, <2>5 DEF Attempt
  <1> QED
    BY <1>10, <1>11 DEF Attempt

\* However a call ends, a guard job is done with it and an operation goes on; if
\* it created and every call was answered so far, it goes on to be confirmed.
GuardEnds == /\ pc.job.op = None /\ pc' = IdlePc /\ rows' = rows
             /\ guarding' = guarding \ {pc.job.occ}
OpGoesOn == /\ pc.job.op \in Ops /\ Same(pc') /\ guarding' = guarding
            /\ pc'.at \in {"confirm", "reread", "settle", "fresh"}
            /\ pc'.at = "settle" => pc'.result \in {"applied", "rejected"}
            /\ pc'.at \in {"confirm", "reread"} => pc'.call \in CallRecords
            /\ \/ rows' = rows
               \/ /\ Plan[pc.job.op].action = "create"
                  /\ rows' = [rows EXCEPT !.step[pc.job.op] = 1]
Wrote == /\ Write
         /\ pc.call.kind = "create" /\ left'["unknown"] = Budget["unknown"] => pc'.at = "confirm"
\* What the three outcomes of a calendar call leave behind.
LEMMA CallEffect ==
    ASSUME TypeInv, CallAnswered \/ NotDispatched \/ Unanswered
    PROVE  /\ pc.at = "call" /\ pc.job \in Jobs /\ pc.call \in CallRecords
           /\ pc.call.kind = "create" => pc.job.op \in Ops
           /\ pc' \in PcRecords /\ conn' = conn /\ owed' \in BOOLEAN
           /\ UNCHANGED <<feed, wire, view, newer, jobs>>
           /\ \/ left' = left
              \/ \E f \in {"unknown", "refused"} : Spends(f)
           /\ GuardEnds \/ OpGoesOn
           /\ Wrote \/ (cal' = cal /\ hist' = hist)
  <1> DEFINE op == pc.job.op
  <1>1. pc.at = "call"
    BY DEF CallAnswered, NotDispatched, Unanswered
  <1>2. /\ pc.job \in Jobs /\ pc.call \in CallRecords /\ pc \in PcRecords
        /\ pc.call.kind = "create" => pc.job.op \in Ops
        /\ owed \in BOOLEAN
    BY <1>1 DEF TypeInv, ApplierType, CalType
  <1>3. op \in Ops \/ op = None
    BY <1>2 DEF Jobs, Writers
  <1>4. UNCHANGED <<feed, wire, view, newer, jobs>> /\ conn' = conn
    BY DEF CallAnswered, NotDispatched, Unanswered, ha, stream
  <1>5. None \notin Ops
    BY PlanAssumption
  <1>6. ASSUME op = None, GuardDone PROVE GuardEnds /\ pc' \in PcRecords
    <2>1. pc' = IdlePc /\ guarding' = guarding \ {pc.job.occ} /\ rows' = rows
      BY <1>6 DEF GuardDone
    <2> QED
      BY <1>6, <2>1, IdleType DEF GuardEnds
  <1> DEFINE Moves(a) == /\ pc' \in PcRecords /\ Same(pc') /\ pc'.at = a
                         /\ a = "settle" => pc'.result \in {"applied", "rejected"}
                         /\ a \in {"confirm", "reread"} => pc'.call \in CallRecords
  <1>7. ASSUME NEW a \in {"confirm", "reread", "fresh"}, Next1(a) PROVE Moves(a)
    <2>1. pc' = [pc EXCEPT !.at = a] /\ a \in Points
      BY <1>7 DEF Next1, Points
    <2>2. pc' \in PcRecords /\ Same(pc') /\ pc'.at = a /\ pc'.call = pc.call
      BY <1>2, <2>1, PcMoves
    <2> QED
      BY <1>2, <2>2
  <1>8. ASSUME NEW res \in {"applied", "rejected"}, Result(res) PROVE Moves("settle")
    <2>1. pc' = [pc EXCEPT !.at = "settle", !.result = res]
      BY <1>8 DEF Result
    <2>2. pc' \in PcRecords /\ Same(pc') /\ pc'.at = "settle" /\ pc'.result = res
      BY <1>2, <2>1, PcDecides
    <2> QED
      BY <1>8, <2>2
  <1>9. ASSUME pc' = [pc EXCEPT !.at = "reread", !.forced = TRUE] PROVE Moves("reread")
    <2>1. pc' \in PcRecords /\ Same(pc') /\ pc'.at = "reread" /\ pc'.call = pc.call
      BY <1>2, <1>9, PcForces
    <2> QED
      BY <1>2, <2>1
  <1>14. ASSUME pc' = At("fresh", pc.job, pc.step) PROVE Moves("fresh")
    <2>1. pc.step \in {0, 1} /\ "fresh" \in Points
      BY <1>2 DEF PcRecords, Points
    <2> QED
      BY <1>2, <1>14, <2>1, AtType DEF Same
  <1>10. ASSUME NEW a \in {"confirm", "reread", "fresh", "settle"}, Moves(a), op \in Ops,
                guarding' = guarding,
                rows' = rows \/ (Plan[op].action = "create" /\ rows' = [rows EXCEPT !.step[op] = 1])
         PROVE  OpGoesOn /\ pc' \in PcRecords
    BY <1>10 DEF OpGoesOn
  <1> HIDE DEF Moves
  <1> DEFINE Ends == GuardEnds \/ OpGoesOn
  <1>11. CASE CallAnswered
    <2>1. CASE /\ Write /\ owed' = TRUE /\ left' = left
               /\ IF op = None THEN GuardDone
                  ELSE /\ IF pc.call.kind = "past" THEN Result("applied") ELSE Next1("confirm")
                       /\ guarding' = guarding
                       /\ rows' = IF Plan[op].action = "create"
                                  THEN [rows EXCEPT !.step[op] = 1] ELSE rows
      <3>1. CASE op = None
        <4>1. Wrote
          BY <1>2, <1>5, <2>1, <3>1 DEF Wrote
        <4> QED
          BY <1>1, <1>2, <1>4, <1>6, <2>1, <3>1, <4>1
      <3>2. CASE op # None
        <4>1. /\ (Result("applied") /\ pc.call.kind = "past") \/ Next1("confirm")
              /\ guarding' = guarding
              /\ (rows' = rows \/ (Plan[op].action = "create" /\ rows' = [rows EXCEPT !.step[op] = 1]))
          BY <2>1, <3>2
        <4>2. (Moves("confirm") \/ (Moves("settle") /\ pc.call.kind = "past")) /\ op \in Ops
          BY <1>3, <1>7, <1>8, <3>2, <4>1
        <4>3. OpGoesOn /\ pc' \in PcRecords
          BY <1>10, <4>1, <4>2
        <4>4. pc.call.kind = "create" => pc'.at = "confirm"
          BY <4>2 DEF Moves
        <4>5. Wrote
          BY <2>1, <4>4 DEF Wrote
        <4> QED
          BY <1>1, <1>2, <1>4, <2>1, <4>3, <4>5
      <3> QED
        BY <3>1, <3>2
    <2>2. CASE /\ cal' = cal /\ owed' = owed /\ hist' = hist /\ left' = left
               /\ IF op = None THEN GuardDone ELSE Refused("applied")
      <3>1. CASE op = None
        BY <1>1, <1>2, <1>4, <1>6, <2>2, <3>1
      <3>2. CASE op # None
        <4>1. rows' = rows /\ guarding' = guarding
              /\ (Next1("reread") \/ Result("applied") \/ Result("rejected"))
          BY <1>2, <2>2, <3>2 DEF Refused, CallRecords
        <4>2. (Moves("reread") \/ Moves("settle")) /\ op \in Ops
          BY <1>3, <1>7, <1>8, <3>2, <4>1
        <4>3. OpGoesOn /\ pc' \in PcRecords
          BY <1>10, <4>1, <4>2
        <4> QED
          BY <1>1, <1>2, <1>4, <2>2, <4>3
      <3> QED
        BY <3>1, <3>2
    <2>3. CASE /\ Spends("refused") /\ cal' = cal /\ owed' = owed /\ hist' = hist
               /\ IF op = None THEN GuardDone ELSE Refused("rejected")
      <3>1. CASE op = None
        BY <1>1, <1>2, <1>4, <1>6, <2>3, <3>1
      <3>2. CASE op # None
        <4>1. rows' = rows /\ guarding' = guarding
              /\ (Next1("reread") \/ Result("rejected"))
          BY <1>2, <2>3, <3>2 DEF Refused, CallRecords
        <4>2. (Moves("reread") \/ Moves("settle")) /\ op \in Ops
          BY <1>3, <1>7, <1>8, <3>2, <4>1
        <4>3. OpGoesOn /\ pc' \in PcRecords
          BY <1>10, <4>1, <4>2
        <4> QED
          BY <1>1, <1>2, <1>4, <2>3, <4>3
      <3> QED
        BY <3>1, <3>2
    <2> QED
      BY <1>11, <2>1, <2>2, <2>3 DEF CallAnswered
  <1>12. CASE NotDispatched
    <2>1. cal' = cal /\ hist' = hist /\ owed' = owed /\ left' = left
      BY <1>12 DEF NotDispatched, ha
    <2>2. CASE op = None
      <3>1. GuardDone
        BY <1>12, <2>2 DEF NotDispatched
      <3> QED
        BY <1>1, <1>2, <1>4, <1>6, <2>1, <2>2, <3>1
    <2>3. CASE op # None
      <3>1. Next1("fresh") /\ guarding' = guarding /\ rows' = rows
        BY <1>12, <2>3 DEF NotDispatched
      <3>2. Moves("fresh") /\ op \in Ops
        BY <1>3, <1>7, <2>3, <3>1
      <3>3. OpGoesOn /\ pc' \in PcRecords
        BY <1>10, <3>1, <3>2
      <3> QED
        BY <1>1, <1>2, <1>4, <2>1, <3>3
    <2> QED
      BY <2>2, <2>3
  <1>13. CASE Unanswered
    <2>1. Spends("unknown") /\ ((Write /\ owed' = TRUE) \/ (cal' = cal /\ hist' = hist /\ owed' = owed))
      BY <1>13 DEF Unanswered
    <2>2. left'["unknown"] # Budget["unknown"]
      <3>1. CalType /\ "unknown" \in Faults
        BY DEF TypeInv, Faults
      <3>2. left'["unknown"] < Budget["unknown"] /\ left'["unknown"] \in Nat
        BY <2>1, <3>1, SpendsEffect
      <3> QED
        BY <3>1, <3>2, BoundAssumption
    <2>3. /\ owed' \in BOOLEAN
          /\ Wrote \/ (cal' = cal /\ hist' = hist)
      BY <1>2, <2>1, <2>2 DEF Wrote
    <2>4. CASE op = None
      <3>1. GuardDone
        BY <1>13, <2>4 DEF Unanswered
      <3> QED
        BY <1>1, <1>2, <1>4, <1>6, <2>1, <2>3, <2>4, <3>1
    <2>5. CASE op # None
      <3>1. /\ pc' = [pc EXCEPT !.at = "reread", !.forced = TRUE] \/ pc' = At("fresh", pc.job, pc.step)
            /\ guarding' = guarding /\ rows' = rows
        BY <1>13, <2>5 DEF Unanswered
      <3>2. (Moves("reread") \/ Moves("fresh")) /\ op \in Ops
        BY <1>3, <1>9, <1>14, <2>5, <3>1
      <3>3. OpGoesOn /\ pc' \in PcRecords
        BY <1>10, <3>1, <3>2
      <3> QED
        BY <1>1, <1>2, <1>4, <2>1, <2>3, <3>3
    <2> QED
      BY <2>4, <2>5
  <1> QED
    BY <1>11, <1>12, <1>13

\* A confirmed child brings a snooze to its second step; else the operation is
\* settled, or waits for the read it forced.
LEMMA ConfirmEffect ==
    ASSUME TypeInv, Confirm
    PROVE  /\ pc.at = "confirm" /\ pc.job \in Jobs /\ pc.job.op \in Ops
           /\ pc' \in PcRecords /\ pc'.job = pc.job
           /\ UNCHANGED <<cal, conn, owed, feed, wire, view, newer, jobs, guarding, hist, left>>
           /\ \/ /\ pc'.at = "fresh" /\ pc'.step = 1 /\ Snoozes(pc.job.op)
                 /\ rows' = [rows EXCEPT !.step[pc.job.op] = 1]
                 /\ view # None /\ ShowsIt(view.events, pc.job.op)
              \/ /\ pc'.at \in {"confirm", "settle"} /\ pc'.step = pc.step /\ rows' = rows
                 /\ pc'.at = "settle" => pc'.result \in {"applied", "rejected"}
                 /\ pc'.at = "confirm" => pc'.call \in CallRecords
  <1> DEFINE op == pc.job.op
  <1>1. pc.at = "confirm"
    BY DEF Confirm
  <1>2. pc.job \in Jobs /\ pc.call \in CallRecords /\ pc \in PcRecords /\ op \in Ops
    BY <1>1 DEF TypeInv, ApplierType
  <1>3. UNCHANGED <<cal, conn, owed, feed, wire, view, newer, jobs, guarding, hist, left>>
    BY DEF Confirm, ha, stream
  <1>4. ASSUME NEW r \in {"applied", "rejected"}, pc' = [pc EXCEPT !.at = "settle", !.result = r]
        PROVE  /\ pc' \in PcRecords /\ pc'.job = pc.job /\ pc'.step = pc.step
               /\ pc'.at = "settle" /\ pc'.result \in {"applied", "rejected"}
    <2>1. pc' \in PcRecords /\ Same(pc') /\ pc'.at = "settle" /\ pc'.result = r
      BY <1>2, <1>4, PcDecides
    <2> QED
      BY <2>1 DEF Same
  <1>5. CASE Confirmed
    <2>1. CASE Plan[op].action = "snooze" /\ pc.call.kind = "create"
      <3>1. pc' = At("fresh", pc.job, 1) /\ rows' = [rows EXCEPT !.step[op] = 1]
        BY <1>5, <2>1 DEF Confirm
      <3>2. pc' \in PcRecords /\ pc'.at = "fresh" /\ pc'.job = pc.job /\ pc'.step = 1
        BY <1>2, <3>1, AtType DEF Points
      <3>3. view # None /\ ShowsIt(view.events, op)
        BY <1>5, <2>1 DEF Confirmed, Shown, CreatedBy, ShowsIt
      <3>4. Snoozes(op)
        BY <1>2, <2>1, PlanAssumption DEF Snoozes
      <3> QED
        BY <1>1, <1>2, <1>3, <3>1, <3>2, <3>3, <3>4
    <2>2. CASE ~(Plan[op].action = "snooze" /\ pc.call.kind = "create")
      <3>1. pc' = [pc EXCEPT !.at = "settle", !.result = "applied"] /\ rows' = rows
        BY <1>5, <2>2 DEF Confirm
      <3> QED
        BY <1>1, <1>2, <1>3, <1>4, <3>1
    <2> QED
      BY <2>1, <2>2
  <1>6. CASE ~Confirmed
    <2>1. rows' = rows /\ (pc' = [pc EXCEPT !.forced = TRUE]
                           \/ pc' = [pc EXCEPT !.at = "settle", !.result = "rejected"])
      BY <1>6 DEF Confirm
    <2>2. CASE pc' = [pc EXCEPT !.forced = TRUE]
      <3>1. pc' \in PcRecords /\ Same(pc') /\ pc'.at = pc.at /\ pc'.call = pc.call
        BY <1>2, <2>2, PcForces
      <3> QED
        BY <1>1, <1>2, <1>3, <2>1, <3>1 DEF Same
    <2>3. CASE pc' = [pc EXCEPT !.at = "settle", !.result = "rejected"]
      BY <1>1, <1>2, <1>3, <1>4, <2>1, <2>3
    <2> QED
      BY <2>1, <2>2, <2>3
  <1> QED
    BY <1>5, <1>6

\* After a fresh read the operation is tried again or settled.
LEMMA RereadEffect ==
    ASSUME TypeInv, RereadDone
    PROVE  /\ pc.at = "reread" /\ pc.job \in Jobs /\ pc.job.op \in Ops
           /\ pc' \in PcRecords /\ Same(pc') /\ pc'.at \in {"fresh", "settle"}
           /\ pc'.at = "settle" => pc'.result \in {"applied", "rejected"}
           /\ UNCHANGED <<cal, conn, owed, feed, wire, view, newer, rows, jobs, guarding, hist, left>>
  <1>1. pc.at = "reread"
    BY DEF RereadDone
  <1>2. pc.job \in Jobs /\ pc \in PcRecords /\ pc.job.op \in Ops /\ pc.step \in {0, 1}
    BY <1>1 DEF TypeInv, ApplierType, PcRecords
  <1>3. UNCHANGED <<cal, conn, owed, feed, wire, view, newer, rows, jobs, guarding, hist, left>>
    BY DEF RereadDone, ha, service, stream
  <1>4. CASE pc.forced
    <2>1. pc' = At("fresh", pc.job, pc.step)
      BY <1>4 DEF RereadDone
    <2>2. pc' \in PcRecords /\ pc'.at = "fresh" /\ pc'.job = pc.job /\ pc'.step = pc.step
      BY <1>2, <2>1, AtType DEF Points
    <2> QED
      BY <1>1, <1>2, <1>3, <2>2 DEF Same
  <1>5. CASE ~pc.forced
    <2> DEFINE r == IF Confirmed THEN "applied" ELSE "rejected"
    <2>1. pc' = [pc EXCEPT !.at = "settle", !.result = r] /\ r \in {"applied", "rejected"}
      BY <1>5 DEF RereadDone
    <2> HIDE DEF r
    <2>2. pc' \in PcRecords /\ Same(pc') /\ pc'.at = "settle" /\ pc'.result = r
      BY <1>2, <2>1, PcDecides
    <2> QED
      BY <1>1, <1>2, <1>3, <2>1, <2>2
  <1> QED
    BY <1>4, <1>5

\* A new operation joins the journal and the queue.
LEMMA JournalEffect ==
    ASSUME TypeInv, NEW op \in Ops, Journal(op)
    PROVE  /\ rows.state[op] = "none" /\ rows' \in RowRecords /\ rows'.step = rows.step
           /\ rows'.state[op] = "pending" /\ \A x \in Ops \ {op} : rows'.state[x] = rows.state[x]
           /\ rows.order \in Seq(Ops) /\ rows'.order = Append(rows.order, op)
           /\ OpJob(op) \in Jobs /\ OpJob(op).op = op /\ jobs' = Append(jobs, OpJob(op))
           /\ UNCHANGED <<cal, conn, owed, feed, wire, view, newer, guarding, pc, hist, left>>
  <1>1. rows \in RowRecords
    BY DEF TypeInv, ApplierType
  <1>2. rows.order \in Seq(Ops) /\ rows.state \in [Ops -> States] /\ rows.step \in [Ops -> {0, 1}]
    BY <1>1 DEF RowRecords
  <1> DEFINE order == Append(rows.order, op)
  <1>3. order \in Seq(Ops)
    BY <1>2, AppendOf
  <1>4. rows' = [rows EXCEPT !.state[op] = "pending", !.order = order]
    BY DEF Journal
  <1> HIDE DEF order
  <1>5. /\ rows' \in RowRecords /\ rows'.step = rows.step /\ rows'.order = order
        /\ rows'.state = [rows.state EXCEPT ![op] = "pending"]
    BY <1>1, <1>3, <1>4 DEF RowRecords, States
  <1>6. rows'.state[op] = "pending" /\ \A x \in Ops \ {op} : rows'.state[x] = rows.state[x]
    BY <1>2, <1>5
  <1>7. OpJob(op) \in Jobs /\ OpJob(op).op = op
    BY DEF OpJob, Jobs, Writers, Targets
  <1>8. /\ rows.state[op] = "none" /\ jobs' = Append(jobs, OpJob(op))
        /\ UNCHANGED <<cal, conn, owed, feed, wire, view, newer, guarding, pc, hist, left>>
    BY DEF Journal, ha, stream
  <1> QED
    BY <1>2, <1>5, <1>6, <1>7, <1>8 DEF order

\* Jobs queued behind others come after them, in their order.
LEMMA JobsJoined ==
    ASSUME NEW p \in Seq(Jobs), NEW q \in Seq(Jobs)
    PROVE  /\ p \o q \in Seq(Jobs) /\ Len(p) \in Nat /\ Len(q) \in Nat
           /\ Len(p \o q) = Len(p) + Len(q)
           /\ \A k \in 1..Len(p) : (p \o q)[k] = p[k]
           /\ \A i \in 1..Len(q) : (p \o q)[Len(p) + i] = q[i] /\ Len(p) + i \in 1..Len(p \o q)
           /\ \A k \in 1..Len(p \o q) : k \in 1..Len(p) \/ \E i \in 1..Len(q) : k = Len(p) + i
  BY ConcatOf, ZenonT(120)

\* The guard queues one job for each handled occurrence.
LEMMA GuardJobsEffect ==
    ASSUME NEW events \in Calendars, GuardJobs(events), jobs \in Seq(Jobs)
    PROVE  \E q \in Seq(Jobs) :
             /\ jobs' = jobs \o q
             /\ \A i \in 1..Len(q) : q[i].op = None /\ q[i].occ \in Handled(events)
             /\ \A i, j \in 1..Len(q) : q[i].occ = q[j].occ => i = j
             /\ \A occ \in Handled(events) : \E i \in 1..Len(q) : q[i].occ = occ
  <1> DEFINE H == Handled(events)
             order == SetToSeq(H)
  <1>1. IsFiniteSet(H) /\ H \subseteq Scheds \X Keys
    BY HandledType
  <1>2. /\ order \in Seq(H) /\ DOMAIN order = 1..Len(order) /\ Len(order) \in Nat
        /\ \A i, j \in 1..Len(order) : order[i] = order[j] => i = j
        /\ \A x \in H : \E i \in 1..Len(order) : order[i] = x
    BY <1>1, SetToSeqOf
  <1>3. PICK by \in [H -> events] :
          jobs' = jobs \o [i \in DOMAIN order |-> GuardJob(by[order[i]], order[i])]
    BY DEF GuardJobs
  <1> HIDE DEF order
  <1> DEFINE q == [i \in 1..Len(order) |-> GuardJob(by[order[i]], order[i])]
  <1>4. jobs' = jobs \o q
    BY <1>2, <1>3
  <1>5. \A i \in 1..Len(order) : order[i] \in H
    BY <1>2, ElementOfSeq
  <1>6. ASSUME NEW occ \in H
        PROVE  LET g == GuardJob(by[occ], occ)
               IN  g \in Jobs /\ g.op = None /\ g.occ = occ
    <2>1. by[occ] \in EventRecords
      BY <1>3, <1>6 DEF Calendars
    <2>2. by[occ].uid \in Nat /\ occ \in Scheds \X Keys
      BY <1>1, <1>6, <2>1 DEF EventRecords
    <2>3. (IF Cancelled(occ[1]) THEN None ELSE occ[2]) \in Keys \cup {None}
      BY <2>2
    <2>4. TargetOf(by[occ], IF Cancelled(occ[1]) THEN None ELSE occ[2]) \in Targets
      BY <2>2, <2>3 DEF TargetOf, Targets
    <2> QED
      BY <2>2, <2>4 DEF GuardJob, Jobs, Writers
  <1>7. q \in [1..Len(order) -> Jobs]
        /\ \A i \in 1..Len(order) : q[i].op = None /\ q[i].occ = order[i]
    BY <1>5, <1>6
  <1> HIDE DEF q
  <1>8. q \in Seq(Jobs) /\ Len(q) = Len(order)
    BY <1>2, <1>7, SeqDef, LenProperties
  <1>9. \A i \in 1..Len(q) : q[i].op = None /\ q[i].occ = order[i] /\ order[i] \in H
    BY <1>5, <1>7, <1>8
  <1>10. \A i, j \in 1..Len(q) : q[i].occ = q[j].occ => i = j
    BY <1>2, <1>8, <1>9
  <1>11. \A occ \in H : \E i \in 1..Len(q) : q[i].occ = occ
    BY <1>2, <1>8, <1>9
  <1> QED
    BY <1>4, <1>8, <1>9, <1>10, <1>11

AllRead(read) == read.events \cup read.backlog
\* A push becomes the view, and what it brings back is queued for the guard.
LEMMA PublishEffect ==
    ASSUME TypeInv, Publish
    PROVE  /\ wire # <<>> /\ wire[1] \in ReadRecords /\ AllRead(wire[1]) \in Calendars
           /\ view' \in ReadRecords /\ view'.events = wire[1].events
           /\ newer' = TRUE /\ wire' = Tail(wire)
           /\ GuardJobs(AllRead(wire[1]))
           /\ guarding' = guarding \cup Handled(AllRead(wire[1]))
           /\ UNCHANGED <<cal, conn, owed, feed, rows, pc, hist, left>>
  <1>1. wire # <<>> /\ wire \in Seq(ReadRecords)
    BY DEF Publish, TypeInv, FeedType
  <1>2. Head(wire) = wire[1] /\ wire[1] \in ReadRecords
    BY <1>1, TailOf
  <1>3. wire[1].events \in Calendars /\ wire[1].backlog \in Calendars /\ {} \in Calendars
    BY <1>2, FS_EmptySet DEF ReadRecords, Calendars
  <1>4. AllRead(wire[1]) \in Calendars
    BY <1>3, FS_Union DEF AllRead, Calendars
  <1>5. view' = [wire[1] EXCEPT !.backlog = {}]
    BY <1>2 DEF Publish
  <1>6. view' \in ReadRecords /\ view'.events = wire[1].events
    BY <1>2, <1>3, <1>5 DEF ReadRecords
  <1> QED
    BY <1>1, <1>2, <1>4, <1>6 DEF Publish, ha, AllRead, stream

\* A push shows the calendar in a window there has been.
FreshRead(read) == \E w \in 1..now : read.events = Visible(cal.events, Windows[w])
\* What the feed, the connection and the time do leaves the applier alone.
LEMMA FeedEffect ==
    ASSUME TypeInv, TimePasses \/ Disconnect \/ Connect \/ Subscribe \/ Push \/ EndFeed
    PROVE  /\ UNCHANGED <<cal, newer, rows, jobs, guarding, pc, hist>>
           /\ conn' \in BOOLEAN /\ owed' \in BOOLEAN
           /\ left' = left \/ \E f \in {"down", "refused"} : Spends(f)
           /\ \/ wire' = wire /\ view' = view
              \/ /\ wire' = [i \in DOMAIN wire |-> Outdated(wire[i])]
                 /\ view' = IF view = None THEN None ELSE Outdated(view)
              \/ /\ \E read \in ReadRecords : FreshRead(read) /\ wire' = Append(wire, read)
                 /\ Len(wire) < MaxWire /\ view' = view
  <1>1. /\ conn \in BOOLEAN /\ owed \in BOOLEAN /\ cal.events \in Calendars
        /\ now \in 1..Len(Windows) /\ frame \in 1..now /\ {} \in Calendars
        /\ now \in 1..now /\ now \in Nat /\ frame \in Nat
    BY FS_EmptySet, WindowAssumption DEF TypeInv, CalType, TimeType, Calendars
  <1>7. ASSUME NEW w \in 1..now, NEW back \in Calendars
        PROVE  Read(w, back) \in ReadRecords /\ FreshRead(Read(w, back))
    <2>1. Visible(cal.events, Windows[w]) \in Calendars
      BY <1>1, VisibleType
    <2>2. w \in Nat
      BY <1>1, <1>7
    <2> QED
      BY <1>7, <2>1, <2>2 DEF Read, ReadRecords, FreshRead
  <1>2. CASE Disconnect
    BY <1>1, <1>2 DEF Disconnect
  <1>3. CASE Connect
    BY <1>1, <1>3 DEF Connect, service
  <1>4. CASE Subscribe
    <2>1. PICK back \in Calendars : Reads(now, back)
      BY <1>1, <1>4, VisibleType DEF Subscribe
    <2>2. FreshRead(Read(now, back)) /\ Read(now, back) \in ReadRecords
      BY <1>1, <1>7
    <2> QED
      BY <1>1, <1>4, <2>1, <2>2 DEF Subscribe, Reads, service
  <1>5. CASE Push
    <2>1. FreshRead(Read(frame, {})) /\ Read(frame, {}) \in ReadRecords
      BY <1>1, <1>7
    <2> QED
      BY <1>1, <1>5, <2>1 DEF Push, Reads, service
  <1>8. CASE TimePasses
    BY <1>1, <1>8 DEF TimePasses, service
  <1>6. CASE EndFeed
    BY <1>1, <1>6 DEF EndFeed, service, ha
  <1> QED
    BY <1>2, <1>3, <1>4, <1>5, <1>6, <1>8

\* The applier takes the first job of the queue.
LEMMA TakeEffect ==
    ASSUME TypeInv, Take
    PROVE  /\ pc.at = "idle" /\ jobs # <<>> /\ jobs[1] \in Jobs /\ jobs' = Tail(jobs)
           /\ pc' \in PcRecords /\ pc'.at = "fresh" /\ pc'.job = jobs[1]
           /\ jobs[1].op # None => pc'.step = rows.step[jobs[1].op]
           /\ UNCHANGED <<cal, conn, owed, feed, wire, view, newer, rows, guarding, hist, left>>
  <1>1. pc.at = "idle" /\ jobs # <<>> /\ jobs \in Seq(Jobs) /\ rows \in RowRecords
    BY DEF Take, TypeInv, ApplierType
  <1>2. Head(jobs) = jobs[1] /\ jobs[1] \in Jobs
    BY <1>1, TailOf
  <1> DEFINE job == jobs[1]
             step == IF job.op = None THEN 0 ELSE rows.step[job.op]
  <1>3. pc' = At("fresh", job, step) /\ jobs' = Tail(jobs)
    BY <1>2 DEF Take
  <1>4. job.op \in Writers
    BY <1>2 DEF Jobs
  <1>5. step \in {0, 1}
    BY <1>1, <1>4 DEF Writers, RowRecords
  <1>6. job.op # None => step = rows.step[job.op]
    OBVIOUS
  <1>7. UNCHANGED <<cal, conn, owed, feed, wire, view, newer, rows, guarding, hist, left>>
    BY DEF Take, ha, stream
  <1> HIDE DEF step
  <1>8. pc' \in PcRecords /\ pc'.at = "fresh" /\ pc'.job = job /\ pc'.step = step
    BY <1>2, <1>3, <1>5, AtType DEF Points
  <1> QED
    BY <1>1, <1>2, <1>3, <1>6, <1>7, <1>8

\* The applier settles its operation and is idle.
LEMMA SettleEffect ==
    ASSUME TypeInv, Settle
    PROVE  /\ pc.at = "settle" /\ pc.job \in Jobs /\ pc.job.op \in Ops
           /\ pc' = IdlePc /\ pc' \in PcRecords /\ pc'.at = "idle"
           /\ rows' \in RowRecords /\ rows'.step = rows.step /\ rows'.order = rows.order
           /\ rows'.state[pc.job.op] \in {"applied", "rejected"}
           /\ \A x \in Ops \ {pc.job.op} : rows'.state[x] = rows.state[x]
           /\ UNCHANGED <<cal, conn, owed, feed, wire, view, newer, jobs, guarding, hist, left>>
  <1>1. /\ pc.at = "settle" /\ rows' = [rows EXCEPT !.state[pc.job.op] = pc.result] /\ pc' = IdlePc
        /\ UNCHANGED <<cal, conn, owed, feed, wire, view, newer, jobs, guarding, hist, left>>
    BY DEF Settle, ha, stream
  <1>2. pc.job \in Jobs /\ pc.job.op \in Ops /\ pc.result \in {"applied", "rejected"} /\ rows \in RowRecords
    BY <1>1 DEF TypeInv, ApplierType
  <1>3. pc.result \in States
    BY <1>2 DEF States
  <1>4. /\ rows' \in RowRecords /\ rows'.step = rows.step /\ rows'.order = rows.order
        /\ rows'.state[pc.job.op] = pc.result
        /\ \A x \in Ops \ {pc.job.op} : rows'.state[x] = rows.state[x]
    BY <1>1, <1>2, <1>3, RowSettles
  <1> QED
    BY <1>1, <1>2, <1>4, IdleType

\* The operations that are pending are finitely many.
LEMMA PendingFinite ==
    ASSUME TypeInv, JournalInv
    PROVE  IsFiniteSet(Pending)
  <1> DEFINE n == Len(rows.order)
             all == {rows.order[i] : i \in 1..n}
  <1>1. rows.order \in Seq(Ops)
    BY DEF TypeInv, ApplierType, RowRecords
  <1>2. n \in Nat
    BY <1>1, LenProperties
  <1> HIDE DEF n
  <1>3. IsFiniteSet(1..n)
    BY <1>2, FS_Interval
  <1>4. IsFiniteSet(all)
    BY <1>3, FiniteImage
  <1>5. Pending \subseteq all
    BY DEF Pending, JournalInv, n
  <1> QED
    BY <1>4, <1>5, FS_Subset

\* A restart queues the pending operations again, in the journal's order.
LEMMA RestartEffect ==
    ASSUME TypeInv, JournalInv, Restart
    PROVE  /\ Spends("crash") /\ pc' = IdlePc /\ pc' \in PcRecords /\ pc'.at = "idle"
           /\ view' = None /\ newer' = FALSE /\ wire' = <<>> /\ guarding' = {} /\ conn' = FALSE
           /\ UNCHANGED <<cal, owed, rows, hist>>
           /\ jobs' \in Seq(Jobs)
           /\ \A k \in 1..Len(jobs') : jobs'[k].op \in Pending /\ jobs'[k].op # None
           /\ \A op \in Pending : \E k \in 1..Len(jobs') : jobs'[k].op = op
           /\ \A k, m \in 1..Len(jobs') : k < m => Earlier(rows.order, jobs'[k].op, jobs'[m].op)
  <1>1. PICK order \in Requeue : jobs' = [i \in DOMAIN order |-> OpJob(order[i])]
    BY DEF Restart
  <1>2. /\ order \in SetToSeqs(Pending)
        /\ \A i, j \in DOMAIN order : i < j => Earlier(rows.order, order[i], order[j])
    BY DEF Requeue
  <1>3. /\ order \in Seq(Pending) /\ DOMAIN order = 1..Len(order) /\ Len(order) \in Nat
        /\ \A x \in Pending : \E i \in 1..Len(order) : order[i] = x
    BY <1>2, PendingFinite, SetToSeqsOf
  <1>4. \A i \in 1..Len(order) : order[i] \in Pending
    BY <1>3, ElementOfSeq
  <1>5. \A op \in Pending : OpJob(op) \in Jobs /\ OpJob(op).op = op /\ op # None
    BY PlanAssumption DEF OpJob, Jobs, Writers, Targets, Pending
  <1>6. jobs' \in [1..Len(order) -> Jobs] /\ \A i \in 1..Len(order) : jobs'[i].op = order[i]
    BY <1>1, <1>3, <1>4, <1>5
  <1>7. jobs' \in Seq(Jobs) /\ Len(jobs') = Len(order)
    BY <1>3, <1>6, SeqDef, LenProperties, SMTT(30)
  <1>8. /\ Spends("crash") /\ pc' = IdlePc
        /\ view' = None /\ newer' = FALSE /\ wire' = <<>> /\ guarding' = {} /\ conn' = FALSE
        /\ UNCHANGED <<cal, owed, rows, hist>>
    BY DEF Restart
  <1>9. \A k, m \in 1..Len(jobs') : k < m => Earlier(rows.order, jobs'[k].op, jobs'[m].op)
    BY <1>2, <1>3, <1>6, <1>7
  <1>10. \A op \in Pending : \E k \in 1..Len(jobs') : jobs'[k].op = op
    BY <1>3, <1>6, <1>7
  <1>11. \A k \in 1..Len(jobs') : jobs'[k].op \in Pending /\ jobs'[k].op # None
    BY <1>4, <1>5, <1>6, <1>7
  <1> QED
    BY <1>7, <1>8, <1>9, <1>10, <1>11, IdleType

\* A backup brings back an event no operation wrote; the user takes one away.
LEMMA OutsideEffect ==
    ASSUME TypeInv, Restore \/ UserRemoves
    PROVE  /\ cal' \in [events : Calendars, uids : Nat] /\ owed' = TRUE
           /\ \A e \in cal'.events : e.op = None \/ e \in cal.events
           /\ \E f \in {"restore", "remove"} : Spends(f)
           /\ UNCHANGED <<conn, feed, wire, view, newer, rows, jobs, guarding, pc, hist>>
  <1>1. cal \in [events : Calendars, uids : Nat] /\ cal.events \in Calendars
        /\ hist.seen \in Calendars /\ \A e \in hist.seen : e.op = None
    BY DEF TypeInv, CalType
  <1>2. CASE Restore
    <2>1. PICK e \in hist.seen : cal' = [cal EXCEPT !.events = {x \in cal.events : x.uid # e.uid} \cup {e}]
      BY <1>2 DEF Restore
    <2> DEFINE new == {x \in cal.events : x.uid # e.uid} \cup {e}
    <2>2. e \in EventRecords /\ e.op = None
      BY <1>1 DEF Calendars
    <2>3. new \in Calendars
      BY <1>1, <2>2, CalendarType
    <2>4. \A x \in new : x.op = None \/ x \in cal.events
      BY <2>2
    <2> HIDE DEF new
    <2>5. cal' = [cal EXCEPT !.events = new]
      BY <2>1 DEF new
    <2> QED
      BY <1>1, <1>2, <2>3, <2>4, <2>5 DEF Restore, service, stream
  <1>3. CASE UserRemoves
    <2>1. PICK e \in cal.events : cal' = [cal EXCEPT !.events = cal.events \ {e}]
      BY <1>3 DEF UserRemoves
    <2>2. cal.events \ {e} \in Calendars
      BY <1>1, CalendarType
    <2> QED
      BY <1>1, <1>3, <2>1, <2>2 DEF UserRemoves, service, stream
  <1> QED
    BY <1>2, <1>3

----------------------------------------------------------------------------
(* Types                                                                   *)

\* The calendar, its history and the counters keep their types.
LEMMA StepCal ==
    ASSUME TypeInv, JournalInv, Next
    PROVE  CalType'
  <1> DEFINE LeftOK == left' \in [Faults -> Nat] /\ \A f \in Faults : left'[f] <= Budget[f]
             HistOK == /\ hist' \in [created : SUBSET Ops, deleted : SUBSET Writers, seen : Calendars]
                       /\ \A e \in hist'.seen : e.op = None
  <1>1. /\ CalType /\ cal \in [events : Calendars, uids : Nat]
        /\ hist \in [created : SUBSET Ops, deleted : SUBSET Writers, seen : Calendars]
        /\ \A e \in hist.seen : e.op = None
        /\ conn \in BOOLEAN /\ owed \in BOOLEAN
        /\ left \in [Faults -> Nat] /\ \A f \in Faults : left[f] <= Budget[f]
    BY DEF TypeInv, CalType
  <1>2. ASSUME left' = left \/ \E f \in Faults : Spends(f) PROVE LeftOK
    BY <1>1, <1>2, SpendsEffect
  <1>3. ASSUME hist' = hist PROVE HistOK
    BY <1>1, <1>3
  <1>4. ASSUME LeftOK, HistOK, cal' \in [events : Calendars, uids : Nat], conn' \in BOOLEAN, owed' \in BOOLEAN
        PROVE  CalType'
    BY <1>4 DEF CalType
  <1>5. ASSUME UNCHANGED <<cal, conn, owed, hist, left>> PROVE CalType'
    BY <1>1, <1>2, <1>3, <1>4, <1>5
  <1>6. \A f \in {"unknown", "refused", "down", "crash", "restore", "remove"} : f \in Faults
    BY DEF Faults
  <1> HIDE DEF LeftOK, HistOK
  <1>7. CASE \E op \in Ops : Journal(op)
    BY <1>5, <1>7, JournalEffect
  <1>8. CASE TimePasses \/ Disconnect \/ Connect \/ Subscribe \/ Push \/ EndFeed
    <2>1. cal' = cal /\ hist' = hist /\ conn' \in BOOLEAN /\ owed' \in BOOLEAN /\ (left' = left \/ \E f \in {"down", "refused"} : Spends(f))
      BY <1>8, FeedEffect
    <2> QED
      BY <1>1, <1>2, <1>3, <1>4, <1>6, <2>1
  <1>9. CASE Publish
    BY <1>5, <1>9, PublishEffect
  <1>10. CASE Take
    BY <1>5, <1>10, TakeEffect
  <1>11. CASE Attempt
    BY <1>5, <1>11, AttemptEffect
  <1>12. CASE CallAnswered \/ NotDispatched \/ Unanswered
    <2>1. /\ pc.job \in Jobs /\ pc.call \in CallRecords /\ conn' = conn /\ owed' \in BOOLEAN
          /\ pc.call.kind = "create" => pc.job.op \in Ops
          /\ left' = left \/ \E f \in {"unknown", "refused"} : Spends(f)
          /\ Wrote \/ (cal' = cal /\ hist' = hist)
      BY <1>12, CallEffect
    <2>2. LeftOK
      BY <1>2, <1>6, <2>1
    <2>3. CASE Wrote
      <3>1. Write /\ pc.job.op \in Writers
        BY <2>1, <2>3 DEF Wrote, Jobs
      <3>2. /\ cal' \in [events : Calendars, uids : Nat]
            /\ hist' \in [created : SUBSET Ops, deleted : SUBSET Writers, seen : Calendars]
            /\ hist'.seen = hist.seen
        BY <1>1, <2>1, <3>1, WriteEffect
      <3>3. HistOK
        BY <1>1, <3>2 DEF HistOK
      <3> QED
        BY <1>1, <1>4, <2>1, <2>2, <3>2, <3>3
    <2>4. CASE cal' = cal /\ hist' = hist
      BY <1>1, <1>3, <1>4, <2>1, <2>2, <2>4
    <2> QED
      BY <2>1, <2>3, <2>4
  <1>13. CASE Confirm
    BY <1>5, <1>13, ConfirmEffect
  <1>14. CASE RereadDone
    BY <1>5, <1>14, RereadEffect
  <1>15. CASE Settle
    BY <1>5, <1>15, SettleEffect
  <1>16. CASE Restart
    <2>1. Spends("crash") /\ cal' = cal /\ owed' = owed /\ hist' = hist /\ conn' = FALSE
      BY <1>16, RestartEffect
    <2> QED
      BY <1>1, <1>2, <1>3, <1>4, <1>6, <2>1
  <1>17. CASE Restore \/ UserRemoves
    <2>1. /\ cal' \in [events : Calendars, uids : Nat] /\ owed' = TRUE /\ conn' = conn /\ hist' = hist
          /\ \E f \in {"restore", "remove"} : Spends(f)
      BY <1>17, OutsideEffect
    <2> QED
      BY <1>1, <1>2, <1>3, <1>4, <1>6, <2>1
  <1> QED
    BY <1>7, <1>8, <1>9, <1>10, <1>11, <1>12, <1>13, <1>14, <1>15, <1>16, <1>17 DEF Next

\* Time goes on, and the subscription's window is one of the past.
LEMMA StepTime ==
    ASSUME TimeType, [Next]_vars
    PROVE  TimeType' /\ now' >= now
  <1>1. now \in 1..Len(Windows) /\ frame \in 1..now /\ Len(Windows) \in Nat
    BY WindowAssumption DEF TimeType
  <1>2. ASSUME now' = now, frame' \in {frame, now} PROVE TimeType' /\ now' >= now
    BY <1>1, <1>2 DEF TimeType
  <1>3. CASE TimePasses
    <2>1. now < Len(Windows) /\ now' = now + 1 /\ frame' = frame
      BY <1>3 DEF TimePasses, stream
    <2> QED
      BY <1>1, <2>1 DEF TimeType
  <1>4. CASE UNCHANGED vars
    BY <1>2, <1>4 DEF vars, ha, stream
  <1>5. CASE (\E op \in Ops : Journal(op)) \/ Disconnect \/ Connect \/ Subscribe \/ EndFeed \/ Push \/ Publish
    BY <1>2, <1>5 DEF Journal, Disconnect, Connect, Subscribe, EndFeed, Push, Publish, ha, stream
  <1>6. CASE Take \/ Attempt \/ CallAnswered \/ NotDispatched \/ Unanswered
    BY <1>2, <1>6 DEF Take, Attempt, CallAnswered, NotDispatched, Unanswered, ha, stream
  <1>7. CASE Confirm \/ RereadDone \/ Settle \/ Restart \/ Restore \/ UserRemoves
    BY <1>2, <1>7 DEF Confirm, RereadDone, Settle, Restart, Restore, UserRemoves, ha, stream
  <1> QED
    BY <1>3, <1>4, <1>5, <1>6, <1>7 DEF Next

\* What was read from the calendar are calendars.
LEMMA StepFeed ==
    ASSUME TypeInv, JournalInv, Next
    PROVE  FeedType'
  <1>1. /\ wire \in Seq(ReadRecords) /\ Len(wire) <= MaxWire
        /\ view \in ReadRecords \cup {None} /\ newer \in BOOLEAN
    BY DEF TypeInv, FeedType
  <1>2. ASSUME wire' = wire, view' = view, newer' \in BOOLEAN PROVE FeedType'
    BY <1>1, <1>2 DEF FeedType
  <1>3. ASSUME NEW r \in ReadRecords PROVE Outdated(r) \in ReadRecords
    BY DEF Outdated, ReadRecords
  <1>4. CASE \E op \in Ops : Journal(op)
    BY <1>1, <1>2, <1>4, JournalEffect
  <1>5. CASE TimePasses \/ Disconnect \/ Connect \/ Subscribe \/ Push \/ EndFeed
    <2>1. /\ newer' = newer
          /\ \/ wire' = wire /\ view' = view
             \/ /\ wire' = [i \in DOMAIN wire |-> Outdated(wire[i])]
                /\ view' = IF view = None THEN None ELSE Outdated(view)
             \/ /\ \E read \in ReadRecords : FreshRead(read) /\ wire' = Append(wire, read)
                /\ Len(wire) < MaxWire /\ view' = view
      BY <1>5, FeedEffect
    <2>2. CASE wire' = wire /\ view' = view
      BY <1>1, <1>2, <2>1, <2>2
    <2>3. CASE /\ wire' = [i \in DOMAIN wire |-> Outdated(wire[i])]
               /\ view' = IF view = None THEN None ELSE Outdated(view)
      <3>1. DOMAIN wire = 1..Len(wire) /\ Len(wire) \in Nat
        BY <1>1, LenProperties
      <3>2. \A i \in 1..Len(wire) : wire[i] \in ReadRecords
        BY <1>1, ElementOfSeq
      <3>3. wire' \in [1..Len(wire) -> ReadRecords]
        BY <1>3, <2>3, <3>1, <3>2
      <3>4. wire' \in Seq(ReadRecords) /\ Len(wire') = Len(wire)
        BY <3>1, <3>3, SeqDef, LenProperties
      <3>5. view' \in ReadRecords \cup {None}
        BY <1>1, <1>3, <2>3
      <3> QED
        BY <1>1, <2>1, <3>4, <3>5 DEF FeedType
    <2>4. CASE /\ \E read \in ReadRecords : FreshRead(read) /\ wire' = Append(wire, read)
               /\ Len(wire) < MaxWire /\ view' = view
      <3>1. PICK read \in ReadRecords : wire' = Append(wire, read)
        BY <2>4
      <3>2. wire' \in Seq(ReadRecords) /\ Len(wire') = Len(wire) + 1 /\ Len(wire) \in Nat
        BY <1>1, <2>4, <3>1, AppendOf
      <3>3. Len(wire') <= MaxWire
        BY <2>4, <3>2, BoundAssumption
      <3> QED
        BY <1>1, <2>1, <2>4, <3>2, <3>3 DEF FeedType
    <2> QED
      BY <2>1, <2>2, <2>3, <2>4
  <1>6. CASE Publish
    <2>1. wire # <<>> /\ wire[1] \in ReadRecords /\ view' \in ReadRecords /\ newer' = TRUE /\ wire' = Tail(wire)
      BY <1>6, PublishEffect
    <2>2. wire' \in Seq(ReadRecords) /\ Len(wire') = Len(wire) - 1 /\ Len(wire) \in Nat
      BY <1>1, <2>1, TailOf
    <2>3. Len(wire') <= MaxWire
      BY <1>1, <2>2, BoundAssumption
    <2> QED
      BY <2>1, <2>2, <2>3 DEF FeedType
  <1>7. CASE Take
    BY <1>1, <1>2, <1>7, TakeEffect
  <1>8. CASE Attempt
    BY <1>2, <1>8, AttemptEffect
  <1>9. CASE CallAnswered \/ NotDispatched \/ Unanswered
    BY <1>1, <1>2, <1>9, CallEffect
  <1>10. CASE Confirm
    BY <1>1, <1>2, <1>10, ConfirmEffect
  <1>11. CASE RereadDone
    BY <1>1, <1>2, <1>11, RereadEffect
  <1>12. CASE Settle
    BY <1>1, <1>2, <1>12, SettleEffect
  <1>13. CASE Restart
    <2>1. view' = None /\ newer' = FALSE /\ wire' = <<>>
      BY <1>13, RestartEffect
    <2>2. wire' \in Seq(ReadRecords) /\ Len(wire') = 0
      BY <2>1, EmptySeq
    <2>3. Len(wire') <= MaxWire
      BY <2>2, BoundAssumption
    <2>4. view' \in ReadRecords \cup {None} /\ newer' \in BOOLEAN
      BY <2>1
    <2> QED
      BY ONLY <2>2, <2>3, <2>4 DEF FeedType
  <1>14. CASE Restore \/ UserRemoves
    BY <1>1, <1>2, <1>14, OutsideEffect
  <1> QED
    BY <1>4, <1>5, <1>6, <1>7, <1>8, <1>9, <1>10, <1>11, <1>12, <1>13, <1>14 DEF Next

\* The applier knows what it works on.
LEMMA StepApplier ==
    ASSUME TypeInv, JournalInv, Next
    PROVE  ApplierType'
  <1> DEFINE PcOK == /\ pc' \in PcRecords
                     /\ pc'.at # "idle" => pc'.job \in Jobs
                     /\ pc'.at \in {"confirm", "reread", "settle"} => pc'.job.op \in Ops
                     /\ pc'.at = "settle" => pc'.result \in {"applied", "rejected"}
                     /\ pc'.at \in {"call", "confirm", "reread"} => pc'.call \in CallRecords
                     /\ pc'.at = "call" /\ pc'.call.kind = "create" => pc'.job.op \in Ops
  <1>1. rows \in RowRecords /\ jobs \in Seq(Jobs)
    BY DEF TypeInv, ApplierType
  <1>2. ASSUME pc' = pc PROVE PcOK
    BY <1>2 DEF TypeInv, ApplierType
  <1>3. ASSUME PcOK, rows' \in RowRecords, jobs' \in Seq(Jobs) PROVE ApplierType'
    BY <1>3 DEF ApplierType
  <1>4. ASSUME NEW op \in Ops, rows' = [rows EXCEPT !.step[op] = 1] PROVE rows' \in RowRecords
    BY <1>1, <1>4, RowSteps
  <1> HIDE DEF PcOK
  <1>5. CASE \E op \in Ops : Journal(op)
    <2>1. PICK op \in Ops : Journal(op)
      BY <1>5
    <2>2. pc' = pc /\ rows' \in RowRecords /\ jobs' = Append(jobs, OpJob(op)) /\ OpJob(op) \in Jobs
      BY <2>1, JournalEffect
    <2>3. jobs' \in Seq(Jobs)
      BY <1>1, <2>2, AppendOf
    <2> QED
      BY <1>2, <1>3, <2>2, <2>3
  <1>6. CASE TimePasses \/ Disconnect \/ Connect \/ Subscribe \/ Push \/ EndFeed
    BY <1>1, <1>2, <1>3, <1>6, FeedEffect
  <1>7. CASE Publish
    <2>1. /\ GuardJobs(AllRead(wire[1])) /\ AllRead(wire[1]) \in Calendars /\ rows' = rows /\ pc' = pc
      BY <1>7, PublishEffect
    <2>2. PICK q \in Seq(Jobs) : jobs' = jobs \o q
      BY <1>1, <2>1, GuardJobsEffect
    <2>3. jobs' \in Seq(Jobs)
      BY <1>1, <2>2, ConcatOf
    <2> QED
      BY <1>1, <1>2, <1>3, <2>1, <2>3
  <1>8. CASE Take
    <2>1. /\ jobs # <<>> /\ jobs[1] \in Jobs /\ jobs' = Tail(jobs) /\ rows' = rows
          /\ pc' \in PcRecords /\ pc'.at = "fresh" /\ pc'.job = jobs[1]
      BY <1>8, TakeEffect
    <2>2. jobs' \in Seq(Jobs)
      BY <1>1, <2>1, TailOf
    <2>3. PcOK
      BY <2>1 DEF PcOK
    <2> QED
      BY <1>1, <1>3, <2>1, <2>2, <2>3
  <1>9. CASE Attempt
    <2>1. /\ pc.job \in Jobs /\ pc' \in PcRecords /\ pc'.job = pc.job /\ jobs' = jobs
          /\ AttemptDecides \/ AttemptDeletes \/ AttemptCreates \/ AttemptSteps
      BY <1>9, AttemptEffect
    <2>2. CASE AttemptDecides
      <3>1. PcOK /\ rows' = rows
        BY <2>1, <2>2 DEF PcOK, AttemptDecides
      <3> QED
        BY <1>1, <1>3, <2>1, <3>1
    <2>3. CASE AttemptDeletes
      <3>1. PcOK /\ rows' = rows
        BY <2>1, <2>3 DEF PcOK, AttemptDeletes
      <3> QED
        BY <1>1, <1>3, <2>1, <3>1
    <2>4. CASE AttemptCreates
      <3>1. PcOK /\ rows' = rows
        BY <2>1, <2>4 DEF PcOK, AttemptCreates
      <3> QED
        BY <1>1, <1>3, <2>1, <3>1
    <2>5. CASE AttemptSteps
      <3>1. pc'.at = "fresh" /\ rows' = [rows EXCEPT !.step[pc.job.op] = 1] /\ pc.job.op \in Ops
        BY <2>5 DEF AttemptSteps
      <3>2. PcOK
        BY <2>1, <3>1 DEF PcOK
      <3> QED
        BY <1>1, <1>3, <1>4, <2>1, <3>1, <3>2
    <2> QED
      BY <2>1, <2>2, <2>3, <2>4, <2>5
  <1>10. CASE CallAnswered \/ NotDispatched \/ Unanswered
    <2>1. pc.job \in Jobs /\ pc' \in PcRecords /\ jobs' = jobs /\ (GuardEnds \/ OpGoesOn)
      BY <1>10, CallEffect
    <2>2. CASE GuardEnds
      <3>1. pc' = IdlePc /\ pc'.at = "idle" /\ rows' = rows
        BY <2>2, IdleType DEF GuardEnds
      <3>2. PcOK
        BY <2>1, <3>1 DEF PcOK
      <3> QED
        BY <1>1, <1>3, <2>1, <3>1, <3>2
    <2>3. CASE OpGoesOn
      <3>1. /\ pc.job.op \in Ops /\ pc'.job = pc.job
            /\ pc'.at \in {"confirm", "reread", "settle", "fresh"}
            /\ pc'.at = "settle" => pc'.result \in {"applied", "rejected"}
            /\ pc'.at \in {"confirm", "reread"} => pc'.call \in CallRecords
            /\ rows' = rows \/ rows' = [rows EXCEPT !.step[pc.job.op] = 1]
        BY <2>3 DEF OpGoesOn, Same
      <3>2. PcOK
        BY <2>1, <3>1 DEF PcOK
      <3> QED
        BY <1>1, <1>3, <1>4, <2>1, <3>1, <3>2
    <2> QED
      BY <2>1, <2>2, <2>3
  <1>11. CASE Confirm
    <2>1. /\ pc.job \in Jobs /\ pc.job.op \in Ops /\ pc' \in PcRecords /\ pc'.job = pc.job /\ jobs' = jobs
          /\ pc'.at \in {"fresh", "confirm", "settle"}
          /\ pc'.at = "settle" => pc'.result \in {"applied", "rejected"}
          /\ pc'.at = "confirm" => pc'.call \in CallRecords
          /\ rows' = rows \/ rows' = [rows EXCEPT !.step[pc.job.op] = 1]
      BY <1>11, ConfirmEffect
    <2>2. PcOK
      BY <2>1 DEF PcOK
    <2> QED
      BY <1>1, <1>3, <1>4, <2>1, <2>2
  <1>12. CASE RereadDone
    <2>1. /\ pc.job \in Jobs /\ pc.job.op \in Ops /\ pc' \in PcRecords /\ Same(pc') /\ jobs' = jobs
          /\ pc'.at \in {"fresh", "settle"} /\ rows' = rows
          /\ pc'.at = "settle" => pc'.result \in {"applied", "rejected"}
      BY <1>12, RereadEffect
    <2>2. PcOK
      BY <2>1 DEF PcOK, Same
    <2> QED
      BY <1>1, <1>3, <2>1, <2>2
  <1>13. CASE Settle
    <2>1. pc' \in PcRecords /\ pc'.at = "idle" /\ rows' \in RowRecords /\ jobs' = jobs
      BY <1>13, SettleEffect
    <2>2. PcOK
      BY <2>1 DEF PcOK
    <2> QED
      BY <1>1, <1>3, <2>1, <2>2
  <1>14. CASE Restart
    <2>1. pc' \in PcRecords /\ pc'.at = "idle" /\ rows' = rows /\ jobs' \in Seq(Jobs)
      BY <1>14, RestartEffect
    <2>2. PcOK
      BY <2>1 DEF PcOK
    <2> QED
      BY <1>1, <1>3, <2>1, <2>2
  <1>15. CASE Restore \/ UserRemoves
    BY <1>1, <1>2, <1>3, <1>15, OutsideEffect
  <1> QED
    BY <1>5, <1>6, <1>7, <1>8, <1>9, <1>10, <1>11, <1>12, <1>13, <1>14, <1>15 DEF Next

----------------------------------------------------------------------------
(* The journal and the queue                                               *)

\* Most steps leave the queue, the states of the rows and the applier's job alone.
Works == /\ rows'.state = rows.state /\ rows'.order = rows.order
         /\ jobs' = jobs /\ guarding' = guarding
         /\ pc' = pc \/ (Busy /\ pc'.at # "idle" /\ pc'.job = pc.job)
\* Every step either works on the job in hand or changes the journal and the queue in a named way.
LEMMA QueueSteps ==
    ASSUME TypeInv, JournalInv, [Next]_vars
    PROVE  \/ Works
           \/ \E op \in Ops : Journal(op)
           \/ Publish \/ Take \/ Settle \/ Restart
           \/ Busy /\ GuardEnds /\ jobs' = jobs
  <1>1. rows \in RowRecords
    BY DEF TypeInv, ApplierType
  <1>2. ASSUME NEW op \in Ops, rows' = [rows EXCEPT !.step[op] = 1]
        PROVE  rows'.state = rows.state /\ rows'.order = rows.order
    BY <1>1, <1>2, RowSteps
  <1>3. CASE UNCHANGED vars
    BY <1>3 DEF Works, vars, service
  <1>4. CASE TimePasses \/ Disconnect \/ Connect \/ Subscribe \/ Push \/ EndFeed
    BY <1>4, FeedEffect DEF Works
  <1>5. CASE Attempt
    <2>1. /\ pc.at = "fresh" /\ pc'.job = pc.job /\ jobs' = jobs /\ guarding' = guarding
          /\ AttemptDecides \/ AttemptDeletes \/ AttemptCreates \/ AttemptSteps
      BY <1>5, AttemptEffect
    <2>2. /\ pc'.at \in {"settle", "call", "fresh"}
          /\ rows' = rows \/ (pc.job.op \in Ops /\ rows' = [rows EXCEPT !.step[pc.job.op] = 1])
      BY <2>1 DEF AttemptDecides, AttemptDeletes, AttemptCreates, AttemptSteps
    <2> QED
      BY <1>2, <2>1, <2>2 DEF Works, Busy
  <1>6. CASE CallAnswered \/ NotDispatched \/ Unanswered
    <2>1. pc.at = "call" /\ jobs' = jobs /\ (GuardEnds \/ OpGoesOn)
      BY <1>6, CallEffect
    <2>2. CASE OpGoesOn
      <3>1. /\ pc.job.op \in Ops /\ pc'.job = pc.job /\ guarding' = guarding /\ pc'.at # "idle"
            /\ rows' = rows \/ rows' = [rows EXCEPT !.step[pc.job.op] = 1]
        BY <2>2 DEF OpGoesOn, Same
      <3> QED
        BY <1>2, <2>1, <3>1 DEF Works, Busy
    <2> QED
      BY <2>1, <2>2 DEF Busy
  <1>7. CASE Confirm
    <2>1. /\ pc.at = "confirm" /\ pc.job.op \in Ops /\ pc'.job = pc.job /\ pc'.at # "idle"
          /\ jobs' = jobs /\ guarding' = guarding
          /\ rows' = rows \/ rows' = [rows EXCEPT !.step[pc.job.op] = 1]
      BY <1>7, ConfirmEffect
    <2> QED
      BY <1>2, <2>1 DEF Works, Busy
  <1>8. CASE RereadDone
    BY <1>8, RereadEffect DEF Works, Busy, Same
  <1>9. CASE Restore \/ UserRemoves
    BY <1>9, OutsideEffect DEF Works
  <1> QED
    BY <1>3, <1>4, <1>5, <1>6, <1>7, <1>8, <1>9 DEF Next

\* Of two operations one at most is the earlier.
LEMMA EarlierOrder ==
    ASSUME TypeInv, JournalInv, NEW a, NEW b, Earlier(rows.order, a, b)
    PROVE  ~Earlier(rows.order, b, a) /\ a # b /\ a \in Ops /\ rows.state[a] # "none"
  <1>1. DOMAIN rows.order = 1..Len(rows.order) /\ Len(rows.order) \in Nat
        /\ \A i \in 1..Len(rows.order) : rows.order[i] \in Ops
    <2>1. rows.order \in Seq(Ops)
      BY DEF TypeInv, ApplierType, RowRecords
    <2> QED
      BY <2>1, LenProperties, ElementOfSeq
  <1>2. PICK i, j \in 1..Len(rows.order) : i < j /\ rows.order[i] = a /\ rows.order[j] = b
    BY <1>1 DEF Earlier
  <1>3. a # b /\ a \in Ops /\ rows.state[a] # "none"
    BY <1>1, <1>2 DEF JournalInv
  <1>4. ASSUME Earlier(rows.order, b, a) PROVE FALSE
    <2>1. PICK k, m \in 1..Len(rows.order) : k < m /\ rows.order[k] = b /\ rows.order[m] = a
      BY <1>1, <1>4 DEF Earlier
    <2>2. k = j /\ m = i
      BY <1>2, <2>1 DEF JournalInv
    <2> QED
      BY <1>1, <1>2, <2>1, <2>2
  <1> QED
    BY <1>3, <1>4

\* The journal stays a list without repeats of all its rows.
LEMMA StepJournal ==
    ASSUME TypeInv, JournalInv, QueueInv, [Next]_vars
    PROVE  JournalInv'
  <1>1. ASSUME rows'.state = rows.state, rows'.order = rows.order PROVE JournalInv'
    BY <1>1 DEF JournalInv
  <1>2. CASE Works
    BY <1>1, <1>2 DEF Works
  <1>3. CASE \E op \in Ops : Journal(op)
    <2>1. PICK op \in Ops : Journal(op)
      BY <1>3
    <2>2. /\ rows.state[op] = "none"
          /\ rows'.state[op] = "pending" /\ \A x \in Ops \ {op} : rows'.state[x] = rows.state[x]
          /\ rows.order \in Seq(Ops) /\ rows'.order = Append(rows.order, op)
      BY <2>1, JournalEffect
    <2> DEFINE n == Len(rows.order)
    <2>3. /\ n \in Nat /\ Len(rows'.order) = n + 1 /\ rows'.order[n + 1] = op
          /\ \A i \in 1..n : rows'.order[i] = rows.order[i]
          /\ \A i \in 1..Len(rows'.order) : i \in 1..n \/ i = n + 1
      BY <2>2, AppendOf
    <2>4. /\ \A i, j \in 1..n : rows.order[i] = rows.order[j] => i = j
          /\ \A x \in Ops : rows.state[x] # "none" <=> \E i \in 1..n : rows.order[i] = x
      BY DEF JournalInv
    <2>5. \A i \in 1..n : rows.order[i] # op
      BY <2>2, <2>4
    <2> HIDE DEF n
    <2>6. \A i, j \in 1..Len(rows'.order) : rows'.order[i] = rows'.order[j] => i = j
      BY <2>3, <2>4, <2>5
    <2>7. ASSUME NEW x \in Ops
          PROVE  rows'.state[x] # "none" <=> \E i \in 1..Len(rows'.order) : rows'.order[i] = x
      <3>1. CASE x = op
        <4>1. n + 1 \in 1..Len(rows'.order)
          BY <2>3
        <4> QED
          BY <2>2, <2>3, <3>1, <4>1
      <3>2. CASE x # op
        <4>1. rows'.state[x] = rows.state[x]
          BY <2>2, <3>2
        <4>2. \A i \in 1..n : i \in 1..Len(rows'.order)
          BY <2>3
        <4>3. (\E i \in 1..n : rows.order[i] = x) => \E i \in 1..Len(rows'.order) : rows'.order[i] = x
          BY <2>3, <4>2
        <4>4. (\E i \in 1..Len(rows'.order) : rows'.order[i] = x) => \E i \in 1..n : rows.order[i] = x
          BY <2>3, <3>2
        <4> QED
          BY <2>4, <4>1, <4>3, <4>4
      <3> QED
        BY <3>1, <3>2
    <2> QED
      BY <2>6, <2>7 DEF JournalInv
  <1>4. CASE Publish
    BY <1>1, <1>4, PublishEffect
  <1>5. CASE Take
    BY <1>1, <1>5, TakeEffect
  <1>6. CASE Settle
    <2>1. /\ pc.at = "settle" /\ pc.job.op \in Ops /\ rows'.order = rows.order
          /\ rows'.state[pc.job.op] \in {"applied", "rejected"}
          /\ \A x \in Ops \ {pc.job.op} : rows'.state[x] = rows.state[x]
      BY <1>6, SettleEffect
    <2>2. rows.state[pc.job.op] = "pending"
      <3>1. Busy /\ pc.job.op # None
        BY <2>1, PlanAssumption DEF Busy
      <3> QED
        BY <3>1 DEF QueueInv, Pending
    <2>3. \A x \in Ops : rows'.state[x] # "none" <=> rows.state[x] # "none"
      BY <2>1, <2>2
    <2> QED
      BY <2>1, <2>3 DEF JournalInv
  <1>7. CASE Restart
    BY <1>1, <1>7, RestartEffect
  <1>8. CASE GuardEnds
    BY <1>1, <1>8 DEF GuardEnds
  <1> QED
    BY <1>2, <1>3, <1>4, <1>5, <1>6, <1>7, <1>8, QueueSteps

\* The queue holds the pending operations in the journal's order.
LEMMA StepQueue ==
    ASSUME TypeInv, JournalInv, QueueInv, [Next]_vars
    PROVE  QueueInv'
  <1>1. jobs \in Seq(Jobs) /\ Len(jobs) \in Nat /\ \A k \in 1..Len(jobs) : jobs[k] \in Jobs
    <2>1. jobs \in Seq(Jobs)
      BY DEF TypeInv, ApplierType
    <2> QED
      BY <2>1, LenProperties, ElementOfSeq
  <1>2. /\ \A k \in 1..Len(jobs) : jobs[k].op # None => jobs[k].op \in Pending
        /\ \A k, m \in 1..Len(jobs) :
             k < m /\ jobs[k].op # None /\ jobs[m].op # None => Earlier(rows.order, jobs[k].op, jobs[m].op)
        /\ Busy /\ pc.job.op # None =>
             /\ pc.job.op \in Pending
             /\ \A k \in 1..Len(jobs) : jobs[k].op # None => Earlier(rows.order, pc.job.op, jobs[k].op)
        /\ \A op \in Pending : (Busy /\ pc.job.op = op) \/ \E k \in 1..Len(jobs) : jobs[k].op = op
    BY DEF QueueInv
  <1>3. ASSUME rows'.state = rows.state, rows'.order = rows.order
        PROVE  Pending' = Pending /\ \A a, b : Earlier(rows'.order, a, b) <=> Earlier(rows.order, a, b)
    BY <1>3 DEF Pending, Earlier
  <1>4. \A op \in Pending : op # None
    BY PlanAssumption DEF Pending
  <1>5. CASE Works
    <2>1. Pending' = Pending /\ \A a, b : Earlier(rows'.order, a, b) <=> Earlier(rows.order, a, b)
      BY <1>3, <1>5 DEF Works
    <2>2. jobs' = jobs /\ (Busy' <=> Busy) /\ (Busy => pc'.job = pc.job)
      BY <1>5 DEF Works, Busy
    <2> QED
      BY <1>2, <2>1, <2>2 DEF QueueInv
  <1>6. CASE \E op \in Ops : Journal(op)
    <2>1. PICK op \in Ops : Journal(op)
      BY <1>6
    <2>2. /\ rows.state[op] = "none" /\ pc' = pc
          /\ rows'.state[op] = "pending" /\ \A x \in Ops \ {op} : rows'.state[x] = rows.state[x]
          /\ rows.order \in Seq(Ops) /\ rows'.order = Append(rows.order, op)
          /\ OpJob(op) \in Jobs /\ OpJob(op).op = op /\ jobs' = Append(jobs, OpJob(op))
      BY <2>1, JournalEffect
    <2>3. Pending' = Pending \cup {op} /\ op \notin Pending
      BY <2>2 DEF Pending
    <2> DEFINE n == Len(rows.order)
               l == Len(jobs)
    <2>4. /\ n \in Nat /\ Len(rows'.order) = n + 1 /\ rows'.order[n + 1] = op
          /\ \A i \in 1..n : rows'.order[i] = rows.order[i]
          /\ DOMAIN rows.order = 1..n /\ DOMAIN rows'.order = 1..n + 1
      <3>1. /\ n \in Nat /\ Len(rows'.order) = n + 1 /\ rows'.order[n + 1] = op
            /\ \A i \in 1..n : rows'.order[i] = rows.order[i] /\ rows'.order \in Seq(Ops)
        BY <2>2, AppendOf
      <3>2. rows'.order \in Seq(Ops)
        BY <2>2, AppendOf
      <3> QED
        BY <2>2, <3>1, <3>2, LenProperties
    <2>5. /\ l \in Nat /\ Len(jobs') = l + 1 /\ jobs'[l + 1].op = op
          /\ \A k \in 1..l : jobs'[k] = jobs[k]
          /\ \A k \in 1..Len(jobs') : k \in 1..l \/ k = l + 1
      BY <1>1, <2>2, AppendOf
    <2>6. \A x \in Pending : \E i \in 1..n : rows.order[i] = x
      BY DEF JournalInv, Pending
    <2> HIDE DEF n
    <2>7. ASSUME NEW a, NEW b, Earlier(rows.order, a, b) PROVE Earlier(rows'.order, a, b)
      <3>1. PICK i, j \in 1..n : i < j /\ rows.order[i] = a /\ rows.order[j] = b
        BY <2>4, <2>7 DEF Earlier
      <3>2. i \in 1..n + 1 /\ j \in 1..n + 1 /\ i < j /\ rows'.order[i] = a /\ rows'.order[j] = b
        BY <2>4, <3>1
      <3> QED
        BY <2>4, <3>2 DEF Earlier
    <2>8. ASSUME NEW a \in Pending PROVE Earlier(rows'.order, a, op)
      <3>1. PICK i \in 1..n : rows.order[i] = a
        BY <2>6
      <3>2. i \in 1..n + 1 /\ n + 1 \in 1..n + 1 /\ i < n + 1 /\ rows'.order[i] = a /\ rows'.order[n + 1] = op
        BY <2>4, <3>1
      <3> QED
        BY <2>4, <3>2 DEF Earlier
    <2> HIDE DEF l
    <2>9. \A k \in 1..Len(jobs') : jobs'[k].op # None => jobs'[k].op \in Pending'
      BY <1>2, <2>3, <2>5 DEF l
    <2>10. ASSUME NEW k \in 1..Len(jobs'), NEW m \in 1..Len(jobs'), k < m,
                  jobs'[k].op # None, jobs'[m].op # None
           PROVE  Earlier(rows'.order, jobs'[k].op, jobs'[m].op)
      <3>1. k \in 1..l /\ jobs'[k] = jobs[k]
        BY <2>5, <2>10
      <3>2. CASE m \in 1..l
        <4>1. Earlier(rows.order, jobs[k].op, jobs[m].op) /\ jobs'[m] = jobs[m]
          BY <1>2, <2>5, <2>10, <3>1, <3>2 DEF l
        <4> QED
          BY <2>7, <3>1, <4>1
      <3>3. CASE m = l + 1
        <4>1. jobs[k].op \in Pending /\ jobs'[m].op = op
          BY <1>2, <2>5, <2>10, <3>1, <3>3 DEF l
        <4> QED
          BY <2>8, <3>1, <4>1
      <3> QED
        BY <2>5, <3>2, <3>3
    <2>11. ASSUME Busy', pc'.job.op # None
           PROVE  /\ pc'.job.op \in Pending'
                  /\ \A k \in 1..Len(jobs') : jobs'[k].op # None => Earlier(rows'.order, pc'.job.op, jobs'[k].op)
      <3>1. Busy /\ pc.job.op # None
        BY <2>2, <2>11 DEF Busy
      <3>2. pc.job.op \in Pending /\ \A k \in 1..l : jobs[k].op # None => Earlier(rows.order, pc.job.op, jobs[k].op)
        BY <1>2, <3>1 DEF l
      <3>3. ASSUME NEW k \in 1..Len(jobs'), jobs'[k].op # None PROVE Earlier(rows'.order, pc.job.op, jobs'[k].op)
        <4>1. CASE k \in 1..l
          <5>1. Earlier(rows.order, pc.job.op, jobs[k].op) /\ jobs'[k] = jobs[k]
            BY <2>5, <3>2, <3>3, <4>1
          <5> QED
            BY <2>7, <5>1
        <4>2. CASE k = l + 1
          <5>1. jobs'[k].op = op
            BY <2>5, <4>2
          <5> QED
            BY <2>8, <3>2, <5>1
        <4> QED
          BY <2>5, <4>1, <4>2
      <3> QED
        BY <2>2, <2>3, <3>2, <3>3
    <2>12. ASSUME NEW x \in Pending'
           PROVE  (Busy' /\ pc'.job.op = x) \/ \E k \in 1..Len(jobs') : jobs'[k].op = x
      <3>1. CASE x = op
        <4>1. l + 1 \in 1..Len(jobs')
          BY <2>5
        <4> QED
          BY <2>5, <3>1, <4>1
      <3>2. CASE x \in Pending
        <4>1. CASE Busy /\ pc.job.op = x
          BY <2>2, <4>1 DEF Busy
        <4>2. CASE \E k \in 1..l : jobs[k].op = x
          <5>1. PICK k \in 1..l : jobs[k].op = x
            BY <4>2
          <5>2. k \in 1..Len(jobs') /\ jobs'[k].op = x
            BY <2>5, <5>1
          <5> QED
            BY <5>2
        <4> QED
          BY <1>2, <3>2, <4>1, <4>2 DEF l
      <3> QED
        BY <2>3, <3>1, <3>2
    <2> QED
      BY <2>9, <2>10, <2>11, <2>12 DEF QueueInv
  <1>7. CASE Publish
    <2>1. GuardJobs(AllRead(wire[1])) /\ AllRead(wire[1]) \in Calendars /\ rows' = rows /\ pc' = pc
      BY <1>7, PublishEffect
    <2>2. PICK q \in Seq(Jobs) : jobs' = jobs \o q /\ \A i \in 1..Len(q) : q[i].op = None
      BY <1>1, <2>1, GuardJobsEffect
    <2>3. Pending' = Pending /\ \A a, b : Earlier(rows'.order, a, b) <=> Earlier(rows.order, a, b)
      BY <1>3, <2>1
    <2>4. Busy' <=> Busy
      BY <2>1 DEF Busy
    <2> DEFINE l == Len(jobs)
    <2>5. /\ l \in Nat /\ Len(q) \in Nat /\ Len(jobs') = l + Len(q)
          /\ \A k \in 1..l : jobs'[k] = jobs[k]
          /\ \A k \in 1..Len(jobs') : k \in 1..l \/ jobs'[k].op = None
      <3>1. /\ Len(q) \in Nat /\ Len(jobs') = l + Len(q)
            /\ \A k \in 1..l : jobs'[k] = jobs[k]
            /\ \A i \in 1..Len(q) : jobs'[l + i] = q[i]
            /\ \A k \in 1..Len(jobs') : k \in 1..l \/ \E i \in 1..Len(q) : k = l + i
        <4>1. q \in Seq(Jobs) /\ jobs \in Seq(Jobs)
          BY <1>1
        <4>2. /\ Len(q) \in Nat /\ Len(jobs \o q) = l + Len(q)
              /\ \A k \in 1..l : (jobs \o q)[k] = jobs[k]
              /\ \A i \in 1..Len(q) : (jobs \o q)[l + i] = q[i]
              /\ \A k \in 1..Len(jobs \o q) : k \in 1..l \/ \E i \in 1..Len(q) : k = l + i
          BY <4>1, JobsJoined
        <4> QED
          BY ONLY <2>2, <4>2
      <3> QED
        BY <1>1, <2>2, <3>1
    <2>6. \A k \in 1..l : k \in 1..Len(jobs')
      BY <2>5
    <2>7. \A k \in 1..Len(jobs') : jobs'[k].op # None => k \in 1..l /\ jobs'[k] = jobs[k]
      BY <2>5
    <2>8. \A op \in Pending : (Busy /\ pc.job.op = op) \/ \E k \in 1..Len(jobs') : jobs'[k].op = op
      BY <1>2, <2>5, <2>6
    <2>9. \A k, m \in 1..Len(jobs') : k < m /\ jobs'[k].op # None /\ jobs'[m].op # None
                                        => Earlier(rows.order, jobs'[k].op, jobs'[m].op)
      BY <1>2, <2>7
    <2>10. Busy /\ pc.job.op # None =>
             /\ pc.job.op \in Pending
             /\ \A k \in 1..Len(jobs') : jobs'[k].op # None => Earlier(rows.order, pc.job.op, jobs'[k].op)
      BY <1>2, <2>7
    <2>11. \A k \in 1..Len(jobs') : jobs'[k].op # None => jobs'[k].op \in Pending
      BY <1>2, <2>7
    <2> QED
      BY <2>1, <2>3, <2>4, <2>8, <2>9, <2>10, <2>11 DEF QueueInv
  <1>8. CASE Take
    <2>1. /\ pc.at = "idle" /\ jobs # <<>> /\ jobs' = Tail(jobs) /\ rows' = rows
          /\ pc'.at = "fresh" /\ pc'.job = jobs[1]
      BY <1>8, TakeEffect
    <2>2. Pending' = Pending /\ \A a, b : Earlier(rows'.order, a, b) <=> Earlier(rows.order, a, b)
      BY <1>3, <2>1
    <2>3. Busy' /\ ~Busy
      BY <2>1 DEF Busy
    <2>4. /\ Len(jobs') = Len(jobs) - 1 /\ Len(jobs) \in Nat /\ Len(jobs) > 0
          /\ \A k \in 1..Len(jobs') : jobs'[k] = jobs[k + 1] /\ k + 1 \in 1..Len(jobs)
      BY <1>1, <2>1, TailOf
    <2>5. 1 \in 1..Len(jobs) /\ \A k \in 1..Len(jobs') : 1 < k + 1
      BY <2>4
    <2>6. \A op \in Pending : jobs[1].op = op \/ \E k \in 1..Len(jobs') : jobs'[k].op = op
      <3> SUFFICES ASSUME NEW op \in Pending PROVE jobs[1].op = op \/ \E k \in 1..Len(jobs') : jobs'[k].op = op
        OBVIOUS
      <3>1. PICK m \in 1..Len(jobs) : jobs[m].op = op
        BY <1>2, <2>3
      <3>2. CASE m = 1
        BY <3>1, <3>2
      <3>3. CASE m # 1
        <4>1. m - 1 \in 1..Len(jobs') /\ (m - 1) + 1 = m
          BY <2>4, <3>1, <3>3
        <4>2. jobs'[m - 1].op = op
          BY <2>4, <3>1, <4>1
        <4> QED
          BY <4>1, <4>2
      <3> QED
        BY <3>2, <3>3
    <2>7. \A k \in 1..Len(jobs') : jobs'[k].op # None => jobs'[k].op \in Pending
      BY <1>2, <2>4
    <2>8. \A k, m \in 1..Len(jobs') : k < m /\ jobs'[k].op # None /\ jobs'[m].op # None
                                        => Earlier(rows.order, jobs'[k].op, jobs'[m].op)
      <3>1. \A k, m \in 1..Len(jobs') : k < m => k + 1 < m + 1
        BY <2>4
      <3> QED
        BY <1>2, <2>4, <3>1, SMTT(30)
    <2>9. jobs[1].op # None =>
             /\ jobs[1].op \in Pending
             /\ \A k \in 1..Len(jobs') : jobs'[k].op # None => Earlier(rows.order, jobs[1].op, jobs'[k].op)
      BY <1>2, <2>4, <2>5
    <2> QED
      BY <2>1, <2>2, <2>3, <2>6, <2>7, <2>8, <2>9 DEF QueueInv
  <1>9. CASE Busy /\ GuardEnds /\ jobs' = jobs
    <2>1. pc.job.op = None /\ pc'.at = "idle" /\ rows' = rows
      BY <1>9, IdleType DEF GuardEnds
    <2>2. Pending' = Pending /\ \A a, b : Earlier(rows'.order, a, b) <=> Earlier(rows.order, a, b)
      BY <1>3, <2>1
    <2>3. ~Busy'
      BY <2>1 DEF Busy
    <2>4. \A op \in Pending : \E k \in 1..Len(jobs) : jobs[k].op = op
      BY <1>2, <1>4, <2>1
    <2> QED
      BY <1>2, <1>9, <2>2, <2>3, <2>4 DEF QueueInv
  <1>10. CASE Settle
    <2>1. /\ pc.at = "settle" /\ pc.job.op \in Ops /\ pc'.at = "idle" /\ jobs' = jobs
          /\ rows'.order = rows.order
          /\ rows'.state[pc.job.op] \in {"applied", "rejected"}
          /\ \A x \in Ops \ {pc.job.op} : rows'.state[x] = rows.state[x]
      BY <1>10, SettleEffect
    <2>2. Pending' = Pending \ {pc.job.op}
      BY <2>1 DEF Pending
    <2>3. \A a, b : Earlier(rows'.order, a, b) <=> Earlier(rows.order, a, b)
      BY <2>1 DEF Earlier
    <2>4. Busy /\ ~Busy' /\ pc.job.op # None
      BY <2>1, PlanAssumption DEF Busy
    <2>5. \A k \in 1..Len(jobs) : jobs[k].op # None => jobs[k].op # pc.job.op
      BY <1>2, <2>4, EarlierOrder
    <2>6. \A k \in 1..Len(jobs) : jobs[k].op # None => jobs[k].op \in Pending'
      BY <1>2, <2>2, <2>5
    <2>7. \A op \in Pending' : \E k \in 1..Len(jobs) : jobs[k].op = op
      BY <1>2, <2>2
    <2> QED
      BY <1>2, <2>1, <2>3, <2>4, <2>6, <2>7 DEF QueueInv
  <1>11. CASE Restart
    <2>1. /\ pc'.at = "idle" /\ rows' = rows
          /\ \A k \in 1..Len(jobs') : jobs'[k].op \in Pending /\ jobs'[k].op # None
          /\ \A op \in Pending : \E k \in 1..Len(jobs') : jobs'[k].op = op
          /\ \A k, m \in 1..Len(jobs') : k < m => Earlier(rows.order, jobs'[k].op, jobs'[m].op)
      BY <1>11, RestartEffect
    <2>2. Pending' = Pending /\ \A a, b : Earlier(rows'.order, a, b) <=> Earlier(rows.order, a, b)
      BY <1>3, <2>1
    <2>3. ~Busy'
      BY <2>1 DEF Busy
    <2> QED
      BY <2>1, <2>2, <2>3 DEF QueueInv
  <1> QED
    BY <1>5, <1>6, <1>7, <1>8, <1>9, <1>10, <1>11, QueueSteps

\* Each occurrence that is being guarded keeps its one job, and no other.
LEMMA StepGuard ==
    ASSUME TypeInv, JournalInv, GuardInv, [Next]_vars
    PROVE  GuardInv'
  <1> DEFINE l == Len(jobs)
  <1>1. jobs \in Seq(Jobs) /\ l \in Nat
    <2>1. jobs \in Seq(Jobs)
      BY DEF TypeInv, ApplierType
    <2> QED
      BY <2>1, LenProperties
  <1>2. /\ \A occ : occ \in guarding <=>
             \/ Busy /\ pc.job.op = None /\ pc.job.occ = occ
             \/ \E k \in 1..l : jobs[k].op = None /\ jobs[k].occ = occ
        /\ \A k, m \in 1..l :
             jobs[k].op = None /\ jobs[m].op = None /\ jobs[k].occ = jobs[m].occ => k = m
        /\ Busy /\ pc.job.op = None =>
             \A k \in 1..l : jobs[k].op = None => jobs[k].occ # pc.job.occ
    BY DEF GuardInv
  <1>3. CASE Works
    <2>1. jobs' = jobs /\ guarding' = guarding /\ (Busy' <=> Busy) /\ (Busy => pc'.job = pc.job)
      BY <1>3 DEF Works, Busy
    <2> QED
      BY <1>2, <2>1 DEF GuardInv
  <1>4. CASE \E op \in Ops : Journal(op)
    <2>1. PICK op \in Ops : Journal(op)
      BY <1>4
    <2>2. /\ pc' = pc /\ guarding' = guarding
          /\ OpJob(op) \in Jobs /\ OpJob(op).op = op /\ jobs' = Append(jobs, OpJob(op)) /\ op # None
      BY <2>1, JournalEffect, PlanAssumption
    <2>3. /\ Len(jobs') = l + 1 /\ jobs'[l + 1].op # None
          /\ \A k \in 1..l : jobs'[k] = jobs[k]
          /\ \A k \in 1..Len(jobs') : k \in 1..l \/ k = l + 1
      BY <1>1, <2>2, AppendOf
    <2> HIDE DEF l
    <2>4. /\ \A k \in 1..l : k \in 1..Len(jobs') /\ jobs'[k] = jobs[k]
          /\ \A k \in 1..Len(jobs') : jobs'[k].op = None => k \in 1..l
      BY <1>1, <2>3
    <2>5. Busy' <=> Busy
      BY <2>2 DEF Busy
    <2>6. \A occ : (\E k \in 1..Len(jobs') : jobs'[k].op = None /\ jobs'[k].occ = occ)
                     <=> \E k \in 1..l : jobs[k].op = None /\ jobs[k].occ = occ
      BY <2>4
    <2>7. \A k, m \in 1..Len(jobs') :
            jobs'[k].op = None /\ jobs'[m].op = None /\ jobs'[k].occ = jobs'[m].occ => k = m
      BY <1>2, <2>4
    <2>8. Busy /\ pc.job.op = None =>
            \A k \in 1..Len(jobs') : jobs'[k].op = None => jobs'[k].occ # pc.job.occ
      BY <1>2, <2>4
    <2> QED
      BY <1>2, <2>2, <2>5, <2>6, <2>7, <2>8 DEF GuardInv
  <1>5. CASE Publish
    <2> DEFINE H == Handled(AllRead(wire[1]))
    <2>1. /\ GuardJobs(AllRead(wire[1])) /\ AllRead(wire[1]) \in Calendars /\ pc' = pc
          /\ guarding' = guarding \cup H
      BY <1>5, PublishEffect
    <2>2. \A occ \in H : occ \notin guarding
      BY <2>1, HandledType
    <2>3. PICK q \in Seq(Jobs) :
             /\ jobs' = jobs \o q
             /\ \A i \in 1..Len(q) : q[i].op = None /\ q[i].occ \in H
             /\ \A i, j \in 1..Len(q) : q[i].occ = q[j].occ => i = j
             /\ \A occ \in H : \E i \in 1..Len(q) : q[i].occ = occ
      BY <1>1, <2>1, GuardJobsEffect
    <2> DEFINE n == Len(q)
    <2>4. /\ n \in Nat /\ Len(jobs') = l + n
          /\ \A k \in 1..l : jobs'[k] = jobs[k]
          /\ \A i \in 1..n : jobs'[l + i] = q[i] /\ l + i \in 1..Len(jobs')
          /\ \A k \in 1..Len(jobs') : k \in 1..l \/ \E i \in 1..n : k = l + i
      BY <1>1, <2>3, JobsJoined
    <2>5. /\ \A i \in 1..n : q[i].op = None /\ q[i].occ \in H
          /\ \A i, j \in 1..n : q[i].occ = q[j].occ => i = j
          /\ \A occ \in H : \E i \in 1..n : q[i].occ = occ
      BY <2>3
    <2> HIDE DEF l, n, H
    <2>6. \A k \in 1..l : k \in 1..Len(jobs')
      BY <1>1, <2>4
    <2>7. \A k \in 1..Len(jobs') : (k \in 1..l /\ jobs'[k] = jobs[k])
                                \/ \E i \in 1..n : k = l + i /\ jobs'[k] = q[i]
      BY <2>4
    <2>8. Busy' <=> Busy
      BY <2>1 DEF Busy
    <2>9. \A k \in 1..l : jobs[k].op = None => jobs[k].occ \notin H
      BY <1>2, <2>2
    <2>10. Busy /\ pc.job.op = None => pc.job.occ \notin H
      BY <1>2, <2>2
    <2>11. ASSUME NEW k \in 1..Len(jobs'), NEW m \in 1..Len(jobs'),
                  jobs'[k].op = None, jobs'[m].op = None, jobs'[k].occ = jobs'[m].occ
           PROVE  k = m
      <3>1. CASE k \in 1..l /\ jobs'[k] = jobs[k] /\ m \in 1..l /\ jobs'[m] = jobs[m]
        BY <1>2, <2>11, <3>1
      <3>2. CASE /\ \E i \in 1..n : k = l + i /\ jobs'[k] = q[i]
                 /\ \E i \in 1..n : m = l + i /\ jobs'[m] = q[i]
        BY <2>5, <2>11, <3>2
      <3>3. CASE /\ k \in 1..l /\ jobs'[k] = jobs[k]
                 /\ \E i \in 1..n : m = l + i /\ jobs'[m] = q[i]
        BY <2>5, <2>9, <2>11, <3>3
      <3>4. CASE /\ m \in 1..l /\ jobs'[m] = jobs[m]
                 /\ \E i \in 1..n : k = l + i /\ jobs'[k] = q[i]
        BY <2>5, <2>9, <2>11, <3>4
      <3> QED
        BY <2>7, <3>1, <3>2, <3>3, <3>4
    <2>12. ASSUME Busy, pc.job.op = None, NEW k \in 1..Len(jobs'), jobs'[k].op = None
           PROVE  jobs'[k].occ # pc.job.occ
      BY <1>2, <2>5, <2>7, <2>10, <2>12
    <2>13. ASSUME NEW occ
           PROVE  (\E k \in 1..Len(jobs') : jobs'[k].op = None /\ jobs'[k].occ = occ)
                    <=> occ \in H \/ \E k \in 1..l : jobs[k].op = None /\ jobs[k].occ = occ
      <3>1. ASSUME occ \in H PROVE \E k \in 1..Len(jobs') : jobs'[k].op = None /\ jobs'[k].occ = occ
        <4>1. PICK i \in 1..n : q[i].occ = occ
          BY <2>5, <3>1
        <4>2. l + i \in 1..Len(jobs') /\ jobs'[l + i].op = None /\ jobs'[l + i].occ = occ
          BY <2>4, <2>5, <4>1
        <4> QED
          BY <4>2
      <3>2. ASSUME NEW k \in 1..l, jobs[k].op = None, jobs[k].occ = occ
            PROVE  \E m \in 1..Len(jobs') : jobs'[m].op = None /\ jobs'[m].occ = occ
        BY <2>4, <2>6, <3>2
      <3>3. ASSUME NEW k \in 1..Len(jobs'), jobs'[k].op = None, jobs'[k].occ = occ
            PROVE  occ \in H \/ \E m \in 1..l : jobs[m].op = None /\ jobs[m].occ = occ
        BY <2>5, <2>7, <3>3
      <3> QED
        BY <3>1, <3>2, <3>3
    <2>14. \A occ : occ \in guarding' <=>
             \/ Busy /\ pc.job.op = None /\ pc.job.occ = occ
             \/ \E k \in 1..Len(jobs') : jobs'[k].op = None /\ jobs'[k].occ = occ
      BY <1>2, <2>1, <2>13
    <2> QED
      BY <2>1, <2>8, <2>11, <2>12, <2>14 DEF GuardInv
  <1>6. CASE Take
    <2>1. /\ pc.at = "idle" /\ jobs # <<>> /\ jobs' = Tail(jobs) /\ guarding' = guarding
          /\ pc'.at = "fresh" /\ pc'.job = jobs[1]
      BY <1>6, TakeEffect
    <2>2. Busy' /\ ~Busy
      BY <2>1 DEF Busy
    <2>3. /\ Len(jobs') = l - 1 /\ l > 0
          /\ \A k \in 1..Len(jobs') : jobs'[k] = jobs[k + 1] /\ k + 1 \in 1..l
      BY <1>1, <2>1, TailOf
    <2> HIDE DEF l
    <2>4. 1 \in 1..l /\ \A k \in 1..Len(jobs') : 1 # k + 1
      BY <1>1, <2>3
    <2>5. \A m \in 1..l : m = 1 \/ \E k \in 1..Len(jobs') : m = k + 1
      <3> SUFFICES ASSUME NEW m \in 1..l, m # 1 PROVE \E k \in 1..Len(jobs') : m = k + 1
        OBVIOUS
      <3>1. m - 1 \in 1..Len(jobs') /\ m = (m - 1) + 1
        BY <1>1, <2>3
      <3> QED
        BY <3>1
    <2>6. \A occ : occ \in guarding <=>
             \/ jobs[1].op = None /\ jobs[1].occ = occ
             \/ \E k \in 1..Len(jobs') : jobs'[k].op = None /\ jobs'[k].occ = occ
      BY <1>2, <2>2, <2>3, <2>4, <2>5
    <2>7. \A k, m \in 1..Len(jobs') :
            jobs'[k].op = None /\ jobs'[m].op = None /\ jobs'[k].occ = jobs'[m].occ => k = m
      <3>1. \A k, m \in 1..Len(jobs') : k + 1 = m + 1 => k = m
        BY <1>1, <2>3
      <3> QED
        BY <1>2, <2>3, <3>1
    <2>8. jobs[1].op = None => \A k \in 1..Len(jobs') : jobs'[k].op = None => jobs'[k].occ # jobs[1].occ
      BY <1>2, <2>3, <2>4
    <2> QED
      BY <2>1, <2>2, <2>6, <2>7, <2>8 DEF GuardInv
  <1>7. CASE Busy /\ GuardEnds /\ jobs' = jobs
    <2>1. pc.job.op = None /\ pc'.at = "idle" /\ guarding' = guarding \ {pc.job.occ}
      BY <1>7, IdleType DEF GuardEnds
    <2>2. ~Busy'
      BY <2>1 DEF Busy
    <2> QED
      BY <1>2, <1>7, <2>1, <2>2 DEF GuardInv
  <1>8. CASE Settle
    <2>1. pc.job.op \in Ops /\ pc'.at = "idle" /\ jobs' = jobs /\ guarding' = guarding
      BY <1>8, SettleEffect
    <2>2. ~Busy' /\ pc.job.op # None
      BY <2>1, PlanAssumption DEF Busy
    <2> QED
      BY <1>2, <2>1, <2>2 DEF GuardInv
  <1>9. CASE Restart
    <2>1. /\ pc'.at = "idle" /\ guarding' = {}
          /\ \A k \in 1..Len(jobs') : jobs'[k].op # None
      BY <1>9, RestartEffect
    <2>2. ~Busy'
      BY <2>1 DEF Busy
    <2> QED
      BY <2>1, <2>2 DEF GuardInv
  <1> QED
    BY <1>3, <1>4, <1>5, <1>6, <1>7, <1>8, <1>9, QueueSteps

----------------------------------------------------------------------------
(* What operations wrote                                                   *)

\* The applier's own steps settle nothing, and only take a row to its second
\* step: a create's after its write, a snooze's whose child the view shows.
RowsWorked == /\ rows'.state = rows.state /\ rows' \in RowRecords
              /\ \/ rows'.step = rows.step
                 \/ /\ pc.job.op \in Ops /\ rows'.step[pc.job.op] = 1
                    /\ \A x \in Ops \ {pc.job.op} : rows'.step[x] = rows.step[x]
\* While a job is worked on, no other row of the journal changes.
LEMMA RowsKept ==
    ASSUME TypeInv, Attempt \/ CallAnswered \/ NotDispatched \/ Unanswered \/ Confirm \/ RereadDone
    PROVE  RowsWorked
  <1>1. rows \in RowRecords
    BY DEF TypeInv, ApplierType
  <1>2. rows' = rows \/ (pc.job.op \in Ops /\ rows' = [rows EXCEPT !.step[pc.job.op] = 1])
    <2>1. CASE Attempt
      BY <2>1, AttemptEffect DEF AttemptDecides, AttemptDeletes, AttemptCreates, AttemptSteps
    <2>2. CASE CallAnswered \/ NotDispatched \/ Unanswered
      BY <2>2, CallEffect DEF GuardEnds, OpGoesOn
    <2>3. CASE Confirm
      BY <2>3, ConfirmEffect
    <2>4. CASE RereadDone
      BY <2>4, RereadEffect
    <2> QED
      BY <2>1, <2>2, <2>3, <2>4
  <1>3. CASE rows' = rows
    BY <1>1, <1>3 DEF RowsWorked
  <1>4. CASE pc.job.op \in Ops /\ rows' = [rows EXCEPT !.step[pc.job.op] = 1]
    <2>1. /\ rows' \in RowRecords /\ rows'.state = rows.state
          /\ rows'.step[pc.job.op] = 1 /\ \A x \in Ops \ {pc.job.op} : rows'.step[x] = rows.step[x]
      BY <1>1, <1>4, RowSteps
    <2> QED
      BY <1>4, <2>1 DEF RowsWorked
  <1> QED
    BY <1>2, <1>3, <1>4

\* Reads show no more than the calendar did.
LEMMA StepCreated ==
    ASSUME TypeInv, JournalInv, QueueInv, CreatedInv, [Next]_vars
    PROVE  CreatedInv'
  <1>1. /\ WroteAll(cal.events, hist.created)
        /\ \A i \in 1..Len(wire) : WroteAll(wire[i].events, hist.created)
        /\ view # None => WroteAll(view.events, hist.created)
        /\ \A op \in hist.created : rows.state[op] # "none"
    BY DEF CreatedInv
  <1>2. wire \in Seq(ReadRecords) /\ DOMAIN wire = 1..Len(wire) /\ Len(wire) \in Nat
    <2>1. wire \in Seq(ReadRecords)
      BY DEF TypeInv, FeedType
    <2> QED
      BY <2>1, LenProperties
  <1>3. hist.created \subseteq Ops /\ rows \in RowRecords /\ hist.created \in SUBSET Ops
        /\ cal.events \in Calendars
    BY DEF TypeInv, CalType, ApplierType
  <1>4. ASSUME UNCHANGED <<cal, hist, wire, view>>, rows'.state = rows.state PROVE CreatedInv'
    BY <1>1, <1>4 DEF CreatedInv
  <1>5. CASE UNCHANGED vars
    BY <1>4, <1>5 DEF vars, ha, service
  <1>6. CASE \E op \in Ops : Journal(op)
    <2>1. PICK op \in Ops : Journal(op)
      BY <1>6
    <2>2. /\ UNCHANGED <<cal, hist, wire, view>> /\ rows'.state[op] = "pending"
          /\ \A x \in Ops \ {op} : rows'.state[x] = rows.state[x]
      BY <2>1, JournalEffect
    <2>3. \A x \in hist.created : rows'.state[x] # "none"
      BY <1>1, <1>3, <2>2
    <2> QED
      BY <1>1, <2>2, <2>3 DEF CreatedInv
  <1>7. CASE TimePasses \/ Disconnect \/ Connect \/ Subscribe \/ Push \/ EndFeed
    <2>1. /\ UNCHANGED <<cal, hist, rows>>
          /\ \/ wire' = wire /\ view' = view
             \/ /\ wire' = [i \in DOMAIN wire |-> Outdated(wire[i])]
                /\ view' = IF view = None THEN None ELSE Outdated(view)
             \/ /\ \E read \in ReadRecords : FreshRead(read) /\ wire' = Append(wire, read)
                /\ view' = view
      BY <1>7, FeedEffect
    <2>2. CASE wire' = wire /\ view' = view
      BY <1>4, <2>1, <2>2
    <2>3. CASE /\ wire' = [i \in DOMAIN wire |-> Outdated(wire[i])]
               /\ view' = IF view = None THEN None ELSE Outdated(view)
      <3>1. \A r : Outdated(r).events = r.events
        BY DEF Outdated
      <3>2. Len(wire') = Len(wire) /\ \A i \in 1..Len(wire) : wire'[i].events = wire[i].events
        BY <1>2, <2>3, <3>1
      <3>3. view' # None => view # None /\ view'.events = view.events
        BY <2>3, <3>1
      <3> QED
        BY <1>1, <2>1, <3>2, <3>3 DEF CreatedInv
    <2>4. CASE /\ \E read \in ReadRecords : FreshRead(read) /\ wire' = Append(wire, read)
               /\ view' = view
      <3>1. PICK r \in ReadRecords : FreshRead(r) /\ wire' = Append(wire, r)
        BY <2>4
      <3>2. WroteAll(r.events, hist.created)
        BY <1>1, <1>3, <3>1, VisibleType DEF FreshRead, WroteAll
      <3>3. /\ wire'[Len(wire) + 1] = r /\ \A i \in 1..Len(wire) : wire'[i] = wire[i]
            /\ \A i \in 1..Len(wire') : i \in 1..Len(wire) \/ i = Len(wire) + 1
        BY <1>2, <3>1, AppendOf
      <3>4. \A i \in 1..Len(wire') : WroteAll(wire'[i].events, hist.created)
        BY <1>1, <3>2, <3>3
      <3> QED
        BY <1>1, <2>1, <2>4, <3>4 DEF CreatedInv
    <2> QED
      BY <2>1, <2>2, <2>3, <2>4
  <1>8. CASE Publish
    <2>1. wire # <<>> /\ view'.events = wire[1].events /\ wire' = Tail(wire) /\ UNCHANGED <<cal, hist, rows>>
      BY <1>8, PublishEffect
    <2>2. Len(wire) > 0 /\ \A i \in 1..Len(wire') : wire'[i] = wire[i + 1] /\ i + 1 \in 1..Len(wire)
      BY <1>2, <2>1, TailOf
    <2>3. 1 \in 1..Len(wire)
      BY <1>2, <2>2
    <2> QED
      BY <1>1, <2>1, <2>2, <2>3 DEF CreatedInv
  <1>9. CASE Take
    BY <1>4, <1>9, TakeEffect
  <1>10. CASE Attempt \/ Confirm \/ RereadDone
    <2>1. rows'.state = rows.state
      BY <1>10, RowsKept DEF RowsWorked
    <2>2. UNCHANGED <<cal, hist, wire, view>>
      BY <1>10, AttemptEffect, ConfirmEffect, RereadEffect
    <2> QED
      BY <1>4, <2>1, <2>2
  <1>11. CASE CallAnswered \/ NotDispatched \/ Unanswered
    <2>1. rows'.state = rows.state
      BY <1>11, RowsKept DEF RowsWorked
    <2>2. /\ pc.at = "call" /\ pc.job \in Jobs /\ pc.call \in CallRecords /\ wire' = wire /\ view' = view
          /\ pc.call.kind = "create" => pc.job.op \in Ops
          /\ Wrote \/ (cal' = cal /\ hist' = hist)
      BY <1>11, CallEffect
    <2>3. CASE Wrote
      <3>1. Write /\ pc.job.op \in Writers
        BY <2>2, <2>3 DEF Wrote, Jobs
      <3>2. \/ /\ pc.call.kind = "create" /\ pc.job.op \in Ops
               /\ \E e \in EventRecords : e.op = pc.job.op /\ cal'.events = cal.events \cup {e}
               /\ hist'.created = hist.created \cup {pc.job.op}
            \/ /\ cal'.events = Without(cal.events, pc.call.target)
               /\ hist'.created = hist.created
        BY <2>2, <3>1, WriteEffect DEF TypeInv
      <3>3. CASE /\ pc.job.op \in Ops
                 /\ \E e \in EventRecords : e.op = pc.job.op /\ cal'.events = cal.events \cup {e}
                 /\ hist'.created = hist.created \cup {pc.job.op}
        <4>1. Busy /\ pc.job.op # None
          BY <2>2, <3>3, PlanAssumption DEF Busy
        <4>2. rows.state[pc.job.op] # "none"
          BY <4>1 DEF QueueInv, Pending
        <4>3. \A events : WroteAll(events, hist.created) => WroteAll(events, hist'.created)
          BY <3>3 DEF WroteAll
        <4>4. WroteAll(cal'.events, hist'.created)
          BY <1>1, <3>3 DEF WroteAll
        <4> QED
          BY <1>1, <2>1, <2>2, <3>3, <4>2, <4>3, <4>4 DEF CreatedInv
      <3>4. CASE cal'.events = Without(cal.events, pc.call.target) /\ hist'.created = hist.created
        <4>1. WroteAll(cal'.events, hist'.created)
          BY <1>1, <1>3, <3>4, WithoutType DEF WroteAll
        <4> QED
          BY <1>1, <2>1, <2>2, <3>4, <4>1 DEF CreatedInv
      <3> QED
        BY <3>2, <3>3, <3>4
    <2>4. CASE cal' = cal /\ hist' = hist
      BY <1>4, <2>1, <2>2, <2>4
    <2> QED
      BY <2>2, <2>3, <2>4
  <1>12. CASE Settle
    <2>1. /\ UNCHANGED <<cal, hist, wire, view>> /\ pc.job.op \in Ops
          /\ rows'.state[pc.job.op] \in {"applied", "rejected"}
          /\ \A x \in Ops \ {pc.job.op} : rows'.state[x] = rows.state[x]
      BY <1>12, SettleEffect
    <2>2. \A x \in hist.created : rows'.state[x] # "none"
      BY <1>1, <1>3, <2>1
    <2> QED
      BY <1>1, <2>1, <2>2 DEF CreatedInv
  <1>13. CASE Restart
    <2>1. cal' = cal /\ hist' = hist /\ rows' = rows /\ view' = None /\ wire' = <<>>
      BY <1>13, RestartEffect
    <2>2. \A i \in 1..Len(wire') : FALSE
      BY <2>1
    <2> QED
      BY <1>1, <2>1, <2>2 DEF CreatedInv
  <1>14. CASE Restore \/ UserRemoves
    <2>1. /\ \A e \in cal'.events : e.op = None \/ e \in cal.events
          /\ UNCHANGED <<hist, wire, view, rows>>
      BY <1>14, OutsideEffect
    <2>2. WroteAll(cal'.events, hist.created)
      BY <1>1, <2>1 DEF WroteAll
    <2> QED
      BY <1>1, <2>1, <2>2 DEF CreatedInv
  <1> QED
    BY <1>5, <1>6, <1>7, <1>8, <1>9, <1>10, <1>11, <1>12, <1>13, <1>14 DEF Next

\* A snooze reaches its second step, and deletes, only after its child is written.
LEMMA StepSnooze ==
    ASSUME TypeInv, JournalInv, CreatedInv, SnoozeInv, [Next]_vars
    PROVE  SnoozeInv'
  <1>1. /\ \A op \in hist.deleted : Snoozes(op) => op \in hist.created
        /\ \A op \in Ops : Snoozes(op) /\ rows.step[op] = 1 => op \in hist.created
        /\ Busy /\ Snoozes(pc.job.op) =>
             /\ pc.step = rows.step[pc.job.op]
             /\ pc.at = "call" /\ pc.call.kind # "create" => pc.step = 1
    BY DEF SnoozeInv, SnoozeKeepsAlarm, Snoozes
  <1> DEFINE PcOK == Busy' /\ Snoozes(pc'.job.op) =>
                       /\ pc'.step = rows'.step[pc'.job.op]
                       /\ pc'.at = "call" /\ pc'.call.kind # "create" => pc'.step = 1
             RowsOK == \A op \in Ops : Snoozes(op) /\ rows'.step[op] = 1 => op \in hist'.created
             HistOK == \A op \in hist'.deleted : Snoozes(op) => op \in hist'.created
  <1>2. ASSUME PcOK, RowsOK, HistOK PROVE SnoozeInv'
    BY <1>2 DEF SnoozeInv, SnoozeKeepsAlarm, Snoozes
  <1>3. ASSUME ~Busy' PROVE PcOK
    BY <1>3
  <1>4. ASSUME hist' = hist PROVE HistOK
    BY <1>1, <1>4
  <1>5. ASSUME hist' = hist, rows'.step = rows.step PROVE RowsOK
    BY <1>1, <1>5
  <1>6. ASSUME rows'.step = rows.step, pc' = pc PROVE PcOK
    BY <1>1, <1>6 DEF Busy
  <1>7. ASSUME hist' = hist, rows'.step = rows.step, pc' = pc PROVE SnoozeInv'
    BY <1>2, <1>4, <1>5, <1>6, <1>7
  <1>8. rows \in RowRecords /\ hist \in [created : SUBSET Ops, deleted : SUBSET Writers, seen : Calendars]
    BY DEF TypeInv, ApplierType, CalType
  <1>9. \A op \in Ops : op # None
    BY PlanAssumption
  <1>10. ASSUME view # None, ShowsIt(view.events, pc.job.op), pc.job.op \in Ops
         PROVE  pc.job.op \in hist.created
    BY <1>9, <1>10 DEF CreatedInv, WroteAll, ShowsIt
  <1>11. ASSUME rows' = [rows EXCEPT !.step[pc.job.op] = 1], pc.job.op \in Ops, hist' = hist,
                Snoozes(pc.job.op) => pc.job.op \in hist.created
         PROVE  RowsOK /\ rows'.step[pc.job.op] = 1
    <2>1. rows'.step[pc.job.op] = 1 /\ \A x \in Ops \ {pc.job.op} : rows'.step[x] = rows.step[x]
      BY <1>8, <1>11, RowSteps
    <2> QED
      BY <1>1, <1>11, <2>1
  <1> HIDE DEF PcOK, RowsOK, HistOK
  <1>12. CASE UNCHANGED vars
    BY <1>7, <1>12 DEF vars, ha, service
  <1>13. CASE \E op \in Ops : Journal(op)
    BY <1>7, <1>13, JournalEffect
  <1>14. CASE TimePasses \/ Disconnect \/ Connect \/ Subscribe \/ Push \/ EndFeed
    BY <1>7, <1>14, FeedEffect
  <1>15. CASE Publish
    BY <1>7, <1>15, PublishEffect
  <1>16. CASE Take
    <2>1. /\ pc'.at = "fresh" /\ pc'.job = jobs[1] /\ UNCHANGED <<rows, hist>>
          /\ jobs[1].op # None => pc'.step = rows.step[jobs[1].op]
      BY <1>16, TakeEffect
    <2>2. PcOK
      BY <2>1 DEF PcOK, Snoozes
    <2> QED
      BY <1>2, <1>4, <1>5, <2>1, <2>2
  <1>17. CASE Attempt
    <2>1. /\ pc.at = "fresh" /\ pc'.job = pc.job /\ view \in ReadRecords /\ hist' = hist
          /\ AttemptDecides \/ AttemptDeletes \/ AttemptCreates \/ AttemptSteps
      BY <1>17, AttemptEffect
    <2>2. Busy
      BY <2>1 DEF Busy
    <2>3. CASE AttemptDecides
      <3>1. pc'.at = "settle" /\ pc'.step = pc.step /\ rows' = rows
        BY <2>3 DEF AttemptDecides
      <3>2. PcOK
        BY <1>1, <2>1, <2>2, <3>1 DEF PcOK
      <3> QED
        BY <1>2, <1>4, <1>5, <2>1, <3>1, <3>2
    <2>4. CASE AttemptDeletes
      <3>1. pc'.step = pc.step /\ rows' = rows /\ (Snoozes(pc.job.op) => pc.step = 1)
        BY <2>4 DEF AttemptDeletes
      <3>2. PcOK
        BY <1>1, <2>1, <2>2, <3>1 DEF PcOK
      <3> QED
        BY <1>2, <1>4, <1>5, <2>1, <3>1, <3>2
    <2>5. CASE AttemptCreates
      <3>1. pc'.step = pc.step /\ rows' = rows /\ pc'.call.kind = "create"
        BY <2>5 DEF AttemptCreates
      <3>2. PcOK
        BY <1>1, <2>1, <2>2, <3>1 DEF PcOK
      <3> QED
        BY <1>2, <1>4, <1>5, <2>1, <3>1, <3>2
    <2>6. CASE AttemptSteps
      <3>1. /\ pc'.at = "fresh" /\ pc'.step = 1 /\ rows' = [rows EXCEPT !.step[pc.job.op] = 1]
            /\ pc.job.op \in Ops /\ ShowsIt(view.events, pc.job.op)
        BY <2>6 DEF AttemptSteps
      <3>2. view # None
        BY <1>17 DEF Attempt, Fresh
      <3>3. RowsOK /\ rows'.step[pc.job.op] = 1
        BY <1>10, <1>11, <2>1, <3>1, <3>2
      <3>4. PcOK
        BY <2>1, <3>1, <3>3 DEF PcOK
      <3> QED
        BY <1>2, <1>4, <2>1, <3>3, <3>4
    <2> QED
      BY <2>1, <2>3, <2>4, <2>5, <2>6
  <1>18. CASE CallAnswered \/ NotDispatched \/ Unanswered
    <2>1. /\ pc.at = "call" /\ pc.job \in Jobs /\ pc.call \in CallRecords
          /\ pc.call.kind = "create" => pc.job.op \in Ops
          /\ GuardEnds \/ OpGoesOn
          /\ Wrote \/ (cal' = cal /\ hist' = hist)
      BY <1>18, CallEffect
    <2>2. Busy /\ pc.job.op \in Writers
      BY <2>1 DEF Busy, Jobs
    <2>3. \A x \in Ops : rows'.step[x] = rows.step[x] \/ (x = pc.job.op /\ ~Snoozes(x))
      <3>1. CASE GuardEnds
        BY <3>1 DEF GuardEnds
      <3>2. CASE OpGoesOn /\ rows' = rows
        BY <3>2
      <3>3. CASE OpGoesOn /\ rows' # rows
        <4>1. pc.job.op \in Ops /\ Plan[pc.job.op].action = "create" /\ rows' = [rows EXCEPT !.step[pc.job.op] = 1]
          BY <3>3 DEF OpGoesOn
        <4>2. ~Snoozes(pc.job.op)
          BY <4>1 DEF Snoozes
        <4>3. \A x \in Ops \ {pc.job.op} : rows'.step[x] = rows.step[x]
          BY <1>8, <4>1, RowSteps
        <4> QED
          BY <4>2, <4>3
      <3> QED
        BY <2>1, <3>1, <3>2, <3>3
    <2>4. /\ hist.created \subseteq hist'.created
          /\ hist'.deleted = hist.deleted \/ (pc.call.kind # "create" /\ hist'.deleted = hist.deleted \cup {pc.job.op})
      <3>1. CASE Wrote
        <4>1. Write /\ CalType
          BY <3>1 DEF Wrote, TypeInv
        <4> QED
          BY <2>1, <2>2, <4>1, WriteEffect
      <3> QED
        BY <2>1, <3>1
    <2>5. RowsOK
      BY <1>1, <2>3, <2>4 DEF RowsOK
    <2>6. HistOK
      <3>1. ASSUME pc.call.kind # "create", Snoozes(pc.job.op) PROVE pc.job.op \in hist.created
        <4>1. rows.step[pc.job.op] = 1 /\ pc.job.op \in Ops
          BY <1>1, <2>1, <2>2, <3>1 DEF Snoozes, Writers
        <4> QED
          BY <1>1, <3>1, <4>1
      <3> QED
        BY <1>1, <2>4, <3>1 DEF HistOK
    <2>7. PcOK
      <3>1. CASE GuardEnds
        <4>1. ~Busy'
          BY <3>1, IdleType DEF GuardEnds, Busy
        <4> QED
          BY <1>3, <4>1
      <3>2. CASE OpGoesOn
        <4>1. /\ pc'.job = pc.job /\ pc'.step = pc.step /\ pc.job.op \in Ops
              /\ pc'.at \in {"confirm", "reread", "settle", "fresh"}
          BY <3>2 DEF OpGoesOn, Same
        <4> QED
          BY <1>1, <2>2, <2>3, <4>1 DEF PcOK
      <3> QED
        BY <2>1, <3>1, <3>2
    <2> QED
      BY <1>2, <2>5, <2>6, <2>7
  <1>19. CASE Confirm
    <2>1. /\ pc.at = "confirm" /\ pc.job.op \in Ops /\ pc'.job = pc.job /\ hist' = hist
          /\ \/ /\ pc'.at = "fresh" /\ pc'.step = 1 /\ rows' = [rows EXCEPT !.step[pc.job.op] = 1]
                /\ view # None /\ ShowsIt(view.events, pc.job.op)
             \/ pc'.at \in {"confirm", "settle"} /\ pc'.step = pc.step /\ rows' = rows
      BY <1>19, ConfirmEffect
    <2>2. Busy
      BY <2>1 DEF Busy
    <2>3. CASE /\ pc'.at = "fresh" /\ pc'.step = 1 /\ rows' = [rows EXCEPT !.step[pc.job.op] = 1]
               /\ view # None /\ ShowsIt(view.events, pc.job.op)
      <3>1. RowsOK /\ rows'.step[pc.job.op] = 1
        BY <1>10, <1>11, <2>1, <2>3
      <3>2. PcOK
        BY <2>1, <2>3, <3>1 DEF PcOK
      <3> QED
        BY <1>2, <1>4, <2>1, <3>1, <3>2
    <2>4. CASE pc'.at \in {"confirm", "settle"} /\ pc'.step = pc.step /\ rows' = rows
      <3>1. PcOK
        BY <1>1, <2>1, <2>2, <2>4 DEF PcOK
      <3> QED
        BY <1>2, <1>4, <1>5, <2>1, <2>4, <3>1
    <2> QED
      BY <2>1, <2>3, <2>4
  <1>20. CASE RereadDone
    <2>1. pc.at = "reread" /\ Same(pc') /\ pc'.at \in {"fresh", "settle"} /\ UNCHANGED <<rows, hist>>
      BY <1>20, RereadEffect
    <2>2. Busy
      BY <2>1 DEF Busy
    <2>3. PcOK
      BY <1>1, <2>1, <2>2 DEF PcOK, Same
    <2> QED
      BY <1>2, <1>4, <1>5, <2>1, <2>3
  <1>21. CASE Settle
    <2>1. pc'.at = "idle" /\ rows'.step = rows.step /\ hist' = hist
      BY <1>21, SettleEffect
    <2>2. PcOK
      BY <1>3, <2>1 DEF Busy
    <2> QED
      BY <1>2, <1>4, <1>5, <2>1, <2>2
  <1>22. CASE Restart
    <2>1. pc'.at = "idle" /\ rows' = rows /\ hist' = hist
      BY <1>22, RestartEffect
    <2>2. PcOK
      BY <1>3, <2>1 DEF Busy
    <2> QED
      BY <1>2, <1>4, <1>5, <2>1, <2>2
  <1>23. CASE Restore \/ UserRemoves
    BY <1>7, <1>23, OutsideEffect
  <1> QED
    BY <1>12, <1>13, <1>14, <1>15, <1>16, <1>17, <1>18, <1>19, <1>20, <1>21, <1>22, <1>23 DEF Next

\* As long as every call is answered, an operation writes its event once.
ShowsMost(op) == \/ pc.at \in {"confirm", "settle"} /\ pc.job.op = op
                 \/ Plan[op].action = "snooze" /\ rows.step[op] = 1
                 \/ EveryReadShows(op)

\* An unanswered call is remembered.
LEMMA UnknownKept ==
    ASSUME TypeInv, left' = left \/ \E f \in Faults : Spends(f),
           left'["unknown"] = Budget["unknown"]
    PROVE  left["unknown"] = Budget["unknown"]
  <1>1. "unknown" \in Faults /\ CalType /\ Budget["unknown"] \in Nat
    BY BoundAssumption DEF Faults, TypeInv
  <1>2. ASSUME NEW f \in Faults, Spends(f) PROVE left["unknown"] = Budget["unknown"]
    <2>1. left'[f] < Budget[f] /\ left'[f] \in Nat /\ \A g \in Faults \ {f} : left'[g] = left[g]
      BY <1>1, <1>2, SpendsEffect
    <2> QED
      BY <1>1, <2>1
  <1> QED
    BY <1>2

\* An event keeps the one occurrence its operation gave it, or goes.
LEMMA StepKeys ==
    ASSUME TypeInv, JournalInv, KeyInv, [Next]_vars
    PROVE  KeyInv'
  <1>1. \A e \in cal.events : e.op # None => e.keys = {Plan[e.op].new.key}
    BY DEF KeyInv
  <1>2. ASSUME cal' = cal PROVE KeyInv'
    BY <1>1, <1>2 DEF KeyInv
  <1>3. CASE CallAnswered \/ NotDispatched \/ Unanswered
    <2>1. /\ pc.job \in Jobs /\ pc.call \in CallRecords
          /\ pc.call.kind = "create" => pc.job.op \in Ops
          /\ Wrote \/ cal' = cal
      BY <1>3, CallEffect
    <2>2. CASE Wrote
      <3>1. Write /\ pc.job.op \in Writers /\ CalType /\ cal.events \in Calendars
        BY <2>1, <2>2 DEF Wrote, Jobs, TypeInv, CalType
      <3>2. \/ \E e \in EventRecords : e.keys = {Plan[e.op].new.key} /\ cal'.events = cal.events \cup {e}
            \/ cal'.events = Without(cal.events, pc.call.target)
        BY <2>1, <3>1, WriteEffect
      <3>3. CASE \E e \in EventRecords : e.keys = {Plan[e.op].new.key} /\ cal'.events = cal.events \cup {e}
        BY <1>1, <3>3 DEF KeyInv
      <3>4. CASE cal'.events = Without(cal.events, pc.call.target)
        <4>1. ASSUME NEW x \in cal'.events, x.op # None PROVE x.keys = {Plan[x.op].new.key}
          <5>1. PICK e \in cal.events : x.op = e.op /\ x.keys \subseteq e.keys /\ (x = e \/ x.keys # {})
            BY <3>1, <3>4, <4>1, WithoutType
          <5>2. e.keys = {Plan[e.op].new.key}
            BY <1>1, <4>1, <5>1
          <5> QED
            BY <5>1, <5>2
        <4> QED
          BY <4>1 DEF KeyInv
      <3> QED
        BY <3>2, <3>3, <3>4
    <2> QED
      BY <1>2, <2>1, <2>2
  <1>4. CASE Restore \/ UserRemoves
    <2>1. \A e \in cal'.events : e.op = None \/ e \in cal.events
      BY <1>4, OutsideEffect
    <2> QED
      BY <1>1, <2>1 DEF KeyInv
  <1>5. CASE UNCHANGED vars
    BY <1>2, <1>5 DEF vars, ha
  <1>6. CASE (\E op \in Ops : Journal(op)) \/ Publish \/ Take \/ Attempt
    BY <1>2, <1>6, JournalEffect, PublishEffect, TakeEffect, AttemptEffect
  <1>7. CASE TimePasses \/ Disconnect \/ Connect \/ Subscribe \/ Push \/ EndFeed
    BY <1>2, <1>7, FeedEffect
  <1>8. CASE Confirm \/ RereadDone \/ Settle \/ Restart
    BY <1>2, <1>8, ConfirmEffect, RereadEffect, SettleEffect, RestartEffect
  <1> QED
    BY <1>3, <1>4, <1>5, <1>6, <1>7, <1>8 DEF Next

\* A step leaves one event per effect when no answer has been lost.
LEMMA StepOnce ==
    ASSUME TypeInv, JournalInv, QueueInv, CreatedInv, SnoozeInv, KeyInv, OnceInv, [Next]_vars,
           left'["unknown"] = Budget["unknown"]
    PROVE  OnceInv'
  <1> DEFINE CalOK == NoTwo(cal'.events, Steady)
             Most(op) == \/ pc'.at \in {"confirm", "settle"} /\ pc'.job.op = op
                         \/ Plan[op].action = "snooze" /\ rows'.step[op] = 1
                         \/ /\ \A i \in 1..Len(wire') : ShowsIt(wire'[i].events, op)
                            /\ view' # None => ShowsIt(view'.events, op)
             MostOK == \A op \in Steady : rows'.state[op] = "pending" /\ ShowsIt(cal'.events, op) => Most(op)
             CallOK == pc'.at = "call" /\ pc'.call.kind = "create" /\ pc'.job.op \in Steady =>
                         ~ShowsIt(cal'.events, pc'.job.op)
  <1>22. Steady \subseteq Ops /\ Steady' \subseteq Steady
    <2>1. now' >= now /\ now \in Nat /\ now' \in Nat
      <3>1. TimeType /\ TimeType' /\ now' >= now
        BY StepTime DEF TypeInv
      <3> QED
        BY <3>1, WindowAssumption DEF TimeType
    <2> QED
      BY <2>1 DEF Steady, Framed
  <1>1. ASSUME CalOK, MostOK, CallOK PROVE OnceInv'
    <2>1. NoTwo(cal.events, Steady)'
      BY <1>1, <1>22 DEF NoTwo
    <2>2. ASSUME NEW op \in Steady', (op \in Pending)', ShowsIt(cal'.events, op)
          PROVE  \/ pc'.at \in {"confirm", "settle"} /\ pc'.job.op = op
                 \/ Plan[op].action = "snooze" /\ rows'.step[op] = 1
                 \/ EveryReadShows(op)'
      <3>1. op \in Steady /\ rows'.state[op] = "pending"
        BY <1>22, <2>2 DEF Pending
      <3> QED
        BY <1>1, <2>2, <3>1 DEF EveryReadShows
    <2>3. pc'.at = "call" /\ pc'.call.kind = "create" /\ pc'.job.op \in Steady' =>
            ~ShowsIt(cal'.events, pc'.job.op)
      BY <1>1, <1>22
    <2> QED
      BY <2>1, <2>2, <2>3 DEF OnceInv
  <1>2. left["unknown"] = Budget["unknown"]
    <2>1. left' = left \/ \E f \in Faults : Spends(f)
      <3>1. \A f \in {"unknown", "refused", "down", "crash", "restore", "remove"} : f \in Faults
        BY DEF Faults
      <3>2. CASE UNCHANGED vars
        BY <3>2 DEF vars
      <3>3. CASE \E op \in Ops : Journal(op)
        BY <3>3, JournalEffect
      <3>4. CASE TimePasses \/ Disconnect \/ Connect \/ Subscribe \/ Push \/ EndFeed
        BY <3>1, <3>4, FeedEffect
      <3>5. CASE Publish \/ Take \/ Attempt \/ Confirm \/ RereadDone \/ Settle
        BY <3>5, PublishEffect, TakeEffect, AttemptEffect, ConfirmEffect, RereadEffect, SettleEffect
      <3>6. CASE CallAnswered \/ NotDispatched \/ Unanswered
        BY <3>1, <3>6, CallEffect
      <3>7. CASE Restart
        BY <3>1, <3>7, RestartEffect
      <3>8. CASE Restore \/ UserRemoves
        BY <3>1, <3>8, OutsideEffect
      <3> QED
        BY <3>2, <3>3, <3>4, <3>5, <3>6, <3>7, <3>8 DEF Next
    <2> QED
      BY <2>1, UnknownKept
  <1>3. /\ NoTwo(cal.events, Steady)
        /\ \A op \in Steady : rows.state[op] = "pending" /\ ShowsIt(cal.events, op) => ShowsMost(op)
        /\ pc.at = "call" /\ pc.call.kind = "create" /\ pc.job.op \in Steady =>
             ~ShowsIt(cal.events, pc.job.op)
        /\ Steady \subseteq Ops
    BY <1>2, <1>22 DEF OnceInv, Pending, ShowsMost
  <1>4. rows \in RowRecords /\ cal.events \in Calendars /\ \A op \in Ops : op # None
    BY PlanAssumption DEF TypeInv, CalType, ApplierType
  <1>5. wire \in Seq(ReadRecords) /\ DOMAIN wire = 1..Len(wire) /\ Len(wire) \in Nat
    <2>1. wire \in Seq(ReadRecords)
      BY DEF TypeInv, FeedType
    <2> QED
      BY <2>1, LenProperties
  <1>6. ASSUME cal' = cal PROVE CalOK
    BY <1>3, <1>6
  <1>7. ASSUME cal' = cal, wire' = wire, view' = view, pc' = pc,
               rows'.state = rows.state, rows'.step = rows.step
        PROVE  OnceInv'
    <2>1. \A op \in Ops : ShowsMost(op) => Most(op)
      BY <1>7 DEF ShowsMost, EveryReadShows
    <2>2. MostOK /\ CallOK
      BY <1>3, <1>7, <2>1
    <2> QED
      BY <1>1, <1>6, <1>7, <2>2
  \* Nothing is known of the applier's operation but what the reads show.
  <1>8. ASSUME pc.at \notin {"confirm", "settle"}, wire' = wire, view' = view,
               \A x \in Ops : rows.step[x] = 1 => rows'.step[x] = 1,
               NEW op \in Ops, ShowsMost(op)
        PROVE  Most(op)
    BY <1>8 DEF ShowsMost, EveryReadShows
  <1>23. ASSUME NEW op \in Steady, NEW read, FreshRead(read), ShowsIt(cal.events, op)
         PROVE  ShowsIt(read.events, op)
    <2>1. PICK w \in 1..now : read.events = Visible(cal.events, Windows[w])
      BY <1>23 DEF FreshRead
    <2>2. PICK e \in cal.events : e.op = op
      BY <1>23 DEF ShowsIt
    <2>3. e.keys = {Plan[op].new.key}
      BY <1>3, <1>4, <2>2 DEF KeyInv
    <2>4. Plan[op].new.key \in Windows[w]
      BY <1>23, <2>1 DEF Steady, Framed
    <2>5. e.keys \cap Windows[w] # {}
      BY <2>3, <2>4
    <2>6. \E x \in Visible(cal.events, Windows[w]) : x.op = e.op
      BY <1>4, <2>5, VisibleType
    <2> QED
      BY <2>1, <2>2, <2>6 DEF ShowsIt
  <1> HIDE DEF CalOK, Most, MostOK, CallOK
  <1>9. ASSUME RowsWorked PROVE rows'.state = rows.state /\ \A x \in Ops : rows.step[x] = 1 => rows'.step[x] = 1
    BY <1>9 DEF RowsWorked
  <1>10. CASE UNCHANGED vars
    BY <1>7, <1>10 DEF vars, ha, service
  <1>11. CASE \E op \in Ops : Journal(op)
    <2>1. PICK op \in Ops : Journal(op)
      BY <1>11
    <2>2. /\ rows.state[op] = "none" /\ rows'.step = rows.step /\ UNCHANGED <<cal, wire, view, pc>>
          /\ \A x \in Ops \ {op} : rows'.state[x] = rows.state[x]
      BY <2>1, JournalEffect
    <2>3. ~ShowsIt(cal.events, op)
      BY <1>4, <2>2 DEF CreatedInv, WroteAll, ShowsIt
    <2>4. \A x \in Ops : ShowsMost(x) => Most(x)
      BY <2>2 DEF ShowsMost, EveryReadShows, Most
    <2>5. MostOK
      BY <1>3, <2>2, <2>3, <2>4 DEF MostOK
    <2>6. CallOK
      BY <1>3, <2>2 DEF CallOK
    <2> QED
      BY <1>1, <1>6, <2>2, <2>5, <2>6
  <1>12. CASE TimePasses \/ Disconnect \/ Connect \/ Subscribe \/ Push \/ EndFeed
    <2>1. /\ UNCHANGED <<cal, rows, pc>>
          /\ \/ wire' = wire /\ view' = view
             \/ /\ wire' = [i \in DOMAIN wire |-> Outdated(wire[i])]
                /\ view' = IF view = None THEN None ELSE Outdated(view)
             \/ /\ \E read \in ReadRecords : FreshRead(read) /\ wire' = Append(wire, read)
                /\ view' = view
      BY <1>12, FeedEffect
    <2>2. CASE wire' = wire /\ view' = view
      BY <1>7, <2>1, <2>2
    <2>3. ASSUME \A op \in Steady : ShowsIt(cal.events, op) /\ ShowsMost(op) => Most(op) PROVE OnceInv'
      <3>1. MostOK
        BY <1>3, <2>1, <2>3 DEF MostOK
      <3>2. CallOK
        BY <1>3, <2>1 DEF CallOK
      <3> QED
        BY <1>1, <1>6, <2>1, <3>1, <3>2
    <2>4. CASE /\ wire' = [i \in DOMAIN wire |-> Outdated(wire[i])]
               /\ view' = IF view = None THEN None ELSE Outdated(view)
      <3>1. \A r : Outdated(r).events = r.events
        BY DEF Outdated
      <3>2. Len(wire') = Len(wire) /\ \A i \in 1..Len(wire) : wire'[i].events = wire[i].events
        BY <1>5, <2>4, <3>1
      <3>3. view' # None => view # None /\ view'.events = view.events
        BY <2>4, <3>1
      <3>4. \A op \in Ops : ShowsMost(op) => Most(op)
        BY <2>1, <3>2, <3>3 DEF ShowsMost, EveryReadShows, Most
      <3> QED
        BY <1>3, <2>3, <3>4
    <2>5. CASE /\ \E read \in ReadRecords : FreshRead(read) /\ wire' = Append(wire, read)
               /\ view' = view
      <3>1. PICK r \in ReadRecords : FreshRead(r) /\ wire' = Append(wire, r)
        BY <2>5
      <3>3. /\ wire'[Len(wire) + 1] = r /\ \A i \in 1..Len(wire) : wire'[i] = wire[i]
            /\ \A i \in 1..Len(wire') : i \in 1..Len(wire) \/ i = Len(wire) + 1
        BY <1>5, <3>1, AppendOf
      <3>4. ASSUME NEW op \in Steady, ShowsIt(cal.events, op), EveryReadShows(op)
            PROVE  \A i \in 1..Len(wire') : ShowsIt(wire'[i].events, op)
        <4>1. ShowsIt(r.events, op)
          BY <1>23, <3>1, <3>4
        <4> QED
          BY <3>3, <3>4, <4>1 DEF EveryReadShows
      <3>5. \A op \in Steady : ShowsIt(cal.events, op) /\ ShowsMost(op) => Most(op)
        BY <2>1, <2>5, <3>4 DEF ShowsMost, EveryReadShows, Most
      <3> QED
        BY <2>3, <3>5
    <2> QED
      BY <2>1, <2>2, <2>4, <2>5
  <1>13. CASE Publish
    <2>1. wire # <<>> /\ view'.events = wire[1].events /\ wire' = Tail(wire) /\ UNCHANGED <<cal, rows, pc>>
      BY <1>13, PublishEffect
    <2>2. Len(wire) > 0 /\ \A i \in 1..Len(wire') : wire'[i] = wire[i + 1] /\ i + 1 \in 1..Len(wire)
      BY <1>5, <2>1, TailOf
    <2>3. 1 \in 1..Len(wire)
      BY <1>5, <2>2
    <2>4. \A op \in Ops : ShowsMost(op) => Most(op)
      BY <2>1, <2>2, <2>3 DEF ShowsMost, EveryReadShows, Most
    <2>5. MostOK
      BY <1>3, <2>1, <2>4 DEF MostOK
    <2>6. CallOK
      BY <1>3, <2>1 DEF CallOK
    <2> QED
      BY <1>1, <1>6, <2>1, <2>5, <2>6
  <1>14. CASE Take
    <2>1. pc.at = "idle" /\ pc'.at = "fresh" /\ UNCHANGED <<cal, wire, view, rows>>
      BY <1>14, TakeEffect
    <2>2. MostOK
      BY <1>3, <1>8, <2>1 DEF MostOK
    <2>3. CallOK
      BY <2>1 DEF CallOK
    <2> QED
      BY <1>1, <1>6, <2>1, <2>2, <2>3
  <1>15. CASE Attempt
    <2>1. /\ pc.at = "fresh" /\ pc'.job = pc.job /\ UNCHANGED <<cal, wire, view>>
          /\ AttemptDecides \/ AttemptDeletes \/ AttemptCreates \/ AttemptSteps
      BY <1>15, AttemptEffect
    <2>2. rows'.state = rows.state /\ \A x \in Ops : rows.step[x] = 1 => rows'.step[x] = 1
      BY <1>9, <1>15, RowsKept
    <2>3. MostOK
      BY <1>3, <1>8, <2>1, <2>2 DEF MostOK
    <2>4. CallOK
      <3>1. CASE AttemptCreates
        <4>1. pc.job.op \in Ops /\ ~ShowsIt(view.events, pc.job.op) /\ (Snoozes(pc.job.op) => pc.step = 0)
          BY <3>1 DEF AttemptCreates
        <4>2. Busy /\ pc.job.op # None /\ view # None
          BY <1>4, <1>15, <2>1, <4>1 DEF Busy, Attempt, Fresh
        <4>3. rows.state[pc.job.op] = "pending"
          BY <4>2 DEF QueueInv, Pending
        <4>4. ~(Plan[pc.job.op].action = "snooze" /\ rows.step[pc.job.op] = 1)
          BY <4>1, <4>2 DEF SnoozeInv, Snoozes
        <4>5. ~ShowsMost(pc.job.op)
          BY <2>1, <4>1, <4>2, <4>4 DEF ShowsMost, EveryReadShows
        <4> QED
          BY <1>3, <2>1, <4>1, <4>3, <4>5 DEF CallOK
      <3>2. CASE AttemptDecides \/ AttemptDeletes \/ AttemptSteps
        BY <3>2 DEF CallOK, AttemptDecides, AttemptDeletes, AttemptSteps
      <3> QED
        BY <2>1, <3>1, <3>2
    <2> QED
      BY <1>1, <1>6, <2>1, <2>3, <2>4
  <1>16. CASE CallAnswered \/ NotDispatched \/ Unanswered
    <2>1. /\ pc.at = "call" /\ pc.job \in Jobs /\ pc.call \in CallRecords /\ wire' = wire /\ view' = view
          /\ pc.call.kind = "create" => pc.job.op \in Ops
          /\ GuardEnds \/ OpGoesOn
          /\ Wrote \/ (cal' = cal /\ hist' = hist)
      BY <1>16, CallEffect
    <2>2. rows'.state = rows.state /\ \A x \in Ops : rows.step[x] = 1 => rows'.step[x] = 1
      BY <1>9, <1>16, RowsKept
    <2>3. pc'.at # "call" /\ (pc.job.op \in Ops => pc'.job = pc.job)
      BY <1>4, <2>1, IdleType DEF GuardEnds, OpGoesOn, Same
    <2>4. CallOK
      BY <2>3 DEF CallOK
    <2>5. \A op \in Ops : ShowsMost(op) => Most(op)
      BY <1>8, <2>1, <2>2
    <2>6. CASE cal' = cal
      <3>1. MostOK
        BY <1>3, <2>2, <2>5, <2>6 DEF MostOK
      <3> QED
        BY <1>1, <1>6, <2>4, <2>6, <3>1
    <2>7. CASE Wrote
      <3>1. Write /\ pc.job.op \in Writers /\ CalType
        BY <2>1, <2>7 DEF Wrote, Jobs, TypeInv
      <3>2. \/ /\ pc.call.kind = "create" /\ pc.job.op \in Ops
               /\ \E e \in EventRecords : e.op = pc.job.op /\ cal'.events = cal.events \cup {e}
            \/ cal'.events = Without(cal.events, pc.call.target)
        BY <2>1, <3>1, WriteEffect
      <3>3. CASE /\ pc.call.kind = "create" /\ pc.job.op \in Ops
                 /\ \E e \in EventRecords : e.op = pc.job.op /\ cal'.events = cal.events \cup {e}
        <4>1. PICK e \in EventRecords : e.op = pc.job.op /\ cal'.events = cal.events \cup {e}
          BY <3>3
        <4>2. pc.job.op \in Steady => \A x \in cal.events : x.op # pc.job.op
          BY <1>3, <2>1, <3>3 DEF ShowsIt
        <4>3. CalOK
          BY <1>3, <4>1, <4>2 DEF CalOK, NoTwo
        <4>4. pc'.at = "confirm"
          BY <1>4, <2>7, <3>3 DEF Wrote
        <4>5. Most(pc.job.op)
          BY <2>3, <3>3, <4>4 DEF Most
        <4>6. \A op \in Ops : ShowsIt(cal'.events, op) => ShowsIt(cal.events, op) \/ op = pc.job.op
          BY <4>1 DEF ShowsIt
        <4>7. MostOK
          BY <1>3, <2>2, <2>5, <4>5, <4>6 DEF MostOK
        <4> QED
          BY <1>1, <2>4, <4>3, <4>7
      <3>4. CASE cal'.events = Without(cal.events, pc.call.target)
        <4>1. CalOK /\ \A op \in Ops : ShowsIt(cal'.events, op) => ShowsIt(cal.events, op)
          BY <1>3, <1>4, <3>4, WithoutType DEF CalOK, ShowsIt
        <4>2. MostOK
          BY <1>3, <2>2, <2>5, <4>1 DEF MostOK
        <4> QED
          BY <1>1, <2>4, <4>1, <4>2
      <3> QED
        BY <3>2, <3>3, <3>4
    <2> QED
      BY <2>1, <2>6, <2>7
  <1>17. CASE Confirm
    <2>1. /\ pc.at = "confirm" /\ pc.job.op \in Ops /\ pc'.job = pc.job /\ UNCHANGED <<cal, wire, view>>
          /\ \/ /\ pc'.at = "fresh" /\ Snoozes(pc.job.op) /\ rows' = [rows EXCEPT !.step[pc.job.op] = 1]
             \/ pc'.at \in {"confirm", "settle"}
      BY <1>17, ConfirmEffect
    <2>2. rows'.state = rows.state /\ \A x \in Ops : rows.step[x] = 1 => rows'.step[x] = 1
      BY <1>9, <1>17, RowsKept
    <2>3. CallOK
      BY <2>1 DEF CallOK
    <2>4. \/ pc'.at \in {"confirm", "settle"}
          \/ Plan[pc.job.op].action = "snooze" /\ rows'.step[pc.job.op] = 1
      BY <1>4, <2>1, RowSteps DEF Snoozes
    <2>5. \A op \in Ops : ShowsMost(op) => Most(op)
      BY <2>1, <2>2, <2>4 DEF ShowsMost, EveryReadShows, Most
    <2>6. MostOK
      BY <1>3, <2>1, <2>2, <2>5 DEF MostOK
    <2> QED
      BY <1>1, <1>6, <2>1, <2>3, <2>6
  <1>18. CASE RereadDone
    <2>1. /\ pc.at = "reread" /\ Same(pc') /\ pc'.at \in {"fresh", "settle"}
          /\ UNCHANGED <<cal, wire, view, rows>>
      BY <1>18, RereadEffect
    <2>2. MostOK
      BY <1>3, <1>8, <2>1 DEF MostOK
    <2>3. CallOK
      BY <2>1 DEF CallOK
    <2> QED
      BY <1>1, <1>6, <2>1, <2>2, <2>3
  <1>19. CASE Settle
    <2>1. /\ pc'.at = "idle" /\ pc.job.op \in Ops /\ rows'.step = rows.step /\ UNCHANGED <<cal, wire, view>>
          /\ rows'.state[pc.job.op] \in {"applied", "rejected"}
          /\ \A x \in Ops \ {pc.job.op} : rows'.state[x] = rows.state[x]
      BY <1>19, SettleEffect
    <2>2. \A op \in Ops \ {pc.job.op} : ShowsMost(op) => Most(op)
      BY <2>1 DEF ShowsMost, EveryReadShows, Most
    <2>3. MostOK
      BY <1>3, <2>1, <2>2 DEF MostOK
    <2>4. CallOK
      BY <2>1 DEF CallOK
    <2> QED
      BY <1>1, <1>6, <2>1, <2>3, <2>4
  <1>20. CASE Restart
    <2>1. pc'.at = "idle" /\ cal' = cal /\ view' = None /\ wire' = <<>>
      BY <1>20, RestartEffect
    <2>2. \A i \in 1..Len(wire') : FALSE
      BY <2>1
    <2>3. \A op \in Ops : Most(op)
      BY <2>1, <2>2 DEF Most
    <2>4. MostOK
      BY <1>3, <2>3 DEF MostOK
    <2>5. CallOK
      BY <2>1 DEF CallOK
    <2> QED
      BY <1>1, <1>6, <2>1, <2>4, <2>5
  <1>21. CASE Restore \/ UserRemoves
    <2>1. /\ \A e \in cal'.events : e.op = None \/ e \in cal.events
          /\ UNCHANGED <<wire, view, rows, pc>>
      BY <1>21, OutsideEffect
    <2>2. CalOK
      BY <1>3, <1>4, <2>1 DEF CalOK, NoTwo
    <2>3. \A op \in Ops : ShowsIt(cal'.events, op) => ShowsIt(cal.events, op)
      BY <1>4, <2>1 DEF ShowsIt
    <2>4. \A op \in Ops : ShowsMost(op) => Most(op)
      BY <2>1 DEF ShowsMost, EveryReadShows, Most
    <2>5. MostOK
      BY <1>3, <2>1, <2>3, <2>4 DEF MostOK
    <2>6. CallOK
      <3>1. pc.at = "call" /\ pc.call.kind = "create" => pc.job.op \in Ops
        BY DEF TypeInv, ApplierType
      <3> QED
        BY <1>3, <2>1, <2>3, <3>1 DEF CallOK
    <2> QED
      BY <1>1, <2>2, <2>5, <2>6
  <1> QED
    BY <1>10, <1>11, <1>12, <1>13, <1>14, <1>15, <1>16, <1>17, <1>18, <1>19, <1>20, <1>21 DEF Next

----------------------------------------------------------------------------
(* Theorems                                                                *)

Inv == TypeInv /\ JournalInv /\ QueueInv /\ GuardInv /\ CreatedInv /\ SnoozeInv /\ KeyInv /\ OnceInv

\* Every behaviour starts with a calendar no operation wrote to.
LEMMA InitInv == Init => Inv
  <1> SUFFICES ASSUME Init PROVE Inv
    OBVIOUS
  <1> DEFINE start == SetToSeq(Events0)
             made == [i \in DOMAIN start |-> Event(i, start[i].sched, None, start[i].keys)]
             events == {made[i] : i \in DOMAIN start}
  <1>1. start \in Seq(Events0) /\ DOMAIN start = 1..Len(start) /\ Len(start) \in Nat
    BY EventsAssumption, SetToSeqOf
  <1>2. \A i \in DOMAIN start : start[i] \in Events0
    BY <1>1, ElementOfSeq
  <1>3. events = {Event(i, start[i].sched, None, start[i].keys) : i \in DOMAIN start}
    OBVIOUS
  <1>4. /\ cal = [events |-> events, uids |-> Len(start)]
        /\ hist = [created |-> {}, deleted |-> {}, seen |-> events]
    BY <1>3 DEF Init
  <1>5. ASSUME NEW i \in DOMAIN start PROVE made[i] \in EventRecords /\ made[i].op = None
    <2>1. start[i].sched \in Scheds /\ start[i].keys \subseteq Keys /\ IsFiniteSet(start[i].keys)
      BY <1>2, <1>5, EventsAssumption DEF Scheds, Keys
    <2>2. i \in Nat
      BY <1>1, <1>5
    <2> QED
      BY <1>5, <2>1, <2>2 DEF Event, EventRecords, FiniteKeys, Writers
  <1> HIDE DEF start, made
  <1>6. IsFiniteSet(DOMAIN start)
    BY <1>1, FS_Interval
  <1>7. IsFiniteSet(events)
    BY <1>6, FiniteImage
  <1>8. events \in Calendars /\ \A e \in events : e.op = None
    BY <1>5, <1>7 DEF Calendars
  <1> HIDE DEF events
  <1>9. /\ conn = FALSE /\ owed = FALSE /\ wire = <<>> /\ view = None /\ newer = FALSE
        /\ jobs = <<>> /\ guarding = {} /\ pc = IdlePc /\ left = Budget
        /\ rows = [state |-> [op \in Ops |-> "none"], step |-> [op \in Ops |-> 0], order |-> <<>>]
    BY DEF Init
  <1>10. pc \in PcRecords /\ pc.at = "idle" /\ ~Busy
    BY <1>9, IdleType DEF Busy
  <1>11. rows \in RowRecords /\ rows.order = <<>> /\ \A op \in Ops : rows.state[op] = "none" /\ rows.step[op] = 0
    <2>1. <<>> \in Seq(Ops)
      BY EmptySeq
    <2> QED
      BY <1>9, <2>1 DEF RowRecords, States
  <1>12. Len(jobs) = 0 /\ Len(wire) = 0 /\ Len(rows.order) = 0 /\ jobs \in Seq(Jobs) /\ wire \in Seq(ReadRecords)
    BY <1>9, <1>11, EmptySeq
  <1>13. CalType
    <2>1. Budget \in [Faults -> Nat] /\ \A f \in Faults : Budget[f] <= Budget[f]
      BY BoundAssumption
    <2> QED
      BY <1>1, <1>4, <1>8, <1>9, <2>1 DEF CalType
  <1>14. FeedType
    <2>1. Len(wire) <= MaxWire
      BY <1>12, BoundAssumption
    <2>2. view \in ReadRecords \cup {None} /\ newer \in BOOLEAN
      BY <1>9
    <2> QED
      BY ONLY <1>12, <2>1, <2>2 DEF FeedType
  <1>15. ApplierType
    BY ONLY <1>10, <1>11, <1>12 DEF ApplierType
  <1>16. \A i \in 1..0 : FALSE
    OBVIOUS
  <1>17. JournalInv
    BY <1>11, <1>12, <1>16 DEF JournalInv
  <1>18. Pending = {}
    BY <1>11 DEF Pending
  <1>19. QueueInv
    BY <1>10, <1>12, <1>16, <1>18 DEF QueueInv
  <1>20. GuardInv
    BY <1>9, <1>10, <1>12, <1>16 DEF GuardInv
  <1>21. CreatedInv
    BY <1>4, <1>8, <1>9, <1>12, <1>16 DEF CreatedInv, WroteAll
  <1>22. SnoozeInv
    BY <1>4, <1>10, <1>11 DEF SnoozeInv, SnoozeKeepsAlarm
  <1>23. OnceInv
    <2>1. NoTwo(cal.events, Steady)
      BY <1>4, <1>8, PlanAssumption DEF NoTwo, Steady
    <2> QED
      BY <1>10, <1>18, <2>1 DEF OnceInv
  <1>24. KeyInv
    BY <1>4, <1>8 DEF KeyInv
  <1>25. TimeType
    BY WindowAssumption DEF Init, TimeType
  <1> QED
    BY <1>13, <1>14, <1>15, <1>17, <1>19, <1>20, <1>21, <1>22, <1>23, <1>24, <1>25 DEF Inv, TypeInv

\* Every step keeps the invariant.
LEMMA StepInv == Inv /\ [Next]_vars => Inv'
  <1> SUFFICES ASSUME Inv, [Next]_vars PROVE Inv'
    OBVIOUS
  <1>1. TypeInv /\ JournalInv /\ QueueInv /\ GuardInv /\ CreatedInv /\ SnoozeInv /\ KeyInv /\ OnceInv
    BY DEF Inv
  <1>2. TypeInv'
    <2>1. CASE Next
      BY <1>1, <2>1, StepCal, StepFeed, StepTime, StepApplier DEF TypeInv
    <2>2. CASE UNCHANGED vars
      BY <1>1, <2>2 DEF vars, ha, stream, service, TypeInv, CalType, FeedType, TimeType, ApplierType
    <2> QED
      BY <2>1, <2>2
  <1>3. JournalInv'
    BY <1>1, StepJournal
  <1>4. QueueInv'
    BY <1>1, StepQueue
  <1>5. GuardInv'
    BY <1>1, StepGuard
  <1>6. CreatedInv'
    BY <1>1, StepCreated
  <1>7. SnoozeInv'
    BY <1>1, StepSnooze
  <1>9. KeyInv'
    BY <1>1, StepKeys
  <1>8. OnceInv'
    <2>1. CASE left'["unknown"] = Budget["unknown"]
      BY <1>1, <2>1, StepOnce
    <2>2. CASE left'["unknown"] # Budget["unknown"]
      BY <2>2 DEF OnceInv
    <2> QED
      BY <2>1, <2>2
  <1> QED
    BY <1>2, <1>3, <1>4, <1>5, <1>6, <1>7, <1>8, <1>9 DEF Inv

\* The inductive invariant holds of every behaviour.
THEOREM Invariance == Spec => []Inv
  <1>1. Init => Inv
    BY InitInv
  <1>2. Inv /\ [Next]_vars => Inv'
    BY StepInv
  <1> QED
    BY <1>1, <1>2, PTL DEF Spec

\* TypeOK of AlertApplier: the applier works on a pending operation, and each
\* occurrence that the guard deletes again has exactly one job for it.
THEOREM Typed == Spec => []TypeOK
  <1>1. Inv => TypeOK
    <2> SUFFICES ASSUME Inv PROVE TypeOK
      OBVIOUS
    <2>1. TypeInv /\ QueueInv /\ GuardInv
      BY DEF Inv
    <2>2. Len(wire) <= MaxWire /\ newer \in BOOLEAN /\ owed \in BOOLEAN
      BY <2>1 DEF TypeInv, CalType, FeedType
    <2>3. pc.at # "idle" /\ pc.job.op # None => pc.job.op \in Pending
      BY <2>1 DEF QueueInv, Busy
    <2>4. DOMAIN jobs = 1..Len(jobs)
      <3>1. jobs \in Seq(Jobs)
        BY <2>1 DEF TypeInv, ApplierType
      <3> QED
        BY <3>1, LenProperties
    <2> DEFINE queued == {jobs[i].occ : i \in {j \in DOMAIN jobs : jobs[j].op = None}}
               held == IF pc.at # "idle" /\ pc.job.op = None THEN {pc.job.occ} ELSE {}
    <2>5. ASSUME NEW occ PROVE occ \in guarding <=> occ \in queued \cup held
      <3>1. occ \in queued <=> \E k \in 1..Len(jobs) : jobs[k].op = None /\ jobs[k].occ = occ
        BY <2>4
      <3>2. occ \in held <=> Busy /\ pc.job.op = None /\ pc.job.occ = occ
        BY DEF Busy
      <3> HIDE DEF queued, held
      <3>3. occ \in guarding <=>
              \/ Busy /\ pc.job.op = None /\ pc.job.occ = occ
              \/ \E k \in 1..Len(jobs) : jobs[k].op = None /\ jobs[k].occ = occ
        BY <2>1 DEF GuardInv
      <3> QED
        BY <3>1, <3>2, <3>3
    <2>6. guarding = queued \cup held
      BY <2>5
    <2> QED
      BY <2>2, <2>3, <2>6 DEF TypeOK
  <1> QED
    BY <1>1, Invariance, PTL

\* InOrder of AlertApplier: across restarts, no call is made for an operation
\* before every operation journaled earlier is settled.
THEOREM Ordered == Spec => []InOrder
  <1>1. Inv => InOrder
    <2> SUFFICES ASSUME Inv, pc.at = "call", pc.job.op # None, NEW op \in Ops,
                        Earlier(rows.order, op, pc.job.op)
                 PROVE  op \in Settled
      BY DEF InOrder
    <2>1. TypeInv /\ JournalInv /\ QueueInv
      BY DEF Inv
    <2>2. ~Earlier(rows.order, pc.job.op, op) /\ op # pc.job.op /\ rows.state[op] # "none"
      BY <2>1, EarlierOrder
    <2>3. Busy
      BY DEF Busy
    <2>4. op \notin Pending
      <3>1. ASSUME NEW k \in 1..Len(jobs), jobs[k].op = op PROVE FALSE
        <4>1. op # None
          BY PlanAssumption
        <4>2. Earlier(rows.order, pc.job.op, op)
          BY <2>1, <2>3, <3>1, <4>1 DEF QueueInv
        <4> QED
          BY <2>2, <4>2
      <3> QED
        BY <2>1, <2>2, <3>1 DEF QueueInv
    <2>5. rows.state[op] \in States
      BY <2>1 DEF TypeInv, ApplierType, RowRecords
    <2> QED
      BY <2>2, <2>4, <2>5 DEF Settled, Pending, States
  <1> QED
    BY <1>1, Invariance, PTL

\* SnoozeKeepsAlarm of AlertApplier: whatever calls fail and restarts come, a
\* snooze deletes its parent only after its child was written.
THEOREM Snoozed == Spec => []SnoozeKeepsAlarm
  <1>1. Inv => SnoozeKeepsAlarm
    BY DEF Inv, SnoozeInv
  <1> QED
    BY <1>1, Invariance, PTL

\* NoDuplicate of AlertApplier: as long as every call is answered, no restart
\* makes an operation write twice an event that is due in every window.
THEOREM Once == Spec => []NoDuplicate
  <1>1. Inv => NoDuplicate
    <2> SUFFICES ASSUME Inv, left["unknown"] = Budget["unknown"],
                        NEW e \in cal.events, NEW f \in cal.events,
                        e.op = f.op, e.op # None, Framed(e.op)
                 PROVE  e = f
      BY DEF NoDuplicate
    <2>1. e.op \in Ops
      BY DEF Inv, TypeInv, CalType, Calendars, EventRecords, Writers
    <2> QED
      BY <2>1 DEF Inv, OnceInv, NoTwo, Steady
  <1> QED
    BY <1>1, Invariance, PTL

==============================================================================
