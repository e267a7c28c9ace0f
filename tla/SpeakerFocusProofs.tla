------------------------- MODULE SpeakerFocusProofs -------------------------
(***************************************************************************)
(* Theorems about SpeakerFocus for every set of leases, candidates,        *)
(* playbacks and alerts, every time and every number of goroutines.        *)
(***************************************************************************)
EXTENDS SpeakerFocus, FiniteSetTheorems, QueueLemmas

\* What goroutines have left to do, and what the mixer reports.
Deeds == {"apply", "cancel", "mixend", "expired", "forgot", "noted", "focus", "stopped", "burst"}
Fits(do, of) ==
    /\ do = "apply" => of \in BOOLEAN
    /\ do = "cancel" => of \in Playbacks
    /\ do = "expired" => of \in Ids
    /\ do \in {"noted", "forgot"} => of \in Leases
    /\ do = "focus" => of \in Alerts \cup {None}
    /\ do \in {"stopped", "burst"} => of \in Alerts
Acts ==
    {a \in [do : Deeds, of : Ids \cup Playbacks \cup Alerts \cup {None} \cup BOOLEAN] :
        Fits(a.do, a.of)}
Reports == [ev : {"start", "finished"}, of : Playbacks]
Content(q) == {q[i] : i \in 1..Len(q)}
ExpiredAct(l) == [do |-> "expired", of |-> l]
StartOf(p) == [ev |-> "start", of |-> p]
FinishedOf(p) == [ev |-> "finished", of |-> p]

Fields == {"leases", "prov", "ducks", "alert", "bg", "bgFor", "budget", "spent", "yieldIn",
           "yielded", "dialog", "pending", "out"}
Shape(x) == DOMAIN x = Fields

LeaseRecords == [left : 0..TTL, converted : BOOLEAN]
LeaseMaps == [Ids -> {None} \cup LeaseRecords]

\* A manager, within an update or between two.
IsManager(x) ==
    /\ Shape(x)
    /\ x.leases \in LeaseMaps
    /\ \A l \in Leases : x.leases[l] # None => ~x.leases[l].converted
    /\ x.alert \in Alerts \cup {None} /\ x.dialog \in Playbacks \cup {None}
    /\ x.bg \in BOOLEAN /\ x.spent \in BOOLEAN /\ x.yielded \in BOOLEAN
    /\ x.bgFor \in Nat /\ x.budget \in Nat /\ x.yieldIn \in Nat \cup {None}
    /\ x.pending \in Seq(Acts)

\* The background budget, and what is left of an alert that ended: nothing.
BudgetOK(x) ==
    /\ ~x.bg => x.bgFor = 0
    /\ ~x.spent => x.budget < AlertBackgroundCap
    /\ x.budget + x.bgFor <= AlertBackgroundCap
    /\ x.alert = None => ~x.bg /\ ~x.spent /\ x.budget = 0 /\ x.yieldIn = None
    /\ x.spent => ~x.bg /\ x.dialog = None

\* The decision of the last update: output holds a due alert in the background.
Decided(x) == x.alert # None /\ ~x.spent /\ x.dialog # None /\ ~x.yielded => x.bg

\* The deadlines that an update has dealt with.
Prompt(x) ==
    /\ x.bg => x.budget + x.bgFor < AlertBackgroundCap
    /\ x.yieldIn # 0

Pending(a) == \E t \in Threads : a \in Content(acts[t])

TypeInv ==
    /\ IsManager(m) /\ m.pending = <<>>
    /\ acts \in [Threads -> Seq(Acts)]
    /\ mix \in [cur : Playbacks \cup {None}, started : BOOLEAN, events : Seq(Reports)]
    /\ ex \in [ringing : Alerts \cup {None}, told : {None} \cup [id : Alerts, fg : BOOLEAN],
               background : BOOLEAN, burst : Alerts \cup {None}]
    /\ sup \in [leases : SUBSET Leases, focus : Alerts \cup {None}]
    /\ ghost \in [silent : Nat, over : Playbacks \cup {None}, waits : Nat]
    /\ ticked \in BOOLEAN
    /\ Cardinality(Busy) <= MaxBusy

ManagerInv == BudgetOK(m) /\ Decided(m) /\ (ticked => Prompt(m))

\* Which goroutine does what.
ToldId == IF ex.told = None THEN None ELSE ex.told.id
ActInv ==
    \A t \in Threads : \A a \in Content(acts[t]) :
        /\ a.do = "focus" => t = "alert" /\ acts[t] = <<a>> /\ a.of = ToldId
        /\ a.do = "stopped" => a.of # ex.ringing
        /\ a.do = "noted" => t = "link"

\* The supervisor's leases follow the manager's, but for what is under way.
Gone(l) == Pending([do |-> "expired", of |-> l]) \/ Pending([do |-> "forgot", of |-> l])
Noted(l) == Pending([do |-> "noted", of |-> l])
LeaseOK(l) ==
    /\ Noted(l) => m.leases[l] # None /\ m.leases[l].left # 0
    /\ Gone(l) => m.leases[l] = None
    /\ ~Noted(l) /\ ~Gone(l) => (l \in sup.leases <=> m.leases[l] # None)
LeaseInv == \A l \in Leases : LeaseOK(l)

\* The manager's alert follows what the executor told, unless it was stopped.
NoReport == \A t \in Threads : \A a \in Content(acts[t]) : a.do # "focus"
AlertInv ==
    /\ NoReport => sup.focus = ToldId
    /\ m.alert \in {None, sup.focus}
    /\ m.alert # sup.focus => ex.ringing # sup.focus

\* The silence of the alert is within its budget, but for a burst not yet told.
SilentInv ==
    /\ ghost.silent <= m.budget + m.bgFor + 1
    /\ m.alert = None => ghost.silent = 0
    /\ ex.burst # None /\ ex.burst = m.alert => ghost.silent <= IF ticked THEN 0 ELSE 1
    /\ \A t \in Threads : \A a \in Content(acts[t]) :
         a.do = "burst" /\ a.of = m.alert => ghost.silent <= 1

\* The reports of the mixer are about its output, and each is made once.
MixInv ==
    /\ mix.started => mix.cur # None
    /\ \A p \in Playbacks :
         /\ FinishedOf(p) \in Content(mix.events) => p # mix.cur
         /\ StartOf(p) \in Content(mix.events) =>
              /\ mix.cur # None => p = mix.cur /\ mix.started
              /\ m.dialog # p /\ ghost.over # p
    /\ \A i, j \in 1..Len(mix.events) :
         mix.events[i].ev = "start" /\ mix.events[j].ev = "start" => i = j
    /\ mix.cur # None /\ ~mix.started => m.dialog # mix.cur /\ ghost.over # mix.cur

\* What is heard is the manager's output, or its start or its end is under way.
DialogInv ==
    mix.started => \/ StartOf(mix.cur) \in Content(mix.events)
                   \/ m.dialog = mix.cur
                   \/ Pending(CancelAct(mix.cur))

\* Output an alert found playing has its time counted down, or is being stopped.
YieldInv ==
    /\ ghost.waits <= AlertYield
    /\ ghost.over # None /\ mix.cur = ghost.over /\ ~Pending(CancelAct(ghost.over)) =>
         m.dialog = ghost.over /\ m.yieldIn # None /\ ghost.waits + m.yieldIn <= AlertYield

Inv ==
    TypeInv /\ ManagerInv /\ ActInv /\ LeaseInv /\ AlertInv /\ SilentInv /\ MixInv /\ DialogInv
    /\ YieldInv

----------------------------------------------------------------------------
(* What is in a queue                                                      *)

\* An entry is in a queue at some place.
LEMMA InContent ==
    ASSUME NEW q, NEW v
    PROVE  v \in Content(q) <=> \E i \in 1..Len(q) : q[i] = v
  BY DEF Content

\* A queue holds entries of its type, and an empty one holds none.
LEMMA ContentOf ==
    ASSUME NEW S, NEW q \in Seq(S)
    PROVE  Content(q) \subseteq S /\ (Content(q) = {} <=> q = <<>>)
  <1>1. Len(q) \in Nat /\ \A i \in 1..Len(q) : q[i] \in S
    BY LenProperties, ElementOfSeq
  <1>2. Content(q) \subseteq S
    BY <1>1 DEF Content
  <1>3. ASSUME q = <<>> PROVE Content(q) = {}
    BY <1>3, EmptySeq DEF Content
  <1>4. ASSUME q # <<>> PROVE Content(q) # {}
    <2>1. 1 \in 1..Len(q)
      BY <1>1, <1>4, TailOf
    <2>2. q[1] \in Content(q)
      BY <2>1 DEF Content
    <2> QED
      BY <2>2
  <1> QED
    BY <1>2, <1>3, <1>4

\* Appending adds an entry.
LEMMA ContentAppend ==
    ASSUME NEW S, NEW q \in Seq(S), NEW v \in S
    PROVE  Append(q, v) \in Seq(S) /\ Content(Append(q, v)) = Content(q) \cup {v}
  <1> DEFINE r == Append(q, v)
  <1>1. /\ r \in Seq(S) /\ Len(q) \in Nat /\ Len(r) = Len(q) + 1 /\ r[Len(q) + 1] = v
        /\ \A i \in 1..Len(q) : r[i] = q[i]
        /\ \A i \in 1..Len(r) : i \in 1..Len(q) \/ i = Len(q) + 1
    BY AppendOf
  <1> HIDE DEF r
  <1>2. Len(q) + 1 \in 1..Len(r) /\ \A i \in 1..Len(q) : i \in 1..Len(r)
    BY <1>1
  <1>3. Content(r) \subseteq Content(q) \cup {v}
    BY <1>1 DEF Content
  <1>4. Content(q) \cup {v} \subseteq Content(r)
    BY <1>1, <1>2 DEF Content
  <1>5. r \in Seq(S) /\ Content(r) = Content(q) \cup {v}
    BY <1>1, <1>3, <1>4
  <1> QED
    BY <1>5 DEF r

\* A queue behind another.
LEMMA ContentConcat ==
    ASSUME NEW S, NEW q \in Seq(S), NEW r \in Seq(S)
    PROVE  q \o r \in Seq(S) /\ Content(q \o r) = Content(q) \cup Content(r)
  <1> DEFINE c == q \o r
  <1>1. /\ c \in Seq(S) /\ Len(q) \in Nat /\ Len(r) \in Nat /\ Len(c) = Len(q) + Len(r)
        /\ \A i \in 1..Len(q) : c[i] = q[i]
        /\ \A i \in 1..Len(r) : c[Len(q) + i] = r[i] /\ Len(q) + i \in 1..Len(c)
        /\ \A i \in 1..Len(c) : i \in 1..Len(q) \/ \E k \in 1..Len(r) : i = Len(q) + k
    BY ConcatOf
  <1> HIDE DEF c
  <1>2. \A i \in 1..Len(q) : i \in 1..Len(c)
    BY <1>1
  <1>3. ASSUME NEW v \in Content(c) PROVE v \in Content(q) \cup Content(r)
    <2>1. PICK i \in 1..Len(c) : c[i] = v
      BY <1>3 DEF Content
    <2>2. CASE i \in 1..Len(q)
      BY <1>1, <2>1, <2>2 DEF Content
    <2>3. CASE \E k \in 1..Len(r) : i = Len(q) + k
      BY <1>1, <2>1, <2>3 DEF Content
    <2> QED
      BY <1>1, <2>2, <2>3
  <1>4. ASSUME NEW v \in Content(q) PROVE v \in Content(c)
    BY <1>1, <1>2, <1>4 DEF Content
  <1>5. ASSUME NEW v \in Content(r) PROVE v \in Content(c)
    BY <1>1, <1>5 DEF Content
  <1>6. Content(c) = Content(q) \cup Content(r)
    BY <1>3, <1>4, <1>5
  <1> QED
    BY <1>1, <1>6 DEF c

\* The head of a queue and what is behind it.
LEMMA ContentTail ==
    ASSUME NEW S, NEW q \in Seq(S), q # <<>>
    PROVE  /\ Tail(q) \in Seq(S) /\ Head(q) \in S
           /\ Content(q) = Content(Tail(q)) \cup {Head(q)}
  <1> DEFINE r == Tail(q)
  <1>1. /\ r \in Seq(S) /\ Len(r) = Len(q) - 1 /\ Len(q) \in Nat /\ Len(q) > 0
        /\ Head(q) = q[1] /\ q[1] \in S
        /\ \A i \in 1..Len(r) : r[i] = q[i + 1] /\ i + 1 \in 1..Len(q)
    BY TailOf
  <1> HIDE DEF r
  <1>2. ASSUME NEW v \in Content(q), v # q[1] PROVE v \in Content(r)
    <2>1. PICK i \in 1..Len(q) : q[i] = v
      BY <1>2 DEF Content
    <2>2. i - 1 \in 1..Len(r) /\ (i - 1) + 1 = i
      BY <1>1, <1>2, <2>1
    <2>3. r[i - 1] = v
      BY <1>1, <2>1, <2>2
    <2> QED
      BY <2>2, <2>3 DEF Content
  <1>3. ASSUME NEW v \in Content(r) PROVE v \in Content(q)
    BY <1>1, <1>3 DEF Content
  <1>4. q[1] \in Content(q)
    BY <1>1 DEF Content
  <1>5. r \in Seq(S) /\ Head(q) \in S /\ Content(q) = Content(r) \cup {Head(q)}
    BY <1>1, <1>2, <1>3, <1>4
  <1> QED
    BY <1>5 DEF r

\* A queue of one.
LEMMA ContentOne ==
    ASSUME NEW S, NEW v \in S
    PROVE  <<v>> \in Seq(S) /\ Content(<<v>>) = {v}
  <1>1. <<v>> \in Seq(S) /\ Len(<<v>>) = 1 /\ <<v>>[1] = v
    OBVIOUS
  <1>2. 1..1 = {1}
    OBVIOUS
  <1> QED
    BY <1>1, <1>2 DEF Content

----------------------------------------------------------------------------
(* The operations of the manager                                           *)

\* The alert's part of the manager is left alone.
SameAlert(x, y) ==
    /\ y.alert = x.alert /\ y.bg = x.bg /\ y.bgFor = x.bgFor /\ y.budget = x.budget
    /\ y.spent = x.spent /\ y.yieldIn = x.yieldIn

\* Only cancellations and mixer settings are queued.
Grows(p, q) ==
    /\ Content(p) \subseteq Content(q)
    /\ \A a \in Content(q) \ Content(p) : a.do \in {"apply", "cancel"}

\* The output stays or is cancelled.
Drops(x, y) ==
    /\ Grows(x.pending, y.pending)
    /\ \/ y.dialog = x.dialog
       \/ /\ x.dialog # None /\ y.dialog = None
          /\ CancelAct(x.dialog) \in Content(y.pending)

\* What the manager queues is something a goroutine can do.
LEMMA ActsFit ==
    /\ \A p \in Playbacks : CancelAct(p) \in Acts /\ CancelAct(p).do = "cancel"
    /\ \A l \in Ids : ExpiredAct(l) \in Acts
    /\ \A b \in BOOLEAN : [do |-> "apply", of |-> b] \in Acts
    /\ \A l \in Leases : [do |-> "noted", of |-> l] \in Acts /\ [do |-> "forgot", of |-> l] \in Acts
    /\ \A a \in Alerts : [do |-> "stopped", of |-> a] \in Acts /\ [do |-> "burst", of |-> a] \in Acts
    /\ \A a \in Alerts \cup {None} : [do |-> "focus", of |-> a] \in Acts
    /\ [do |-> "mixend", of |-> None] \in Acts
  <1>1. \A p \in Playbacks : CancelAct(p) \in Acts /\ CancelAct(p).do = "cancel"
    BY DEF Acts, Fits, CancelAct, Deeds
  <1>2. \A l \in Ids : ExpiredAct(l) \in Acts
    BY DEF Acts, Fits, ExpiredAct, Deeds
  <1>3. \A b \in BOOLEAN : [do |-> "apply", of |-> b] \in Acts
    BY DEF Acts, Fits, Deeds
  <1>4. \A l \in Leases : [do |-> "noted", of |-> l] \in Acts /\ [do |-> "forgot", of |-> l] \in Acts
    BY DEF Acts, Fits, Deeds, Ids
  <1>5. \A a \in Alerts : [do |-> "stopped", of |-> a] \in Acts /\ [do |-> "burst", of |-> a] \in Acts
    BY DEF Acts, Fits, Deeds
  <1>6. \A a \in Alerts \cup {None} : [do |-> "focus", of |-> a] \in Acts
    BY DEF Acts, Fits, Deeds
  <1>7. [do |-> "mixend", of |-> None] \in Acts
    BY DEF Acts, Fits, Deeds
  <1> QED
    BY <1>1, <1>2, <1>3, <1>4, <1>5, <1>6, <1>7

\* None is not an id, and leases are not candidates.
LEMMA NoneIsNone ==
    /\ None \notin Nat /\ None \notin Alerts /\ None \notin Playbacks
    /\ None \notin LeaseRecords /\ None \notin [id : Alerts, fg : BOOLEAN]
  BY NoneAssumption, TimeAssumption DEF LeaseRecords

LEMMA GrowsSame == ASSUME NEW p PROVE Grows(p, p)
  BY DEF Grows

\* Dropping twice is dropping.
LEMMA DropsTwice ==
    ASSUME NEW x, NEW y, NEW z, Drops(x, y), Drops(y, z)
    PROVE  Drops(x, z)
  BY DEF Drops, Grows

\* cancelDialogLocked.
LEMMA CancelEffect ==
    ASSUME NEW x, IsManager(x), NEW y, y = CancelDialogLocked(x)
    PROVE  /\ IsManager(y) /\ SameAlert(x, y) /\ Drops(x, y) /\ y.dialog = None
           /\ y.leases = x.leases /\ y.prov = x.prov /\ y.yielded = x.yielded
  <1>1. CASE x.dialog = None
    BY <1>1, GrowsSame DEF CancelDialogLocked, SameAlert, Drops
  <1>2. CASE x.dialog # None
    <2>1. CancelAct(x.dialog) \in Acts /\ CancelAct(x.dialog).do = "cancel"
      BY <1>2, ActsFit DEF IsManager
    <2> DEFINE q == Append(x.pending, CancelAct(x.dialog))
    <2>2. q \in Seq(Acts) /\ Content(q) = Content(x.pending) \cup {CancelAct(x.dialog)}
      BY <2>1, ContentAppend DEF IsManager
    <2>3. y = [[x EXCEPT !.dialog = None] EXCEPT !.pending = Append(@, CancelAct(x.dialog))]
      BY <1>2 DEF CancelDialogLocked, Queue
    <2>4. /\ Shape(y) /\ y.dialog = None /\ y.pending = q /\ SameAlert(x, y)
          /\ y.leases = x.leases /\ y.prov = x.prov /\ y.yielded = x.yielded
      BY <2>3 DEF IsManager, Shape, Fields, SameAlert
    <2> HIDE DEF q
    <2>5. Drops(x, y)
      BY <1>2, <2>1, <2>2, <2>4 DEF Drops, Grows
    <2>6. IsManager(y)
      BY <2>2, <2>4 DEF IsManager, SameAlert
    <2> QED
      BY <2>4, <2>5, <2>6
  <1> QED
    BY <1>1, <1>2

\* What expireLocked does to w: every lease whose time is up is gone, its callback
\* is queued, and the output may be cancelled.
Expires(w, x) ==
    /\ SameAlert(w, x)
    /\ \A l \in Ids : x.leases[l] = IF l \in Expired(w) THEN None ELSE w.leases[l]
    /\ \A l \in Expired(w) : ExpiredAct(l) \in Content(x.pending)
    /\ \A a \in Content(x.pending) :
         a.do \in {"apply", "cancel"} \/ \E l \in Expired(w) : a = ExpiredAct(l)
    /\ \/ x.dialog = w.dialog
       \/ /\ w.dialog # None /\ x.dialog = None
          /\ CancelAct(w.dialog) \in Content(x.pending)

\* The callbacks of the expired leases, in any order.
LEMMA CallbackEffect ==
    ASSUME NEW S \in SUBSET Ids, NEW order \in Orders(S)
    PROVE  /\ Callbacks(order) \in Seq(Acts)
           /\ Content(Callbacks(order)) = {ExpiredAct(l) : l \in S}
  <1> DEFINE n == Cardinality(S)
             q == Callbacks(order)
  <1>1. n \in Nat
    <2>1. IsFiniteSet(S)
      BY IdAssumption, FS_Subset DEF Ids
    <2> QED
      BY <2>1, FS_CardinalityType
  <1>2. order \in [1..n -> S] /\ \A l \in S : \E i \in 1..n : order[i] = l
    BY DEF Orders
  <1> HIDE DEF n
  <1>3. q = [i \in 1..n |-> ExpiredAct(order[i])]
    BY <1>2 DEF Callbacks, ExpiredAct
  <1> HIDE DEF q
  <1>4. \A i \in 1..n : ExpiredAct(order[i]) \in Acts
    BY <1>2, ActsFit
  <1>5. q \in [1..n -> Acts]
    BY <1>3, <1>4
  <1>6. q \in Seq(Acts) /\ Len(q) = n
    BY <1>1, <1>5
  <1>7. \A i \in 1..n : q[i] = ExpiredAct(order[i])
    BY <1>3
  <1>8. Content(q) = {ExpiredAct(l) : l \in S}
    BY <1>2, <1>6, <1>7 DEF Content
  <1> QED
    BY <1>6, <1>8 DEF q

\* expireLocked.
LEMMA ExpireEffect ==
    ASSUME NEW w, IsManager(w), w.pending = <<>>, NEW x \in ExpireLocked(w)
    PROVE  IsManager(x) /\ Expires(w, x)
  <1> DEFINE leases == [l \in Ids |-> IF l \in Expired(w) THEN None ELSE w.leases[l]]
             prov == [c \in Candidates |-> IF w.prov[c] = 0 THEN None ELSE w.prov[c]]
  <1> DEFINE G(order) == [w EXCEPT !.leases = leases, !.prov = prov,
                                   !.pending = w.pending \o Callbacks(order)]
  <1>0. PICK order \in Orders(Expired(w)) :
          x = IF OwnerGone(w, order) THEN CancelDialogLocked(G(order)) ELSE G(order)
    BY DEF ExpireLocked
  <1>1. PICK g : /\ g = G(order)
                 /\ x = IF OwnerGone(w, order) THEN CancelDialogLocked(g) ELSE g
    BY <1>0
  <1> DEFINE q == Callbacks(order)
  <1>2. Expired(w) \subseteq Ids
    BY DEF Expired, Live
  <1>3. q \in Seq(Acts) /\ Content(q) = {ExpiredAct(l) : l \in Expired(w)}
    BY <1>2, CallbackEffect
  <1> HIDE DEF q
  <1>4. <<>> \o q = q
    BY <1>3
  <1>5. \A l \in Ids : leases[l] = IF l \in Expired(w) THEN None ELSE w.leases[l]
    OBVIOUS
  <1>6. /\ leases \in LeaseMaps
        /\ \A l \in Leases : leases[l] # None => ~leases[l].converted
    BY DEF IsManager, LeaseMaps, Ids
  <1> HIDE DEF leases, prov
  <1>7. /\ Shape(g) /\ SameAlert(w, g) /\ g.leases = leases /\ g.dialog = w.dialog
        /\ g.pending = q /\ g.yielded = w.yielded
    BY <1>1, <1>4 DEF IsManager, Shape, Fields, SameAlert, q
  <1>8. IsManager(g)
    BY <1>3, <1>6, <1>7 DEF IsManager, SameAlert
  <1>9. Expires(w, g)
    BY <1>3, <1>5, <1>7 DEF Expires
  <1>10. CASE x = g
    BY <1>8, <1>9, <1>10
  <1>11. CASE x = CancelDialogLocked(g)
    <2>1. IsManager(x) /\ SameAlert(g, x) /\ Drops(g, x) /\ x.leases = g.leases
      BY <1>8, <1>11, CancelEffect
    <2>2. SameAlert(w, x)
      BY <1>7, <2>1 DEF SameAlert
    <2>3. \A a \in Content(x.pending) : a \in Content(g.pending) \/ a.do \in {"apply", "cancel"}
      BY <2>1 DEF Drops, Grows
    <2> QED
      BY <1>7, <1>9, <2>1, <2>2, <2>3 DEF Expires, Drops, Grows
  <1> QED
    BY <1>1, <1>10, <1>11

\* An operation that is not about the alert.
Neutral(x, y) == IsManager(y) /\ SameAlert(x, y) /\ Drops(x, y)

LEMMA NeutralSame == ASSUME NEW x, IsManager(x) PROVE Neutral(x, x)
  BY GrowsSame DEF Neutral, SameAlert, Drops

LEMMA NeutralTwice ==
    ASSUME NEW x, NEW y, NEW z, Neutral(x, y), Neutral(y, z)
    PROVE  Neutral(x, z)
  BY DropsTwice DEF Neutral, SameAlert

\* Leases, provisional ducks and the yielded flag may change in any operation.
LEMMA NeutralSet ==
    ASSUME NEW x, IsManager(x), NEW y, Shape(y), SameAlert(x, y), y.dialog = x.dialog,
           y.pending = x.pending, y.yielded \in BOOLEAN, y.leases \in LeaseMaps,
           \A l \in Leases : y.leases[l] # None => ~y.leases[l].converted
    PROVE  Neutral(x, y)
  <1>1. IsManager(y)
    BY DEF IsManager, SameAlert
  <1>2. Drops(x, y)
    BY GrowsSame DEF Drops
  <1> QED
    BY <1>1, <1>2 DEF Neutral

\* A new or renewed lease is a lease.
LEMMA LeaseFits ==
    ASSUME NEW b \in BOOLEAN
    PROVE  Lease(TTL, b) \in LeaseRecords /\ Lease(TTL, b).left = TTL /\ Lease(TTL, b).converted = b
           /\ TTL # 0
  <1>1. TTL \in Nat \ {0}
    BY TimeAssumption
  <1>2. TTL \in 0..TTL
    BY <1>1
  <1> QED
    BY <1>1, <1>2 DEF Lease, LeaseRecords

\* Acquire.
LEMMA AcquireEffect ==
    ASSUME NEW x, IsManager(x), NEW l \in Leases, NEW y, y = Acquire(x, l)
    PROVE  /\ Neutral(x, y)
           /\ y.leases[l] # None /\ y.leases[l].left # 0
           /\ \A k \in Leases \ {l} : y.leases[k] = x.leases[k]
  <1> DEFINE others == {k \in Live(x) : x.leases[k].converted /\ Of[k].owner = Of[l].owner}
             leases == [k \in Ids |-> IF k \in others THEN None ELSE x.leases[k]]
             z == [x EXCEPT !.leases = leases]
             w == [z EXCEPT !.yielded = FALSE]
             v == IF Of[l].kind = "input" THEN CancelDialogLocked(w) ELSE z
  <1>1. y = [v EXCEPT !.leases = [v.leases EXCEPT ![l] = Lease(TTL, FALSE)]]
    BY DEF Acquire
  <1>2. \A k \in Leases : k \in Ids /\ leases[k] = x.leases[k]
    BY DEF IsManager, Live, Ids
  <1>3. leases \in LeaseMaps
    BY DEF IsManager, LeaseMaps
  <1>4. \A k \in Leases : leases[k] # None => ~leases[k].converted
    BY <1>2 DEF IsManager
  <1> HIDE DEF leases
  <1>5. Shape(z) /\ SameAlert(x, z) /\ z.dialog = x.dialog /\ z.pending = x.pending
        /\ z.yielded = x.yielded /\ z.leases = leases
    BY DEF IsManager, Shape, Fields, SameAlert
  <1> HIDE DEF z
  <1>6. Neutral(x, z)
    BY <1>3, <1>4, <1>5, NeutralSet DEF IsManager
  <1>7. Shape(w) /\ SameAlert(z, w) /\ w.dialog = z.dialog /\ w.pending = z.pending
        /\ w.yielded \in BOOLEAN /\ w.leases = leases
    BY <1>5 DEF Shape, Fields, SameAlert
  <1> HIDE DEF w
  <1>8. Neutral(z, w)
    BY <1>3, <1>4, <1>6, <1>7, NeutralSet DEF Neutral
  <1>9. Neutral(x, v) /\ v.leases = leases
    <2>1. CASE Of[l].kind = "input"
      <3>1. Neutral(w, v) /\ v.leases = leases
        BY <1>7, <1>8, <2>1, CancelEffect DEF Neutral
      <3> QED
        BY <1>6, <1>8, <3>1, NeutralTwice
    <2>2. CASE Of[l].kind # "input"
      BY <1>5, <1>6, <2>2
    <2> QED
      BY <2>1, <2>2
  <1> HIDE DEF v
  <1> DEFINE held == [leases EXCEPT ![l] = Lease(TTL, FALSE)]
  <1>10. Lease(TTL, FALSE) \in LeaseRecords /\ Lease(TTL, FALSE).left # 0 /\ ~Lease(TTL, FALSE).converted
    BY LeaseFits
  <1>11. held \in LeaseMaps /\ held[l] = Lease(TTL, FALSE) /\ \A k \in Leases \ {l} : held[k] = leases[k]
    BY <1>2, <1>3, <1>10 DEF LeaseMaps
  <1>12. Shape(y) /\ SameAlert(v, y) /\ y.dialog = v.dialog /\ y.pending = v.pending
         /\ y.yielded = v.yielded /\ y.leases = held
    BY <1>1, <1>9 DEF Shape, Fields, SameAlert, Neutral, IsManager
  <1> HIDE DEF held
  <1>13. Neutral(v, y)
    BY <1>4, <1>9, <1>10, <1>11, <1>12, NeutralSet, ZenonT(40) DEF Neutral, IsManager
  <1> QED
    BY <1>2, <1>9, <1>10, <1>11, <1>12, <1>13, NeutralTwice, NoneIsNone

\* Renew.
LEMMA RenewEffect ==
    ASSUME NEW x, IsManager(x), NEW l \in Leases, NEW y, y = Renew(x, l)
    PROVE  /\ Neutral(x, y)
           /\ y.leases[l] = None <=> x.leases[l] = None
           /\ y.leases[l] # None => y.leases[l].left # 0
           /\ \A k \in Leases \ {l} : y.leases[k] = x.leases[k]
  <1>1. CASE x.leases[l] = None
    BY <1>1, NeutralSame DEF Renew
  <1>2. CASE x.leases[l] # None
    <2> DEFINE lease == [x.leases[l] EXCEPT !.left = TTL]
               held == [x.leases EXCEPT ![l] = lease]
    <2>1. l \in Ids /\ x.leases[l] \in LeaseRecords /\ ~x.leases[l].converted
      BY <1>2 DEF IsManager, LeaseMaps, Ids
    <2>2. TTL \in Nat \ {0} /\ TTL \in 0..TTL
      BY TimeAssumption
    <2>3. lease \in LeaseRecords /\ lease.left # 0 /\ ~lease.converted
      BY <2>1, <2>2 DEF LeaseRecords
    <2>4. y = [x EXCEPT !.leases = held]
      BY <1>2 DEF Renew
    <2> HIDE DEF lease
    <2>5. held \in LeaseMaps /\ held[l] = lease /\ \A k \in Leases \ {l} : held[k] = x.leases[k]
      BY <2>1, <2>3 DEF IsManager, LeaseMaps, Ids
    <2> HIDE DEF held
    <2>6. Shape(y) /\ SameAlert(x, y) /\ y.dialog = x.dialog /\ y.pending = x.pending
          /\ y.yielded = x.yielded /\ y.leases = held
      BY <2>4 DEF IsManager, Shape, Fields, SameAlert
    <2>7. Neutral(x, y)
      BY <2>3, <2>5, <2>6, NeutralSet DEF IsManager
    <2> QED
      BY <1>2, <2>3, <2>5, <2>6, <2>7, NoneIsNone
  <1> QED
    BY <1>1, <1>2

\* Release.
LEMMA ReleaseEffect ==
    ASSUME NEW x, IsManager(x), NEW l \in Leases, NEW y, y = Release(x, l)
    PROVE  /\ Neutral(x, y)
           /\ y.leases[l] = None
           /\ \A k \in Leases \ {l} : y.leases[k] = x.leases[k]
  <1> DEFINE held == [x.leases EXCEPT ![l] = None]
  <1>1. y = [x EXCEPT !.leases = held]
    BY DEF Release
  <1>2. held \in LeaseMaps /\ held[l] = None /\ \A k \in Leases \ {l} : held[k] = x.leases[k]
    BY DEF IsManager, LeaseMaps, Ids
  <1> HIDE DEF held
  <1>3. Shape(y) /\ SameAlert(x, y) /\ y.dialog = x.dialog /\ y.pending = x.pending
        /\ y.yielded = x.yielded /\ y.leases = held
    BY <1>1 DEF IsManager, Shape, Fields, SameAlert
  <1>4. Neutral(x, y)
    BY <1>2, <1>3, NeutralSet DEF IsManager
  <1> QED
    BY <1>2, <1>3, <1>4

\* EndSession.
LEMMA EndAllEffect ==
    ASSUME NEW x, IsManager(x), NEW y, y = EndAll(x)
    PROVE  Neutral(x, y) /\ \A l \in Leases : y.leases[l] = None
  <1> DEFINE none == [l \in Ids |-> None]
             z == [x EXCEPT !.leases = none, !.prov = [c \in Candidates |-> None]]
  <1>1. y = CancelDialogLocked(z)
    BY DEF EndAll
  <1>2. none \in LeaseMaps /\ \A l \in Leases : none[l] = None
    BY DEF LeaseMaps, Ids
  <1> HIDE DEF none
  <1>3. Shape(z) /\ SameAlert(x, z) /\ z.dialog = x.dialog /\ z.pending = x.pending
        /\ z.yielded = x.yielded /\ z.leases = none
    BY DEF IsManager, Shape, Fields, SameAlert
  <1> HIDE DEF z
  <1>4. Neutral(x, z)
    BY <1>2, <1>3, NeutralSet DEF IsManager
  <1>5. Neutral(z, y) /\ y.leases = none
    BY <1>1, <1>3, <1>4, CancelEffect DEF Neutral
  <1> QED
    BY <1>2, <1>4, <1>5, NeutralTwice

\* CandidateRenew, CandidateRelease, CandidateAccept and CandidateOpen leave the
\* controller's leases alone.
LEMMA CandidateEffect ==
    ASSUME NEW x, IsManager(x), NEW c \in Candidates, NEW y,
           \/ y = CandidateRenew(x, c) \/ y = CandidateRelease(x, c)
           \/ y = CandidateAccept(x, c) \/ y = Ducked(x, c)
    PROVE  Neutral(x, y) /\ \A l \in Leases : y.leases[l] = x.leases[l]
  <1>1. CASE y = x
    BY <1>1, NeutralSame
  <1>2. ASSUME NEW v, y = [x EXCEPT !.prov = v]
        PROVE  Neutral(x, y) /\ y.leases = x.leases
    <2>1. Shape(y) /\ SameAlert(x, y) /\ y.dialog = x.dialog /\ y.pending = x.pending
          /\ y.yielded = x.yielded /\ y.leases = x.leases
      BY <1>2 DEF IsManager, Shape, Fields, SameAlert
    <2> QED
      BY <2>1, NeutralSet DEF IsManager
  <1>3. CASE y = CandidateRenew(x, c) /\ y # x
    <2>1. y = [x EXCEPT !.prov = [x.prov EXCEPT ![c] = TTL]]
      BY <1>3 DEF CandidateRenew
    <2> QED
      BY <1>2, <2>1
  <1>4. CASE y = CandidateRelease(x, c)
    <2>1. y = [x EXCEPT !.prov = [x.prov EXCEPT ![c] = None]]
      BY <1>4 DEF CandidateRelease
    <2> QED
      BY <1>2, <2>1
  <1>5. CASE y = Ducked(x, c) /\ y # x
    <2> DEFINE ducks == [x.ducks EXCEPT ![Oldest(x)] = 0]
               prov == [x.prov EXCEPT ![c] = AckWait]
    <2>1. y = [x EXCEPT !.ducks = ducks, !.prov = prov, !.yielded = FALSE]
      BY <1>5 DEF Ducked
    <2> HIDE DEF ducks, prov
    <2>2. Shape(y) /\ SameAlert(x, y) /\ y.dialog = x.dialog /\ y.pending = x.pending
          /\ y.yielded \in BOOLEAN /\ y.leases = x.leases
      BY <2>1 DEF IsManager, Shape, Fields, SameAlert
    <2> QED
      BY <2>2, NeutralSet DEF IsManager
  <1>6. CASE y = CandidateAccept(x, c) /\ y # x
    <2> DEFINE z == [x EXCEPT !.prov = [x.prov EXCEPT ![c] = None]]
               w == CancelDialogLocked(z)
               held == [w.leases EXCEPT ![c] = Lease(TTL, TRUE)]
    <2>1. y = w \/ y = [w EXCEPT !.leases = held]
      BY <1>6 DEF CandidateAccept
    <2>2. Shape(z) /\ SameAlert(x, z) /\ z.dialog = x.dialog /\ z.pending = x.pending
          /\ z.yielded = x.yielded /\ z.leases = x.leases
      BY DEF IsManager, Shape, Fields, SameAlert
    <2> HIDE DEF z
    <2>3. Neutral(x, z)
      BY <2>2, NeutralSet DEF IsManager
    <2>4. Neutral(z, w) /\ w.leases = x.leases
      BY <2>2, <2>3, CancelEffect DEF Neutral
    <2> HIDE DEF w
    <2>5. Neutral(x, w)
      BY <2>3, <2>4, NeutralTwice
    <2>6. CASE y = w
      BY <2>4, <2>5, <2>6
    <2>7. CASE y = [w EXCEPT !.leases = held]
      <3>1. Lease(TTL, TRUE) \in LeaseRecords
        BY LeaseFits
      <3>2. c \in Ids /\ c \notin Leases /\ Leases \subseteq Ids
        BY IdAssumption DEF Ids
      <3>3. held \in LeaseMaps /\ \A l \in Leases : held[l] = x.leases[l]
        BY <2>4, <3>1, <3>2 DEF LeaseMaps, Neutral, IsManager
      <3> HIDE DEF held
      <3>4. Shape(y) /\ SameAlert(w, y) /\ y.dialog = w.dialog /\ y.pending = w.pending
            /\ y.yielded = w.yielded /\ y.leases = held
        BY <2>5, <2>7 DEF IsManager, Shape, Fields, SameAlert, Neutral
      <3>5. Neutral(w, y)
        BY <2>4, <2>5, <3>3, <3>4, NeutralSet DEF IsManager, Neutral
      <3> QED
        BY <2>5, <3>3, <3>4, <3>5, NeutralTwice
    <2> QED
      BY <2>1, <2>6, <2>7
  <1> QED
    BY <1>1, <1>3, <1>4, <1>5, <1>6

\* DialogOutputStarted: the output is the manager's, or it is cancelled.
LEMMA StartedEffect ==
    ASSUME NEW x, IsManager(x), BudgetOK(x), NEW p \in Playbacks,
           NEW y, y = DialogOutputStarted(x, p)
    PROVE  /\ IsManager(y) /\ BudgetOK(y) /\ SameAlert(x, y) /\ y.leases = x.leases
           /\ Grows(x.pending, y.pending)
           /\ \/ y.dialog = p
              \/ y.dialog = x.dialog /\ CancelAct(p) \in Content(y.pending)
  <1>1. CASE x.alert # None /\ ~x.bg
    <2> DEFINE q == Append(x.pending, CancelAct(p))
    <2>1. q \in Seq(Acts) /\ Content(q) = Content(x.pending) \cup {CancelAct(p)}
      BY ActsFit, ContentAppend DEF IsManager
    <2>2. y = [x EXCEPT !.pending = q]
      BY <1>1 DEF DialogOutputStarted, Queue
    <2> HIDE DEF q
    <2>3. Shape(y) /\ SameAlert(x, y) /\ y.dialog = x.dialog /\ y.pending = q
          /\ y.yielded = x.yielded /\ y.leases = x.leases
      BY <2>2 DEF IsManager, Shape, Fields, SameAlert
    <2>4. IsManager(y)
      BY <2>1, <2>3 DEF IsManager, SameAlert
    <2>5. BudgetOK(y)
      BY <2>3 DEF BudgetOK, SameAlert
    <2>6. Grows(x.pending, y.pending)
      BY <2>1, <2>3, ActsFit DEF Grows
    <2> QED
      BY <2>1, <2>3, <2>4, <2>5, <2>6
  <1>2. CASE ~(x.alert # None /\ ~x.bg)
    <2>1. y = [x EXCEPT !.dialog = p]
      BY <1>2 DEF DialogOutputStarted
    <2>2. Shape(y) /\ SameAlert(x, y) /\ y.dialog = p /\ y.pending = x.pending
          /\ y.yielded = x.yielded /\ y.leases = x.leases
      BY <2>1 DEF IsManager, Shape, Fields, SameAlert
    <2>3. IsManager(y)
      BY <2>2 DEF IsManager, SameAlert
    <2>4. BudgetOK(y)
      BY <1>2, <2>2 DEF BudgetOK, SameAlert
    <2> QED
      BY <2>2, <2>3, <2>4, GrowsSame
  <1> QED
    BY <1>1, <1>2

\* DialogOutputFinished: only the manager's output ends, and with it the yield.
LEMMA FinishedEffect ==
    ASSUME NEW x, IsManager(x), BudgetOK(x), NEW p \in Playbacks,
           NEW y, y = DialogOutputFinished(x, p)
    PROVE  /\ IsManager(y) /\ BudgetOK(y) /\ y.leases = x.leases /\ y.pending = x.pending
           /\ y.alert = x.alert /\ y.budget = x.budget /\ y.bgFor = x.bgFor
           /\ x.dialog # p => y = x
           /\ x.dialog = p => y.dialog = None
  <1>1. CASE x.dialog # p
    BY <1>1 DEF DialogOutputFinished
  <1>2. CASE x.dialog = p
    <2>1. \/ y = [x EXCEPT !.dialog = None]
          \/ y = [x EXCEPT !.dialog = None, !.yieldIn = None, !.yielded = TRUE]
      BY <1>2 DEF DialogOutputFinished
    <2>2. /\ Shape(y) /\ y.dialog = None /\ y.leases = x.leases /\ y.pending = x.pending
          /\ y.alert = x.alert /\ y.budget = x.budget /\ y.bgFor = x.bgFor
          /\ y.spent = x.spent /\ y.bg = x.bg /\ y.yieldIn \in {x.yieldIn, None}
          /\ y.yielded \in {x.yielded, TRUE}
      BY <2>1 DEF IsManager, Shape, Fields
    <2>3. IsManager(y)
      BY <2>2 DEF IsManager
    <2>4. BudgetOK(y)
      BY <2>2 DEF BudgetOK
    <2> QED
      BY <1>2, <2>2, <2>3, <2>4
  <1> QED
    BY <1>1, <1>2

\* Nothing but the alert's part of the manager is touched.
AlertOnly(x, y) == y.leases = x.leases /\ y.dialog = x.dialog /\ y.pending = x.pending

\* resetAlertLocked.
LEMMA ResetEffect ==
    ASSUME NEW x, IsManager(x), NEW y, y = ResetAlertLocked(x)
    PROVE  /\ IsManager(y) /\ BudgetOK(y) /\ AlertOnly(x, y) /\ y.alert = None
           /\ ~y.bg /\ y.bgFor = 0 /\ y.budget = 0 /\ ~y.spent
  <1> DEFINE no == FALSE
  <1>1. no \in BOOLEAN /\ ~no
    OBVIOUS
  <1>2. y = [x EXCEPT !.alert = None, !.bg = no, !.bgFor = 0, !.budget = 0, !.spent = no,
                      !.yieldIn = None, !.yielded = no]
    BY DEF ResetAlertLocked
  <1> HIDE DEF no
  <1>3. /\ Shape(y) /\ y.leases = x.leases /\ y.dialog = x.dialog /\ y.pending = x.pending
        /\ y.alert = None /\ y.bg = no /\ y.bgFor = 0 /\ y.budget = 0 /\ y.spent = no
        /\ y.yieldIn = None /\ y.yielded = no
    BY <1>2 DEF IsManager, Shape, Fields
  <1>4. IsManager(y)
    BY <1>1, <1>3 DEF IsManager
  <1>5. AlertBackgroundCap \in Nat \ {0}
    BY TimeAssumption
  <1>6. BudgetOK(y)
    BY <1>1, <1>3, <1>5 DEF BudgetOK
  <1> QED
    BY <1>1, <1>3, <1>4, <1>6 DEF AlertOnly

\* AlertActive: output that is playing yields within its time.
LEMMA ActiveEffect ==
    ASSUME NEW x, IsManager(x), BudgetOK(x), NEW a \in Alerts, NEW y, y = AlertActive(x, a)
    PROVE  /\ IsManager(y) /\ BudgetOK(y) /\ AlertOnly(x, y) /\ y.alert = a
           /\ a = x.alert => y = x
           /\ a # x.alert /\ x.dialog # None => y.yieldIn = AlertYield
  <1>1. CASE a = x.alert
    BY <1>1 DEF AlertActive, AlertOnly
  <1>2. CASE a # x.alert
    <2> DEFINE z == ResetAlertLocked(x)
               left == IF x.dialog # None THEN AlertYield ELSE None
    <2>1. y = [z EXCEPT !.alert = a, !.yieldIn = left]
      BY <1>2 DEF AlertActive
    <2>2. /\ IsManager(z) /\ BudgetOK(z) /\ AlertOnly(x, z)
          /\ ~z.bg /\ z.bgFor = 0 /\ z.budget = 0 /\ ~z.spent
      BY ResetEffect
    <2> HIDE DEF z
    <2>3. left \in Nat \cup {None} /\ (x.dialog # None => left = AlertYield)
      BY TimeAssumption
    <2> HIDE DEF left
    <2>4. /\ Shape(y) /\ y.leases = z.leases /\ y.dialog = z.dialog /\ y.pending = z.pending
          /\ y.alert = a /\ y.bg = z.bg /\ y.bgFor = z.bgFor /\ y.budget = z.budget
          /\ y.spent = z.spent /\ y.yieldIn = left /\ y.yielded = z.yielded
      BY <2>1, <2>2 DEF IsManager, Shape, Fields
    <2>5. IsManager(y)
      BY <2>2, <2>3, <2>4 DEF IsManager
    <2>6. AlertBackgroundCap \in Nat \ {0}
      BY TimeAssumption
    <2>7. BudgetOK(y)
      BY <2>2, <2>4, <2>6, NoneIsNone DEF BudgetOK
    <2> QED
      BY <1>2, <2>2, <2>3, <2>4, <2>5, <2>7 DEF AlertOnly
  <1> QED
    BY <1>1, <1>2

\* AlertEnded.
LEMMA EndedEffect ==
    ASSUME NEW x, IsManager(x), BudgetOK(x), NEW a, NEW y, y = AlertEnded(x, a)
    PROVE  /\ IsManager(y) /\ BudgetOK(y) /\ AlertOnly(x, y)
           /\ a # x.alert => y = x
           /\ a = x.alert => y.alert = None
  <1>1. CASE a # x.alert
    BY <1>1 DEF AlertEnded, AlertOnly
  <1>2. CASE a = x.alert
    BY <1>2, ResetEffect DEF AlertEnded
  <1> QED
    BY <1>1, <1>2

\* AlertBurstCompleted: the budget starts anew.
LEMMA BurstEffect ==
    ASSUME NEW x, IsManager(x), BudgetOK(x), NEW a, NEW y, y = AlertBurstCompleted(x, a)
    PROVE  /\ IsManager(y) /\ BudgetOK(y) /\ AlertOnly(x, y) /\ y.alert = x.alert
           /\ y.yieldIn = x.yieldIn
           /\ a # x.alert => y = x
  <1>1. CASE a # x.alert
    BY <1>1 DEF AlertBurstCompleted, AlertOnly
  <1>2. CASE a = x.alert
    <2> DEFINE no == FALSE
    <2>1. no \in BOOLEAN /\ ~no
      OBVIOUS
    <2>2. y = [x EXCEPT !.budget = 0, !.spent = no, !.bgFor = 0]
      BY <1>2 DEF AlertBurstCompleted
    <2> HIDE DEF no
    <2>3. /\ Shape(y) /\ y.leases = x.leases /\ y.dialog = x.dialog /\ y.pending = x.pending
          /\ y.alert = x.alert /\ y.bg = x.bg /\ y.bgFor = 0 /\ y.budget = 0
          /\ y.spent = no /\ y.yieldIn = x.yieldIn /\ y.yielded = x.yielded
      BY <2>2 DEF IsManager, Shape, Fields
    <2>4. IsManager(y)
      BY <2>1, <2>3 DEF IsManager
    <2>5. AlertBackgroundCap \in Nat \ {0}
      BY TimeAssumption
    <2>6. BudgetOK(y)
      BY <2>1, <2>3, <2>5 DEF BudgetOK
    <2> QED
      BY <1>2, <2>3, <2>4, <2>6 DEF AlertOnly
  <1> QED
    BY <1>1, <1>2

\* What deadlinesLocked leaves to the policy.
Due(y, v) ==
    /\ IsManager(v) /\ Drops(y, v)
    /\ v.leases = y.leases /\ v.alert = y.alert /\ v.bg = y.bg
    /\ v.bgFor = y.bgFor /\ v.budget = y.budget
    /\ v.yieldIn # 0
    /\ v.yieldIn = y.yieldIn \/ (y.yieldIn = 0 /\ v.yieldIn = None /\ v.dialog = None)
    /\ v.spent => v.dialog = None
    /\ v.alert = None => ~v.bg /\ ~v.spent /\ v.budget = 0 /\ v.yieldIn = None
    /\ ~v.spent => v.budget < AlertBackgroundCap
    /\ v.bg /\ ~v.spent => v.budget + v.bgFor < AlertBackgroundCap
    /\ ~v.bg => v.bgFor = 0
    /\ v.budget + v.bgFor <= AlertBackgroundCap

\* deadlinesLocked.
LEMMA DeadlineEffect ==
    ASSUME NEW y, IsManager(y), BudgetOK(y), NEW v, v = DeadlinesLocked(y)
    PROVE  Due(y, v)
  <1> DEFINE yes == TRUE
             r == [y EXCEPT !.yieldIn = None, !.yielded = yes]
             u == IF y.yieldIn # 0 THEN y ELSE CancelDialogLocked(r)
             s == [u EXCEPT !.spent = yes]
             late == u.bg /\ ~u.spent /\ u.budget + u.bgFor >= AlertBackgroundCap
  <1>1. v = IF late THEN CancelDialogLocked(s) ELSE u
    BY DEF DeadlinesLocked
  <1>2. yes \in BOOLEAN /\ yes /\ AlertBackgroundCap \in Nat \ {0}
    BY TimeAssumption
  <1> HIDE DEF yes
  <1>3. /\ IsManager(u) /\ Drops(y, u) /\ BudgetOK(u)
        /\ u.leases = y.leases /\ u.alert = y.alert /\ u.bg = y.bg
        /\ u.bgFor = y.bgFor /\ u.budget = y.budget /\ u.yieldIn # 0
        /\ u.yieldIn = y.yieldIn \/ (y.yieldIn = 0 /\ u.yieldIn = None /\ u.dialog = None)
    <2>1. CASE y.yieldIn # 0
      BY <2>1, GrowsSame DEF Drops
    <2>2. CASE y.yieldIn = 0
      <3>1. /\ Shape(r) /\ r.leases = y.leases /\ r.dialog = y.dialog /\ r.pending = y.pending
            /\ r.alert = y.alert /\ r.bg = y.bg /\ r.bgFor = y.bgFor /\ r.budget = y.budget
            /\ r.spent = y.spent /\ r.yieldIn = None /\ r.yielded = yes
        BY DEF IsManager, Shape, Fields
      <3> HIDE DEF r
      <3>2. IsManager(r)
        BY <1>2, <3>1 DEF IsManager
      <3>3. u = CancelDialogLocked(r)
        BY <2>2
      <3> HIDE DEF u
      <3>4. IsManager(u) /\ SameAlert(r, u) /\ Drops(r, u) /\ u.dialog = None
            /\ u.leases = r.leases
        BY <3>2, <3>3, CancelEffect
      <3>5. Drops(y, u)
        BY <3>1, <3>4 DEF Drops
      <3>6. BudgetOK(u)
        BY <3>1, <3>4 DEF BudgetOK, SameAlert
      <3> QED
        BY <2>2, <3>1, <3>4, <3>5, <3>6, NoneIsNone DEF SameAlert
    <2> QED
      BY <2>1, <2>2
  <1> HIDE DEF u
  <1>4. u.budget \in Nat /\ u.bgFor \in Nat
    BY <1>3 DEF IsManager
  <1>5. CASE ~late
    <2>1. v = u
      BY <1>1, <1>5
    <2>2. u.bg /\ ~u.spent => u.budget + u.bgFor < AlertBackgroundCap
      BY <1>2, <1>4, <1>5
    <2> QED
      BY <1>3, <2>1, <2>2 DEF Due, BudgetOK
  <1>6. CASE late
    <2>1. /\ Shape(s) /\ s.leases = u.leases /\ s.dialog = u.dialog /\ s.pending = u.pending
          /\ s.alert = u.alert /\ s.bg = u.bg /\ s.bgFor = u.bgFor /\ s.budget = u.budget
          /\ s.spent = yes /\ s.yieldIn = u.yieldIn /\ s.yielded = u.yielded
      BY <1>3 DEF IsManager, Shape, Fields
    <2> HIDE DEF s
    <2>2. IsManager(s)
      BY <1>2, <1>3, <2>1 DEF IsManager
    <2>3. v = CancelDialogLocked(s) /\ u.bg
      BY <1>1, <1>6
    <2>4. IsManager(v) /\ SameAlert(s, v) /\ Drops(s, v) /\ v.dialog = None
          /\ v.leases = s.leases
      BY <2>2, <2>3, CancelEffect
    <2>5. Drops(u, v)
      BY <2>1, <2>4 DEF Drops
    <2>6. Drops(y, v)
      BY <1>3, <2>5, DropsTwice
    <2>7. /\ v.leases = y.leases /\ v.alert = y.alert /\ v.bg = y.bg
          /\ v.bgFor = y.bgFor /\ v.budget = y.budget /\ v.yieldIn = u.yieldIn /\ v.spent
      BY <1>2, <1>3, <2>1, <2>4 DEF SameAlert
    <2>8. u.alert # None
      BY <1>3, <2>3 DEF BudgetOK
    <2> QED
      BY <1>3, <2>3, <2>4, <2>6, <2>7, <2>8 DEF Due, BudgetOK
  <1> QED
    BY <1>5, <1>6

\* The policy of recomputeLocked: the alert goes to the background or comes back,
\* and its budget with it.
LEMMA BackgroundEffect ==
    ASSUME NEW y, NEW v, Due(y, v), NEW w, w = Background(v)
    PROVE  /\ IsManager(w) /\ BudgetOK(w) /\ Decided(w) /\ Prompt(w) /\ AlertOnly(v, w)
           /\ w.alert = v.alert /\ w.yieldIn = v.yieldIn
           /\ w.budget + w.bgFor = v.budget + v.bgFor
  <1> DEFINE bg == /\ v.alert # None /\ ~v.spent
                   /\ v.yieldIn # None \/ Input(v) \/ (OutputHeld(v) /\ ~v.yielded)
             budget == IF bg THEN v.budget ELSE v.budget + v.bgFor
  <1>1. w = IF bg = v.bg THEN v ELSE [v EXCEPT !.bg = bg, !.bgFor = 0, !.budget = budget]
    BY DEF Background
  <1>2. bg \in BOOLEAN /\ (bg => v.alert # None /\ ~v.spent)
    OBVIOUS
  <1>3. v.alert # None /\ ~v.spent /\ v.dialog # None /\ ~v.yielded => bg
    BY DEF OutputHeld
  <1>4. /\ v.budget \in Nat /\ v.bgFor \in Nat /\ AlertBackgroundCap \in Nat \ {0}
        /\ v.bg \in BOOLEAN /\ v.spent \in BOOLEAN /\ IsManager(v)
    BY TimeAssumption DEF Due, IsManager
  <1>5. budget \in Nat /\ (bg => budget = v.budget) /\ (~bg => budget = v.budget + v.bgFor)
    BY <1>4
  <1> HIDE DEF bg, budget
  <1>6. CASE bg = v.bg
    <2>1. w = v
      BY <1>1, <1>6
    <2>2. BudgetOK(v)
      BY <1>2, <1>4, <1>6 DEF BudgetOK, Due
    <2>3. Decided(v) /\ Prompt(v)
      BY <1>2, <1>3, <1>4, <1>6 DEF Decided, Prompt, Due
    <2> QED
      BY <1>4, <2>1, <2>2, <2>3 DEF AlertOnly
  <1>7. CASE bg # v.bg
    <2>1. w = [v EXCEPT !.bg = bg, !.bgFor = 0, !.budget = budget]
      BY <1>1, <1>7
    <2>2. /\ Shape(w) /\ w.leases = v.leases /\ w.dialog = v.dialog /\ w.pending = v.pending
          /\ w.alert = v.alert /\ w.bg = bg /\ w.bgFor = 0 /\ w.budget = budget
          /\ w.spent = v.spent /\ w.yieldIn = v.yieldIn /\ w.yielded = v.yielded
      BY <1>4, <2>1 DEF IsManager, Shape, Fields
    <2>3. IsManager(w)
      BY <1>2, <1>4, <1>5, <2>2 DEF IsManager
    <2>4. (bg => ~v.bg) /\ (~bg => v.bg)
      BY <1>2, <1>4, <1>7
    <2>5. CASE bg
      <3>1. v.bgFor = 0 /\ ~v.spent /\ v.alert # None /\ budget = v.budget
            /\ v.budget < AlertBackgroundCap
        BY <1>2, <1>5, <2>4, <2>5 DEF Due
      <3>2. BudgetOK(w)
        BY <1>4, <2>2, <2>5, <3>1 DEF BudgetOK
      <3>3. Decided(w) /\ Prompt(w)
        BY <1>4, <2>2, <2>5, <3>1 DEF Decided, Prompt, Due
      <3> QED
        BY <1>4, <2>2, <2>3, <3>1, <3>2, <3>3 DEF AlertOnly
    <2>6. CASE ~bg
      <3>1. v.bg /\ budget = v.budget + v.bgFor /\ v.alert # None
        BY <1>5, <2>4, <2>6 DEF Due
      <3>2. BudgetOK(w)
        BY <1>4, <2>2, <2>6, <3>1 DEF BudgetOK, Due
      <3>3. Decided(w) /\ Prompt(w)
        BY <1>3, <1>4, <2>2, <2>6, <3>1 DEF Decided, Prompt, Due
      <3> QED
        BY <1>4, <2>2, <2>3, <3>1, <3>2, <3>3 DEF AlertOnly
    <2> QED
      BY <2>5, <2>6
  <1> QED
    BY <1>6, <1>7

\* What update makes of y, the manager after the operation: p is what it queued.
Updated(t, y, p, after) ==
    /\ IsManager(m') /\ m'.pending = <<>>
    /\ BudgetOK(m') /\ Decided(m') /\ Prompt(m')
    /\ m'.leases = y.leases /\ m'.alert = y.alert
    /\ m'.budget + m'.bgFor = y.budget + y.bgFor
    /\ \/ m'.dialog = y.dialog
       \/ y.dialog # None /\ m'.dialog = None /\ CancelAct(y.dialog) \in Content(p)
    /\ m'.yieldIn = y.yieldIn \/ (y.yieldIn = 0 /\ m'.dialog = None)
    /\ p \in Seq(Acts) /\ Grows(y.pending, p)
    /\ acts' = [acts EXCEPT ![t] = p \o after]

\* update, after the operation: deadlines, the policy, the callbacks.
LEMMA UpdateEffect ==
    ASSUME NEW t, NEW y, IsManager(y), BudgetOK(y), NEW after, Update(t, y, after)
    PROVE  \E p : Updated(t, y, p, after)
  <1> DEFINE v == DeadlinesLocked(y)
             w == Background(v)
             d == RecomputeLocked(v)
  <1>1. m' = [d EXCEPT !.pending = <<>>] /\ acts' = [acts EXCEPT ![t] = d.pending \o after]
    BY DEF Update
  <1>2. Due(y, v)
    BY DeadlineEffect
  <1>3. PICK out : d = w \/ d = [w EXCEPT !.out = out,
                                          !.pending = Append(w.pending, [do |-> "apply", of |-> w.bg])]
    <2> DEFINE out == [content |-> Live(w) \cup Ducking(w) # {},
                       dialog |-> Ducking(w) # {} \/ \E l \in Live(w) : w.leases[l].converted,
                       pause |-> w.alert # None, bg |-> w.bg]
    <2>1. out.bg = w.bg
      OBVIOUS
    <2>2. d = IF out = w.out THEN w
              ELSE [w EXCEPT !.out = out,
                             !.pending = Append(w.pending, [do |-> "apply", of |-> out.bg])]
      BY DEF RecomputeLocked
    <2> HIDE DEF out, d, w
    <2> QED
      BY <2>1, <2>2
  <1> HIDE DEF v
  <1>4. /\ IsManager(w) /\ BudgetOK(w) /\ Decided(w) /\ Prompt(w) /\ AlertOnly(v, w)
        /\ w.alert = v.alert /\ w.yieldIn = v.yieldIn
        /\ w.budget + w.bgFor = v.budget + v.bgFor
    BY <1>2, BackgroundEffect
  <1> HIDE DEF w, d
  <1> DEFINE q == Append(w.pending, [do |-> "apply", of |-> w.bg])
  <1>5. q \in Seq(Acts) /\ Content(q) = Content(w.pending) \cup {[do |-> "apply", of |-> w.bg]}
    BY <1>4, ActsFit, ContentAppend DEF IsManager
  <1>6. Grows(w.pending, q)
    BY <1>5 DEF Grows
  <1> HIDE DEF q
  <1>7. /\ Shape(d) /\ d.leases = w.leases /\ d.dialog = w.dialog
        /\ d.alert = w.alert /\ d.bg = w.bg /\ d.bgFor = w.bgFor /\ d.budget = w.budget
        /\ d.spent = w.spent /\ d.yieldIn = w.yieldIn /\ d.yielded = w.yielded
        /\ d.pending \in {w.pending, q}
    <2>1. CASE d = w
      BY <1>4, <2>1 DEF IsManager
    <2>2. CASE d = [w EXCEPT !.out = out, !.pending = q]
      BY <1>4, <2>2 DEF IsManager, Shape, Fields
    <2> QED
      BY <1>3, <2>1, <2>2 DEF q
  <1>8. d.pending \in Seq(Acts) /\ Grows(w.pending, d.pending)
    BY <1>4, <1>5, <1>6, <1>7, GrowsSame DEF IsManager
  <1>9. /\ Shape(m') /\ m'.leases = d.leases /\ m'.dialog = d.dialog
        /\ m'.alert = d.alert /\ m'.bg = d.bg /\ m'.bgFor = d.bgFor /\ m'.budget = d.budget
        /\ m'.spent = d.spent /\ m'.yieldIn = d.yieldIn /\ m'.yielded = d.yielded
        /\ m'.pending = <<>>
    BY <1>1, <1>7 DEF Shape, Fields
  <1>10. <<>> \in Seq(Acts)
    OBVIOUS
  <1>11. IsManager(m')
    BY <1>4, <1>7, <1>9, <1>10 DEF IsManager
  <1>12. BudgetOK(m') /\ Decided(m') /\ Prompt(m')
    BY <1>4, <1>7, <1>9 DEF BudgetOK, Decided, Prompt
  <1>13. Grows(y.pending, d.pending)
    BY <1>2, <1>4, <1>8 DEF Due, Drops, Grows, AlertOnly
  <1>14. \/ m'.dialog = y.dialog
         \/ y.dialog # None /\ m'.dialog = None /\ CancelAct(y.dialog) \in Content(d.pending)
    BY <1>2, <1>4, <1>7, <1>8, <1>9 DEF Due, Drops, Grows, AlertOnly
  <1>15. m'.yieldIn = y.yieldIn \/ (y.yieldIn = 0 /\ m'.dialog = None)
    BY <1>2, <1>4, <1>7, <1>9 DEF Due, AlertOnly
  <1>16. /\ m'.leases = y.leases /\ m'.alert = y.alert
         /\ m'.budget + m'.bgFor = y.budget + y.bgFor
    BY <1>2, <1>4, <1>7, <1>9 DEF Due, AlertOnly
  <1>17. Updated(t, y, d.pending, after)
    BY <1>1, <1>8, <1>9, <1>11, <1>12, <1>13, <1>14, <1>15, <1>16 DEF Updated
  <1> QED
    BY <1>17

----------------------------------------------------------------------------
(* What a step does to the goroutines                                      *)

\* What is pending after the step: add is new, del is done.
Left(a) == \E t \in Threads : a \in Content(acts'[t])
Moves(add, del) ==
    \A a : /\ Left(a) => Pending(a) \/ a \in add
           /\ Pending(a) /\ a \notin del => Left(a)
           /\ a \in add => Left(a)

\* The goroutines that are at work are finitely many.
LEMMA BusyFinite ==
    ASSUME NEW S \in SUBSET Threads
    PROVE  IsFiniteSet(S) /\ Cardinality(S) \in Nat
  <1>1. IsFiniteSet(Threads)
    <2>1. Threads = ({"link"} \cup {"tick"}) \cup {"alert"} \cup {"wake"} \cup {"button"} \cup {"hooks"}
      BY DEF Threads
    <2> QED
      BY <2>1, FS_Singleton, FS_Union
  <1> QED
    BY <1>1, FS_Subset, FS_CardinalityType

\* A goroutine that had nothing left starts a call.
LEMMA FreeMoves ==
    ASSUME TypeInv, NEW t \in Threads, Free(t), NEW q \in Seq(Acts), acts' = [acts EXCEPT ![t] = q]
    PROVE  /\ acts' \in [Threads -> Seq(Acts)] /\ acts'[t] = q
           /\ \A u \in Threads \ {t} : acts'[u] = acts[u]
           /\ acts[t] = <<>> /\ Content(acts[t]) = {}
           /\ Moves(Content(q), {})
           /\ (Cardinality(Busy) <= MaxBusy)'
  <1>1. /\ acts' \in [Threads -> Seq(Acts)] /\ acts'[t] = q
        /\ \A u \in Threads \ {t} : acts'[u] = acts[u]
    BY DEF TypeInv
  <1>2. acts[t] = <<>> /\ Content(acts[t]) = {}
    BY ContentOf DEF TypeInv, Free, Busy
  <1>3. Moves(Content(q), {})
    BY <1>1, <1>2 DEF Moves, Pending, Left
  <1>4. Busy' \subseteq Busy \cup {t}
    BY <1>1 DEF Busy
  <1>5. IsFiniteSet(Busy) /\ Cardinality(Busy) \in Nat
    BY BusyFinite DEF Busy
  <1>6. Cardinality(Busy \cup {t}) <= MaxBusy
    <2>1. t \notin Busy /\ Cardinality(Busy) < MaxBusy
      BY DEF Free
    <2>2. Cardinality(Busy \cup {t}) = Cardinality(Busy) + 1
      BY <1>5, <2>1, FS_AddElement
    <2> QED
      BY <1>5, <2>1, <2>2, BoundAssumption
  <1>7. Cardinality(Busy') <= Cardinality(Busy \cup {t}) /\ IsFiniteSet(Busy \cup {t})
    BY <1>4, <1>5, FS_AddElement, FS_Subset
  <1>8. Cardinality(Busy') \in Nat /\ Cardinality(Busy \cup {t}) \in Nat
    BY <1>4, <1>7, FS_Subset, FS_CardinalityType
  <1> QED
    BY <1>1, <1>2, <1>3, <1>6, <1>7, <1>8, BoundAssumption

\* A goroutine does its next act, and then what p adds.
LEMMA RunMoves ==
    ASSUME TypeInv, NEW t \in Threads, acts[t] # <<>>, NEW p \in Seq(Acts),
           acts' = [acts EXCEPT ![t] = p \o Tail(acts[t])]
    PROVE  /\ acts' \in [Threads -> Seq(Acts)]
           /\ \A u \in Threads \ {t} : acts'[u] = acts[u]
           /\ Head(acts[t]) \in Acts /\ Head(acts[t]) \in Content(acts[t])
           /\ Content(acts'[t]) = Content(p) \cup Content(Tail(acts[t]))
           /\ Content(Tail(acts[t])) \subseteq Content(acts[t])
           /\ Moves(Content(p), {Head(acts[t])})
           /\ (Cardinality(Busy) <= MaxBusy)'
  <1>1. /\ Tail(acts[t]) \in Seq(Acts) /\ Head(acts[t]) \in Acts
        /\ Content(acts[t]) = Content(Tail(acts[t])) \cup {Head(acts[t])}
    BY ContentTail DEF TypeInv
  <1>2. /\ p \o Tail(acts[t]) \in Seq(Acts)
        /\ Content(p \o Tail(acts[t])) = Content(p) \cup Content(Tail(acts[t]))
    <2> DEFINE r == Tail(acts[t])
    <2>1. r \in Seq(Acts)
      BY <1>1
    <2> HIDE DEF r
    <2>2. p \o r \in Seq(Acts) /\ Content(p \o r) = Content(p) \cup Content(r)
      BY <2>1, ContentConcat
    <2> QED
      BY <2>2 DEF r
  <1>3. /\ acts' \in [Threads -> Seq(Acts)]
        /\ Content(acts'[t]) = Content(p) \cup Content(Tail(acts[t]))
        /\ \A u \in Threads \ {t} : acts'[u] = acts[u]
    BY <1>2 DEF TypeInv
  <1>4. Moves(Content(p), {Head(acts[t])})
    BY <1>1, <1>3 DEF Moves, Pending, Left
  <1>5. Busy' \subseteq Busy /\ Busy \subseteq Threads
    BY <1>3 DEF Busy
  <1>6. Cardinality(Busy') <= Cardinality(Busy) /\ Cardinality(Busy') \in Nat /\ Cardinality(Busy) \in Nat
    BY <1>5, BusyFinite, FS_Subset
  <1>7. Cardinality(Busy') <= MaxBusy
    BY <1>6, BoundAssumption DEF TypeInv
  <1> QED
    BY <1>1, <1>3, <1>4, <1>7

\* The executor still tells and rings the same.
SameEx == ex'.told = ex.told /\ ex'.ringing = ex.ringing

\* A goroutine starts a call that reports nothing of the executor's.
LEMMA ActFree ==
    ASSUME TypeInv, ActInv, NEW t \in Threads, Free(t), NEW q \in Seq(Acts),
           acts' = [acts EXCEPT ![t] = q], SameEx,
           \A a \in Content(q) : a.do \notin {"focus", "stopped"} /\ (a.do = "noted" => t = "link")
    PROVE  ActInv'
  <1>1. acts'[t] = q /\ \A u \in Threads \ {t} : acts'[u] = acts[u]
    BY FreeMoves
  <1>2. ToldId' = ToldId
    BY DEF SameEx, ToldId
  <1>3. ASSUME NEW u \in Threads, NEW a \in Content(acts'[u])
        PROVE  /\ a.do = "focus" => u = "alert" /\ acts'[u] = <<a>> /\ a.of = ToldId'
               /\ a.do = "stopped" => a.of # ex'.ringing
               /\ a.do = "noted" => u = "link"
    <2>1. CASE u = t
      BY <1>1, <1>3, <2>1
    <2>2. CASE u # t
      BY <1>1, <1>2, <1>3, <2>2 DEF ActInv, SameEx
    <2> QED
      BY <2>1, <2>2
  <1> QED
    BY <1>3 DEF ActInv

\* A goroutine goes on, and adds nothing of that kind.
LEMMA ActRun ==
    ASSUME TypeInv, ActInv, NEW t \in Threads, acts[t] # <<>>, NEW p \in Seq(Acts),
           acts' = [acts EXCEPT ![t] = p \o Tail(acts[t])], SameEx,
           \A a \in Content(p) : a.do \notin {"focus", "stopped", "noted"}
    PROVE  ActInv'
  <1>1. /\ \A u \in Threads \ {t} : acts'[u] = acts[u]
        /\ Content(acts'[t]) = Content(p) \cup Content(Tail(acts[t]))
        /\ Content(Tail(acts[t])) \subseteq Content(acts[t])
    BY RunMoves
  <1>2. ToldId' = ToldId
    BY DEF SameEx, ToldId
  <1>3. ASSUME NEW a \in Content(Tail(acts[t])) PROVE a.do # "focus"
    <2>1. SUFFICES ASSUME a.do = "focus" PROVE FALSE
      OBVIOUS
    <2>2. acts[t] = <<a>>
      BY <1>1, <1>3, <2>1 DEF ActInv
    <2>3. Tail(acts[t]) = <<>>
      BY <2>2
    <2>4. Content(<<>>) = {}
      BY ContentOf, EmptySeq
    <2> QED
      BY <1>3, <2>3, <2>4
  <1>4. ASSUME NEW u \in Threads, NEW a \in Content(acts'[u])
        PROVE  /\ a.do = "focus" => u = "alert" /\ acts'[u] = <<a>> /\ a.of = ToldId'
               /\ a.do = "stopped" => a.of # ex'.ringing
               /\ a.do = "noted" => u = "link"
    <2>1. CASE u = t
      BY <1>1, <1>3, <1>4, <2>1 DEF ActInv, SameEx
    <2>2. CASE u # t
      BY <1>1, <1>2, <1>4, <2>2 DEF ActInv, SameEx
    <2> QED
      BY <2>1, <2>2
  <1> QED
    BY <1>4 DEF ActInv

\* The alert, the silence and the output are as before, or the output is cancelled.
Quietly(p) ==
    /\ m'.alert = m.alert /\ m'.budget + m'.bgFor = m.budget + m.bgFor
    /\ m'.dialog = m.dialog \/ (m'.dialog = None /\ CancelAct(m.dialog) \in Content(p))
    /\ m'.yieldIn = m.yieldIn \/ m'.dialog = None

\* What an update queues: the callbacks of the expired leases, and nothing that is
\* not the manager's.
Calls(p) ==
    /\ \A l \in Expired(m) : ExpiredAct(l) \in Content(p)
    /\ \A a \in Content(p) :
         a.do \in {"apply", "cancel"} \/ \E l \in Expired(m) : a = ExpiredAct(l)

\* What the operations queue comes on top of the callbacks.
LEMMA CallsGrow ==
    ASSUME NEW x, Expires(m, x), NEW y, Grows(x.pending, y.pending), NEW p, Grows(y.pending, p)
    PROVE  Calls(p)
  BY DEF Expires, Grows, Calls

\* The budget after expiry.
LEMMA ExpireNow ==
    ASSUME TypeInv, ManagerInv, NEW x \in Now
    PROVE  IsManager(x) /\ Expires(m, x) /\ BudgetOK(x)
  <1>1. IsManager(x) /\ Expires(m, x)
    BY ExpireEffect DEF TypeInv, Now
  <1>2. BudgetOK(x)
    BY <1>1 DEF Expires, SameAlert, BudgetOK, ManagerInv
  <1> QED
    BY <1>1, <1>2

\* An update whose operation is not about the alert.
LEMMA NeutralUpdate ==
    ASSUME TypeInv, ManagerInv, NEW t, NEW x \in Now, NEW y, Neutral(x, y),
           NEW after, Update(t, y, after)
    PROVE  \E p \in Seq(Acts) : Updated(t, y, p, after) /\ Quietly(p) /\ Calls(p)
  <1>1. IsManager(x) /\ Expires(m, x) /\ BudgetOK(x)
    BY ExpireNow
  <1>2. IsManager(y) /\ SameAlert(x, y) /\ Drops(x, y)
    BY DEF Neutral
  <1>3. BudgetOK(y)
    BY <1>1, <1>2 DEF SameAlert, BudgetOK, Drops
  <1>4. PICK p : Updated(t, y, p, after)
    BY <1>2, <1>3, UpdateEffect
  <1>5. Calls(p)
    BY <1>1, <1>2, <1>4, CallsGrow DEF Drops, Updated
  <1>6. SameAlert(m, y)
    BY <1>1, <1>2 DEF Expires, SameAlert
  <1>7. Content(x.pending) \subseteq Content(y.pending) /\ Content(y.pending) \subseteq Content(p)
    BY <1>2, <1>4 DEF Drops, Updated, Grows
  <1>8. m'.dialog = m.dialog \/ (m'.dialog = None /\ CancelAct(m.dialog) \in Content(p))
    <2>1. x.dialog = m.dialog \/ (x.dialog = None /\ CancelAct(m.dialog) \in Content(p))
      BY <1>1, <1>7 DEF Expires
    <2>2. y.dialog = x.dialog \/ (x.dialog # None /\ y.dialog = None /\ CancelAct(x.dialog) \in Content(p))
      BY <1>2, <1>7 DEF Drops
    <2>3. m'.dialog = y.dialog
          \/ (y.dialog # None /\ m'.dialog = None /\ CancelAct(y.dialog) \in Content(p))
      BY <1>4 DEF Updated
    <2> QED
      BY ONLY <2>1, <2>2, <2>3
  <1>9. Quietly(p)
    BY <1>4, <1>6, <1>8 DEF Quietly, Updated, SameAlert
  <1> QED
    BY <1>4, <1>5, <1>9 DEF Updated

----------------------------------------------------------------------------
(* What a step does to each part of the invariant                          *)

\* The reports of the mixer, in a step that is not the mixer's.
LEMMA MixKept ==
    ASSUME TypeInv, MixInv, mix' = mix, m'.dialog \in {m.dialog, None},
           ghost'.over \in {ghost.over, None, m.dialog}
    PROVE  MixInv'
  <1>1. \A p \in Playbacks : p # None
    BY NoneIsNone
  <1>2. mix.cur \in Playbacks \cup {None}
    BY DEF TypeInv
  <1>3. (mix.started => mix.cur # None)'
    BY DEF MixInv
  <1>4. ASSUME NEW p \in Playbacks
        PROVE  /\ FinishedOf(p) \in Content(mix'.events) => p # mix'.cur
               /\ StartOf(p) \in Content(mix'.events) =>
                    /\ mix'.cur # None => p = mix'.cur /\ mix'.started
                    /\ m'.dialog # p /\ ghost'.over # p
    BY <1>1, <1>4 DEF MixInv
  <1>5. \A i, j \in 1..Len(mix'.events) :
         mix'.events[i].ev = "start" /\ mix'.events[j].ev = "start" => i = j
    BY DEF MixInv
  <1>6. mix'.cur # None /\ ~mix'.started => m'.dialog # mix'.cur /\ ghost'.over # mix'.cur
    BY <1>1, <1>2 DEF MixInv
  <1> QED
    BY <1>3, <1>4, <1>5, <1>6 DEF MixInv

\* What is heard, in a step that is not the mixer's.
LEMMA DialogKept ==
    ASSUME TypeInv, DialogInv, MixInv, mix' = mix,
           m'.dialog = m.dialog \/ (m.dialog \in Playbacks => Left(CancelAct(m.dialog))),
           \A p \in Playbacks : Pending(CancelAct(p)) => Left(CancelAct(p))
    PROVE  DialogInv'
  <1> SUFFICES ASSUME mix.started
               PROVE  \/ StartOf(mix.cur) \in Content(mix.events)
                      \/ m'.dialog = mix.cur
                      \/ Left(CancelAct(mix.cur))
    BY DEF DialogInv, Pending, Left
  <1>1. mix.cur \in Playbacks
    BY DEF MixInv, TypeInv
  <1> QED
    BY <1>1 DEF DialogInv

\* Output that yields, in a step that leaves the alert alone.
LEMMA YieldKept ==
    ASSUME TypeInv, YieldInv, mix' = mix, ghost' = ghost,
           m'.dialog = m.dialog \/ (m.dialog \in Playbacks => Left(CancelAct(m.dialog))),
           m'.yieldIn = m.yieldIn \/ m'.dialog = None,
           \A p \in Playbacks : Pending(CancelAct(p)) => Left(CancelAct(p))
    PROVE  YieldInv'
  <1>1. ghost'.waits <= AlertYield
    BY DEF YieldInv
  <1>2. ASSUME ghost.over # None, mix.cur = ghost.over, ~Left(CancelAct(ghost.over))
        PROVE  m'.dialog = ghost.over /\ m'.yieldIn # None /\ ghost.waits + m'.yieldIn <= AlertYield
    <2>1. ghost.over \in Playbacks
      BY <1>2 DEF TypeInv
    <2>2. m.dialog = ghost.over /\ m.yieldIn # None /\ ghost.waits + m.yieldIn <= AlertYield
      BY <1>2, <2>1 DEF YieldInv
    <2>3. m'.dialog = m.dialog /\ m'.dialog # None
      BY <1>2, <2>1, <2>2
    <2> QED
      BY <2>2, <2>3
  <1>3. ghost'.over = ghost.over /\ ghost'.waits = ghost.waits /\ mix'.cur = mix.cur
    OBVIOUS
  <1> QED
    BY <1>1, <1>2, <1>3 DEF YieldInv, Pending, Left

\* A quiet step keeps all three.
LEMMA QuietKept ==
    ASSUME TypeInv, MixInv, DialogInv, YieldInv, NEW p, Quietly(p), NEW add, NEW del,
           Moves(add, del), Content(p) \subseteq add, \A a \in del : a.do # "cancel",
           mix' = mix, ghost' = ghost
    PROVE  MixInv' /\ DialogInv' /\ YieldInv'
  <1>1. \A q \in Playbacks : Pending(CancelAct(q)) => Left(CancelAct(q))
    BY ActsFit DEF Moves
  <1>2. m'.dialog = m.dialog \/ (m.dialog \in Playbacks => Left(CancelAct(m.dialog)))
    BY DEF Quietly, Moves
  <1>3. m'.dialog \in {m.dialog, None} /\ (m'.yieldIn = m.yieldIn \/ m'.dialog = None)
    BY DEF Quietly
  <1>4. MixInv'
    BY <1>3, MixKept
  <1>5. DialogInv'
    BY <1>1, <1>2, DialogKept
  <1>6. YieldInv'
    BY <1>1, <1>2, <1>3, YieldKept
  <1> QED
    BY <1>4, <1>5, <1>6

\* The manager's alert and what is told of it.
LEMMA AlertKept ==
    ASSUME AlertInv, NEW add, NEW del, Moves(add, del), \A a \in del : a.do # "focus",
           SameEx, sup'.focus = sup.focus, m'.alert = m.alert
    PROVE  AlertInv'
  <1>1. ToldId' = ToldId
    BY DEF SameEx, ToldId
  <1>2. NoReport' => NoReport
    <2>1. ASSUME NoReport', NEW t \in Threads, NEW a \in Content(acts[t]), a.do = "focus"
          PROVE  FALSE
      <3>1. Pending(a) /\ a \notin del
        BY <2>1 DEF Pending
      <3>2. Left(a)
        BY <3>1 DEF Moves
      <3> QED
        BY <2>1, <3>2 DEF Left, NoReport
    <2> QED
      BY <2>1 DEF NoReport
  <1> QED
    BY <1>1, <1>2 DEF AlertInv, SameEx

\* The silence, in a step that queues no burst.
LEMMA SilentKept ==
    ASSUME SilentInv, NEW add, NEW del, Moves(add, del), \A a \in add : a.do # "burst",
           m'.alert = m.alert, m'.budget + m'.bgFor = m.budget + m.bgFor,
           ghost'.silent = ghost.silent, ex'.burst \in {ex.burst, None}, ticked' = ticked
    PROVE  SilentInv'
  <1>1. ghost'.silent <= m'.budget + m'.bgFor + 1 /\ (m'.alert = None => ghost'.silent = 0)
    BY DEF SilentInv
  <1>2. ex'.burst # None /\ ex'.burst = m'.alert => ghost'.silent <= IF ticked' THEN 0 ELSE 1
    BY DEF SilentInv
  <1>3. ASSUME NEW t \in Threads, NEW a \in Content(acts'[t]), a.do = "burst", a.of = m'.alert
        PROVE  ghost'.silent <= 1
    <2>1. Pending(a)
      BY <1>3 DEF Moves, Left
    <2> QED
      BY <1>3, <2>1 DEF Pending, SilentInv
  <1> QED
    BY <1>1, <1>2, <1>3 DEF SilentInv

\* What is pending about a lease.
AboutLease(l) ==
    {[do |-> "noted", of |-> l], [do |-> "forgot", of |-> l], ExpiredAct(l)}

\* A lease nobody asked about: it may expire, and then its callback is queued.
LEMMA LeaseKept ==
    ASSUME NEW l \in Leases, LeaseOK(l), NEW add, NEW del, Moves(add, del),
           m'.leases[l] = IF l \in Expired(m) THEN None ELSE m.leases[l],
           l \in Expired(m) => ExpiredAct(l) \in add,
           \A a \in add \cap AboutLease(l) : a = ExpiredAct(l) /\ l \in Expired(m),
           del \cap AboutLease(l) = {},
           l \in sup'.leases <=> l \in sup.leases
    PROVE  LeaseOK(l)'
  <1> DEFINE N == [do |-> "noted", of |-> l]
             F == [do |-> "forgot", of |-> l]
             E == ExpiredAct(l)
  <1>1. N # E /\ F # E
    BY DEF ExpiredAct
  <1>2. AboutLease(l) = {N, F, E}
    BY DEF AboutLease
  <1>3. /\ Noted(l) <=> Pending(N)
        /\ Gone(l) <=> Pending(E) \/ Pending(F)
    BY DEF Noted, Gone, ExpiredAct
  <1>4. /\ Noted(l)' <=> Left(N)
        /\ Gone(l)' <=> Left(E) \/ Left(F)
    BY DEF Noted, Gone, ExpiredAct, Pending, Left
  <1>5. l \in Expired(m) => m.leases[l] # None /\ m.leases[l].left = 0
    BY DEF Expired, Live
  <1> HIDE DEF N, F, E
  <1>6. (Left(N) => Pending(N)) /\ (Left(F) => Pending(F)) /\ (Left(E) => Pending(E) \/ l \in Expired(m))
    BY <1>1, <1>2 DEF Moves, E
  <1>7. (Pending(N) => Left(N)) /\ (Pending(F) => Left(F)) /\ (Pending(E) => Left(E))
    BY <1>2 DEF Moves
  <1>8. l \in Expired(m) => Left(E)
    BY DEF Moves, E
  <1>9. /\ Left(N) => m'.leases[l] # None /\ m'.leases[l].left # 0
        /\ Left(E) \/ Left(F) => m'.leases[l] = None
        /\ ~Left(N) /\ ~Left(E) /\ ~Left(F) => (l \in sup'.leases <=> m'.leases[l] # None)
    BY <1>3, <1>5, <1>6, <1>7, <1>8 DEF LeaseOK
  <1> QED
    BY <1>4, <1>9 DEF LeaseOK

\* In an update the callbacks are those of the expired leases.
LEMMA CallsAbout ==
    ASSUME NEW p, Calls(p), NEW l \in Leases
    PROVE  /\ l \in Expired(m) => ExpiredAct(l) \in Content(p)
           /\ \A a \in Content(p) \cap AboutLease(l) : a = ExpiredAct(l) /\ l \in Expired(m)
  <1>1. ASSUME NEW a \in Content(p), a \in AboutLease(l)
        PROVE  a = ExpiredAct(l) /\ l \in Expired(m)
    <2>1. a.of = l /\ a.do \in {"noted", "forgot", "expired"}
      BY <1>1 DEF AboutLease, ExpiredAct
    <2>2. PICK k \in Expired(m) : a = ExpiredAct(k)
      BY <1>1, <2>1 DEF Calls
    <2> QED
      BY <2>1, <2>2 DEF ExpiredAct
  <1> QED
    BY <1>1 DEF Calls

\* A free goroutine makes an update that is not about the alert.
LEMMA NeutralStep ==
    ASSUME Inv, NEW t \in Threads, Free(t), NEW x \in Now, NEW y, Neutral(x, y),
           NEW after \in Seq(Acts), Update(t, y, after),
           mix' = mix, ghost' = ghost, SameEx, sup'.focus = sup.focus,
           \A a \in Content(after) :
              a.do \notin {"focus", "stopped"} /\ (a.do = "noted" => t = "link")
    PROVE  /\ IsManager(m') /\ m'.pending = <<>> /\ acts' \in [Threads -> Seq(Acts)]
           /\ (Cardinality(Busy) <= MaxBusy)'
           /\ ManagerInv' /\ ActInv' /\ AlertInv' /\ MixInv' /\ DialogInv' /\ YieldInv'
           /\ m'.leases = y.leases /\ m'.alert = m.alert
           /\ m'.budget + m'.bgFor = m.budget + m.bgFor
           /\ \E p : Calls(p) /\ Moves(Content(p) \cup Content(after), {})
  <1>1. PICK p \in Seq(Acts) : Updated(t, y, p, after) /\ Quietly(p) /\ Calls(p)
    BY NeutralUpdate DEF Inv
  <1> DEFINE q == p \o after
  <1>2. q \in Seq(Acts) /\ Content(q) = Content(p) \cup Content(after)
    BY ContentConcat
  <1>3. acts' = [acts EXCEPT ![t] = q]
    BY <1>1 DEF Updated
  <1> HIDE DEF q
  <1>4. /\ acts' \in [Threads -> Seq(Acts)] /\ Moves(Content(q), {})
        /\ (Cardinality(Busy) <= MaxBusy)'
    BY <1>2, <1>3, FreeMoves DEF Inv
  <1>5. \A a \in Content(q) : a.do \notin {"focus", "stopped"} /\ (a.do = "noted" => t = "link")
    BY <1>1, <1>2 DEF Calls, ExpiredAct
  <1>6. ActInv'
    BY <1>2, <1>3, <1>5, ActFree DEF Inv
  <1>7. Content(p) \subseteq Content(q)
    BY <1>2
  <1>8. MixInv' /\ DialogInv' /\ YieldInv'
    BY <1>1, <1>4, <1>7, QuietKept DEF Inv
  <1>9. AlertInv'
    BY <1>1, <1>4, AlertKept DEF Inv, Quietly
  <1>10. ManagerInv'
    BY <1>1 DEF Updated, ManagerInv
  <1>11. Calls(p) /\ Moves(Content(p) \cup Content(after), {})
    BY <1>1, <1>2, <1>4
  <1> QED
    BY <1>1, <1>4, <1>6, <1>8, <1>9, <1>10, <1>11 DEF Updated, Quietly

\* An update leaves the leases to the time: the supervisor's follow.
LEMMA LeasesKept ==
    ASSUME LeaseInv, NEW x, Expires(m, x), \A l \in Leases : m'.leases[l] = x.leases[l],
           NEW p, Calls(p), NEW add, NEW del, Moves(add, del), Content(p) \subseteq add,
           \A a \in (add \ Content(p)) \cup del : a.do \notin {"noted", "forgot", "expired"},
           sup'.leases = sup.leases
    PROVE  LeaseInv'
  <1> SUFFICES ASSUME NEW l \in Leases PROVE LeaseOK(l)'
    BY DEF LeaseInv
  <1>1. /\ l \in Expired(m) => ExpiredAct(l) \in Content(p)
        /\ \A a \in Content(p) \cap AboutLease(l) : a = ExpiredAct(l) /\ l \in Expired(m)
    BY CallsAbout
  <1>2. ((add \ Content(p)) \cup del) \cap AboutLease(l) = {}
    BY DEF AboutLease, ExpiredAct
  <1>3. m'.leases[l] = IF l \in Expired(m) THEN None ELSE m.leases[l]
    BY DEF Expires, Ids
  <1>4. /\ l \in Expired(m) => ExpiredAct(l) \in add
        /\ \A a \in add \cap AboutLease(l) : a = ExpiredAct(l) /\ l \in Expired(m)
    BY <1>1, <1>2
  <1>5. del \cap AboutLease(l) = {}
    BY <1>2
  <1>6. LeaseOK(l)
    BY DEF LeaseInv
  <1> QED
    BY <1>3, <1>4, <1>5, <1>6, LeaseKept

\* candidateAcked, uplinkRenew, uplinkClose, CandidateOpen.
LEMMA CandidateStep ==
    ASSUME Inv, NEW c \in Candidates, CandidateCommand(c) \/ CandidateOpen(c)
    PROVE  Inv'
  <1>1. PICK t \in Threads, x \in Now :
          /\ Free(t)
          /\ \/ Update(t, CandidateRenew(x, c), <<>>) \/ Update(t, CandidateRelease(x, c), <<>>)
             \/ Update(t, CandidateAccept(x, c), <<>>) \/ Update(t, Ducked(x, c), <<>>)
    BY DEF CandidateCommand, CandidateOpen, Threads
  <1>2. UNCHANGED <<mix, ex, sup, session, ticked, ghost>>
    BY DEF CandidateCommand, CandidateOpen, DeviceSame
  <1>3. IsManager(x) /\ Expires(m, x)
    BY ExpireNow DEF Inv
  <1>4. PICK y : /\ Update(t, y, <<>>)
                 /\ \/ y = CandidateRenew(x, c) \/ y = CandidateRelease(x, c)
                    \/ y = CandidateAccept(x, c) \/ y = Ducked(x, c)
    BY <1>1
  <1>5. Neutral(x, y) /\ \A l \in Leases : y.leases[l] = x.leases[l]
    BY <1>3, <1>4, CandidateEffect
  <1>6. <<>> \in Seq(Acts) /\ Content(<<>>) = {}
    BY ContentOf, EmptySeq
  <1>7. SameEx /\ sup'.focus = sup.focus
    BY <1>2 DEF SameEx
  <1>8. /\ IsManager(m') /\ m'.pending = <<>> /\ acts' \in [Threads -> Seq(Acts)]
        /\ (Cardinality(Busy) <= MaxBusy)'
        /\ ManagerInv' /\ ActInv' /\ AlertInv' /\ MixInv' /\ DialogInv' /\ YieldInv'
        /\ m'.leases = y.leases /\ m'.alert = m.alert
        /\ m'.budget + m'.bgFor = m.budget + m.bgFor
        /\ \E p : Calls(p) /\ Moves(Content(p) \cup Content(<<>>), {})
    BY <1>1, <1>2, <1>4, <1>5, <1>6, <1>7, NeutralStep
  <1>9. PICK p : Calls(p) /\ Moves(Content(p), {})
    <2>1. PICK p : Calls(p) /\ Moves(Content(p) \cup Content(<<>>), {})
      BY <1>8
    <2>2. Content(p) \cup Content(<<>>) = Content(p)
      BY <1>6
    <2> QED
      BY <2>1, <2>2
  <1>10. LeaseInv'
    BY <1>2, <1>3, <1>5, <1>8, <1>9, LeasesKept DEF Inv
  <1>11. SilentInv'
    <2>1. \A a \in Content(p) : a.do # "burst"
      BY <1>9 DEF Calls, ExpiredAct
    <2> QED
      BY <1>2, <1>8, <1>9, <2>1, SilentKept DEF Inv
  <1>12. TypeInv'
    BY <1>2, <1>8 DEF Inv, TypeInv
  <1> QED
    BY <1>8, <1>10, <1>11, <1>12 DEF Inv

\* A lease other than the one a command is about.
LEMMA OtherLease ==
    ASSUME LeaseInv, NEW x, Expires(m, x), NEW l \in Leases, NEW k \in Leases, k # l,
           m'.leases[k] = x.leases[k], NEW p, Calls(p), NEW more, Moves(Content(p) \cup more, {}),
           \A a \in more : a.of = l, sup' = sup
    PROVE  LeaseOK(k)'
  <1>1. /\ k \in Expired(m) => ExpiredAct(k) \in Content(p)
        /\ \A a \in Content(p) \cap AboutLease(k) : a = ExpiredAct(k) /\ k \in Expired(m)
    BY CallsAbout
  <1>2. more \cap AboutLease(k) = {}
    BY DEF AboutLease, ExpiredAct
  <1>3. m'.leases[k] = IF k \in Expired(m) THEN None ELSE m.leases[k]
    BY DEF Expires, Ids
  <1> DEFINE add == Content(p) \cup more
  <1>4. /\ k \in Expired(m) => ExpiredAct(k) \in add
        /\ \A a \in add \cap AboutLease(k) : a = ExpiredAct(k) /\ k \in Expired(m)
    BY <1>1, <1>2
  <1>5. Moves(add, {}) /\ {} \cap AboutLease(k) = {}
    OBVIOUS
  <1> HIDE DEF add
  <1>6. LeaseOK(k)
    BY DEF LeaseInv
  <1> QED
    BY <1>3, <1>4, <1>5, <1>6, LeaseKept

\* The lease a command is about: acquired and to be noted, renewed, or released and
\* to be forgotten.
LEMMA ThisLease ==
    ASSUME Inv, NEW l \in Leases, Free("link"), NEW x, Expires(m, x), NEW p, Calls(p), NEW more,
           Moves(Content(p) \cup more, {}), sup' = sup,
           \/ /\ l \notin sup.leases /\ Unnamed(l) /\ more = {[do |-> "noted", of |-> l]}
              /\ m'.leases[l] # None /\ m'.leases[l].left # 0
           \/ /\ l \in Live(m) /\ more = {}
              /\ m'.leases[l] = None <=> x.leases[l] = None
              /\ m'.leases[l] # None => m'.leases[l].left # 0
           \/ /\ l \in Live(m) /\ more = {[do |-> "forgot", of |-> l]} /\ m'.leases[l] = None
    PROVE  LeaseOK(l)'
  <1> DEFINE N == [do |-> "noted", of |-> l]
             F == [do |-> "forgot", of |-> l]
             E == ExpiredAct(l)
             add == Content(p) \cup more
  <1>1. N # E /\ F # E /\ N # F
    BY DEF ExpiredAct
  <1>2. /\ l \in Expired(m) => E \in Content(p)
        /\ \A a \in Content(p) \cap {N, F, E} : a = E /\ l \in Expired(m)
    BY CallsAbout DEF AboutLease
  <1>3. /\ Noted(l) <=> Pending(N)
        /\ Gone(l) <=> Pending(E) \/ Pending(F)
    BY DEF Noted, Gone, ExpiredAct
  <1>4. /\ Noted(l)' <=> Left(N)
        /\ Gone(l)' <=> Left(E) \/ Left(F)
    BY DEF Noted, Gone, ExpiredAct, Pending, Left
  <1>5. (l \in Expired(m) => l \in Live(m)) /\ (l \in Live(m) <=> m.leases[l] # None)
    BY DEF Expired, Live, Ids
  <1>6. x.leases[l] = IF l \in Expired(m) THEN None ELSE m.leases[l]
    BY DEF Expires, Ids
  <1>7. Moves(add, {})
    OBVIOUS
  <1>8. LeaseOK(l)
    BY DEF Inv, LeaseInv
  <1>9. ASSUME Unnamed(l) PROVE ~Pending(N) /\ ~Pending(F) /\ ~Pending(E)
    <2>1. ASSUME NEW t \in Threads, NEW a \in Content(acts[t]) PROVE a.of # l
      <3>1. PICK i \in 1..Len(acts[t]) : acts[t][i] = a
        BY <2>1, InContent
      <3>2. acts[t] \in Seq(Acts)
        BY DEF Inv, TypeInv
      <3>3. i \in DOMAIN acts[t]
        BY <3>1, <3>2
      <3> QED
        BY <1>9, <3>1, <3>3 DEF Unnamed
    <2>2. N.of = l /\ F.of = l /\ E.of = l
      BY DEF ExpiredAct
    <2> HIDE DEF N, F, E
    <2> QED
      BY <2>1, <2>2 DEF Pending
  <1>10. ~Pending(N)
    <2>1. ASSUME NEW t \in Threads, N \in Content(acts[t]) PROVE FALSE
      <3>1. t = "link"
        BY <2>1 DEF Inv, ActInv
      <3>2. acts[t] = <<>>
        BY <3>1 DEF Free, Busy
      <3>3. Content(<<>>) = {}
        BY ContentOf, EmptySeq
      <3> QED
        BY <2>1, <3>2, <3>3
    <2> QED
      BY <2>1 DEF Pending
  <1>11. SUFFICES /\ Left(N) => m'.leases[l] # None /\ m'.leases[l].left # 0
                  /\ Left(E) \/ Left(F) => m'.leases[l] = None
                  /\ ~Left(N) /\ ~Left(E) /\ ~Left(F) => (l \in sup'.leases <=> m'.leases[l] # None)
    BY <1>4 DEF LeaseOK
  <1> HIDE DEF N, F, E, add
  <1>12. /\ Left(N) => N \in more
         /\ Left(F) => Pending(F) \/ F \in more
         /\ Left(E) => Pending(E) \/ l \in Expired(m) \/ E \in more
         /\ Pending(F) => Left(F)
         /\ Pending(E) => Left(E)
         /\ l \in Expired(m) => Left(E)
         /\ N \in more => Left(N)
         /\ F \in more => Left(F)
    BY <1>1, <1>2, <1>7, <1>10 DEF Moves, add
  <1>13. CASE /\ l \notin sup.leases /\ Unnamed(l) /\ more = {N}
              /\ m'.leases[l] # None /\ m'.leases[l].left # 0
    BY <1>1, <1>3, <1>5, <1>8, <1>9, <1>12, <1>13 DEF LeaseOK
  <1>14. CASE /\ l \in Live(m) /\ more = {}
              /\ m'.leases[l] = None <=> x.leases[l] = None
              /\ m'.leases[l] # None => m'.leases[l].left # 0
    BY <1>3, <1>5, <1>6, <1>8, <1>10, <1>12, <1>14 DEF LeaseOK
  <1>15. CASE l \in Live(m) /\ more = {F} /\ m'.leases[l] = None
    BY <1>1, <1>3, <1>5, <1>8, <1>12, <1>15 DEF LeaseOK
  <1>16. \/ /\ l \notin sup.leases /\ Unnamed(l) /\ more = {N}
            /\ m'.leases[l] # None /\ m'.leases[l].left # 0
         \/ /\ l \in Live(m) /\ more = {}
            /\ m'.leases[l] = None <=> x.leases[l] = None
            /\ m'.leases[l] # None => m'.leases[l].left # 0
         \/ /\ l \in Live(m) /\ more = {F} /\ m'.leases[l] = None
    BY Zenon DEF N, F
  <1> QED
    BY <1>13, <1>14, <1>15, <1>16

\* focusAcquire, focusRenew, focusRelease.
LEMMA FocusStep ==
    ASSUME Inv, NEW l \in Leases, FocusCommand(l)
    PROVE  Inv'
  <1> DEFINE N == [do |-> "noted", of |-> l]
             F == [do |-> "forgot", of |-> l]
  <1>1. PICK x \in Now :
          \/ /\ l \notin sup.leases /\ Unnamed(l) /\ Update("link", Acquire(x, l), <<N>>)
          \/ l \in Live(m) /\ Update("link", Renew(x, l), <<>>)
          \/ l \in Live(m) /\ Update("link", Release(x, l), <<F>>)
    BY DEF FocusCommand
  <1>2. UNCHANGED <<mix, ex, sup, session, ticked, open, ghost>> /\ Free("link") /\ "link" \in Threads
    BY DEF FocusCommand, Threads
  <1>3. IsManager(x) /\ Expires(m, x)
    BY ExpireNow DEF Inv
  <1>4. /\ <<N>> \in Seq(Acts) /\ Content(<<N>>) = {N} /\ <<F>> \in Seq(Acts) /\ Content(<<F>>) = {F}
        /\ <<>> \in Seq(Acts) /\ Content(<<>>) = {}
    BY ActsFit, ContentOne, ContentOf, EmptySeq, ZenonT(40)
  <1>5. N.do = "noted" /\ F.do = "forgot" /\ N.of = l /\ F.of = l
    OBVIOUS
  <1>6. PICK y, after :
          /\ Update("link", y, after) /\ after \in {<<N>>, <<>>, <<F>>} /\ Neutral(x, y)
          /\ \A k \in Leases \ {l} : y.leases[k] = x.leases[k]
          /\ \/ /\ l \notin sup.leases /\ Unnamed(l) /\ after = <<N>>
                /\ y.leases[l] # None /\ y.leases[l].left # 0
             \/ /\ l \in Live(m) /\ after = <<>>
                /\ y.leases[l] = None <=> x.leases[l] = None
                /\ y.leases[l] # None => y.leases[l].left # 0
             \/ /\ l \in Live(m) /\ after = <<F>> /\ y.leases[l] = None
    <2> HIDE DEF N, F
    <2>1. CASE l \notin sup.leases /\ Unnamed(l) /\ Update("link", Acquire(x, l), <<N>>)
      <3>1. PICK y : y = Acquire(x, l)
        OBVIOUS
      <3>2. /\ Neutral(x, y) /\ y.leases[l] # None /\ y.leases[l].left # 0
            /\ \A k \in Leases \ {l} : y.leases[k] = x.leases[k]
        BY <1>3, <3>1, AcquireEffect
      <3> QED
        BY <2>1, <3>1, <3>2
    <2>2. CASE l \in Live(m) /\ Update("link", Renew(x, l), <<>>)
      <3>1. PICK y : y = Renew(x, l)
        OBVIOUS
      <3>2. /\ Neutral(x, y) /\ (y.leases[l] = None <=> x.leases[l] = None)
            /\ (y.leases[l] # None => y.leases[l].left # 0)
            /\ \A k \in Leases \ {l} : y.leases[k] = x.leases[k]
        BY <1>3, <3>1, RenewEffect
      <3> QED
        BY <2>2, <3>1, <3>2
    <2>3. CASE l \in Live(m) /\ Update("link", Release(x, l), <<F>>)
      <3>1. PICK y : y = Release(x, l)
        OBVIOUS
      <3>2. /\ Neutral(x, y) /\ y.leases[l] = None
            /\ \A k \in Leases \ {l} : y.leases[k] = x.leases[k]
        BY <1>3, <3>1, ReleaseEffect
      <3> QED
        BY <2>3, <3>1, <3>2
    <2> QED
      BY <1>1, <2>1, <2>2, <2>3
  <1> HIDE DEF N, F
  <1>7. /\ after \in Seq(Acts) /\ \A a \in Content(after) : a.of = l /\ a.do \in {"noted", "forgot"}
    BY <1>4, <1>5, <1>6
  <1>8. SameEx /\ sup'.focus = sup.focus
    BY <1>2 DEF SameEx
  <1>9. \A a \in Content(after) :
           a.do \notin {"focus", "stopped"} /\ (a.do = "noted" => "link" = "link")
    BY <1>7
  <1>10. /\ IsManager(m') /\ m'.pending = <<>> /\ acts' \in [Threads -> Seq(Acts)]
        /\ (Cardinality(Busy) <= MaxBusy)'
        /\ ManagerInv' /\ ActInv' /\ AlertInv' /\ MixInv' /\ DialogInv' /\ YieldInv'
        /\ m'.leases = y.leases /\ m'.alert = m.alert
        /\ m'.budget + m'.bgFor = m.budget + m.bgFor
        /\ \E p : Calls(p) /\ Moves(Content(p) \cup Content(after), {})
    BY <1>2, <1>6, <1>7, <1>8, <1>9, NeutralStep
  <1>11. PICK p : Calls(p) /\ Moves(Content(p) \cup Content(after), {})
    BY <1>10
  <1>12. LeaseInv'
    <2>1. LeaseOK(l)'
      <3> DEFINE more == Content(after)
      <3>1. \/ /\ l \notin sup.leases /\ Unnamed(l) /\ more = {N}
               /\ m'.leases[l] # None /\ m'.leases[l].left # 0
            \/ /\ l \in Live(m) /\ more = {}
               /\ m'.leases[l] = None <=> x.leases[l] = None
               /\ m'.leases[l] # None => m'.leases[l].left # 0
            \/ /\ l \in Live(m) /\ more = {F} /\ m'.leases[l] = None
        BY <1>4, <1>6, <1>10
      <3>2. Moves(Content(p) \cup more, {}) /\ sup' = sup
        BY <1>2, <1>11
      <3> HIDE DEF more
      <3> QED
        BY <1>2, <1>3, <1>11, <3>1, <3>2, ThisLease DEF N, F
    <2>2. ASSUME NEW k \in Leases, k # l PROVE LeaseOK(k)'
      <3>1. m'.leases[k] = x.leases[k] /\ LeaseInv /\ sup' = sup
        BY <1>2, <1>6, <1>10, <2>2 DEF Inv
      <3> QED
        BY <1>3, <1>7, <1>11, <2>2, <3>1, OtherLease
    <2> QED
      BY <2>1, <2>2 DEF LeaseInv
  <1>13. SilentInv'
    <2>1. \A a \in Content(p) \cup Content(after) : a.do # "burst"
      BY <1>7, <1>11 DEF Calls, ExpiredAct
    <2> QED
      BY <1>2, <1>10, <1>11, <2>1, SilentKept DEF Inv
  <1>14. TypeInv'
    BY <1>2, <1>10 DEF Inv, TypeInv
  <1> QED
    BY <1>10, <1>12, <1>13, <1>14 DEF Inv

\* endSession: every lease is gone, and nothing is noted any more.
LEMMA EndSessionStep ==
    ASSUME Inv, EndSession
    PROVE  Inv'
  <1> DEFINE M == [do |-> "mixend", of |-> None]
  <1>1. PICK x \in Now : Update("link", EndAll(x), <<M>>)
    BY DEF EndSession
  <1>2. /\ UNCHANGED <<mix, ex, ticked, ghost>> /\ Free("link") /\ "link" \in Threads
        /\ sup' = [sup EXCEPT !.leases = {}]
    BY DEF EndSession, Threads
  <1>3. IsManager(x)
    BY ExpireNow DEF Inv
  <1>4. <<M>> \in Seq(Acts) /\ Content(<<M>>) = {M}
    BY ActsFit, ContentOne
  <1>5. M.do = "mixend"
    OBVIOUS
  <1> HIDE DEF M
  <1>6. PICK y : y = EndAll(x)
    OBVIOUS
  <1>7. Neutral(x, y) /\ \A l \in Leases : y.leases[l] = None
    BY <1>3, <1>6, EndAllEffect
  <1>8. sup' \in [leases : SUBSET Leases, focus : Alerts \cup {None}]
        /\ sup'.leases = {} /\ sup'.focus = sup.focus
    BY <1>2 DEF Inv, TypeInv
  <1>9. SameEx
    BY <1>2 DEF SameEx
  <1>10. \A a \in Content(<<M>>) :
           a.do \notin {"focus", "stopped"} /\ (a.do = "noted" => "link" = "link")
    BY <1>4, <1>5
  <1>11. /\ IsManager(m') /\ m'.pending = <<>> /\ acts' \in [Threads -> Seq(Acts)]
        /\ (Cardinality(Busy) <= MaxBusy)'
        /\ ManagerInv' /\ ActInv' /\ AlertInv' /\ MixInv' /\ DialogInv' /\ YieldInv'
        /\ m'.leases = y.leases /\ m'.alert = m.alert
        /\ m'.budget + m'.bgFor = m.budget + m.bgFor
        /\ \E p : Calls(p) /\ Moves(Content(p) \cup Content(<<M>>), {})
    BY <1>1, <1>2, <1>4, <1>6, <1>7, <1>8, <1>9, <1>10, NeutralStep, ZenonT(40)
  <1>12. PICK p : Calls(p) /\ Moves(Content(p) \cup {M}, {})
    BY <1>4, <1>11
  <1>13. LeaseInv'
    <2>1. ASSUME NEW l \in Leases PROVE ~Noted(l)'
      <3> DEFINE N == [do |-> "noted", of |-> l]
      <3>1. N.do = "noted"
        OBVIOUS
      <3> HIDE DEF N
      <3>2. ~Pending(N)
        <4>1. ASSUME NEW t \in Threads, N \in Content(acts[t]) PROVE FALSE
          <5>1. t = "link"
            BY <3>1, <4>1 DEF Inv, ActInv
          <5>2. acts[t] = <<>>
            BY <1>2, <5>1 DEF Free, Busy
          <5>3. Content(<<>>) = {}
            BY ContentOf, EmptySeq
          <5> QED
            BY <4>1, <5>2, <5>3
        <4> QED
          BY <4>1 DEF Pending
      <3>3. N \notin Content(p) \cup {M}
        BY <1>5, <1>12, <3>1 DEF Calls, ExpiredAct
      <3>4. ~Left(N)
        BY <1>12, <3>2, <3>3 DEF Moves
      <3> QED
        BY <3>4 DEF Noted, Pending, Left, N
    <2> QED
      BY <1>7, <1>8, <1>11, <2>1 DEF LeaseInv, LeaseOK
  <1>14. SilentInv'
    <2>1. \A a \in Content(p) \cup {M} : a.do # "burst"
      BY <1>5, <1>12 DEF Calls, ExpiredAct
    <2> QED
      BY <1>2, <1>11, <1>12, <2>1, SilentKept DEF Inv
  <1>15. TypeInv'
    BY <1>2, <1>8, <1>11 DEF Inv, TypeInv
  <1> QED
    BY <1>11, <1>13, <1>14, <1>15 DEF Inv

\* The 50 ms tick: an update, and then the burst the executor completed.
LEMMA TickStep ==
    ASSUME Inv, Tick
    PROVE  Inv'
  <1> DEFINE B == [do |-> "burst", of |-> ex.burst]
             after == IF ex.burst = None THEN <<>> ELSE <<B>>
  <1>1. PICK x \in Now : Update("tick", x, after)
    BY DEF Tick
  <1>2. /\ UNCHANGED <<mix, sup, session, open, ghost>> /\ Free("tick") /\ "tick" \in Threads
        /\ ~ticked /\ ticked' = TRUE /\ ex' = [ex EXCEPT !.burst = None]
    BY DEF Tick, Threads
  <1>3. IsManager(x) /\ Expires(m, x) /\ Neutral(x, x)
    BY ExpireNow, NeutralSame DEF Inv
  <1>4. /\ after \in Seq(Acts)
        /\ \A a \in Content(after) : a.do = "burst" /\ a.of = ex.burst /\ ex.burst # None
    <2>1. CASE ex.burst = None
      BY <2>1, ContentOf, EmptySeq
    <2>2. CASE ex.burst # None
      <3>1. B \in Acts
        BY <2>2, ActsFit DEF Inv, TypeInv
      <3>2. B.do = "burst" /\ B.of = ex.burst
        OBVIOUS
      <3> HIDE DEF B
      <3>3. after = <<B>> /\ <<B>> \in Seq(Acts) /\ Content(<<B>>) = {B}
        BY <2>2, <3>1, ContentOne
      <3> QED
        BY <2>2, <3>2, <3>3
    <2> QED
      BY <2>1, <2>2
  <1> HIDE DEF after
  <1>5. /\ SameEx /\ ex'.burst = None
        /\ ex' \in [ringing : Alerts \cup {None}, told : {None} \cup [id : Alerts, fg : BOOLEAN],
                    background : BOOLEAN, burst : Alerts \cup {None}]
    BY <1>2 DEF SameEx, Inv, TypeInv
  <1>6. /\ \A a \in Content(after) :
             a.do \notin {"focus", "stopped"} /\ (a.do = "noted" => "tick" = "link")
        /\ sup'.focus = sup.focus /\ sup'.leases = sup.leases
    BY <1>2, <1>4
  <1>7. /\ IsManager(m') /\ m'.pending = <<>> /\ acts' \in [Threads -> Seq(Acts)]
        /\ (Cardinality(Busy) <= MaxBusy)'
        /\ ManagerInv' /\ ActInv' /\ AlertInv' /\ MixInv' /\ DialogInv' /\ YieldInv'
        /\ m'.leases = x.leases /\ m'.alert = m.alert
        /\ m'.budget + m'.bgFor = m.budget + m.bgFor
        /\ \E p : Calls(p) /\ Moves(Content(p) \cup Content(after), {})
    BY <1>1, <1>2, <1>3, <1>4, <1>5, <1>6, NeutralStep
  <1>8. PICK p : Calls(p) /\ Moves(Content(p) \cup Content(after), {})
    BY <1>7
  <1>9. LeaseInv'
    <2> DEFINE add == Content(p) \cup Content(after)
    <2>1. /\ Content(p) \subseteq add /\ Moves(add, {})
          /\ \A a \in (add \ Content(p)) \cup {} : a.do \notin {"noted", "forgot", "expired"}
      BY <1>4, <1>8
    <2> HIDE DEF add
    <2> QED
      BY <1>3, <1>6, <1>7, <1>8, <2>1, LeasesKept DEF Inv
  <1>10. SilentInv'
    <2>1. ghost'.silent <= m'.budget + m'.bgFor + 1 /\ (m'.alert = None => ghost'.silent = 0)
      BY <1>2, <1>7 DEF Inv, SilentInv
    <2>2. ASSUME NEW t \in Threads, NEW a \in Content(acts'[t]), a.do = "burst", a.of = m'.alert
          PROVE  ghost'.silent <= 1
      <3>1. Left(a)
        BY <2>2 DEF Left
      <3>2. Pending(a) \/ a \in Content(p) \/ a \in Content(after)
        BY <1>8, <3>1 DEF Moves
      <3>3. CASE Pending(a)
        BY <1>2, <1>7, <2>2, <3>3 DEF Pending, Inv, SilentInv
      <3>4. CASE a \in Content(p)
        BY <1>8, <2>2, <3>4 DEF Calls, ExpiredAct
      <3>5. CASE a \in Content(after)
        BY <1>2, <1>4, <1>7, <2>2, <3>5 DEF Inv, SilentInv
      <3> QED
        BY <3>2, <3>3, <3>4, <3>5
    <2> QED
      BY <1>5, <2>1, <2>2 DEF SilentInv
  <1>11. TypeInv'
    BY <1>2, <1>5, <1>7 DEF Inv, TypeInv
  <1> QED
    BY <1>7, <1>9, <1>10, <1>11 DEF Inv

\* The first report of the mixer is delivered: there is no second start behind it.
LEMMA ReportTaken ==
    ASSUME TypeInv, MixInv, mix.events # <<>>, mix' = [mix EXCEPT !.events = Tail(@)]
    PROVE  /\ mix' \in [cur : Playbacks \cup {None}, started : BOOLEAN, events : Seq(Reports)]
           /\ mix'.cur = mix.cur /\ mix'.started = mix.started
           /\ Head(mix.events) \in Reports /\ Head(mix.events) \in Content(mix.events)
           /\ Content(mix.events) = Content(mix'.events) \cup {Head(mix.events)}
           /\ Head(mix.events).ev = "start" => \A a \in Content(mix'.events) : a.ev # "start"
           /\ \A i, j \in 1..Len(mix'.events) :
                mix'.events[i].ev = "start" /\ mix'.events[j].ev = "start" => i = j
  <1> DEFINE q == mix.events
             r == Tail(q)
  <1>1. q \in Seq(Reports)
    BY DEF TypeInv
  <1>2. /\ r \in Seq(Reports) /\ Len(r) = Len(q) - 1 /\ Len(q) \in Nat /\ Len(q) > 0
        /\ Head(q) = q[1] /\ q[1] \in Reports
        /\ \A i \in 1..Len(r) : r[i] = q[i + 1] /\ i + 1 \in 1..Len(q)
    BY <1>1, TailOf
  <1>3. Content(q) = Content(r) \cup {Head(q)}
    BY <1>1, ContentTail
  <1>4. /\ mix' \in [cur : Playbacks \cup {None}, started : BOOLEAN, events : Seq(Reports)]
        /\ mix'.cur = mix.cur /\ mix'.started = mix.started /\ mix'.events = r
    BY <1>2 DEF TypeInv
  <1>5. \A i, j \in 1..Len(q) : q[i].ev = "start" /\ q[j].ev = "start" => i = j
    BY DEF MixInv
  <1> HIDE DEF q, r
  <1>6. ASSUME Head(q).ev = "start", NEW a \in Content(r), a.ev = "start" PROVE FALSE
    <2>1. PICK i \in 1..Len(r) : r[i] = a
      BY <1>6, InContent
    <2>2. q[i + 1].ev = "start" /\ i + 1 \in 1..Len(q) /\ 1 \in 1..Len(q) /\ q[1].ev = "start"
      BY <1>2, <1>6, <2>1
    <2>3. i + 1 = 1
      BY <1>5, <2>2
    <2> QED
      BY <1>2, <2>1, <2>3
  <1>7. ASSUME NEW i \in 1..Len(r), NEW j \in 1..Len(r), r[i].ev = "start", r[j].ev = "start"
        PROVE  i = j
    <2>1. i + 1 = j + 1
      BY <1>2, <1>5, <1>7
    <2> QED
      BY <1>2, <2>1
  <1>8. Head(q) \in Reports /\ Head(q) \in Content(q) /\ Content(q) = Content(mix'.events) \cup {Head(q)}
    BY <1>2, <1>3, <1>4
  <1>9. Head(q).ev = "start" => \A a \in Content(mix'.events) : a.ev # "start"
    BY <1>4, <1>6
  <1>10. \A i, j \in 1..Len(mix'.events) :
            mix'.events[i].ev = "start" /\ mix'.events[j].ev = "start" => i = j
    BY <1>4, <1>7
  <1> QED
    BY <1>4, <1>8, <1>9, <1>10 DEF q

\* An update whose operation is about the alert or the output.
LEMMA OpUpdate ==
    ASSUME TypeInv, ManagerInv, NEW t, NEW x \in Now, NEW y, IsManager(y), BudgetOK(y),
           Grows(x.pending, y.pending), NEW after, Update(t, y, after)
    PROVE  \E p \in Seq(Acts) : Updated(t, y, p, after) /\ Calls(p)
  <1>1. PICK p : Updated(t, y, p, after)
    BY UpdateEffect
  <1>2. Calls(p)
    BY <1>1, ExpireNow, CallsGrow DEF Updated
  <1> QED
    BY <1>1, <1>2 DEF Updated

\* The output of the manager, from before the update to after it, when the
\* operation leaves it alone.
LEMMA DialogThrough ==
    ASSUME NEW x, Expires(m, x), NEW y, y.dialog = x.dialog, Grows(x.pending, y.pending),
           NEW t, NEW p, NEW after, Updated(t, y, p, after)
    PROVE  m'.dialog = m.dialog \/ (m'.dialog = None /\ CancelAct(m.dialog) \in Content(p))
  <1>1. Content(x.pending) \subseteq Content(p)
    BY DEF Grows, Updated
  <1>2. x.dialog = m.dialog \/ (x.dialog = None /\ CancelAct(m.dialog) \in Content(p))
    BY <1>1 DEF Expires
  <1>3. m'.dialog = y.dialog
        \/ (y.dialog # None /\ m'.dialog = None /\ CancelAct(y.dialog) \in Content(p))
    BY DEF Updated
  <1> QED
    BY <1>2, <1>3

\* What a report of the mixer does to the manager.
LEMMA HookUpdate ==
    ASSUME Inv, Hook, NEW e, e = Head(mix.events), e \in Reports
    PROVE  \E x \in Now : \E p \in Seq(Acts) :
             /\ Calls(p) /\ acts' = [acts EXCEPT !["hooks"] = p \o <<>>]
             /\ IsManager(m') /\ m'.pending = <<>> /\ ManagerInv'
             /\ \A l \in Leases : m'.leases[l] = x.leases[l]
             /\ m'.alert = m.alert /\ m'.budget + m'.bgFor = m.budget + m.bgFor
             /\ e.ev = "start" => /\ m'.dialog \in {m.dialog, e.of, None}
                                  /\ m'.dialog = e.of \/ CancelAct(e.of) \in Content(p)
             /\ e.ev # "start" => m'.dialog \in {m.dialog, None}
             /\ e.ev # "start" /\ m.dialog # e.of =>
                  /\ m'.dialog = m.dialog \/ (m'.dialog = None /\ CancelAct(m.dialog) \in Content(p))
                  /\ m'.yieldIn = m.yieldIn \/ m'.dialog = None
  <1>1. PICK x \in Now : Update("hooks", IF e.ev = "start" THEN DialogOutputStarted(x, e.of)
                                         ELSE DialogOutputFinished(x, e.of), <<>>)
    BY DEF Hook
  <1>2. IsManager(x) /\ Expires(m, x) /\ BudgetOK(x)
    BY ExpireNow DEF Inv
  <1>3. e.of \in Playbacks /\ e.of # None
    BY NoneIsNone DEF Reports
  <1>4. CASE e.ev = "start"
    <2>1. PICK y : y = DialogOutputStarted(x, e.of)
      OBVIOUS
    <2>2. Update("hooks", y, <<>>)
      BY <1>1, <1>4, <2>1
    <2>3. /\ IsManager(y) /\ BudgetOK(y) /\ SameAlert(x, y) /\ y.leases = x.leases
          /\ Grows(x.pending, y.pending)
          /\ \/ y.dialog = e.of
             \/ y.dialog = x.dialog /\ CancelAct(e.of) \in Content(y.pending)
      BY <1>2, <1>3, <2>1, StartedEffect
    <2>4. PICK p \in Seq(Acts) : Updated("hooks", y, p, <<>>) /\ Calls(p)
      BY <2>2, <2>3, OpUpdate DEF Inv
    <2>5. Content(y.pending) \subseteq Content(p)
      BY <2>4 DEF Updated, Grows
    <2>6. m'.dialog = y.dialog
          \/ (y.dialog # None /\ m'.dialog = None /\ CancelAct(y.dialog) \in Content(p))
      BY <2>4 DEF Updated
    <2>7. /\ m'.dialog \in {m.dialog, e.of, None}
          /\ m'.dialog = e.of \/ CancelAct(e.of) \in Content(p)
      BY <1>2, <2>3, <2>5, <2>6 DEF Expires
    <2>8. m'.alert = m.alert /\ m'.budget + m'.bgFor = m.budget + m.bgFor
      BY <1>2, <2>3, <2>4 DEF Updated, SameAlert, Expires
    <2>9. /\ acts' = [acts EXCEPT !["hooks"] = p \o <<>>] /\ IsManager(m') /\ m'.pending = <<>>
          /\ ManagerInv' /\ m'.leases = x.leases
      BY <2>3, <2>4 DEF Updated, ManagerInv
    <2> QED
      BY <1>4, <2>4, <2>7, <2>8, <2>9
  <1>5. CASE e.ev # "start"
    <2>1. PICK y : y = DialogOutputFinished(x, e.of)
      OBVIOUS
    <2>2. Update("hooks", y, <<>>)
      BY <1>1, <1>5, <2>1
    <2>3. /\ IsManager(y) /\ BudgetOK(y) /\ y.leases = x.leases /\ y.pending = x.pending
          /\ y.alert = x.alert /\ y.budget = x.budget /\ y.bgFor = x.bgFor
          /\ x.dialog # e.of => y = x
          /\ x.dialog = e.of => y.dialog = None
      BY <1>2, <1>3, <2>1, FinishedEffect
    <2>4. Grows(x.pending, y.pending)
      BY <2>3, GrowsSame
    <2>5. PICK p \in Seq(Acts) : Updated("hooks", y, p, <<>>) /\ Calls(p)
      BY <2>2, <2>3, <2>4, OpUpdate DEF Inv
    <2>6. m'.dialog = y.dialog \/ m'.dialog = None
      BY <2>5 DEF Updated
    <2>7. m'.dialog \in {m.dialog, None}
      BY <1>2, <2>3, <2>6 DEF Expires
    <2>8. ASSUME m.dialog # e.of
          PROVE  /\ m'.dialog = m.dialog \/ (m'.dialog = None /\ CancelAct(m.dialog) \in Content(p))
                 /\ m'.yieldIn = m.yieldIn \/ m'.dialog = None
      <3>1. x.dialog # e.of /\ y = x
        BY <1>2, <1>3, <2>3, <2>8 DEF Expires
      <3>2. m'.yieldIn = m.yieldIn \/ m'.dialog = None
        BY <1>2, <2>5, <3>1 DEF Expires, SameAlert, Updated
      <3> QED
        BY <1>2, <2>4, <2>5, <3>1, <3>2, DialogThrough
    <2>9. m'.alert = m.alert /\ m'.budget + m'.bgFor = m.budget + m.bgFor
      BY <1>2, <2>3, <2>5 DEF Updated, SameAlert, Expires
    <2>10. /\ acts' = [acts EXCEPT !["hooks"] = p \o <<>>] /\ IsManager(m') /\ m'.pending = <<>>
           /\ ManagerInv' /\ m'.leases = x.leases
      BY <2>3, <2>5 DEF Updated, ManagerInv
    <2> QED
      BY <1>5, <2>5, <2>7, <2>8, <2>9, <2>10
  <1> QED
    BY <1>4, <1>5


\* The mixer's hook.
LEMMA HookStep ==
    ASSUME Inv, Hook
    PROVE  Inv'
  <1>1. PICK e : e = Head(mix.events)
    OBVIOUS
  <1>2. /\ mix.events # <<>> /\ Free("hooks") /\ "hooks" \in Threads
        /\ mix' = [mix EXCEPT !.events = Tail(@)]
        /\ UNCHANGED <<ex, sup, session, ticked, open, ghost>>
    BY DEF Hook, Threads
  <1>3. /\ mix' \in [cur : Playbacks \cup {None}, started : BOOLEAN, events : Seq(Reports)]
        /\ mix'.cur = mix.cur /\ mix'.started = mix.started
        /\ e \in Reports /\ e \in Content(mix.events)
        /\ Content(mix.events) = Content(mix'.events) \cup {e}
        /\ e.ev = "start" => \A a \in Content(mix'.events) : a.ev # "start"
        /\ \A i, j \in 1..Len(mix'.events) :
             mix'.events[i].ev = "start" /\ mix'.events[j].ev = "start" => i = j
    BY <1>1, <1>2, ReportTaken DEF Inv
  <1>4. e.of \in Playbacks /\ e.of # None /\ e.ev \in {"start", "finished"}
    BY <1>3, NoneIsNone DEF Reports
  <1>5. (e.ev = "start" => e = StartOf(e.of)) /\ (e.ev # "start" => e = FinishedOf(e.of))
    BY <1>3 DEF Reports, StartOf, FinishedOf
  <1>6. PICK x \in Now, p \in Seq(Acts) :
             /\ Calls(p) /\ acts' = [acts EXCEPT !["hooks"] = p \o <<>>]
             /\ IsManager(m') /\ m'.pending = <<>> /\ ManagerInv'
             /\ \A l \in Leases : m'.leases[l] = x.leases[l]
             /\ m'.alert = m.alert /\ m'.budget + m'.bgFor = m.budget + m.bgFor
             /\ e.ev = "start" => /\ m'.dialog \in {m.dialog, e.of, None}
                                  /\ m'.dialog = e.of \/ CancelAct(e.of) \in Content(p)
             /\ e.ev # "start" => m'.dialog \in {m.dialog, None}
             /\ e.ev # "start" /\ m.dialog # e.of =>
                  /\ m'.dialog = m.dialog \/ (m'.dialog = None /\ CancelAct(m.dialog) \in Content(p))
                  /\ m'.yieldIn = m.yieldIn \/ m'.dialog = None
    BY <1>1, <1>3, HookUpdate
  <1>7. acts' = [acts EXCEPT !["hooks"] = p]
    <2>1. p \o <<>> = p
      OBVIOUS
    <2> QED
      BY <1>6, <2>1
  <1>8. /\ acts' \in [Threads -> Seq(Acts)] /\ Moves(Content(p), {})
        /\ (Cardinality(Busy) <= MaxBusy)'
    BY <1>2, <1>7, FreeMoves DEF Inv
  <1>9. SameEx /\ sup'.focus = sup.focus /\ sup'.leases = sup.leases
    BY <1>2 DEF SameEx
  <1>10. \A a \in Content(p) : a.do \notin {"focus", "stopped", "noted", "burst"}
    BY <1>6 DEF Calls, ExpiredAct
  <1>11. ActInv'
    BY <1>2, <1>7, <1>9, <1>10, ActFree DEF Inv
  <1>12. AlertInv'
    BY <1>6, <1>8, <1>9, AlertKept DEF Inv
  <1>13. SilentInv'
    BY <1>2, <1>6, <1>8, <1>10, SilentKept DEF Inv
  <1>14. LeaseInv'
    BY <1>6, <1>8, <1>9, ExpireNow, LeasesKept DEF Inv
  <1>15. TypeInv'
    BY <1>2, <1>3, <1>6, <1>8 DEF Inv, TypeInv
  <1>16. mix.cur \in Playbacks \cup {None} /\ (mix.started => mix.cur # None)
    BY DEF Inv, TypeInv, MixInv
  <1>17. e.ev = "start" => /\ mix.cur # None => e.of = mix.cur /\ mix.started
                           /\ m.dialog # e.of /\ ghost.over # e.of
    BY <1>3, <1>4, <1>5 DEF Inv, MixInv
  <1>18. e.ev # "start" => e.of # mix.cur
    BY <1>3, <1>4, <1>5 DEF Inv, MixInv
  <1>19. \A a \in Playbacks : Pending(CancelAct(a)) => Left(CancelAct(a))
    BY <1>8 DEF Moves
  <1>20. \A a \in Content(p) : Left(a)
    BY <1>8 DEF Moves
  <1>21. MixInv'
    <2>1. (mix.started => mix.cur # None)'
      BY <1>3, <1>16
    <2>2. ASSUME NEW q \in Playbacks
          PROVE  /\ FinishedOf(q) \in Content(mix'.events) => q # mix'.cur
                 /\ StartOf(q) \in Content(mix'.events) =>
                      /\ mix'.cur # None => q = mix'.cur /\ mix'.started
                      /\ m'.dialog # q /\ ghost'.over # q
      <3>1. FinishedOf(q) \in Content(mix'.events) => q # mix'.cur
        BY <1>3, <2>2 DEF Inv, MixInv
      <3>2. ASSUME StartOf(q) \in Content(mix'.events)
            PROVE  /\ mix'.cur # None => q = mix'.cur /\ mix'.started
                   /\ m'.dialog # q /\ ghost'.over # q
        <4>1. e.ev # "start"
          BY <1>3, <3>2 DEF StartOf
        <4>2. /\ mix.cur # None => q = mix.cur /\ mix.started
              /\ m.dialog # q /\ ghost.over # q
          BY <1>3, <2>2, <3>2 DEF Inv, MixInv
        <4> QED
          BY <1>2, <1>3, <1>6, <2>2, <4>1, <4>2, NoneIsNone
      <3> QED
        BY <3>1, <3>2
    <2>3. mix'.cur # None /\ ~mix'.started => m'.dialog # mix'.cur /\ ghost'.over # mix'.cur
      <3>1. mix.cur # None /\ ~mix.started => m.dialog # mix.cur /\ ghost.over # mix.cur
        BY DEF Inv, MixInv
      <3> QED
        BY <1>2, <1>3, <1>6, <1>17, <3>1
    <2> QED
      BY <1>3, <2>1, <2>2, <2>3 DEF MixInv
  <1>22. DialogInv'
    <2>1. ASSUME mix.started
          PROVE  \/ StartOf(mix.cur) \in Content(mix'.events)
                 \/ m'.dialog = mix.cur
                 \/ Left(CancelAct(mix.cur))
      <3>1. mix.cur \in Playbacks
        BY <1>16, <2>1
      <3>2. CASE e.ev = "start"
        <4>1. e.of = mix.cur
          BY <1>17, <3>1, <3>2, NoneIsNone
        <4> QED
          BY <1>6, <1>20, <3>2, <4>1
      <3>3. CASE e.ev # "start"
        <4>1. CASE StartOf(mix.cur) \in Content(mix.events)
          <5>1. StartOf(mix.cur) # e
            BY <3>3 DEF StartOf
          <5> QED
            BY <1>3, <4>1, <5>1
        <4>2. CASE m.dialog = mix.cur
          BY <1>6, <1>18, <1>20, <3>3, <4>2
        <4>3. CASE Pending(CancelAct(mix.cur))
          BY <1>19, <3>1, <4>3
        <4> QED
          BY <2>1, <4>1, <4>2, <4>3 DEF Inv, DialogInv
      <3> QED
        BY <3>2, <3>3
    <2> QED
      BY <1>3, <2>1 DEF DialogInv, Pending, Left
  <1>23. YieldInv'
    <2>1. ASSUME ghost.over # None, mix.cur = ghost.over, ~Left(CancelAct(ghost.over))
          PROVE  m'.dialog = ghost.over /\ m'.yieldIn # None /\ ghost.waits + m'.yieldIn <= AlertYield
      <3>1. e.ev # "start"
        BY <1>17, <2>1
      <3>2. ghost.over \in Playbacks
        BY <2>1 DEF Inv, TypeInv
      <3>3. m.dialog = ghost.over /\ m.yieldIn # None /\ ghost.waits + m.yieldIn <= AlertYield
        BY <1>19, <2>1, <3>2 DEF Inv, YieldInv
      <3>4. m'.dialog = m.dialog /\ m'.yieldIn = m.yieldIn
        BY <1>6, <1>18, <1>20, <2>1, <3>1, <3>3
      <3> QED
        BY <3>3, <3>4
    <2>2. ghost.waits <= AlertYield
      BY DEF Inv, YieldInv
    <2>3. ghost' = ghost /\ mix'.cur = mix.cur
      BY <1>2, <1>3
    <2> QED
      BY <2>1, <2>2, <2>3 DEF YieldInv, Pending, Left
  <1> QED
    BY <1>6, <1>11, <1>12, <1>13, <1>14, <1>15, <1>21, <1>22, <1>23 DEF Inv

\* When every goroutine is done nothing is pending.
LEMMA IdleNone ==
    ASSUME TypeInv, Idle
    PROVE  (\A a : ~Pending(a)) /\ \A t \in Threads : Content(acts[t]) = {}
  <1>1. \A t \in Threads : acts[t] = <<>>
    BY DEF Idle, Busy
  <1>2. Content(<<>>) = {}
    BY ContentOf, EmptySeq
  <1> QED
    BY <1>1, <1>2 DEF Pending

\* The mixer reports what happens to its output: the queue grows by one report.
LEMMA ReportAdded ==
    ASSUME NEW q \in Seq(Reports), NEW a \in Reports, NEW r, r = Append(q, a),
           \A i, j \in 1..Len(q) : q[i].ev = "start" /\ q[j].ev = "start" => i = j,
           a.ev = "start" => \A b \in Content(q) : b.ev # "start"
    PROVE  /\ r \in Seq(Reports) /\ Content(r) = Content(q) \cup {a}
           /\ \A i, j \in 1..Len(r) : r[i].ev = "start" /\ r[j].ev = "start" => i = j
  <1>1. /\ r \in Seq(Reports) /\ Len(q) \in Nat /\ r[Len(q) + 1] = a
        /\ \A i \in 1..Len(q) : r[i] = q[i]
        /\ \A i \in 1..Len(r) : i \in 1..Len(q) \/ i = Len(q) + 1
    BY AppendOf
  <1>2. Content(r) = Content(q) \cup {a}
    BY ContentAppend
  <1>3. ASSUME NEW i \in 1..Len(r), NEW j \in 1..Len(r), r[i].ev = "start", r[j].ev = "start"
        PROVE  i = j
    <2>1. CASE i \in 1..Len(q) /\ j \in 1..Len(q)
      BY <1>1, <1>3, <2>1
    <2>2. CASE i \in 1..Len(q) /\ j = Len(q) + 1
      <3>1. q[i] \in Content(q) /\ q[i].ev = "start" /\ a.ev = "start"
        BY <1>1, <1>3, <2>2 DEF Content
      <3> QED
        BY <3>1
    <2>3. CASE j \in 1..Len(q) /\ i = Len(q) + 1
      <3>1. q[j] \in Content(q) /\ q[j].ev = "start" /\ a.ev = "start"
        BY <1>1, <1>3, <2>3 DEF Content
      <3> QED
        BY <3>1
    <2>4. CASE i = Len(q) + 1 /\ j = Len(q) + 1
      BY <2>4
    <2> QED
      BY <1>1, <2>1, <2>2, <2>3, <2>4
  <1> QED
    BY <1>1, <1>2, <1>3

\* The output of the mixer ends: drained, cancelled, or with its session.
LEMMA StoppedKept ==
    ASSUME TypeInv, MixInv, DialogInv, YieldInv, mix.cur # None, mix' = Stopped(mix),
           m' = m, ghost' = ghost
    PROVE  /\ mix' \in [cur : Playbacks \cup {None}, started : BOOLEAN, events : Seq(Reports)]
           /\ MixInv' /\ DialogInv' /\ YieldInv'
  <1>1. mix.cur \in Playbacks /\ mix.events \in Seq(Reports)
    BY DEF TypeInv
  <1> DEFINE a == FinishedOf(mix.cur)
             r == Append(mix.events, a)
             no == FALSE
  <1>2. a \in Reports /\ a.ev # "start" /\ a.of = mix.cur
    BY <1>1 DEF FinishedOf, Reports
  <1>3. mix' = [mix EXCEPT !.cur = None, !.started = no, !.events = r]
    BY DEF Stopped, FinishedOf
  <1>4. no \in BOOLEAN /\ ~no
    OBVIOUS
  <1> HIDE DEF a, no
  <1>5. /\ r \in Seq(Reports) /\ Content(r) = Content(mix.events) \cup {a}
        /\ \A i, j \in 1..Len(r) : r[i].ev = "start" /\ r[j].ev = "start" => i = j
    BY <1>1, <1>2, ReportAdded DEF MixInv
  <1> HIDE DEF r
  <1>6. /\ mix' \in [cur : Playbacks \cup {None}, started : BOOLEAN, events : Seq(Reports)]
        /\ mix'.cur = None /\ ~mix'.started /\ mix'.events = r
    BY <1>3, <1>4, <1>5 DEF TypeInv
  <1>7. ASSUME NEW p \in Playbacks
        PROVE  /\ FinishedOf(p) \in Content(mix'.events) => p # mix'.cur
               /\ StartOf(p) \in Content(mix'.events) =>
                    /\ mix'.cur # None => p = mix'.cur /\ mix'.started
                    /\ m'.dialog # p /\ ghost'.over # p
    <2>1. p # None
      BY NoneIsNone
    <2>2. ASSUME StartOf(p) \in Content(mix'.events) PROVE m'.dialog # p /\ ghost'.over # p
      <3>1. StartOf(p) # a
        BY <1>2 DEF StartOf
      <3> QED
        BY <1>5, <1>6, <2>2, <3>1 DEF MixInv
    <2> QED
      BY <1>6, <2>1, <2>2
  <1>8. MixInv'
    BY <1>5, <1>6, <1>7 DEF MixInv
  <1>9. DialogInv'
    BY <1>6 DEF DialogInv
  <1>10. YieldInv'
    BY <1>6 DEF YieldInv
  <1> QED
    BY <1>6, <1>8, <1>9, <1>10

\* Leases, goroutines and the alert are as before.
LEMMA RestKept ==
    ASSUME Inv, acts' = acts, m' = m, sup' = sup, ex' = ex, ticked' = ticked
    PROVE  /\ ManagerInv' /\ ActInv' /\ LeaseInv' /\ AlertInv'
           /\ ghost'.silent = ghost.silent => SilentInv'
  <1>1. ManagerInv'
    BY DEF Inv, ManagerInv
  <1>2. ActInv'
    BY DEF Inv, ActInv, ToldId
  <1>3. LeaseInv'
    BY DEF Inv, LeaseInv, LeaseOK, Noted, Gone, Pending
  <1>4. AlertInv'
    BY DEF Inv, AlertInv, NoReport, ToldId
  <1>5. ASSUME ghost'.silent = ghost.silent PROVE SilentInv'
    BY <1>5 DEF Inv, SilentInv
  <1> QED
    BY <1>1, <1>2, <1>3, <1>4, <1>5

\* The output drained.
LEMMA DrainedStep ==
    ASSUME Inv, Drained
    PROVE  Inv'
  <1>1. mix.cur # None /\ mix' = Stopped(mix) /\ UNCHANGED <<m, acts, ex, sup, session, ticked, open, ghost>>
    BY DEF Drained
  <1>2. /\ mix' \in [cur : Playbacks \cup {None}, started : BOOLEAN, events : Seq(Reports)]
        /\ MixInv' /\ DialogInv' /\ YieldInv'
    BY <1>1, StoppedKept DEF Inv
  <1>3. ManagerInv' /\ ActInv' /\ LeaseInv' /\ AlertInv' /\ SilentInv'
    BY <1>1, RestKept
  <1>4. TypeInv'
    BY <1>1, <1>2 DEF Inv, TypeInv, Busy
  <1> QED
    BY <1>2, <1>3, <1>4 DEF Inv

\* The next session.
LEMMA ReconnectStep ==
    ASSUME Inv, Reconnect
    PROVE  Inv'
  <1>1. UNCHANGED <<m, acts, mix, ex, sup, ticked, open, ghost>>
    BY DEF Reconnect
  <1>2. ManagerInv' /\ ActInv' /\ LeaseInv' /\ AlertInv' /\ SilentInv'
    BY <1>1, RestKept
  <1>3. TypeInv'
    BY <1>1 DEF Inv, TypeInv, Busy
  <1>4. MixInv' /\ DialogInv' /\ YieldInv'
    BY <1>1 DEF Inv, MixInv, DialogInv, YieldInv, Pending
  <1> QED
    BY <1>2, <1>3, <1>4 DEF Inv

\* The output becomes audible: its one start is reported.
LEMMA AudibleStep ==
    ASSUME Inv, Audible
    PROVE  Inv'
  <1>1. /\ UNCHANGED <<m, acts, ex, sup, session, ticked, open, ghost>>
        /\ mix.cur # None /\ ~mix.started
    BY DEF Audible
  <1>2. mix.cur \in Playbacks /\ mix.events \in Seq(Reports)
    BY <1>1 DEF Inv, TypeInv
  <1> DEFINE a == StartOf(mix.cur)
             r == Append(mix.events, a)
             yes == TRUE
  <1>3. a \in Reports /\ a.of = mix.cur
    BY <1>2 DEF StartOf, Reports
  <1>4. mix' = [mix EXCEPT !.started = yes, !.events = r]
    BY DEF Audible, StartOf
  <1>5. yes \in BOOLEAN /\ yes
    OBVIOUS
  <1>6. ASSUME NEW b \in Content(mix.events) PROVE b.ev # "start"
    <2>1. b \in Reports
      BY <1>2, ContentOf
    <2>2. SUFFICES ASSUME b.ev = "start" PROVE FALSE
      OBVIOUS
    <2>3. b = StartOf(b.of) /\ b.of \in Playbacks
      BY <2>1, <2>2 DEF Reports, StartOf
    <2> QED
      BY <1>1, <1>6, <2>3 DEF Inv, MixInv
  <1>7. \A p \in Playbacks : FinishedOf(p) # a /\ (StartOf(p) = a => p = mix.cur)
    BY DEF FinishedOf, StartOf
  <1> HIDE DEF a, yes
  <1>8. /\ r \in Seq(Reports) /\ Content(r) = Content(mix.events) \cup {a}
        /\ \A i, j \in 1..Len(r) : r[i].ev = "start" /\ r[j].ev = "start" => i = j
    BY <1>2, <1>3, <1>6, ReportAdded DEF Inv, MixInv
  <1> HIDE DEF r
  <1>9. /\ mix' \in [cur : Playbacks \cup {None}, started : BOOLEAN, events : Seq(Reports)]
        /\ mix'.cur = mix.cur /\ mix'.started /\ mix'.events = r
    BY <1>4, <1>5, <1>8 DEF Inv, TypeInv
  <1>10. ASSUME NEW p \in Playbacks
         PROVE  /\ FinishedOf(p) \in Content(mix'.events) => p # mix'.cur
                /\ StartOf(p) \in Content(mix'.events) =>
                     /\ mix'.cur # None => p = mix'.cur /\ mix'.started
                     /\ m'.dialog # p /\ ghost'.over # p
    <2>1. FinishedOf(p) \in Content(mix'.events) => p # mix'.cur
      BY <1>7, <1>8, <1>9 DEF Inv, MixInv
    <2>2. ASSUME StartOf(p) \in Content(mix'.events)
          PROVE  p = mix'.cur /\ m'.dialog # p /\ ghost'.over # p
      <3>1. p = mix.cur
        <4>1. StartOf(p) \in Content(mix.events) => p = mix.cur
          BY <1>1 DEF Inv, MixInv
        <4> QED
          BY <1>7, <1>8, <1>9, <2>2, <4>1
      <3>2. m.dialog # mix.cur /\ ghost.over # mix.cur
        BY <1>1 DEF Inv, MixInv
      <3> QED
        BY <1>1, <1>9, <3>1, <3>2
    <2> QED
      BY <1>9, <2>1, <2>2
  <1>11. MixInv'
    BY <1>1, <1>8, <1>9, <1>10 DEF MixInv
  <1>12. DialogInv'
    <2>1. StartOf(mix'.cur) \in Content(mix'.events)
      BY <1>8, <1>9 DEF a
    <2> QED
      BY <2>1 DEF DialogInv
  <1>13. YieldInv'
    BY <1>1, <1>9 DEF Inv, YieldInv, Pending
  <1>14. ManagerInv' /\ ActInv' /\ LeaseInv' /\ AlertInv' /\ SilentInv'
    BY <1>1, RestKept
  <1>15. TypeInv'
    BY <1>1, <1>9 DEF Inv, TypeInv, Busy
  <1> QED
    BY <1>11, <1>12, <1>13, <1>14, <1>15 DEF Inv

\* renderStart: a new output, and the end of the one before it.
LEMMA RenderStep ==
    ASSUME Inv, NEW p \in Playbacks, RenderStart(p)
    PROVE  Inv'
  <1> DEFINE no == FALSE
             r == IF mix.cur = None THEN mix.events
                  ELSE Append(mix.events, FinishedOf(mix.cur))
  <1>1. /\ UNCHANGED <<m, acts, ex, sup, session, ticked, open>>
        /\ p # mix.cur /\ p # m.dialog /\ mix.events = <<>>
        /\ mix' = [mix EXCEPT !.cur = p, !.started = no, !.events = r]
        /\ ghost' = [ghost EXCEPT !.over = None, !.waits = 0]
    BY DEF RenderStart, Fresh, FinishedOf
  <1>2. no \in BOOLEAN /\ ~no /\ p # None
    BY NoneIsNone
  <1> HIDE DEF no
  <1>3. /\ r \in Seq(Reports) /\ \A b \in Content(r) : b = FinishedOf(mix.cur)
        /\ \A i, j \in 1..Len(r) : r[i].ev = "start" /\ r[j].ev = "start" => i = j
    <2>1. mix.events \in Seq(Reports) /\ Content(mix.events) = {} /\ Len(mix.events) = 0
      BY <1>1, ContentOf, EmptySeq
    <2>2. CASE mix.cur = None
      BY <2>1, <2>2
    <2>3. CASE mix.cur # None
      <3>1. FinishedOf(mix.cur) \in Reports /\ FinishedOf(mix.cur).ev # "start"
        BY <2>3 DEF Inv, TypeInv, Reports, FinishedOf
      <3>2. r = Append(mix.events, FinishedOf(mix.cur))
        BY <2>3
      <3> HIDE DEF r
      <3>3. \A i, j \in 1..Len(mix.events) :
               mix.events[i].ev = "start" /\ mix.events[j].ev = "start" => i = j
        BY <2>1
      <3>4. /\ r \in Seq(Reports) /\ Content(r) = Content(mix.events) \cup {FinishedOf(mix.cur)}
            /\ \A i, j \in 1..Len(r) : r[i].ev = "start" /\ r[j].ev = "start" => i = j
        <4> DEFINE q == mix.events
                   a == FinishedOf(mix.cur)
        <4>1. /\ q \in Seq(Reports) /\ a \in Reports /\ r = Append(q, a) /\ a.ev # "start"
              /\ \A i, j \in 1..Len(q) : q[i].ev = "start" /\ q[j].ev = "start" => i = j
          BY <2>1, <3>1, <3>2, <3>3
        <4> HIDE DEF q, a
        <4>2. /\ r \in Seq(Reports) /\ Content(r) = Content(q) \cup {a}
              /\ \A i, j \in 1..Len(r) : r[i].ev = "start" /\ r[j].ev = "start" => i = j
          BY <4>1, ReportAdded
        <4> QED
          BY <4>2 DEF q, a
      <3> QED
        BY <2>1, <3>4
    <2> QED
      BY <2>2, <2>3
  <1> HIDE DEF r
  <1>4. /\ mix' \in [cur : Playbacks \cup {None}, started : BOOLEAN, events : Seq(Reports)]
        /\ mix'.cur = p /\ ~mix'.started /\ mix'.events = r
        /\ ghost' \in [silent : Nat, over : Playbacks \cup {None}, waits : Nat]
        /\ ghost'.silent = ghost.silent /\ ghost'.over = None /\ ghost'.waits = 0
    BY <1>1, <1>2, <1>3 DEF Inv, TypeInv
  <1>5. ASSUME NEW q \in Playbacks
        PROVE  StartOf(q) \notin Content(r) /\ (FinishedOf(q) \in Content(r) => q = mix.cur)
    BY <1>3 DEF StartOf, FinishedOf
  <1>6. MixInv'
    <2>1. mix'.cur # None /\ ~mix'.started => m'.dialog # mix'.cur /\ ghost'.over # mix'.cur
      BY <1>1, <1>2, <1>4
    <2>2. (mix.started => mix.cur # None)'
      BY <1>4
    <2>3. \A i, j \in 1..Len(mix'.events) :
             mix'.events[i].ev = "start" /\ mix'.events[j].ev = "start" => i = j
      BY <1>3, <1>4
    <2>4. ASSUME NEW q \in Playbacks
          PROVE  /\ FinishedOf(q) \in Content(mix'.events) => q # mix'.cur
                 /\ StartOf(q) \notin Content(mix'.events)
      BY <1>1, <1>4, <1>5
    <2> QED
      BY <2>1, <2>2, <2>3, <2>4 DEF MixInv
  <1>7. DialogInv'
    BY <1>4 DEF DialogInv
  <1>8. YieldInv'
    <2>1. 0 <= AlertYield
      BY TimeAssumption
    <2> QED
      BY <1>4, <2>1 DEF YieldInv
  <1>9. ManagerInv' /\ ActInv' /\ LeaseInv' /\ AlertInv' /\ SilentInv'
    BY <1>1, <1>4, RestKept
  <1>10. TypeInv'
    BY <1>1, <1>4 DEF Inv, TypeInv, Busy
  <1> QED
    BY <1>6, <1>7, <1>8, <1>9, <1>10 DEF Inv

\* A step of the goroutines that is not about a lease, with the manager as it was.
LEMMA LeaseSame ==
    ASSUME LeaseInv, m' = m, sup'.leases = sup.leases, NEW add, NEW del, Moves(add, del),
           \A a \in add \cup del : a.do \notin {"noted", "forgot", "expired"}
    PROVE  LeaseInv'
  <1> SUFFICES ASSUME NEW l \in Leases PROVE LeaseOK(l)'
    BY DEF LeaseInv
  <1> DEFINE N == [do |-> "noted", of |-> l]
             F == [do |-> "forgot", of |-> l]
             E == [do |-> "expired", of |-> l]
  <1>1. \A a \in {N, F, E} : a.do \in {"noted", "forgot", "expired"}
    OBVIOUS
  <1>2. (Noted(l) <=> Pending(N)) /\ (Gone(l) <=> Pending(E) \/ Pending(F))
    BY DEF Noted, Gone
  <1>3. (Noted(l)' <=> Left(N)) /\ (Gone(l)' <=> Left(E) \/ Left(F))
    BY DEF Noted, Gone, Pending, Left
  <1>4. LeaseOK(l)
    BY DEF LeaseInv
  <1> HIDE DEF N, F, E
  <1>5. \A a \in {N, F, E} : Left(a) <=> Pending(a)
    BY <1>1 DEF Moves
  <1>6. (Noted(l)' <=> Noted(l)) /\ (Gone(l)' <=> Gone(l))
    BY <1>2, <1>3, <1>5
  <1> QED
    BY <1>4, <1>6 DEF LeaseOK

\* Another alert rings, or none.
LEMMA RingsStep ==
    ASSUME Inv, Rings
    PROVE  Inv'
  <1>1. UNCHANGED <<m, acts, mix, sup, session, ticked, open, ghost>> /\ Idle
    BY DEF Rings
  <1>2. PICK a \in Alerts \cup {None} : /\ ex' = [ex EXCEPT !.ringing = a]
                                        /\ a = None \/ a # sup.focus
    BY DEF Rings
  <1>3. /\ ex' \in [ringing : Alerts \cup {None}, told : {None} \cup [id : Alerts, fg : BOOLEAN],
                    background : BOOLEAN, burst : Alerts \cup {None}]
        /\ ex'.ringing = a /\ ex'.told = ex.told /\ ex'.burst = ex.burst
    BY <1>2 DEF Inv, TypeInv
  <1>4. ActInv'
    <2>1. \A t \in Threads : Content(acts[t]) = {}
      BY <1>1, IdleNone DEF Inv
    <2>2. \A t \in Threads : Content(acts'[t]) = {}
      BY <1>1, <2>1
    <2> QED
      BY <2>2 DEF ActInv
  <1>5. AlertInv'
    BY <1>1, <1>2, <1>3 DEF Inv, AlertInv, NoReport, ToldId
  <1>6. LeaseInv'
    BY <1>1 DEF Inv, LeaseInv, LeaseOK, Noted, Gone, Pending
  <1>7. SilentInv' /\ ManagerInv'
    BY <1>1, <1>3 DEF Inv, SilentInv, ManagerInv
  <1>8. MixInv' /\ DialogInv' /\ YieldInv'
    BY <1>1 DEF Inv, MixInv, DialogInv, YieldInv, Pending
  <1>9. TypeInv'
    BY <1>1, <1>3 DEF Inv, TypeInv, Busy
  <1> QED
    BY <1>4, <1>5, <1>6, <1>7, <1>8, <1>9 DEF Inv

\* A foreground loop period ends.
LEMMA BurstStep ==
    ASSUME Inv, Burst
    PROVE  Inv'
  <1>1. /\ UNCHANGED <<m, acts, mix, sup, session, ticked, open>> /\ Idle
        /\ ex.ringing # None /\ ex.burst = None /\ ex' = [ex EXCEPT !.burst = ex.ringing]
        /\ ghost' = [ghost EXCEPT !.silent = IF m.alert = ex.ringing THEN 0 ELSE ghost.silent]
    BY DEF Burst
  <1>2. /\ ex' \in [ringing : Alerts \cup {None}, told : {None} \cup [id : Alerts, fg : BOOLEAN],
                    background : BOOLEAN, burst : Alerts \cup {None}]
        /\ ex'.ringing = ex.ringing /\ ex'.told = ex.told /\ ex'.burst = ex.ringing
    BY <1>1 DEF Inv, TypeInv
  <1>3. /\ ghost' \in [silent : Nat, over : Playbacks \cup {None}, waits : Nat]
        /\ ghost'.over = ghost.over /\ ghost'.waits = ghost.waits
        /\ ghost'.silent = IF m.alert = ex.ringing THEN 0 ELSE ghost.silent
    BY <1>1 DEF Inv, TypeInv
  <1>4. ActInv' /\ AlertInv'
    BY <1>1, <1>2 DEF Inv, ActInv, AlertInv, NoReport, ToldId
  <1>5. LeaseInv' /\ ManagerInv'
    BY <1>1 DEF Inv, LeaseInv, LeaseOK, Noted, Gone, Pending, ManagerInv
  <1>6. SilentInv'
    <2>1. \A t \in Threads : Content(acts'[t]) = {}
      BY <1>1, IdleNone DEF Inv
    <2>2. ghost'.silent <= m'.budget + m'.bgFor + 1
      BY <1>1, <1>3 DEF Inv, SilentInv, TypeInv, IsManager
    <2>3. m'.alert = None => ghost'.silent = 0
      BY <1>1, <1>3 DEF Inv, SilentInv
    <2>4. ex'.burst # None /\ ex'.burst = m'.alert => ghost'.silent <= IF ticked' THEN 0 ELSE 1
      BY <1>1, <1>2, <1>3
    <2> QED
      BY <2>1, <2>2, <2>3, <2>4 DEF SilentInv
  <1>7. MixInv' /\ DialogInv' /\ YieldInv'
    BY <1>1, <1>3 DEF Inv, MixInv, DialogInv, YieldInv, Pending
  <1>8. TypeInv'
    BY <1>1, <1>2, <1>3 DEF Inv, TypeInv, Busy
  <1> QED
    BY <1>4, <1>5, <1>6, <1>7, <1>8 DEF Inv

\* The executor lets go of its lock with something to tell.
LEMMA TellKept ==
    ASSUME Inv, NEW t \in Threads, Free(t), NEW a \in Acts, a.do \in {"focus", "stopped"},
           acts' = [acts EXCEPT ![t] = <<a>>], UNCHANGED <<m, mix, sup, ticked, ghost>>,
           ex' \in [ringing : Alerts \cup {None}, told : {None} \cup [id : Alerts, fg : BOOLEAN],
                    background : BOOLEAN, burst : Alerts \cup {None}],
           ex'.burst = ex.burst
    PROVE  /\ TypeInv' /\ ManagerInv' /\ LeaseInv' /\ SilentInv' /\ MixInv' /\ DialogInv' /\ YieldInv'
           /\ acts'[t] = <<a>> /\ Content(acts'[t]) = {a} /\ Content(acts[t]) = {}
           /\ \A u \in Threads \ {t} : acts'[u] = acts[u]
           /\ Moves({a}, {})
  <1>1. <<a>> \in Seq(Acts) /\ Content(<<a>>) = {a}
    BY ContentOne
  <1>2. /\ acts' \in [Threads -> Seq(Acts)] /\ acts'[t] = <<a>>
        /\ \A u \in Threads \ {t} : acts'[u] = acts[u]
        /\ Content(acts[t]) = {}
        /\ Moves(Content(<<a>>), {})
        /\ (Cardinality(Busy) <= MaxBusy)'
    BY <1>1, FreeMoves DEF Inv
  <1>3. Moves({a}, {})
    BY <1>1, <1>2
  <1>4. ManagerInv'
    BY DEF Inv, ManagerInv
  <1>5. LeaseInv'
    BY <1>3, LeaseSame DEF Inv
  <1>6. SilentInv'
    BY <1>3, SilentKept DEF Inv
  <1>7. MixInv' /\ DialogInv' /\ YieldInv'
    <2>1. Quietly(<<>>) /\ Content(<<>>) \subseteq {a}
      BY ContentOf, EmptySeq DEF Quietly
    <2> QED
      BY <1>3, <2>1, QuietKept DEF Inv
  <1>8. TypeInv'
    BY <1>2 DEF Inv, TypeInv
  <1> QED
    BY <1>1, <1>2, <1>3, <1>4, <1>5, <1>6, <1>7, <1>8

\* Poll.
LEMMA PollStep ==
    ASSUME Inv, Poll
    PROVE  Inv'
  <1>1. PICK a : a = [do |-> "focus", of |-> ex.ringing]
    OBVIOUS
  <1>2. /\ UNCHANGED <<m, mix, sup, session, ticked, open, ghost>> /\ Free("alert")
        /\ acts' = [acts EXCEPT !["alert"] = <<a>>] /\ "alert" \in Threads
        /\ ex' = [ex EXCEPT !.told = FocusOf(ex)]
    BY <1>1 DEF Poll, Threads
  <1>3. a \in Acts /\ a.do = "focus" /\ a.of = ex.ringing
    BY <1>1, ActsFit DEF Inv, TypeInv
  <1>4. /\ FocusOf(ex) \in {None} \cup [id : Alerts, fg : BOOLEAN]
        /\ (IF FocusOf(ex) = None THEN None ELSE FocusOf(ex).id) = ex.ringing
    <2>1. ex.ringing \in Alerts \cup {None}
      BY DEF Inv, TypeInv
    <2>2. CASE ex.ringing = None
      BY <2>2 DEF FocusOf
    <2>3. CASE ex.ringing # None
      <3>1. FocusOf(ex) \in [id : Alerts, fg : BOOLEAN] /\ FocusOf(ex).id = ex.ringing
        BY <2>1, <2>3 DEF FocusOf
      <3> QED
        BY <3>1, NoneIsNone
    <2> QED
      BY <2>2, <2>3
  <1>5. /\ ex' \in [ringing : Alerts \cup {None}, told : {None} \cup [id : Alerts, fg : BOOLEAN],
                    background : BOOLEAN, burst : Alerts \cup {None}]
        /\ ex'.burst = ex.burst /\ ex'.ringing = ex.ringing /\ ex'.told = FocusOf(ex)
    BY <1>2, <1>4 DEF Inv, TypeInv
  <1>6. /\ TypeInv' /\ ManagerInv' /\ LeaseInv' /\ SilentInv' /\ MixInv' /\ DialogInv' /\ YieldInv'
        /\ acts'["alert"] = <<a>> /\ Content(acts'["alert"]) = {a}
        /\ \A u \in Threads \ {"alert"} : acts'[u] = acts[u]
    BY <1>2, <1>3, <1>5, TellKept
  <1>7. ToldId' = ex.ringing
    BY <1>4, <1>5 DEF ToldId
  <1>8. ActInv'
    <2>1. ASSUME NEW t \in Threads, NEW b \in Content(acts'[t])
          PROVE  /\ b.do = "focus" => t = "alert" /\ acts'[t] = <<b>> /\ b.of = ToldId'
                 /\ b.do = "stopped" => b.of # ex'.ringing
                 /\ b.do = "noted" => t = "link"
      <3>1. CASE t = "alert"
        BY <1>3, <1>6, <1>7, <2>1, <3>1
      <3>2. CASE t # "alert"
        BY <1>5, <1>6, <2>1, <3>2 DEF Inv, ActInv
      <3> QED
        BY <3>1, <3>2
    <2> QED
      BY <2>1 DEF ActInv
  <1>9. AlertInv'
    <2>1. ~NoReport'
      BY <1>2, <1>3, <1>6 DEF NoReport
    <2> QED
      BY <1>2, <1>5, <2>1 DEF Inv, AlertInv
  <1> QED
    BY <1>6, <1>8, <1>9 DEF Inv

\* DotButton.
LEMMA ButtonStep ==
    ASSUME Inv, Button
    PROVE  Inv'
  <1>1. PICK a : a = [do |-> "stopped", of |-> ex.ringing]
    OBVIOUS
  <1>2. /\ UNCHANGED <<m, mix, sup, session, ticked, open, ghost>> /\ Free("button")
        /\ acts' = [acts EXCEPT !["button"] = <<a>>] /\ "button" \in Threads
        /\ ex' = [ex EXCEPT !.ringing = None] /\ ex.ringing # None
    BY <1>1 DEF Button, Threads
  <1>3. a \in Acts /\ a.do = "stopped" /\ a.of = ex.ringing
    BY <1>1, <1>2, ActsFit DEF Inv, TypeInv
  <1>4. /\ ex' \in [ringing : Alerts \cup {None}, told : {None} \cup [id : Alerts, fg : BOOLEAN],
                    background : BOOLEAN, burst : Alerts \cup {None}]
        /\ ex'.burst = ex.burst /\ ex'.ringing = None /\ ex'.told = ex.told
    BY <1>2 DEF Inv, TypeInv
  <1>5. /\ TypeInv' /\ ManagerInv' /\ LeaseInv' /\ SilentInv' /\ MixInv' /\ DialogInv' /\ YieldInv'
        /\ acts'["button"] = <<a>> /\ Content(acts'["button"]) = {a} /\ Content(acts["button"]) = {}
        /\ \A u \in Threads \ {"button"} : acts'[u] = acts[u]
        /\ Moves({a}, {})
    BY <1>2, <1>3, <1>4, TellKept
  <1>6. ToldId' = ToldId
    BY <1>4 DEF ToldId
  <1>7. ActInv'
    <2>1. ASSUME NEW t \in Threads, NEW b \in Content(acts'[t])
          PROVE  /\ b.do = "focus" => t = "alert" /\ acts'[t] = <<b>> /\ b.of = ToldId'
                 /\ b.do = "stopped" => b.of # ex'.ringing
                 /\ b.do = "noted" => t = "link"
      <3>1. CASE t = "button"
        BY <1>2, <1>3, <1>4, <1>5, <2>1, <3>1
      <3>2. CASE t # "button"
        <4>1. acts[t] \in Seq(Acts) /\ b \in Content(acts[t])
          BY <1>5, <2>1, <3>2 DEF Inv, TypeInv
        <4>2. b \in Acts
          BY <4>1, ContentOf
        <4>3. b.do = "stopped" => b.of # None
          BY <4>2, NoneIsNone DEF Acts, Fits
        <4> QED
          BY <1>4, <1>5, <1>6, <2>1, <3>2, <4>1, <4>3 DEF Inv, ActInv
      <3> QED
        BY <3>1, <3>2
    <2> QED
      BY <2>1 DEF ActInv
  <1>8. AlertInv'
    <2>1. NoReport' => NoReport
      BY <1>5 DEF NoReport
    <2> QED
      BY <1>2, <1>4, <1>6, <2>1 DEF Inv, AlertInv
  <1> QED
    BY <1>5, <1>7, <1>8 DEF Inv

\* What is left of a time, one tick later.
LEMMA DownOf ==
    ASSUME NEW n \in Nat \cup {None}
    PROVE  /\ Down(n) \in Nat \cup {None} /\ (Down(n) = None <=> n = None)
           /\ n \in Nat => Down(n) \in Nat /\ Down(n) <= n
           /\ n \in Nat /\ n # 0 => Down(n) = n - 1
  BY NoneIsNone DEF Down

\* One tick later every lease has less time, and is still the lease it was.
LEMMA LeasesDown ==
    ASSUME NEW f \in LeaseMaps, NEW g,
           g = [l \in Ids |-> IF f[l] = None THEN None ELSE Lease(Down(f[l].left), f[l].converted)]
    PROVE  /\ g \in LeaseMaps
           /\ \A l \in Ids : /\ g[l] = None <=> f[l] = None
                             /\ f[l] # None => g[l].converted = f[l].converted
  <1>1. ASSUME NEW l \in Ids
        PROVE  /\ g[l] \in {None} \cup LeaseRecords /\ (g[l] = None <=> f[l] = None)
               /\ f[l] # None => g[l].converted = f[l].converted
    <2>1. CASE f[l] = None
      BY <2>1
    <2>2. CASE f[l] # None
      <3>1. f[l] \in LeaseRecords /\ g[l] = Lease(Down(f[l].left), f[l].converted)
        BY <2>2 DEF LeaseMaps
      <3>2. f[l].left \in 0..TTL /\ TTL \in Nat
        BY <3>1, TimeAssumption DEF LeaseRecords
      <3>3. Down(f[l].left) \in 0..TTL
        <4>1. Down(f[l].left) \in Nat /\ Down(f[l].left) <= f[l].left
          BY <3>2, DownOf
        <4> QED
          BY <3>2, <4>1
      <3>4. g[l] \in LeaseRecords /\ g[l].converted = f[l].converted
        BY <3>1, <3>3 DEF LeaseRecords, Lease
      <3> QED
        BY <2>2, <3>4, NoneIsNone
    <2> QED
      BY <2>1, <2>2
  <1>2. g \in LeaseMaps
    BY <1>1 DEF LeaseMaps
  <1> QED
    BY <1>1, <1>2

\* Time passes when everything is done.
LEMMA AdvanceStep ==
    ASSUME Inv, Advance
    PROVE  Inv'
  <1> DEFINE leases == [l \in Ids |-> IF m.leases[l] = None THEN None
                                      ELSE Lease(Down(m.leases[l].left), m.leases[l].converted)]
             prov == [c \in Candidates |-> Down(m.prov[c])]
             ducks == [i \in 1..PerWindow |-> IF m.ducks[i] < ProvisionalWindow THEN m.ducks[i] + 1
                                              ELSE ProvisionalWindow]
             bgFor == IF m.bg THEN m.bgFor + 1 ELSE 0
             silent == IF m.bg THEN ghost.silent + 1 ELSE ghost.silent
             waits == IF ghost.over # None /\ mix.cur = ghost.over THEN ghost.waits + 1 ELSE ghost.waits
  <1>1. /\ UNCHANGED <<acts, mix, ex, sup, session, open>>
        /\ Idle /\ ticked /\ ticked' = FALSE
        /\ m' = [m EXCEPT !.leases = leases, !.prov = prov, !.ducks = ducks,
                          !.yieldIn = Down(m.yieldIn), !.bgFor = bgFor]
        /\ ghost' = [ghost EXCEPT !.silent = silent, !.waits = waits]
    <2>1. /\ UNCHANGED <<acts, mix, ex, sup, session, open>>
          /\ Idle /\ ticked /\ ticked' = FALSE
      BY DEF Advance
    <2>2. ghost' = [ghost EXCEPT !.silent = silent, !.waits = waits]
      BY DEF Advance
    <2>3. m' = [m EXCEPT !.leases = leases, !.prov = prov, !.ducks = ducks,
                         !.yieldIn = Down(m.yieldIn), !.bgFor = bgFor]
      BY DEF Advance
    <2> QED
      BY <2>1, <2>2, <2>3
  <1>2. IsManager(m) /\ m.pending = <<>> /\ BudgetOK(m) /\ Decided(m) /\ Prompt(m)
    BY <1>1 DEF Inv, TypeInv, ManagerInv
  <1>3. /\ leases \in LeaseMaps
        /\ \A l \in Ids : /\ leases[l] = None <=> m.leases[l] = None
                          /\ m.leases[l] # None => leases[l].converted = m.leases[l].converted
    BY <1>2, LeasesDown DEF IsManager
  <1> HIDE DEF leases, prov, ducks
  <1>4. /\ m.bgFor \in Nat /\ m.budget \in Nat /\ m.yieldIn \in Nat \cup {None} /\ m.bg \in BOOLEAN
        /\ AlertBackgroundCap \in Nat /\ AlertYield \in Nat
        /\ ghost.silent \in Nat /\ ghost.waits \in Nat
    BY <1>2, TimeAssumption DEF IsManager, Inv, TypeInv
  <1>5. /\ bgFor \in Nat /\ (m.bg => bgFor = m.bgFor + 1) /\ (~m.bg => bgFor = 0)
        /\ silent \in Nat /\ (m.bg => silent = ghost.silent + 1) /\ (~m.bg => silent = ghost.silent)
        /\ waits \in Nat
        /\ (ghost.over # None /\ mix.cur = ghost.over => waits = ghost.waits + 1)
        /\ (~(ghost.over # None /\ mix.cur = ghost.over) => waits = ghost.waits)
    BY <1>4
  <1> HIDE DEF bgFor, silent, waits
  <1>6. /\ Shape(m') /\ m'.leases = leases /\ m'.dialog = m.dialog /\ m'.pending = m.pending
        /\ m'.alert = m.alert /\ m'.bg = m.bg /\ m'.bgFor = bgFor /\ m'.budget = m.budget
        /\ m'.spent = m.spent /\ m'.yieldIn = Down(m.yieldIn) /\ m'.yielded = m.yielded
    BY <1>1, <1>2 DEF IsManager, Shape, Fields
  <1>7. /\ Down(m.yieldIn) \in Nat \cup {None} /\ (Down(m.yieldIn) = None <=> m.yieldIn = None)
        /\ m.yieldIn # None => m.yieldIn \in Nat /\ Down(m.yieldIn) = m.yieldIn - 1 /\ m.yieldIn >= 1
    <2>1. PICK n : n = m.yieldIn
      OBVIOUS
    <2>2. n # 0 /\ n \in Nat \cup {None}
      BY <1>2, <1>4, <2>1 DEF Prompt
    <2>3. /\ Down(n) \in Nat \cup {None} /\ (Down(n) = None <=> n = None)
          /\ n \in Nat => Down(n) = n - 1
      BY <2>2, DownOf
    <2>4. n # None => n \in Nat /\ Down(n) = n - 1 /\ n >= 1
      BY <2>2, <2>3
    <2> QED
      BY <2>1, <2>3, <2>4
  <1>8. IsManager(m')
    <2>1. \A l \in Leases : leases[l] # None => ~leases[l].converted
      BY <1>2, <1>3 DEF IsManager, Ids
    <2> QED
      BY <1>2, <1>3, <1>5, <1>6, <1>7, <2>1 DEF IsManager
  <1>9. /\ ghost' \in [silent : Nat, over : Playbacks \cup {None}, waits : Nat]
        /\ ghost'.silent = silent /\ ghost'.over = ghost.over /\ ghost'.waits = waits
    BY <1>1, <1>5 DEF Inv, TypeInv
  <1>10. TypeInv'
    BY <1>1, <1>2, <1>6, <1>8, <1>9 DEF Inv, TypeInv, Busy
  <1>11. m.bg => m.budget + m.bgFor < AlertBackgroundCap
    BY <1>2 DEF Prompt
  <1>12. BudgetOK(m')
    <2>1. (~m'.bg => m'.bgFor = 0) /\ (~m'.spent => m'.budget < AlertBackgroundCap)
      BY <1>2, <1>5, <1>6 DEF BudgetOK
    <2>2. m'.budget + m'.bgFor <= AlertBackgroundCap
      BY <1>2, <1>4, <1>5, <1>6, <1>11 DEF BudgetOK
    <2>3. m'.alert = None => ~m'.bg /\ ~m'.spent /\ m'.budget = 0 /\ m'.yieldIn = None
      BY <1>2, <1>6, <1>7 DEF BudgetOK
    <2>4. m'.spent => ~m'.bg /\ m'.dialog = None
      BY <1>2, <1>6 DEF BudgetOK
    <2> QED
      BY <2>1, <2>2, <2>3, <2>4 DEF BudgetOK
  <1>13. ManagerInv'
    <2>1. Decided(m')
      BY <1>2, <1>6 DEF Decided
    <2> QED
      BY <1>1, <1>12, <2>1 DEF ManagerInv
  <1>14. ActInv' /\ AlertInv'
    BY <1>1, <1>6 DEF Inv, ActInv, AlertInv, NoReport, ToldId
  <1>15. \A a : ~Pending(a)
    BY <1>1, IdleNone DEF Inv
  <1>16. LeaseInv'
    <2>1. ASSUME NEW l \in Leases PROVE LeaseOK(l)'
      <3>1. ~Noted(l) /\ ~Gone(l)
        BY <1>15 DEF Noted, Gone
      <3>2. ~Noted(l)' /\ ~Gone(l)'
        BY <1>1, <3>1 DEF Noted, Gone, Pending
      <3>3. m'.leases[l] = None <=> m.leases[l] = None
        BY <1>3, <1>6 DEF Ids
      <3>4. l \in sup.leases <=> m.leases[l] # None
        BY <3>1 DEF Inv, LeaseInv, LeaseOK
      <3> QED
        BY <1>1, <3>2, <3>3, <3>4 DEF LeaseOK
    <2> QED
      BY <2>1 DEF LeaseInv
  <1>17. SilentInv'
    <2>1. \A t \in Threads : Content(acts'[t]) = {}
      BY <1>1, IdleNone DEF Inv
    <2>2. ghost'.silent <= m'.budget + m'.bgFor + 1
      <3>1. ghost.silent <= m.budget + m.bgFor + 1 /\ (~m.bg => m.bgFor = 0)
        BY <1>2 DEF Inv, SilentInv, BudgetOK
      <3> QED
        BY <1>4, <1>5, <1>6, <1>9, <3>1
    <2>3. m'.alert = None => ghost'.silent = 0
      BY <1>2, <1>5, <1>6, <1>9 DEF Inv, SilentInv, BudgetOK
    <2>4. ASSUME ex.burst # None, ex.burst = m.alert PROVE ghost'.silent <= 1
      <3>1. ghost.silent <= 0
        BY <1>1, <2>4 DEF Inv, SilentInv
      <3> QED
        BY <1>4, <1>5, <1>9, <3>1
    <2> QED
      BY <1>1, <1>6, <2>1, <2>2, <2>3, <2>4 DEF SilentInv
  <1>18. MixInv' /\ DialogInv'
    BY <1>1, <1>6, <1>9 DEF Inv, MixInv, DialogInv, Pending
  <1>19. YieldInv'
    <2>1. CASE ghost.over # None /\ mix.cur = ghost.over
      <3>1. m.dialog = ghost.over /\ m.yieldIn # None /\ ghost.waits + m.yieldIn <= AlertYield
        BY <1>15, <2>1 DEF Inv, YieldInv
      <3>2. ghost'.waits + m'.yieldIn <= AlertYield /\ ghost'.waits <= AlertYield
        BY <1>4, <1>5, <1>6, <1>7, <1>9, <2>1, <3>1
      <3> QED
        BY <1>6, <1>7, <1>9, <3>1, <3>2 DEF YieldInv
    <2>2. CASE ~(ghost.over # None /\ mix.cur = ghost.over)
      BY <1>1, <1>5, <1>9, <2>2 DEF Inv, YieldInv
    <2> QED
      BY <2>1, <2>2
  <1> QED
    BY <1>10, <1>13, <1>14, <1>16, <1>17, <1>18, <1>19 DEF Inv

\* A callback that is not an update of the manager.
LEMMA ThenKept ==
    ASSUME Inv, NEW t \in Threads, acts[t] # <<>>, NEW a, a = Head(acts[t]),
           acts' = [acts EXCEPT ![t] = Tail(acts[t])],
           m' = m, ghost' = ghost, SameEx, ex'.burst = ex.burst, ticked' = ticked
    PROVE  /\ acts' \in [Threads -> Seq(Acts)] /\ (Cardinality(Busy) <= MaxBusy)'
           /\ a \in Acts /\ a \in Content(acts[t]) /\ Moves({}, {a})
           /\ ManagerInv' /\ ActInv' /\ SilentInv'
           /\ mix' = mix /\ a.do # "cancel" => MixInv' /\ DialogInv' /\ YieldInv'
           /\ sup'.focus = sup.focus /\ a.do # "focus" => AlertInv'
           /\ sup'.leases = sup.leases /\ a.do \notin {"noted", "forgot", "expired"} => LeaseInv'
  <1>1. <<>> \in Seq(Acts) /\ Content(<<>>) = {}
    BY ContentOf, EmptySeq
  <1>2. acts' = [acts EXCEPT ![t] = <<>> \o Tail(acts[t])]
    <2>1. Tail(acts[t]) \in Seq(Acts)
      BY ContentTail DEF Inv, TypeInv
    <2>2. <<>> \o Tail(acts[t]) = Tail(acts[t])
      BY <2>1
    <2> QED
      BY <2>2
  <1>3. /\ acts' \in [Threads -> Seq(Acts)] /\ (Cardinality(Busy) <= MaxBusy)'
        /\ a \in Acts /\ a \in Content(acts[t]) /\ Moves(Content(<<>>), {a})
    BY <1>1, <1>2, RunMoves DEF Inv
  <1>4. Moves({}, {a})
    BY <1>1, <1>3
  <1>5. ActInv'
    BY <1>1, <1>2, ActRun DEF Inv
  <1>6. ManagerInv'
    BY DEF Inv, ManagerInv
  <1>7. SilentInv'
    BY <1>4, SilentKept DEF Inv
  <1>8. ASSUME mix' = mix, a.do # "cancel" PROVE MixInv' /\ DialogInv' /\ YieldInv'
    <2>1. Quietly(<<>>) /\ Content(<<>>) \subseteq {} /\ \A b \in {a} : b.do # "cancel"
      BY <1>1, <1>8 DEF Quietly
    <2> QED
      BY <1>4, <1>8, <2>1, QuietKept DEF Inv
  <1>9. ASSUME sup'.focus = sup.focus, a.do # "focus" PROVE AlertInv'
    <2>1. \A b \in {a} : b.do # "focus"
      BY <1>9
    <2> QED
      BY <1>4, <1>9, <2>1, AlertKept DEF Inv
  <1>10. ASSUME sup'.leases = sup.leases, a.do \notin {"noted", "forgot", "expired"} PROVE LeaseInv'
    <2>1. \A b \in {} \cup {a} : b.do \notin {"noted", "forgot", "expired"}
      BY <1>10
    <2> QED
      BY <1>4, <1>10, <2>1, LeaseSame DEF Inv
  <1> QED
    BY <1>3, <1>4, <1>5, <1>6, <1>7, <1>8, <1>9, <1>10

\* A callback that updates the manager about its alert.
LEMMA AlertOp ==
    ASSUME Inv, NEW t \in Threads, acts[t] # <<>>, NEW a, a = Head(acts[t]),
           a.do \in {"focus", "stopped", "burst"},
           NEW x \in Now, NEW y, IsManager(y), BudgetOK(y), AlertOnly(x, y),
           Update(t, y, Tail(acts[t])), mix' = mix, ex' = ex, sup'.leases = sup.leases,
           ghost' = IF m'.alert = m.alert THEN ghost
                    ELSE [silent |-> 0, waits |-> 0,
                          over |-> IF m'.alert = None THEN None ELSE m.dialog],
           y.alert = m.alert => y.yieldIn = m.yieldIn,
           y.alert # m.alert /\ y.alert # None => (x.dialog # None => y.yieldIn = AlertYield)
    PROVE  /\ IsManager(m') /\ m'.pending = <<>> /\ acts' \in [Threads -> Seq(Acts)]
           /\ (Cardinality(Busy) <= MaxBusy)'
           /\ ghost' \in [silent : Nat, over : Playbacks \cup {None}, waits : Nat]
           /\ ManagerInv' /\ LeaseInv' /\ ActInv' /\ MixInv' /\ DialogInv' /\ YieldInv'
           /\ m'.alert = y.alert /\ m'.budget + m'.bgFor = y.budget + y.bgFor
           /\ m'.budget \in Nat /\ m'.bgFor \in Nat
           /\ m'.alert = m.alert => ghost' = ghost
           /\ m'.alert # m.alert => ghost'.silent = 0
           /\ \E p \in Seq(Acts) : Calls(p) /\ Moves(Content(p), {a})
           /\ a.do = "focus" => NoReport'
  <1>1. IsManager(x) /\ Expires(m, x)
    BY ExpireNow DEF Inv
  <1>2. Grows(x.pending, y.pending)
    BY GrowsSame DEF AlertOnly
  <1>3. PICK p \in Seq(Acts) : Updated(t, y, p, Tail(acts[t])) /\ Calls(p)
    BY <1>2, OpUpdate DEF Inv
  <1>4. acts' = [acts EXCEPT ![t] = p \o Tail(acts[t])]
    BY <1>3 DEF Updated
  <1>5. /\ acts' \in [Threads -> Seq(Acts)] /\ (Cardinality(Busy) <= MaxBusy)'
        /\ \A u \in Threads \ {t} : acts'[u] = acts[u]
        /\ Moves(Content(p), {a})
        /\ Content(acts'[t]) = Content(p) \cup Content(Tail(acts[t]))
        /\ a \in Content(acts[t])
    BY <1>4, RunMoves DEF Inv
  <1>6. IsManager(m') /\ m'.pending = <<>> /\ m'.alert = y.alert /\ ManagerInv'
        /\ m'.budget + m'.bgFor = y.budget + y.bgFor /\ m'.leases = x.leases
    BY <1>3 DEF Updated, ManagerInv, AlertOnly
  <1>7. \A b \in Content(p) : b.do \notin {"focus", "stopped", "noted", "burst", "forgot"}
    BY <1>3 DEF Calls, ExpiredAct
  <1>8. ActInv'
    BY <1>4, <1>7, ActRun DEF Inv, SameEx
  <1>9. LeaseInv'
    <2>1. \A b \in (Content(p) \ Content(p)) \cup {a} : b.do \notin {"noted", "forgot", "expired"}
      OBVIOUS
    <2> QED
      BY <1>1, <1>3, <1>5, <1>6, <2>1, LeasesKept DEF Inv
  <1>10. m'.dialog = m.dialog \/ (m'.dialog = None /\ CancelAct(m.dialog) \in Content(p))
    BY <1>1, <1>2, <1>3, DialogThrough DEF AlertOnly
  <1>11. /\ m'.dialog = m.dialog \/ (m.dialog \in Playbacks => Left(CancelAct(m.dialog)))
         /\ m'.dialog \in {m.dialog, None}
    BY <1>5, <1>10 DEF Moves
  <1>12. \A q \in Playbacks : Pending(CancelAct(q)) => Left(CancelAct(q))
    BY <1>5, ActsFit DEF Moves
  <1>13. DialogInv'
    BY <1>11, <1>12, DialogKept DEF Inv
  <1>14. m.dialog \in Playbacks \cup {None}
    BY DEF Inv, TypeInv, IsManager
  <1>15. m'.alert # m.alert =>
           /\ ghost' \in [silent : Nat, over : Playbacks \cup {None}, waits : Nat]
           /\ ghost'.silent = 0 /\ ghost'.waits = 0
           /\ ghost'.over = IF m'.alert = None THEN None ELSE m.dialog
    BY <1>14
  <1>16. m'.alert = m.alert => ghost' = ghost
    OBVIOUS
  <1>17. ghost' \in [silent : Nat, over : Playbacks \cup {None}, waits : Nat]
    BY <1>15, <1>16 DEF Inv, TypeInv
  <1>18. ghost'.over \in {ghost.over, None, m.dialog}
    BY <1>15, <1>16
  <1>19. MixInv'
    BY <1>11, <1>18, MixKept DEF Inv
  <1>20. m'.yieldIn = y.yieldIn \/ m'.dialog = None
    BY <1>3 DEF Updated
  <1>21. YieldInv'
    <2>1. CASE m'.alert = m.alert
      <3>1. m'.yieldIn = m.yieldIn \/ m'.dialog = None
        BY <1>6, <1>20, <2>1
      <3> QED
        BY <1>11, <1>12, <1>16, <2>1, <3>1, YieldKept DEF Inv
    <2>2. CASE m'.alert # m.alert
      <3>1. ghost'.waits <= AlertYield /\ AlertYield \in Nat /\ AlertYield # None
        BY <1>15, <2>2, TimeAssumption, NoneIsNone
      <3>2. ASSUME ghost'.over # None, ~Left(CancelAct(ghost'.over))
            PROVE  /\ m'.dialog = ghost'.over /\ m'.yieldIn # None
                   /\ ghost'.waits + m'.yieldIn <= AlertYield
        <4>1. y.alert # None /\ y.alert # m.alert /\ ghost'.over = m.dialog /\ m.dialog # None
          BY <1>6, <1>15, <2>2, <3>2
        <4>2. m'.dialog = m.dialog
          BY <1>5, <1>10, <3>2, <4>1 DEF Moves
        <4>3. x.dialog # None
          <5>1. SUFFICES ASSUME x.dialog = None PROVE FALSE
            OBVIOUS
          <5>2. y.dialog = None
            BY <5>1 DEF AlertOnly
          <5>3. m'.dialog = None
            BY <1>3, <5>2 DEF Updated
          <5> QED
            BY <4>1, <4>2, <5>3
        <4>4. m'.yieldIn = AlertYield
          BY <1>20, <4>1, <4>2, <4>3
        <4> QED
          BY <1>15, <2>2, <3>1, <4>1, <4>2, <4>4
      <3> QED
        BY <3>1, <3>2 DEF YieldInv, Pending, Left
    <2> QED
      BY <2>1, <2>2
  <1>22. ASSUME a.do = "focus" PROVE NoReport'
    <2>1. t = "alert" /\ acts[t] = <<a>>
      BY <1>5, <1>22 DEF Inv, ActInv
    <2>2. Content(Tail(acts[t])) = {}
      <3>1. Tail(acts[t]) = <<>>
        BY <2>1
      <3>2. Content(<<>>) = {}
        BY ContentOf, EmptySeq
      <3> QED
        BY <3>1, <3>2
    <2>3. ASSUME NEW u \in Threads, NEW b \in Content(acts'[u]), b.do = "focus" PROVE FALSE
      <3>1. CASE u = t
        BY <1>5, <1>7, <2>2, <2>3, <3>1
      <3>2. CASE u # t
        BY <1>5, <2>1, <2>3, <3>2 DEF Inv, ActInv
      <3> QED
        BY <3>1, <3>2
    <2> QED
      BY <2>3 DEF NoReport
  <1>23. m'.budget \in Nat /\ m'.bgFor \in Nat
    BY <1>6 DEF IsManager
  <1>24. \E q \in Seq(Acts) : Calls(q) /\ Moves(Content(q), {a})
    BY <1>3, <1>5
  <1> QED
    BY <1>5, <1>6, <1>8, <1>9, <1>13, <1>15, <1>16, <1>17, <1>19, <1>21, <1>22, <1>23, <1>24

\* A cancellation of an output that is not the mixer's any more.
LEMMA CancelLate ==
    ASSUME Inv, NEW a, a.do = "cancel", mix.cur # a.of, Moves({}, {a}),
           mix' = mix, m' = m, ghost' = ghost
    PROVE  MixInv' /\ DialogInv' /\ YieldInv'
  <1>1. MixInv'
    BY MixKept DEF Inv
  <1>2. Pending(CancelAct(mix.cur)) => Left(CancelAct(mix.cur))
    <2>1. CancelAct(mix.cur).of = mix.cur
      BY DEF CancelAct
    <2>2. CancelAct(mix.cur) # a
      BY <2>1
    <2> QED
      BY <2>2 DEF Moves
  <1>3. DialogInv'
    <2>1. mix.started => \/ StartOf(mix.cur) \in Content(mix.events)
                         \/ m.dialog = mix.cur
                         \/ Left(CancelAct(mix.cur))
      BY <1>2 DEF Inv, DialogInv
    <2> QED
      BY <2>1 DEF DialogInv, Pending, Left
  <1>4. YieldInv'
    <2>1. ghost.over # None /\ mix.cur = ghost.over /\ ~Left(CancelAct(ghost.over)) =>
            m.dialog = ghost.over /\ m.yieldIn # None /\ ghost.waits + m.yieldIn <= AlertYield
      BY <1>2 DEF Inv, YieldInv
    <2>2. ghost.waits <= AlertYield
      BY DEF Inv, YieldInv
    <2> QED
      BY <2>1, <2>2 DEF YieldInv, Pending, Left
  <1> QED
    BY <1>1, <1>3, <1>4

\* The supervisor learns what became of a lease.
LEMMA LearnedKept ==
    ASSUME Inv, NEW t \in Threads, NEW a \in Acts, a \in Content(acts[t]), Moves({}, {a}), m' = m,
           \/ a.do \in {"expired", "forgot"} /\ sup'.leases = sup.leases \ {a.of}
           \/ a.do = "noted" /\ sup'.leases = sup.leases \cup {a.of}
    PROVE  LeaseInv'
  <1> SUFFICES ASSUME NEW l \in Leases PROVE LeaseOK(l)'
    BY DEF LeaseInv
  <1> DEFINE N == [do |-> "noted", of |-> l]
             F == [do |-> "forgot", of |-> l]
             E == [do |-> "expired", of |-> l]
  <1>1. (Noted(l) <=> Pending(N)) /\ (Gone(l) <=> Pending(E) \/ Pending(F))
    BY DEF Noted, Gone
  <1>2. (Noted(l)' <=> Left(N)) /\ (Gone(l)' <=> Left(E) \/ Left(F))
    BY DEF Noted, Gone, Pending, Left
  <1>3. LeaseOK(l)
    BY DEF Inv, LeaseInv
  <1>4. /\ a.of = l /\ a.do = "noted" => a = N
        /\ a.of = l /\ a.do = "forgot" => a = F
        /\ a.of = l /\ a.do = "expired" => a = E
        /\ a.of # l => a \notin {N, F, E}
    BY DEF Acts
  <1>5. Pending(a)
    BY DEF Pending
  <1> HIDE DEF N, F, E
  <1>6. (Left(N) => Pending(N)) /\ (Left(F) => Pending(F)) /\ (Left(E) => Pending(E))
    BY DEF Moves
  <1>7. a.of # l =>
          /\ Pending(N) => Left(N)
          /\ Pending(F) => Left(F)
          /\ Pending(E) => Left(E)
          /\ l \in sup'.leases <=> l \in sup.leases
    BY <1>4 DEF Moves
  <1>8. CASE a.of # l
    BY <1>1, <1>2, <1>3, <1>6, <1>7, <1>8 DEF LeaseOK
  <1>9. CASE a.of = l /\ a.do \in {"expired", "forgot"}
    <2>1. Gone(l) /\ l \notin sup'.leases
      BY <1>1, <1>4, <1>5, <1>9
    <2> QED
      BY <1>1, <1>2, <1>3, <1>6, <2>1 DEF LeaseOK
  <1>10. CASE a.of = l /\ a.do = "noted"
    <2>1. Noted(l) /\ l \in sup'.leases
      BY <1>1, <1>4, <1>5, <1>10
    <2> QED
      BY <1>1, <1>2, <1>3, <1>6, <2>1 DEF LeaseOK
  <1> QED
    BY <1>8, <1>9, <1>10

\* A callback of the manager, or what is left of a command.
LEMMA ThenStep ==
    ASSUME Inv, NEW t \in Threads, acts[t] # <<>>, NEW a, a = Head(acts[t]),
           acts' = [acts EXCEPT ![t] = Tail(acts[t])], m' = m, ghost' = ghost,
           UNCHANGED <<session, ticked, open>>,
           \/ a.do = "apply" /\ ex' = [ex EXCEPT !.background = a.of] /\ UNCHANGED <<mix, sup>>
           \/ /\ a.do = "cancel" /\ mix' = IF mix.cur = a.of THEN Stopped(mix) ELSE mix
              /\ UNCHANGED <<ex, sup>>
           \/ /\ a.do = "mixend" /\ mix' = IF mix.cur # None THEN Stopped(mix) ELSE mix
              /\ UNCHANGED <<ex, sup>>
           \/ /\ a.do \in {"expired", "forgot"} /\ sup' = [sup EXCEPT !.leases = @ \ {a.of}]
              /\ UNCHANGED <<mix, ex>>
           \/ /\ a.do = "noted" /\ sup' = [sup EXCEPT !.leases = @ \cup {a.of}]
              /\ UNCHANGED <<mix, ex>>
    PROVE  Inv'
  <1>1. /\ SameEx /\ ex'.burst = ex.burst
        /\ a.do # "apply" => ex' = ex
    BY DEF SameEx, Inv, TypeInv
  <1>2. /\ acts' \in [Threads -> Seq(Acts)] /\ (Cardinality(Busy) <= MaxBusy)'
        /\ a \in Acts /\ a \in Content(acts[t]) /\ Moves({}, {a})
        /\ ManagerInv' /\ ActInv' /\ SilentInv'
        /\ mix' = mix /\ a.do # "cancel" => MixInv' /\ DialogInv' /\ YieldInv'
        /\ sup'.focus = sup.focus /\ a.do # "focus" => AlertInv'
        /\ sup'.leases = sup.leases /\ a.do \notin {"noted", "forgot", "expired"} => LeaseInv'
    BY <1>1, ThenKept
  <1>3. Fits(a.do, a.of)
    BY <1>2 DEF Acts
  <1>4. ex' \in [ringing : Alerts \cup {None}, told : {None} \cup [id : Alerts, fg : BOOLEAN],
                 background : BOOLEAN, burst : Alerts \cup {None}]
    <2>1. CASE a.do = "apply" /\ ex' = [ex EXCEPT !.background = a.of]
      <3>1. a.of \in BOOLEAN
        BY <1>3, <2>1 DEF Fits
      <3> QED
        BY <2>1, <3>1 DEF Inv, TypeInv
    <2>2. CASE a.do # "apply"
      BY <1>1, <2>2 DEF Inv, TypeInv
    <2> QED
      BY <2>1, <2>2
  <1>5. /\ sup' \in [leases : SUBSET Leases, focus : Alerts \cup {None}] /\ sup'.focus = sup.focus
        /\ a.do \in {"expired", "forgot"} => sup'.leases = sup.leases \ {a.of}
        /\ a.do = "noted" => sup'.leases = sup.leases \cup {a.of}
        /\ a.do \notin {"expired", "forgot", "noted"} => sup'.leases = sup.leases
    <2>1. sup \in [leases : SUBSET Leases, focus : Alerts \cup {None}]
      BY DEF Inv, TypeInv
    <2>2. a.do = "noted" => a.of \in Leases
      BY <1>3 DEF Fits
    <2> QED
      BY <2>1, <2>2
  <1>6. LeaseInv'
    <2>1. CASE a.do \in {"expired", "forgot", "noted"}
      BY <1>2, <1>5, <2>1, LearnedKept
    <2>2. CASE a.do \notin {"expired", "forgot", "noted"}
      BY <1>2, <1>5, <2>2
    <2> QED
      BY <2>1, <2>2
  <1>7. a.do # "focus"
    OBVIOUS
  <1>8. AlertInv'
    BY <1>2, <1>5, <1>7
  <1>9. /\ mix' \in [cur : Playbacks \cup {None}, started : BOOLEAN, events : Seq(Reports)]
        /\ MixInv' /\ DialogInv' /\ YieldInv'
    <2>1. CASE mix' = Stopped(mix) /\ mix.cur # None
      BY <2>1, StoppedKept DEF Inv
    <2>2. CASE mix' = mix /\ a.do # "cancel"
      BY <1>2, <2>2 DEF Inv, TypeInv
    <2>3. CASE mix' = mix /\ a.do = "cancel" /\ mix.cur # a.of
      BY <1>2, <2>3, CancelLate DEF Inv, TypeInv
    <2>4. a.do = "cancel" => a.of # None
      BY <1>3, NoneIsNone DEF Fits
    <2> QED
      BY <2>1, <2>2, <2>3, <2>4
  <1>10. TypeInv'
    BY <1>2, <1>4, <1>5, <1>9 DEF Inv, TypeInv
  <1> QED
    BY <1>2, <1>6, <1>8, <1>9, <1>10 DEF Inv

\* What the goroutines' history records of a callback.
Recorded ==
    ghost' = IF m'.alert = m.alert THEN ghost
             ELSE [silent |-> 0, waits |-> 0,
                   over |-> IF m'.alert = None THEN None ELSE m.dialog]

\* The supervisor is told of an alert that rings, or that it stopped ringing.
LEMMA FocusActStep ==
    ASSUME Inv, NEW t \in Threads, acts[t] # <<>>, NEW a, a = Head(acts[t]), a.do = "focus",
           sup' = [sup EXCEPT !.focus = a.of],
           \/ a.of # None /\ \E x \in Now : Update(t, AlertActive(x, a.of), Tail(acts[t]))
           \/ /\ a.of = None /\ sup.focus # None
              /\ \E x \in Now : Update(t, AlertEnded(x, sup.focus), Tail(acts[t]))
           \/ /\ a.of = None /\ sup.focus = None
              /\ m' = m /\ acts' = [acts EXCEPT ![t] = Tail(acts[t])],
           UNCHANGED <<mix, ex, session, ticked, open>>, Recorded
    PROVE  Inv'
  <1>1. a \in Acts /\ a \in Content(acts[t]) /\ acts[t] \in Seq(Acts)
    BY ContentTail DEF Inv, TypeInv
  <1>2. a.of \in Alerts \cup {None}
    BY <1>1 DEF Acts, Fits
  <1>3. /\ sup' \in [leases : SUBSET Leases, focus : Alerts \cup {None}]
        /\ sup'.leases = sup.leases /\ sup'.focus = a.of
    BY <1>2 DEF Inv, TypeInv
  <1>4. t = "alert" /\ acts[t] = <<a>> /\ a.of = ToldId
    BY <1>1 DEF Inv, ActInv
  <1>5. ToldId' = ToldId
    BY DEF ToldId
  <1>6. m.alert \in {None, sup.focus}
    BY DEF Inv, AlertInv
  <1>7. CASE a.of = None /\ sup.focus = None /\ m' = m /\ acts' = [acts EXCEPT ![t] = Tail(acts[t])]
    <2>1. ghost' = ghost
      BY <1>7 DEF Recorded
    <2>2. /\ acts' \in [Threads -> Seq(Acts)] /\ (Cardinality(Busy) <= MaxBusy)'
          /\ ManagerInv' /\ ActInv' /\ SilentInv' /\ MixInv' /\ DialogInv' /\ YieldInv' /\ LeaseInv'
      BY <1>3, <1>7, <2>1, ThenKept DEF SameEx
    <2>3. AlertInv'
      BY <1>3, <1>4, <1>5, <1>6, <1>7 DEF AlertInv
    <2>4. TypeInv'
      BY <1>3, <1>7, <2>1, <2>2 DEF Inv, TypeInv
    <2> QED
      BY <2>2, <2>3, <2>4 DEF Inv
  <1>8. ASSUME NEW x \in Now, NEW y, IsManager(y), BudgetOK(y), AlertOnly(x, y),
               Update(t, y, Tail(acts[t])), y.alert = a.of,
               y.alert = m.alert => y.yieldIn = m.yieldIn /\ y.budget + y.bgFor = m.budget + m.bgFor,
               y.alert # m.alert /\ y.alert # None => (x.dialog # None => y.yieldIn = AlertYield)
        PROVE  Inv'
    <2>0. /\ mix' = mix /\ ex' = ex /\ sup'.leases = sup.leases
          /\ a.do \in {"focus", "stopped", "burst"}
          /\ ghost' = IF m'.alert = m.alert THEN ghost
                      ELSE [silent |-> 0, waits |-> 0,
                            over |-> IF m'.alert = None THEN None ELSE m.dialog]
      BY <1>3 DEF Recorded
    <2>a. /\ IsManager(y) /\ BudgetOK(y) /\ AlertOnly(x, y) /\ Update(t, y, Tail(acts[t]))
          /\ y.alert = m.alert => y.yieldIn = m.yieldIn
          /\ y.alert # m.alert /\ y.alert # None => (x.dialog # None => y.yieldIn = AlertYield)
      BY <1>8
    <2>1. /\ IsManager(m') /\ m'.pending = <<>> /\ acts' \in [Threads -> Seq(Acts)]
          /\ (Cardinality(Busy) <= MaxBusy)'
          /\ ghost' \in [silent : Nat, over : Playbacks \cup {None}, waits : Nat]
          /\ ManagerInv' /\ LeaseInv' /\ ActInv' /\ MixInv' /\ DialogInv' /\ YieldInv'
          /\ m'.alert = y.alert /\ m'.budget + m'.bgFor = y.budget + y.bgFor
          /\ m'.budget \in Nat /\ m'.bgFor \in Nat
          /\ m'.alert = m.alert => ghost' = ghost
          /\ m'.alert # m.alert => ghost'.silent = 0
          /\ \E p \in Seq(Acts) : Calls(p) /\ Moves(Content(p), {a})
      BY <2>0, <2>a, AlertOp, ZenonT(40)
    <2>2. AlertInv'
      BY <1>3, <1>4, <1>5, <1>8, <2>1 DEF AlertInv
    <2>3. SilentInv'
      <3>1. CASE m'.alert = m.alert
        <4>1. PICK p \in Seq(Acts) : Calls(p) /\ Moves(Content(p), {a})
          BY <2>1
        <4>2. \A b \in Content(p) : b.do # "burst"
          BY <4>1 DEF Calls, ExpiredAct
        <4> QED
          BY <1>8, <2>1, <3>1, <4>1, <4>2, SilentKept DEF Inv
      <3>2. CASE m'.alert # m.alert
        BY <2>1, <3>2 DEF SilentInv
      <3> QED
        BY <3>1, <3>2
    <2>4. TypeInv'
      BY <1>3, <2>1 DEF Inv, TypeInv
    <2> QED
      BY <2>1, <2>2, <2>3, <2>4 DEF Inv
  <1>9. CASE a.of # None /\ \E x \in Now : Update(t, AlertActive(x, a.of), Tail(acts[t]))
    <2>1. PICK x \in Now : Update(t, AlertActive(x, a.of), Tail(acts[t]))
      BY <1>9
    <2>2. PICK y : y = AlertActive(x, a.of)
      OBVIOUS
    <2>3. IsManager(x) /\ Expires(m, x) /\ BudgetOK(x) /\ a.of \in Alerts
      BY <1>2, <1>9, ExpireNow DEF Inv
    <2>4. /\ IsManager(y) /\ BudgetOK(y) /\ AlertOnly(x, y) /\ y.alert = a.of
          /\ a.of = x.alert => y = x
          /\ a.of # x.alert /\ x.dialog # None => y.yieldIn = AlertYield
      BY <2>2, <2>3, ActiveEffect
    <2>5. /\ y.alert = m.alert => y.yieldIn = m.yieldIn /\ y.budget + y.bgFor = m.budget + m.bgFor
          /\ y.alert # m.alert /\ y.alert # None => (x.dialog # None => y.yieldIn = AlertYield)
      BY <2>3, <2>4 DEF Expires, SameAlert
    <2>6. Update(t, y, Tail(acts[t]))
      BY <2>1, <2>2
    <2> QED
      BY <1>8, <2>4, <2>5, <2>6
  <1>10. CASE /\ a.of = None /\ sup.focus # None
              /\ \E x \in Now : Update(t, AlertEnded(x, sup.focus), Tail(acts[t]))
    <2>1. PICK x \in Now : Update(t, AlertEnded(x, sup.focus), Tail(acts[t]))
      BY <1>10
    <2>2. PICK y : y = AlertEnded(x, sup.focus)
      OBVIOUS
    <2>3. IsManager(x) /\ Expires(m, x) /\ BudgetOK(x)
      BY ExpireNow DEF Inv
    <2>4. /\ IsManager(y) /\ BudgetOK(y) /\ AlertOnly(x, y)
          /\ sup.focus # x.alert => y = x
          /\ sup.focus = x.alert => y.alert = None
      BY <2>2, <2>3, EndedEffect
    <2>5. /\ y.alert = a.of
          /\ y.alert = m.alert => y.yieldIn = m.yieldIn /\ y.budget + y.bgFor = m.budget + m.bgFor
          /\ y.alert # m.alert /\ y.alert # None => (x.dialog # None => y.yieldIn = AlertYield)
      BY <1>6, <1>10, <2>3, <2>4 DEF Expires, SameAlert
    <2>6. Update(t, y, Tail(acts[t]))
      BY <2>1, <2>2
    <2> QED
      BY <1>8, <2>4, <2>5, <2>6
  <1> QED
    BY <1>7, <1>9, <1>10

\* The manager learns that an alert was stopped, or that a burst was completed.
LEMMA ReportStep ==
    ASSUME Inv, NEW t \in Threads, acts[t] # <<>>, NEW a, a = Head(acts[t]),
           \/ a.do = "stopped" /\ \E x \in Now : Update(t, AlertEnded(x, a.of), Tail(acts[t]))
           \/ a.do = "burst" /\ \E x \in Now : Update(t, AlertBurstCompleted(x, a.of), Tail(acts[t])),
           UNCHANGED <<mix, ex, sup, session, ticked, open>>, Recorded
    PROVE  Inv'
  <1>1. a \in Acts /\ a \in Content(acts[t]) /\ acts[t] \in Seq(Acts)
    BY ContentTail DEF Inv, TypeInv
  <1>2. PICK x \in Now :
           \/ a.do = "stopped" /\ Update(t, AlertEnded(x, a.of), Tail(acts[t]))
           \/ a.do = "burst" /\ Update(t, AlertBurstCompleted(x, a.of), Tail(acts[t]))
    OBVIOUS
  <1>3. IsManager(x) /\ Expires(m, x) /\ BudgetOK(x)
    BY ExpireNow DEF Inv
  <1>4. x.alert = m.alert /\ x.yieldIn = m.yieldIn /\ x.budget + x.bgFor = m.budget + m.bgFor
    BY <1>3 DEF Expires, SameAlert
  <1>5. PICK y : /\ Update(t, y, Tail(acts[t]))
                 /\ IsManager(y) /\ BudgetOK(y) /\ AlertOnly(x, y)
                 /\ a.of # x.alert => y = x
                 /\ a.do = "stopped" /\ a.of = x.alert => y.alert = None
                 /\ a.do = "burst" => y.alert = x.alert /\ y.yieldIn = x.yieldIn
    <2>1. CASE a.do = "stopped"
      <3>1. PICK y : y = AlertEnded(x, a.of)
        OBVIOUS
      <3> QED
        BY <1>2, <1>3, <2>1, <3>1, EndedEffect
    <2>2. CASE a.do = "burst"
      <3>1. PICK y : y = AlertBurstCompleted(x, a.of)
        OBVIOUS
      <3> QED
        BY <1>2, <1>3, <2>2, <3>1, BurstEffect
    <2> QED
      BY <1>2, <2>1, <2>2
  <1>6. a.do \in {"stopped", "burst"} /\ a.of \in Alerts /\ a.of # None
    BY <1>1, <1>2, NoneIsNone DEF Acts, Fits
  <1>7. /\ y.alert = m.alert => y.yieldIn = m.yieldIn
        /\ y.alert \in {m.alert, None}
    BY <1>4, <1>5, <1>6
  <1>7a. /\ mix' = mix /\ ex' = ex /\ sup'.leases = sup.leases
         /\ a.do \in {"focus", "stopped", "burst"}
         /\ ghost' = IF m'.alert = m.alert THEN ghost
                     ELSE [silent |-> 0, waits |-> 0,
                           over |-> IF m'.alert = None THEN None ELSE m.dialog]
    BY <1>6 DEF Recorded
  <1>8. /\ IsManager(m') /\ m'.pending = <<>> /\ acts' \in [Threads -> Seq(Acts)]
        /\ (Cardinality(Busy) <= MaxBusy)'
        /\ ghost' \in [silent : Nat, over : Playbacks \cup {None}, waits : Nat]
        /\ ManagerInv' /\ LeaseInv' /\ ActInv' /\ MixInv' /\ DialogInv' /\ YieldInv'
        /\ m'.alert = y.alert /\ m'.budget + m'.bgFor = y.budget + y.bgFor
        /\ m'.budget \in Nat /\ m'.bgFor \in Nat
        /\ m'.alert = m.alert => ghost' = ghost
        /\ m'.alert # m.alert => ghost'.silent = 0
        /\ \E p \in Seq(Acts) : Calls(p) /\ Moves(Content(p), {a})
    BY <1>5, <1>6, <1>7, <1>7a, AlertOp, ZenonT(40)
  <1>9. PICK p \in Seq(Acts) : Calls(p) /\ Moves(Content(p), {a})
    BY <1>8
  <1>10. AlertInv'
    <2>1. ToldId' = ToldId
      BY DEF ToldId
    <2>2. NoReport' => NoReport
      <3>1. ASSUME NoReport', NEW u \in Threads, NEW b \in Content(acts[u]), b.do = "focus" PROVE FALSE
        <4>1. Pending(b) /\ b \notin {a}
          BY <1>6, <3>1 DEF Pending
        <4>2. Left(b)
          BY <1>9, <4>1 DEF Moves
        <4> QED
          BY <3>1, <4>2 DEF Left, NoReport
      <3> QED
        BY <3>1 DEF NoReport
    <2>3. /\ NoReport => sup.focus = ToldId
          /\ m.alert \in {None, sup.focus}
          /\ m.alert # sup.focus => ex.ringing # sup.focus
      BY DEF Inv, AlertInv
    <2>4. a.do = "stopped" => a.of # ex.ringing
      BY <1>1 DEF Inv, ActInv
    <2>5. m'.alert = m.alert \/ (m'.alert = None /\ a.do = "stopped" /\ a.of = m.alert)
      BY <1>4, <1>5, <1>6, <1>8
    <2> QED
      BY <1>6, <2>1, <2>2, <2>3, <2>4, <2>5 DEF AlertInv
  <1>11. SilentInv'
    <2>1. CASE m'.alert # m.alert
      BY <1>8, <2>1 DEF SilentInv
    <2>2. CASE m'.alert = m.alert /\ a.of # m.alert
      <3>1. m'.budget + m'.bgFor = m.budget + m.bgFor
        BY <1>4, <1>5, <1>8, <2>2
      <3>2. \A b \in Content(p) : b.do # "burst"
        BY <1>9 DEF Calls, ExpiredAct
      <3> QED
        BY <1>8, <1>9, <2>2, <3>1, <3>2, SilentKept DEF Inv
    <2>3. CASE m'.alert = m.alert /\ a.of = m.alert
      <3>1. a.do = "burst"
        BY <1>4, <1>5, <1>6, <1>8, <2>3
      <3>2. ghost.silent <= 1 /\ ghost.silent \in Nat
        BY <1>1, <2>3, <3>1 DEF Inv, SilentInv, TypeInv
      <3>3. ghost'.silent <= m'.budget + m'.bgFor + 1
        BY <1>8, <2>3, <3>2
      <3>4. m'.alert = None => ghost'.silent = 0
        BY <1>6, <2>3
      <3>5. ex'.burst # None /\ ex'.burst = m'.alert => ghost'.silent <= IF ticked' THEN 0 ELSE 1
        BY <1>8, <2>3 DEF Inv, SilentInv
      <3>6. \A u \in Threads : \A b \in Content(acts'[u]) :
               b.do = "burst" /\ b.of = m'.alert => ghost'.silent <= 1
        BY <1>8, <2>3, <3>2
      <3> QED
        BY <3>3, <3>4, <3>5, <3>6 DEF SilentInv
    <2> QED
      BY <2>1, <2>2, <2>3
  <1>12. TypeInv'
    BY <1>8 DEF Inv, TypeInv
  <1> QED
    BY <1>8, <1>10, <1>11, <1>12 DEF Inv

\* The next thing a goroutine does.
LEMMA RunStep ==
    ASSUME Inv, NEW t \in Threads, Run(t)
    PROVE  Inv'
  <1>1. PICK a : a = Head(acts[t])
    OBVIOUS
  <1>2. acts[t] # <<>> /\ UNCHANGED <<session, ticked, open>> /\ Recorded
    BY DEF Run, Recorded
  <1>3. \/ /\ m' = m /\ acts' = [acts EXCEPT ![t] = Tail(acts[t])]
           /\ \/ a.do = "apply" /\ ex' = [ex EXCEPT !.background = a.of] /\ UNCHANGED <<mix, sup>>
              \/ /\ a.do = "cancel" /\ mix' = IF mix.cur = a.of THEN Stopped(mix) ELSE mix
                 /\ UNCHANGED <<ex, sup>>
              \/ /\ a.do = "mixend" /\ mix' = IF mix.cur # None THEN Stopped(mix) ELSE mix
                 /\ UNCHANGED <<ex, sup>>
              \/ /\ a.do \in {"expired", "forgot"} /\ sup' = [sup EXCEPT !.leases = @ \ {a.of}]
                 /\ UNCHANGED <<mix, ex>>
              \/ /\ a.do = "noted" /\ sup' = [sup EXCEPT !.leases = @ \cup {a.of}]
                 /\ UNCHANGED <<mix, ex>>
        \/ /\ a.do = "focus" /\ sup' = [sup EXCEPT !.focus = a.of] /\ UNCHANGED <<mix, ex>>
           /\ \/ a.of # None /\ \E x \in Now : Update(t, AlertActive(x, a.of), Tail(acts[t]))
              \/ /\ a.of = None /\ sup.focus # None
                 /\ \E x \in Now : Update(t, AlertEnded(x, sup.focus), Tail(acts[t]))
              \/ /\ a.of = None /\ sup.focus = None
                 /\ m' = m /\ acts' = [acts EXCEPT ![t] = Tail(acts[t])]
        \/ /\ UNCHANGED <<mix, ex, sup>>
           /\ \/ a.do = "stopped" /\ \E x \in Now : Update(t, AlertEnded(x, a.of), Tail(acts[t]))
              \/ a.do = "burst" /\ \E x \in Now : Update(t, AlertBurstCompleted(x, a.of), Tail(acts[t]))
    BY <1>1 DEF Run
  <1>4. m' = m => ghost' = ghost
    BY <1>2 DEF Recorded
  <1> QED
    BY <1>1, <1>2, <1>3, <1>4, ThenStep, FocusActStep, ReportStep

----------------------------------------------------------------------------
(* The invariant                                                           *)

\* It holds at the start: nothing is held, rings or is under way.
LEMMA InitInv ==
    ASSUME Init PROVE Inv
  <1>1. Content(<<>>) = {} /\ <<>> \in Seq(Acts) /\ <<>> \in Seq(Reports) /\ Len(<<>>) = 0
    BY ContentOf, EmptySeq
  <1>2. (\A a : ~Pending(a)) /\ \A t \in Threads : acts[t] = <<>> /\ Content(acts[t]) = {}
    BY <1>1 DEF Init, Pending
  <1>3. /\ Shape(m) /\ m.leases = [l \in Ids |-> None] /\ m.alert = None /\ m.dialog = None
        /\ ~m.bg /\ ~m.spent /\ ~m.yielded /\ m.bg \in BOOLEAN /\ m.spent \in BOOLEAN
        /\ m.yielded \in BOOLEAN /\ m.bgFor = 0 /\ m.budget = 0 /\ m.yieldIn = None
        /\ m.pending = <<>>
    BY DEF Init, Shape, Fields
  <1>4. m.leases \in LeaseMaps /\ \A l \in Leases : m.leases[l] = None
    BY <1>3 DEF LeaseMaps, Ids
  <1>5. IsManager(m)
    BY <1>1, <1>3, <1>4 DEF IsManager
  <1>6. ManagerInv
    BY <1>3, TimeAssumption DEF ManagerInv, BudgetOK, Decided, Prompt, Init
  <1>7. Cardinality(Busy) <= MaxBusy
    <2>1. Busy = {}
      BY <1>2 DEF Busy
    <2> QED
      BY <2>1, FS_EmptySet, BoundAssumption
  <1>8. TypeInv
    BY <1>1, <1>3, <1>5, <1>7 DEF Init, TypeInv
  <1>9. ActInv /\ LeaseInv /\ AlertInv
    BY <1>2, <1>3, <1>4 DEF Init, ActInv, LeaseInv, LeaseOK, Noted, Gone, AlertInv, ToldId
  <1>10. SilentInv /\ YieldInv /\ DialogInv
    BY <1>2, <1>3, TimeAssumption DEF Init, SilentInv, YieldInv, DialogInv
  <1>11. MixInv
    BY <1>1 DEF Init, MixInv
  <1> QED
    BY <1>6, <1>8, <1>9, <1>10, <1>11 DEF Inv

\* Every step preserves it.
LEMMA NextInv ==
    ASSUME Inv, [Next]_vars
    PROVE  Inv'
  <1>1. CASE UNCHANGED vars
    <2>1. UNCHANGED <<m, acts, mix, ex, sup, ticked, ghost>>
      BY <1>1 DEF vars
    <2>2. TypeInv' /\ ManagerInv' /\ AlertInv' /\ ActInv'
      BY <2>1 DEF Inv, TypeInv, ManagerInv, Prompt, Busy, AlertInv, NoReport, ToldId, ActInv
    <2>3. LeaseInv'
      BY <2>1 DEF Inv, LeaseInv, LeaseOK, Gone, Noted, Pending
    <2>4. SilentInv' /\ MixInv'
      BY <2>1 DEF Inv, SilentInv, MixInv
    <2>5. DialogInv' /\ YieldInv'
      BY <2>1 DEF Inv, DialogInv, YieldInv, Pending
    <2> QED
      BY <2>2, <2>3, <2>4, <2>5 DEF Inv
  <1>2. CASE \E l \in Leases : FocusCommand(l)
    BY <1>2, FocusStep
  <1>3. CASE EndSession \/ Reconnect
    BY <1>3, EndSessionStep, ReconnectStep
  <1>4. CASE \E c \in Candidates : CandidateOpen(c) \/ CandidateCommand(c)
    BY <1>4, CandidateStep
  <1>5. CASE \E p \in Playbacks : RenderStart(p)
    BY <1>5, RenderStep
  <1>6. CASE Audible \/ Drained \/ Hook
    BY <1>6, AudibleStep, DrainedStep, HookStep
  <1>7. CASE Rings \/ Poll \/ Burst \/ Button
    BY <1>7, RingsStep, PollStep, BurstStep, ButtonStep
  <1>8. CASE Tick \/ Advance
    BY <1>8, TickStep, AdvanceStep
  <1>9. CASE \E t \in Threads : Run(t)
    BY <1>9, RunStep
  <1> QED
    BY <1>1, <1>2, <1>3, <1>4, <1>5, <1>6, <1>7, <1>8, <1>9 DEF Next

\* The inductive invariant holds in every state.
THEOREM Invariance == Spec => []Inv
  BY InitInv, NextInv, PTL DEF Spec

\* An alert's budget never runs past its cap, resetAlertLocked leaves nothing of an
\* alert that ended, update leaves no callback behind, and no lease outlives its time.
THEOREM Typed == Spec => []TypeOK
  <1>1. Inv => TypeOK
    <2> SUFFICES ASSUME Inv PROVE TypeOK
      OBVIOUS
    <2>1. /\ IsManager(m) /\ m.pending = <<>> /\ Cardinality(Busy) <= MaxBusy /\ BudgetOK(m)
      BY DEF Inv, TypeInv, ManagerInv
    <2>2. \A l \in Live(m) : m.leases[l].left \in 0..TTL
      BY <2>1 DEF IsManager, LeaseMaps, LeaseRecords, Live
    <2> QED
      BY <2>1, <2>2 DEF TypeOK, BudgetOK
  <1> QED
    BY <1>1, Invariance, PTL

\* recomputeLocked and deadlinesLocked between them bound an alert's silence: no
\* sequence of wakes, renewals and turns keeps it in the background for longer than
\* alertBackgroundCap since its last whole burst, but for the tick that learns of it.
THEOREM Bounded == Spec => []BackgroundBounded
  <1>1. Inv => BackgroundBounded
    <2> SUFFICES ASSUME Inv PROVE BackgroundBounded
      OBVIOUS
    <2>1. /\ ghost.silent \in Nat /\ m.budget \in Nat /\ m.bgFor \in Nat
          /\ m.budget + m.bgFor <= AlertBackgroundCap /\ AlertBackgroundCap \in Nat
          /\ ghost.silent <= m.budget + m.bgFor + 1
      BY TimeAssumption DEF Inv, TypeInv, IsManager, ManagerInv, BudgetOK, SilentInv
    <2> QED
      BY <2>1 DEF BackgroundBounded
  <1> QED
    BY <1>1, Invariance, PTL

\* AlertActive gives the output it finds a deadline, and deadlinesLocked keeps it.
THEOREM Yielding == Spec => []YieldBounded
  <1>1. Inv => YieldBounded
    BY DEF Inv, YieldInv, YieldBounded
  <1> QED
    BY <1>1, Invariance, PTL

\* The executor's poll, the button and the supervisor's alertFocusID agree in the end:
\* no order of a button, a ring's end and a late report leaves the manager with an
\* alert that does not ring, or without the one that does.
THEOREM Tracked == Spec => []AlertTracks
  <1>1. Inv => AlertTracks
    <2> SUFFICES ASSUME Inv, Idle, FocusOf(ex) = ex.told PROVE m.alert = ex.ringing
      BY DEF AlertTracks
    <2>1. NoReport
      BY IdleNone DEF Inv, NoReport
    <2>2. sup.focus = ToldId /\ m.alert \in {None, sup.focus}
          /\ (m.alert # sup.focus => ex.ringing # sup.focus)
      BY <2>1 DEF Inv, AlertInv
    <2>3. ToldId = ex.ringing
      <3>1. CASE ex.ringing = None
        BY <3>1 DEF ToldId, FocusOf
      <3>2. CASE ex.ringing # None
        <4>1. ex.told = [id |-> ex.ringing, fg |-> ~ex.background]
          BY <3>2 DEF FocusOf
        <4>2. ex.ringing \in Alerts /\ ex.told \in [id : Alerts, fg : BOOLEAN]
          BY <3>2, <4>1 DEF Inv, TypeInv
        <4>3. ex.told # None
          BY <4>2, NoneIsNone
        <4> QED
          BY <4>1, <4>3 DEF ToldId
      <3> QED
        BY <3>1, <3>2
    <2> QED
      BY <2>2, <2>3
  <1> QED
    BY <1>1, Invariance, PTL

\* s.leases follows the manager: every lease that was released, expired or dropped with
\* its session is forgotten, and none that is held is.
THEOREM Followed == Spec => []LeasesFollow
  <1>1. Inv => LeasesFollow
    <2> SUFFICES ASSUME Inv, Idle PROVE sup.leases = Live(m) \cap Leases
      BY DEF LeasesFollow
    <2>1. \A l \in Leases : l \in sup.leases <=> m.leases[l] # None
      BY IdleNone DEF Inv, LeaseInv, LeaseOK, Noted, Gone
    <2>2. sup.leases \subseteq Leases
      BY DEF Inv, TypeInv
    <2> QED
      BY <2>1, <2>2 DEF Live, Ids
  <1> QED
    BY <1>1, Invariance, PTL

\* No output is heard over a foreground alert: what started before the manager heard of
\* it is cancelled, what it holds puts the alert in the background, and what has used up
\* the budget or its yield time is stopped.
THEOREM Foreground == Spec => []OneForeground
  <1>1. Inv => OneForeground
    <2> SUFFICES ASSUME Inv, Idle, mix.events = <<>>, m.alert # None, ~m.bg, ~m.yielded, mix.started
                 PROVE  FALSE
      BY DEF OneForeground
    <2>1. Content(mix.events) = {} /\ ~Pending(CancelAct(mix.cur))
      BY IdleNone, ContentOf, EmptySeq DEF Inv
    <2>2. m.dialog = mix.cur /\ mix.cur # None
      BY <2>1 DEF Inv, DialogInv, MixInv
    <2> QED
      BY <2>2 DEF Inv, ManagerInv, Decided, BudgetOK
  <1> QED
    BY <1>1, Invariance, PTL
=============================================================================
