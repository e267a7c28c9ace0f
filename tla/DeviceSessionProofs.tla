------------------------- MODULE DeviceSessionProofs -------------------------
(***************************************************************************)
(* Theorems about DeviceSession for every number of sessions, every length *)
(* of the urgent path and every number of presses, crashes and faults.     *)
(***************************************************************************)
EXTENDS DeviceSession, QueueLemmas

Reports == [muted : BOOLEAN, seq : Nat]
SessionRecords ==
    [at : {"none", "hello", "replace", "admit", "wait", "attached", "run", "over"},
     hello : BOOLEAN, old : Nat, stop : BOOLEAN, scope : {"none", "live", "dead"},
     wire : Seq(Reports), shut : BOOLEAN, urgent : Seq(Reports), read : BOOLEAN]

Devices == [muted : BOOLEAN, adc : BOOLEAN, saved : BOOLEAN, reported : BOOLEAN, seq : Nat]
Points == {"idle", "decide", "set", "apply", "number", "send"}
Goroutines == [pc : Points, v : BOOLEAN, seq : Nat]

DeviceType ==
    /\ dev \in Devices
    /\ driver \in {"off", "entering", "on"}
    /\ thr \in [Threads -> Goroutines]
    /\ armed \in Nat /\ pressed \in Nat /\ up \in BOOLEAN

\* Sessions are dialled in order, so those above the link's are unused.
LinkType ==
    /\ link \in [phase : {"idle", "hello", "ready", "up"}, id : Nat]
    /\ left \in [{"presses", "crashes", "faults", "dials"} -> Nat]
    /\ link.id + left.dials <= MaxSessions
    /\ link.phase # "idle" => link.id # NoSession
    /\ \A s \in Sessions : s > link.id => ses[s].at = "none"
    /\ ghost \in [overlap : BOOLEAN, stale : BOOLEAN, mixed : SUBSET Sessions]
    /\ \A s \in ghost.mixed : s <= link.id

\* The table of sessions, with what the invariant asks of each.
SessionType(x, s) ==
    /\ x \in SessionRecords
    /\ x.at = "replace" => x.old \in Sessions
    /\ Len(x.urgent) <= UrgentEvents
    /\ x.at = "over" => x.stop
TableType(f) == f \in [Sessions -> SessionRecords] /\ \A s \in Sessions : SessionType(f[s], s)

ServerType ==
    /\ TableType(ses)
    /\ claim \in Sessions \cup {NoSession} /\ active \in SUBSET Sessions
    /\ cmds \in Seq(Sessions)
    /\ rt \in [cur : Sessions \cup {NoSession}, muted : BOOLEAN, last : Nat,
               publishing : Sessions \cup {NoSession}]
    /\ rt.publishing \in {NoSession, rt.cur}

TypeInv == DeviceType /\ LinkType /\ ServerType

\* What the server and the runtime hold was dialled.
IdInv ==
    /\ claim <= link.id /\ rt.cur <= link.id
    /\ \A i \in 1..Len(cmds) : cmds[i] <= link.id

----------------------------------------------------------------------------

\* The only routed session is the claimed one; what runs is routed.
RouteInv == active \subseteq {claim} /\ RunningIsRouted

\* A command is queued once and for a session that waits for its answer or gave
\* up; the current session had its command.  A session reports nothing before it
\* runs.
CommandInv ==
    /\ \A i \in 1..Len(cmds) : ses[cmds[i]].at \in {"wait", "over"} /\ cmds[i] # rt.cur
    /\ \A i, j \in 1..Len(cmds) : cmds[i] = cmds[j] => i = j
    /\ rt.cur # NoSession => ses[rt.cur].at \in {"wait", "attached", "run", "over"}
    /\ \A s \in Sessions :
         ses[s].at \notin {"run", "over"} =>
            /\ ses[s].wire = <<>> /\ ses[s].urgent = <<>> /\ ses[s].read = ses[s].hello

\* Capture is live for the current session only.  A session that was admitted
\* is the current one until it is stopped.
CaptureInv ==
    /\ \A s \in Sessions : ses[s].scope = "live" => s = rt.cur
    /\ \A s \in Sessions : ses[s].at \in {"attached", "run"} /\ ~ses[s].stop => s = rt.cur
    /\ rt.cur # NoSession => ses[rt.cur].scope # "none"
    /\ EndedIsRevoked

\* The numbers of a session's reports grow along the urgent path and the
\* socket behind it, from what the runtime applied last.
Rising(q) == \A i, j \in 1..Len(q) : i < j => q[i].seq < q[j].seq
Ordered(urgent, wire, last) ==
    /\ Rising(urgent) /\ Rising(wire)
    /\ \A i \in 1..Len(urgent), j \in 1..Len(wire) : urgent[i].seq < wire[j].seq
    /\ \A i \in 1..Len(urgent) : urgent[i].seq > last
    /\ \A i \in 1..Len(wire) : wire[i].seq > last
Applied(s) == IF rt.cur = s THEN rt.last ELSE 0
OrderInv ==
    \A s \in Sessions :
        s \notin ghost.mixed => Ordered(ses[s].urgent, ses[s].wire, Applied(s))

\* A number is taken once: those of the goroutines about to send differ from
\* each other and from what the link's session has carried.
Taken(n) == n <= dev.seq /\ \A t \in Threads : At(t, "send") => n # thr[t].seq
NumberInv ==
    /\ \A t \in Threads : At(t, "send") => thr[t].seq \in 1..dev.seq
    /\ \A t, o \in Threads :
         t # o /\ At(t, "send") /\ At(o, "send") => thr[t].seq # thr[o].seq
    /\ link.phase # "idle" =>
         /\ \A i \in 1..Len(ses[link.id].wire) : Taken(ses[link.id].wire[i].seq)
         /\ \A i \in 1..Len(ses[link.id].urgent) : Taken(ses[link.id].urgent[i].seq)
         /\ rt.cur = link.id => Taken(rt.last)

\* The last report on the urgent path is the last the link read.
ReadInv ==
    \A s \in Sessions :
        ~ses[s].stop /\ ses[s].urgent # <<>> =>
            ses[s].urgent[Len(ses[s].urgent)].muted = ses[s].read

HeardInv == MuteIsHeard

----------------------------------------------------------------------------
\* While changes do not overlap, what is set is applied, saved and reported by
\* the goroutine that set it.
Changing == \E t \in Threads : thr[t].pc \in Setting
ApplyInv ==
    up /\ ~ghost.overlap =>
        /\ \A t, o \in Threads :
             thr[t].pc \in Setting /\ thr[o].pc \in Setting => t = o
        /\ \A t \in Threads :
             /\ thr[t].pc \in Setting => thr[t].v = dev.muted
             /\ thr[t].pc \in {"number", "send"} =>
                   dev.adc = dev.muted /\ dev.saved = dev.muted
             /\ At(t, "send") => thr[t].seq = dev.seq
        /\ ~Changing => {dev.adc, dev.saved, dev.reported} = {dev.muted}

\* A check of the driver is still to come, unless the timer's goroutine is about
\* to bring the two together.
CheckDue == armed > 0 \/ pressed > 0 \/ ~At("button", "idle")
DriverInv ==
    /\ thr["timer"].pc \notin {"idle", "decide"} => thr["timer"].v
    /\ ~up => \A t \in Threads : At(t, "idle")
    /\ up /\ ~CheckDue =>
        /\ At("timer", "idle") => driver = IF dev.muted THEN "on" ELSE "off"
        /\ At("timer", "decide") =>
              driver # "entering" /\ thr["timer"].v = (driver = "on")
        /\ At("timer", "set") => driver = "on"
        /\ thr["timer"].pc \in Setting => driver = "on" /\ dev.muted

\* The last the controller was told by session s: on the socket, on the urgent
\* path, or applied.
Told(s) ==
    IF ses[s].wire # <<>> THEN ses[s].wire[Len(ses[s].wire)].muted
    ELSE IF ses[s].urgent # <<>> THEN ses[s].urgent[Len(ses[s].urgent)].muted
    ELSE rt.muted

ToldInv ==
    link.phase # "idle" =>
        /\ up
        /\ link.phase \in {"ready", "up"} => ses[link.id].at \in {"run", "over"}
        /\ ~ghost.overlap => link.id \notin ghost.mixed
        /\ ~ghost.overlap /\ ~ghost.stale /\ ~Changing =>
             /\ link.phase # "up" => ses[link.id].hello = dev.muted
             /\ ses[link.id].at \in {"attached", "run"} /\ ~ses[link.id].stop
                => Told(link.id) = dev.muted
        /\ link.phase # "up" =>
             /\ ses[link.id].wire = <<>> /\ ses[link.id].urgent = <<>>
             /\ link.id \notin ghost.mixed
             /\ rt.cur = link.id /\ ~ses[link.id].stop => rt.muted = ses[link.id].hello

\* The current session's capture follows the runtime's mute, but for a mute the
\* link has read and the runtime has not.
ScopeInv ==
    \A s \in Sessions :
        s = rt.cur /\ ~ses[s].stop =>
            /\ rt.muted => ses[s].scope = "dead"
            /\ ~rt.muted /\ ses[s].scope # "live" /\ s \notin ghost.mixed =>
                 \E i \in 1..Len(ses[s].urgent) : ses[s].urgent[i].muted

----------------------------------------------------------------------------
(* Types                                                                   *)

\* Rewriting the record of a session leaves a table of sessions.
LEMMA SessionsExcept ==
    ASSUME NEW s \in Sessions, NEW x \in SessionRecords,
           ses \in [Sessions -> SessionRecords]
    PROVE  [ses EXCEPT ![s] = x] \in [Sessions -> SessionRecords]
  OBVIOUS

\* What ends and what is gone is a session still.
LEMMA EndedType ==
    ASSUME NEW x \in SessionRecords
    PROVE  /\ Ended(x) \in SessionRecords /\ Gone(x) \in SessionRecords
           /\ Ended(x) = [x EXCEPT !.stop = TRUE, !.scope = Dead(x.scope)]
  BY EmptySeq DEF Ended, Gone, Dead, SessionRecords

\* The goroutines stay goroutines as they go from point to point.
LEMMA GoroutineType ==
    ASSUME thr \in [Threads -> Goroutines], NEW t \in Threads
    PROVE  /\ thr[t].v \in BOOLEAN /\ thr[t].seq \in Nat
           /\ [thr EXCEPT ![t] = Idle] \in [Threads -> Goroutines]
           /\ \A p \in Points :
                 /\ \A v \in BOOLEAN :
                        [thr EXCEPT ![t] = Goroutine(p, v)] \in [Threads -> Goroutines]
                 /\ [thr EXCEPT ![t].pc = p] \in [Threads -> Goroutines]
                 /\ \A n \in Nat :
                        [thr EXCEPT ![t].pc = p, ![t].seq = n] \in [Threads -> Goroutines]
  BY ZenonT(40) DEF Goroutines, Idle, Goroutine, Points

\* What the parts of the type invariant depend on.
LEMMA Frames ==
    /\ DeviceType /\ UNCHANGED <<device, up>> => DeviceType'
    /\ LinkType /\ UNCHANGED <<link, left, ses, ghost>> => LinkType'
    /\ ServerType /\ UNCHANGED <<ses, server, rt>> => ServerType'
  BY DEF DeviceType, LinkType, ServerType, device, server, TableType, SessionType

\* The initial state is well typed.
LEMMA InitType == Init => TypeInv
  <1> SUFFICES ASSUME Init PROVE TypeInv
    OBVIOUS
  <1> USE DEF NoSession
  <1>1. DeviceType
    <2>1. dev \in Devices
      BY DEF Init, Devices, Restored
    <2>2. thr \in [Threads -> Goroutines]
      BY DEF Init, Goroutines, Points, Idle, Goroutine
    <2> QED
      BY <2>1, <2>2 DEF Init, DeviceType
  <1>2. ses = [s \in Sessions |-> Unused] /\ ses \in [Sessions -> SessionRecords]
    BY EmptySeq DEF Init, Unused, SessionAt, SessionRecords
  <1>3. LinkType
    BY <1>2, SessionAssumption DEF Init, LinkType, Unused, SessionAt
  <1>4. ServerType
    <2>1. TableType(ses)
      BY <1>2, EmptySeq, UrgentAssumption DEF TableType, SessionType, Unused, SessionAt
    <2> QED
      BY <2>1, EmptySeq DEF Init, ServerType, NoCurrent
  <1> QED
    BY <1>1, <1>3, <1>4 DEF TypeInv

\* Steps inside the device's mute controller.
LEMMA DeviceStepType ==
    ASSUME TypeInv,
           \/ Toggle \/ Reconcile \/ DecidePrivacy \/ Entered
           \/ \E t \in Threads : Set(t) \/ Apply(t) \/ Number(t)
    PROVE  TypeInv'
  <1> USE DEF TypeInv
  <1>1. DeviceType'
    <2> USE DEF DeviceType
    <2>1. CASE Toggle
      BY <2>1 DEF Toggle, Threads, Goroutines, Points, Goroutine
    <2>2. CASE Reconcile
      BY <2>2 DEF Reconcile, Threads, Goroutines, Points, Goroutine
    <2>3. CASE Entered
      BY <2>3 DEF Entered
    <2>4. CASE DecidePrivacy
      BY <2>4, GoroutineType, ZenonT(40) DEF DecidePrivacy, Threads, Goto, Points
    <2>5. ASSUME NEW t \in Threads, Set(t) PROVE DeviceType'
      <3>1. CASE thr[t].v = dev.muted
        <4>1. Returned(t) /\ UNCHANGED <<dev, driver, pressed, up>>
          BY <2>5, <3>1 DEF Set
        <4>2. thr' \in [Threads -> Goroutines]
          BY <4>1, GoroutineType DEF Returned
        <4> QED
          BY <4>1, <4>2 DEF Returned
      <3>2. CASE thr[t].v # dev.muted
        <4>1. /\ dev' = [dev EXCEPT !.muted = thr[t].v] /\ Goto(t, "apply")
              /\ UNCHANGED <<armed, driver, pressed, up>>
          BY <2>5, <3>2, SMTT(30) DEF Set
        <4>2. thr' \in [Threads -> Goroutines] /\ thr[t].v \in BOOLEAN
          BY <4>1, GoroutineType DEF Goto, Points
        <4>3. dev' \in Devices
          BY <4>1, <4>2 DEF Devices
        <4> QED
          BY <4>1, <4>2, <4>3
      <3> QED
        BY <3>1, <3>2
    <2>6. ASSUME NEW t \in Threads, Apply(t) PROVE DeviceType'
      <3>1. thr' \in [Threads -> Goroutines] /\ thr[t].v \in BOOLEAN
        BY <2>6, GoroutineType DEF Apply, Goto, Points
      <3>2. dev' \in Devices
        BY <2>6, <3>1 DEF Apply, Devices
      <3> QED
        BY <2>6, <3>1, <3>2 DEF Apply, LED
    <2>7. ASSUME NEW t \in Threads, Number(t) PROVE DeviceType'
      <3>1. dev' \in Devices /\ dev.seq + 1 \in Nat
        BY <2>7 DEF Number, Devices
      <3>2. thr' \in [Threads -> Goroutines]
        BY <2>7, <3>1, GoroutineType DEF Number, Points
      <3> QED
        BY <2>7, <3>1, <3>2 DEF Number
    <2> QED
      BY <2>1, <2>2, <2>3, <2>4, <2>5, <2>6, <2>7
  <1>2. UNCHANGED <<link, left, ses, server, rt>> /\ ghost'.mixed = ghost.mixed
        /\ ghost' \in [overlap : BOOLEAN, stale : BOOLEAN, mixed : SUBSET Sessions]
    BY DEF Toggle, Reconcile, DecidePrivacy, Entered, Set, Apply, Number, LinkType
  <1>3. ServerType'
    BY <1>2, Frames
  <1>4. LinkType'
    BY <1>2 DEF LinkType
  <1> QED
    BY <1>1, <1>3, <1>4

\* One session changes.
LEMMA OneSession ==
    ASSUME NEW f, TableType(f), NEW s \in Sessions, NEW x, SessionType(x, s)
    PROVE  TableType([f EXCEPT ![s] = x])
  BY DEF TableType, SessionType

\* Any changes of a session's record that keep its type.
LEMMA SessionTypes ==
    ASSUME NEW s \in Sessions, NEW x, SessionType(x, s)
    PROVE  /\ SessionType(Ended(x), s) /\ SessionType(Gone(x), s)
           /\ SessionType([x EXCEPT !.stop = TRUE], s)
           /\ \A at \in {"admit", "wait", "attached", "run"} :
                  SessionType([x EXCEPT !.at = at], s)
           /\ \A scope \in {"live", "dead", "none"} :
                  SessionType([x EXCEPT !.scope = scope], s)
           /\ \A w \in Seq(Reports) :
                 /\ SessionType([x EXCEPT !.wire = w], s)
                 /\ SessionType([x EXCEPT !.shut = TRUE, !.wire = w], s)
           /\ \A u \in Seq(Reports) :
                  Len(u) <= UrgentEvents => SessionType([x EXCEPT !.urgent = u], s)
  <1> USE DEF SessionType
  <1>1. SessionType(Ended(x), s) /\ SessionType(Gone(x), s)
    BY EmptySeq DEF Ended, Gone, Dead, SessionRecords
  <1>2. SessionType([x EXCEPT !.stop = TRUE], s)
    BY DEF SessionRecords
  <1>3. ASSUME NEW at \in {"admit", "wait", "attached", "run"}
        PROVE  SessionType([x EXCEPT !.at = at], s)
    BY DEF SessionRecords
  <1>4. ASSUME NEW scope \in {"live", "dead", "none"}
        PROVE  SessionType([x EXCEPT !.scope = scope], s)
    BY DEF SessionRecords
  <1>5. ASSUME NEW w \in Seq(Reports)
        PROVE  /\ SessionType([x EXCEPT !.wire = w], s)
               /\ SessionType([x EXCEPT !.shut = TRUE, !.wire = w], s)
    BY DEF SessionRecords
  <1>6. ASSUME NEW u \in Seq(Reports), Len(u) <= UrgentEvents
        PROVE  SessionType([x EXCEPT !.urgent = u], s)
    BY <1>6 DEF SessionRecords
  <1> QED
    BY <1>1, <1>2, <1>3, <1>4, <1>5, <1>6

\* A link step that leaves the ids of sessions alone.
LEMMA LinkFrame ==
    ASSUME LinkType, TableType(ses), NEW s \in Sessions, NEW x, s <= link.id,
           ses' = [ses EXCEPT ![s] = x], UNCHANGED <<link, ghost>>,
           left' \in [{"presses", "crashes", "faults", "dials"} -> Nat],
           left'.dials <= left.dials
    PROVE  LinkType'
  <1>1. \A o \in Sessions : o > link.id => ses'[o] = ses[o]
    BY DEF TableType, Sessions, LinkType
  <1>2. link.id \in Nat /\ left.dials \in Nat /\ left'.dials \in Nat /\ MaxSessions \in Nat
    BY SessionAssumption DEF LinkType
  <1> QED
    BY <1>1, <1>2 DEF LinkType

\* A session that is in use has an id the link has given out.
LEMMA UsedIsDialled ==
    ASSUME LinkType, NEW s \in Sessions, ses[s].at # "none"
    PROVE  s <= link.id
  BY DEF LinkType, Sessions

\* Spending of the budget.
LEMMA FaultType ==
    ASSUME LinkType, Fault \/ UNCHANGED left
    PROVE  /\ left' \in [{"presses", "crashes", "faults", "dials"} -> Nat]
           /\ left'.dials <= left.dials
  BY DEF LinkType, Fault

\* A released session leaves the registry typed.
LEMMA ReleaseType ==
    ASSUME claim \in Sessions \cup {NoSession}, active \in SUBSET Sessions,
           NEW s, Release(s)
    PROVE  claim' \in Sessions \cup {NoSession} /\ active' \in SUBSET Sessions
  BY DEF Release

\* A report goes to the session of the link.
LEMMA SetPrivacyType ==
    ASSUME TypeInv, NEW t \in Threads, SetPrivacy(t)
    PROVE  TypeInv'
  <1> USE DEF TypeInv
  <1> DEFINE v == [muted |-> thr[t].v, seq |-> thr[t].seq]
             s == link.id
  <1>1. thr[t].v \in BOOLEAN /\ thr[t].seq \in Nat /\ thr' \in [Threads -> Goroutines]
    BY GoroutineType DEF SetPrivacy, Returned, DeviceType
  <1>2. dev' \in Devices
    BY <1>1 DEF SetPrivacy, DeviceType, Devices
  <1>3. DeviceType'
    BY <1>1, <1>2 DEF SetPrivacy, Returned, DeviceType
  <1>4. v \in Reports
    BY <1>1 DEF Reports
  <1>5. CASE link.phase = "up"
    <2>1. s \in Sessions
      BY <1>5, SessionAssumption DEF LinkType, Sessions, NoSession
    <2> DEFINE w == IF ses[s].at = "run" THEN Append(ses[s].wire, v) ELSE ses[s].wire
               x == [ses[s] EXCEPT !.wire = w]
    <2>2. SessionType(ses[s], s) /\ TableType(ses)
      BY <2>1 DEF ServerType, TableType
    <2>3. w \in Seq(Reports)
      BY <1>4, <2>2, AppendProperties DEF SessionType, SessionRecords
    <2>4. SessionType(x, s)
      BY <2>1, <2>2, <2>3, SessionTypes
    <2>5. ses' = [ses EXCEPT ![s] = x]
      BY <1>5 DEF SetPrivacy, Report
    <2>6. TableType(ses')
      BY <2>1, <2>2, <2>4, <2>5, OneSession
    <2>7. ServerType'
      BY <2>6 DEF SetPrivacy, server, ServerType
    <2> DEFINE mx == IF v.seq < dev.seq THEN ghost.mixed \cup {s} ELSE ghost.mixed
    <2>a. ghost' = [ghost EXCEPT !.stale = FALSE, !.mixed = mx]
      BY <1>5 DEF SetPrivacy, Report
    <2>b. mx \in SUBSET Sessions /\ \A o \in mx : o <= link.id
      BY <2>1 DEF LinkType, Sessions
    <2> HIDE DEF mx
    <2>8. /\ \A o \in ghost'.mixed : o <= link.id
          /\ ghost' \in [overlap : BOOLEAN, stale : BOOLEAN, mixed : SUBSET Sessions]
      BY <2>a, <2>b DEF LinkType
    <2>9. \A o \in Sessions : o > link.id => ses'[o] = ses[o]
      BY <2>1, <2>2, <2>5 DEF TableType, Sessions
    <2>10. LinkType'
      BY <2>8, <2>9 DEF LinkType, SetPrivacy
    <2> QED
      BY <1>3, <2>7, <2>10
  <1>6. CASE link.phase # "up"
    <2>1. UNCHANGED <<ses, link, left, server, rt>> /\ ghost'.mixed = ghost.mixed
          /\ ghost' \in [overlap : BOOLEAN, stale : BOOLEAN, mixed : SUBSET Sessions]
      BY <1>6 DEF SetPrivacy, Report, LinkType
    <2> QED
      BY <1>3, <2>1, Frames DEF LinkType
  <1> QED
    BY <1>5, <1>6

\* A report that finds the control queue full.
LEMMA BackpressureType ==
    ASSUME TypeInv, NEW t \in Threads, Backpressure(t)
    PROVE  TypeInv'
  <1> USE DEF TypeInv
  <1>1. thr[t].v \in BOOLEAN /\ thr' \in [Threads -> Goroutines]
    BY GoroutineType DEF Backpressure, Returned, DeviceType
  <1>2. dev' \in Devices
    BY <1>1 DEF Backpressure, DeviceType, Devices
  <1>3. DeviceType'
    BY <1>1, <1>2 DEF Backpressure, Returned, DeviceType
  <1>4. UNCHANGED <<link, ses, server, rt>> /\ ghost'.mixed = ghost.mixed
        /\ ghost' \in [overlap : BOOLEAN, stale : BOOLEAN, mixed : SUBSET Sessions]
    BY DEF Backpressure, LinkType
  <1>6. left' \in [{"presses", "crashes", "faults", "dials"} -> Nat] /\ left'.dials = left.dials
    BY DEF Backpressure, Fault, LinkType
  <1>5. LinkType'
    BY <1>4, <1>6 DEF LinkType
  <1> QED
    BY <1>3, <1>4, <1>5, Frames

\* The button, and the process of the firmware.
LEMMA OutsideType ==
    ASSUME TypeInv, Press \/ Start
    PROVE  TypeInv'
  <1> USE DEF TypeInv
  <1>1. /\ UNCHANGED <<link, ses, server, rt>>
        /\ left' \in [{"presses", "crashes", "faults", "dials"} -> Nat]
        /\ left'.dials = left.dials
        /\ ghost'.mixed = ghost.mixed
        /\ ghost' \in [overlap : BOOLEAN, stale : BOOLEAN, mixed : SUBSET Sessions]
    <2>1. CASE Press
      BY <2>1 DEF Press, LinkType
    <2>2. CASE Start
      BY <2>2 DEF Start, LinkType
    <2> QED
      BY <2>1, <2>2
  <1>2. LinkType' /\ ServerType'
    BY <1>1, Frames DEF LinkType
  <1>3. CASE Press
    <2>1. driver' \in {"off", "entering", "on"}
      BY <1>3 DEF Press, DeviceType
    <2> QED
      BY <1>2, <1>3, <2>1 DEF Press, DeviceType
  <1>4. CASE Start
    <2>1. dev' \in Devices
      BY <1>4 DEF Start, DeviceType, Devices, Restored
    <2> QED
      BY <1>2, <1>4, <2>1 DEF Start, DeviceType
  <1> QED
    BY <1>3, <1>4

\* The device's end of a session goes, with some of what it sent.
LEMMA ShutType ==
    ASSUME TypeInv, link.phase # "idle", Shut(link.id)
    PROVE  /\ link.id \in Sessions /\ TableType(ses')
           /\ \E n \in 0..Len(ses[link.id].wire) :
                 ses' = [ses EXCEPT ![link.id] = [ses[link.id] EXCEPT
                            !.shut = TRUE, !.wire = SubSeq(ses[link.id].wire, 1, n)]]
           /\ \A o \in Sessions : o > link.id => ses'[o] = ses[o]
  <1> DEFINE s == link.id
  <1>1. s \in Sessions /\ SessionType(ses[s], s) /\ TableType(ses)
    BY SessionAssumption DEF TypeInv, LinkType, Sessions, NoSession, ServerType, TableType
  <1>2. PICK n \in 0..Len(ses[s].wire) :
          ses' = [ses EXCEPT ![s].shut = TRUE, ![s].wire = SubSeq(@, 1, n)]
    BY DEF Shut
  <1> DEFINE w == SubSeq(ses[s].wire, 1, n)
             x == [ses[s] EXCEPT !.shut = TRUE, !.wire = w]
  <1>3. ses' = [ses EXCEPT ![s] = x]
    BY <1>2
  <1>4. w \in Seq(Reports)
    <2>1. ses[s].wire \in Seq(Reports) /\ n \in 0..Len(ses[s].wire)
      BY <1>1 DEF SessionType, SessionRecords
    <2> QED
      BY <2>1, SubSeqProperties, LenProperties
  <1>5. TableType(ses')
    BY <1>1, <1>3, <1>4, OneSession, SessionTypes
  <1>6. \A o \in Sessions : o > s => ses'[o] = ses[o]
    BY <1>1, <1>3 DEF TableType, Sessions
  <1> QED
    BY <1>1, <1>3, <1>5, <1>6

\* The device loses its link.
LEMMA LoseType ==
    ASSUME TypeInv, Closed \/ Lost
    PROVE  TypeInv'
  <1> USE DEF TypeInv
  <1>1. Lose /\ (Fault \/ UNCHANGED left)
    BY DEF Closed, Lost
  <1>2. TableType(ses') /\ \A o \in Sessions : o > link.id => ses'[o] = ses[o]
    BY <1>1, ShutType DEF Lose
  <1>3. DeviceType' /\ ServerType'
    BY <1>1, <1>2, Frames DEF Lose, ServerType, server
  <1>4. left' \in [{"presses", "crashes", "faults", "dials"} -> Nat] /\ left'.dials <= left.dials
    BY <1>1, FaultType
  <1>5. link' \in [phase : {"idle", "hello", "ready", "up"}, id : Nat] /\ link'.id = link.id
        /\ link'.phase = "idle" /\ ghost' = ghost
    BY <1>1 DEF Lose, Down, LinkType
  <1>6. LinkType'
    BY <1>2, <1>4, <1>5, SessionAssumption DEF LinkType
  <1> QED
    BY <1>3, <1>6

\* The device's process dies.
LEMMA CrashType ==
    ASSUME TypeInv, Crash
    PROVE  TypeInv'
  <1> USE DEF TypeInv
  <1>1. TableType(ses') /\ \A o \in Sessions : o > link.id => ses'[o] = ses[o]
    <2>1. CASE link.phase = "idle"
      BY <2>1 DEF Crash, ServerType
    <2>2. CASE link.phase # "idle"
      BY <2>2, ShutType DEF Crash
    <2> QED
      BY <2>1, <2>2
  <1>2. ServerType'
    BY <1>1 DEF Crash, ServerType, server
  <1>3. thr' \in [Threads -> Goroutines]
    BY DEF Crash, Goroutines, Points, Idle, Goroutine
  <1>4. DeviceType'
    BY <1>3 DEF Crash, DeviceType
  <1>5. left' \in [{"presses", "crashes", "faults", "dials"} -> Nat] /\ left'.dials = left.dials
    BY DEF Crash, LinkType
  <1>6. link' \in [phase : {"idle", "hello", "ready", "up"}, id : Nat] /\ link'.id = link.id
        /\ link'.phase = "idle" /\ ghost' = ghost
    BY DEF Crash, Down, LinkType
  <1>7. LinkType'
    BY <1>1, <1>5, <1>6 DEF LinkType
  <1> QED
    BY <1>2, <1>4, <1>7

\* A dial takes the next unused session.
LEMMA DialType ==
    ASSUME TypeInv, Dial
    PROVE  TypeInv'
  <1> USE DEF TypeInv
  <1> DEFINE s == link.id + 1
  <1>1. s \in Sessions /\ TableType(ses)
    BY SessionAssumption DEF Dial, LinkType, Sessions, ServerType
  <1>2. dev.muted \in BOOLEAN
    BY DEF DeviceType, Devices
  <1>3. SessionType(NewSession(dev.muted), s)
    BY <1>2, EmptySeq, UrgentAssumption
       DEF SessionType, SessionRecords, NewSession, SessionAt, NoSession
  <1>4. ses' = [ses EXCEPT ![s] = NewSession(dev.muted)]
    BY DEF Dial
  <1>5. TableType(ses') /\ \A o \in Sessions : o > s => ses'[o] = ses[o]
    <2> HIDE DEF s
    <2>1. TableType([ses EXCEPT ![s] = NewSession(dev.muted)])
      BY <1>1, <1>3, OneSession
    <2>2. \A o \in Sessions : o > s => ses'[o] = ses[o]
      BY <1>1, <1>4 DEF TableType, Sessions
    <2> QED
      BY <1>4, <2>1, <2>2
  <1>6. DeviceType' /\ ServerType'
    BY <1>5, Frames DEF Dial, ServerType, server
  <1>7. left' \in [{"presses", "crashes", "faults", "dials"} -> Nat] /\ left'.dials + 1 = left.dials
    BY DEF Dial, LinkType
  <1>8. link' = [phase |-> "hello", id |-> s] /\ s \in Nat \ {0}
    BY DEF Dial, LinkType
  <1>9. ghost'.mixed = ghost.mixed
        /\ ghost' \in [overlap : BOOLEAN, stale : BOOLEAN, mixed : SUBSET Sessions]
    BY DEF Dial, LinkType
  <1>10. \A o \in ghost'.mixed : o \in Nat /\ o <= s
    BY <1>9 DEF LinkType, Sessions
  <1>11. \A o \in Sessions : o > s => ses'[o].at = "none"
    BY <1>5 DEF LinkType, Sessions
  <1>12. link'.id + left'.dials <= MaxSessions
    BY <1>7, <1>8, SessionAssumption DEF LinkType
  <1>13. LinkType'
    BY <1>7, <1>8, <1>9, <1>10, <1>11, <1>12 DEF LinkType, NoSession
  <1> QED
    BY <1>6, <1>13

\* The device's link goes from phase to phase.
LEMMA JoinType ==
    ASSUME TypeInv, Join \/ Ready
    PROVE  TypeInv'
  <1> USE DEF TypeInv
  <1>1. UNCHANGED <<device, up, ses, server, rt, ghost, left>> /\ link'.id = link.id
        /\ link' \in [phase : {"idle", "hello", "ready", "up"}, id : Nat] /\ link.phase # "idle"
    BY DEF Join, Ready, LinkType
  <1>2. LinkType'
    BY <1>1 DEF LinkType
  <1> QED
    BY <1>1, <1>2, Frames

\* A step of the server or the runtime that rewrites one session in use.
LEMMA OneSessionType ==
    ASSUME TypeInv, NEW s \in Sessions, ses[s].at # "none", NEW x, SessionType(x, s),
           ses' = [ses EXCEPT ![s] = x],
           UNCHANGED <<device, up, link, ghost>>, Fault \/ UNCHANGED left,
           claim' \in Sessions \cup {NoSession}, active' \in SUBSET Sessions,
           cmds' \in Seq(Sessions),
           rt' \in [cur : Sessions \cup {NoSession}, muted : BOOLEAN, last : Nat,
                    publishing : Sessions \cup {NoSession}],
           rt'.publishing \in {NoSession, rt'.cur}
    PROVE  TypeInv'
  <1>1. TableType(ses)
    BY DEF TypeInv, ServerType
  <1>2. TableType(ses')
    <2>1. TableType([ses EXCEPT ![s] = x])
      BY <1>1, OneSession
    <2> QED
      BY <2>1
  <1>3. s <= link.id
    BY UsedIsDialled DEF TypeInv
  <1>4. LinkType'
    BY <1>1, <1>3, LinkFrame, FaultType DEF TypeInv
  <1>5. ServerType'
    BY <1>2 DEF ServerType
  <1> QED
    BY <1>4, <1>5, Frames DEF TypeInv

\* One that rewrites several.
LEMMA TwoSessionsType ==
    ASSUME TypeInv, TableType(ses'),
           \A o \in Sessions : ses[o].at = "none" => ses'[o].at = "none",
           UNCHANGED <<device, up, link, ghost, left>>,
           claim' \in Sessions \cup {NoSession}, active' \in SUBSET Sessions,
           cmds' \in Seq(Sessions),
           rt' \in [cur : Sessions \cup {NoSession}, muted : BOOLEAN, last : Nat,
                    publishing : Sessions \cup {NoSession}],
           rt'.publishing \in {NoSession, rt'.cur}
    PROVE  TypeInv'
  <1>1. LinkType'
    BY DEF TypeInv, LinkType
  <1>2. ServerType'
    BY DEF ServerType
  <1> QED
    BY <1>1, <1>2, Frames DEF TypeInv

\* The table's entries.
LEMMA Entry ==
    ASSUME TypeInv, NEW s \in Sessions
    PROVE  SessionType(ses[s], s) /\ TableType(ses)
  BY DEF TypeInv, ServerType, TableType

\* The steps of a session's tasks that write one field of it or end it.
LEMMA ServerStepType ==
    ASSUME TypeInv, NEW s \in Sessions,
           \/ Admit(s) \/ Stopped(s) \/ Late(s) \/ Activate(s)
           \/ SocketClosed(s) \/ Silence(s) \/ Over(s)
    PROVE  TypeInv'
  <1> DEFINE x == ses[s]
  <1>1. SessionType(x, s)
    BY Entry
  <1>2. /\ claim \in Sessions \cup {NoSession} /\ active \in SUBSET Sessions
        /\ cmds \in Seq(Sessions)
        /\ rt \in [cur : Sessions \cup {NoSession}, muted : BOOLEAN, last : Nat,
                   publishing : Sessions \cup {NoSession}]
        /\ rt.publishing \in {NoSession, rt.cur}
    BY DEF TypeInv, ServerType
  <1>3. CASE Admit(s)
    <2>1. Append(cmds, s) \in Seq(Sessions)
      BY <1>2, AppendProperties
    <2>2. SessionType([x EXCEPT !.at = "wait"], s)
      BY <1>1, SessionTypes
    <2> QED
      BY <1>2, <1>3, <2>1, <2>2, OneSessionType DEF Admit
  <1>4. CASE Stopped(s) \/ Late(s)
    <2>1. Decline(s) /\ (Fault \/ UNCHANGED left)
      BY <1>4 DEF Stopped, Late
    <2>2. SessionType(Gone(x), s)
      BY <1>1, SessionTypes
    <2>3. claim' \in Sessions \cup {NoSession} /\ active' \in SUBSET Sessions
      BY <1>2, <2>1, ReleaseType DEF Decline
    <2> QED
      BY <1>2, <2>1, <2>2, <2>3, OneSessionType DEF Decline
  <1>5. CASE Activate(s)
    <2>1. CASE claim = s /\ ~ses[s].stop
      <3>1. SessionType([x EXCEPT !.at = "run"], s)
        BY <1>1, SessionTypes
      <3> QED
        BY <1>2, <1>5, <2>1, <3>1, OneSessionType DEF Activate
    <2>2. CASE ~(claim = s /\ ~ses[s].stop)
      <3>1. SessionType(Gone(x), s)
        BY <1>1, SessionTypes
      <3>2. Release(s) /\ ses' = [ses EXCEPT ![s] = Gone(@)]
        BY <1>5, <2>2 DEF Activate
      <3>3. claim' \in Sessions \cup {NoSession} /\ active' \in SUBSET Sessions
        BY <1>2, <3>2, ReleaseType
      <3> QED
        BY <1>2, <1>5, <3>1, <3>2, <3>3, OneSessionType DEF Activate
    <2> QED
      BY <2>1, <2>2
  <1>6. CASE SocketClosed(s) \/ Silence(s)
    <2>1. Stop(s) /\ (Fault \/ UNCHANGED left)
      BY <1>6 DEF SocketClosed, Silence
    <2>2. SessionType([x EXCEPT !.stop = TRUE], s)
      BY <1>1, SessionTypes
    <2> QED
      BY <1>2, <2>1, <2>2, OneSessionType DEF Stop, server
  <1>7. CASE Over(s)
    <2>1. SessionType(Gone(x), s)
      BY <1>1, SessionTypes
    <2>2. claim' \in Sessions \cup {NoSession} /\ active' \in SUBSET Sessions
      BY <1>2, <1>7, ReleaseType DEF Over
    <2> QED
      BY <1>2, <1>7, <2>1, <2>2, OneSessionType DEF Over
  <1> QED
    BY <1>3, <1>4, <1>5, <1>6, <1>7

\* The fields a report changes.
LEMMA Rewritten ==
    ASSUME NEW x \in SessionRecords, NEW w \in Seq(Reports), NEW u \in Seq(Reports),
           NEW read \in BOOLEAN, NEW stop \in BOOLEAN, NEW scope \in {"none", "live", "dead"}
    PROVE  [x EXCEPT !.wire = w, !.read = read, !.scope = scope, !.stop = stop, !.urgent = u]
              \in SessionRecords
  BY DEF SessionRecords

\* The urgent path takes a report if it has room.
LEMMA OnPrivacyType ==
    ASSUME TypeInv, NEW s \in Sessions, OnPrivacy(s)
    PROVE  TypeInv'
  <1> DEFINE x == ses[s]
             v == Head(x.wire)
             u == IF Len(x.urgent) < UrgentEvents THEN Append(x.urgent, v) ELSE x.urgent
             sc == IF v.muted THEN Dead(x.scope) ELSE x.scope
             st == Len(x.urgent) >= UrgentEvents
             y == [x EXCEPT !.wire = Tail(@), !.read = v.muted,
                            !.scope = sc, !.stop = st, !.urgent = u]
  <1>1. SessionType(x, s)
    BY Entry
  <1>2. x.wire \in Seq(Reports) /\ x.wire # <<>> /\ x.urgent \in Seq(Reports)
        /\ Len(x.urgent) <= UrgentEvents /\ x.scope \in {"none", "live", "dead"} /\ x.at = "run"
    BY <1>1 DEF SessionType, SessionRecords, OnPrivacy
  <1>3. v \in Reports /\ Tail(x.wire) \in Seq(Reports)
    BY <1>2, HeadTailProperties
  <1>4. u \in Seq(Reports) /\ Len(u) <= UrgentEvents
    BY <1>2, <1>3, AppendProperties, LenProperties, UrgentAssumption
  <1>5. v.muted \in BOOLEAN
    BY <1>3, SMTT(30) DEF Reports
  <1>6. sc \in {"none", "live", "dead"} /\ st \in BOOLEAN
    BY <1>2 DEF Dead
  <1>7. SessionType(y, s)
    <2> HIDE DEF v, u, sc, st
    <2>1. y \in SessionRecords
      <3>1. x \in SessionRecords
        BY <1>1 DEF SessionType
      <3> QED
        BY <1>3, <1>4, <1>5, <1>6, <3>1, Rewritten, ZenonT(40)
    <2>2. y.at = "run" /\ y.urgent = u
      BY <1>1, <1>2 DEF SessionType, SessionRecords
    <2> QED
      BY <1>4, <2>1, <2>2, SMTT(30) DEF SessionType
  <1>8. ses' = [ses EXCEPT ![s] = y]
    BY DEF OnPrivacy
  <1> HIDE DEF x, y
  <1> QED
    BY <1>7, <1>8, <1>2, OneSessionType DEF OnPrivacy, server, TypeInv, ServerType, x

\* The handshake stops the session it replaces, and ends it.
LEMMA ClaimType ==
    ASSUME TypeInv, NEW s \in Sessions, Claim(s) \/ Replace(s)
    PROVE  TypeInv'
  <1>1. /\ claim \in Sessions \cup {NoSession} /\ active \in SUBSET Sessions
        /\ cmds \in Seq(Sessions)
        /\ rt \in [cur : Sessions \cup {NoSession}, muted : BOOLEAN, last : Nat,
                   publishing : Sessions \cup {NoSession}]
        /\ rt.publishing \in {NoSession, rt.cur}
    BY DEF TypeInv, ServerType
  <1>2. SessionType(ses[s], s) /\ TableType(ses) /\ ses[s].at \in {"hello", "replace"}
    BY Entry DEF Claim, Replace
  <1>3. CASE Claim(s) /\ claim = NoSession
    <2>1. SessionType([ses[s] EXCEPT !.at = "admit"], s)
      BY <1>2, SessionTypes
    <2> QED
      BY <1>1, <1>2, <1>3, <2>1, OneSessionType DEF Claim
  <1>4. CASE Claim(s) /\ claim # NoSession
    <2> DEFINE c == claim
               x == [ses[s] EXCEPT !.at = "replace", !.old = c]
               f == [ses EXCEPT ![s] = x]
    <2>1. c \in Sessions /\ c \in Nat
      BY <1>1, <1>4 DEF Sessions
    <2>2. SessionType(x, s)
      BY <1>2, <2>1 DEF SessionType, SessionRecords
    <2>3. TableType(f)
      BY <1>2, <2>2, OneSession
    <2>4. ses' = [f EXCEPT ![c] = [f[c] EXCEPT !.stop = TRUE]]
      BY <1>4 DEF Claim
    <2>5. SessionType([f[c] EXCEPT !.stop = TRUE], c)
      BY <2>1, <2>3, SessionTypes DEF TableType
    <2> HIDE DEF f
    <2>6. TableType(ses')
      BY <2>1, <2>3, <2>4, <2>5, OneSession
    <2>7. \A o \in Sessions : ses[o].at = "none" => ses'[o].at = "none"
      BY <1>2, <1>4, <2>1 DEF Claim, TableType, SessionRecords
    <2> QED
      BY <1>1, <1>4, <2>6, <2>7, TwoSessionsType DEF Claim
  <1>5. CASE Replace(s)
    <2> DEFINE c == ses[s].old
               x == [ses[s] EXCEPT !.at = "admit", !.old = NoSession]
               f == [ses EXCEPT ![s] = x]
    <2>1. c \in Sessions
      BY <1>2, <1>5 DEF SessionType, Replace
    <2>2. SessionType(x, s)
      BY <1>2, <2>1 DEF SessionType, SessionRecords, NoSession
    <2>3. TableType(f)
      BY <1>2, <2>2, OneSession
    <2>4. ses' = [f EXCEPT ![c] = Ended(ses[c])]
      BY <1>5 DEF Replace
    <2>5. SessionType(Ended(ses[c]), c)
      BY <1>2, <2>1, SessionTypes DEF TableType
    <2>7. \A o \in Sessions : ses[o].at = "none" => ses'[o].at = "none"
      BY <1>2, <1>5, <2>1 DEF Replace, Ended, TableType, SessionRecords
    <2> HIDE DEF f, c
    <2>6. TableType(ses')
      BY <2>1, <2>3, <2>4, <2>5, OneSession
    <2> QED
      BY <1>1, <1>5, <2>6, <2>7, TwoSessionsType DEF Replace, server
  <1> QED
    BY <1>3, <1>4, <1>5

\* The session the runtime takes up or leaves.
LEMMA RetiredType ==
    ASSUME NEW f, TableType(f), NEW s \in Sessions \cup {NoSession}
    PROVE  /\ TableType(Retired(f, s))
           /\ \A o \in Sessions : Retired(f, s)[o].at = f[o].at
  <1>1. CASE s = NoSession
    BY <1>1 DEF Retired
  <1>2. CASE s # NoSession
    <2>1. s \in Sessions /\ SessionType(f[s], s)
      BY <1>2 DEF TableType
    <2>2. SessionType(Ended(f[s]), s)
      BY <2>1, SessionTypes
    <2>3. Retired(f, s) = [f EXCEPT ![s] = Ended(f[s])]
      BY <1>2 DEF Retired
    <2>4. TableType(Retired(f, s))
      <3>1. TableType([f EXCEPT ![s] = Ended(f[s])])
        BY <2>1, <2>2, OneSession
      <3> QED
        BY <2>3, <3>1
    <2>5. Ended(f[s]).at = f[s].at
      BY <2>1 DEF Ended, SessionType, SessionRecords
    <2>6. ASSUME NEW o \in Sessions PROVE Retired(f, s)[o].at = f[o].at
      <3> HIDE DEF Retired, Ended
      <3>1. CASE o = s
        BY <2>1, <2>3, <2>5, <3>1 DEF TableType
      <3>2. CASE o # s
        BY <2>1, <2>3, <3>2 DEF TableType
      <3> QED
        BY <3>1, <3>2
    <2> QED
      BY <2>4, <2>6
  <1> QED
    BY <1>1, <1>2

\* The runtime's steps.
LEMMA RuntimeType ==
    ASSUME TypeInv, IdInv, Install \/ Discard \/ Refuse \/ Published \/ Urgent \/ EndSession
    PROVE  TypeInv'
  <1>1. /\ claim \in Sessions \cup {NoSession} /\ active \in SUBSET Sessions
        /\ cmds \in Seq(Sessions) /\ TableType(ses)
        /\ rt \in [cur : Sessions \cup {NoSession}, muted : BOOLEAN, last : Nat,
                   publishing : Sessions \cup {NoSession}]
        /\ rt.publishing \in {NoSession, rt.cur}
    BY DEF TypeInv, ServerType
  <1>2. ASSUME cmds # <<>>
        PROVE  Head(cmds) \in Sessions /\ Tail(cmds) \in Seq(Sessions) /\ Head(cmds) <= link.id
    <2>1. Head(cmds) \in Sessions /\ Tail(cmds) \in Seq(Sessions) /\ Head(cmds) = cmds[1]
          /\ Len(cmds) \in Nat /\ Len(cmds) # 0
      BY <1>1, <1>2, HeadTailProperties, LenProperties
    <2> QED
      BY <2>1 DEF IdInv
  <1>3. CASE Install
    <2> DEFINE s == Head(cmds)
               g == Retired(ses, rt.cur)
               sc == IF ses[s].hello THEN "dead" ELSE "live"
    <2>1. s \in Sessions /\ Tail(cmds) \in Seq(Sessions) /\ ses[s].hello \in BOOLEAN
      BY <1>1, <1>2, <1>3 DEF Install, TableType, SessionRecords
    <2>2. TableType(g) /\ \A o \in Sessions : g[o].at = ses[o].at
      BY <1>1, RetiredType
    <2>3. ses' = [g EXCEPT ![s] = [g[s] EXCEPT !.scope = sc]]
      BY <1>3 DEF Install
    <2>4. SessionType([g[s] EXCEPT !.scope = sc], s) /\ [g[s] EXCEPT !.scope = sc].at = g[s].at
      <3>1. SessionType(g[s], s) /\ sc \in {"live", "dead", "none"}
        BY <2>1, <2>2 DEF TableType
      <3> HIDE DEF sc, g, s
      <3>2. SessionType([g[s] EXCEPT !.scope = sc], s)
        BY <2>1, <3>1, SessionTypes
      <3> QED
        BY <3>1, <3>2 DEF SessionType, SessionRecords
    <2>5. rt' \in [cur : Sessions \cup {NoSession}, muted : BOOLEAN, last : Nat,
                   publishing : Sessions \cup {NoSession}] /\ rt'.publishing = rt'.cur
      BY <1>3, <2>1 DEF Install
    <2>6. UNCHANGED <<device, up, link, claim, active, ghost, left>> /\ cmds' = Tail(cmds)
      BY <1>3 DEF Install
    <2> HIDE DEF s, g, sc
    <2>7. TableType(ses')
      BY <2>1, <2>2, <2>3, <2>4, OneSession
    <2>8. \A o \in Sessions : ses'[o].at = ses[o].at
      BY <2>1, <2>2, <2>3, <2>4 DEF TableType
    <2> QED
      BY <1>1, <2>1, <2>5, <2>6, <2>7, <2>8, TwoSessionsType
  <1>4. CASE Refuse
    <2> DEFINE s == Head(cmds)
    <2>1. s \in Sessions /\ Tail(cmds) \in Seq(Sessions) /\ s <= link.id
      BY <1>2, <1>4 DEF Refuse
    <2>2. SessionType(Gone(ses[s]), s)
      BY <1>1, <2>1, SessionTypes DEF TableType
    <2>3. claim' \in Sessions \cup {NoSession} /\ active' \in SUBSET Sessions
      BY <1>1, <1>4, ReleaseType DEF Refuse
    <2>4. UNCHANGED <<device, up, link, rt, ghost>> /\ cmds' = Tail(cmds) /\ Fault
          /\ ses' = [ses EXCEPT ![s] = Gone(ses[s])]
      BY <1>4 DEF Refuse
    <2> HIDE DEF s
    <2>5. TableType([ses EXCEPT ![s] = Gone(ses[s])])
      BY <1>1, <2>1, <2>2, OneSession
    <2>6. LinkType'
      BY <1>1, <2>1, <2>4, LinkFrame, FaultType DEF TypeInv
    <2>7. ServerType'
      BY <1>1, <2>1, <2>3, <2>4, <2>5 DEF ServerType
    <2> QED
      BY <2>4, <2>6, <2>7, Frames DEF TypeInv
  <1>5. CASE Published
    <2> DEFINE s == rt.publishing
               sc == IF ses[s].stop THEN Dead(ses[s].scope) ELSE ses[s].scope
               at == IF ses[s].at = "wait" THEN "attached" ELSE ses[s].at
               x == [ses[s] EXCEPT !.scope = sc, !.at = at]
    <2>1. s \in Sessions /\ SessionType(ses[s], s)
      BY <1>1, <1>5 DEF Published, TableType
    <2>2. ses' = [ses EXCEPT ![s] = x]
      BY <1>5 DEF Published
    <2>3. SessionType(x, s) /\ x.at = at
      BY <2>1 DEF SessionType, SessionRecords, Dead
    <2>4. \A o \in Sessions : ses[o].at = "none" => ses'[o].at = "none"
      BY <1>1, <2>1, <2>2, <2>3 DEF TableType
    <2>5. rt' \in [cur : Sessions \cup {NoSession}, muted : BOOLEAN, last : Nat,
                   publishing : Sessions \cup {NoSession}] /\ rt'.publishing = NoSession
      BY <1>1, <1>5 DEF Published
    <2>6. UNCHANGED <<device, up, link, server, ghost, left>>
      BY <1>5 DEF Published
    <2> HIDE DEF s, x
    <2>7. TableType(ses')
      BY <1>1, <2>1, <2>2, <2>3, OneSession
    <2> QED
      BY <1>1, <2>4, <2>5, <2>6, <2>7, TwoSessionsType DEF server
  <1>6. CASE EndSession
    <2>1. /\ TableType(ses') /\ rt' = NoCurrent /\ UNCHANGED <<device, up, link, server, ghost, left>>
          /\ \A o \in Sessions : ses'[o].at = ses[o].at
      BY <1>1, <1>6, RetiredType DEF EndSession
    <2>2. rt' \in [cur : Sessions \cup {NoSession}, muted : BOOLEAN, last : Nat,
                   publishing : Sessions \cup {NoSession}] /\ rt'.publishing = NoSession
      BY <2>1 DEF NoCurrent
    <2> QED
      BY <1>1, <2>1, <2>2, TwoSessionsType DEF server
  <1>7. CASE Urgent
    <2> DEFINE s == rt.cur
               u == ses[s].urgent
               v == Head(u)
               g == ~v.muted /\ (rt.muted \/ ses[s].scope = "dead")
               sc == IF v.muted THEN Dead(ses[s].scope) ELSE IF g THEN "live" ELSE ses[s].scope
               x == [ses[s] EXCEPT !.urgent = Tail(u), !.scope = sc]
               y == [ses[s] EXCEPT !.urgent = Tail(u)]
    <2>1. s \in Sessions /\ SessionType(ses[s], s) /\ UNCHANGED <<device, up, link, server, ghost, left>>
      BY <1>1, <1>7 DEF Urgent, TableType
    <2>2. u \in Seq(Reports) /\ u # <<>> /\ Len(u) <= UrgentEvents
      BY <1>7, <2>1 DEF Urgent, SessionType, SessionRecords
    <2>3. v \in Reports /\ Tail(u) \in Seq(Reports) /\ Len(Tail(u)) <= UrgentEvents
      BY <2>2, HeadTailProperties, LenProperties, UrgentAssumption
    <2>4. v.muted \in BOOLEAN /\ v.seq \in Nat
      BY <2>3 DEF Reports
    <2>5. sc \in {"none", "live", "dead"}
      BY <2>1 DEF SessionType, SessionRecords, Dead
    <2>6. \/ /\ ses' = [ses EXCEPT ![s] = x]
             /\ rt' = [rt EXCEPT !.muted = v.muted, !.last = v.seq,
                                 !.publishing = IF g THEN s ELSE NoSession]
          \/ ses' = [ses EXCEPT ![s] = y] /\ rt' = rt
      BY <1>7 DEF Urgent, ApplyPrivacy
    <2>7. rt' \in [cur : Sessions \cup {NoSession}, muted : BOOLEAN, last : Nat,
                   publishing : Sessions \cup {NoSession}] /\ rt'.publishing \in {NoSession, rt'.cur}
      BY <1>1, <2>1, <2>4, <2>6
    <2> HIDE DEF u, v, sc
    <2>8. SessionType(x, s) /\ SessionType(y, s) /\ x.at = ses[s].at /\ y.at = ses[s].at
      BY <2>1, <2>3, <2>5 DEF SessionType, SessionRecords
    <2> HIDE DEF s, x, y
    <2>9. TableType([ses EXCEPT ![s] = x]) /\ TableType([ses EXCEPT ![s] = y])
      BY <1>1, <2>1, <2>8, OneSession
    <2>10. TableType(ses')
      BY <2>6, <2>9
    <2>11. \A o \in Sessions : ses'[o].at = ses[o].at
      BY <1>1, <2>1, <2>6, <2>8 DEF TableType
    <2> QED
      BY <1>1, <2>1, <2>7, <2>10, <2>11, TwoSessionsType DEF server
  <1>8. CASE Discard
    <2>1. cmds' \in Seq(Sessions) /\ UNCHANGED <<device, up, link, ses, claim, active, rt, ghost, left>>
      BY <1>2, <1>8 DEF Discard
    <2> QED
      BY <2>1, Frames DEF TypeInv, ServerType
  <1> QED
    BY <1>3, <1>4, <1>5, <1>6, <1>7, <1>8

\* Every step keeps the types.
LEMMA StepType ==
    ASSUME TypeInv, IdInv, [Next]_vars
    PROVE  TypeInv'
  <1>1. CASE UNCHANGED vars
    BY <1>1, Frames DEF TypeInv, vars
  <1>2. CASE Mute
    BY <1>2, DeviceStepType, SetPrivacyType DEF Mute
  <1>3. CASE Link
    BY <1>3, OutsideType, DialType, JoinType, LoseType DEF Link
  <1>4. CASE Server
    BY <1>4, ClaimType, ServerStepType, OnPrivacyType DEF Server
  <1>5. CASE Runtime
    BY <1>5, RuntimeType DEF Runtime
  <1>6. CASE Faults
    BY <1>6, OutsideType, CrashType, LoseType, RuntimeType, ServerStepType, BackpressureType DEF Faults
  <1> QED
    BY <1>1, <1>2, <1>3, <1>4, <1>5, <1>6 DEF Next

----------------------------------------------------------------------------
(* What each step does to the sessions, field by field                     *)

\* The reports a session holds, and what it read of them.
KeepsReports(o) ==
    /\ ses'[o].wire = ses[o].wire /\ ses'[o].urgent = ses[o].urgent
    /\ ses'[o].read = ses[o].read /\ ses'[o].hello = ses[o].hello
KeepsAt(o) == ses'[o].at = ses[o].at
KeepsLife(o) == ses'[o].stop = ses[o].stop /\ ses'[o].scope = ses[o].scope

\* What each action does to each session, field by field: a report on a session that is up.
LEMMA ReportEffect ==
    ASSUME TypeInv, NEW v, Report(v), link.phase = "up"
    PROVE  /\ link.id \in Sessions
           /\ \A o \in Sessions : KeepsAt(o) /\ KeepsLife(o)
           /\ \A o \in Sessions \ {link.id} : KeepsReports(o)
           /\ ses'[link.id].urgent = ses[link.id].urgent
           /\ ses'[link.id].read = ses[link.id].read /\ ses'[link.id].hello = ses[link.id].hello
           /\ ses'[link.id].wire = IF ses[link.id].at = "run"
                                   THEN Append(ses[link.id].wire, v) ELSE ses[link.id].wire
  <1>1. link.id \in Sessions /\ ses \in [Sessions -> SessionRecords]
    BY SessionAssumption DEF TypeInv, LinkType, Sessions, NoSession, ServerType, TableType
  <1> DEFINE w == IF ses[link.id].at = "run" THEN Append(ses[link.id].wire, v) ELSE ses[link.id].wire
  <1>2. ses' = [ses EXCEPT ![link.id].wire = w]
    BY DEF Report
  <1> HIDE DEF w
  <1>3. ses'[link.id].wire = w
    BY <1>1, <1>2 DEF SessionRecords
  <1> QED
    BY <1>1, <1>2, <1>3 DEF SessionRecords, KeepsAt, KeepsLife, KeepsReports, w

\* The device's end of a session goes.
LEMMA ShutEffect ==
    ASSUME TypeInv, link.phase # "idle", Shut(link.id)
    PROVE  /\ link.id \in Sessions
           /\ \A o \in Sessions : KeepsAt(o) /\ KeepsLife(o)
           /\ \A o \in Sessions \ {link.id} : KeepsReports(o)
           /\ ses'[link.id].urgent = ses[link.id].urgent
           /\ ses'[link.id].read = ses[link.id].read /\ ses'[link.id].hello = ses[link.id].hello
           /\ \E n \in 0..Len(ses[link.id].wire) :
                 ses'[link.id].wire = SubSeq(ses[link.id].wire, 1, n)
  <1>1. link.id \in Sessions /\ ses \in [Sessions -> SessionRecords]
    BY SessionAssumption DEF TypeInv, LinkType, Sessions, NoSession, ServerType, TableType
  <1>2. PICK n \in 0..Len(ses[link.id].wire) :
          ses' = [ses EXCEPT ![link.id] = [ses[link.id] EXCEPT
                            !.shut = TRUE, !.wire = SubSeq(ses[link.id].wire, 1, n)]]
    BY ShutType
  <1>3. ses'[link.id].wire = SubSeq(ses[link.id].wire, 1, n)
    BY <1>1, <1>2 DEF SessionRecords
  <1> QED
    BY <1>1, <1>2, <1>3 DEF SessionRecords, KeepsAt, KeepsLife, KeepsReports

\* A dial.
LEMMA DialEffect ==
    ASSUME TypeInv, Dial
    PROVE  /\ link'.id = link.id + 1 /\ link'.id \in Sessions
           /\ ses'[link'.id] = NewSession(dev.muted)
           /\ \A o \in Sessions \ {link'.id} : ses'[o] = ses[o]
  <1>1. link'.id = link.id + 1 /\ link'.id \in Sessions /\ ses \in [Sessions -> SessionRecords]
    BY SessionAssumption DEF Dial, TypeInv, LinkType, Sessions, ServerType, TableType
  <1> QED
    BY <1>1 DEF Dial

\* A hello that claims its device.
LEMMA ClaimEffect ==
    ASSUME TypeInv, NEW s \in Sessions, Claim(s)
    PROVE  /\ \A o \in Sessions : KeepsReports(o) /\ ses'[o].scope = ses[o].scope
                                  /\ ses'[o].stop = (ses[o].stop \/ o = claim)
           /\ \A o \in Sessions \ {s} : KeepsAt(o)
           /\ ses[s].at = "hello" /\ ses'[s].at \in {"admit", "replace"}
  <1>1. ses \in [Sessions -> SessionRecords] /\ claim \in Sessions \cup {NoSession}
    BY DEF TypeInv, ServerType, TableType
  <1>2. CASE claim = NoSession
    BY <1>1, <1>2 DEF Claim, SessionRecords, KeepsAt, KeepsReports, Sessions, NoSession
  <1>3. CASE claim # NoSession
    <2> DEFINE c == claim
               f == [ses EXCEPT ![s] = [ses[s] EXCEPT !.at = "replace", !.old = c]]
    <2>1. c \in Sessions /\ ses[s].at = "hello" /\ c \in Nat
      BY <1>1, <1>3 DEF Claim, Sessions
    <2>2. ses' = [f EXCEPT ![c] = [f[c] EXCEPT !.stop = TRUE]]
      BY <1>3 DEF Claim
    <2>3. /\ f \in [Sessions -> SessionRecords]
          /\ \A o \in Sessions \ {s} : f[o] = ses[o]
          /\ f[s] = [ses[s] EXCEPT !.at = "replace", !.old = c]
      BY <1>1, <2>1, ZenonT(40) DEF SessionRecords
    <2> HIDE DEF f, c
    <2>4. /\ \A o \in Sessions \ {c} : ses'[o] = f[o]
          /\ ses'[c] = [f[c] EXCEPT !.stop = TRUE]
      BY <2>1, <2>2, <2>3
    <2>5. /\ f[s].at = "replace" /\ f[s].stop = ses[s].stop /\ f[s].scope = ses[s].scope
          /\ f[s].wire = ses[s].wire /\ f[s].urgent = ses[s].urgent
          /\ f[s].read = ses[s].read /\ f[s].hello = ses[s].hello
      BY <1>1, <2>3 DEF SessionRecords
    <2>6. /\ ses'[c].at = f[c].at /\ ses'[c].stop = TRUE /\ ses'[c].scope = f[c].scope
          /\ ses'[c].wire = f[c].wire /\ ses'[c].urgent = f[c].urgent
          /\ ses'[c].read = f[c].read /\ ses'[c].hello = f[c].hello
      BY <2>1, <2>3, <2>4 DEF SessionRecords
    <2>7. \A o \in Sessions : /\ KeepsReports(o) /\ ses'[o].scope = ses[o].scope
                              /\ o # s => KeepsAt(o)
                              /\ o # c => ses'[o].stop = ses[o].stop
      <3> SUFFICES ASSUME NEW o \in Sessions
                   PROVE  /\ KeepsReports(o) /\ ses'[o].scope = ses[o].scope
                          /\ o # s => KeepsAt(o)
                          /\ o # c => ses'[o].stop = ses[o].stop
        OBVIOUS
      <3> USE DEF KeepsAt, KeepsReports
      <3>1. CASE o = c /\ c = s
        BY <2>5, <2>6, <3>1
      <3>2. CASE o = c /\ c # s
        BY <2>1, <2>3, <2>6, <3>2
      <3>3. CASE o # c /\ o = s
        BY <2>4, <2>5, <3>3
      <3>4. CASE o # c /\ o # s
        BY <2>3, <2>4, <3>4
      <3> QED
        BY <3>1, <3>2, <3>3, <3>4
    <2>8. ses'[s].at = "replace"
      BY <2>3, <2>4, <2>5, <2>6
    <2>9. \A o \in Sessions : ses'[o].stop = (ses[o].stop \/ o = c)
      <3> SUFFICES ASSUME NEW o \in Sessions PROVE ses'[o].stop = (ses[o].stop \/ o = c)
        OBVIOUS
      <3>1. ses[o].stop \in BOOLEAN
        BY <1>1 DEF SessionRecords
      <3>2. CASE o = c
        BY <2>6, <3>2
      <3>3. CASE o # c
        BY <2>7, <3>1, <3>3
      <3> QED
        BY <3>2, <3>3
    <2> QED
      BY <2>1, <2>7, <2>8, <2>9 DEF c
  <1> QED
    BY <1>2, <1>3

\* The end of the session a claim replaced.
LEMMA ReplaceEffect ==
    ASSUME TypeInv, NEW s \in Sessions, Replace(s)
    PROVE  /\ \A o \in Sessions : KeepsReports(o)
           /\ \A o \in Sessions \ {ses[s].old} : KeepsLife(o)
           /\ \A o \in Sessions \ {s} : KeepsAt(o)
           /\ ses[s].old \in Sessions
           /\ ses'[ses[s].old].stop /\ ses'[ses[s].old].scope = Dead(ses[ses[s].old].scope)
           /\ ses[s].at = "replace" /\ ses'[s].at \in {"admit", "replace"}
  <1>1. ses \in [Sessions -> SessionRecords] /\ ses[s].old \in Sessions
    BY DEF TypeInv, ServerType, TableType, SessionType, Replace
  <1> DEFINE c == ses[s].old
             f == [ses EXCEPT ![s] = [ses[s] EXCEPT !.at = "admit", !.old = NoSession]]
  <1>2. ses' = [f EXCEPT ![c] = Ended(ses[c])] /\ ses[s].at = "replace"
    BY DEF Replace
  <1>3. /\ f \in [Sessions -> SessionRecords]
        /\ \A o \in Sessions \ {s} : f[o] = ses[o]
        /\ f[s] = [ses[s] EXCEPT !.at = "admit", !.old = NoSession]
    BY <1>1, ZenonT(40) DEF SessionRecords, NoSession
  <1>4. /\ Ended(ses[c]).at = ses[c].at /\ Ended(ses[c]).stop
        /\ Ended(ses[c]).scope = Dead(ses[c].scope)
        /\ Ended(ses[c]).wire = ses[c].wire /\ Ended(ses[c]).urgent = ses[c].urgent
        /\ Ended(ses[c]).read = ses[c].read /\ Ended(ses[c]).hello = ses[c].hello
    BY <1>1 DEF Ended, SessionRecords
  <1>5. /\ f[s].at = "admit" /\ f[s].stop = ses[s].stop /\ f[s].scope = ses[s].scope
        /\ f[s].wire = ses[s].wire /\ f[s].urgent = ses[s].urgent
        /\ f[s].read = ses[s].read /\ f[s].hello = ses[s].hello
    BY <1>1, <1>3 DEF SessionRecords
  <1> HIDE DEF f, c
  <1>6. ses'[c] = Ended(ses[c]) /\ \A o \in Sessions \ {c} : ses'[o] = f[o]
    BY <1>1, <1>2, <1>3 DEF c
  <1>7. ASSUME NEW o \in Sessions
        PROVE  KeepsReports(o) /\ (o # c => KeepsLife(o)) /\ (o # s => KeepsAt(o))
    <2> USE DEF KeepsAt, KeepsLife, KeepsReports
    <2>1. CASE o = c
      BY <1>4, <1>6, <2>1
    <2>2. CASE o # c /\ o = s
      BY <1>5, <1>6, <2>2
    <2>3. CASE o # c /\ o # s
      BY <1>3, <1>6, <2>3
    <2> QED
      BY <2>1, <2>2, <2>3
  <1>8. ses'[s].at \in {"admit", "replace"}
    <2>1. CASE s = c
      BY <1>2, <1>4, <1>6, <2>1
    <2>2. CASE s # c
      BY <1>5, <1>6, <2>2
    <2> QED
      BY <2>1, <2>2
  <1>9. ses'[c].stop /\ ses'[c].scope = Dead(ses[c].scope)
    BY <1>4, <1>6
  <1> QED
    BY <1>1, <1>2, <1>7, <1>8, <1>9 DEF c

\* A task that goes on to its next point.
LEMMA AtEffect ==
    ASSUME TypeInv, NEW s \in Sessions, NEW at, ses' = [ses EXCEPT ![s].at = at]
    PROVE  /\ \A o \in Sessions : KeepsReports(o) /\ KeepsLife(o)
           /\ \A o \in Sessions \ {s} : KeepsAt(o)
           /\ ses'[s].at = at
  <1>1. ses \in [Sessions -> SessionRecords]
    BY DEF TypeInv, ServerType, TableType
  <1> QED
    BY <1>1 DEF SessionRecords, KeepsAt, KeepsLife, KeepsReports

\* A task that returned.
LEMMA GoneEffect ==
    ASSUME TypeInv, NEW s \in Sessions, ses' = [ses EXCEPT ![s] = Gone(ses[s])]
    PROVE  /\ \A o \in Sessions \ {s} : ses'[o] = ses[o]
           /\ ses'[s].at = "over" /\ ses'[s].stop /\ ses'[s].scope = Dead(ses[s].scope)
           /\ ses'[s].wire = <<>> /\ ses'[s].urgent = ses[s].urgent
           /\ ses'[s].read = FALSE /\ ses'[s].hello = ses[s].hello
  <1>1. ses \in [Sessions -> SessionRecords]
    BY DEF TypeInv, ServerType, TableType
  <1> QED
    BY <1>1 DEF SessionRecords, Gone, Ended

\* A control task that leaves its loop.
LEMMA StopEffect ==
    ASSUME TypeInv, NEW s \in Sessions, Stop(s)
    PROVE  /\ \A o \in Sessions : KeepsReports(o) /\ KeepsAt(o) /\ ses'[o].scope = ses[o].scope
           /\ \A o \in Sessions \ {s} : ses'[o].stop = ses[o].stop
           /\ ses'[s].stop
  <1>1. ses \in [Sessions -> SessionRecords]
    BY DEF TypeInv, ServerType, TableType
  <1> QED
    BY <1>1 DEF Stop, SessionRecords, KeepsAt, KeepsReports

\* A report the link reads.
LEMMA OnPrivacyEffect ==
    ASSUME TypeInv, NEW s \in Sessions, OnPrivacy(s)
    PROVE  LET x == ses[s]
               v == Head(x.wire)
           IN  /\ \A o \in Sessions \ {s} : ses'[o] = ses[o]
               /\ ses'[s].at = x.at /\ ses'[s].hello = x.hello /\ ses'[s].wire = Tail(x.wire)
               /\ ses'[s].read = v.muted
               /\ ses'[s].stop = (Len(x.urgent) >= UrgentEvents)
               /\ ses'[s].scope = IF v.muted THEN Dead(x.scope) ELSE x.scope
               /\ ses'[s].urgent = IF Len(x.urgent) < UrgentEvents
                                   THEN Append(x.urgent, v) ELSE x.urgent
               /\ x.at = "run" /\ ~x.stop /\ x.wire # <<>> /\ x.wire \in Seq(Reports)
               /\ v = x.wire[1] /\ v \in Reports
  <1> DEFINE x == ses[s]
             v == Head(x.wire)
             u == IF Len(x.urgent) < UrgentEvents THEN Append(x.urgent, v) ELSE x.urgent
             sc == IF v.muted THEN Dead(x.scope) ELSE x.scope
             st == Len(x.urgent) >= UrgentEvents
             y == [x EXCEPT !.wire = Tail(x.wire), !.read = v.muted,
                            !.scope = sc, !.stop = st, !.urgent = u]
  <1>1. ses \in [Sessions -> SessionRecords]
    BY DEF TypeInv, ServerType, TableType
  <1>2. ses' = [ses EXCEPT ![s] = y] /\ x.at = "run" /\ ~x.stop /\ x.wire # <<>>
    BY DEF OnPrivacy
  <1>3. x \in SessionRecords /\ x.wire \in Seq(Reports)
    BY <1>1 DEF SessionRecords
  <1>4. v = x.wire[1] /\ v \in Reports
    BY <1>2, <1>3, HeadTailProperties
  <1> HIDE DEF x, v, u, sc, st
  <1>5. y.at = x.at /\ y.hello = x.hello /\ y.wire = Tail(x.wire) /\ y.read = v.muted
        /\ y.stop = st /\ y.scope = sc /\ y.urgent = u
    BY <1>3 DEF SessionRecords
  <1>6. ses'[s] = y /\ \A o \in Sessions \ {s} : ses'[o] = ses[o]
    BY <1>1, <1>2
  <1> HIDE DEF y
  <1> QED
    BY <1>2, <1>3, <1>4, <1>5, <1>6 DEF x, v, u, sc, st

\* A session the runtime installs.
LEMMA InstallEffect ==
    ASSUME TypeInv, Install
    PROVE  /\ \A o \in Sessions : KeepsReports(o) /\ KeepsAt(o)
           /\ \A o \in Sessions \ {rt.cur, Head(cmds)} : KeepsLife(o)
           /\ rt.cur # NoSession =>
                /\ ses'[rt.cur].stop
                /\ rt.cur # Head(cmds) => ses'[rt.cur].scope = Dead(ses[rt.cur].scope)
           /\ Head(cmds) # rt.cur => ses'[Head(cmds)].stop = ses[Head(cmds)].stop
           /\ ses'[Head(cmds)].scope = IF ses[Head(cmds)].hello THEN "dead" ELSE "live"
           /\ rt' = [cur |-> Head(cmds), muted |-> ses[Head(cmds)].hello, last |-> 0,
                     publishing |-> Head(cmds)]
           /\ Head(cmds) \in Sessions /\ Head(cmds) = cmds[1] /\ cmds' = Tail(cmds)
           /\ cmds # <<>> /\ rt.publishing = NoSession
  <1> DEFINE s == Head(cmds)
             c == rt.cur
             sc == IF ses[s].hello THEN "dead" ELSE "live"
  <1>1. ses \in [Sessions -> SessionRecords] /\ c \in Sessions \cup {NoSession}
        /\ cmds \in Seq(Sessions) /\ cmds # <<>>
    BY DEF TypeInv, ServerType, TableType, Install
  <1>2. s \in Sessions /\ s = cmds[1]
    BY <1>1, HeadTailProperties
  <1>3. /\ ses' = [Retired(ses, c) EXCEPT ![s].scope = sc]
        /\ rt' = [cur |-> s, muted |-> ses[s].hello, last |-> 0, publishing |-> s]
        /\ cmds' = Tail(cmds) /\ rt.publishing = NoSession
    BY DEF Install
  <1> HIDE DEF s, c, sc
  <1>4. CASE c = NoSession
    <2>1. ses' = [ses EXCEPT ![s].scope = sc]
      BY <1>3, <1>4 DEF Retired
    <2>2. /\ \A o \in Sessions : KeepsReports(o) /\ KeepsAt(o) /\ ses'[o].stop = ses[o].stop
          /\ \A o \in Sessions \ {s} : KeepsLife(o)
          /\ ses'[s].scope = sc
      BY <1>1, <1>2, <2>1, SMTT(30) DEF SessionRecords, KeepsReports, KeepsAt, KeepsLife
    <2> QED
      BY <1>1, <1>2, <1>3, <1>4, <2>2 DEF s, c, sc
  <1>5. CASE c # NoSession
    <2> DEFINE x == Ended(ses[c])
    <2>1. ses' = [[ses EXCEPT ![c] = x] EXCEPT ![s].scope = sc] /\ c \in Sessions
      BY <1>1, <1>3, <1>5 DEF Retired
    <2>2. /\ x \in SessionRecords /\ x.stop = TRUE /\ x.scope = Dead(ses[c].scope) /\ x.at = ses[c].at
          /\ x.wire = ses[c].wire /\ x.urgent = ses[c].urgent /\ x.read = ses[c].read
          /\ x.hello = ses[c].hello
      BY <1>1, <2>1, EndedType DEF Ended, SessionRecords
    <2> DEFINE f == [ses EXCEPT ![c] = x]
    <2> HIDE DEF x
    <2>3. /\ f \in [Sessions -> SessionRecords] /\ f[c] = x
          /\ \A o \in Sessions \ {c} : f[o] = ses[o]
      BY <1>1, <2>1, <2>2
    <2>4. ses' = [f EXCEPT ![s].scope = sc]
      BY <2>1
    <2> HIDE DEF f
    <2>5. /\ \A o \in Sessions \ {s} : ses'[o] = f[o]
          /\ ses'[s] = [f[s] EXCEPT !.scope = sc]
      BY <1>2, <2>3, <2>4
    <2>6. /\ ses'[s].at = f[s].at /\ ses'[s].stop = f[s].stop /\ ses'[s].scope = sc
          /\ ses'[s].wire = f[s].wire /\ ses'[s].urgent = f[s].urgent
          /\ ses'[s].read = f[s].read /\ ses'[s].hello = f[s].hello
      BY <1>2, <2>3, <2>5 DEF SessionRecords
    <2>7. /\ \A o \in Sessions : KeepsReports(o) /\ KeepsAt(o)
          /\ \A o \in Sessions \ {c, s} : KeepsLife(o)
      <3> SUFFICES ASSUME NEW o \in Sessions
                   PROVE  KeepsReports(o) /\ KeepsAt(o) /\ (o \notin {c, s} => KeepsLife(o))
        OBVIOUS
      <3> USE DEF KeepsReports, KeepsAt, KeepsLife
      <3>1. CASE o = s /\ s = c
        BY <2>2, <2>3, <2>6, <3>1
      <3>2. CASE o = s /\ s # c
        BY <2>3, <2>6, <3>2
      <3>3. CASE o # s /\ o = c
        BY <2>2, <2>3, <2>5, <3>3
      <3>4. CASE o # s /\ o # c
        BY <2>3, <2>5, <3>4
      <3> QED
        BY <3>1, <3>2, <3>3, <3>4
    <2>8. ses'[c].stop /\ (c # s => ses'[c].scope = Dead(ses[c].scope))
          /\ (s # c => ses'[s].stop = ses[s].stop)
      <3>1. CASE s = c
        BY <2>2, <2>3, <2>6, <3>1
      <3>2. CASE s # c
        <4>1. ses'[c] = f[c]
          BY <2>1, <2>5, <3>2
        <4>2. ses'[c].stop /\ ses'[c].scope = Dead(ses[c].scope)
          BY <2>2, <2>3, <4>1
        <4>3. ses'[s].stop = ses[s].stop
          BY <1>2, <2>3, <2>6, <3>2
        <4> QED
          BY <3>2, <4>2, <4>3
      <3> QED
        BY <3>1, <3>2
    <2> QED
      BY <1>1, <1>2, <1>3, <2>6, <2>7, <2>8 DEF s, c, sc
  <1> QED
    BY <1>4, <1>5

\* A publication that completes.
LEMMA PublishedEffect ==
    ASSUME TypeInv, Published
    PROVE  LET s == rt.publishing
           IN  /\ s \in Sessions /\ s = rt.cur /\ rt' = [rt EXCEPT !.publishing = NoSession]
               /\ rt'.cur = rt.cur /\ rt'.muted = rt.muted /\ rt'.last = rt.last
               /\ rt'.publishing = NoSession
               /\ \A o \in Sessions : KeepsReports(o) /\ ses'[o].stop = ses[o].stop
               /\ \A o \in Sessions \ {s} : KeepsAt(o) /\ KeepsLife(o)
               /\ ses'[s].scope = IF ses[s].stop THEN Dead(ses[s].scope) ELSE ses[s].scope
               /\ ses'[s].at = IF ses[s].at = "wait" THEN "attached" ELSE ses[s].at
  <1> DEFINE s == rt.publishing
             sc == IF ses[s].stop THEN Dead(ses[s].scope) ELSE ses[s].scope
             at == IF ses[s].at = "wait" THEN "attached" ELSE ses[s].at
  <1>1. ses \in [Sessions -> SessionRecords] /\ s \in Sessions /\ s = rt.cur
        /\ rt' = [rt EXCEPT !.publishing = NoSession]
        /\ rt'.cur = rt.cur /\ rt'.muted = rt.muted /\ rt'.last = rt.last
        /\ rt'.publishing = NoSession
    BY DEF TypeInv, ServerType, TableType, Published
  <1>2. ses' = [ses EXCEPT ![s].scope = sc, ![s].at = at]
    BY DEF Published
  <1> HIDE DEF s, sc, at
  <1> QED
    BY <1>1, <1>2 DEF s, sc, at, SessionRecords, KeepsReports, KeepsAt, KeepsLife

\* The runtime gives its session up.
LEMMA EndSessionEffect ==
    ASSUME TypeInv, EndSession
    PROVE  /\ rt.cur \in Sessions /\ rt' = NoCurrent /\ rt.publishing = NoSession
           /\ \A o \in Sessions : KeepsReports(o) /\ KeepsAt(o)
           /\ \A o \in Sessions \ {rt.cur} : KeepsLife(o)
           /\ ses'[rt.cur].stop /\ ses'[rt.cur].scope = Dead(ses[rt.cur].scope)
  <1>1. ses \in [Sessions -> SessionRecords] /\ rt.cur \in Sessions /\ rt' = NoCurrent
        /\ ses' = [ses EXCEPT ![rt.cur] = Ended(ses[rt.cur])] /\ rt.publishing = NoSession
    BY DEF TypeInv, ServerType, TableType, EndSession, Retired
  <1> QED
    BY <1>1, ZenonT(40) DEF Ended, SessionRecords, KeepsReports, KeepsAt, KeepsLife

\* The runtime handles the head of the urgent path, or passes over it.
Handled(s) ==
    LET v == ses[s].urgent[1]
        grants == ~v.muted /\ (rt.muted \/ ses[s].scope = "dead")
    IN  \/ /\ v.seq > rt.last
           /\ rt'.muted = v.muted /\ rt'.last = v.seq
           /\ rt'.publishing = IF grants THEN s ELSE NoSession
           /\ ses'[s].scope = IF v.muted THEN Dead(ses[s].scope)
                              ELSE IF grants THEN "live" ELSE ses[s].scope
        \/ v.seq <= rt.last /\ rt' = rt /\ ses'[s].scope = ses[s].scope

\* A report the runtime takes from the urgent path.
LEMMA UrgentEffect ==
    ASSUME TypeInv, Urgent
    PROVE  LET s == rt.cur
           IN  /\ s \in Sessions /\ rt.publishing = NoSession /\ rt'.cur = rt.cur
               /\ \A o \in Sessions \ {s} : ses'[o] = ses[o]
               /\ KeepsAt(s) /\ ses'[s].stop = ses[s].stop
               /\ ses'[s].wire = ses[s].wire /\ ses'[s].urgent = Tail(ses[s].urgent)
               /\ ses'[s].read = ses[s].read /\ ses'[s].hello = ses[s].hello
               /\ ses[s].urgent \in Seq(Reports) /\ ses[s].urgent # <<>>
               /\ ses[s].urgent[1] \in Reports
               /\ Handled(s)
  <1> DEFINE s == rt.cur
             u == ses[s].urgent
             v == Head(u)
             g == ~v.muted /\ (rt.muted \/ ses[s].scope = "dead")
             sc == IF v.muted THEN Dead(ses[s].scope) ELSE IF g THEN "live" ELSE ses[s].scope
  <1>1. ses \in [Sessions -> SessionRecords] /\ s \in Sessions /\ rt.publishing = NoSession
        /\ u # <<>>
        /\ rt \in [cur : Sessions \cup {NoSession}, muted : BOOLEAN, last : Nat,
                   publishing : Sessions \cup {NoSession}]
    BY DEF TypeInv, ServerType, TableType, Urgent
  <1>2. u \in Seq(Reports)
    BY <1>1 DEF SessionRecords
  <1>3. v = u[1] /\ v \in Reports
    BY <1>1, <1>2, HeadTailProperties
  <1>4. CASE v.seq > rt.last /\ ApplyPrivacy(s, v.muted)
    <2>1. /\ ses' = [ses EXCEPT ![s].urgent = Tail(u), ![s].scope = sc]
          /\ rt' = [rt EXCEPT !.muted = v.muted, !.last = v.seq,
                                 !.publishing = IF g THEN s ELSE NoSession]
      BY <1>4 DEF ApplyPrivacy
    <2>2. Handled(s) /\ rt'.cur = rt.cur
      <3> HIDE DEF s, u
      <3>1. ses'[s].scope = sc
        BY <1>1, <2>1 DEF SessionRecords
      <3>2. rt'.muted = v.muted /\ rt'.last = v.seq /\ rt'.cur = rt.cur
            /\ rt'.publishing = IF g THEN s ELSE NoSession
        BY <1>1, <2>1
      <3> QED
        BY <1>3, <1>4, <3>1, <3>2 DEF Handled, u
    <2> HIDE DEF s, u, v, g, sc
    <2> QED
      BY <1>1, <1>2, <1>3, <2>1, <2>2 DEF s, u, SessionRecords, KeepsAt
  <1>5. CASE v.seq <= rt.last /\ ses' = [ses EXCEPT ![s].urgent = Tail(u)] /\ UNCHANGED rt
    <2>1. Handled(s) /\ rt'.cur = rt.cur
      BY <1>1, <1>3, <1>5 DEF Handled, SessionRecords
    <2> HIDE DEF s, u, v, g, sc
    <2> QED
      BY <1>1, <1>2, <1>3, <1>5, <2>1 DEF s, u, SessionRecords, KeepsAt
  <1>6. \/ v.seq > rt.last /\ ApplyPrivacy(s, v.muted)
        \/ v.seq <= rt.last /\ ses' = [ses EXCEPT ![s].urgent = Tail(u)] /\ UNCHANGED rt
    BY DEF Urgent
  <1> QED
    BY <1>4, <1>5, <1>6

----------------------------------------------------------------------------
(* The steps, as the sessions see them                                     *)

\* Nothing of the sessions changes: the device's own steps.
Still ==
    /\ UNCHANGED <<ses, claim, active, rt>>
    /\ UNCHANGED cmds \/ (cmds # <<>> /\ cmds' = Tail(cmds))
    /\ link'.id = link.id /\ ghost'.mixed = ghost.mixed
    /\ link'.phase = "idle" <=> link.phase = "idle"
\* The device's end of the link's session goes.
Shutting ==
    /\ link.phase # "idle" /\ Shut(link.id)
    /\ link'.id = link.id /\ link'.phase = "idle"
    /\ UNCHANGED <<server, rt, ghost>>
Reporting == link.phase = "up" /\ \E t \in Threads : SetPrivacy(t)
\* A session's task returns; its command, if it is refused, is taken.
Going(s) ==
    /\ ses' = [ses EXCEPT ![s] = Gone(ses[s])] /\ Release(s)
    /\ \/ UNCHANGED cmds
       \/ cmds # <<>> /\ s = Head(cmds) /\ cmds' = Tail(cmds)
    /\ UNCHANGED <<device, up, link, rt, ghost>>
Running(s) == claim = s /\ ~ses[s].stop /\ Activate(s)

\* Every step is one of these for the server and the runtime.
LEMMA Steps ==
    ASSUME TypeInv, [Next]_vars
    PROVE  \/ Still \/ Shutting \/ Reporting \/ Dial
           \/ \E s \in Sessions : \/ Claim(s) \/ Replace(s) \/ Admit(s) \/ Going(s)
                                  \/ Running(s) \/ OnPrivacy(s) \/ Stop(s)
           \/ Install \/ Published \/ Urgent \/ EndSession
  <1>1. CASE UNCHANGED vars
    BY <1>1 DEF Still, vars, server
  <1>2. ASSUME Toggle \/ Reconcile \/ DecidePrivacy \/ Entered
               \/ \E t \in Threads : Set(t) \/ Apply(t) \/ Number(t)
        PROVE  Still
    <2>1. ghost'.mixed = ghost.mixed /\ UNCHANGED <<ses, server, rt, link>>
      BY <1>2 DEF Toggle, Reconcile, DecidePrivacy, Entered, Set, Apply, Number, TypeInv, LinkType
    <2> QED
      BY <2>1 DEF Still, server
  <1>3. ASSUME NEW t \in Threads, SetPrivacy(t) PROVE Still \/ Reporting
    <2>1. CASE link.phase = "up"
      BY <1>3, <2>1 DEF Reporting
    <2>2. CASE link.phase # "up"
      <3>1. ghost'.mixed = ghost.mixed /\ UNCHANGED <<ses, server, rt, link>>
        BY <1>3, <2>2 DEF SetPrivacy, Report, TypeInv, LinkType
      <3> QED
        BY <3>1 DEF Still, server
    <2> QED
      BY <2>1, <2>2
  <1>4. ASSUME Press \/ Start \/ Join \/ Ready PROVE Still
    <2>1. ghost'.mixed = ghost.mixed /\ UNCHANGED <<ses, server, rt>> /\ link'.id = link.id
          /\ (link'.phase = "idle" <=> link.phase = "idle")
      BY <1>4 DEF Press, Start, Join, Ready, TypeInv, LinkType
    <2> QED
      BY <2>1 DEF Still, server
  <1>5. ASSUME Closed \/ Lost PROVE Shutting
    <2>1. link'.id = link.id /\ link'.phase = "idle"
      BY <1>5 DEF Closed, Lost, Lose, Down, TypeInv, LinkType
    <2> QED
      BY <1>5, <2>1 DEF Closed, Lost, Lose, Shutting
  <1>6. ASSUME Crash PROVE Still \/ Shutting
    <2>1. link'.id = link.id /\ link'.phase = "idle"
      BY <1>6 DEF Crash, Down, TypeInv, LinkType
    <2>2. CASE link.phase = "idle"
      BY <1>6, <2>1, <2>2 DEF Crash, Still, server
    <2>3. CASE link.phase # "idle"
      BY <1>6, <2>1, <2>3 DEF Crash, Shutting
    <2> QED
      BY <2>2, <2>3
  <1>7. ASSUME NEW s \in Sessions, Stopped(s) \/ Late(s) \/ Over(s) PROVE Going(s)
    BY <1>7 DEF Stopped, Late, Over, Decline, Going
  <1>8. ASSUME NEW s \in Sessions, Activate(s) PROVE Going(s) \/ Running(s)
    BY <1>8 DEF Activate, Going, Running
  <1>9. ASSUME NEW s \in Sessions, SocketClosed(s) \/ Silence(s) PROVE Stop(s)
    BY <1>9 DEF SocketClosed, Silence
  <1>10. ASSUME Refuse PROVE \E s \in Sessions : Going(s)
    <2>1. cmds \in Seq(Sessions) /\ cmds # <<>>
      BY <1>10 DEF Refuse, TypeInv, ServerType
    <2>2. Head(cmds) \in Sessions
      BY <2>1, HeadTailProperties
    <2>3. Going(Head(cmds))
      BY <1>10 DEF Refuse, Going
    <2> QED
      BY <2>2, <2>3
  <1>a. ASSUME NEW t \in Threads, Backpressure(t) PROVE Still
    <2>1. ghost'.mixed = ghost.mixed /\ UNCHANGED <<ses, server, rt, link>>
      BY <1>a DEF Backpressure, TypeInv, LinkType
    <2> QED
      BY <2>1 DEF Still, server
  <1>b. ASSUME Discard PROVE Still
    BY <1>b DEF Discard, Still
  <1>11. CASE Mute
    BY <1>2, <1>3, <1>11 DEF Mute
  <1>12. CASE Link
    BY <1>4, <1>5, <1>12 DEF Link
  <1>13. CASE Server
    BY <1>7, <1>8, <1>9, <1>13 DEF Server
  <1>14. CASE Runtime
    BY <1>14, <1>b DEF Runtime
  <1>15. CASE Faults
    BY <1>4, <1>5, <1>6, <1>7, <1>9, <1>10, <1>15, <1>a DEF Faults
  <1> QED
    BY <1>1, <1>11, <1>12, <1>13, <1>14, <1>15 DEF Next

----------------------------------------------------------------------------
(* The server and the runtime                                              *)

\* The steps of the session's tasks do not touch the runtime.
LEMMA RuntimeStays ==
    ASSUME NEW s, \/ Claim(s) \/ Replace(s) \/ Admit(s) \/ Running(s) \/ OnPrivacy(s) \/ Stop(s)
    PROVE  rt' = rt
  BY DEF Claim, Replace, Admit, Running, Activate, OnPrivacy, Stop

\* Nothing is claimed, queued or current at the start.
LEMMA InitServer == Init => IdInv /\ RouteInv /\ CommandInv /\ CaptureInv
  <1> SUFFICES ASSUME Init PROVE IdInv /\ RouteInv /\ CommandInv /\ CaptureInv
    OBVIOUS
  <1>1. /\ claim = 0 /\ active = {} /\ cmds = <<>> /\ rt.cur = 0 /\ rt.publishing = 0 /\ link.id = 0
        /\ Len(cmds) = 0
    BY DEF Init, NoCurrent, NoSession
  <1>2. \A s \in Sessions : /\ ses[s].at = "none" /\ ses[s].scope = "none" /\ ses[s].wire = <<>>
                            /\ ses[s].urgent = <<>> /\ ses[s].read = ses[s].hello
    BY DEF Init, Unused, SessionAt
  <1> QED
    BY <1>1, <1>2 DEF IdInv, RouteInv, RunningIsRouted, CommandInv, CaptureInv, EndedIsRevoked, NoSession

\* Only dialled sessions are claimed, queued or current.
LEMMA StepId ==
    ASSUME TypeInv, IdInv, [Next]_vars
    PROVE  IdInv'
  <1>1. /\ claim \in Nat /\ rt.cur \in Nat /\ link.id \in Nat /\ cmds \in Seq(Sessions)
        /\ \A s \in Sessions : s \in Nat /\ (s > link.id => ses[s].at = "none")
        /\ Sessions \subseteq Nat /\ Len(cmds) \in Nat
    BY LenProperties DEF TypeInv, ServerType, LinkType, Sessions, NoSession
  <1>2. CASE Still \/ Shutting
    <2>1. UNCHANGED <<claim, rt>> /\ link'.id = link.id
      BY <1>2 DEF Still, Shutting, server
    <2>2. \A i \in 1..Len(cmds') : cmds'[i] <= link.id
      <3>1. CASE UNCHANGED cmds
        BY <3>1 DEF IdInv
      <3>2. CASE cmds # <<>> /\ cmds' = Tail(cmds)
        BY <1>1, <3>2, TailOf DEF IdInv
      <3> QED
        BY <1>2, <3>1, <3>2 DEF Still, Shutting, server
    <2> QED
      BY <2>1, <2>2 DEF IdInv
  <1>3. CASE Reporting
    BY <1>3 DEF Reporting, SetPrivacy, IdInv, server
  <1>4. CASE Dial
    <2>1. link'.id = link.id + 1 /\ UNCHANGED <<claim, cmds, rt>>
      BY <1>4, DialEffect DEF Dial, server
    <2>2. \A i \in 1..Len(cmds) : cmds[i] \in Nat
      BY <1>1
    <2> QED
      BY <1>1, <2>1, <2>2 DEF IdInv
  <1>5. ASSUME NEW s \in Sessions, Claim(s) PROVE IdInv'
    BY <1>1, <1>5 DEF Claim, IdInv
  <1>6. ASSUME NEW s \in Sessions, Replace(s) \/ Running(s) \/ OnPrivacy(s) \/ Stop(s)
        PROVE  IdInv'
    BY <1>6 DEF Replace, Running, Activate, OnPrivacy, Stop, IdInv, server
  <1>7. ASSUME NEW s \in Sessions, Admit(s) PROVE IdInv'
    <2>1. s <= link.id
      BY <1>1, <1>7 DEF Admit
    <2>2. \A i \in 1..Len(cmds') : cmds'[i] <= link.id
      BY <1>1, <1>7, <2>1, AppendOf DEF Admit, IdInv
    <2> QED
      BY <1>7, <2>2 DEF Admit, IdInv
  <1>8. ASSUME NEW s \in Sessions, Going(s) PROVE IdInv'
    <2>1. claim' <= link.id
      BY <1>1, <1>8 DEF Going, Release, IdInv, NoSession
    <2>2. \A i \in 1..Len(cmds') : cmds'[i] <= link.id
      <3>1. CASE UNCHANGED cmds
        BY <3>1 DEF IdInv
      <3>2. CASE cmds # <<>> /\ cmds' = Tail(cmds)
        BY <1>1, <3>2, TailOf DEF IdInv
      <3> QED
        BY <1>8, <3>1, <3>2 DEF Going
    <2> QED
      BY <1>8, <2>1, <2>2 DEF Going, IdInv
  <1>9. CASE Install
    <2>1. cmds # <<>> /\ rt'.cur = cmds[1] /\ cmds' = Tail(cmds) /\ UNCHANGED <<claim, link>>
      BY <1>9, InstallEffect DEF Install
    <2>2. cmds[1] <= link.id /\ \A i \in 1..Len(cmds') : cmds'[i] <= link.id
      <3>1. 1 \in 1..Len(cmds)
        BY <1>1, <2>1, TailOf
      <3> QED
        BY <1>1, <2>1, <3>1, TailOf DEF IdInv
    <2> QED
      BY <2>1, <2>2 DEF IdInv
  <1>10. CASE Published
    BY <1>10, PublishedEffect DEF Published, IdInv, server
  <1>11. CASE Urgent
    BY <1>11, UrgentEffect DEF Urgent, IdInv, server
  <1>12. CASE EndSession
    BY <1>1, <1>12 DEF EndSession, NoCurrent, IdInv, server, NoSession
  <1> QED
    BY <1>2, <1>3, <1>4, <1>5, <1>6, <1>7, <1>8, <1>9, <1>10, <1>11, <1>12, Steps

\* Routing follows the claim.
LEMMA StepRoute ==
    ASSUME TypeInv, RouteInv, [Next]_vars
    PROVE  RouteInv'
  <1> USE DEF RouteInv, RunningIsRouted
  <1>2. CASE Still
    BY <1>2 DEF Still, server
  <1>3. CASE Shutting
    BY <1>3, ShutEffect DEF Shutting, server, KeepsAt, KeepsLife
  <1>4. CASE Reporting
    <2>1. PICK t \in Threads : SetPrivacy(t)
      BY <1>4 DEF Reporting
    <2>2. \A o \in Sessions : KeepsAt(o) /\ KeepsLife(o)
      BY <1>4, <2>1, ReportEffect DEF Reporting, SetPrivacy
    <2> QED
      BY <2>1, <2>2 DEF SetPrivacy, server, KeepsAt, KeepsLife
  <1>5. CASE Dial
    <2>1. ses'[link'.id].at = "hello"
      BY <1>5, DialEffect DEF NewSession, SessionAt
    <2> QED
      BY <1>5, <2>1, DialEffect DEF Dial, server
  <1>6. ASSUME NEW s \in Sessions, Claim(s) PROVE RouteInv'
    <2>1. active' = {} /\ claim' = s
      BY <1>6 DEF Claim
    <2>2. \A o \in Sessions : ~(ses'[o].at = "run" /\ ~ses'[o].stop)
      BY <1>6, ClaimEffect DEF KeepsAt
    <2> QED
      BY <2>1, <2>2
  <1>7. ASSUME NEW s \in Sessions, Replace(s) PROVE RouteInv'
    <2>1. \A o \in Sessions : ses'[o].at = "run" /\ ~ses'[o].stop => ses[o].at = "run" /\ ~ses[o].stop
      BY <1>7, ReplaceEffect DEF KeepsAt, KeepsLife
    <2> QED
      BY <1>7, <2>1 DEF Replace, server
  <1>8. ASSUME NEW s \in Sessions, Admit(s) PROVE RouteInv'
    <2>1. \A o \in Sessions : ses'[o].at = "run" /\ ~ses'[o].stop => ses[o].at = "run" /\ ~ses[o].stop
      BY <1>8, AtEffect DEF Admit, KeepsAt, KeepsLife
    <2> QED
      BY <1>8, <2>1 DEF Admit
  <1>9. ASSUME NEW s \in Sessions, Going(s) PROVE RouteInv'
    <2>1. \A o \in Sessions : ses'[o].at = "run" /\ ~ses'[o].stop =>
                               o # s /\ ses[o].at = "run" /\ ~ses[o].stop
      BY <1>9, GoneEffect DEF Going
    <2> QED
      BY <1>9, <2>1 DEF Going, Release
  <1>10. ASSUME NEW s \in Sessions, Running(s) PROVE RouteInv'
    <2>1. ses' = [ses EXCEPT ![s].at = "run"] /\ claim = s /\ claim' = s /\ active' = active \cup {s}
      BY <1>10 DEF Running, Activate
    <2>2. \A o \in Sessions : ses'[o].at = "run" /\ ~ses'[o].stop =>
                               o = s \/ (ses[o].at = "run" /\ ~ses[o].stop)
      BY <2>1, AtEffect DEF KeepsAt, KeepsLife
    <2> QED
      BY <2>1, <2>2
  <1>11. ASSUME NEW s \in Sessions, OnPrivacy(s) PROVE RouteInv'
    <2>1. \A o \in Sessions : ses'[o].at = "run" /\ ~ses'[o].stop => ses[o].at = "run" /\ ~ses[o].stop
      BY <1>11, OnPrivacyEffect
    <2> QED
      BY <1>11, <2>1 DEF OnPrivacy, server
  <1>12. ASSUME NEW s \in Sessions, Stop(s) PROVE RouteInv'
    <2>1. \A o \in Sessions : ses'[o].at = "run" /\ ~ses'[o].stop => ses[o].at = "run" /\ ~ses[o].stop
      BY <1>12, StopEffect DEF KeepsAt
    <2> QED
      BY <1>12, <2>1 DEF Stop, server
  <1>13. CASE Install
    <2>1. \A o \in Sessions : ses'[o].at = "run" /\ ~ses'[o].stop => ses[o].at = "run" /\ ~ses[o].stop
      BY <1>13, InstallEffect DEF KeepsAt, KeepsLife, Sessions, NoSession
    <2> QED
      BY <1>13, <2>1 DEF Install
  <1>14. CASE Published
    <2>1. \A o \in Sessions : ses'[o].at = "run" /\ ~ses'[o].stop => ses[o].at = "run" /\ ~ses[o].stop
      BY <1>14, PublishedEffect DEF KeepsAt
    <2> QED
      BY <1>14, <2>1 DEF Published, server
  <1>15. CASE Urgent
    <2>1. \A o \in Sessions : ses'[o].at = "run" /\ ~ses'[o].stop => ses[o].at = "run" /\ ~ses[o].stop
      BY <1>15, UrgentEffect DEF KeepsAt
    <2> QED
      BY <1>15, <2>1 DEF Urgent, server
  <1>16. CASE EndSession
    <2>1. \A o \in Sessions : ses'[o].at = "run" /\ ~ses'[o].stop => ses[o].at = "run" /\ ~ses[o].stop
      BY <1>16, EndSessionEffect DEF KeepsAt, KeepsLife
    <2> QED
      BY <1>16, <2>1 DEF EndSession, server
  <1> QED
    BY <1>2, <1>3, <1>4, <1>5, <1>6, <1>7, <1>8, <1>9, <1>10, <1>11, <1>12, <1>13, <1>14, <1>15,
       <1>16, Steps

\* The queue of commands loses its head, at most, and the head is s.
Dequeued(s) ==
    \/ UNCHANGED cmds
    \/ cmds # <<>> /\ s = cmds[1] /\ cmds' = Tail(cmds)

\* Commands that were queued once are queued once, and a taken one is not queued.
LEMMA DequeuedKeeps ==
    ASSUME cmds \in Seq(Sessions), NEW s, Dequeued(s),
           \A i, j \in 1..Len(cmds) : cmds[i] = cmds[j] => i = j
    PROVE  /\ \A i, j \in 1..Len(cmds') : cmds'[i] = cmds'[j] => i = j
           /\ \A i \in 1..Len(cmds') : \E j \in 1..Len(cmds) : cmds'[i] = cmds[j]
           /\ cmds' # cmds => \A i \in 1..Len(cmds') : cmds'[i] # s
  <1>1. CASE UNCHANGED cmds
    BY <1>1
  <1>2. CASE cmds # <<>> /\ s = cmds[1] /\ cmds' = Tail(cmds)
    <2>1. /\ Len(cmds) \in Nat /\ Len(cmds) > 0 /\ Len(cmds') = Len(cmds) - 1
          /\ \A i \in 1..Len(cmds') : cmds'[i] = cmds[i + 1] /\ i + 1 \in 1..Len(cmds)
      BY <1>2, TailOf
    <2>2. ASSUME NEW i \in 1..Len(cmds'), NEW j \in 1..Len(cmds'), cmds'[i] = cmds'[j]
          PROVE  i = j
      BY <2>1, <2>2, SMTT(30)
    <2>3. ASSUME NEW i \in 1..Len(cmds') PROVE cmds'[i] # s
      <3>1. 1 \in 1..Len(cmds) /\ i + 1 # 1
        BY <2>1
      <3> QED
        BY <1>2, <2>1, <3>1
    <2> QED
      BY <2>1, <2>2, <2>3
  <1> QED
    BY <1>1, <1>2 DEF Dequeued

\* What CommandInv asks of a session does not depend on the others.
LEMMA StepCommand ==
    ASSUME TypeInv, IdInv, CommandInv, [Next]_vars
    PROVE  CommandInv'
  <1> USE DEF CommandInv
  <1>1. /\ cmds \in Seq(Sessions) /\ rt.cur \in Sessions \cup {NoSession} /\ Len(cmds) \in Nat
        /\ \A i \in 1..Len(cmds) : cmds[i] \in Sessions
    BY LenProperties DEF TypeInv, ServerType
  <1>2. CASE Still
    <2>1. Dequeued(cmds[1]) /\ UNCHANGED <<ses, rt>>
      BY <1>2 DEF Still, Dequeued
    <2>2. /\ \A i, j \in 1..Len(cmds') : cmds'[i] = cmds'[j] => i = j
          /\ \A i \in 1..Len(cmds') : \E j \in 1..Len(cmds) : cmds'[i] = cmds[j]
      BY <1>1, <2>1, DequeuedKeeps
    <2> QED
      BY <1>1, <2>1, <2>2
  <1>3. CASE Shutting
    <2>1. PICK n \in 0..Len(ses[link.id].wire) :
             ses'[link.id].wire = SubSeq(ses[link.id].wire, 1, n)
      BY <1>3, ShutEffect DEF Shutting
    <2>2. ses[link.id].wire = <<>> => ses'[link.id].wire = <<>>
      <3>1. ASSUME ses[link.id].wire = <<>> PROVE SubSeq(ses[link.id].wire, 1, n) = <<>>
        <4>1. n = 0
          BY <3>1, EmptySeq
        <4>2. <<>> \in Seq(Sessions) /\ SubSeq(<<>>, 1, 0) \in Seq(Sessions) /\ Len(SubSeq(<<>>, 1, 0)) = 0
          BY EmptySeq, SubSeqProperties, LenProperties
        <4> QED
          BY <3>1, <4>1, <4>2, EmptySeq
      <3> QED
        BY <2>1, <3>1
    <2> QED
      BY <1>1, <1>3, <2>2, ShutEffect, SMTT(30) DEF Shutting, server, KeepsAt, KeepsReports
  <1>4. CASE Reporting
    <2>1. PICK t \in Threads : SetPrivacy(t)
      BY <1>4 DEF Reporting
    <2>2. \A o \in Sessions : KeepsAt(o) /\ ((ses[o].at \notin {"run", "over"}) => KeepsReports(o))
      BY <1>4, <2>1, ReportEffect DEF Reporting, SetPrivacy, KeepsReports
    <2> QED
      BY <1>1, <2>1, <2>2 DEF SetPrivacy, server, KeepsAt, KeepsReports
  <1>5. CASE Dial
    <2>1. /\ ses'[link'.id].wire = <<>> /\ ses'[link'.id].urgent = <<>>
          /\ ses'[link'.id].read = ses'[link'.id].hello
      BY <1>5, DialEffect DEF NewSession, SessionAt
    <2>2. rt.cur # link'.id /\ \A i \in 1..Len(cmds) : cmds[i] # link'.id
      BY <1>1, <1>5, DialEffect DEF IdInv, Sessions, TypeInv, LinkType, NoSession
    <2> QED
      BY <1>1, <1>5, <2>1, <2>2, DialEffect DEF Dial, server
  <1>6. ASSUME NEW s \in Sessions, Claim(s) PROVE CommandInv'
    <2>1. /\ \A o \in Sessions : KeepsReports(o)
          /\ \A o \in Sessions \ {s} : KeepsAt(o)
          /\ ses[s].at \in {"hello", "replace"} /\ ses'[s].at \in {"admit", "replace"}
          /\ cmds' = cmds /\ rt' = rt
      BY <1>6, ClaimEffect DEF Claim
    <2>2. s # rt.cur /\ \A i \in 1..Len(cmds) : cmds[i] # s
      BY <2>1 DEF Sessions, NoSession
    <2> QED
      BY <1>1, <2>1, <2>2 DEF KeepsAt, KeepsReports
  <1>7. ASSUME NEW s \in Sessions, Replace(s) PROVE CommandInv'
    <2>1. /\ \A o \in Sessions : KeepsReports(o)
          /\ \A o \in Sessions \ {s} : KeepsAt(o)
          /\ ses[s].at \in {"hello", "replace"} /\ ses'[s].at \in {"admit", "replace"}
          /\ cmds' = cmds /\ rt' = rt
      BY <1>7, ReplaceEffect DEF Replace, server
    <2>2. s # rt.cur /\ \A i \in 1..Len(cmds) : cmds[i] # s
      BY <2>1 DEF Sessions, NoSession
    <2> QED
      BY <1>1, <2>1, <2>2 DEF KeepsAt, KeepsReports
  <1>8. ASSUME NEW s \in Sessions, Admit(s) PROVE CommandInv'
    <2>1. /\ \A o \in Sessions : KeepsReports(o)
          /\ \A o \in Sessions \ {s} : KeepsAt(o)
          /\ ses'[s].at = "wait" /\ ses[s].at = "admit" /\ cmds' = Append(cmds, s) /\ rt' = rt
      BY <1>8, AtEffect DEF Admit
    <2>2. s # rt.cur /\ \A i \in 1..Len(cmds) : cmds[i] # s
      BY <1>1, <2>1, SMTT(30) DEF Sessions, NoSession
    <2>3. /\ Len(cmds') = Len(cmds) + 1 /\ cmds'[Len(cmds) + 1] = s
          /\ \A i \in 1..Len(cmds) : cmds'[i] = cmds[i]
          /\ \A i \in 1..Len(cmds') : i \in 1..Len(cmds) \/ i = Len(cmds) + 1
      BY <1>1, <2>1, AppendOf
    <2>4. \A i \in 1..Len(cmds') : ses'[cmds'[i]].at \in {"wait", "over"} /\ cmds'[i] # rt'.cur
      BY <1>1, <2>1, <2>2, <2>3 DEF KeepsAt
    <2>5. \A i, j \in 1..Len(cmds') : cmds'[i] = cmds'[j] => i = j
      BY <2>2, <2>3
    <2> QED
      BY <1>1, <2>1, <2>2, <2>4, <2>5 DEF KeepsAt, KeepsReports
  <1>9. ASSUME NEW s \in Sessions, Going(s) PROVE CommandInv'
    <2>1. Dequeued(s) /\ rt' = rt
      BY <1>1, <1>9, TailOf DEF Going, Dequeued
    <2>2. /\ \A i, j \in 1..Len(cmds') : cmds'[i] = cmds'[j] => i = j
          /\ \A i \in 1..Len(cmds') : \E j \in 1..Len(cmds) : cmds'[i] = cmds[j]
      BY <1>1, <2>1, DequeuedKeeps
    <2>3. \A o \in Sessions \ {s} : ses'[o] = ses[o]
      BY <1>9, GoneEffect DEF Going
    <2>4. ses'[s].at = "over"
      BY <1>9, GoneEffect DEF Going
    <2>5. \A i \in 1..Len(cmds') : ses'[cmds'[i]].at \in {"wait", "over"} /\ cmds'[i] # rt'.cur
      BY <1>1, <2>1, <2>2, <2>3, <2>4
    <2> QED
      BY <1>1, <2>1, <2>2, <2>3, <2>4, <2>5
  <1>10. ASSUME NEW s \in Sessions, Running(s) PROVE CommandInv'
    <2>1. ses' = [ses EXCEPT ![s].at = "run"] /\ ses[s].at = "attached" /\ cmds' = cmds /\ rt' = rt
      BY <1>10 DEF Running, Activate
    <2>2. /\ \A o \in Sessions : KeepsReports(o)
          /\ \A o \in Sessions \ {s} : KeepsAt(o)
          /\ ses'[s].at = "run"
      BY <2>1, AtEffect
    <2>3. \A i \in 1..Len(cmds) : cmds[i] # s
      BY <2>1
    <2> QED
      BY <1>1, <2>1, <2>2, <2>3 DEF KeepsAt, KeepsReports
  <1>11. ASSUME NEW s \in Sessions, OnPrivacy(s) PROVE CommandInv'
    <2>1. ses[s].at = "run" /\ ses'[s].at = "run" /\ \A o \in Sessions \ {s} : ses'[o] = ses[o]
      BY <1>11, OnPrivacyEffect
    <2>2. cmds' = cmds /\ rt' = rt
      BY <1>11 DEF OnPrivacy, server
    <2> QED
      BY <1>1, <2>1, <2>2
  <1>12. ASSUME NEW s \in Sessions, Stop(s) PROVE CommandInv'
    BY <1>1, <1>12, StopEffect DEF Stop, server, KeepsAt, KeepsReports
  <1>13. CASE Install
    <2>1. Dequeued(cmds[1]) /\ cmds # <<>> /\ rt'.cur = cmds[1] /\ cmds[1] \in Sessions
          /\ cmds' = Tail(cmds)
      BY <1>13, InstallEffect DEF Dequeued
    <2>2. cmds' # cmds /\ 1 \in 1..Len(cmds)
      BY <1>1, <2>1, TailOf
    <2>3. /\ \A i, j \in 1..Len(cmds') : cmds'[i] = cmds'[j] => i = j
          /\ \A i \in 1..Len(cmds') : \E j \in 1..Len(cmds) : cmds'[i] = cmds[j]
          /\ \A i \in 1..Len(cmds') : cmds'[i] # cmds[1]
      BY <1>1, <2>1, <2>2, DequeuedKeeps
    <2>4. \A o \in Sessions : KeepsReports(o) /\ KeepsAt(o)
      BY <1>13, InstallEffect
    <2>5. \A i \in 1..Len(cmds') : ses'[cmds'[i]].at \in {"wait", "over"} /\ cmds'[i] # rt'.cur
      BY <1>1, <2>1, <2>3, <2>4 DEF KeepsAt
    <2>6. ses'[rt'.cur].at \in {"wait", "over"}
      BY <2>1, <2>2, <2>4 DEF KeepsAt
    <2> QED
      BY <2>3, <2>4, <2>5, <2>6 DEF KeepsAt, KeepsReports
  <1>14. CASE Published
    <2>1. /\ rt.cur \in Sessions /\ rt'.cur = rt.cur /\ cmds' = cmds
          /\ \A o \in Sessions : KeepsReports(o)
          /\ \A o \in Sessions \ {rt.cur} : KeepsAt(o)
          /\ ses'[rt.cur].at = IF ses[rt.cur].at = "wait" THEN "attached" ELSE ses[rt.cur].at
      BY <1>14, PublishedEffect DEF Published, server
    <2> QED
      BY <1>1, <2>1, SMTT(30) DEF KeepsAt, KeepsReports, Sessions, NoSession
  <1>15. CASE Urgent
    <2>1. /\ rt.cur \in Sessions /\ rt'.cur = rt.cur /\ cmds' = cmds
          /\ \A o \in Sessions \ {rt.cur} : ses'[o] = ses[o]
          /\ ses'[rt.cur].at = ses[rt.cur].at /\ ses[rt.cur].urgent # <<>>
      BY <1>15, UrgentEffect DEF Urgent, server, KeepsAt
    <2> QED
      BY <1>1, <2>1
  <1>16. CASE EndSession
    BY <1>1, <1>16, EndSessionEffect DEF EndSession, NoCurrent, server, KeepsAt, KeepsReports, NoSession, Sessions
  <1> QED
    BY <1>2, <1>3, <1>4, <1>5, <1>6, <1>7, <1>8, <1>9, <1>10, <1>11, <1>12, <1>13, <1>14, <1>15,
       <1>16, Steps

\* Capture follows the current session.
LEMMA StepCapture ==
    ASSUME TypeInv, IdInv, CommandInv, CaptureInv, [Next]_vars
    PROVE  CaptureInv'
  <1> USE DEF CaptureInv, EndedIsRevoked, Dead
  <1>1. rt.cur \in Sessions \cup {NoSession} /\ rt.publishing \in {NoSession, rt.cur}
        /\ NoSession \notin Sessions /\ \A s \in Sessions : ses[s].at = "over" => ses[s].stop
    BY DEF TypeInv, ServerType, Sessions, NoSession, TableType, SessionType
  <1>2. CASE Still
    BY <1>2 DEF Still, server
  <1>3. CASE Shutting
    <2>1. /\ \A o \in Sessions : KeepsAt(o) /\ KeepsLife(o)
          /\ rt' = rt
      BY <1>3, ShutEffect DEF Shutting
    <2> QED
      BY <1>1, <2>1 DEF KeepsAt, KeepsLife
  <1>4. CASE Reporting
    <2>1. PICK t \in Threads : SetPrivacy(t)
      BY <1>4 DEF Reporting
    <2>2. \A o \in Sessions : KeepsAt(o) /\ KeepsLife(o)
      BY <1>4, <2>1, ReportEffect DEF Reporting, SetPrivacy
    <2> QED
      BY <1>1, <2>1, <2>2 DEF SetPrivacy, KeepsAt, KeepsLife
  <1>5. CASE Dial
    <2>1. ses'[link'.id].at = "hello" /\ ses'[link'.id].scope = "none"
      BY <1>5, DialEffect DEF NewSession, SessionAt
    <2>2. rt.cur # link'.id
      BY <1>1, <1>5, DialEffect DEF IdInv, Sessions, TypeInv, LinkType, NoSession
    <2> QED
      BY <1>1, <1>5, <2>1, <2>2, DialEffect DEF Dial
  <1>6. ASSUME NEW s \in Sessions, Claim(s) PROVE CaptureInv'
    <2>1. /\ rt' = rt /\ \A o \in Sessions \ {s} : KeepsAt(o)
          /\ \A o \in Sessions : ses'[o].scope = ses[o].scope /\ (ses[o].stop => ses'[o].stop)
          /\ ses'[s].at \in {"admit", "replace"}
      BY <1>6, ClaimEffect DEF Claim
    <2> QED
      BY <1>1, <2>1 DEF KeepsAt
  <1>7. ASSUME NEW s \in Sessions, Replace(s) PROVE CaptureInv'
    <2>1. /\ rt' = rt /\ ses'[s].at \in {"admit", "replace"}
          /\ \A o \in Sessions \ {s} : KeepsAt(o)
      BY <1>7, ReplaceEffect DEF Replace
    <2>2. ASSUME NEW o \in Sessions
          PROVE  /\ ses'[o].scope = "live" => ses[o].scope = "live"
                 /\ ses'[o].scope = "none" => ses[o].scope = "none"
                 /\ ses[o].stop => ses'[o].stop
      <3>1. CASE o = ses[s].old
        <4>1. ses'[o].stop /\ ses'[o].scope = Dead(ses[o].scope)
          <5> HIDE DEF Dead
          <5> QED
            BY <1>7, <3>1, ReplaceEffect
        <4> QED
          BY <4>1
      <3>2. CASE o # ses[s].old
        BY <1>7, <3>2, ReplaceEffect DEF KeepsLife
      <3> QED
        BY <3>1, <3>2
    <2>3. \A o \in Sessions : /\ ses'[o].at \in {"attached", "run"} => ses[o].at \in {"attached", "run"}
                              /\ ses'[o].at = "over" => ses[o].at = "over"
      BY <2>1 DEF KeepsAt
    <2> QED
      BY <1>1, <2>1, <2>2, <2>3
  <1>8. ASSUME NEW s \in Sessions, Admit(s) PROVE CaptureInv'
    <2>1. /\ \A o \in Sessions : KeepsLife(o)
          /\ \A o \in Sessions \ {s} : KeepsAt(o)
          /\ ses'[s].at = "wait" /\ rt' = rt
      BY <1>8, AtEffect DEF Admit
    <2> QED
      BY <1>1, <2>1 DEF KeepsAt, KeepsLife
  <1>9. ASSUME NEW s \in Sessions, Going(s) PROVE CaptureInv'
    <2>1. /\ rt' = rt /\ \A o \in Sessions \ {s} : ses'[o] = ses[o]
          /\ ses'[s].at = "over" /\ ses'[s].stop /\ ses'[s].scope = Dead(ses[s].scope)
      BY <1>9, GoneEffect DEF Going
    <2> QED
      BY <1>1, <2>1
  <1>10. ASSUME NEW s \in Sessions, Running(s) PROVE CaptureInv'
    <2>1. ses' = [ses EXCEPT ![s].at = "run"] /\ ses[s].at = "attached" /\ rt' = rt
      BY <1>10 DEF Running, Activate
    <2>2. /\ \A o \in Sessions : KeepsLife(o)
          /\ \A o \in Sessions \ {s} : KeepsAt(o)
          /\ ses'[s].at = "run"
      BY <2>1, AtEffect
    <2> QED
      BY <1>1, <2>1, <2>2 DEF KeepsAt, KeepsLife
  <1>11. ASSUME NEW s \in Sessions, OnPrivacy(s) PROVE CaptureInv'
    <2>1. /\ ses[s].at = "run" /\ ses'[s].at = "run" /\ \A o \in Sessions \ {s} : ses'[o] = ses[o]
          /\ ses'[s].scope \in {ses[s].scope, Dead(ses[s].scope)} /\ ~ses[s].stop /\ rt' = rt
      BY <1>11, OnPrivacyEffect, RuntimeStays
    <2> QED
      BY <1>1, <2>1
  <1>12. ASSUME NEW s \in Sessions, Stop(s) PROVE CaptureInv'
    <2>1. /\ \A o \in Sessions : KeepsAt(o) /\ ses'[o].scope = ses[o].scope /\ rt' = rt
          /\ \A o \in Sessions \ {s} : ses'[o].stop = ses[o].stop
          /\ ses'[s].stop
      BY <1>12, StopEffect DEF Stop
    <2> QED
      BY <1>1, <2>1 DEF KeepsAt
  <1>13. CASE Install
    <2> DEFINE h == cmds[1]
               c == rt.cur
    <2>1. /\ h \in Sessions /\ rt'.cur = h /\ rt'.publishing = h /\ rt.publishing = NoSession
          /\ \A o \in Sessions : KeepsAt(o)
          /\ \A o \in Sessions \ {c, h} : KeepsLife(o)
          /\ c # NoSession => ses'[c].stop /\ (c # h => ses'[c].scope = Dead(ses[c].scope))
          /\ ses'[h].scope \in {"dead", "live"}
      BY <1>13, InstallEffect
    <2> HIDE DEF h, c
    <2>2. \A s \in Sessions : ses'[s].scope = "live" => s = h
      BY <1>1, <2>1 DEF KeepsLife, c
    <2>3. \A s \in Sessions : ses'[s].at \in {"attached", "run"} /\ ~ses'[s].stop => s = h
      BY <1>1, <2>1 DEF KeepsLife, KeepsAt, c
    <2>4. \A s \in Sessions : ses'[s].at = "over" /\ rt'.publishing # s => ses'[s].scope # "live"
      BY <2>1, <2>2
    <2> QED
      BY <2>1, <2>2, <2>3, <2>4
  <1>14. CASE Published
    <2>1. /\ rt.cur \in Sessions /\ rt'.cur = rt.cur /\ rt.publishing = rt.cur /\ rt'.publishing = NoSession
          /\ \A o \in Sessions : ses'[o].stop = ses[o].stop
          /\ \A o \in Sessions \ {rt.cur} : KeepsAt(o) /\ KeepsLife(o)
          /\ ses'[rt.cur].scope = IF ses[rt.cur].stop THEN Dead(ses[rt.cur].scope) ELSE ses[rt.cur].scope
          /\ ses'[rt.cur].at = IF ses[rt.cur].at = "wait" THEN "attached" ELSE ses[rt.cur].at
      BY <1>14, PublishedEffect
    <2> QED
      BY <1>1, <2>1 DEF KeepsAt, KeepsLife
  <1>15. CASE Urgent
    <2>1. /\ rt.cur \in Sessions /\ rt'.cur = rt.cur /\ rt.publishing = NoSession
          /\ \A o \in Sessions \ {rt.cur} : ses'[o] = ses[o]
          /\ ses'[rt.cur].at = ses[rt.cur].at /\ ses'[rt.cur].stop = ses[rt.cur].stop
          /\ Handled(rt.cur)
      BY <1>15, UrgentEffect DEF KeepsAt
    <2>2. \/ rt'.publishing = rt.cur /\ ses'[rt.cur].scope = "live"
          \/ rt'.publishing = NoSession /\ ses'[rt.cur].scope \in {ses[rt.cur].scope, Dead(ses[rt.cur].scope)}
      BY <2>1 DEF Handled
    <2> QED
      BY <1>1, <2>1, <2>2
  <1>16. CASE EndSession
    <2>1. /\ rt.cur \in Sessions /\ rt'.cur = NoSession /\ rt'.publishing = NoSession
          /\ rt.publishing = NoSession
          /\ \A o \in Sessions : KeepsAt(o)
          /\ \A o \in Sessions \ {rt.cur} : KeepsLife(o)
          /\ ses'[rt.cur].stop /\ ses'[rt.cur].scope = Dead(ses[rt.cur].scope)
      BY <1>16, EndSessionEffect DEF NoCurrent
    <2> QED
      BY <1>1, <2>1 DEF KeepsAt, KeepsLife
  <1> QED
    BY <1>2, <1>3, <1>4, <1>5, <1>6, <1>7, <1>8, <1>9, <1>10, <1>11, <1>12, <1>13, <1>14, <1>15,
       <1>16, Steps

----------------------------------------------------------------------------
(* The order of the reports                                                *)

\* Reports are numbered by naturals.
LEMMA SeqNat ==
    ASSUME NEW q \in Seq(Reports)
    PROVE  Len(q) \in Nat /\ \A i \in 1..Len(q) : q[i] \in Reports /\ q[i].seq \in Nat
  <1>1. Len(q) \in Nat /\ \A i \in 1..Len(q) : q[i] \in Reports
    BY LenProperties, ElementOfSeq
  <1> QED
    BY <1>1 DEF Reports

\* Nothing queued is in order.
LEMMA OrderedEmpty ==
    ASSUME NEW last PROVE Ordered(<<>>, <<>>, last)
  BY DEF Ordered, Rising

\* A report whose number is above the others' goes to the end of the socket.
LEMMA OrderedAppend ==
    ASSUME NEW u \in Seq(Reports), NEW w \in Seq(Reports), NEW v \in Reports, NEW last \in Nat,
           Ordered(u, w, last), v.seq > last,
           \A i \in 1..Len(u) : u[i].seq < v.seq,
           \A i \in 1..Len(w) : w[i].seq < v.seq
    PROVE  Ordered(u, Append(w, v), last)
  <1> DEFINE x == Append(w, v)
  <1>1. /\ Len(w) \in Nat /\ Len(x) = Len(w) + 1 /\ x[Len(w) + 1] = v
        /\ \A i \in 1..Len(w) : x[i] = w[i]
        /\ \A i \in 1..Len(x) : i \in 1..Len(w) \/ i = Len(w) + 1
    BY AppendOf
  <1> HIDE DEF x
  <1>2. Rising(x)
    <2> SUFFICES ASSUME NEW i \in 1..Len(x), NEW j \in 1..Len(x), i < j
                 PROVE  x[i].seq < x[j].seq
      BY DEF Rising
    <2>1. i \in 1..Len(w)
      BY <1>1
    <2>2. CASE j \in 1..Len(w)
      BY <1>1, <2>1, <2>2 DEF Ordered, Rising
    <2>3. CASE j = Len(w) + 1
      BY <1>1, <2>1, <2>3
    <2> QED
      BY <1>1, <2>2, <2>3
  <1>3. \A i \in 1..Len(u), j \in 1..Len(x) : u[i].seq < x[j].seq
    BY <1>1 DEF Ordered
  <1>4. \A j \in 1..Len(x) : x[j].seq > last
    BY <1>1 DEF Ordered
  <1>5. Rising(u) /\ \A i \in 1..Len(u) : u[i].seq > last
    BY DEF Ordered
  <1>6. Ordered(u, x, last)
    BY <1>2, <1>3, <1>4, <1>5 DEF Ordered
  <1> QED
    BY <1>6 DEF x

\* The end of the socket is lost.
LEMMA OrderedPrefix ==
    ASSUME NEW u, NEW w \in Seq(Reports), NEW last, NEW n \in 0..Len(w), Ordered(u, w, last)
    PROVE  Ordered(u, SubSeq(w, 1, n), last)
  <1> DEFINE x == SubSeq(w, 1, n)
  <1>1. Len(w) \in Nat /\ Len(x) = n /\ \A i \in 1..n : x[i] = w[i]
    <2>1. Len(w) \in Nat
      BY LenProperties
    <2>2. 1 \in 1..(Len(w) + 1) /\ n \in (1 - 1)..Len(w)
      BY <2>1
    <2>3. /\ Len(x) = IF 1 <= n THEN n - 1 + 1 ELSE 0
          /\ \A i \in 1..(n - 1 + 1) : x[i] = w[1 + i - 1]
      BY <2>2, SubSeqProperties
    <2> QED
      BY <2>1, <2>3
  <1>2. \A i \in 1..Len(x) : i \in 1..Len(w) /\ x[i] = w[i]
    BY <1>1
  <1> HIDE DEF x
  <1>3. Ordered(u, x, last)
    BY <1>2 DEF Ordered, Rising
  <1> QED
    BY <1>3 DEF x

\* The socket is gone, or nothing is known of what was applied.
LEMMA OrderedDrop ==
    ASSUME NEW u \in Seq(Reports), NEW w \in Seq(Reports), NEW last \in Nat, Ordered(u, w, last)
    PROVE  Ordered(u, <<>>, last) /\ Ordered(u, w, 0)
  <1>1. \A i \in 1..Len(u) : u[i].seq \in Nat
    BY SeqNat
  <1>2. \A i \in 1..Len(w) : w[i].seq \in Nat
    BY SeqNat
  <1> QED
    BY <1>1, <1>2 DEF Ordered, Rising

\* The link moves the head of the socket to the urgent path, or drops it.
LEMMA OrderedRead ==
    ASSUME NEW u \in Seq(Reports), NEW w \in Seq(Reports), NEW last \in Nat,
           Ordered(u, w, last), w # <<>>
    PROVE  Ordered(Append(u, Head(w)), Tail(w), last) /\ Ordered(u, Tail(w), last)
  <1> DEFINE x == Tail(w)
             y == Append(u, Head(w))
  <1>1. /\ Len(w) \in Nat /\ Len(w) > 0 /\ Len(x) = Len(w) - 1 /\ Head(w) = w[1] /\ w[1] \in Reports
        /\ \A i \in 1..Len(x) : x[i] = w[i + 1] /\ i + 1 \in 1..Len(w)
    BY TailOf
  <1>2. /\ Len(u) \in Nat /\ Len(y) = Len(u) + 1 /\ y[Len(u) + 1] = w[1]
        /\ \A i \in 1..Len(u) : y[i] = u[i]
        /\ \A i \in 1..Len(y) : i \in 1..Len(u) \/ i = Len(u) + 1
    BY <1>1, AppendOf
  <1> HIDE DEF x, y
  <1>3. Rising(x)
    BY <1>1, SMTT(30) DEF Ordered, Rising
  <1>4. 1 \in 1..Len(w)
    BY <1>1
  <1>5. Rising(y)
    <2> SUFFICES ASSUME NEW i \in 1..Len(y), NEW j \in 1..Len(y), i < j
                 PROVE  y[i].seq < y[j].seq
      BY DEF Rising
    <2>1. i \in 1..Len(u)
      BY <1>2
    <2>2. CASE j \in 1..Len(u)
      BY <1>2, <2>1, <2>2 DEF Ordered, Rising
    <2>3. CASE j = Len(u) + 1
      BY <1>2, <1>4, <2>1, <2>3 DEF Ordered
    <2> QED
      BY <1>2, <2>2, <2>3
  <1>6. \A i \in 1..Len(u), j \in 1..Len(x) : u[i].seq < x[j].seq
    BY <1>1 DEF Ordered
  <1>7. \A j \in 1..Len(x) : w[1].seq < x[j].seq
    BY <1>1, <1>4, SMTT(30) DEF Ordered, Rising
  <1>8. \A i \in 1..Len(y), j \in 1..Len(x) : y[i].seq < x[j].seq
    BY <1>2, <1>6, <1>7
  <1>9. /\ \A i \in 1..Len(u) : u[i].seq > last
        /\ \A j \in 1..Len(x) : x[j].seq > last
        /\ w[1].seq > last /\ Rising(u)
    BY <1>1, <1>4 DEF Ordered
  <1>10. \A i \in 1..Len(y) : y[i].seq > last
    BY <1>2, <1>9
  <1>11. Ordered(y, x, last) /\ Ordered(u, x, last)
    BY <1>3, <1>5, <1>6, <1>8, <1>9, <1>10 DEF Ordered
  <1> QED
    BY <1>11 DEF x, y

\* The runtime applies the head of the urgent path.
LEMMA OrderedApply ==
    ASSUME NEW u \in Seq(Reports), NEW w \in Seq(Reports), NEW last \in Nat,
           Ordered(u, w, last), u # <<>>
    PROVE  Ordered(Tail(u), w, u[1].seq) /\ u[1].seq > last
  <1> DEFINE x == Tail(u)
  <1>1. /\ Len(u) \in Nat /\ Len(u) > 0 /\ Len(x) = Len(u) - 1
        /\ \A i \in 1..Len(x) : x[i] = u[i + 1] /\ i + 1 \in 1..Len(u)
    BY TailOf
  <1>2. 1 \in 1..Len(u)
    BY <1>1
  <1> HIDE DEF x
  <1>3. Rising(x) /\ \A i \in 1..Len(x) : x[i].seq > u[1].seq
    <2>1. Rising(x)
      BY <1>1, SMTT(30) DEF Ordered, Rising
    <2>2. ASSUME NEW i \in 1..Len(x) PROVE u[1].seq < x[i].seq
      <3>1. 1 < i + 1
        BY <1>1
      <3> QED
        BY <1>1, <1>2, <3>1 DEF Ordered, Rising
    <2>3. \A i \in 1..Len(u) : u[i].seq \in Nat
      BY SeqNat
    <2> QED
      BY <1>1, <1>2, <2>1, <2>2, <2>3
  <1>4. \A i \in 1..Len(x), j \in 1..Len(w) : x[i].seq < w[j].seq
    BY <1>1 DEF Ordered
  <1>5. \A j \in 1..Len(w) : w[j].seq > u[1].seq
    <2>1. \A j \in 1..Len(w) : u[1].seq < w[j].seq
      BY <1>2 DEF Ordered
    <2>2. \A i \in 1..Len(u) : u[i].seq \in Nat
      BY SeqNat
    <2>3. \A i \in 1..Len(w) : w[i].seq \in Nat
      BY SeqNat
    <2> QED
      BY <1>2, <2>1, <2>2, <2>3
  <1>6. Ordered(x, w, u[1].seq) /\ u[1].seq > last
    BY <1>2, <1>3, <1>4, <1>5 DEF Ordered
  <1> QED
    BY <1>6 DEF x

\* The types of what a session and the runtime hold.
LEMMA Queues ==
    ASSUME TypeInv, NEW s \in Sessions
    PROVE  /\ ses[s].urgent \in Seq(Reports) /\ ses[s].wire \in Seq(Reports)
           /\ Applied(s) \in Nat /\ Len(ses[s].urgent) <= UrgentEvents
           /\ rt.last \in Nat /\ rt.muted \in BOOLEAN /\ ses[s].stop \in BOOLEAN
           /\ ses[s].read \in BOOLEAN /\ ses[s].scope \in {"none", "live", "dead"}
  <1>1. ses[s] \in SessionRecords /\ Len(ses[s].urgent) <= UrgentEvents
    BY DEF TypeInv, ServerType, TableType, SessionType
  <1>2. rt.last \in Nat /\ rt.muted \in BOOLEAN
    BY DEF TypeInv, ServerType
  <1> QED
    BY <1>1, <1>2 DEF SessionRecords, Applied

\* Where a session's reports and what was applied of them stay, so does the order.
LEMMA OrderedStays ==
    ASSUME NEW s \in Sessions, ses'[s].urgent = ses[s].urgent, ses'[s].wire = ses[s].wire,
           rt'.cur = rt.cur, rt'.last = rt.last,
           Ordered(ses[s].urgent, ses[s].wire, Applied(s))
    PROVE  Ordered(ses'[s].urgent, ses'[s].wire, Applied(s)')
  <1>1. Applied(s)' = Applied(s)
    BY DEF Applied
  <1> QED
    BY <1>1

\* Reports stay in order, from the device's socket to the runtime.
LEMMA StepOrder ==
    ASSUME TypeInv, IdInv, NumberInv, OrderInv, [Next]_vars
    PROVE  OrderInv'
  <1> SUFFICES ASSUME NEW o \in Sessions, o \notin ghost'.mixed
               PROVE  Ordered(ses'[o].urgent, ses'[o].wire, Applied(o)')
    BY DEF OrderInv
  <1> DEFINE Same == /\ ses'[o].urgent = ses[o].urgent /\ ses'[o].wire = ses[o].wire
                     /\ rt'.cur = rt.cur /\ rt'.last = rt.last
                     /\ o \notin ghost.mixed
  <1> DEFINE Was == Ordered(ses[o].urgent, ses[o].wire, Applied(o)) 
  <1>1. o \notin ghost.mixed => Was
    BY DEF OrderInv
  <1>2. ASSUME Same PROVE Ordered(ses'[o].urgent, ses'[o].wire, Applied(o)')
    BY <1>1, <1>2, OrderedStays
  <1>q. /\ ses[o].urgent \in Seq(Reports) /\ ses[o].wire \in Seq(Reports) /\ Applied(o) \in Nat
        /\ NoSession \notin Sessions
    BY Queues DEF Sessions, NoSession
  <1>3. CASE Still
    BY <1>2, <1>3 DEF Still
  <1>4. CASE Shutting
    <2>1. rt' = rt /\ ghost' = ghost /\ ses'[o].urgent = ses[o].urgent
          /\ (o # link.id => ses'[o].wire = ses[o].wire)
      BY <1>4, ShutEffect DEF Shutting, KeepsReports
    <2>2. CASE o # link.id
      BY <1>2, <2>1, <2>2
    <2>3. CASE o = link.id
      <3>1. PICK n \in 0..Len(ses[o].wire) : ses'[o].wire = SubSeq(ses[o].wire, 1, n)
        BY <1>4, <2>3, ShutEffect DEF Shutting
      <3>2. Applied(o)' = Applied(o) /\ Was
        BY <1>1, <2>1 DEF Applied
      <3>3. Ordered(ses[o].urgent, SubSeq(ses[o].wire, 1, n), Applied(o))
        BY <1>q, <3>2, OrderedPrefix
      <3> QED
        BY <2>1, <3>1, <3>2, <3>3
    <2> QED
      BY <2>2, <2>3
  <1>5. CASE Reporting
    <2>1. PICK t \in Threads : SetPrivacy(t)
      BY <1>5 DEF Reporting
    <2> DEFINE v == [muted |-> thr[t].v, seq |-> thr[t].seq]
    <2>2. rt' = rt /\ link.phase = "up" /\ Report(v) /\ At(t, "send")
      BY <1>5, <2>1 DEF Reporting, SetPrivacy
    <2>3. ghost' = [ghost EXCEPT !.stale = FALSE,
                !.mixed = IF v.seq < dev.seq THEN @ \cup {link.id} ELSE @]
      BY <2>2 DEF Report
    <2>4. ghost'.mixed = IF v.seq < dev.seq THEN ghost.mixed \cup {link.id} ELSE ghost.mixed
      BY <2>3 DEF TypeInv, LinkType
    <2>5. o \notin ghost.mixed /\ Was /\ ses'[o].urgent = ses[o].urgent
      BY <1>1, <2>2, <2>4, ReportEffect DEF KeepsReports
    <2>6. CASE ses'[o].wire = ses[o].wire
      BY <1>2, <2>2, <2>5, <2>6
    <2>7. CASE ses'[o].wire # ses[o].wire
      <3>1. o = link.id /\ ses'[o].wire = Append(ses[o].wire, v)
        BY <2>2, <2>7, ReportEffect DEF KeepsReports
      <3>2. v \in Reports /\ thr[t].seq \in Nat /\ dev.seq \in Nat
        BY GoroutineType DEF TypeInv, DeviceType, Devices, Reports
      <3>3. v.seq = thr[t].seq /\ ~(v.seq < dev.seq)
        BY <2>4, <3>1
      <3>4. thr[t].seq = dev.seq /\ thr[t].seq > 0
        BY <2>2, <3>2, <3>3 DEF NumberInv
      <3>5. \A n \in Nat : Taken(n) => n < v.seq
        BY <2>2, <3>2, <3>4 DEF Taken
      <3>6. \A i \in 1..Len(ses[o].wire) : ses[o].wire[i].seq < v.seq
        BY <1>q, <2>2, <3>1, <3>5, SeqNat DEF NumberInv
      <3>7. \A i \in 1..Len(ses[o].urgent) : ses[o].urgent[i].seq < v.seq
        BY <1>q, <2>2, <3>1, <3>5, SeqNat DEF NumberInv
      <3>8. v.seq > Applied(o)
        <4>1. CASE rt.cur = o
          <5>1. rt.last < v.seq
            BY <2>2, <3>1, <3>5, <4>1, Queues DEF NumberInv
          <5> QED
            BY <1>q, <3>2, <4>1, <5>1 DEF Applied
        <4>2. CASE rt.cur # o
          BY <3>4, <4>2 DEF Applied
        <4> QED
          BY <4>1, <4>2
      <3> HIDE DEF v
      <3>9. Ordered(ses[o].urgent, Append(ses[o].wire, v), Applied(o))
        BY <1>q, <2>5, <3>2, <3>6, <3>7, <3>8, OrderedAppend
      <3>10. Applied(o)' = Applied(o)
        BY <2>2 DEF Applied
      <3> QED
        BY <2>5, <3>1, <3>9, <3>10
    <2> QED
      BY <2>6, <2>7
  <1>6. CASE Dial
    <2>1. rt' = rt /\ ghost'.mixed = ghost.mixed
      BY <1>6 DEF Dial, TypeInv, LinkType
    <2>2. CASE o = link'.id
      <3>1. ses'[o].wire = <<>> /\ ses'[o].urgent = <<>>
        BY <1>6, <2>2, DialEffect DEF NewSession, SessionAt
      <3> QED
        BY <3>1, OrderedEmpty
    <2>3. CASE o # link'.id
      BY <1>2, <1>6, <2>1, <2>3, DialEffect
    <2> QED
      BY <2>2, <2>3
  <1>7. ASSUME NEW s \in Sessions, Claim(s) \/ Replace(s) \/ Admit(s) \/ Running(s) \/ Stop(s) PROVE Same
    <2>1. rt' = rt /\ ghost' = ghost
      BY <1>7 DEF Claim, Replace, Admit, Running, Activate, Stop
    <2>2. CASE Claim(s)
      BY <2>1, <2>2, ClaimEffect DEF KeepsReports
    <2>3. CASE Replace(s)
      BY <2>1, <2>3, ReplaceEffect DEF KeepsReports
    <2>4. CASE Admit(s)
      BY <2>1, <2>4, AtEffect DEF KeepsReports, Admit
    <2>5. CASE Running(s)
      BY <2>1, <2>5, AtEffect DEF KeepsReports, Running, Activate
    <2>6. CASE Stop(s)
      BY <2>1, <2>6, StopEffect DEF KeepsReports
    <2> QED
      BY <1>7, <2>2, <2>3, <2>4, <2>5, <2>6
  <1>8. ASSUME NEW s \in Sessions, Going(s)
        PROVE  Ordered(ses'[o].urgent, ses'[o].wire, Applied(o)')
    <2>1. rt' = rt /\ ghost' = ghost
      BY <1>8 DEF Going
    <2>2. CASE o # s
      BY <1>2, <1>8, <2>1, <2>2, GoneEffect DEF Going
    <2>3. CASE o = s
      <3>1. ses'[o].wire = <<>> /\ ses'[o].urgent = ses[o].urgent
        BY <1>8, <2>3, GoneEffect DEF Going
      <3>2. Applied(o)' = Applied(o) /\ Was
        BY <1>1, <2>1 DEF Applied
      <3> QED
        BY <1>q, <3>1, <3>2, OrderedDrop
    <2> QED
      BY <2>2, <2>3
  <1>9. ASSUME NEW s \in Sessions, OnPrivacy(s)
        PROVE  Ordered(ses'[o].urgent, ses'[o].wire, Applied(o)')
    <2>1. rt' = rt /\ ghost' = ghost
      BY <1>9 DEF OnPrivacy
    <2>2. CASE o # s
      BY <1>2, <1>9, <2>1, <2>2, OnPrivacyEffect
    <2>3. CASE o = s
      <3>1. /\ ses'[o].wire = Tail(ses[o].wire) /\ ses[o].wire # <<>>
            /\ ses'[o].urgent \in {ses[o].urgent, Append(ses[o].urgent, Head(ses[o].wire))}
        BY <1>9, <2>3, OnPrivacyEffect
      <3>2. Applied(o)' = Applied(o) /\ Was
        BY <1>1, <2>1 DEF Applied
      <3> QED
        BY <1>q, <3>1, <3>2, OrderedRead
    <2> QED
      BY <2>2, <2>3
  <1>10. CASE Install \/ EndSession
    <2>1. Applied(o)' = 0 \/ Applied(o)' = Applied(o)
      <3>1. CASE Install
        BY <3>1, InstallEffect DEF Applied
      <3>2. CASE EndSession
        BY <3>2, EndSessionEffect DEF Applied, NoCurrent
      <3> QED
        BY <1>10, <3>1, <3>2
    <2>2. KeepsReports(o) /\ ghost' = ghost
      BY <1>10, InstallEffect, EndSessionEffect DEF Install, EndSession
    <2>3. Was
      BY <1>1, <2>2
    <2> QED
      BY <1>q, <2>1, <2>2, <2>3, OrderedDrop DEF KeepsReports
  <1>11. CASE Published
    <2>1. KeepsReports(o) /\ ghost' = ghost /\ rt'.cur = rt.cur /\ rt'.last = rt.last
      BY <1>11, PublishedEffect DEF Published
    <2> QED
      BY <1>2, <2>1 DEF KeepsReports
  <1>12. CASE Urgent
    <2>1. ghost' = ghost /\ rt'.cur = rt.cur /\ rt.cur \in Sessions
      BY <1>12, UrgentEffect DEF Urgent
    <2>2. CASE o # rt.cur
      <3>1. Applied(o)' = Applied(o) /\ ses'[o] = ses[o] /\ Was
        BY <1>1, <1>12, <2>1, <2>2, UrgentEffect DEF Applied
      <3> QED
        BY <3>1
    <2>3. CASE o = rt.cur
      <3>1. /\ ses'[o].wire = ses[o].wire /\ ses'[o].urgent = Tail(ses[o].urgent)
            /\ ses[o].urgent # <<>> /\ Handled(o) /\ ses[o].urgent[1] \in Reports
        BY <1>12, <2>3, UrgentEffect
      <3>2. Was /\ Applied(o) = rt.last /\ Applied(o)' = rt'.last
        BY <1>1, <2>1, <2>3 DEF Applied
      <3>3. Ordered(Tail(ses[o].urgent), ses[o].wire, ses[o].urgent[1].seq)
            /\ ses[o].urgent[1].seq > rt.last
        BY <1>q, <3>1, <3>2, OrderedApply
      <3>4. rt'.last = ses[o].urgent[1].seq
        BY <1>q, <3>1, <3>2, <3>3 DEF Handled, Reports
      <3> QED
        BY <3>1, <3>2, <3>3, <3>4
    <2> QED
      BY <2>2, <2>3
  <1> HIDE DEF Same
  <1> QED
    BY <1>2, <1>3, <1>4, <1>5, <1>6, <1>7, <1>8, <1>9, <1>10, <1>11, <1>12, Steps

\* The last of a queue, and what is left of it without its head.
Last1(q) == q[Len(q)]

\* The last of a queue stays the last when its head is taken.
LEMMA LastOf ==
    ASSUME NEW q \in Seq(Reports), q # <<>>
    PROVE  /\ Last1(q) \in Reports /\ Len(q) \in 1..Len(q)
           /\ Tail(q) # <<>> => Last1(Tail(q)) = Last1(q)
           /\ Tail(q) = <<>> => Last1(q) = q[1] /\ Head(q) = q[1]
           /\ \A v \in Reports : Last1(Append(q, v)) = v
  <1>1. /\ Len(q) \in Nat /\ Len(q) > 0 /\ Len(Tail(q)) = Len(q) - 1 /\ Head(q) = q[1]
        /\ \A i \in 1..Len(Tail(q)) : Tail(q)[i] = q[i + 1]
        /\ Tail(q) \in Seq(Reports)
    BY TailOf
  <1>2. Last1(q) \in Reports /\ Len(q) \in 1..Len(q)
    BY <1>1, SeqNat DEF Last1
  <1>3. ASSUME Tail(q) # <<>> PROVE Last1(Tail(q)) = Last1(q)
    <2>1. Len(Tail(q)) \in Nat /\ Len(Tail(q)) > 0
      BY <1>1, <1>3, TailOf
    <2> QED
      BY <1>1, <2>1 DEF Last1
  <1>4. ASSUME Tail(q) = <<>> PROVE Last1(q) = q[1]
    <2> DEFINE x == Tail(q)
    <2>1. x = <<>>
      BY <1>4
    <2>2. Len(q) \in Nat /\ Len(x) = Len(q) - 1
      BY <1>1
    <2> HIDE DEF x
    <2>3. Len(x) = 0
      BY <2>1, EmptySeq
    <2>4. Len(q) = 1
      BY <2>2, <2>3
    <2> QED
      BY <2>4 DEF Last1
  <1>5. ASSUME NEW v \in Reports PROVE Last1(Append(q, v)) = v
    BY <1>1, AppendOf DEF Last1
  <1> QED
    BY <1>1, <1>2, <1>3, <1>4, <1>5

\* What is appended is the last.
LEMMA LastAppend ==
    ASSUME NEW q \in Seq(Reports), NEW v \in Reports
    PROVE  Last1(Append(q, v)) = v /\ Append(q, v) # <<>>
  BY AppendOf DEF Last1

\* The invariants that speak of one session, in its own terms.
ReadOf(x) == ~x.stop /\ x.urgent # <<>> => Last1(x.urgent).muted = x.read
HeardOf(x) == x.scope = "live" /\ x.read /\ ~x.stop => x.urgent # <<>> /\ Last1(x.urgent).muted

\* ReadInv and HeardInv are statements about one session each.
LEMMA SessionForms ==
    /\ ReadInv <=> \A s \in Sessions : ReadOf(ses[s])
    /\ HeardInv <=> \A s \in Sessions : s \notin ghost.mixed => HeardOf(ses[s])
  BY DEF ReadInv, ReadOf, HeardInv, MuteIsHeard, HeardOf, Last1

\* A step that changes no report and only stops or revokes.
Calmed(o) ==
    /\ KeepsReports(o) /\ (ses[o].stop => ses'[o].stop)
    /\ ses'[o].scope = "live" => ses[o].scope = "live"
\* Such a step keeps what was read and heard.
LEMMA CalmedKeeps ==
    ASSUME NEW o \in Sessions, Calmed(o)
    PROVE  /\ ReadOf(ses[o]) => ReadOf(ses'[o])
           /\ HeardOf(ses[o]) => HeardOf(ses'[o])
  BY DEF Calmed, KeepsReports, ReadOf, HeardOf

\* Which steps those are.
LEMMA CalmSteps ==
    ASSUME TypeInv, NEW o \in Sessions,
           \/ Still
           \/ \E s \in Sessions : \/ Claim(s) \/ Replace(s) \/ Admit(s) \/ Running(s) \/ Stop(s)
           \/ Published \/ EndSession
    PROVE  Calmed(o) /\ ghost'.mixed = ghost.mixed
  <1> USE DEF Calmed
  <1>1. CASE Still
    BY <1>1 DEF Still, KeepsReports
  <1>2. ASSUME NEW s \in Sessions, Claim(s) PROVE Calmed(o) /\ ghost' = ghost
    <2>1. KeepsReports(o) /\ ses'[o].scope = ses[o].scope /\ ses'[o].stop = (ses[o].stop \/ o = claim)
      BY <1>2, ClaimEffect
    <2> QED
      BY <1>2, <2>1 DEF Claim
  <1>3. ASSUME NEW s \in Sessions, Replace(s) PROVE Calmed(o) /\ ghost' = ghost
    <2>1. KeepsReports(o) /\ ghost' = ghost /\ (o # ses[s].old => KeepsLife(o))
      BY <1>3, ReplaceEffect DEF Replace
    <2>2. CASE o = ses[s].old
      <3>1. ses'[o].stop /\ ses'[o].scope = Dead(ses[o].scope)
        BY <1>3, <2>2, ReplaceEffect
      <3> QED
        BY <2>1, <3>1 DEF Dead
    <2>3. CASE o # ses[s].old
      BY <2>1, <2>3 DEF KeepsLife
    <2> QED
      BY <2>2, <2>3
  <1>4. ASSUME NEW s \in Sessions, Admit(s) \/ Running(s) PROVE Calmed(o) /\ ghost' = ghost
    <2>1. KeepsReports(o) /\ KeepsLife(o) /\ ghost' = ghost
      BY <1>4, AtEffect, SMTT(30) DEF Admit, Running, Activate
    <2> QED
      BY <2>1 DEF KeepsLife
  <1>5. ASSUME NEW s \in Sessions, Stop(s) PROVE Calmed(o) /\ ghost' = ghost
    BY <1>5, StopEffect DEF Stop
  <1>6. CASE Published
    <2>1. KeepsReports(o) /\ ghost' = ghost /\ ses'[o].stop = ses[o].stop
          /\ (o # rt.publishing => ses'[o].scope = ses[o].scope)
          /\ (o = rt.publishing => ses'[o].scope = IF ses[o].stop THEN Dead(ses[o].scope) ELSE ses[o].scope)
      BY <1>6, PublishedEffect DEF Published, KeepsLife
    <2> QED
      BY <2>1 DEF Dead
  <1>7. CASE EndSession
    <2>1. KeepsReports(o) /\ ghost' = ghost /\ (o # rt.cur => KeepsLife(o))
          /\ (o = rt.cur => ses'[o].stop /\ ses'[o].scope = Dead(ses[o].scope))
      BY <1>7, EndSessionEffect DEF EndSession
    <2> QED
      BY <2>1 DEF Dead, KeepsLife
  <1> QED
    BY <1>1, <1>2, <1>3, <1>4, <1>5, <1>6, <1>7

\* The last mute the link read reaches the runtime.
LEMMA StepHeard ==
    ASSUME TypeInv, CommandInv, OrderInv, ReadInv, HeardInv, [Next]_vars
    PROVE  ReadInv' /\ HeardInv'
  <1> SUFFICES ASSUME NEW o \in Sessions
               PROVE  ReadOf(ses'[o]) /\ (o \notin ghost'.mixed => HeardOf(ses'[o]))
    BY DEF ReadInv, ReadOf, HeardInv, MuteIsHeard, HeardOf, Last1
  <1> DEFINE Goal == ReadOf(ses'[o]) /\ (o \notin ghost'.mixed => HeardOf(ses'[o]))
             u == ses[o].urgent
  <1>1. ReadOf(ses[o]) /\ (o \notin ghost.mixed => HeardOf(ses[o]))
    BY SessionForms
  <1>2. /\ u \in Seq(Reports) /\ ses[o].wire \in Seq(Reports) /\ Len(u) <= UrgentEvents
        /\ Applied(o) \in Nat /\ rt.last \in Nat
        /\ ses[o].stop \in BOOLEAN /\ ses[o].read \in BOOLEAN
    BY Queues
  <1>3. ASSUME Calmed(o), ghost.mixed \subseteq ghost'.mixed PROVE Goal
    BY <1>1, <1>3, CalmedKeeps
  <1>4. ASSUME ses'[o] = ses[o], ghost.mixed \subseteq ghost'.mixed PROVE Goal
    BY <1>1, <1>4
  <1>5. CASE Still \/ Published \/ EndSession
    BY <1>3, <1>5, CalmSteps
  <1>s. ASSUME NEW s \in Sessions, Claim(s) \/ Replace(s) \/ Admit(s) \/ Running(s) \/ Stop(s)
        PROVE  Goal
    BY <1>3, <1>s, CalmSteps
  <1>6. ASSUME ses'[o].urgent = u, ses'[o].read = ses[o].read, KeepsLife(o),
               ghost.mixed \subseteq ghost'.mixed
        PROVE  Goal
    BY <1>1, <1>6 DEF ReadOf, HeardOf, KeepsLife
  <1>7. CASE Shutting
    <2>1. ses'[o].urgent = u /\ ses'[o].read = ses[o].read /\ KeepsLife(o) /\ ghost' = ghost
      BY <1>7, ShutEffect DEF Shutting, KeepsReports
    <2> QED
      BY <1>6, <2>1
  <1>8. CASE Reporting
    <2>1. PICK t \in Threads : SetPrivacy(t)
      BY <1>8 DEF Reporting
    <2> DEFINE v == [muted |-> thr[t].v, seq |-> thr[t].seq]
    <2>2. link.phase = "up" /\ Report(v)
      BY <1>8, <2>1 DEF Reporting, SetPrivacy
    <2>3. ghost.mixed \subseteq ghost'.mixed
      <3>1. ghost' = [ghost EXCEPT !.stale = FALSE,
                !.mixed = IF v.seq < dev.seq THEN @ \cup {link.id} ELSE @]
        BY <2>2 DEF Report
      <3>2. ghost'.mixed = IF v.seq < dev.seq THEN ghost.mixed \cup {link.id} ELSE ghost.mixed
        BY <3>1 DEF TypeInv, LinkType
      <3> QED
        BY <3>2
    <2>4. ses'[o].urgent = u /\ ses'[o].read = ses[o].read /\ KeepsLife(o)
      BY <2>2, ReportEffect DEF KeepsReports
    <2> QED
      BY <1>6, <2>3, <2>4
  <1>9. CASE Dial
    <2>1. ghost'.mixed = ghost.mixed
      BY <1>9 DEF Dial, TypeInv, LinkType
    <2>2. CASE o = link'.id
      <3>1. ses'[o].urgent = <<>> /\ ses'[o].scope = "none"
        BY <1>9, <2>2, DialEffect DEF NewSession, SessionAt
      <3> QED
        BY <3>1 DEF ReadOf, HeardOf
    <2>3. CASE o # link'.id
      BY <1>4, <1>9, <2>1, <2>3, DialEffect
    <2> QED
      BY <2>2, <2>3
  <1>10. ASSUME NEW s \in Sessions, Going(s) PROVE Goal
    <2>1. ghost' = ghost
      BY <1>10 DEF Going
    <2>2. CASE o = s
      <3>1. ses'[o].stop
        BY <1>10, <2>2, GoneEffect DEF Going
      <3> QED
        BY <3>1 DEF ReadOf, HeardOf
    <2>3. CASE o # s
      BY <1>4, <1>10, <2>1, <2>3, GoneEffect DEF Going
    <2> QED
      BY <2>2, <2>3
  <1>11. ASSUME NEW s \in Sessions, OnPrivacy(s) PROVE Goal
    <2>1. ghost' = ghost
      BY <1>11 DEF OnPrivacy
    <2>2. CASE o = s
      <3> DEFINE v == Head(ses[o].wire)
      <3>1. /\ ses'[o].read = v.muted /\ ses'[o].stop = (Len(u) >= UrgentEvents)
            /\ ses'[o].scope = IF v.muted THEN Dead(ses[o].scope) ELSE ses[o].scope
            /\ ses'[o].urgent = IF Len(u) < UrgentEvents THEN Append(u, v) ELSE u
            /\ v \in Reports
        BY <1>11, <2>2, OnPrivacyEffect
      <3>2. Len(u) \in Nat /\ UrgentEvents \in Nat
        BY <1>2, LenProperties, UrgentAssumption
      <3>3. CASE Len(u) >= UrgentEvents
        <4>1. ses'[o].stop
          BY <3>1, <3>3
        <4> QED
          BY <4>1 DEF ReadOf, HeardOf
      <3>4. CASE Len(u) < UrgentEvents
        <4>1. ses'[o].urgent = Append(u, v)
          BY <3>1, <3>4
        <4>2. ses'[o].urgent # <<>> /\ Last1(ses'[o].urgent) = v
          BY <1>2, <3>1, <4>1, LastAppend
        <4>3. ReadOf(ses'[o])
          BY <3>1, <4>2 DEF ReadOf
        <4>4. HeardOf(ses'[o])
          BY <3>1, <4>2 DEF HeardOf
        <4> QED
          BY <4>3, <4>4
      <3> QED
        BY <3>2, <3>3, <3>4
    <2>3. CASE o # s
      BY <1>4, <1>11, <2>1, <2>3, OnPrivacyEffect
    <2> QED
      BY <2>2, <2>3
  <1>12. CASE Install
    <2>1. ghost' = ghost /\ KeepsReports(o) /\ NoSession \notin Sessions
      BY <1>12, InstallEffect DEF Install, Sessions, NoSession
    <2>2. CASE o = cmds[1]
      <3>1. /\ ses'[o].scope = IF ses[o].hello THEN "dead" ELSE "live"
            /\ (ses[o].stop => ses'[o].stop) /\ cmds # <<>>
        BY <1>12, <2>1, <2>2, InstallEffect
      <3>2. ses[o].at \in {"wait", "over"}
        <4>1. cmds \in Seq(Sessions)
          BY DEF TypeInv, ServerType
        <4>2. 1 \in 1..Len(cmds)
          BY <3>1, <4>1, TailOf
        <4> QED
          BY <2>2, <4>2 DEF CommandInv
      <3>3. CASE ses[o].at = "over"
        <4>1. ses'[o].stop
          BY <3>1, <3>3 DEF TypeInv, ServerType, TableType, SessionType
        <4> QED
          BY <4>1 DEF ReadOf, HeardOf
      <3>4. CASE ses[o].at = "wait"
        <4>1. u = <<>> /\ ses[o].read = ses[o].hello
          BY <3>4 DEF CommandInv
        <4> QED
          BY <2>1, <3>1, <4>1 DEF ReadOf, HeardOf, KeepsReports
      <3> QED
        BY <3>2, <3>3, <3>4
    <2>3. CASE o # cmds[1] /\ o = rt.cur
      <3>1. ses'[o].stop
        BY <1>12, <2>1, <2>3, InstallEffect
      <3> QED
        BY <3>1 DEF ReadOf, HeardOf
    <2>4. CASE o # cmds[1] /\ o # rt.cur
      <3>1. KeepsLife(o)
        BY <1>12, <2>4, InstallEffect
      <3> QED
        BY <1>6, <2>1, <3>1 DEF KeepsReports
    <2> QED
      BY <2>2, <2>3, <2>4
  <1>13. CASE Urgent
    <2>1. ghost' = ghost
      BY <1>13 DEF Urgent
    <2>2. CASE o # rt.cur
      BY <1>4, <1>13, <2>1, <2>2, UrgentEffect
    <2>3. CASE o = rt.cur
      <3> DEFINE v == u[1]
      <3>1. /\ ses'[o].stop = ses[o].stop /\ ses'[o].read = ses[o].read
            /\ ses'[o].urgent = Tail(u) /\ u # <<>> /\ v \in Reports /\ Handled(o)
        BY <1>13, <2>3, UrgentEffect
      <3>2. Tail(u) # <<>> => Last1(Tail(u)) = Last1(u)
        BY <1>2, <3>1, LastOf
      <3>3. ReadOf(ses'[o])
        BY <1>1, <3>1, <3>2 DEF ReadOf
      <3>4. ASSUME o \notin ghost.mixed PROVE HeardOf(ses'[o])
        <4> SUFFICES ASSUME ses'[o].scope = "live", ses'[o].read, ~ses'[o].stop
                     PROVE  ses'[o].urgent # <<>> /\ Last1(ses'[o].urgent).muted
          BY DEF HeardOf
        <4>1. Last1(u).muted = ses[o].read
          BY <1>1, <3>1 DEF ReadOf
        <4>2. Last1(u).muted
          BY <3>1, <4>1
        <4>3. v.seq > rt.last
          BY <1>2, <2>3, <3>1, <3>4, OrderedApply DEF OrderInv, Applied
        <4>4. ses'[o].scope = IF v.muted THEN Dead(ses[o].scope) ELSE ses'[o].scope
          BY <1>2, <3>1, <4>3 DEF Handled, Reports
        <4>5. ~v.muted
          BY <4>4 DEF Dead
        <4>6. Tail(u) # <<>>
          BY <1>2, <3>1, <4>2, <4>5, LastOf
        <4> QED
          BY <3>1, <3>2, <4>2, <4>6
      <3> QED
        BY <2>1, <3>3, <3>4
    <2> QED
      BY <2>2, <2>3
  <1>14. \/ Still \/ Shutting \/ Reporting \/ Dial
        \/ \E s \in Sessions : \/ Claim(s) \/ Replace(s) \/ Admit(s) \/ Going(s)
                               \/ Running(s) \/ OnPrivacy(s) \/ Stop(s)
        \/ Install \/ Published \/ Urgent \/ EndSession
    BY Steps
  <1> QED
    BY <1>5, <1>s, <1>7, <1>8, <1>9, <1>10, <1>11, <1>12, <1>13, <1>14

\* The capture of the current session, in terms of what ScopeInv reads.
ScopeOf(x, muted) ==
    ~x.stop =>
        /\ muted => x.scope = "dead"
        /\ ~muted /\ x.scope # "live" => \E i \in 1..Len(x.urgent) : x.urgent[i].muted
MutedOf(x, muted) == ~x.stop /\ muted => x.scope = "dead"

\* The current session's capture follows the runtime's mute.
LEMMA StepScope ==
    ASSUME TypeInv, IdInv, CaptureInv, OrderInv, ScopeInv, [Next]_vars
    PROVE  ScopeInv'
  <1> SUFFICES ASSUME NEW o \in Sessions, o = rt'.cur
               PROVE  MutedOf(ses'[o], rt'.muted)
                      /\ (o \notin ghost'.mixed => ScopeOf(ses'[o], rt'.muted))
    BY DEF ScopeInv, ScopeOf, MutedOf
  <1> DEFINE Goal == MutedOf(ses'[o], rt'.muted)
                      /\ (o \notin ghost'.mixed => ScopeOf(ses'[o], rt'.muted))
             u == ses[o].urgent
  <1>1. o = rt.cur => /\ MutedOf(ses[o], rt.muted)
                      /\ o \notin ghost.mixed => ScopeOf(ses[o], rt.muted)
    BY DEF ScopeInv, ScopeOf, MutedOf
  <1>2. /\ u \in Seq(Reports) /\ ses[o].wire \in Seq(Reports) /\ Len(u) <= UrgentEvents
        /\ Applied(o) \in Nat /\ rt.last \in Nat /\ rt.muted \in BOOLEAN
        /\ ses[o].stop \in BOOLEAN /\ ses[o].scope \in {"none", "live", "dead"}
    BY Queues
  <1>3. ASSUME rt'.cur = rt.cur, rt'.muted = rt.muted, ghost.mixed \subseteq ghost'.mixed,
               ses'[o].urgent = u, ses[o].stop => ses'[o].stop,
               ses'[o].stop \/ ses'[o].scope = ses[o].scope
        PROVE  Goal
    BY <1>1, <1>3 DEF MutedOf, ScopeOf
  <1>4. CASE Still
    BY <1>3, <1>4 DEF Still
  <1>5. CASE Shutting
    <2>1. ses'[o].urgent = u /\ KeepsLife(o) /\ ghost' = ghost /\ rt' = rt
      BY <1>5, ShutEffect DEF Shutting, KeepsReports
    <2> QED
      BY <1>3, <2>1 DEF KeepsLife
  <1>6. CASE Reporting
    <2>1. PICK t \in Threads : SetPrivacy(t)
      BY <1>6 DEF Reporting
    <2> DEFINE v == [muted |-> thr[t].v, seq |-> thr[t].seq]
    <2>2. link.phase = "up" /\ Report(v) /\ rt' = rt
      BY <1>6, <2>1 DEF Reporting, SetPrivacy
    <2>3. ghost.mixed \subseteq ghost'.mixed
      <3>1. ghost' = [ghost EXCEPT !.stale = FALSE,
                !.mixed = IF v.seq < dev.seq THEN @ \cup {link.id} ELSE @]
        BY <2>2 DEF Report
      <3>2. ghost'.mixed = IF v.seq < dev.seq THEN ghost.mixed \cup {link.id} ELSE ghost.mixed
        BY <3>1 DEF TypeInv, LinkType
      <3> QED
        BY <3>2
    <2>4. ses'[o].urgent = u /\ KeepsLife(o)
      BY <2>2, ReportEffect DEF KeepsReports
    <2> QED
      BY <1>3, <2>2, <2>3, <2>4 DEF KeepsLife
  <1>7. CASE Dial
    <2>1. ghost'.mixed = ghost.mixed /\ rt' = rt
      BY <1>7 DEF Dial, TypeInv, LinkType
    <2>2. o # link'.id
      BY <1>7, <2>1, DialEffect DEF IdInv, Sessions, TypeInv, LinkType
    <2>3. ses'[o] = ses[o]
      BY <1>7, <2>2, DialEffect
    <2> QED
      BY <1>3, <2>1, <2>3
  <1>8. ASSUME NEW s \in Sessions, Claim(s) \/ Admit(s) \/ Running(s) \/ Stop(s) PROVE Goal
    <2>1. rt' = rt /\ ghost' = ghost
      BY <1>8 DEF Claim, Admit, Running, Activate, Stop
    <2>2. ses'[o].urgent = u /\ ses'[o].scope = ses[o].scope /\ (ses[o].stop => ses'[o].stop)
      <3>1. CASE Claim(s)
        <4>1. KeepsReports(o) /\ ses'[o].scope = ses[o].scope /\ ses'[o].stop = (ses[o].stop \/ o = claim)
          BY <3>1, ClaimEffect
        <4> QED
          BY <4>1 DEF KeepsReports
      <3>2. CASE Admit(s) \/ Running(s)
        <4>1. KeepsReports(o) /\ KeepsLife(o)
          BY <3>2, AtEffect DEF Admit, Running, Activate
        <4> QED
          BY <4>1 DEF KeepsReports, KeepsLife
      <3>3. CASE Stop(s)
        BY <3>3, StopEffect DEF KeepsReports
      <3> QED
        BY <1>8, <3>1, <3>2, <3>3
    <2> QED
      BY <1>3, <2>1, <2>2
  <1>9. ASSUME NEW s \in Sessions, Replace(s) PROVE Goal
    <2>1. rt' = rt /\ ghost' = ghost /\ ses'[o].urgent = u /\ (o # ses[s].old => KeepsLife(o))
      BY <1>9, ReplaceEffect DEF Replace, KeepsReports
    <2>2. o = ses[s].old => ses'[o].stop
      BY <1>9, ReplaceEffect
    <2> QED
      BY <1>3, <2>1, <2>2 DEF KeepsLife
  <1>10. ASSUME NEW s \in Sessions, Going(s) PROVE Goal
    <2>1. rt' = rt /\ ghost' = ghost
      BY <1>10 DEF Going
    <2>2. ses'[o].urgent = u /\ (ses'[o].stop \/ ses'[o] = ses[o])
      <3>1. CASE o = s
        BY <1>10, <3>1, GoneEffect DEF Going
      <3>2. CASE o # s
        BY <1>10, <3>2, GoneEffect DEF Going
      <3> QED
        BY <3>1, <3>2
    <2> QED
      BY <1>3, <2>1, <2>2
  <1>11. ASSUME NEW s \in Sessions, OnPrivacy(s) PROVE Goal
    <2>1. ghost' = ghost /\ rt' = rt
      BY <1>11 DEF OnPrivacy
    <2>2. CASE o = s
      <3> DEFINE v == Head(ses[o].wire)
      <3>1. /\ ses'[o].stop = (Len(u) >= UrgentEvents) /\ ~ses[o].stop
            /\ ses'[o].scope = IF v.muted THEN Dead(ses[o].scope) ELSE ses[o].scope
            /\ ses'[o].urgent = IF Len(u) < UrgentEvents THEN Append(u, v) ELSE u
            /\ v \in Reports
        BY <1>11, <2>2, OnPrivacyEffect
      <3>2. Len(u) \in Nat /\ UrgentEvents \in Nat
        BY <1>2, LenProperties, UrgentAssumption
      <3>3. CASE Len(u) >= UrgentEvents
        <4>1. ses'[o].stop
          BY <3>1, <3>3
        <4> QED
          BY <4>1 DEF MutedOf, ScopeOf
      <3>4. CASE Len(u) < UrgentEvents
        <4>1. ses'[o].urgent = Append(u, v)
          BY <3>1, <3>4
        <4> DEFINE a == Append(u, v)
        <4>2. /\ Len(a) = Len(u) + 1 /\ a[Len(u) + 1] = v /\ Len(u) + 1 \in 1..Len(a)
              /\ \A i \in 1..Len(u) : a[i] = u[i] /\ i \in 1..Len(a)
          BY <1>2, <3>1, <3>2, AppendOf, SMTT(30)
        <4> HIDE DEF a
        <4>3. MutedOf(ses'[o], rt'.muted)
          BY <1>1, <2>1, <3>1 DEF MutedOf, Dead
        <4>4. ASSUME o \notin ghost.mixed PROVE ScopeOf(ses'[o], rt'.muted)
          <5>1. ScopeOf(ses[o], rt.muted)
            BY <1>1, <2>1, <4>4
          <5>2. ASSUME ~rt.muted, ses'[o].scope # "live"
                PROVE  \E i \in 1..Len(a) : a[i].muted
            <6>1. CASE v.muted
              BY <4>2, <6>1
            <6>2. CASE ~v.muted
              <7>1. ses[o].scope # "live"
                BY <3>1, <5>2, <6>2
              <7>2. \E i \in 1..Len(u) : u[i].muted
                BY <3>1, <5>1, <5>2, <7>1 DEF ScopeOf
              <7> QED
                BY <4>2, <7>2
            <6> QED
              BY <6>1, <6>2
          <5>3. rt.muted => ses'[o].scope = "dead"
            BY <3>1, <5>1 DEF ScopeOf, Dead
          <5> QED
            BY <2>1, <4>1, <5>2, <5>3 DEF ScopeOf, a
        <4> QED
          BY <2>1, <4>3, <4>4
      <3> QED
        BY <3>2, <3>3, <3>4
    <2>3. CASE o # s
      <3>1. ses'[o] = ses[o]
        BY <1>11, <2>3, OnPrivacyEffect
      <3> QED
        BY <1>3, <2>1, <3>1
    <2> QED
      BY <2>2, <2>3
  <1>12. CASE Install
    <2>1. o = cmds[1] /\ rt'.muted = ses[o].hello
          /\ ses'[o].scope = IF ses[o].hello THEN "dead" ELSE "live"
      BY <1>12, InstallEffect
    <2> QED
      BY <2>1 DEF MutedOf, ScopeOf
  <1>13. CASE Published
    <2>1. /\ KeepsReports(o) /\ ghost' = ghost /\ rt'.cur = rt.cur /\ rt'.muted = rt.muted
          /\ ses'[o].stop = ses[o].stop /\ o = rt.publishing
          /\ ses'[o].scope = IF ses[o].stop THEN Dead(ses[o].scope) ELSE ses[o].scope
      BY <1>13, PublishedEffect DEF Published
    <2>2. ses'[o].stop \/ ses'[o].scope = ses[o].scope
      BY <2>1
    <2> QED
      BY <1>3, <2>1, <2>2 DEF KeepsReports
  <1>14. CASE Urgent
    <2> DEFINE v == u[1]
    <2>1. /\ ghost' = ghost /\ rt'.cur = rt.cur /\ o = rt.cur
          /\ ses'[o].stop = ses[o].stop /\ ses'[o].urgent = Tail(u) /\ u # <<>>
          /\ v \in Reports /\ Handled(o)
      BY <1>14, UrgentEffect DEF Urgent
    <2>2. ses[o].scope # "none" /\ v.muted \in BOOLEAN /\ v.seq \in Nat
      BY <2>1 DEF CaptureInv, Reports, Sessions, NoSession
    <2>3. CASE v.seq > rt.last
      <3>1. /\ rt'.muted = v.muted
            /\ v.muted => ses'[o].scope = "dead"
            /\ ~v.muted => ses'[o].scope = "live"
        BY <1>2, <2>1, <2>2, <2>3 DEF Handled, Dead
      <3> QED
        BY <2>2, <3>1 DEF MutedOf, ScopeOf
    <2>4. CASE v.seq <= rt.last
      <3>1. rt' = rt /\ ses'[o].scope = ses[o].scope
        BY <1>2, <2>1, <2>2, <2>4 DEF Handled
      <3>2. o \in ghost.mixed
        <4> SUFFICES ASSUME o \notin ghost.mixed PROVE FALSE
          OBVIOUS
        <4>1. Ordered(u, ses[o].wire, rt.last)
          BY <2>1 DEF OrderInv, Applied
        <4>2. v.seq > rt.last
          BY <1>2, <2>1, <4>1, OrderedApply
        <4> QED
          BY <1>2, <2>2, <2>4, <4>2
      <3>3. MutedOf(ses'[o], rt'.muted)
        BY <1>1, <2>1, <3>1 DEF MutedOf
      <3> QED
        BY <2>1, <3>2, <3>3
    <2> QED
      BY <1>2, <2>2, <2>3, <2>4
  <1>15. CASE EndSession
    BY <1>15, EndSessionEffect DEF NoCurrent, NoSession, Sessions
  <1>16. \/ Still \/ Shutting \/ Reporting \/ Dial
        \/ \E s \in Sessions : \/ Claim(s) \/ Replace(s) \/ Admit(s) \/ Going(s)
                               \/ Running(s) \/ OnPrivacy(s) \/ Stop(s)
        \/ Install \/ Published \/ Urgent \/ EndSession
    BY Steps
  <1> QED
    BY <1>4, <1>5, <1>6, <1>7, <1>8, <1>9, <1>10, <1>11, <1>12, <1>13, <1>14, <1>15, <1>16

----------------------------------------------------------------------------
(* The device                                                              *)

\* The steps, as the device sees them.
Elsewhere == UNCHANGED <<device, up>> /\ ghost'.overlap = ghost.overlap

\* Every step is one of these for the device.
LEMMA DeviceSteps ==
    ASSUME TypeInv, [Next]_vars
    PROVE  \/ Elsewhere \/ Toggle \/ Reconcile \/ DecidePrivacy \/ Entered
           \/ \E t \in Threads : Set(t) \/ Apply(t) \/ Number(t) \/ SetPrivacy(t)
           \/ \E t \in Threads : Backpressure(t)
           \/ Press \/ Crash \/ Start
  <1> USE DEF Elsewhere
  <1>1. CASE UNCHANGED vars
    BY <1>1 DEF vars
  <1>2. CASE Mute
    BY <1>2 DEF Mute
  <1>3. CASE Link
    <2>1. ASSUME Dial PROVE Elsewhere
      BY <2>1 DEF Dial, TypeInv, LinkType
    <2> QED
      BY <1>3, <2>1 DEF Link, Join, Ready, Closed, Lose
  <1>4. CASE Server
    BY <1>4 DEF Server, Claim, Replace, Admit, Stopped, Decline, Activate, OnPrivacy, SocketClosed,
                Stop, Over
  <1>5. CASE Runtime
    BY <1>5 DEF Runtime, Install, Discard, Published, Urgent, EndSession
  <1>6. CASE Faults
    BY <1>6 DEF Faults, Lost, Lose, Refuse, Late, Decline, Silence, Stop
  <1> QED
    BY <1>1, <1>2, <1>3, <1>4, <1>5, <1>6 DEF Next

\* A goroutine moves, and the other stays.
LEMMA Moves ==
    ASSUME thr \in [Threads -> Goroutines], NEW t \in Threads
    PROVE  /\ Returned(t) =>
                 /\ thr'[t].pc = "idle" /\ \A o \in Threads \ {t} : thr'[o] = thr[o]
                 /\ t = "button" => armed' = armed + 1
                 /\ t # "button" => armed' = armed
           /\ \A p \in Points : Goto(t, p) =>
                 /\ thr'[t].pc = p /\ thr'[t].v = thr[t].v /\ thr'[t].seq = thr[t].seq
                 /\ \A o \in Threads \ {t} : thr'[o] = thr[o]
           /\ Number(t) =>
                 /\ thr'[t].pc = "send" /\ thr'[t].v = thr[t].v /\ thr'[t].seq = dev.seq + 1
                 /\ \A o \in Threads \ {t} : thr'[o] = thr[o]
  BY DEF Returned, Goto, Number, Goroutines, Idle, Goroutine

\* The goroutines start, and a crash ends both.
LEMMA MovesOff ==
    ASSUME thr \in [Threads -> Goroutines]
    PROVE  /\ Toggle => thr'["button"].pc = "set" /\ thr'["timer"] = thr["timer"]
           /\ Reconcile => /\ thr'["timer"].pc = "decide" /\ thr'["timer"].v = (driver = "on")
                           /\ thr'["button"] = thr["button"]
           /\ DecidePrivacy => thr'["button"] = thr["button"]
           /\ Crash => \A t \in Threads : thr'[t].pc = "idle"
  BY DEF Toggle, Reconcile, DecidePrivacy, Crash, Goroutines, Goroutine, Goto, Idle, Threads

\* What the timer's goroutine decides.
LEMMA Decides ==
    ASSUME TypeInv, DecidePrivacy
    PROVE  /\ thr["timer"].pc = "decide" /\ thr'["button"] = thr["button"]
           /\ UNCHANGED <<dev, armed, pressed, up>> /\ ghost' = ghost
           /\ \/ /\ thr'["timer"].pc = "idle" /\ driver' = driver /\ dev.muted = thr["timer"].v
              \/ /\ thr'["timer"].pc = "idle" /\ driver' = "on" /\ dev.muted
              \/ /\ thr'["timer"].pc = "set" /\ driver' = driver /\ thr'["timer"].v /\ thr["timer"].v
  <1>1. thr \in [Threads -> Goroutines] /\ "timer" \in Threads /\ thr["timer"].v \in BOOLEAN
    BY GoroutineType DEF TypeInv, DeviceType, Threads
  <1>2. thr'["button"] = thr["button"]
    BY <1>1, MovesOff
  <1>3. CASE dev.muted = thr["timer"].v /\ thr' = [thr EXCEPT !["timer"] = Idle] /\ UNCHANGED driver
    BY <1>1, <1>2, <1>3 DEF DecidePrivacy, At, Idle, Goroutine
  <1>4. CASE dev.muted /\ thr' = [thr EXCEPT !["timer"] = Idle] /\ driver' = "on"
    BY <1>1, <1>2, <1>4 DEF DecidePrivacy, At, Idle, Goroutine
  <1>5. CASE thr["timer"].v /\ Goto("timer", "set") /\ UNCHANGED driver
    <2>1. thr'["timer"].pc = "set" /\ thr'["timer"].v = thr["timer"].v
      BY <1>1, <1>5, Moves DEF Points
    <2> QED
      BY <1>2, <1>5, <2>1 DEF DecidePrivacy, At
  <1> QED
    BY <1>3, <1>4, <1>5 DEF DecidePrivacy

\* A check of the driver stays due until the two agree.
LEMMA StepDriver ==
    ASSUME TypeInv, DriverInv, [Next]_vars
    PROVE  DriverInv'
  <1> USE DEF DriverInv, CheckDue, At
  <1>1. /\ thr \in [Threads -> Goroutines] /\ Threads = {"button", "timer"}
        /\ \A t \in Threads : thr[t].pc \in Points /\ thr[t].v \in BOOLEAN
        /\ armed \in Nat /\ pressed \in Nat /\ dev.muted \in BOOLEAN /\ up \in BOOLEAN
    BY DEF TypeInv, DeviceType, Goroutines, Threads, Devices
  <1>2. CASE Elsewhere
    BY <1>2 DEF Elsewhere, device
  <1>3. CASE Toggle
    BY <1>1, <1>3, MovesOff DEF Toggle
  <1>4. CASE Reconcile
    BY <1>1, <1>4, MovesOff DEF Reconcile, Setting
  <1>5. CASE DecidePrivacy
    <2>1. /\ thr["timer"].pc = "decide" /\ thr'["button"] = thr["button"]
          /\ UNCHANGED <<dev, armed, pressed, up>>
      BY <1>5, Decides
    <2>2. CASE thr'["timer"].pc = "idle" /\ driver' = driver /\ dev.muted = thr["timer"].v
      BY <1>1, <2>1, <2>2 DEF Setting, TypeInv, DeviceType
    <2>3. CASE thr'["timer"].pc = "idle" /\ driver' = "on" /\ dev.muted
      BY <1>1, <2>1, <2>3 DEF Setting
    <2>4. CASE thr'["timer"].pc = "set" /\ driver' = driver /\ thr'["timer"].v /\ thr["timer"].v
      BY <1>1, <2>1, <2>4 DEF Setting
    <2> QED
      BY <1>5, <2>2, <2>3, <2>4, Decides
  <1>6. CASE Entered
    BY <1>1, <1>6 DEF Entered, Setting, Points
  <1>7. ASSUME NEW t \in Threads, Set(t) PROVE DriverInv'
    <2>1. CASE thr[t].v = dev.muted
      <3>1. Returned(t) /\ UNCHANGED <<dev, driver, pressed, up>> /\ thr[t].pc = "set"
        BY <1>7, <2>1 DEF Set
      <3> QED
        BY <1>1, <2>1, <3>1, Moves DEF Setting
    <2>2. CASE thr[t].v # dev.muted
      <3>1. /\ dev' = [dev EXCEPT !.muted = thr[t].v] /\ Goto(t, "apply") /\ thr[t].pc = "set"
            /\ UNCHANGED <<armed, driver, pressed, up>>
        BY <1>7, <2>2 DEF Set
      <3>2. dev'.muted = thr[t].v
        BY <3>1 DEF TypeInv, DeviceType, Devices
      <3>3. /\ thr'[t].pc = "apply" /\ thr'[t].v = thr[t].v
            /\ \A o \in Threads \ {t} : thr'[o] = thr[o]
        BY <1>1, <3>1, Moves DEF Points
      <3> QED
        BY <1>1, <3>1, <3>2, <3>3 DEF Setting
    <2> QED
      BY <2>1, <2>2
  <1>8. ASSUME NEW t \in Threads, Apply(t) PROVE DriverInv'
    <2>1. /\ Goto(t, "number") /\ thr[t].pc = "apply" /\ driver' = LED(thr[t].v)
          /\ UNCHANGED <<armed, pressed, up>>
      BY <1>8 DEF Apply
    <2>2. dev'.muted = dev.muted
      BY <1>8 DEF Apply, TypeInv, DeviceType, Devices
    <2>3. /\ thr'[t].pc = "number" /\ thr'[t].v = thr[t].v
          /\ \A o \in Threads \ {t} : thr'[o] = thr[o]
      BY <1>1, <2>1, Moves DEF Points
    <2> QED
      BY <1>1, <2>1, <2>2, <2>3 DEF Setting, LED
  <1>9. ASSUME NEW t \in Threads, Number(t) PROVE DriverInv'
    <2>1. thr[t].pc = "number" /\ UNCHANGED <<armed, driver, pressed, up>>
      BY <1>9 DEF Number
    <2>2. dev'.muted = dev.muted
      BY <1>9 DEF Number, TypeInv, DeviceType, Devices
    <2>3. /\ thr'[t].pc = "send" /\ thr'[t].v = thr[t].v
          /\ \A o \in Threads \ {t} : thr'[o] = thr[o]
      BY <1>1, <1>9, Moves
    <2> QED
      BY <1>1, <2>1, <2>2, <2>3 DEF Setting
  <1>10. ASSUME NEW t \in Threads, SetPrivacy(t) PROVE DriverInv'
    <2>1. thr[t].pc = "send" /\ UNCHANGED <<driver, pressed, up>> /\ Returned(t)
      BY <1>10 DEF SetPrivacy
    <2>2. dev'.muted = dev.muted
      BY <1>10 DEF SetPrivacy, TypeInv, DeviceType, Devices
    <2> QED
      BY <1>1, <2>1, <2>2, Moves DEF Setting
  <1>a. ASSUME NEW t \in Threads, Backpressure(t) PROVE DriverInv'
    <2>1. thr[t].pc = "send" /\ UNCHANGED <<driver, pressed, up>> /\ Returned(t)
      BY <1>a DEF Backpressure
    <2>2. dev'.muted = dev.muted
      BY <1>a DEF Backpressure, TypeInv, DeviceType, Devices
    <2> QED
      BY <1>1, <2>1, <2>2, Moves DEF Setting
  <1>11. CASE Press
    BY <1>1, <1>11 DEF Press
  <1>12. CASE Crash
    BY <1>1, <1>12, MovesOff DEF Crash
  <1>13. CASE Start
    BY <1>1, <1>13 DEF Start
  <1> QED
    BY <1>2, <1>3, <1>4, <1>5, <1>6, <1>7, <1>8, <1>9, <1>10, <1>a, <1>11, <1>12, <1>13, DeviceSteps

\* A change is applied, saved and reported before the next one, unless they overlap.
LEMMA StepApply ==
    ASSUME TypeInv, DriverInv, ApplyInv, [Next]_vars
    PROVE  ApplyInv'
  <1>1. /\ thr \in [Threads -> Goroutines] /\ Threads = {"button", "timer"}
        /\ \A t \in Threads : thr[t].pc \in Points /\ thr[t].v \in BOOLEAN
        /\ dev \in Devices /\ dev.seq \in Nat
        /\ ghost \in [overlap : BOOLEAN, stale : BOOLEAN, mixed : SUBSET Sessions]
    BY DEF TypeInv, DeviceType, LinkType, Goroutines, Threads, Devices
  <1>2. CASE Elsewhere
    BY <1>2 DEF Elsewhere, device, ApplyInv, Changing, At
  <1> DEFINE Unset == /\ up' = up /\ ghost'.overlap = ghost.overlap /\ dev' = dev
                      /\ \A t \in Threads :
                           \/ thr'[t] = thr[t]
                           \/ thr[t].pc \notin Setting /\ thr'[t].pc \notin Setting
  <1>3. ASSUME Unset PROVE ApplyInv'
    <2> SUFFICES ASSUME up, ~ghost.overlap
                 PROVE  ApplyInv'
      BY <1>3 DEF ApplyInv
    <2>1. \A t \in Threads : /\ thr'[t].pc \in Setting <=> thr[t].pc \in Setting
                             /\ thr'[t].pc \in Setting => thr'[t] = thr[t]
      BY <1>3
    <2> QED
      BY <1>3, <2>1 DEF ApplyInv, Changing, At, Setting
  <1>4. CASE Toggle
    <2>1. Unset
      BY <1>1, <1>4, MovesOff DEF Toggle, Setting, At
    <2> QED
      BY <1>3, <2>1
  <1>5. CASE Reconcile
    <2>1. Unset
      BY <1>1, <1>5, MovesOff DEF Reconcile, Setting, At
    <2> QED
      BY <1>3, <2>1
  <1>6. CASE DecidePrivacy
    <2>1. Unset
      BY <1>1, <1>6, Decides DEF Setting
    <2> QED
      BY <1>3, <2>1
  <1>7. CASE Entered \/ Press
    <2>1. Unset
      BY <1>7 DEF Entered, Press
    <2> QED
      BY <1>3, <2>1
  <1>8. ASSUME NEW t \in Threads, Set(t) PROVE ApplyInv'
    <2>1. CASE thr[t].v = dev.muted
      <3>1. Returned(t) /\ UNCHANGED <<dev, up, ghost>> /\ thr[t].pc = "set"
        BY <1>8, <2>1 DEF Set, At
      <3> QED
        <4>1. Unset
          BY <1>1, <3>1, Moves DEF Setting
        <4> QED
          BY <1>3, <4>1
    <2>2. CASE thr[t].v # dev.muted
      <3>1. /\ dev' = [dev EXCEPT !.muted = thr[t].v] /\ Goto(t, "apply") /\ thr[t].pc = "set"
            /\ up' = up
            /\ ghost' = [ghost EXCEPT !.overlap =
                   ghost.overlap \/ \E o \in Threads \ {t} : thr[o].pc \in Setting]
        BY <1>8, <2>2 DEF Set, At
      <3>2. dev'.muted = thr[t].v
        BY <1>1, <3>1 DEF Devices
      <3>3. /\ thr'[t].pc = "apply" /\ thr'[t].v = thr[t].v
            /\ \A o \in Threads \ {t} : thr'[o] = thr[o]
        BY <1>1, <3>1, Moves DEF Points
      <3>4. ~ghost'.overlap => \A o \in Threads \ {t} : thr[o].pc \notin Setting
        BY <1>1, <3>1
      <3> QED
        BY <1>1, <3>2, <3>3, <3>4 DEF ApplyInv, Changing, Setting, At
    <2> QED
      BY <2>1, <2>2
  <1>9. ASSUME NEW t \in Threads, Apply(t) PROVE ApplyInv'
    <2>1. /\ Goto(t, "number") /\ thr[t].pc = "apply" /\ up' = up /\ ghost' = ghost
      BY <1>9 DEF Apply, At
    <2>2. dev'.muted = dev.muted /\ dev'.adc = thr[t].v /\ dev'.saved = thr[t].v
          /\ dev'.seq = dev.seq
      BY <1>1, <1>9 DEF Apply, Devices
    <2>3. /\ thr'[t].pc = "number" /\ thr'[t].v = thr[t].v
          /\ \A o \in Threads \ {t} : thr'[o] = thr[o]
      BY <1>1, <2>1, Moves DEF Points
    <2> QED
      BY <1>1, <2>1, <2>2, <2>3 DEF ApplyInv, Changing, Setting, At
  <1>10. ASSUME NEW t \in Threads, Number(t) PROVE ApplyInv'
    <2>1. thr[t].pc = "number" /\ up' = up /\ ghost' = ghost
      BY <1>10 DEF Number, At
    <2>2. dev'.muted = dev.muted /\ dev'.adc = dev.adc /\ dev'.saved = dev.saved
          /\ dev'.seq = dev.seq + 1
      BY <1>1, <1>10 DEF Number, Devices
    <2>3. /\ thr'[t].pc = "send" /\ thr'[t].v = thr[t].v /\ thr'[t].seq = dev.seq + 1
          /\ \A o \in Threads \ {t} : thr'[o] = thr[o]
      BY <1>1, <1>10, Moves
    <2> QED
      BY <1>1, <2>1, <2>2, <2>3 DEF ApplyInv, Changing, Setting, At
  <1>11. ASSUME NEW t \in Threads, SetPrivacy(t) \/ Backpressure(t) PROVE ApplyInv'
    <2>1. thr[t].pc = "send" /\ up' = up /\ Returned(t)
      BY <1>11 DEF SetPrivacy, Backpressure, At
    <2>2. /\ dev'.muted = dev.muted /\ dev'.adc = dev.adc /\ dev'.saved = dev.saved
          /\ dev'.seq = dev.seq /\ dev'.reported = thr[t].v
      BY <1>1, <1>11 DEF SetPrivacy, Backpressure, Devices
    <2>3. ghost'.overlap = ghost.overlap
      BY <1>1, <1>11 DEF SetPrivacy, Backpressure, Report
    <2>4. thr'[t].pc = "idle" /\ \A o \in Threads \ {t} : thr'[o] = thr[o]
      BY <1>1, <2>1, Moves
    <2> SUFFICES ASSUME up, ~ghost.overlap
                 PROVE  ApplyInv'
      BY <2>1, <2>3 DEF ApplyInv
    <2>5. /\ thr[t].v = dev.muted /\ dev.adc = dev.muted /\ dev.saved = dev.muted
          /\ \A o \in Threads \ {t} : thr[o].pc \notin Setting
      BY <2>1 DEF ApplyInv, Setting
    <2> QED
      BY <1>1, <2>1, <2>2, <2>3, <2>4, <2>5 DEF ApplyInv, Changing, Setting, At
  <1>12. CASE Crash
    BY <1>12 DEF Crash, ApplyInv
  <1>13. CASE Start
    <2>1. \A t \in Threads : thr'[t].pc = "idle"
      BY <1>13 DEF Start, DriverInv, At
    <2>2. dev'.adc = dev'.muted /\ dev'.saved = dev'.muted /\ dev'.reported = dev'.muted
      BY <1>13 DEF Start, Restored
    <2> QED
      BY <2>1, <2>2 DEF ApplyInv, Changing, Setting, At
  <1> QED
    BY <1>2, <1>4, <1>5, <1>6, <1>7, <1>8, <1>9, <1>10, <1>11, <1>12, <1>13, DeviceSteps

\* What the link's session carries, as NumberInv reads it.
Carries(q) == \A i \in 1..Len(q) : Taken(q[i].seq)
TakenNext(n) == n <= dev'.seq /\ \A t \in Threads : thr'[t].pc = "send" => n # thr'[t].seq
CarriesNext(q) == \A i \in 1..Len(q) : TakenNext(q[i].seq)

\* No two changes have one number.
LEMMA StepNumber ==
    ASSUME TypeInv, IdInv, DriverInv, NumberInv, ToldInv, [Next]_vars
    PROVE  NumberInv'
  <1>1. /\ thr \in [Threads -> Goroutines] /\ Threads = {"button", "timer"}
        /\ \A t \in Threads : thr[t].seq \in Nat /\ thr[t].v \in BOOLEAN
        /\ dev \in Devices /\ dev.seq \in Nat
    BY DEF TypeInv, DeviceType, Goroutines, Threads, Devices
  <1>2. link.phase # "idle" => link.id \in Sessions
    BY SessionAssumption DEF TypeInv, LinkType, Sessions, NoSession
  <1>l. link.phase # "idle" =>
          /\ Carries(ses[link.id].wire) /\ Carries(ses[link.id].urgent)
          /\ rt.cur = link.id => Taken(rt.last)
    BY DEF NumberInv, Carries
  <1> DEFINE LinkGoal == link'.phase # "idle" =>
                  /\ CarriesNext(ses'[link'.id].wire) /\ CarriesNext(ses'[link'.id].urgent)
                  /\ rt'.cur = link'.id => TakenNext(rt'.last)
             Senders == /\ \A t \in Threads : thr'[t].pc = "send" => thr'[t].seq \in 1..dev'.seq
                        /\ \A t, o \in Threads :
                             t # o /\ thr'[t].pc = "send" /\ thr'[o].pc = "send" => thr'[t].seq # thr'[o].seq
  <1>g. ASSUME LinkGoal, Senders PROVE NumberInv'
    BY <1>g DEF NumberInv, CarriesNext, TakenNext, Taken, At
  <1> DEFINE Calm == /\ dev'.seq = dev.seq
                     /\ \A t \in Threads : thr'[t].pc = "send" => thr[t].pc = "send" /\ thr'[t].seq = thr[t].seq
  <1>c. ASSUME Calm PROVE Senders /\ \A n : Taken(n) => TakenNext(n)
    <2>1. Senders
      BY <1>1, <1>c DEF NumberInv, At
    <2>2. ASSUME NEW n, Taken(n) PROVE TakenNext(n)
      BY <1>1, <1>c, <2>2 DEF Taken, TakenNext, At
    <2> QED
      BY <2>1, <2>2
  <1>d. Calm \/ (\E t \in Threads : Number(t)) \/ Start
    <2>1. CASE Elsewhere
      BY <2>1 DEF Elsewhere, device
    <2>2. CASE Toggle \/ Reconcile
      BY <1>1, <2>2, MovesOff DEF Toggle, Reconcile
    <2>3. CASE DecidePrivacy
      BY <1>1, <2>3, Decides
    <2>4. CASE Entered \/ Press
      BY <2>4 DEF Entered, Press
    <2>5. ASSUME NEW t \in Threads, Set(t) PROVE Calm
      <3>1. dev'.seq = dev.seq /\ (Returned(t) \/ Goto(t, "apply"))
        BY <1>1, <2>5 DEF Set, Devices
      <3> QED
        BY <1>1, <3>1, Moves DEF Points
    <2>6. ASSUME NEW t \in Threads, Apply(t) PROVE Calm
      <3>1. dev'.seq = dev.seq /\ Goto(t, "number")
        BY <1>1, <2>6 DEF Apply, Devices
      <3> QED
        BY <1>1, <3>1, Moves DEF Points
    <2>7. ASSUME NEW t \in Threads, SetPrivacy(t) \/ Backpressure(t) PROVE Calm
      <3>1. dev'.seq = dev.seq /\ Returned(t)
        BY <1>1, <2>7 DEF SetPrivacy, Backpressure, Devices
      <3> QED
        BY <1>1, <3>1, Moves
    <2>8. CASE Crash
      BY <1>1, <2>8, MovesOff DEF Crash
    <2> QED
      BY <2>1, <2>2, <2>3, <2>4, <2>5, <2>6, <2>7, <2>8, DeviceSteps
  <1>3. CASE Start
    <2>1. link'.phase = "idle"
      BY <1>3 DEF Start, ToldInv
    <2>2. \A t \in Threads : thr'[t].pc # "send"
      BY <1>3 DEF Start, DriverInv, At
    <2> QED
      BY <1>g, <2>1, <2>2
  <1>4. ASSUME NEW t \in Threads, Number(t) PROVE NumberInv'
    <2>1. UNCHANGED <<ses, rt, link>> /\ dev'.seq = dev.seq + 1 /\ thr[t].pc = "number"
      BY <1>1, <1>4 DEF Number, Devices, At
    <2>2. /\ thr'[t].pc = "send" /\ thr'[t].seq = dev.seq + 1
          /\ \A o \in Threads \ {t} : thr'[o] = thr[o]
      BY <1>1, <1>4, Moves
    <2>3. ASSUME NEW n \in Nat, Taken(n) PROVE TakenNext(n)
      BY <1>1, <2>1, <2>2, <2>3 DEF Taken, TakenNext, At
    <2>4. Senders
      BY <1>1, <2>1, <2>2 DEF NumberInv, At
    <2>5. ASSUME link.phase # "idle"
          PROVE  /\ CarriesNext(ses[link.id].wire) /\ CarriesNext(ses[link.id].urgent)
                 /\ rt.cur = link.id => TakenNext(rt.last)
      <3>1. ses[link.id].wire \in Seq(Reports) /\ ses[link.id].urgent \in Seq(Reports) /\ rt.last \in Nat
        BY <1>2, <2>5, Queues
      <3>2. /\ \A i \in 1..Len(ses[link.id].wire) : ses[link.id].wire[i].seq \in Nat
            /\ \A i \in 1..Len(ses[link.id].urgent) : ses[link.id].urgent[i].seq \in Nat
        BY <3>1, SeqNat
      <3> QED
        BY <1>l, <2>1, <2>3, <2>5, <3>1, <3>2 DEF Carries, CarriesNext
    <2> QED
      BY <1>g, <2>1, <2>4, <2>5
  <1>5. CASE Calm
    <2>1. Senders /\ \A n : Taken(n) => TakenNext(n)
      BY <1>5, <1>c
    <2> SUFFICES LinkGoal
      BY <1>g, <2>1
    <2> HIDE DEF Calm, Senders
    <2> SUFFICES ASSUME link'.phase # "idle"
                 PROVE  /\ CarriesNext(ses'[link'.id].wire) /\ CarriesNext(ses'[link'.id].urgent)
                        /\ rt'.cur = link'.id => TakenNext(rt'.last)
      OBVIOUS
    <2> DEFINE o == link.id
    <2>2. ASSUME link' = link
          PROVE  /\ o \in Sessions /\ Carries(ses[o].wire) /\ Carries(ses[o].urgent)
                 /\ rt.cur = o => Taken(rt.last)
                 /\ ses[o].wire \in Seq(Reports) /\ ses[o].urgent \in Seq(Reports)
      BY <1>2, <1>l, <2>2, Queues
    <2>3. ASSUME link' = link, ses'[o].wire = ses[o].wire, ses'[o].urgent = ses[o].urgent,
                 rt'.cur = rt.cur, rt'.last = rt.last
          PROVE  LinkGoal
      BY <2>1, <2>2, <2>3 DEF Carries, CarriesNext
    <2>4. CASE Still
      <3>1. link.phase # "idle" /\ ses' = ses /\ rt' = rt /\ link'.id = link.id
        BY <2>4 DEF Still
      <3> QED
        BY <1>l, <2>1, <3>1 DEF Carries, CarriesNext
    <2>5. CASE Shutting
      BY <2>5 DEF Shutting
    <2>6. CASE Reporting
      <3>1. PICK t \in Threads : SetPrivacy(t)
        BY <2>6 DEF Reporting
      <3> DEFINE v == [muted |-> thr[t].v, seq |-> thr[t].seq]
      <3>2. rt' = rt /\ link' = link /\ link.phase = "up" /\ Report(v) /\ thr[t].pc = "send" /\ Returned(t)
            /\ dev'.seq = dev.seq
        BY <1>1, <2>6, <3>1 DEF Reporting, SetPrivacy, At, Devices
      <3>3. thr'[t].pc = "idle" /\ \A i \in Threads \ {t} : thr'[i] = thr[i]
        BY <1>1, <3>2, Moves
      <3>4. TakenNext(thr[t].seq)
        BY <1>1, <3>2, <3>3 DEF TakenNext, At, NumberInv
      <3>5. ses'[o].urgent = ses[o].urgent /\ (ses'[o].wire = ses[o].wire \/ ses'[o].wire = Append(ses[o].wire, v))
        BY <3>2, ReportEffect
      <3>6. CASE ses'[o].wire = ses[o].wire
        BY <2>3, <3>2, <3>5, <3>6
      <3>7. CASE ses'[o].wire = Append(ses[o].wire, v)
        <4>1. v \in Reports /\ v.seq = thr[t].seq
          BY <1>1 DEF Reports
        <4>2. ses[o].wire \in Seq(Reports) /\ Carries(ses[o].wire) /\ Carries(ses[o].urgent)
              /\ (rt.cur = o => Taken(rt.last))
          BY <2>2, <3>2
        <4> HIDE DEF v
        <4> DEFINE a == Append(ses[o].wire, v)
        <4>3. /\ a[Len(ses[o].wire) + 1] = v
              /\ \A i \in 1..Len(ses[o].wire) : a[i] = ses[o].wire[i]
              /\ \A i \in 1..Len(a) : i \in 1..Len(ses[o].wire) \/ i = Len(ses[o].wire) + 1
          BY <4>1, <4>2, AppendOf, SMTT(30)
        <4> HIDE DEF a
        <4>4. ASSUME NEW i \in 1..Len(a) PROVE TakenNext(a[i].seq)
          <5>1. CASE i \in 1..Len(ses[o].wire)
            BY <2>1, <4>2, <4>3, <5>1 DEF Carries
          <5>2. CASE i = Len(ses[o].wire) + 1
            BY <3>4, <4>1, <4>3, <5>2
          <5> QED
            BY <4>3, <5>1, <5>2
        <4>5. CarriesNext(ses'[link'.id].wire)
          BY <3>2, <3>7, <4>4 DEF CarriesNext, a
        <4>6. CarriesNext(ses'[link'.id].urgent) /\ (rt'.cur = link'.id => TakenNext(rt'.last))
          BY <2>1, <3>2, <3>5, <4>2 DEF Carries, CarriesNext
        <4> QED
          BY <4>5, <4>6
      <3> QED
        BY <3>5, <3>6, <3>7
    <2>7. CASE Dial
      <3>1. ses'[link'.id].wire = <<>> /\ ses'[link'.id].urgent = <<>>
        BY <2>7, DialEffect DEF NewSession, SessionAt
      <3>2. rt'.cur # link'.id
        BY <2>7, DialEffect DEF Dial, IdInv, TypeInv, LinkType, ServerType, Sessions, NoSession
      <3>3. CarriesNext(<<>>)
        BY DEF CarriesNext
      <3> QED
        BY <3>1, <3>2, <3>3
    <2>8. ASSUME NEW s \in Sessions, Claim(s) \/ Replace(s) \/ Admit(s) \/ Running(s) \/ Stop(s)
          PROVE  LinkGoal
      <3>1. rt' = rt /\ link' = link
        BY <2>8 DEF Claim, Replace, Admit, Running, Activate, Stop
      <3>2. o \in Sessions
        BY <2>2, <3>1
      <3>3. Calmed(o)
        BY <2>8, <3>2, CalmSteps
      <3> QED
        BY <2>3, <3>1, <3>3 DEF Calmed, KeepsReports
    <2>9. ASSUME NEW s \in Sessions, Going(s) PROVE LinkGoal
      <3>1. rt' = rt /\ link' = link
        BY <2>9 DEF Going
      <3>2. CASE o # s
        <4>1. ses'[o] = ses[o]
          BY <2>2, <2>9, <3>1, <3>2, GoneEffect DEF Going
        <4> QED
          BY <2>3, <3>1, <4>1
      <3>3. CASE o = s
        <4>1. ses'[o].wire = <<>> /\ ses'[o].urgent = ses[o].urgent
          BY <2>9, <3>3, GoneEffect DEF Going
        <4>2. CarriesNext(<<>>)
          BY DEF CarriesNext
        <4> QED
          BY <2>1, <2>2, <3>1, <4>1, <4>2 DEF Carries, CarriesNext
      <3> QED
        BY <3>2, <3>3
    <2>10. ASSUME NEW s \in Sessions, OnPrivacy(s) PROVE LinkGoal
      <3>1. rt' = rt /\ link' = link
        BY <2>10 DEF OnPrivacy
      <3>2. CASE o # s
        <4>1. ses'[o] = ses[o]
          BY <2>2, <2>10, <3>1, <3>2, OnPrivacyEffect
        <4> QED
          BY <2>3, <3>1, <4>1
      <3>3. CASE o = s
        <4> DEFINE w == ses[o].wire
                   u == ses[o].urgent
                   a == Append(u, w[1])
        <4>1. ses'[o].wire = Tail(w) /\ w # <<>> /\ (ses'[o].urgent = u \/ ses'[o].urgent = a)
              /\ w \in Seq(Reports) /\ u \in Seq(Reports) /\ w[1] \in Reports
          <5>1. ses'[o].wire = Tail(w) /\ w # <<>> /\ w[1] \in Reports
                /\ ses'[o].urgent = IF Len(u) < UrgentEvents THEN a ELSE u
            BY <2>10, <3>3, OnPrivacyEffect
          <5> QED
            BY <2>2, <3>1, <5>1
        <4>2. Carries(w) /\ Carries(u) /\ (rt.cur = o => Taken(rt.last))
          BY <2>2, <3>1
        <4>3. 1 \in 1..Len(w) /\ \A i \in 1..Len(Tail(w)) : Tail(w)[i] = w[i + 1] /\ i + 1 \in 1..Len(w)
          BY <4>1, TailOf
        <4>4. /\ a[Len(u) + 1] = w[1] /\ \A i \in 1..Len(u) : a[i] = u[i]
              /\ \A i \in 1..Len(a) : i \in 1..Len(u) \/ i = Len(u) + 1
          <5> HIDE DEF w, u
          <5>1. u \in Seq(Reports) /\ w[1] \in Reports
            BY <4>1
          <5> QED
            BY ONLY <5>1, AppendOf
        <4> HIDE DEF w, u, a
        <4>5. CarriesNext(Tail(w))
          BY <2>1, <4>2, <4>3 DEF Carries, CarriesNext
        <4>6. CarriesNext(u)
          BY <2>1, <4>2 DEF Carries, CarriesNext
        <4>7. CarriesNext(a)
          BY <2>1, <4>2, <4>3, <4>4 DEF Carries, CarriesNext
        <4> QED
          BY <2>1, <3>1, <4>1, <4>2, <4>5, <4>6, <4>7
      <3> QED
        BY <3>2, <3>3
    <2>11. CASE Install
      <3>1. link' = link /\ rt'.last = 0
        BY <2>11, InstallEffect DEF Install
      <3>2. KeepsReports(o)
        BY <2>2, <2>11, <3>1, InstallEffect
      <3>3. TakenNext(0)
        <4>1. Taken(0)
          BY <1>1 DEF Taken, NumberInv
        <4> QED
          BY <2>1, <4>1
      <3> QED
        BY <2>1, <2>2, <3>1, <3>2, <3>3 DEF Carries, CarriesNext, KeepsReports
    <2>12. CASE Published
      <3>1. link' = link /\ rt'.last = rt.last /\ rt'.cur = rt.cur
        BY <2>12, PublishedEffect DEF Published
      <3>2. KeepsReports(o)
        BY <2>2, <2>12, <3>1, PublishedEffect
      <3> QED
        BY <2>3, <3>1, <3>2 DEF KeepsReports
    <2>13. CASE EndSession
      <3>1. link' = link /\ rt'.cur = NoSession /\ NoSession \notin Sessions
        BY <2>13, EndSessionEffect DEF EndSession, NoCurrent, Sessions, NoSession
      <3>2. KeepsReports(o) /\ o \in Sessions
        BY <2>2, <2>13, <3>1, EndSessionEffect
      <3> QED
        BY <2>1, <2>2, <3>1, <3>2 DEF Carries, CarriesNext, KeepsReports
    <2>14. CASE Urgent
      <3>1. link' = link /\ rt'.cur = rt.cur
        BY <2>14, UrgentEffect DEF Urgent
      <3>2. CASE o # rt.cur
        <4>1. ses'[o] = ses[o]
          BY <2>2, <2>14, <3>1, <3>2, UrgentEffect
        <4> QED
          BY <2>1, <2>2, <3>1, <3>2, <4>1 DEF Carries, CarriesNext
      <3>3. CASE o = rt.cur
        <4> DEFINE w == ses[o].wire
                   u == ses[o].urgent
        <4>1. ses'[o].wire = w /\ ses'[o].urgent = Tail(u) /\ u # <<>> /\ u \in Seq(Reports)
              /\ (rt'.last = u[1].seq \/ rt'.last = rt.last)
          BY <2>14, <3>3, UrgentEffect DEF Handled
        <4>2. Carries(w) /\ Carries(u) /\ Taken(rt.last)
          BY <2>2, <3>1, <3>3
        <4>3. 1 \in 1..Len(u) /\ \A i \in 1..Len(Tail(u)) : Tail(u)[i] = u[i + 1] /\ i + 1 \in 1..Len(u)
          BY <4>1, TailOf
        <4> HIDE DEF w, u
        <4>4. CarriesNext(w) /\ CarriesNext(Tail(u)) /\ TakenNext(u[1].seq) /\ TakenNext(rt.last)
          BY <2>1, <4>2, <4>3 DEF Carries, CarriesNext
        <4> QED
          BY <3>1, <4>1, <4>4
      <3> QED
        BY <3>2, <3>3
    <2> QED
      BY <2>4, <2>5, <2>6, <2>7, <2>8, <2>9, <2>10, <2>11, <2>12, <2>13, <2>14, Steps
  <1> QED
    BY <1>d, <1>3, <1>4, <1>5

\* The steps, as the link's session sees them: those of the server and the
\* runtime, those of the device, and those that lose it.
LEMMA LinkSteps ==
    ASSUME TypeInv, [Next]_vars
    PROVE  \/ UNCHANGED <<device, up, link, ghost>>
           \/ Toggle \/ Reconcile \/ DecidePrivacy \/ Entered
           \/ \E t \in Threads : Set(t) \/ Apply(t) \/ Number(t) \/ SetPrivacy(t)
           \/ \E t \in Threads : Backpressure(t)
           \/ Press \/ Start \/ Dial \/ Join \/ Ready
           \/ link'.phase = "idle"
  <1>1. CASE UNCHANGED vars
    BY <1>1 DEF vars
  <1>2. CASE Mute
    BY <1>2 DEF Mute
  <1>3. link \in [phase : {"idle", "hello", "ready", "up"}, id : Nat]
    BY DEF TypeInv, LinkType
  <1>4. Lose \/ Crash => link'.phase = "idle"
    BY <1>3 DEF Lose, Crash, Down
  <1>5. CASE Link
    BY <1>4, <1>5 DEF Link, Closed
  <1>6. CASE Server
    BY <1>6 DEF Server, Claim, Replace, Admit, Stopped, Decline, Activate, OnPrivacy, SocketClosed,
                Stop, Over
  <1>7. CASE Runtime
    BY <1>7 DEF Runtime, Install, Discard, Published, Urgent, EndSession
  <1>8. CASE Faults
    BY <1>4, <1>8 DEF Faults, Lost, Refuse, Late, Decline, Silence, Stop
  <1> QED
    BY <1>1, <1>2, <1>5, <1>6, <1>7, <1>8 DEF Next

\* What a step of the server or the runtime has to keep for the link's session.
TellsStill(o) ==
    /\ ses'[o].hello = ses[o].hello
    /\ ses[o].at \in {"run", "over"} => ses'[o].at \in {"run", "over"}
    /\ /\ ~ghost.overlap /\ ~ghost.stale /\ ~Changing
       /\ ses'[o].at \in {"attached", "run"} /\ ~ses'[o].stop
       => Told(o)' = dev.muted
    /\ link.phase # "up" =>
         /\ ses'[o].wire = <<>> /\ ses'[o].urgent = <<>>
         /\ rt'.cur = o /\ ~ses'[o].stop => rt'.muted = ses'[o].hello

\* It is enough.
LEMMA TellsStillKeeps ==
    ASSUME ToldInv, NEW o, o = link.id, UNCHANGED <<device, up, link, ghost>>,
           link.phase # "idle" => TellsStill(o)
    PROVE  ToldInv'
  <1> SUFFICES ASSUME link.phase # "idle" PROVE ToldInv'
    BY DEF ToldInv
  <1>1. thr' = thr /\ dev' = dev /\ link' = link /\ ghost' = ghost /\ up' = up
    BY DEF device
  <1>2. (~Changing)' <=> ~Changing
    BY <1>1 DEF Changing
  <1>3. Told(link.id)' = Told(o)'
    BY <1>1 DEF Told
  <1> HIDE DEF Changing
  <1>4. TellsStill(o)
    OBVIOUS
  <1>5. ~ghost.overlap /\ ~ghost.stale /\ ~Changing
        /\ ses'[o].at \in {"attached", "run"} /\ ~ses'[o].stop
        => Told(link.id)' = dev.muted
    BY <1>3, <1>4 DEF TellsStill
  <1> QED
    BY <1>1, <1>2, <1>4, <1>5 DEF ToldInv, TellsStill

\* The session says what it said when its reports and the runtime's mute stay,
\* and it is not admitted by the step.
LEMMA QuietTells ==
    ASSUME ToldInv, NEW o, o = link.id, link.phase # "idle", KeepsReports(o),
           rt'.muted = rt.muted, rt'.cur = o => rt.cur = o,
           ses[o].at \in {"run", "over"} => ses'[o].at \in {"run", "over"},
           ses[o].stop => ses'[o].stop,
           ses'[o].at \in {"attached", "run"} /\ ~ses'[o].stop => ses[o].at \in {"attached", "run"}
    PROVE  TellsStill(o)
  <1>1. Told(o)' = Told(o)
    BY DEF Told, KeepsReports
  <1> HIDE DEF Changing
  <1> QED
    BY <1>1 DEF ToldInv, TellsStill, KeepsReports

\* The steps of the session's tasks keep what the link's session tells.
LEMMA ServerTells ==
    ASSUME TypeInv, CommandInv, CaptureInv, ToldInv, NEW o \in Sessions, o = link.id,
           link.phase # "idle",
           \/ Still
           \/ \E s \in Sessions : \/ Claim(s) \/ Replace(s) \/ Admit(s) \/ Going(s)
                                  \/ Running(s) \/ OnPrivacy(s) \/ Stop(s)
    PROVE  TellsStill(o)
  <1> HIDE DEF Changing
  <1>1. CASE Still
    <2>1. KeepsReports(o) /\ ses' = ses /\ rt' = rt
      BY <1>1 DEF Still, KeepsReports
    <2> QED
      BY <2>1, QuietTells
  <1>2. ASSUME NEW s \in Sessions, Claim(s) PROVE TellsStill(o)
    <2>1. /\ KeepsReports(o) /\ rt' = rt /\ ses'[o].stop = (ses[o].stop \/ o = claim)
          /\ o # s => ses'[o].at = ses[o].at
          /\ ses[s].at = "hello" /\ ses'[s].at \in {"admit", "replace"}
      BY <1>2, ClaimEffect, RuntimeStays DEF KeepsAt
    <2> QED
      BY <2>1, QuietTells
  <1>3. ASSUME NEW s \in Sessions, Replace(s) PROVE TellsStill(o)
    <2>1. /\ KeepsReports(o) /\ rt' = rt
          /\ o # ses[s].old => ses'[o].stop = ses[o].stop
          /\ o = ses[s].old => ses'[o].stop
          /\ o # s => ses'[o].at = ses[o].at
          /\ ses[s].at = "replace" /\ ses'[s].at \in {"admit", "replace"}
      BY <1>3, ReplaceEffect, RuntimeStays DEF KeepsAt, KeepsLife
    <2> QED
      BY <2>1, QuietTells
  <1>4. ASSUME NEW s \in Sessions, Admit(s) PROVE TellsStill(o)
    <2>1. /\ KeepsReports(o) /\ rt' = rt /\ ses'[o].stop = ses[o].stop
          /\ o # s => ses'[o].at = ses[o].at
          /\ ses[s].at = "admit" /\ ses'[s].at = "wait"
      BY <1>4, AtEffect, ZenonT(40) DEF Admit, KeepsAt, KeepsLife
    <2> QED
      BY <2>1, QuietTells
  <1>5. ASSUME NEW s \in Sessions, Running(s) PROVE TellsStill(o)
    <2>1. /\ KeepsReports(o) /\ rt' = rt /\ ses'[o].stop = ses[o].stop
          /\ o # s => ses'[o].at = ses[o].at
          /\ ses[s].at = "attached" /\ ses'[s].at = "run"
      BY <1>5, AtEffect, SMTT(30) DEF Running, Activate, KeepsAt, KeepsLife
    <2> QED
      BY <2>1, QuietTells
  <1>6. ASSUME NEW s \in Sessions, Stop(s) PROVE TellsStill(o)
    <2>1. /\ KeepsReports(o) /\ rt' = rt /\ ses'[o].at = ses[o].at
          /\ o # s => ses'[o].stop = ses[o].stop
          /\ ses'[s].stop
      BY <1>6, StopEffect, RuntimeStays DEF KeepsAt
    <2> QED
      BY <2>1, QuietTells
  <1>7. ASSUME ses'[o] = ses[o], rt' = rt PROVE TellsStill(o)
    <2>1. KeepsReports(o)
      BY <1>7 DEF KeepsReports
    <2> QED
      BY <1>7, <2>1, QuietTells
  <1>8. ASSUME NEW s \in Sessions, Going(s) PROVE TellsStill(o)
    <2>1. CASE o # s
      BY <1>7, <1>8, <2>1, GoneEffect DEF Going
    <2>2. CASE o = s
      <3>1. /\ ses'[o].at = "over" /\ ses'[o].stop /\ ses'[o].wire = <<>> /\ rt' = rt
            /\ ses'[o].urgent = ses[o].urgent /\ ses'[o].hello = ses[o].hello
        BY <1>8, <2>2, GoneEffect DEF Going
      <3> QED
        BY <3>1 DEF TellsStill, ToldInv
    <2> QED
      BY <2>1, <2>2
  <1>9. ASSUME NEW s \in Sessions, OnPrivacy(s) PROVE TellsStill(o)
    <2>r. rt' = rt
      BY <1>9, RuntimeStays
    <2>1. CASE o # s
      BY <1>7, <1>9, <2>r, <2>1, OnPrivacyEffect
    <2>2. CASE o = s
      <3> DEFINE w == ses[o].wire
                 u == ses[o].urgent
                 a == Append(u, w[1])
                 y == Tail(w)
      <3>1. /\ ses'[o].at = ses[o].at /\ ses[o].at = "run" /\ ~ses[o].stop
            /\ ses'[o].hello = ses[o].hello /\ ses'[o].wire = y
            /\ ses'[o].stop = (Len(u) >= UrgentEvents)
            /\ ses'[o].urgent = IF Len(u) < UrgentEvents THEN a ELSE u
            /\ w # <<>> /\ w \in Seq(Reports) /\ w[1] \in Reports /\ u \in Seq(Reports)
            /\ Len(u) \in Nat
        <4>1. u \in Seq(Reports) /\ Len(u) \in Nat
          BY Queues, LenProperties
        <4> QED
          BY <1>9, <2>2, <4>1, OnPrivacyEffect
      <3>2. /\ y # <<>> => Last1(y) = Last1(w)
            /\ y = <<>> => Last1(w) = w[1]
        BY <3>1, LastOf
      <3> HIDE DEF w, u, y
      <3>3. Last1(a) = w[1] /\ a # <<>>
        BY <3>1, LastAppend
      <3> HIDE DEF a
      <3>4. link.phase = "up"
        BY <3>1 DEF ToldInv, w
      <3>5. ~ghost.overlap /\ ~ghost.stale /\ ~Changing => Last1(w).muted = dev.muted
        BY <3>1 DEF ToldInv, Told, Last1, w
      <3>6. ~ses'[o].stop => ses'[o].urgent = a
        <4>1. CASE Len(u) < UrgentEvents
          BY <3>1, <4>1
        <4>2. CASE Len(u) >= UrgentEvents
          BY <3>1, <4>2
        <4> QED
          BY <3>1, <4>1, <4>2, UrgentAssumption
      <3>7. ~ses'[o].stop => Told(o)' = Last1(w).muted
        BY <3>1, <3>2, <3>3, <3>6 DEF Told, Last1
      <3> QED
        BY <3>1, <3>4, <3>5, <3>7 DEF TellsStill
    <2> QED
      BY <2>1, <2>2
  <1> QED
    BY <1>1, <1>2, <1>3, <1>4, <1>5, <1>6, <1>8, <1>9

\* So do the runtime's.
LEMMA RuntimeTells ==
    ASSUME TypeInv, CommandInv, CaptureInv, OrderInv, ToldInv, NEW o \in Sessions, o = link.id,
           link.phase # "idle",
           Install \/ Published \/ Urgent \/ EndSession
    PROVE  TellsStill(o)
  <1> HIDE DEF Changing
  <1>n. o # NoSession
    BY DEF Sessions, NoSession
  <1>q. /\ ses[o].urgent \in Seq(Reports) /\ ses[o].wire \in Seq(Reports) /\ rt.last \in Nat
        /\ ses[o].stop \in BOOLEAN /\ ses[o].at \in {"none", "hello", "replace", "admit", "wait", "attached", "run", "over"}
    BY Queues DEF TypeInv, ServerType, TableType, SessionRecords
  <1>1. ses[o].at \in {"attached", "run"} /\ ~ses[o].stop => o = rt.cur
    BY DEF CaptureInv
  <1>2. CASE Install
    <2>1. /\ KeepsReports(o) /\ ses'[o].at = ses[o].at
          /\ o = rt.cur => ses'[o].stop
          /\ o # rt.cur /\ o # Head(cmds) => ses'[o].stop = ses[o].stop
          /\ rt'.cur = Head(cmds) /\ rt'.muted = ses[Head(cmds)].hello
          /\ Head(cmds) = cmds[1] /\ cmds # <<>>
      BY <1>n, <1>2, InstallEffect DEF KeepsAt, KeepsLife
    <2>2. o = Head(cmds) => ses[o].at \in {"wait", "over"}
      <3>1. 1 \in 1..Len(cmds)
        <4>1. cmds \in Seq(Sessions)
          BY DEF TypeInv, ServerType
        <4> QED
          BY <2>1, <4>1, TailOf
      <3> QED
        BY <2>1, <3>1 DEF CommandInv
    <2>3. ~(ses'[o].at \in {"attached", "run"} /\ ~ses'[o].stop)
      BY <1>1, <2>1, <2>2
    <2>4. rt'.cur = o => rt'.muted = ses'[o].hello
      BY <2>1 DEF KeepsReports
    <2> QED
      BY <2>1, <2>3, <2>4 DEF TellsStill, ToldInv, KeepsReports
  <1>3. CASE Published
    <2>1. /\ KeepsReports(o) /\ rt'.muted = rt.muted /\ rt'.cur = rt.cur
          /\ ses'[o].stop = ses[o].stop
          /\ o # rt.cur => ses'[o].at = ses[o].at
          /\ o = rt.cur => ses'[o].at = IF ses[o].at = "wait" THEN "attached" ELSE ses[o].at
      BY <1>3, PublishedEffect DEF KeepsAt
    <2>2. CASE o # rt.cur \/ ses[o].at # "wait"
      BY <2>1, <2>2, QuietTells
    <2>3. CASE o = rt.cur /\ ses[o].at = "wait"
      <3>1. link.phase # "up"
        BY <2>3 DEF ToldInv
      <3>2. /\ ses[o].wire = <<>> /\ ses[o].urgent = <<>>
            /\ ~ses[o].stop => rt.muted = ses[o].hello
            /\ ~ghost.overlap /\ ~ghost.stale /\ ~Changing => ses[o].hello = dev.muted
        BY <2>3, <3>1 DEF ToldInv
      <3>3. Told(o)' = rt.muted
        BY <2>1, <3>2 DEF Told, KeepsReports
      <3> QED
        BY <2>1, <2>3, <3>2, <3>3 DEF TellsStill, KeepsReports
    <2> QED
      BY <2>2, <2>3
  <1>4. CASE EndSession
    <2>1. /\ KeepsReports(o) /\ ses'[o].at = ses[o].at /\ rt'.cur = NoSession
          /\ o = rt.cur => ses'[o].stop
          /\ o # rt.cur => ses'[o].stop = ses[o].stop
      BY <1>4, EndSessionEffect DEF KeepsAt, KeepsLife, NoCurrent
    <2>2. ~(ses'[o].at \in {"attached", "run"} /\ ~ses'[o].stop)
      BY <1>1, <2>1
    <2> QED
      BY <1>n, <2>1, <2>2 DEF TellsStill, ToldInv, KeepsReports
  <1>5. CASE Urgent
    <2>c. rt'.cur = rt.cur
      BY <1>5, UrgentEffect
    <2>1. CASE o # rt.cur
      <3>1. ses'[o] = ses[o]
        BY <1>5, <2>1, UrgentEffect
      <3> QED
        BY <1>1, <2>c, <2>1, <3>1 DEF TellsStill, ToldInv
    <2>2. CASE o = rt.cur
      <3> DEFINE u == ses[o].urgent
                 y == Tail(u)
      <3>1. /\ ses'[o].at = ses[o].at /\ ses'[o].stop = ses[o].stop
            /\ ses'[o].wire = ses[o].wire /\ ses'[o].urgent = y /\ u # <<>>
            /\ ses'[o].hello = ses[o].hello
        BY <1>5, <2>2, UrgentEffect DEF KeepsAt
      <3>h. Handled(o)
        BY <1>5, <2>2, UrgentEffect
      <3>2. link.phase = "up"
        BY <3>1 DEF ToldInv
      <3>3. /\ y # <<>> => Last1(y) = Last1(u)
            /\ y = <<>> => Last1(u) = u[1]
            /\ 1 \in 1..Len(u) /\ u[1] \in Reports
        BY <1>q, <3>1, LastOf, TailOf
      <3>4. o \notin ghost.mixed => u[1].seq > rt.last
        BY <2>2, <3>3 DEF OrderInv, Ordered, Applied
      <3>5. o \notin ghost.mixed => rt'.muted = u[1].muted
        BY <1>q, <3>3, <3>4, <3>h DEF Handled, Reports
      <3> HIDE DEF u, y
      <3>6. ASSUME ~ghost.overlap, ~ghost.stale, ~Changing,
                   ses'[o].at \in {"attached", "run"}, ~ses'[o].stop
            PROVE  Told(o)' = dev.muted
        <4>1. o \notin ghost.mixed /\ Told(o) = dev.muted
          BY <3>1, <3>6 DEF ToldInv
        <4>2. CASE ses[o].wire # <<>>
          BY <3>1, <4>1, <4>2 DEF Told
        <4>3. CASE ses[o].wire = <<>>
          <5>1. Last1(u).muted = dev.muted
            BY <3>1, <4>1, <4>3 DEF Told, u, Last1
          <5>2. CASE y # <<>>
            BY <3>1, <3>3, <4>3, <5>1, <5>2 DEF Told, Last1
          <5>3. CASE y = <<>>
            BY <3>1, <3>3, <3>5, <4>1, <4>3, <5>1, <5>3 DEF Told
          <5> QED
            BY <5>2, <5>3
        <4> QED
          BY <4>2, <4>3
      <3> QED
        BY <3>1, <3>2, <3>6 DEF TellsStill
    <2> QED
      BY <2>1, <2>2
  <1> QED
    BY <1>2, <1>3, <1>4, <1>5

\* A report of the device, on a session that is up or on none.
LEMMA ReportTells ==
    ASSUME TypeInv, CaptureInv, ApplyInv, ToldInv, NEW t \in Threads, SetPrivacy(t)
    PROVE  ToldInv'
  <1> DEFINE o == link.id
             v == [muted |-> thr[t].v, seq |-> thr[t].seq]
  <1>1. /\ link' = link /\ rt' = rt /\ up' = up /\ Report(v) /\ Returned(t) /\ thr[t].pc = "send"
    BY DEF SetPrivacy, At
  <1> SUFFICES ASSUME link.phase # "idle" PROVE ToldInv'
    BY <1>1 DEF ToldInv
  <1>2. up /\ o \in Sessions /\ thr \in [Threads -> Goroutines] /\ v \in Reports
        /\ ghost \in [overlap : BOOLEAN, stale : BOOLEAN, mixed : SUBSET Sessions]
    <2>1. up /\ o \in Sessions
      BY SessionAssumption DEF ToldInv, TypeInv, LinkType, Sessions, NoSession
    <2> QED
      BY <2>1 DEF TypeInv, DeviceType, LinkType, Reports, Goroutines
  <1>3. dev'.muted = dev.muted
    BY DEF SetPrivacy, TypeInv, DeviceType, Devices
  <1>4. ~ghost.overlap => thr[t].v = dev.muted /\ thr[t].seq = dev.seq
    BY <1>1, <1>2 DEF ApplyInv, Setting, At
  <1>5. CASE link.phase # "up"
    <2>1. /\ ses' = ses /\ ghost'.overlap = ghost.overlap /\ ghost'.mixed = ghost.mixed
          /\ ~ghost'.stale => ses[o].hello = v.muted
      BY <1>1, <1>2, <1>5 DEF Report
    <2>2. /\ ses[o].wire = <<>> /\ ses[o].urgent = <<>> /\ o \notin ghost.mixed
          /\ rt.cur = o /\ ~ses[o].stop => rt.muted = ses[o].hello
      BY <1>5 DEF ToldInv
    <2>3. Told(link.id)' = rt.muted
      BY <1>1, <2>1, <2>2 DEF Told
    <2>4. ses[o].at \in {"attached", "run"} /\ ~ses[o].stop => rt.cur = o
      BY <1>2 DEF CaptureInv
    <2>5. ASSUME ~ghost'.overlap, ~ghost'.stale
          PROVE  /\ ses[o].hello = dev.muted
                 /\ ses[o].at \in {"attached", "run"} /\ ~ses[o].stop => rt.muted = dev.muted
      BY <1>4, <2>1, <2>2, <2>4, <2>5
    <2>6. up /\ (link.phase \in {"ready", "up"} => ses[o].at \in {"run", "over"})
      BY DEF ToldInv
    <2> HIDE DEF v
    <2> QED
      BY <1>1, <1>3, <1>5, <2>1, <2>2, <2>3, <2>5, <2>6 DEF ToldInv
  <1>6. CASE link.phase = "up"
    <2>1. /\ ghost'.overlap = ghost.overlap
          /\ ghost'.mixed = IF v.seq < dev.seq THEN ghost.mixed \cup {o} ELSE ghost.mixed
      BY <1>1, <1>2, <1>6 DEF Report
    <2>2. /\ ses'[o].at = ses[o].at /\ ses'[o].stop = ses[o].stop
          /\ ses'[o].wire = IF ses[o].at = "run" THEN Append(ses[o].wire, v) ELSE ses[o].wire
      BY <1>1, <1>6, ReportEffect DEF KeepsAt, KeepsLife
    <2>3. ~ghost.overlap => v.seq = dev.seq /\ v.muted = dev.muted
      BY <1>4
    <2>4. ~ghost.overlap => o \notin ghost'.mixed
      <3>1. dev.seq \in Nat /\ (~ghost.overlap => o \notin ghost.mixed)
        BY DEF ToldInv, TypeInv, DeviceType, Devices
      <3> HIDE DEF v, o
      <3> QED
        BY <2>1, <2>3, <3>1
    <2>5. ses[o].at \in {"run", "over"}
      BY <1>6 DEF ToldInv
    <2>6. Last1(Append(ses[o].wire, v)) = v /\ Append(ses[o].wire, v) # <<>>
      BY <1>2, Queues, LastAppend
    <2>7. ses[o].at = "run" => Told(link.id)' = v.muted
      <3> HIDE DEF v
      <3> QED
        BY <1>1, <2>2, <2>6 DEF Told, Last1
    <2> HIDE DEF v
    <2> QED
      BY <1>1, <1>2, <1>3, <1>6, <2>1, <2>2, <2>3, <2>4, <2>5, <2>7 DEF ToldInv
  <1> QED
    BY <1>5, <1>6

\* What the controller was told last is the device's mute.
LEMMA StepTold ==
    ASSUME TypeInv, IdInv, CommandInv, CaptureInv, OrderInv, ApplyInv, ToldInv, [Next]_vars
    PROVE  ToldInv'
  <1>1. /\ thr \in [Threads -> Goroutines] /\ Threads = {"button", "timer"} /\ dev \in Devices
        /\ ghost \in [overlap : BOOLEAN, stale : BOOLEAN, mixed : SUBSET Sessions]
        /\ link \in [phase : {"idle", "hello", "ready", "up"}, id : Nat]
    BY DEF TypeInv, DeviceType, LinkType, Threads
  <1>2. link.phase # "idle" => link.id \in Sessions
    BY SessionAssumption DEF TypeInv, LinkType, Sessions, NoSession
  <1>3. ASSUME NEW t \in Threads, SetPrivacy(t) PROVE ToldInv'
    BY <1>3, ReportTells
  <1>a. ASSUME NEW t \in Threads, Backpressure(t) PROVE ToldInv'
    <2>1. UNCHANGED <<ses, rt, up, link>> /\ dev'.muted = dev.muted
      BY <1>1, <1>a DEF Backpressure, Devices
    <2>2. ghost'.stale /\ ghost'.mixed = ghost.mixed /\ ghost'.overlap = ghost.overlap /\ link.phase = "up"
      BY <1>1, <1>a DEF Backpressure
    <2> QED
      BY <2>1, <2>2 DEF ToldInv
  <1>4. CASE link'.phase = "idle"
    BY <1>4 DEF ToldInv
  <1>5. CASE Dial
    <2> DEFINE n == link.id + 1
    <2>1. /\ link' = [phase |-> "hello", id |-> n] /\ n \in Sessions
          /\ ses'[n] = NewSession(dev.muted)
      BY <1>5, DialEffect DEF Dial
    <2>2. /\ rt' = rt /\ dev' = dev /\ up' /\ ghost'.mixed = ghost.mixed
      BY <1>1, <1>5 DEF Dial, device
    <2>3. n \notin ghost.mixed /\ rt.cur # n
      BY <1>1 DEF IdInv, TypeInv, LinkType, ServerType, NoSession, Sessions
    <2>4. /\ ses'[n].at = "hello" /\ ses'[n].hello = dev.muted
          /\ ses'[n].wire = <<>> /\ ses'[n].urgent = <<>>
      BY <2>1 DEF NewSession, SessionAt
    <2> HIDE DEF n
    <2> QED
      BY <2>1, <2>2, <2>3, <2>4 DEF ToldInv
  <1>6. CASE UNCHANGED <<device, up, link, ghost>>
    <2>1. CASE link.phase = "idle"
      BY <1>6, <2>1 DEF ToldInv
    <2>2. CASE link.phase # "idle"
      <3>1. link.id \in Sessions /\ link' = link
        BY <1>2, <1>6, <2>2
      <3>2. Shutting => link'.phase = "idle"
        BY DEF Shutting
      <3>3. Reporting => \E t \in Threads : SetPrivacy(t)
        BY DEF Reporting
      <3>4. ASSUME NEW o \in Sessions, o = link.id, TellsStill(o) PROVE ToldInv'
        BY <1>6, <3>4, TellsStillKeeps
      <3>5. \/ Still \/ Shutting \/ Reporting \/ Dial
            \/ \E s \in Sessions : \/ Claim(s) \/ Replace(s) \/ Admit(s) \/ Going(s)
                                   \/ Running(s) \/ OnPrivacy(s) \/ Stop(s)
            \/ Install \/ Published \/ Urgent \/ EndSession
        BY Steps
      <3>6. PICK o \in Sessions : o = link.id
        BY <3>1
      <3>7. TellsStill(o) \/ Shutting \/ Reporting \/ Dial
        BY <2>2, <3>5, <3>6, ServerTells, RuntimeTells
      <3> QED
        BY <1>3, <1>4, <1>5, <3>2, <3>3, <3>4, <3>6, <3>7
    <2> QED
      BY <2>1, <2>2
  <1> DEFINE Aside == /\ UNCHANGED <<ses, rt, up, link>> /\ ghost' = ghost /\ dev'.muted = dev.muted
                      /\ (\E t \in Threads : thr[t].pc \in Setting)
                         => \E t \in Threads : thr'[t].pc \in Setting
  <1>7. ASSUME Aside PROVE ToldInv'
    <2>1. ~Changing' => ~Changing
      BY <1>7 DEF Changing
    <2>2. Told(link.id)' = Told(link.id)
      BY <1>7 DEF Told
    <2> HIDE DEF Changing
    <2> QED
      BY <1>7, <2>1, <2>2 DEF ToldInv
  <1>8. CASE Toggle \/ Reconcile
    <2>1. Aside
      BY <1>1, <1>8, MovesOff DEF Toggle, Reconcile, Setting, At
    <2> QED
      BY <1>7, <2>1
  <1>9. CASE DecidePrivacy
    <2>1. Aside
      BY <1>1, <1>9, Decides DEF DecidePrivacy, Setting
    <2> QED
      BY <1>7, <2>1
  <1>10. CASE Entered \/ Press
    <2>1. Aside
      BY <1>10 DEF Entered, Press
    <2> QED
      BY <1>7, <2>1
  <1>11. ASSUME NEW t \in Threads, Apply(t) \/ Number(t) PROVE ToldInv'
    <2>1. dev'.muted = dev.muted /\ UNCHANGED <<ses, rt, up, link, ghost>>
      BY <1>1, <1>11 DEF Apply, Number, Devices
    <2>2. thr'[t].pc \in Setting
      <3>1. Goto(t, "number") \/ Number(t)
        BY <1>11 DEF Apply
      <3> QED
        BY <1>1, <3>1, Moves DEF Points, Setting
    <2> QED
      BY <1>7, <2>1, <2>2
  <1>12. ASSUME NEW t \in Threads, Set(t) PROVE ToldInv'
    <2>1. CASE thr[t].v = dev.muted
      <3>1. Returned(t) /\ UNCHANGED <<dev, ghost, ses, rt, up, link>> /\ thr[t].pc = "set"
        BY <1>12, <2>1 DEF Set, At
      <3>2. Aside
        BY <1>1, <3>1, Moves DEF Setting
      <3> QED
        BY <1>7, <3>2
    <2>2. CASE thr[t].v # dev.muted
      <3>1. /\ Goto(t, "apply") /\ UNCHANGED <<ses, rt, up, link>>
            /\ ghost' = [ghost EXCEPT !.overlap =
                   ghost.overlap \/ \E o \in Threads \ {t} : thr[o].pc \in Setting]
        BY <1>12, <2>2 DEF Set
      <3>2. Changing'
        BY <1>1, <3>1, Moves DEF Points, Setting, Changing
      <3>3. ghost'.mixed = ghost.mixed /\ (~ghost'.overlap => ~ghost.overlap)
        BY <1>1, <3>1
      <3> QED
        BY <3>1, <3>2, <3>3 DEF ToldInv
    <2> QED
      BY <2>1, <2>2
  <1>13. CASE Start
    BY <1>13 DEF Start, ToldInv
  <1>14. CASE Join \/ Ready
    <2>1. /\ UNCHANGED <<ses, rt, up, ghost, dev, thr>> /\ link'.id = link.id
          /\ \/ link.phase = "hello" /\ link'.phase = "ready" /\ ses[link.id].at = "run"
             \/ link.phase = "ready" /\ link'.phase = "up"
      BY <1>1, <1>14 DEF Join, Ready, device
    <2>2. Told(link.id)' = Told(link.id) /\ (~Changing' => ~Changing)
      BY <2>1 DEF Told, Changing
    <2> HIDE DEF Changing
    <2> QED
      BY <2>1, <2>2 DEF ToldInv
  <1> HIDE DEF Aside
  <1> QED
    BY <1>3, <1>a, <1>4, <1>5, <1>6, <1>8, <1>9, <1>10, <1>11, <1>12, <1>13, <1>14, LinkSteps

----------------------------------------------------------------------------
(* The theorems                                                            *)

Inv ==
    /\ TypeInv /\ IdInv /\ RouteInv /\ CommandInv /\ CaptureInv
    /\ OrderInv /\ NumberInv /\ ReadInv /\ HeardInv
    /\ ApplyInv /\ DriverInv /\ ToldInv /\ ScopeInv

\* Nothing has been reported, set or dialled when the programs start.
LEMMA InitInv == Init => Inv
  <1> SUFFICES ASSUME Init PROVE Inv
    OBVIOUS
  <1>1. TypeInv /\ IdInv /\ RouteInv /\ CommandInv /\ CaptureInv
    BY InitType, InitServer
  <1>2. /\ \A s \in Sessions : /\ ses[s].urgent = <<>> /\ ses[s].wire = <<>>
                               /\ ses[s].scope = "none"
        /\ rt.cur = NoSession /\ NoSession \notin Sessions
        /\ link.phase = "idle"
        /\ \A t \in Threads : thr[t].pc = "idle"
    BY DEF Init, Unused, SessionAt, NoCurrent, Idle, Goroutine, NoSession, Sessions
  <1>3. OrderInv
    BY <1>2, OrderedEmpty DEF OrderInv
  <1>4. NumberInv
    BY <1>2 DEF NumberInv, At
  <1>5. ReadInv /\ HeardInv
    BY <1>2 DEF ReadInv, HeardInv, MuteIsHeard
  <1>6. ToldInv
    BY <1>2 DEF ToldInv
  <1>7. ScopeInv
    BY <1>2 DEF ScopeInv
  <1>8. \E saved \in BOOLEAN : dev = Restored(saved) /\ driver = IF saved THEN "on" ELSE "off"
    BY DEF Init
  <1>9. ApplyInv
    BY <1>2, <1>8 DEF ApplyInv, Changing, Setting, At, Restored
  <1>10. DriverInv
    BY <1>2, <1>8 DEF DriverInv, CheckDue, Setting, At, Restored, Threads
  <1> QED
    BY <1>1, <1>3, <1>4, <1>5, <1>6, <1>7, <1>9, <1>10 DEF Inv

\* Every step of the device, the link server and the runtime keeps it.
LEMMA StepInv == Inv /\ [Next]_vars => Inv'
  BY StepType, StepId, StepRoute, StepCommand, StepCapture, StepOrder, StepNumber, StepHeard,
     StepApply, StepDriver, StepTold, StepScope
     DEF Inv

\* The inductive invariant holds of every reachable state.
THEOREM Invariance == Spec => []Inv
  BY InitInv, StepInv, PTL DEF Spec

\* What the type invariant promises of the runtime and its sessions
\* (device.rs, session.rs): publication is of the current session, the urgent
\* path stays within its bound, and a session that is over was stopped.
THEOREM Typed == Spec => []TypeOK
  <1>1. Inv => TypeOK
    BY DEF Inv, TypeInv, DeviceType, ServerType, TableType, SessionType, TypeOK
  <1> QED
    BY <1>1, Invariance, PTL

\* A running session is the one the registry claims and routes: the end of an
\* older session of the device (registry.rs release) never unroutes it.
THEOREM Routed == Spec => []RunningIsRouted
  <1>1. Inv => RunningIsRouted
    BY DEF Inv, RouteInv
  <1> QED
    BY <1>1, Invariance, PTL

\* The runtime's publish_capture and the sessions' end never leave two live
\* capture scopes of one device.
THEOREM SingleCapture == Spec => []OneLiveCapture
  <1>1. Inv => OneLiveCapture
    BY DEF Inv, CaptureInv, OneLiveCapture
  <1> QED
    BY <1>1, Invariance, PTL

\* Stop-then-revoke against publish-then-look: an ended session keeps no live
\* scope, whichever of the two comes first.
THEOREM Revoked == Spec => []EndedIsRevoked
  <1>1. Inv => EndedIsRevoked
    BY DEF Inv, CaptureInv
  <1> QED
    BY <1>1, Invariance, PTL

\* A mute the link read is never lost on its way to the runtime while capture is
\* live: on_privacy revokes, and what could grant again is behind it in the queue.
THEOREM Heard == Spec => []MuteIsHeard
  <1>1. Inv => MuteIsHeard
    BY DEF Inv, HeardInv
  <1> QED
    BY <1>1, Invariance, PTL

\* A device at rest has its driver, ADC, state file and supervisor in step with
\* the mute controller, whatever was pressed and whenever the process crashed.
THEOREM Settles == Spec => []MuteSettles
  <1>1. Inv => MuteSettles
    <2> SUFFICES ASSUME Inv, DeviceQuiet PROVE MuteSettles
      BY DEF MuteSettles
    <2>1. /\ up /\ pressed = 0 /\ armed = 0 /\ \A t \in Threads : thr[t].pc = "idle"
      BY DEF DeviceQuiet, At
    <2>2. ~CheckDue
      BY <2>1 DEF CheckDue, At, Threads
    <2>3. driver = IF dev.muted THEN "on" ELSE "off"
      BY <2>1, <2>2 DEF Inv, DriverInv, At, Threads
    <2>4. ghost.overlap \/ {dev.adc, dev.saved, dev.reported} = {dev.muted}
      BY <2>1 DEF Inv, ApplyInv, Changing, Setting
    <2> QED
      BY <2>3, <2>4 DEF MuteSettles
  <1> QED
    BY <1>1, Invariance, PTL

\* The controller's idea of the mute of a connected device at rest is the
\* device's, and its capture is live exactly when the device is unmuted.
THEOREM Agrees == Spec => []MuteAgrees
  <1>1. Inv => MuteAgrees
    <2> SUFFICES ASSUME Inv, Connected, DeviceQuiet, ~ghost.overlap, ~ghost.stale
                 PROVE  /\ rt.muted = dev.muted
                        /\ ses[link.id].scope = IF dev.muted THEN "dead" ELSE "live"
      BY DEF MuteAgrees
    <2> DEFINE o == link.id
    <2>1. /\ link.phase = "up" /\ rt.cur = o /\ ses[o].at = "run" /\ ~ses[o].stop
          /\ ses[o].wire = <<>> /\ ses[o].urgent = <<>>
      BY DEF Connected
    <2>2. o \in Sessions
      BY <2>1, SessionAssumption DEF Inv, TypeInv, LinkType, Sessions, NoSession
    <2>3. ~Changing
      BY DEF DeviceQuiet, Changing, Setting, At
    <2>4. o \notin ghost.mixed /\ Told(o) = dev.muted
      BY <2>1, <2>3 DEF Inv, ToldInv
    <2>5. rt.muted = dev.muted
      BY <2>1, <2>4 DEF Told
    <2>6. rt.muted \in BOOLEAN
      BY <2>2, Queues DEF Inv
    <2>7. /\ rt.muted => ses[o].scope = "dead"
          /\ ~rt.muted /\ ses[o].scope # "live" =>
               \E i \in 1..Len(ses[o].urgent) : ses[o].urgent[i].muted
      BY <2>1, <2>2, <2>4 DEF Inv, ScopeInv
    <2>8. Len(ses[o].urgent) = 0
      BY <2>1, EmptySeq
    <2> QED
      BY <2>5, <2>6, <2>7, <2>8
  <1> QED
    BY <1>1, Invariance, PTL

==============================================================================
