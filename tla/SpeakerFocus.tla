---------------------------- MODULE SpeakerFocus ----------------------------
(***************************************************************************)
(* The speaker focus of one device: the focus manager (internal/focus)     *)
(* with its leases, deadlines and background budget, and the goroutines    *)
(* that call it: the session's reader, the 50 ms tick, the alert executor, *)
(* the wake detector, the button, and the mixer's hooks.                   *)
(*                                                                         *)
(* An update of the manager is atomic (its lock is held); the callbacks it *)
(* queues run after the unlock, one by one, on the goroutine that called.  *)
(* Time is counted in ticks; a callback takes less than one.  The          *)
(* controller may send any focus command at any time, but, as a turn       *)
(* releases its input before its answer, it holds one lease of an owner at *)
(* a time.  An id that nothing refers to any more is used again as a new   *)
(* one.  Duck depths are reduced to ducked or not, and what the mixer does *)
(* with them is left out.                                                  *)
(***************************************************************************)
EXTENDS Naturals, Sequences, FiniteSets

CONSTANTS
    Leases,      \* ids of focus.acquire
    Candidates,  \* wake candidates
    Playbacks,   \* dialog output playbacks
    Alerts,      \* alert occurrences
    Of,          \* their [owner, generation, kind]
    TTL, AckWait, AlertYield, AlertBackgroundCap, ProvisionalWindow,
    PerWindow,   \* provisional ducks in one window
    MaxBusy,     \* bound on goroutines between an update and its last callback
    None

ASSUME TimeAssumption ==
    {TTL, AckWait, AlertYield, AlertBackgroundCap, ProvisionalWindow, PerWindow} \subseteq Nat \ {0}
ASSUME BoundAssumption ==
    MaxBusy \in Nat \ {0}
ASSUME IdAssumption == Leases \cap Candidates = {} /\ IsFiniteSet(Leases \cup Candidates)
ASSUME NoneAssumption ==
    /\ None \notin Nat \cup Alerts \cup Playbacks
    /\ None \notin [left : Nat, converted : BOOLEAN] \cup [id : Alerts, fg : BOOLEAN]

Threads == {"link", "tick", "alert", "wake", "button", "hooks"}

VARIABLES
    m,       \* focus.Manager
    acts,    \* what each goroutine has left to do after its update
    mix,     \* the mixer: current dialog output, events to deliver
    ex,      \* the alert executor's side: what rings, what it told, burst
    sup,     \* the supervisor's leases and alertFocusID
    session, \* connected to the controller
    ticked,  \* the tick of this unit of time has run
    open,    \* candidates whose subscription is open
    ghost    \* history for the properties

vars == <<m, acts, mix, ex, sup, session, ticked, open, ghost>>

----------------------------------------------------------------------------
(* The manager, as functions of its record                                 *)

Ids == Leases \cup Candidates
Live(x) == {l \in Ids : x.leases[l] # None}
Ducking(x) == {c \in Candidates : x.prov[c] # None}
Queue(x, act) == [x EXCEPT !.pending = Append(@, act)]
CancelAct(p) == [do |-> "cancel", of |-> p]

Lease(left_, converted) == [left |-> left_, converted |-> converted]

CancelDialogLocked(x) ==
    IF x.dialog = None THEN x
    ELSE Queue([x EXCEPT !.dialog = None], CancelAct(x.dialog))

ResetAlertLocked(x) ==
    [x EXCEPT !.alert = None, !.bg = FALSE, !.bgFor = 0, !.budget = 0, !.spent = FALSE,
              !.yieldIn = None, !.yielded = FALSE]

\* What expires, and in which order: the leases are a Go map.
Expired(x) == {l \in Live(x) : x.leases[l].left = 0}
Orders(S) == {s \in [1..Cardinality(S) -> S] : \A l \in S : \E i \in DOMAIN s : s[i] = l}

\* Mutant: the callback is left out.
CallbacksSilent(order) == <<>>

Callbacks(order) == [i \in DOMAIN order |-> [do |-> "expired", of |-> order[i]]]

\* The output goes with the last lease of its owner, unless it is newer.
OwnerGone(x, order) ==
    /\ x.dialog # None
    /\ \A l \in Live(x) \ Expired(x) : Of[l].owner # Of[x.dialog].owner
    /\ \E i \in DOMAIN order :
         /\ Of[x.dialog].owner = Of[order[i]].owner /\ Of[x.dialog].gen <= Of[order[i]].gen
         /\ \A j \in DOMAIN order : j > i => Of[order[j]].owner # Of[x.dialog].owner

\* The outcomes of expireLocked: the callbacks of the leases, then the output's, which
\* commutes with those of other owners' leases.
ExpireLocked(x) ==
    LET Gone(order) ==
            [x EXCEPT !.leases = [l \in Ids |-> IF l \in Expired(x) THEN None ELSE @[l]],
                      !.prov = [c \in Candidates |-> IF @[c] = 0 THEN None ELSE @[c]],
                      !.pending = @ \o Callbacks(order)]
    IN  {IF OwnerGone(x, order) THEN CancelDialogLocked(Gone(order)) ELSE Gone(order) :
            order \in Orders(Expired(x))}

\* Mutant: the budget is compared too late.
DeadlinesLate(x) ==
    LET y == IF x.yieldIn # 0 THEN x
             ELSE CancelDialogLocked([x EXCEPT !.yieldIn = None, !.yielded = TRUE])
    IN  IF y.bg /\ ~y.spent /\ y.budget + y.bgFor > AlertBackgroundCap
        THEN CancelDialogLocked([y EXCEPT !.spent = TRUE]) ELSE y

DeadlinesLocked(x) ==
    LET y == IF x.yieldIn # 0 THEN x
             ELSE CancelDialogLocked([x EXCEPT !.yieldIn = None, !.yielded = TRUE])
    IN  IF y.bg /\ ~y.spent /\ y.budget + y.bgFor >= AlertBackgroundCap
        THEN CancelDialogLocked([y EXCEPT !.spent = TRUE]) ELSE y

HasKind(x, kind) == \E l \in Live(x) : Of[l].kind = kind
Input(x) == HasKind(x, "input") \/ Ducking(x) # {}
OutputHeld(x) == HasKind(x, "output") \/ x.dialog # None

\* recomputeLocked: whether the alert is in the background, and its budget.
Background(x) ==
    LET bg == /\ x.alert # None /\ ~x.spent
              /\ x.yieldIn # None \/ Input(x) \/ (OutputHeld(x) /\ ~x.yielded)
    IN  IF bg = x.bg THEN x
        ELSE [x EXCEPT !.bg = bg, !.bgFor = 0, !.budget = IF bg THEN @ ELSE @ + x.bgFor]

\* recomputeLocked: the output, applied when it changed.
RecomputeLocked(x) ==
    LET y == Background(x)
        out == [content |-> Live(y) \cup Ducking(y) # {},
                dialog |-> Ducking(y) # {} \/ \E l \in Live(y) : y.leases[l].converted,
                pause |-> y.alert # None, bg |-> y.bg]
    IN  IF out = y.out THEN y
        ELSE [y EXCEPT !.out = out,
                       !.pending = Append(@, [do |-> "apply", of |-> out.bg])]

\* update: expiries, the operation (on x in Now), deadlines, the policy; then the
\* callbacks, then what the caller does after its call.
Now == ExpireLocked(m)
Update(t, x, after) ==
    LET done == RecomputeLocked(DeadlinesLocked(x))
    IN  /\ m' = [done EXCEPT !.pending = <<>>]
        /\ acts' = [acts EXCEPT ![t] = done.pending \o after]

Busy == {t \in Threads : acts[t] # <<>>}
Free(t) == t \notin Busy /\ Cardinality(Busy) < MaxBusy
Idle == Busy = {}
Unnamed(id) == \A t \in Threads : \A i \in DOMAIN acts[t] : acts[t][i].of # id

----------------------------------------------------------------------------
(* The session's reader                                                    *)

\* Mutant: a new turn has a new background budget.
AcquireRenews(x, l) ==
    [x EXCEPT !.leases[l] = Lease(TTL, FALSE), !.budget = 0, !.bgFor = 0, !.yielded = FALSE]

Acquire(x, l) ==
    LET others == {k \in Live(x) : x.leases[k].converted /\ Of[k].owner = Of[l].owner}
        z == [x EXCEPT !.leases = [k \in Ids |-> IF k \in others THEN None ELSE @[k]]]
        y == IF Of[l].kind = "input" THEN CancelDialogLocked([z EXCEPT !.yielded = FALSE]) ELSE z
    IN  [y EXCEPT !.leases[l] = Lease(TTL, FALSE)]

Renew(x, l) == IF x.leases[l] = None THEN x ELSE [x EXCEPT !.leases[l].left = TTL]
Release(x, l) == [x EXCEPT !.leases[l] = None]

\* focusAcquire, focusRenew, focusRelease: s.leases follows the manager.
FocusCommand(l) ==
    /\ session /\ Free("link")
    /\ \E x \in Now :
         \/ /\ l \notin sup.leases /\ Unnamed(l)
            /\ \A k \in Live(m) \cap Leases : Of[k].owner # Of[l].owner
            /\ Update("link", Acquire(x, l), <<[do |-> "noted", of |-> l]>>)
         \/ l \in Live(m) /\ Update("link", Renew(x, l), <<>>)
         \/ /\ l \in Live(m)
            /\ Update("link", Release(x, l), <<[do |-> "forgot", of |-> l]>>)
    /\ UNCHANGED <<mix, ex, sup, session, ticked, open, ghost>>

EndAll(x) ==
    CancelDialogLocked([x EXCEPT !.leases = [l \in Ids |-> None], !.prov = [c \in Candidates |-> None]])

\* endSession; the next session.
EndSession ==
    /\ session /\ Free("link") /\ open' = {}
    /\ session' = FALSE /\ sup' = [sup EXCEPT !.leases = {}]
    /\ \E x \in Now : Update("link", EndAll(x), <<[do |-> "mixend", of |-> None]>>)
    /\ UNCHANGED <<mix, ex, ticked, ghost>>
Reconnect ==
    /\ ~session /\ Free("link") /\ session' = TRUE
    /\ UNCHANGED <<m, acts, mix, ex, sup, ticked, open, ghost>>

DeviceSame == UNCHANGED <<mix, ex, sup, session, ticked>>

\* candidateAcked, uplinkRenew and uplinkClose, for a candidate that is open.
CandidateRenew(x, c) == IF x.prov[c] = None THEN x ELSE [x EXCEPT !.prov[c] = TTL]
CandidateRelease(x, c) == [x EXCEPT !.prov[c] = None]
CandidateAccept(x, c) ==
    LET y == CancelDialogLocked([x EXCEPT !.prov[c] = None])
        own == {k \in Live(y) : Of[k].owner = Of[c].owner /\ ~y.leases[k].converted}
    IN  IF x.prov[c] = None THEN x
        ELSE IF own # {} THEN y
        ELSE [y EXCEPT !.leases[c] = Lease(TTL, TRUE)]
CandidateCommand(c) ==
    /\ session /\ Free("link") /\ c \in open
    /\ \E x \in Now :
         \/ Update("link", CandidateRenew(x, c), <<>>) /\ UNCHANGED open
         \/ Update("link", CandidateRelease(x, c), <<>>) /\ open' = open \ {c}
         \/ Update("link", CandidateAccept(x, c), <<>>) /\ open' = open \ {c}
    /\ DeviceSame /\ UNCHANGED ghost

\* renderStart of a dialog output.
Fresh(p) == p \notin {mix.cur, m.dialog} /\ mix.events = <<>> /\ Idle
RenderStart(p) ==
    /\ session /\ Free("link") /\ Fresh(p)
    /\ mix' = [mix EXCEPT !.cur = p, !.started = FALSE,
                          !.events = IF mix.cur = None THEN @
                                     ELSE Append(@, [ev |-> "finished", of |-> mix.cur])]
    /\ ghost' = [ghost EXCEPT !.over = None, !.waits = 0]
    /\ UNCHANGED <<m, acts, ex, sup, session, ticked, open>>

----------------------------------------------------------------------------
(* The wake detector                                                       *)

Recent(x) == {i \in 1..PerWindow : x.ducks[i] < ProvisionalWindow}
Oldest(x) == CHOOSE i \in 1..PerWindow : \A j \in 1..PerWindow : x.ducks[j] <= x.ducks[i]

Ducked(x, c) ==
    IF Cardinality(Recent(x)) >= PerWindow THEN x
    ELSE [x EXCEPT !.ducks[Oldest(x)] = 0, !.prov[c] = AckWait, !.yielded = FALSE]

\* CandidateOpen, heard while the device was producing sound.
CandidateOpen(c) ==
    /\ session /\ Free("wake") /\ c \notin open \cup Ducking(m) \cup Live(m) /\ Unnamed(c)
    /\ open' = open \cup {c}
    /\ \E x \in Now : Update("wake", Ducked(x, c), <<>>)
    /\ DeviceSame /\ UNCHANGED ghost

----------------------------------------------------------------------------
(* The mixer's hooks                                                       *)

\* The output becomes audible; it drains.  What happens in the mixer and in the
\* executor only queues a report, and so commutes with the callbacks under way:
\* it happens when there are none.
Audible ==
    /\ Idle /\ mix.cur # None /\ ~mix.started
    /\ mix' = [mix EXCEPT !.started = TRUE,
                          !.events = Append(@, [ev |-> "start", of |-> mix.cur])]
    /\ UNCHANGED <<m, acts, ex, sup, session, ticked, open, ghost>>
Stopped(x) == [x EXCEPT !.cur = None, !.started = FALSE,
                        !.events = Append(@, [ev |-> "finished", of |-> x.cur])]
Drained ==
    /\ Idle /\ mix.cur # None /\ mix.started
    /\ mix' = Stopped(mix)
    /\ UNCHANGED <<m, acts, ex, sup, session, ticked, open, ghost>>

\* Mutant: output is admitted whatever the alert does.
DialogOutputAdmitted(x, p) == [x EXCEPT !.dialog = p]

\* DialogOutputStarted: preempted at once under a foreground alert.
DialogOutputStarted(x, p) ==
    IF x.alert # None /\ ~x.bg THEN Queue(x, CancelAct(p)) ELSE [x EXCEPT !.dialog = p]

DialogOutputFinished(x, p) ==
    IF x.dialog # p THEN x
    ELSE IF x.yieldIn = None THEN [x EXCEPT !.dialog = None]
    ELSE [x EXCEPT !.dialog = None, !.yieldIn = None, !.yielded = TRUE]

\* flush: one event at a time, in order.
Hook ==
    /\ mix.events # <<>> /\ Free("hooks")
    /\ LET e == Head(mix.events)
       IN  \E x \in Now :
             Update("hooks", IF e.ev = "start" THEN DialogOutputStarted(x, e.of)
                             ELSE DialogOutputFinished(x, e.of), <<>>)
    /\ mix' = [mix EXCEPT !.events = Tail(@)]
    /\ UNCHANGED <<ex, sup, session, ticked, open, ghost>>

----------------------------------------------------------------------------
(* The alert executor and the button                                       *)

FocusOf(e) == IF e.ringing = None THEN None ELSE [id |-> e.ringing, fg |-> ~e.background]

\* The head of the alert queue changes, or its ring ends.
Rings ==
    /\ Idle
    /\ \/ \E a \in Alerts \ {m.alert, ex.ringing, ex.burst, sup.focus} :
             ex' = [ex EXCEPT !.ringing = a]
       \/ ex.ringing # None /\ ex' = [ex EXCEPT !.ringing = None]
    /\ UNCHANGED <<m, acts, mix, sup, session, ticked, open, ghost>>

\* Poll: what changed is told after the executor's lock is released.
Poll ==
    /\ Free("alert") /\ FocusOf(ex) # ex.told
    /\ ex' = [ex EXCEPT !.told = FocusOf(ex)]
    /\ acts' = [acts EXCEPT !["alert"] = <<[do |-> "focus", of |-> ex.ringing]>>]
    /\ UNCHANGED <<m, mix, sup, session, ticked, open, ghost>>

\* Mutant: an alert due during output has no deadline.
AlertActiveWaits(x, a) ==
    IF a = x.alert THEN x ELSE [ResetAlertLocked(x) EXCEPT !.alert = a]

AlertActive(x, a) ==
    IF a = x.alert THEN x
    ELSE [ResetAlertLocked(x) EXCEPT
            !.alert = a, !.yieldIn = IF x.dialog # None THEN AlertYield ELSE None]

AlertEnded(x, a) == IF a # x.alert THEN x ELSE ResetAlertLocked(x)
AlertBurstCompleted(x, a) ==
    IF a # x.alert THEN x ELSE [x EXCEPT !.budget = 0, !.spent = FALSE, !.bgFor = 0]

\* A loop period ends that was in the foreground throughout.
Burst ==
    /\ Idle /\ ex.ringing # None /\ ~ex.background /\ ex.burst = None
    /\ ex' = [ex EXCEPT !.burst = ex.ringing]
    /\ ghost' = [ghost EXCEPT !.silent = IF m.alert = ex.ringing THEN 0 ELSE @]
    /\ UNCHANGED <<m, acts, mix, sup, session, ticked, open>>

\* Mutant: the executor takes its own change for told.
ButtonTells ==
    /\ Free("button") /\ ex.ringing # None
    /\ ex' = [ex EXCEPT !.ringing = None, !.told = None]
    /\ acts' = [acts EXCEPT !["button"] = <<[do |-> "stopped", of |-> ex.ringing]>>]
    /\ UNCHANGED <<m, mix, sup, session, ticked, open, ghost>>

\* DotButton: the occurrence is dismissed in the executor, then in the manager.
Button ==
    /\ Free("button") /\ ex.ringing # None
    /\ ex' = [ex EXCEPT !.ringing = None]
    /\ acts' = [acts EXCEPT !["button"] = <<[do |-> "stopped", of |-> ex.ringing]>>]
    /\ UNCHANGED <<m, mix, sup, session, ticked, open, ghost>>

----------------------------------------------------------------------------
(* The tick, the callbacks and time                                        *)

Tick ==
    /\ ~ticked /\ Free("tick") /\ ticked' = TRUE
    /\ \E x \in Now : Update("tick", x, IF ex.burst = None THEN <<>>
                                       ELSE <<[do |-> "burst", of |-> ex.burst]>>)
    /\ ex' = [ex EXCEPT !.burst = None]
    /\ UNCHANGED <<mix, sup, session, open, ghost>>

\* The next thing goroutine t does; a nested update's callbacks come first.
Run(t) ==
    /\ acts[t] # <<>>
    /\ LET a == Head(acts[t])
           rest == Tail(acts[t])
           Then == m' = m /\ acts' = [acts EXCEPT ![t] = rest]
       IN  \/ /\ a.do = "apply" /\ ex' = [ex EXCEPT !.background = a.of]
              /\ Then /\ UNCHANGED <<mix, sup>>
           \/ /\ a.do = "cancel" /\ mix' = IF mix.cur = a.of THEN Stopped(mix) ELSE mix
              /\ Then /\ UNCHANGED <<ex, sup>>
           \/ /\ a.do = "mixend" /\ mix' = IF mix.cur # None THEN Stopped(mix) ELSE mix
              /\ Then /\ UNCHANGED <<ex, sup>>
           \/ /\ a.do \in {"expired", "forgot"} /\ sup' = [sup EXCEPT !.leases = @ \ {a.of}]
              /\ Then /\ UNCHANGED <<mix, ex>>
           \/ /\ a.do = "noted" /\ sup' = [sup EXCEPT !.leases = @ \cup {a.of}]
              /\ Then /\ UNCHANGED <<mix, ex>>
           \/ /\ a.do = "focus" /\ sup' = [sup EXCEPT !.focus = a.of]
              /\ \/ a.of # None /\ \E x \in Now : Update(t, AlertActive(x, a.of), rest)
                 \/ /\ a.of = None /\ sup.focus # None
                    /\ \E x \in Now : Update(t, AlertEnded(x, sup.focus), rest)
                 \/ a.of = None /\ sup.focus = None /\ Then
              /\ UNCHANGED <<mix, ex>>
           \/ /\ a.do = "stopped" /\ \E x \in Now : Update(t, AlertEnded(x, a.of), rest)
              /\ UNCHANGED <<mix, ex, sup>>
           \/ /\ a.do = "burst" /\ \E x \in Now : Update(t, AlertBurstCompleted(x, a.of), rest)
              /\ UNCHANGED <<mix, ex, sup>>
    /\ ghost' = IF m'.alert = m.alert THEN ghost
                ELSE [silent |-> 0, waits |-> 0, over |-> IF m'.alert = None THEN None ELSE m.dialog]
    /\ UNCHANGED <<session, ticked, open>>

Down(n) == IF n \in {None, 0} THEN n ELSE n - 1
Advance ==
    /\ Idle /\ ticked /\ mix.events = <<>> /\ FocusOf(ex) = ex.told
    /\ ticked' = FALSE
    /\ m' = [m EXCEPT
              !.leases = [l \in Ids |-> IF @[l] = None THEN None
                                        ELSE Lease(Down(@[l].left), @[l].converted)],
              !.prov = [c \in Candidates |-> Down(@[c])],
              !.ducks = [i \in 1..PerWindow |->
                            IF @[i] < ProvisionalWindow THEN @[i] + 1 ELSE ProvisionalWindow],
              !.yieldIn = Down(@), !.bgFor = IF m.bg THEN @ + 1 ELSE 0]
    /\ ghost' = [ghost EXCEPT !.silent = IF m.bg THEN @ + 1 ELSE @,
                              !.waits = IF ghost.over # None /\ mix.cur = ghost.over
                                        THEN @ + 1 ELSE @]
    /\ UNCHANGED <<acts, mix, ex, sup, session, open>>

----------------------------------------------------------------------------

Init ==
    /\ m = [leases |-> [l \in Ids |-> None], prov |-> [c \in Candidates |-> None],
            ducks |-> [i \in 1..PerWindow |-> ProvisionalWindow],
            alert |-> None, bg |-> FALSE, bgFor |-> 0, budget |-> 0, spent |-> FALSE,
            yieldIn |-> None, yielded |-> FALSE, dialog |-> None, pending |-> <<>>,
            out |-> [content |-> FALSE, dialog |-> FALSE, pause |-> FALSE, bg |-> FALSE]]
    /\ acts = [t \in Threads |-> <<>>]
    /\ mix = [cur |-> None, started |-> FALSE, events |-> <<>>]
    /\ ex = [ringing |-> None, told |-> None, background |-> FALSE, burst |-> None]
    /\ sup = [leases |-> {}, focus |-> None]
    /\ session = TRUE /\ ticked = FALSE
    /\ open = {}
    /\ ghost = [silent |-> 0, over |-> None, waits |-> 0]

Next ==
    \/ \E l \in Leases : FocusCommand(l)
    \/ EndSession \/ Reconnect
    \/ \E c \in Candidates : CandidateOpen(c) \/ CandidateCommand(c)
    \/ \E p \in Playbacks : RenderStart(p)
    \/ Audible \/ Drained \/ Hook
    \/ Rings \/ Poll \/ Burst \/ Button
    \/ Tick \/ Advance \/ \E t \in Threads : Run(t)

Spec == Init /\ [][Next]_vars

----------------------------------------------------------------------------
(* Properties                                                              *)

\* The budget never runs past its cap, and nothing of an alert that ended stays
\* behind.
TypeOK ==
    /\ m.budget + m.bgFor <= AlertBackgroundCap
    /\ m.alert = None => ~m.bg /\ ~m.spent /\ m.budget = 0 /\ m.yieldIn = None
    /\ m.pending = <<>> /\ Cardinality(Busy) <= MaxBusy
    /\ \A l \in Live(m) : m.leases[l].left \in 0..TTL

\* However often the wake word is heard and leases are renewed, the alert is
\* in the background no longer than its budget (and the tick that learns of a
\* burst) since its last whole foreground burst.
BackgroundBounded == ghost.silent <= AlertBackgroundCap + 1

\* The output an alert found playing when it became due is stopped after the
\* yield time.
YieldBounded == ghost.waits <= AlertYield

\* When every goroutine is done the manager's alert is the one that rings: no
\* order of a button, a ring's end and a late report leaves content paused.
AlertTracks ==
    Idle /\ FocusOf(ex) = ex.told => m.alert = ex.ringing

\* When every goroutine is done the supervisor's leases are the manager's, so
\* the controller's LEDs and zone are cleared with the last of them.
LeasesFollow == Idle => sup.leases = Live(m) \cap Leases

\* When every goroutine is done no output is heard over a foreground alert,
\* unless the alert's yield time passed before.
OneForeground ==
    Idle /\ mix.events = <<>> /\ m.alert # None /\ ~m.bg /\ ~m.yielded
        => ~mix.started
=============================================================================
