---------------------------- MODULE DeviceSession ----------------------------
(***************************************************************************)
(* The control session of one device, and the privacy mute it carries: on  *)
(* the device the mute controller and the supervisor (internal/server,     *)
(* internal/supervisor), Amazon's privacy driver beside them, and the link *)
(* client (internal/client); on the controller the link server (registry,  *)
(* handshake, session tasks: crates/link) and the device runtime           *)
(* (src/device.rs), which alone grants the capture scope.                  *)
(*                                                                         *)
(* Every dial is a session of its own.  Its handshake and control tasks,   *)
(* the runtime and the device's goroutines interleave.  Audio, commands,   *)
(* heartbeats and rejected hellos (which are dialled again) are left out;  *)
(* a stalled socket, a missed deadline and a lost heartbeat are one fault. *)
(* A deferred privacy check that finds the driver entering waits again;    *)
(* its five retries are not counted, and one check runs at a time.         *)
(***************************************************************************)
EXTENDS Naturals, Sequences

CONSTANTS
    MaxSessions,  \* bound on dials
    Budgets,      \* how many presses of the mute button, crashes of the firmware's
                  \* process, sessions lost on either side for want of network or
                  \* time and reports refused by a full queue, and dials, a behaviour may have: a set of alternatives
    UrgentEvents  \* LinkLimits::urgent_events

ASSUME SessionAssumption ==
    /\ MaxSessions \in Nat \ {0}
    /\ Budgets \subseteq [{"presses", "crashes", "faults", "dials"} -> Nat]
    /\ \A b \in Budgets : b.dials <= MaxSessions
ASSUME UrgentAssumption ==
    UrgentEvents \in Nat \ {0}

Sessions == 1..MaxSessions
NoSession == 0
Threads == {"button", "timer"}

VARIABLES
    dev,     \* muteController, ADC, state.json, supervisor.muted, physicalSeq
    driver,  \* Amazon's privacy driver: "off", "entering", "on"
    thr,     \* the goroutines that may be inside muteController.set
    armed,   \* privacy checks AfterFunc has still to run
    pressed, \* mute presses the button loop has not read
    up,      \* the firmware runs
    link,    \* client.Link: phase of the attempt, its session
    ses,     \* what each session's tasks and socket hold
    claim,   \* Registry.claims of the device
    active,  \* Registry.active
    cmds,    \* AttachLink commands queued at the runtime
    rt,      \* DeviceRuntime: current session, capture.muted, physical_seq
    ghost,   \* history: sets that overlapped; a report no session carried,
             \* the last of its session;
             \* sessions whose reports may be out of order
    left     \* what is left of the budget

device == <<dev, driver, thr, armed, pressed>>
server == <<claim, active, cmds>>
vars == <<device, up, link, ses, server, rt, ghost, left>>

----------------------------------------------------------------------------
(* The mute controller                                                     *)

Goroutine(pc, v) == [pc |-> pc, v |-> v, seq |-> 0]
Idle == Goroutine("idle", FALSE)
Setting == {"apply", "number", "send"}
At(t, pc) == thr[t].pc = pc
Goto(t, pc) == thr' = [thr EXCEPT ![t].pc = pc]

\* SetMuteButtonLED: on enters privacy, off leaves the driver alone.
LED(on) == IF on THEN "on" ELSE driver

\* set returned: toggle checks the driver later.
Returned(t) ==
    /\ thr' = [thr EXCEPT ![t] = Idle]
    /\ armed' = IF t = "button" THEN armed + 1 ELSE armed

Toggle ==
    /\ up /\ pressed > 0 /\ At("button", "idle")
    /\ pressed' = pressed - 1
    /\ thr' = [thr EXCEPT !["button"] = Goroutine("set", ~dev.muted)]
    /\ UNCHANGED <<dev, driver, armed, up, link, ses, server, rt, ghost, left>>

\* reconcilePrivacy, once the driver is not entering: it reads the driver's
\* state and only then ours.
Reconcile ==
    /\ up /\ armed > 0 /\ At("timer", "idle") /\ driver # "entering"
    /\ armed' = armed - 1
    /\ thr' = [thr EXCEPT !["timer"] = Goroutine("decide", driver = "on")]
    /\ UNCHANGED <<dev, driver, pressed, up, link, ses, server, rt, ghost, left>>

DecidePrivacy ==
    /\ At("timer", "decide")
    /\ \/ /\ dev.muted = thr["timer"].v
          /\ thr' = [thr EXCEPT !["timer"] = Idle] /\ UNCHANGED driver
       \/ /\ dev.muted /\ ~thr["timer"].v
          /\ thr' = [thr EXCEPT !["timer"] = Idle] /\ driver' = "on"
       \/ /\ ~dev.muted /\ thr["timer"].v
          /\ Goto("timer", "set") /\ UNCHANGED driver
    /\ UNCHANGED <<dev, armed, pressed, up, link, ses, server, rt, ghost, left>>

\* muteController.set assigns under its lock; what follows is outside it.
Set(t) ==
    /\ At(t, "set")
    /\ IF thr[t].v = dev.muted
       THEN Returned(t) /\ UNCHANGED <<dev, ghost>>
       ELSE /\ dev' = [dev EXCEPT !.muted = thr[t].v]
            /\ Goto(t, "apply")
            /\ ghost' = [ghost EXCEPT !.overlap =
                   @ \/ \E o \in Threads \ {t} : thr[o].pc \in Setting]
            /\ UNCHANGED armed
    /\ UNCHANGED <<driver, pressed, up, link, ses, server, rt, left>>

\* The ADC and the LED, and then the state file.
Apply(t) ==
    /\ At(t, "apply")
    /\ dev' = [dev EXCEPT !.adc = thr[t].v, !.saved = thr[t].v]
    /\ driver' = LED(thr[t].v)
    /\ Goto(t, "number")
    /\ UNCHANGED <<armed, pressed, up, link, ses, server, rt, ghost, left>>

\* setPrivacy numbers the change before it takes the capture lock...
Number(t) ==
    /\ At(t, "number")
    /\ dev' = [dev EXCEPT !.seq = @ + 1]
    /\ thr' = [thr EXCEPT ![t].pc = "send", ![t].seq = dev.seq + 1]
    /\ UNCHANGED <<driver, armed, pressed, up, link, ses, server, rt, ghost, left>>

\* ...and sends privacy.changed, which is dropped while no session is published.
Report(v) ==
    IF link.phase = "up"
    THEN /\ ses' = [ses EXCEPT ![link.id].wire =
                IF ses[link.id].at = "run" THEN Append(@, v) ELSE @]
         /\ ghost' = [ghost EXCEPT !.stale = FALSE,
                !.mixed = IF v.seq < dev.seq THEN @ \cup {link.id} ELSE @]
    ELSE /\ ghost' = [ghost EXCEPT !.stale =
                link.phase # "idle" /\ ses[link.id].hello # v.muted]
         /\ UNCHANGED ses

SetPrivacy(t) ==
    /\ At(t, "send")
    /\ dev' = [dev EXCEPT !.reported = thr[t].v]
    /\ Report([muted |-> thr[t].v, seq |-> thr[t].seq])
    /\ Returned(t)
    /\ UNCHANGED <<driver, pressed, up, link, server, rt, left>>

Fault == left.faults > 0 /\ left' = [left EXCEPT !.faults = @ - 1]

\* The session's control queue is full: Send refuses the report, and setPrivacy
\* only logs that.
Backpressure(t) ==
    /\ At(t, "send") /\ link.phase = "up" /\ Fault
    /\ dev' = [dev EXCEPT !.reported = thr[t].v]
    /\ ghost' = [ghost EXCEPT !.stale = TRUE]
    /\ Returned(t)
    /\ UNCHANGED <<driver, pressed, up, link, ses, server, rt>>

----------------------------------------------------------------------------
(* The button, the driver and the firmware's process                       *)

\* The driver toggles by itself on a release; one while it is entering may or
\* may not cancel that.
Press ==
    /\ left.presses > 0
    /\ left' = [left EXCEPT !.presses = @ - 1]
    /\ driver' \in CASE driver = "on" -> {"off"}
                     [] driver = "off" -> {"entering"}
                     [] driver = "entering" -> {"entering", "off"}
    /\ pressed' = IF up THEN pressed + 1 ELSE pressed
    /\ UNCHANGED <<dev, thr, armed, up, link, ses, server, rt, ghost>>

Entered ==
    /\ driver = "entering" /\ driver' = "on"
    /\ UNCHANGED <<dev, thr, armed, pressed, up, link, ses, server, rt, ghost, left>>

\* newMuteController and supervisor.New.
Restored(saved) ==
    [muted |-> saved, adc |-> saved, saved |-> saved, reported |-> saved, seq |-> 0]

Down == [link EXCEPT !.phase = "idle"]

\* The device's end of a session is gone; some of what it sent arrives.
Shut(s) ==
    \E n \in 0..Len(ses[s].wire) :
        ses' = [ses EXCEPT ![s].shut = TRUE, ![s].wire = SubSeq(@, 1, n)]

Crash ==
    /\ up /\ left.crashes > 0
    /\ left' = [left EXCEPT !.crashes = @ - 1]
    /\ up' = FALSE
    /\ thr' = [t \in Threads |-> Idle]
    /\ armed' = 0 /\ pressed' = 0
    /\ link' = Down
    /\ IF link.phase = "idle" THEN UNCHANGED ses ELSE Shut(link.id)
    /\ UNCHANGED <<dev, driver, server, rt, ghost>>

\* Mutant: the restored state is not checked against the driver's.
StartUnchecked ==
    /\ ~up
    /\ up' = TRUE
    /\ dev' = Restored(dev.saved)
    /\ driver' \in IF dev.saved THEN {"on"} ELSE {driver, "off"}
    /\ ghost' = [ghost EXCEPT !.overlap = FALSE]
    /\ UNCHANGED <<thr, armed, pressed, link, ses, server, rt, left>>

\* The process starts again, after a reboot or not; a reboot unmutes the driver.
Start ==
    /\ ~up
    /\ up' = TRUE
    /\ dev' = Restored(dev.saved)
    /\ driver' \in IF dev.saved THEN {"on"} ELSE {driver, "off"}
    /\ armed' = 1
    /\ ghost' = [ghost EXCEPT !.overlap = FALSE]
    /\ UNCHANGED <<thr, pressed, link, ses, server, rt, left>>

----------------------------------------------------------------------------
(* The device's link                                                       *)

SessionAt(at, hello) ==
    [at |-> at, hello |-> hello, old |-> NoSession, stop |-> FALSE,
     scope |-> "none", wire |-> <<>>, shut |-> FALSE, urgent |-> <<>>, read |-> hello]
NewSession(hello) == SessionAt("hello", hello)
Unused == SessionAt("none", FALSE)

\* handshake: the hello carries the mute of the moment.
Dial ==
    LET s == link.id + 1 IN
    /\ up /\ link.phase = "idle" /\ left.dials > 0
    /\ left' = [left EXCEPT !.dials = @ - 1]
    /\ link' = [phase |-> "hello", id |-> s]
    /\ ses' = [ses EXCEPT ![s] = NewSession(dev.muted)]
    /\ ghost' = [ghost EXCEPT !.stale = FALSE]
    /\ UNCHANGED <<device, up, server, rt>>

\* session.ready was read; the controller lets the audio socket join a session
\* it routes.
Join ==
    /\ link.phase = "hello" /\ ses[link.id].at = "run"
    /\ link.id \in active /\ ~ses[link.id].stop
    /\ link' = [link EXCEPT !.phase = "ready"]
    /\ UNCHANGED <<device, up, ses, server, rt, ghost, left>>

\* Supervisor.ready publishes the session.
Ready ==
    /\ link.phase = "ready"
    /\ link' = [link EXCEPT !.phase = "up"]
    /\ UNCHANGED <<device, up, ses, server, rt, ghost, left>>

Lose ==
    /\ link.phase # "idle"
    /\ link' = Down
    /\ Shut(link.id)
    /\ UNCHANGED <<device, up, server, rt, ghost>>

\* Mutant: the handshake has no deadline.
ClosedUp == link.phase = "up" /\ ses[link.id].stop /\ Lose /\ UNCHANGED left

\* The controller closed its sockets.
Closed == link.phase # "idle" /\ ses[link.id].stop /\ Lose /\ UNCHANGED left

Lost == Lose /\ Fault

----------------------------------------------------------------------------
(* The controller's link server                                            *)

Dead(scope) == IF scope = "live" THEN "dead" ELSE scope

\* Mutant: end revokes and leaves the tasks running.
EndedUnstopped(x) == [x EXCEPT !.scope = Dead(@)]

\* SessionCore::end records the stop, and then revokes the published scope.
Ended(x) == [x EXCEPT !.stop = TRUE, !.scope = Dead(@)]

\* The task returned and its socket is dropped.
Gone(x) == [Ended(x) EXCEPT !.at = "over", !.wire = <<>>, !.read = FALSE]

\* Mutant: whoever ends forgets the device.
ReleaseAny(s) == active' = active \ {s} /\ claim' = NoSession

\* ReleaseGuard: a newer session of the device is untouched.
Release(s) ==
    /\ active' = active \ {s}
    /\ claim' = IF claim = s THEN NoSession ELSE claim

Claim(s) ==
    /\ ses[s].at = "hello"
    /\ claim' = s
    /\ active' = active \ {claim}
    /\ ses' = IF claim = NoSession
              THEN [ses EXCEPT ![s].at = "admit"]
              ELSE [ses EXCEPT ![s].at = "replace", ![s].old = claim, ![claim].stop = TRUE]
    /\ UNCHANGED <<device, up, link, cmds, rt, ghost, left>>

\* The second half of the old session's end.
Replace(s) ==
    /\ ses[s].at = "replace"
    /\ ses' = [ses EXCEPT ![s].at = "admit", ![s].old = NoSession,
                          ![ses[s].old] = Ended(ses[ses[s].old])]
    /\ UNCHANGED <<device, up, link, server, rt, ghost, left>>

\* The admission asks the runtime.  The select that waits for it may poll it
\* once more after the session was stopped.
Admit(s) ==
    /\ ses[s].at = "admit"
    /\ ses' = [ses EXCEPT ![s].at = "wait"]
    /\ cmds' = Append(cmds, s)
    /\ UNCHANGED <<device, up, link, claim, active, rt, ghost, left>>

\* The handshake gives up.
Decline(s) ==
    /\ ses[s].at \in {"admit", "wait"}
    /\ ses' = [ses EXCEPT ![s] = Gone(@)]
    /\ Release(s)
    /\ UNCHANGED <<device, up, link, cmds, rt, ghost>>

Stopped(s) == ses[s].stop /\ Decline(s) /\ UNCHANGED left

\* The ready deadline passed.
Late(s) == ~ses[s].stop /\ Decline(s) /\ Fault

\* session.ready is written to a session that is still its device's newest.
Activate(s) ==
    /\ ses[s].at = "attached"
    /\ IF claim = s /\ ~ses[s].stop
       THEN /\ active' = active \cup {s}
            /\ ses' = [ses EXCEPT ![s].at = "run"]
            /\ UNCHANGED claim
       ELSE /\ ses' = [ses EXCEPT ![s] = Gone(@)]
            /\ Release(s)
    /\ UNCHANGED <<device, up, link, cmds, rt, ghost, left>>

\* Mutant: a report that finds the urgent path full is dropped.
OnPrivacyDrops(s) ==
    LET x == ses[s]
        v == Head(x.wire)
    IN  /\ x.at = "run" /\ ~x.stop /\ x.wire # <<>>
        /\ ses' = [ses EXCEPT ![s] = [x EXCEPT
               !.wire = Tail(@),
               !.read = v.muted,
               !.scope = IF v.muted THEN Dead(@) ELSE @,
               !.urgent = IF Len(@) < UrgentEvents THEN Append(@, v) ELSE @]]
        /\ UNCHANGED <<device, up, link, server, rt, ghost, left>>

\* on_privacy: a mute revokes the scope before the runtime hears of it.
OnPrivacy(s) ==
    LET x == ses[s]
        v == Head(x.wire)
    IN  /\ x.at = "run" /\ ~x.stop /\ x.wire # <<>>
        /\ ses' = [ses EXCEPT ![s] = [x EXCEPT
               !.wire = Tail(@),
               !.read = v.muted,
               !.scope = IF v.muted THEN Dead(@) ELSE @,
               !.stop = Len(x.urgent) >= UrgentEvents,
               !.urgent = IF Len(@) < UrgentEvents THEN Append(@, v) ELSE @]]
        /\ UNCHANGED <<device, up, link, server, rt, ghost, left>>

\* The control task leaves its loop...
Stop(s) ==
    /\ ses[s].at = "run" /\ ~ses[s].stop
    /\ ses' = [ses EXCEPT ![s].stop = TRUE]
    /\ UNCHANGED <<device, up, link, server, rt, ghost>>

SocketClosed(s) == ses[s].shut /\ ses[s].wire = <<>> /\ Stop(s) /\ UNCHANGED left

\* No control message for three seconds, or no audio socket.
Silence(s) == ~ses[s].shut /\ Stop(s) /\ Fault

\* ...and ends the session.
Over(s) ==
    /\ ses[s].at = "run" /\ ses[s].stop
    /\ ses' = [ses EXCEPT ![s] = Gone(@)]
    /\ Release(s)
    /\ UNCHANGED <<device, up, link, cmds, rt, ghost, left>>

----------------------------------------------------------------------------
(* The device runtime                                                      *)

\* Mutant: an old session is only forgotten.
RetiredLive(x, s) == x

\* retire: the session's work is revoked and its link closed.
Retired(x, s) == IF s = NoSession THEN x ELSE [x EXCEPT ![s] = Ended(@)]

\* Mutant: the mute of the hello is not taken over.
InstallUnmuted ==
    LET s == Head(cmds) IN
    /\ cmds # <<>> /\ rt.publishing = NoSession /\ ses[s].at # "over"
    /\ cmds' = Tail(cmds)
    /\ ses' = [Retired(ses, rt.cur) EXCEPT ![s].scope = "live"]
    /\ rt' = [cur |-> s, muted |-> FALSE, last |-> 0, publishing |-> s]
    /\ UNCHANGED <<device, up, link, claim, active, ghost, left>>

\* install: the current session is retired, and the new one starts with the
\* mute its hello reported.
Install ==
    LET s == Head(cmds) IN
    /\ cmds # <<>> /\ rt.publishing = NoSession /\ ses[s].at # "over"
    /\ cmds' = Tail(cmds)
    /\ ses' = [Retired(ses, rt.cur) EXCEPT ![s].scope =
                   IF ses[s].hello THEN "dead" ELSE "live"]
    /\ rt' = [cur |-> s, muted |-> ses[s].hello, last |-> 0, publishing |-> s]
    /\ UNCHANGED <<device, up, link, claim, active, ghost, left>>

\* Nobody waits for the answer any more: admission gave up.
Discard ==
    /\ cmds # <<>> /\ rt.publishing = NoSession /\ ses[Head(cmds)].at = "over"
    /\ cmds' = Tail(cmds)
    /\ UNCHANGED <<device, up, link, ses, claim, active, rt, ghost, left>>

\* A command that waited past its age is refused, and admission declines.
Refuse ==
    LET s == Head(cmds) IN
    /\ cmds # <<>> /\ rt.publishing = NoSession /\ Fault
    /\ cmds' = Tail(cmds)
    /\ ses' = [ses EXCEPT ![s] = Gone(@)]
    /\ Release(s)
    /\ UNCHANGED <<device, up, link, rt, ghost>>

\* Mutant: the stop is not looked for.
PublishedUnchecked ==
    LET s == rt.publishing IN
    /\ s # NoSession
    /\ rt' = [rt EXCEPT !.publishing = NoSession]
    /\ ses' = [ses EXCEPT ![s].at = IF @ = "wait" THEN "attached" ELSE @]
    /\ UNCHANGED <<device, up, link, server, ghost, left>>

\* The second half of publish_capture; an install then answers the admission.
Published ==
    LET s == rt.publishing IN
    /\ s # NoSession
    /\ rt' = [rt EXCEPT !.publishing = NoSession]
    /\ ses' = [ses EXCEPT
           ![s].scope = IF ses[s].stop THEN Dead(@) ELSE @,
           ![s].at = IF @ = "wait" THEN "attached" ELSE @]
    /\ UNCHANGED <<device, up, link, server, ghost, left>>

\* apply_privacy: a mute revokes, an unmute grants a fresh scope.
ApplyPrivacy(s, muted) ==
    LET grants == ~muted /\ (rt.muted \/ ses[s].scope = "dead") IN
    /\ ses' = [ses EXCEPT ![s].urgent = Tail(@),
                          ![s].scope = IF muted THEN Dead(@)
                                       ELSE IF grants THEN "live" ELSE @]
    /\ rt' = [rt EXCEPT !.muted = muted, !.last = Head(ses[s].urgent).seq,
                        !.publishing = IF grants THEN s ELSE NoSession]

Urgent ==
    LET s == rt.cur
        v == Head(ses[s].urgent)
    IN  /\ rt.publishing = NoSession /\ s # NoSession /\ ses[s].urgent # <<>>
        /\ \/ /\ v.seq > rt.last /\ ApplyPrivacy(s, v.muted)
           \/ /\ v.seq <= rt.last
              /\ ses' = [ses EXCEPT ![s].urgent = Tail(@)] /\ UNCHANGED rt
        /\ UNCHANGED <<device, up, link, server, ghost, left>>

NoCurrent == [cur |-> NoSession, muted |-> TRUE, last |-> 0, publishing |-> NoSession]

\* The urgent path reports the end once what was queued before it is handled.
EndSession ==
    LET s == rt.cur IN
    /\ rt.publishing = NoSession /\ s # NoSession
    /\ ses[s].stop /\ ses[s].urgent = <<>>
    /\ ses' = Retired(ses, s)
    /\ rt' = NoCurrent
    /\ UNCHANGED <<device, up, link, server, ghost, left>>

----------------------------------------------------------------------------

Init ==
    /\ \E saved \in BOOLEAN :
        /\ dev = Restored(saved)
        /\ driver = IF saved THEN "on" ELSE "off"
    /\ thr = [t \in Threads |-> Idle] /\ armed = 0 /\ pressed = 0 /\ up = TRUE
    /\ link = [phase |-> "idle", id |-> NoSession] /\ ses = [s \in Sessions |-> Unused]
    /\ claim = NoSession /\ active = {} /\ cmds = <<>> /\ rt = NoCurrent
    /\ ghost = [overlap |-> FALSE, stale |-> FALSE, mixed |-> {}]
    /\ left \in Budgets

\* What the two programs and the driver do by themselves.
Mute ==
    \/ Toggle \/ Reconcile \/ DecidePrivacy \/ Entered
    \/ \E t \in Threads : Set(t) \/ Apply(t) \/ Number(t) \/ SetPrivacy(t)
Link == Start \/ Dial \/ Join \/ Ready \/ Closed
Server ==
    \E s \in Sessions :
        \/ Claim(s) \/ Replace(s) \/ Admit(s) \/ Stopped(s) \/ Activate(s)
        \/ OnPrivacy(s) \/ SocketClosed(s) \/ Over(s)
Runtime == Install \/ Discard \/ Published \/ Urgent \/ EndSession

Faults ==
    \/ Press \/ Crash \/ Lost \/ Refuse
    \/ \E s \in Sessions : Late(s) \/ Silence(s)
    \/ \E t \in Threads : Backpressure(t)

Next == Mute \/ Link \/ Server \/ Runtime \/ Faults

Spec == Init /\ [][Next]_vars
FairSpec == Spec /\ WF_vars(Mute) /\ WF_vars(Link \/ Server \/ Runtime)

----------------------------------------------------------------------------
(* Properties                                                              *)

\* A stopped session keeps its stop, the runtime publishes only its current
\* session's scope, and the urgent path stays within its bound.
TypeOK ==
    /\ rt.publishing \in {NoSession, rt.cur} /\ claim \in Sessions \cup {NoSession}
    /\ \A s \in Sessions : /\ Len(ses[s].urgent) <= UrgentEvents
                           /\ ses[s].at = "over" => ses[s].stop
    /\ driver \in {"off", "entering", "on"} /\ armed >= 0 /\ pressed >= 0

\* No two sessions of a device hold a live capture scope, however a new hello,
\* the old session's end and an unmute race.
OneLiveCapture ==
    \A s, o \in Sessions : ses[s].scope = "live" /\ ses[o].scope = "live" => s = o

\* Either the end saw the scope that was being published and revoked it, or the
\* publisher saw the stop: a session that is over has no live capture.
EndedIsRevoked ==
    \A s \in Sessions :
        ses[s].at = "over" /\ rt.publishing # s => ses[s].scope # "live"

\* While capture is live, a mute that is the last the link read of the session
\* is still queued for the runtime, unless the session carried a report after
\* another change had been numbered.
MuteIsHeard ==
    \A s \in Sessions :
        ses[s].scope = "live" /\ ses[s].read /\ s \notin ghost.mixed /\ ~ses[s].stop
            => /\ ses[s].urgent # <<>>
               /\ ses[s].urgent[Len(ses[s].urgent)].muted

\* A session that runs is its device's newest and is routed; no end of an older
\* one takes that away.
RunningIsRouted ==
    \A s \in Sessions :
        ses[s].at = "run" /\ ~ses[s].stop => claim = s /\ active = {s}

DeviceQuiet ==
    up /\ pressed = 0 /\ armed = 0 /\ driver # "entering"
       /\ \A t \in Threads : At(t, "idle")

\* A device left alone has the driver's state equal to its own, and the ADC, the
\* file and the supervisor too, unless two changes overlapped.
MuteSettles ==
    DeviceQuiet =>
        /\ driver = IF dev.muted THEN "on" ELSE "off"
        /\ ghost.overlap \/ {dev.adc, dev.saved, dev.reported} = {dev.muted}

Connected ==
    /\ link.phase = "up" /\ rt.cur = link.id
    /\ ses[link.id].at = "run" /\ ~ses[link.id].stop
    /\ ses[link.id].wire = <<>> /\ ses[link.id].urgent = <<>> /\ rt.publishing = NoSession

\* What the controller holds of a device that is connected and at rest is the
\* device's own state, and capture is live just when it is unmuted, unless a
\* report overlapped another, fell between the hello and the session, or was
\* the last of its session and found the control queue full.
MuteAgrees ==
    Connected /\ DeviceQuiet /\ ~ghost.overlap /\ ~ghost.stale =>
        /\ rt.muted = dev.muted
        /\ ses[link.id].scope = IF dev.muted THEN "dead" ELSE "live"

\* Once the faults stop, the device holds a session the runtime serves, with no
\* report that was sent still under way (or has no dial left in the bound).
Reconnects == <>[](Connected \/ (left.dials = 0 /\ link.phase = "idle"))
==============================================================================
