# A TLA+ model of EchoMuse

EchoMuse turns Echo Show speakers into voice satellites of Home Assistant. A Go
program (`device/`) runs on each speaker; a Rust program (`controller-rs/`) runs
beside Home Assistant and serves every speaker. This directory holds TLA+ modules
of the parts whose correctness depends on interleavings, lost messages and crashes,
TLC configurations that check them on small instances, and TLAPS proofs.

Paths below are relative to the repository root (`src/` here).

## 1. Inventory

| part | code | state | operations | interacts with |
|---|---|---|---|---|
| Alert delivery | `controller-rs/crates/alerts/src/delivery.rs` | epoch, sequence, acked, the version last sent with a revision per object, unacknowledged deltas, whether a snapshot is owed | attach, ack, refresh, retract, armed | driven by the alert service; its position lives in the database |
| Alert service | `.../alerts/src/service/*.rs` | one endpoint per speaker, the view of the calendar, waiting commands | register, attach, detach, inbound messages, feed events, commands | one actor; posts through the device runtime, reads Home Assistant's feed, writes the journal |
| Alert journal, applier | `.../alerts/src/journal.rs`, `service/applier.rs` | rows of operations and positions | record, settle, retry an operation against Home Assistant | SQLite, Home Assistant calls |
| Device runtime | `controller-rs/src/device.rs`, `alert_link.rs`, `runtimes.rs` | the current session, its event queue | begin and end a session, post on a session, delete a device | link server below, services above |
| Link server | `controller-rs/crates/link/src` | registered sessions, commands awaiting an answer | handshake, takeover, command, ack | the speaker's control socket |
| Device link client, supervisor | `device/internal/client`, `device/internal/supervisor` | the session, its send queue, heartbeat deadlines | dial, hello, read loop, send, session end | link server; every device part |
| Alert executor | `device/internal/alerts/{executor,delivery,clock,wakelock}.go` | cached occurrences, local operations, snooze children, staged snapshot pages, the ring queue, clock estimate | ApplyDelta, ApplySnapshotPage, Poll, Act, HandleTimerRing, ApplyOpResult | store below; focus and mixer while ringing |
| Alert store | `device/internal/alerts/{store,state}.go` | `snapshot.json`, `operations.log`, the state in memory, log offset | open, commit, rollback, compact | file system of the speaker |
| Speaker focus | `device/internal/focus/focus.go` | leases, provisional ducks, the alert in the foreground or background, the dialog, the applied policy | Acquire, Renew, Release, Candidate*, Dialog*, Alert*, Tick | mixer, executor, supervisor through callbacks |
| Uplink | `device/internal/uplink`, `controller-rs/crates/uplink` | subscriptions, candidates, stream epochs | subscribe, candidate, frames | voice session |
| Voice session, wake arbitration | `controller-rs/crates/voice/src` | claims of one wake, the state of a turn | claim, settle, turn events | uplink, playback, Home Assistant pipeline |
| Turn endpointing | `controller-rs/crates/turn` | evidence of speech | feed, decide | voice session |
| Playback, mixer | `controller-rs/crates/playback`, `device/internal/render` | streams, generations, gains | start, stop, policy | focus |
| Home Assistant client | `controller-rs/crates/ha` | connection, subscriptions | connect, call, push | services |
| Firmware, settings, recorder, records, API, ESPHome bridge | the crates of those names | transfers, documents, files | requests | dashboard |
| Recognition text, correction, grammar, echo analysis | the crates of those names | models and buffers | pure functions of large data | voice session |
| Mute controller | `device/internal/server/{mute,privacy}.go` | the mute, the ADC, the state file; Amazon's privacy driver beside it | toggle, set, reconcile with the driver | reports through the supervisor and the session |
| Hardware bindings | `device/internal/{wifi,bluetooth,companion,...}` | hardware | input and output | supervisor |

### What is hard here

* **An alarm must be on the speaker when the network is not.** The speaker caches
  every alert and rings by itself, so the cache has to survive lost sessions,
  dropped acknowledgements, restarts of either side and damaged flash, and
  the controller may only tell the user "armed" if the speaker really holds the
  alarm. This is the most important behaviour of the program with the most
  interleavings, and it is modelled first.
* **The store must survive a power cut at any instruction**, with every file
  operation able to fail, on a device people unplug.
* **Operations made on the speaker while it is offline** (stop, snooze) are applied
  to Home Assistant later, at least once, against a calendar that has moved on.
* **Focus** is updated by the control reader, a tick, the alert executor, the mixer
  and buttons; its decisions are carried out by callbacks outside its lock.
* **Sessions are replaced, not closed**: a new session of a speaker may begin while
  events and posts of the old one are still under way.
* **One wake word is heard by several speakers**; one of them must answer.

What each part must guarantee:

| part | properties |
|---|---|
| delivery | a number stands for one version; the cache is a published version, whole; armed means held; a quiet session is in step; the speaker converges |
| store | nothing committed is lost, nothing rolled back returns, damage is marked, memory equals what a restart reads |
| executor | an occurrence rings once; a stop or snooze sticks across restart and redelivery; an operation is kept until settled |
| applier | an operation reaches the calendar once although the call is repeated; a rejected snooze is retracted |
| session, mute | an old session takes nothing from a new one; no capture outlives its session; device, driver and controller agree on the mute; commands get one answer |
| focus | an alert is not kept in the background beyond its budget; nothing plays over it; what the callers keep follows the manager |
| uplink, voice | frames only of the current epoch; one speaker wins a wake; a turn ends |

The hazards behind them, each at its line, are listed in `PROJECT.json`.

## 2. Plan

Order of work, most important first. The first six are done.

1. `AlertDelivery`, with `AlertCache` as the abstract specification it implements,
   `AlertDeliveryProofs` and `AlertCacheProofs`.
2. `AlertStore`: the device's store under power loss.
3. `AlertExecutor`: what rings and when, stops and snoozes made on the speaker,
   their operations, restarts.
4. `AlertApplier`: the journal of operations and the repeated Home Assistant call.
5. `SpeakerFocus`: leases, ducks, the yielding alert, and callbacks run by several
   goroutines.
6. `DeviceSession`: handshake, takeover, capture scope and the mute.
7. `AlertSystem`: executor, delivery and applier composed; a snooze made offline is in
   the calendar once and rings once.
8. The commands of a session and their answers.
9. `UplinkLeases`, then `WakeArbiter` and the voice session's states.

| module | models | extended by |
|---|---|---|
| `AlertCache` | the abstract numbered cache | instantiated by `AlertDelivery` |
| `AlertDelivery` | section 3 | `MCAlertDelivery`, `AlertDeliveryProofs`, `AlertCacheProofs` |
| `AlertStore` | section 4 | `MCAlertStore`, `AlertStoreProofs` |
| `AlertExecutor` | section 5 | `MCAlertExecutor`, `AlertExecutorProofs` |
| `AlertApplier` | section 6 | `MCAlertApplier`, `AlertApplierProofs` |
| `SpeakerFocus` | section 7 | `MCSpeakerFocus`, `SpeakerFocusProofs` |
| `DeviceSession` | section 8 | `MCDeviceSession`, `DeviceSessionProofs` |
| `QueueLemmas` | what `Tail`, `Append` and `\o` do to a queue, for the proofs | the proof modules |

Each alert module takes the neighbours only as far as it sees them: the executor's
transactions are atomic because `AlertStore` shows what a commit means, the executor
sees the controller's live set instead of deltas because `AlertDelivery` shows they
agree, and the applier takes journaled rows as given.

Proofs: delivery (3.4), store (4.3), executor (5.3), applier (6.3), focus (7.3) and session (8.3) are
done: every invariant the passing runs check is a theorem. None of these modules uses a RECURSIVE operator.

## 3. Alert delivery

### 3.1 What is modelled

`AlertDelivery` is one speaker, the alert service's side of it, and the control
session between them.

| state | code |
|---|---|
| `row` | the `alert_delivery` row: epoch, sequence, acked |
| `bound`, `d` | `Endpoint.delivery` and the `Delivery` in it |
| `att` | `Endpoint.attached`: session and hello |
| `desired`, `calendar` | the live set of the last push; what Home Assistant's calendar holds |
| `link`, `down`, `up` | the control session, messages to the speaker, events queued for the service actor |
| `dev`, `stage` | the speaker's durable epoch, position, cache and corrupt mark; `Executor.stage` |
| `hist` | history: every epoch, sequence and version posted |
| `left` | what is left of the bounds on outside events |

A version is a function from occurrence ids to contents, `Absent` if not live.
Sessions and epochs are numbers (fresh UUIDs in the code). Tombstone reasons, labels
and the JSON of an object are data no decision of delivery reads. The digest of a
snapshot is modelled as what it digests. A snapshot too large for its pages
(`SnapshotError`, `delivery.rs:300`) is left out: nothing is sent until the calendar shrinks.

Each step of `Delivery` is a pure operator that returns an `Outbox`, as in the code;
`Send` and `Refresh` are `send_outbox` and `refresh`. One message handled by the
service actor is one action (the actor handles one at a time): it records the
position, posts what the outbox holds, and goes on to refresh. Posting checks the
session the runtime has *now*, which may not be the one the service believes
attached. The speaker handles one message per action, with the acknowledgement
queued for the controller (`Reply`); a full send queue may drop it.

Outside events, each bounded by `Budget`: edits of the calendar (`calendar`), and
faults: end of a session (`session`), restart of the controller (`crash`), deletion of
the device (`forget`), a rejected snooze (`retract`), a failed database operation
(`db`), a failed device commit (`commit`), a dropped acknowledgement (`drop`), a
restart of the speaker (`reboot`), a damaged store (`damage`). `Budget["faults"]`
bounds their sum. A `session` end loses acknowledgements in flight from any point on
and may fail to report itself (the runtime's event queue is full).

### 3.2 Properties

* `SequenceNeverReused`: two bodies posted under one epoch and sequence lead to the
  same version.
* `CacheIsPublished`: an undamaged cache is, whole, the version posted under the number
  the speaker acknowledges.
* `CaughtUpAgrees`: if the speaker's number is the controller's current one, it holds
  what the controller believes it sent. `attach` sends nothing on that ground.
* `ArmedIsHeld`: what `armed` tells the user is so.
* `QuietIsInStep`: a session with nothing in flight has the calendar's content on the
  speaker. It is stated for runs in which no acknowledgement was dropped and no
  database write failed: the code repairs those with the next change or session only.
* `ImplementsCache`: the refinement to `AlertCache`, in which the controller publishes
  numbered versions and the speaker takes them, forward only within an epoch.
* `Converges`: once outside events stop, the speaker comes to hold the calendar and
  keeps it.

### 3.3 Runs

| run | instance | shows |
|---|---|---|
| `delivery_recovery` | 2 occurrences, 1 content, pages of 1, 2 edits, any 2 faults but `db`, 2 sessions lost | all safety properties and the refinement; 776,764 states |
| `delivery_live` | 1 occurrence, 1 edit, any 2 faults of `session`, `crash`, `forget`, `commit`, `reboot`, `damage` | `Converges`; 12,082 states |
| `delivery_reuse` | 2 occurrences, 2 edits, one lost session, one failed write, one crash | violation of `SequenceNeverReused` (finding below) |

Why the bounds are enough: two occurrences with pages of one object make every snapshot
of both two pages and every change of both two deltas, so pages and deltas interleave
with losses; an occurrence that is live, changed to absent and back takes two edits; two
faults reach every pair such as "the ack was lost and the controller restarted", and
with one lost session each a third session sees the result. A second content would
only add another way for two versions to differ. The theorems below have no bounds.

`CHECK_DEADLOCK FALSE`: with its bounds used up and nothing in flight the system rests.

Fairness is `WF_vars(Progress)` over the steps the programs take by themselves: the
service actor and the speaker's reader are loops over a channel, a dead session is found
by heartbeats, `Link.Run` dials again for ever, and Home Assistant pushes the calendar on
subscription and on change. Outside events get none. One weak fairness condition on
their disjunction is enough and is weaker than one on each.

### 3.4 Proofs

`AlertDeliveryProofs` proves, for any finite set of integers as occurrences, any contents, page
size and budget:

* `TypeCorrect`: `Spec => []TypeOK`;
* `NumbersAreNeverReused`, `CachesArePublished`, `CaughtUpDevicesAgree`:
  `SequenceNeverReused`, `CacheIsPublished` and `CaughtUpAgrees` hold as long as no
  database operation has failed (`AllRecorded`). The condition is needed: `delivery_reuse`
  shows that the first fails without it.

None of these is inductive. `SafeInv` is `TypeInv /\ (AllRecorded => Safe)`, where `Safe`
says that

1. the row's epoch is the newest one and its sequence is not behind any number posted
   under it, so a restart cannot assign a number again;
2. the service's memory, when bound, agrees with the row, and the version it believes
   sent is the one posted under its current sequence;
3. every delta in flight or unacknowledged is *backed*: it leads from the version posted
   under the previous number to the version posted under its own; every page is one of a
   posted snapshot, and the stage holds what the pages before it put there;
4. the posted history is unambiguous, and the cache is published.

(3) is what makes resending safe: applying a backed delta at the right position moves the
cache from one posted version to the next. The proof has lemmas about the pure steps
(`ChunkStep`: the k-th chunk leads from the k-1st partial version to the k-th; `DeltasKeeps`,
`SnapshotKeeps`, `RetractKeeps`: an outbox keeps 1 to 4), one for sending (`SendSound`),
and one step per action (`WorksSafe`, `QuietSafe`, `SafeStep`).

`AlertCacheProofs` goes on from there and proves, under the same condition,

* `ArmedAlarmsAreHeld`: `Spec => [](AllRecorded => ArmedIsHeld)`;
* `DeliveryImplementsCache`: `Spec /\ []AllRecorded => ImplementsCache`, the refinement.
  The initial state maps to an initial state and each step (`CacheStep`) to a publication, to
  the device's cache moving on, to its loss, or to a stutter.

`Safe` says nothing about order, and the device compares no numbers when it installs a
complete snapshot: only that it is not put back by an older one lets its cache move
forward. `Order` says that

1. every page on its way carries a higher position than each body before it, or is a later
   page of the same snapshot (`Paged`);
2. every position the device ever reported, wherever the report is by now (in the device, in
   a hello or acknowledgement in flight, in the attached session, the service's memory or
   the row), is not above what the service has given out, not above what an undamaged
   device still holds, and below every page on its way (`Holds`);
3. an object the service believes sent has, in every version posted from its revision on, the
   content last sent (`Revised`).

2 makes an acknowledged position a lower bound of the device's, and with 3 and
`CacheIsPublished` that is `ArmedIsHeld`. The key lemmas are `HeldOn` (what a step does to
reports and pages), `SendOrderly` (what a turn of the service posts comes after everything
reported) and one lemma per action. TLC checked `Order` on the instance of `delivery_recovery`
and with a failing database before the proof.

`QuietSessionsAreInStep` (at the end of `AlertDeliveryProofs`): `Spec => []QuietIsInStep`. A quiet
session is in step because nothing was lost on the way to it, so `SteadyInv` accounts for every message
on its way. It adds to `SafeInv` that

1. a live session is attached or announced behind what the service has not read of earlier ones; until
   it is attached nothing is on its way down and the device is where its hello says (`Session`);
2. an attached speaker was sent what the service last saw of the calendar (`Brought`);
3. the unacknowledged deltas are the last ones of the epoch, without a gap (`Numbered`): `attach` may
   send those above the hello's position and nothing else;
4. where no acknowledgement was dropped and every position was recorded, the attached device either has
   asked for a snapshot on this session (`Asked`) or is `OnTrack` (`Sync`).

`OnTrack` is about the queue down and the device that reads it. Either the queue is the deltas from the
device's position to the service's, one number each; or it ends with deltas behind the last pages of a
snapshot, and then the device is on track whatever it holds and whatever comes before those pages,
provided the stage holds exactly the pages of that snapshot already read (`StageAt`). The lemmas follow
the messages: `AttachResumes`, `DeltasChains` and `SnapshotChains` (an outbox continues the queue, or is
a whole snapshot), `TrackRuns` and `TrackWhole` (the queue with them behind it is on track),
`DeltaOnTrack`, `PageRead` and `PageOnTrack` (the device reads its head), and one lemma per action
(`...Steady`). TLC checked `SteadyInv` on the instance of `delivery_recovery` before the proof.

Only model-checked: `Converges` (liveness under fairness is beyond the prover).

## 4. Alert store

### 4.1 What is modelled

`AlertStore` is `store.go`: each file operation of `openStore`, `commit`, `rollback` and
`compact` is an action, which succeeds or fails, and between any two the process may be
killed or the power may go.

| state | code |
|---|---|
| `log`, `snap` | `operations.log` and `snapshot.json` as the process reads them |
| `logs`, `snaps` | the contents a power loss may leave |
| `pc`, `cur`, `opening` | the operation the single writer is at (the executor holds its lock across a commit) |
| `mem` | `store`: state, `txn`, `logSize`, `broken` |
| `committed`, `maybe` | history: the state of the last successful commit; states an unsynced write may leave |

A record is one slot; offsets count slots instead of bytes. A slot is a whole record, zeros,
a record with a bad checksum, one cut short by the end of file, or one whose length field
claims so. `Transactions` act on two classes of items: delivered ones, which a
snapshot install replaces (`reset`), and local ones, which it leaves alone.

Assumed of the file system: a `Sync` that succeeds makes the file's content durable; until
then a power loss leaves the old content, the new, or a torn or zeroed record; a rename is
atomic and durable once the directory is synced. Damage (bad media) spoils the
snapshot, or a record that another whole record follows: the loss of the last record cannot be
told from a torn tail, by design.

### 4.2 Properties and runs

* `NothingCommittedIsLost`: every state recovery could come up with is the committed one,
  or that plus the single transaction being written.
* `DamageIsMarked`: after damage, recovery always yields a marked state, through any number
  of interrupted recoveries, until the controller's snapshot clears it.
* `ReopenIsIdentity`: a store that takes commits holds in memory what a fresh process would
  read, and appends where it would.

| run | instance | shows |
|---|---|---|
| `store_crash` | 4 kinds of transactions, 4 commits, compaction at 3 records, 2 failed operations, 1 kill, 1 power loss, 1 damage; every operation may fail but two | all properties; 907,134 states |
| `store_truncate` | the sync after compaction's truncate may fail, one power loss | violation (finding below) |

Four commits with compaction at three give journals of every length around the threshold,
and a commit after it; two failures reach "the write failed and its rollback failed". The
sync after `Truncate(0)` never fails in `store_crash`: it has a run of its own. Two more cases
are left out of it because the properties do not hold there, and they are recorded here without
a run:

* an existing snapshot that cannot be *read* (an I/O error, `store.go:137`) is handled as a
  damaged one. The state it held is committed and is lost, although it may still be on the
  medium; the corrupt mark asks the controller for a new snapshot, local operations are gone;
* a damaged *length field* before the tail (`store.go:184`; `DamageKinds = {"long"}` in the model)
  makes replay take the rest of the journal for a torn tail and drop it without the corrupt mark
  that the comment on `openStore` (`store.go:65`) announces for "a bad record before the tail". With a
  kill and that damage `DamageIsMarked` fails.

`CHECK_DEADLOCK FALSE`: a store at its bounds, or broken, rests.

A killed process may leave a record it never synced; the next process serves it without
syncing. A later power loss can take it back: `maybe` keeps that state apart.

### 4.3 Proofs

`AlertStoreProofs` proves `Typed`, `Durable`, `Marked` and `Reopened`: `Spec` implies `TypeOK`,
`NothingCommittedIsLost`, `DamageIsMarked` and `ReopenIsIdentity`, for any sets of items and
transactions, any compaction threshold, journals of any length and any number of failed operations,
kills, power losses and damage, in any mixture. The hypothesis `Tolerated` names what 4.2 leaves out
of `store_crash`, and nothing else: the sync after `Truncate(0)` does not fail, an existing snapshot
can be read, and no length field is damaged. It cannot be dropped: `store_truncate` is a
counterexample for the first, and 4.2 describes the others.

`Replay` is a recursive function over a journal of any length, so each fact about it is an
induction. The library's induction theorems take an operator that the prover cannot instantiate;
two lemmas stand in for them. `LeastOf`: a set of numbers has a least one, from the library's fact
that the finite subsets of a set are well-founded. `Upwards`: what holds of 0 and of each successor
holds up to `n`. With these, `Shape` shows that replay passes over a prefix of records and stops at
the next slot, if there is one, and from that follow the facts the actions need: what a record, or
something else, behind a journal reads as (`ReplayMore`), what remains after truncating to where
replay stopped (`ReplayCut`), that a snapshot of what was read makes all of the journal's records
old (`ReplayAgain`), and that a spoiled record before another is noticed (`DamageSeen`).

The inductive invariant `Inv` has five parts:

* `TypeInv`, the shapes;
* `OutcomeInv`: every pair of contents a power loss may leave reads as a state accounted for;
* `AgreeInv`: the journal reads the same, up to a mark too many, after every snapshot a power loss
  may leave. The properties do not say this of numbers and offsets, and without it a truncation
  that is right for the current snapshot could be wrong for the older one that comes back;
* `DamageInv`: a damaged journal has one content, because nothing writes to it before compaction has
  replaced the snapshot;
* `StepInv`: what each file operation finds. While the store is open, the first `logSize` slots read
  as its memory after each such snapshot (`BaseInv`); during a compaction the whole journal does
  (`CompactInv`), and it is emptied only when the new snapshot is the only one.

TLC checked the parts on the instance of `store_crash` before the proof. Nothing of `AlertStore` is
only model-checked.

## 5. Alert executor

### 5.1 What is modelled

`AlertExecutor` is the speaker's `executor.go`, `delivery.go`, `clock.go` and `wakelock.go`,
and the part of the alert service that answers its operations.

| state | code |
|---|---|
| `now`, `boot`, `up` | UTC and the monotonic clock, the boot ID, the process |
| `disk` | the durable `state`: occurrences, operations, snooze children, armed records, rings |
| `mem` | the executor: what is active, `volatileOps`, timers, the trusted clock, a poll under way |
| `lock` | the kernel wakelock, which outlives the process |
| `ctl` | the calendar's live set, the journal, the answers to operations |
| `hist`, `left` | history for the properties; what is left of the bounds |

`Poll` is four actions (begin with the retry of volatile operations, expire, start, end)
because it commits several times and each commit may fail. Every other handler is one
action: it holds the executor's lock. An occurrence is its schedule and due time; a snooze
child carries its parent in the schedule, and `copy` says that the calendar keys it
differently from the speaker (`Reformats`), the case `supersedeChildren` exists for.
`volatileOps` is a set: its order is that of the operations' numbers, in which `PersistOps`
commits those a retry succeeds with.
A commit is atomic (section 4) and may fail. Delivery is reduced to "the cache takes
the live set" (section 3).

Left out: a process killed between the commits of one `Poll` (`Crash` comes between polls; a commit
that fails inside one is modelled); an act repeated with its own `opID`, which `Act` answers
without acting; and the check that a snooze's child has the IDs derived from its parent
(`service/mod.rs:1559`), whose answer `invalid_child` is to the speaker a rejection like the others.

### 5.2 Properties and runs

* `StopHolds`: a stopped alarm does not sound again, whatever is delivered, answered, replayed or
  retried.
* `KeptUntilAnswered`: no operation is forgotten before the controller's answer.
* `RingNotRenewed`: restarts and a takeover by the delivered copy never ring an occurrence past
  the limit counted from its first ring.
* `LockInStep`: the wakelock is held exactly while something is armed or rings.
* `ActiveIsHeld`: what rings is in the cache and not stopped.
* `DueRings`: a due alarm rings, is stopped or expires.

| run | instance | shows |
|---|---|---|
| `executor` | one alarm due at 1, snooze 1, ring limit 2, catch-up 2, clock to 4; two acts, one each of timer, crash, reboot, failed commit, rejected operation, lost answer, of which any three kinds | all properties; 594,411 states |
| `executor_disarm` | two acts, no faults | violation of `NeedsNoMessage` (finding) |
| `executor_replay` | two acts, one failed commit | violation of `DismissalIsFinal` (finding) |

The clock passes the due time, the snooze, the ring limit and the catch-up window with
one unit to spare; two acts make a snooze and the stop of its child; two children need a
second snooze. With any four kinds together (2,157,945 states) and with all seven (8,270,844) the
invariants hold as well; the liveness check is out of reach there.

Fairness: the poll loop runs, a process that died is started again, an untrusted clock is
answered (the supervisor asks again on each session) and the controller brings the cache to its
live set (`Converges`).

Where the properties stop, because the code does:

* `StopHolds` exempts snooze children once a commit has failed: `retryVolatileLocked`
  (`executor.go:803`) stores a snooze again with its child, although the child may
  have been stopped in between (`executor_replay`); and stops the controller answered without recording them, which
  `executor_replay` is about.
* `RingNotRenewed` exempts them for the same reason: the copy the controller delivered may ring
  already when the late retry stores the speaker's own child beside it, which has a ring record
  of its own; `supersedeChildren` (`delivery.go:213`) ran before.
* `DueRings` exempts an occurrence without a deadline while the clock is trusted, in two cases: a snooze
  child delivered under the speaker's own ID (`executor_disarm`), and after a failed commit:
  `ApplyClockReply` trusts the clock in memory though the transaction that arms for it failed
  (`executor.go:1174`), and the same reply does not arm again. Without a failed commit every other
  occurrence, and after one every occurrence that has its deadline, or a clock not trusted yet, must ring.

`CHECK_DEADLOCK FALSE`: at the bound of the clock with nothing left to do, the system rests.

### 5.3 Proofs

`AlertExecutorProofs` proves `Typed`, `NoneForgotten`, `Locked`, `Sounding`, `Stopped` and `NotRenewed`:
`Spec` implies `TypeOK`, `KeptUntilAnswered`, `LockInStep`, `ActiveIsHeld`, `StopHolds` and `RingNotRenewed`,
for any alarms and due times, any durations and any number of acts, restarts, failed commits and lost answers, in any mixture.

The inductive invariant `Inv` of the first four has four parts:

* `TypeInv`: the shapes of the records, and the ledger of operations. Numbers are given out once
  (`made` is `1..n`); an operation that is known was made, one that was made is known, answered or
  lost; one that carries an answer was answered; and no operation is both in the journal and in memory
  (`Apart`). Without `Apart` an answer could reach the copy in memory and leave the stored one,
  which is what the mutant `KeptAll` does;
* one ring record per occurrence. Records that `supersedeChildren` moves stay single because the
  children they come from are all keyed by the speaker, so no two of them match one delivered
  occurrence (`OwnMatch`, `MovedType`);
* `DownInv`: a process that does not run has no memory;
* `ActiveInv`: from the check at the start of a poll until the next handler signals, what rings is held
  and not stopped. `ActiveIsHeld` looks at it only after the poll, when nothing has been signalled.

`LockInStep` is inductive beside these: each handler either reconciles the lock or leaves the parts
`LockWanted` reads alone (`LockSame`).

`Stopped` needs an account of every path by which what was stopped could come back: a delivery of a
stale live set, the late retry of a snooze that was not stored, an answer that drops the operation, a
restart without the operations in memory. `Blocking` proves the invariant for it, `StopInv`. It is about
the part of the state stops depend on (`ViewOf`: the live occurrences, the children held anywhere, the
operations, and what the controller has), so that a lemma about a change of that view covers several actions
(`Stopping`, `Stored`, `Delivering`, `Answering`, `Entering`, `Settlement`, `Losing`). It says that

* `Silent`: an occurrence that was stopped is blocked by an operation, or is not held at all, unless the
  controller answered the stop and delivers it anew; `StopHolds` follows with `ActiveInv`;
* while no commit has failed (`Calm`): the controller knows what it answered (`Recorded`, `Learned`); an
  occurrence has one operation (`Exclusive`); the journal's operations are still the speaker's
  (`Journaled`); a snooze's child is not known before the snooze is settled (`Unborn`), and then its parent
  cannot ring again (`Retired`); the delivered copy replaces the speaker's child (`Replaced`); and a child
  made twice waits for the older operation (`Remade`). Without these a child that was stopped could be
  made again by its parent; after a failed commit it can, which is why `StopHolds` exempts children then;
* `Aged`: what rings is due, hence a snooze's child is due later than what it was made from.

TLC checked `StopInv` on the instance of `executor` and, without failed commits, on a larger one
(5.7 million states) before the proof.

`NotRenewed` needs to know where the limit of a ring is kept, for it is set once, by `startLocked`, and
read again after every restart and under another key. `Limited` proves the invariant, `RingInv`, over the part
of the state that limits depend on (`RingsOf`: the live occurrences, the stored children, the operations, the
ring records, the timers, what rings, the first rings, and what the controller knows and answered):

* `Within`: no ring record of an occurrence that rang, nor its ring, ends later than its first ring allows;
* `Followed`: what rang is not stopped; an alarm that rang is still cached; and every copy the cache has of it
  has a ring record, unless the write of that record failed and the ring is still going on. So a ring of it
  that starts continues a record: a step starts a ring without one only for what has not rung (`RingStarts`);
* while no commit has failed, a snooze child that rang is cached under one key or is `Stray`: the controller
  does not know it and no operation of the speaker can make it known, so it never comes back to a cache that
  has lost its record. A delivery moves the record to the controller's copy (`KeepsRings`); a rejection
  withdraws the child, and `Refused` says that the controller never shows one it refused. `Unique` says that
  it knows a child under one key: with two, the record would move to one and the other would ring anew;
* `Limits`: a record, also one of an earlier boot, ends at most the ring limit from now.

`RingKept` says when a step that starts no ring keeps all this, and each action is shown to be such a step, or
to be a ring that resumes or starts (`RingResumes`, `RingStarts`). `StopInv` is used throughout. The theorem has
one hypothesis about a constant, `NoneApart`: `None` is not itself a ring or the answer `"rejected"`. It is
no ASSUME of `AlertExecutor` because TLC cannot evaluate it: it asks for a field of a model value.
TLC checked `RingInv` on the instance of `executor` before the proof.

Only model-checked: `DueRings`.

## 6. Alert journal and applier

### 6.1 What is modelled

`AlertApplier` is how the controller writes journaled operations to Home Assistant: `applier.rs`,
`calendar.rs` as far as it finds events, the journal's rows, the feed with its window, and the guard
that deletes again what a restored backup brings back.

| state | code |
|---|---|
| `now` | the window the time is in |
| `cal`, `conn`, `owed` | external: the calendar, the connection, a change not yet pushed |
| `feed`, `frame`, `wire`, `view`, `newer` | the subscription and its window, pushes under way with theirs, the service's view and whether it is later than the one the applier noted |
| `rows`, `jobs`, `guarding` | the journal, the applier's queue, occurrences with a guard job |
| `pc` | where the applier is: taking a job, waiting for a fresh view, in a call, confirming, rereading, settling |
| `hist`, `left` | what each operation wrote; what is left of the bounds |

A call is two steps, decision and answer; the write may happen although the answer
is lost. A restart keeps the calendar and the journal and loses everything else. A guard job is
one per occurrence (`guarding` is keyed the same way), and a restart files the pending rows in their
order before any new work (`Requeue`).

The service sees a calendar through a window of 30 minutes back and 7 days ahead
(`feed.rs:170`), fixed when it subscribes and moved on each hour by subscribing again. `Windows` gives
the occurrences due in each position of the window, `TimePasses` moves it, and a push shows what is
`Visible` in the window of its subscription. Everything the applier looks for, an event to create
included, it looks for there. What was due before the window (`Past`) a new subscription reads once
as the backlog, which may fail, and a dismissal looks it up and deletes it through REST
(`DeleteOccurrence`, calls of the kind `past`).

Simplified: the backlog is handled together with the first push, in the code just before
it; a dismissal looks up the calendar's own event of that schedule and key, where the code remembers
the target it was told of; one key per created event. `Expire` operations are dismissals to the
applier. `GuardDone` is an actor message of its own in the code (`service/mod.rs:782`). Left out are the
binding of the calendar and the 90 days that bound the backlog and `restore_guard`
(`service/mod.rs:816`).

### 6.2 Properties and runs

* `InOrder`: no write of an operation before all earlier ones are settled.
* `NoDuplicate`: a restart between any two steps does not repeat an event. Stated for
  behaviours in which every call is answered, and events that are due in every window there has
  been (`Framed`); `applier_repeat` and the note on the window below say why.
* `SnoozeKeepsAlarm`: the parent of a snooze is not deleted before the child is written.
* `LiveSettles`: every journaled operation is settled.
* `LiveHandled`: what an applied operation handled does not stay on the calendar, although a
  backup brings it back.

| run | instance | shows |
|---|---|---|
| `applier` | any two of a create, cancel, dismiss and snooze on an alarm with two occurrences, or one of them while the first occurrence passes out of the window; one kind of fault of: lost answer, refused call, lost connection, two restarts, two restored backups, a user's removal | all properties; 174,752 states |
| `applier_repeat` | a create in the window or ahead of it, one lost answer, one restart, one removal by the user | violation of `RepeatsOnlyMissing` (finding) |

Two operations are enough for order; two restarts hit one operation at two steps. Kinds of
faults are not mixed, and operations and moves of the window are bounded together (`MayAct`), which
keeps the liveness check in reach. The window has two positions, with the occurrence of the operation and
after it; the restart and the hourly renewal reach each step from either. Fairness is weak and on each
step of the feed and of the applier: both are tasks that retry for ever, Home Assistant answers
a subscription and pushes changes, a subscription ends after an hour (`EndFeed`) and time passes.
Outside events get none. Deadlock is checked in `applier`.

What the window does to an alarm for a date more than 7 days ahead, which the dashboard accepts
(`alerts_dashboard.rs:125`), is excepted from `NoDuplicate`:

* a create whose call was answered does not find its event after a restart and writes a second one,
  although it has recorded the step (`applier.rs:242`). `docs/post-afe-audio-architecture.md:817` says of
  that crash that a create is deduplicated. `RepeatsOnlyMissing` fails in this way as well: with the
  budget of `applier_repeat` reduced to the restart, this is the trace TLC finds;
* without any fault its confirmation never sees the event (`applier.rs:254`): the create is settled as
  rejected, the alarm is stored and rings when its date comes into the window. The same document, line
  1342, says of a failed create that it is reported as not stored.

### 6.3 Proofs

`AlertApplierProofs` proves `Typed`, `Ordered`, `Snoozed` and `Once`: `Spec` implies `TypeOK`,
`InOrder`, `SnoozeKeepsAlarm` and `NoDuplicate`, for any set of operations, any plan, any
finite calendar to begin with, any windows and any number of faults of any kinds together.

The inductive invariant `Inv` adds to the types:

* the journal lists each operation it has a row for once, and the operation in hand followed by the
  queued ones is exactly the pending ones in the journal's order (`JournalInv`, `QueueInv`);
  `InOrder` follows. A restart re-establishes it because it requeues the rows in order;
* an occurrence is being guarded just when one job, queued or in hand, is for it (`GuardInv`);
* whatever shows an operation's event, the calendar, a push under way or the view, the operation
  wrote it (`CreatedInv`), so a snooze that goes to its second step because it sees its child
  has written it (`SnoozeInv`);
* while no answer was lost, a pending operation whose event exists and is due in every window is
  confirming or settling, or is a snooze at its second step, or *every* read that could still arrive
  shows the event (`OnceInv`). So a create is only called for want of the event.

The last is where a lost answer breaks the argument: the event exists, a read from before it is still
under way, and nothing remembers the call. That is the finding `applier_repeat`. An event outside a
window breaks it as well: no read shows it. That is the exception of 6.2.

Only model-checked: `LiveSettles` and `LiveHandled`.

## 7. Speaker focus

### 7.1 What is modelled

`SpeakerFocus` is `focus.go` and the goroutines that call it: the session's reader, the 50 ms tick,
the alert executor, the wake detector, the button and the mixer's hooks.

| state | code |
|---|---|
| `m` | `focus.Manager`: leases, provisional ducks, the dialog, the alert, its yield and background budget |
| `acts` | for each goroutine, the callbacks its update queued and it has still to run |
| `mix` | the mixer's dialog output and the events it will deliver |
| `ex`, `sup` | what the executor and the supervisor keep beside the manager |
| `session`, `open`, `ticked` | the session, open candidates, whether this unit's tick has run |

An update of the manager is atomic: its lock is held. The callbacks run after the unlock, one
by one, interleaved with those of other goroutines; that is where the hazards are.
Time is in ticks, and deadlines count down. A lease id nothing refers to any more is
used again as a new one. The leases are a Go map, so several that expire in one update do so in any
order: `ExpireLocked` is the set of its outcomes, and an update starts from one of them (`Now`).

### 7.2 Properties and the run

* `BackgroundBounded`: however often the wake word is heard and leases are renewed, the alert is in the
  background no longer than its budget since its last whole burst in the foreground.
* `YieldBounded`: output an alert found playing is stopped after the yield time.
* `AlertTracks`, `LeasesFollow`: once every goroutine is done, the manager's alert is the one that rings
  and the supervisor's leases are the manager's.
* `OneForeground`: once every goroutine is done, no output is heard over a foreground alert.

Run `focus`: a turn with its wake candidate, its input lease, its output lease and the playback of
its answer, one alarm, times of 1 and a budget of 2, callbacks of up to two goroutines
interleaved: all invariants; 1,255,409 states. The budget is longer than the other times, so it is
used up over several yields. No liveness is claimed and no fairness assumed. Deadlock is checked.

Met while modelling, without a run:

* of two overlapping updates the earlier may be applied last: the callbacks run outside the lock
  (`focus.go:143`), so the mixer may be left with the older policy until the decision next changes, where the
  comment at `focus.go:58` says "in order";
* `OneForeground` exempts an alert that has yielded, because the decision ignores output once it has
  (`focus.go:507`): an alert becomes due during output, the output
  drains while an input keeps the alert in the background, a second output is admitted, the input
  ends, and the alert comes to the foreground while that output plays, against the comment at
  `focus.go:483`. Without the exemption TLC finds this trace.

Left out: the order of an output's cancellation among the expiry callbacks of *other* owners, with
which it commutes; the controller's `FocusLease`, `SetDuckDB` and ramps (data), generation checks (the
controller never changes a generation), `AlertPreempted`, and a candidate opened in the instant the
session ends.

### 7.3 Proofs

`SpeakerFocusProofs` proves every property of the run for any finite set of leases and candidates, any
playbacks and alerts, every value of the times and the budget, and any number of goroutines in the
middle of their callbacks. The assumptions are `TimeAssumption` (times are at least one tick),
`BoundAssumption`, `IdAssumption` (lease and candidate ids differ and are finite in number)
and `NoneAssumption` (`None` is none of the values it stands beside).

None of the properties is inductive: each speaks of a moment at which every goroutine is done,
or of a number whose bound depends on fields the property does not mention. `Inv` says what holds in
between:

* `ManagerInv`, of the decision an update leaves: `BudgetOK` bounds `budget + bgFor` and says that an
  alert that used its budget up has no output beside it; `Decided` that output holds an alert that has not
  yielded in the background; `Prompt` that once the tick has run no deadline is past;
* `ActInv`: only the alert goroutine reports a change of focus, alone, and reports what was told
  last; a stop on its way is of an alert that does not ring; only the link notes leases;
* `LeaseInv`: a lease is with the supervisor just when the manager has it, unless a callback about it is
  under way; a lease on its way to be noted is live and not about to expire, so its expiry
  cannot overtake it;
* `AlertInv`: with no report under way the supervisor's `alertFocusID` is what the executor told, and the
  manager's alert is that one, or was stopped and does not ring any more;
* `SilentInv`: the silence since the last burst is within `budget + bgFor + 1`; a burst not yet told leaves at
  most one unit;
* `MixInv`, `DialogInv`: the mixer reports the start and the end of an output once, and an output that is
  heard is the manager's, or its start or its cancellation is under way;
* `YieldInv`: the output an alert found has its time counted down in `yieldIn`, or its cancellation
  is under way.

The proof has three layers. Lemmas about the manager (`AcquireEffect`, `ActiveEffect`, `DeadlineEffect`,
`BackgroundEffect`, ...) say of each operation which parts of the record it changes; `UpdateEffect`
combines expiry, operation, deadlines and policy into one fact about an update. Lemmas about queues
(`FreeMoves`, `RunMoves`) say which callbacks come and go, and the `...Kept` lemmas say under
which of these facts each conjunct of `Inv` survives. One lemma per action (`FocusStep`, `TickStep`,
`HookStep`, `RunStep`, ...) then puts them together. `Callbacks` of an expiry are characterised by what they
are about and not by their order, so no induction over the expired leases is needed.

## 8. Session, capture and mute

### 8.1 What is modelled

`DeviceSession` is one device and the controller's side of it, from the mute button to the scope
that permits capture.

| state | code |
|---|---|
| `dev` | `muteController.muted`, the ADC, the state file, `Supervisor.muted`, `physicalSeq` |
| `driver` | external: Amazon's privacy driver, which toggles by itself on the same button |
| `thr`, `armed`, `pressed` | the button loop and the timer inside `set`, checks still to run, presses not read |
| `up`, `link` | the firmware's process; `client.Link`: phase of the attempt and its session |
| `ses` | per session: handshake and control task, hello, socket, `SessionCore`'s stop and scope, the urgent path |
| `claim`, `active` | `Registry` |
| `cmds`, `rt` | commands queued at the runtime; `DeviceRuntime`: current session, mute, last sequence, a scope being published |
| `ghost`, `left` | history for the exemptions below; what is left of the bounds |

Every dial is a session of its own. Code that takes two locks one after the other is two actions:
`set` assigns under its lock and applies outside it, `setPrivacy` numbers before it locks,
`SessionCore::end` records the stop and then revokes, `publish_capture` publishes and then looks for a
stop. Simplified: ADC, LED and file are one step; a claim and the first half of the old
session's stop are one step; one privacy check at a time, its five retries not counted.
A report on a published session may be refused by a full control queue (`client/session.go:113`), which
`setPrivacy` only logs while the session goes on: that is `Backpressure`, an outside event. A command whose
session is already over is dropped by the runtime (`Discard`, `device.rs:1186`).
A hello without the mute, which the controller takes for a muted device (`device.rs:1316`), is left out:
the firmware always sends it. Rejected hellos, commands, audio, heartbeats as messages, a controller restart and the rebuild of
a failed runtime are left out.

### 8.2 Properties and the run

* `OneLiveCapture`: no two sessions of a device hold a live capture scope.
* `EndedIsRevoked`: a session that is over has none; either the end saw the scope or the publisher saw
  the stop, as the comment in `publish_capture` argues.
* `MuteIsHeard`: while capture is live, a mute that is the last the link read is still queued for the
  runtime. A session that carried reports of two overlapping changes (`ghost.mixed`) is exempt: their
  numbers may arrive out of order, and the runtime drops the later one as old.
* `RunningIsRouted`: a session that runs is its device's newest and is routed.
* `MuteSettles`: a device left alone agrees with the driver, and its ADC, file and supervisor with it.
* `MuteAgrees`: a controller connected and at rest holds the device's mute, and capture is live just
  when it is unmuted. Exempt is the device whose changes overlapped, and the session that missed a report:
  made before the session was published, or refused by a full control queue (`ghost.stale`).
* `Reconnects`: the device comes to hold a session the runtime serves, and no report that was sent is
  still under way.

Run `session`: three sessions, an urgent path of one, and any two events of presses, a crash and
faults (a lost session, a refused report, a command that waited too long; two of one kind or one of each,
but two crashes), and in a single session two presses beside a fault: all properties; 792,935 states. Three
sessions are the one that is replaced, the one that replaces it and a third that sees the
result; an urgent path of one makes it full with two reports.

Fairness is weak, on the device's mute and on link, server and runtime together: goroutines and
tasks are scheduled, `Link.Run` dials for ever, and deadlines end a socket that hangs. Outside events
get none. `CHECK_DEADLOCK FALSE`: a connected device nobody touches is at rest.

Met while modelling, as exemptions of these properties:

* two overlapping `set`s, of the button and of the privacy check, apply outside the lock (`mute.go:69`),
  so ADC, file and report may be left opposite to `m.muted`; and the sequence is
  taken before the capture lock (`capture.go:125`), so the controller may drop the later report as old,
  where `docs/rust-controller-evaluation.md:146` says that the number increases within a session;
* a press between the hello (`session.go:76`) and the publication of the session is not reported by
  that session: the controller's mute is stale until the next press or session, where
  `docs/led-ring-states.md:93` says that the device reports it;
* a report that the full control queue refuses is lost in the same way, until the next report or session.
  `MuteAgrees` holds again from there on;
* a late attach of a replaced session can retire its successor, which comes back by dialling again;
* `ingress.rs:229` says of a mute that "the published capture scope was already cancelled"; with mute,
  unmute and mute queued quickly, the runtime's unmute publishes a fresh scope before it sees the
  second mute. `MuteIsHeard` states what does hold.

### 8.3 Proofs

`DeviceSessionProofs` proves all seven invariants (`Typed`, `Routed`, `SingleCapture`, `Revoked`,
`Heard`, `Settles`, `Agrees`) for any number of sessions, any length of the urgent path and any number
of presses, crashes and lost sessions. The inductive invariant `Inv` has, next to the types:

* routing (`RouteInv`) and what is queued for the runtime (`CommandInv`): each session's command is
  queued once, and the session waits for the answer or gave up;
* capture (`CaptureInv`): a live scope is the current session's, and an admitted session is current
  until it is stopped;
* numbers (`NumberInv`, `OrderInv`): a number is taken once, and along a session's urgent path and
  the socket behind it numbers rise from what the runtime applied last, so nothing is dropped as
  old outside `ghost.mixed`;
* what the link has read and revoked (`ReadInv`, `ScopeInv`), which gives `MuteIsHeard`;
* the device: what is set is applied, saved and reported by the goroutine that set it while changes do
  not overlap (`ApplyInv`); a check of the driver is due, or the timer is about to bring the two
  together (`DriverInv`); the last the controller was told is the device's mute (`ToldInv`).

`MuteSettles` follows from the device's part, `MuteAgrees` from both. `MuteIsHeard` was first stated
without the exemption for mixed sessions. Its proof failed at the step where two overlapping reports
are sent in the order opposite to their numbers.

Only model-checked: `Reconnects`.

## 9. Findings

1. `delivery_reuse`: when the position cannot be written, `send_outbox` posts nothing, but
   the deltas stay in `Delivery.unacked`. A speaker that reattaches in step is sent them with
   no position to record, so unrecorded numbers do reach it, and a restarted controller assigns
   them to other content, against the comments in `service/mod.rs` and `delivery.rs`.
2. `store_truncate`: if the sync after compaction's `Truncate(0)` fails, `logSize` is stale;
   the next commit writes behind a hole of zeros and recovery stops at the hole. The
   comment in `commit` says a failed compaction leaves the journal intact.
3. `executor_disarm`: a snooze child delivered under the speaker's own ID loses its armed record
   (`delivery.go:219`): arming finds the local child's record and adds none, and superseding the local
   child deletes it. `docs/post-afe-audio-architecture.md:788` says alarms need no live message to ring.
4. `executor_replay`: a dismissal of a snooze child the calendar has not shown yet is answered as
   applied and recorded nowhere (`service/mod.rs:1530`). In the trace the snooze could not be stored at
   first and is retried as it was made (`executor.go:803`): its child is back and rings. With no failed
   commit (`NoFaults`) the child rings when it is delivered. The same
   document, line 146, says a persisted dismissal prevents replay.
5. `applier_repeat`: after an unanswered create the forced read may return an older push, or none by
   its deadline, and the create is repeated (`applier.rs:137`); the module's comment says only what is
   missing is repeated. The window of the view has the same effect without a lost answer (6.2).

What else the code does against its documents is described where the property exempts it: the window of the
view (6.2), a clock trusted without its commit (5.2), a damaged length field (4.2), output over an alert
that has yielded (7.2) and the mute's overlapping or missed reports (8.2).

## 10. Not modelled, and only model-checked

Proved, for every value of the constants: every invariant of `AlertDelivery`, with
its refinement of `AlertCache` (3.4); every invariant of `AlertExecutor` (5.3), `AlertStore` (4.3),
`AlertApplier` (6.3), `SpeakerFocus` (7.3) and `DeviceSession` (8.3), of those the passing runs check.
Each is stated with its exemptions. That of `RingNotRenewed` assumes
`NoneApart`. The theorems of 4.3 hold where `Tolerated` does. The theorems of 3.4 but `TypeCorrect`
and `QuietSessionsAreInStep` (which states the condition itself) are about behaviours in which no database
operation has failed; `delivery_reuse` shows what happens otherwise.

Only model-checked:

* liveness (`Converges`, `DueRings`, `LiveSettles`, `LiveHandled`, `Reconnects`): fairness and
  `ENABLED` are beyond the prover.

Not modelled:

* of the alert service, the users' requests, their waits and the relay: they journal rows, which
  `AlertApplier` takes as given;
* of the link server, tokens and approval, commands and their answers, and the audio and telemetry
  queues; of the runtime, the voice path, ESPHome nodes and the rebuild after a failure;
* uplink, voice session, wake arbitration and turn endpointing: planned (section 2);
* the Home Assistant client, beyond what the alert service sees of it;
* firmware transfers, settings, recorder and records: possible later modules;
* signal processing, recognition text, encodings, HTTP, hardware: large data or pure
  input and output, out of a model checker's reach.
