# Verification of the UII hub in TLA+

TLA+ models of the hub (`uii/hub`), its reference module agent (`uii/refmod.py`), the
analyzer's agent and the shim and MQTT client that stand in for legacy units
(`uii_analyzer`), the cameras and what is made of their frames (`uii_vision`), and the
authority, detections, scheduler, exports and publish extensions; TLC runs that check
them on small instances, and TLAPS proofs of the most important results for every
instance. Paths are relative to `src/`.

## 1. The system

The hub is one Python process. Instruments ("modules") dial it over TCP and
speak JSON lines; people, agents and schedulers use its HTTP API. Inside it

* one asyncio loop thread runs a `ModuleSession` task per connection,
* every HTTP request runs in a thread of its own,
* daemon threads run the detections, the scheduler, the publisher and the foam
  service,
* all of them append envelopes to one SQLite table, the evidence, and some read
  it as a live feed.

There is one lock, around `EvidenceStore.append`. Everything else that is shared
(`hub.sessions`, `hub.quarantined`, a session's `state` and `commands`, the
pending approvals) is plain Python data touched by several threads, and each end
of a TCP connection learns of its loss in its own time. That, and a restart of
either end at any moment, is what the models are about.

### Components

| component | state | operations | interacts with | correct when |
|---|---|---|---|---|
| evidence store `uii/hub/evidence.py` | the table, `_prev_hash`, the subscriber queues | `append`, `subscribe`, `unsubscribe`, queries | every thread | rows are immutable and each extends the last one published, sequence = row, the feed carries only what is durable |
| module sessions `uii/hub/southbound.py` | `state`, `commands`, `telem_ids`; the hub's `sessions`, `quarantined`, `registry` | `run`, `_handle`, `_quarantine`, `release`, `dispatch` | agents (TCP), gateway, API, watchdog | untrusted units mute, released units adopted, the map holds sessions that are served, one result per command |
| command gateway `uii/hub/commands.py` | the idempotency cache | `submit`, `dispatch_env`, `status`, `cancel` | policy, sessions, store | every check before a command is stored, one result after it |
| trust `uii/hub/config.py` | `trusted_serials`, `trust.json` | `trust_serial`, `is_trusted` | sessions | a release that was logged is never forgotten |
| reference agent `uii/refmod.py` | connection, `ring`, `busy` | dial loop, `execute`, `send`, flush | the hub | buffers, never duplicates, one timeline at a time |
| authority `extensions/authority` | `pending`, `_by_command` | `decide`, `on_defer`, `decide_approval`, `_expire` | gateway, API threads | nothing runs beyond its authority, a decision acts once, one outcome |
| API and SSE `uii/hub/api.py` | a queue per client | routes, release, `_sse` | all of the above | no gap and no duplicate in a feed |
| detections `extensions/detections` | alarm instances, caches | `_drain`, `_evaluate`, `_watchdog`, `ack` | store, sessions, API | the board is what the evidence says, hysteresis and debounce, staleness follows a role, acknowledgements are audited |
| scheduler `extensions/scheduler` | command in flight per module, last sample per role | `_tick` | gateway, sessions | one command in flight per module, no sample without a calibration |
| MQTT shim `uii_analyzer/mqtt_shim.py` | pending commands with timers | `deliver`, `_ack_timeout`, `_action_status`, dial loop | hub, broker, legacy unit | one verdict per command, none refused after its acceptance, a silent unit leaves |
| MQTT client `uii_analyzer/mqtt_min.py` | `connected`, `_subs`, the ping task | `run`, `subscribe`, `publish` | broker, shim | every filter heard on every connection, dead ones noticed, healthy ones kept |
| Pi agent `uii_analyzer/pimod.py`, `timelines.py` | mode and latch, `busy`, `_abort`, the timeline | `execute`, `_on_serial_line`, dial loop | hub, PLC and pumps (serial) | one authority at a time over the pumps, a success is complete |
| vision `uii_vision` | baseline, region and requirement per camera; the camera's ring | interpreter, `FoamService`, `campod` | store, sessions, cameras | frames judged once, against the scene in force |
| frames on disk `blobstore.py`, `tools/digest.py`, `tools/retain.py` | files, manifests | `put`, digest, sweep | systemd timers | no slot and no digest loses its frames early |
| publisher, archive job | last hash sent; `state.json` | `tick`; `main` | store, plane, archive | the plane shows the frame it names, the archive every slot at most once |
| exports `extensions/exports` | none | `build_bundle` | store | a bundle is a durable slice and verifies |

The interpretation arithmetic, the vision models, hardware drivers, the CLI and
the doctor, pages, demos and deployment carry no protocol state and are out of
scope; `PROJECT.json` lists them with the reason.

They interact through four things: envelopes in the store (everything; the engine,
the foam service and SSE clients through subscriptions, the publisher, scheduler and
exports through queries), sessions and their `dispatch` (gateway to agents), calls of
`submit`, `status` and `cancel` (API, scheduler), and files (frames, manifests, trust).

### What is hard

*Interleaving*: chaining and numbering under concurrent appends; a command sent while its
session ends; two humans deciding one approval; the watchdog writing the state of a session
that has ended. *Failure*: a connection lost with bytes in it, unnoticed by one end; a
crash, or a refusal, between two transactions; a restart between storing a command and
sending it; a call that raises after it did its work. *Ordering*: telemetry read where
ROLE_OK is expected; a module that redials before its old session ended. *Time*: an approval
that expires while it is decided; the 10 s waits of the handshake; the shim's timer against
the unit's late answer; a debounce that ends in a state where its rule is held; pings
against read timeouts. *Staleness*: a frame that waits while the camera moves; a module that
leaves and returns between two ticks. `PROJECT.json` lists every one at its line ("hazards")
with the properties that cover it.

## 2. Modules

| module | models | lines of code |
|---|---|---|
| `EvidenceStore` | the store, its writers, subscribers and crashes | `evidence.py` 39-96, 183-192 |
| `Feeds` | over `EvidenceStore`: the SSE handler, and an export that pages | `api.py` 339-366, `bundles.py` 39-118, `evidence.py` 98-132 |
| `CommandPromise` | abstract: the results a submitter can see | |
| `CommandLife` | gateway, sessions, TCP links and the agent, from submit to result; implements `CommandPromise` | `commands.py` 118-185, `southbound.py` 94-180, 217-309, 335-351, `refmod.py` 94-169, 196-269 |
| `Adoption` | identity: dial, verify, quarantine, release, adopt, watchdog, remove, restart | `southbound.py` 79-213, `config.py` 92-109, `api.py` 266-276, `engine.py` 168-180 |
| `Authority` | the pure decision functions | `policy.py` 40-90 |
| `Approvals` | the approval flow over `Authority` | `authority/__init__.py` 29-135, `commands.py` 146-185 |
| `MqttShim` | the shim, one session of the hub and one legacy unit, from submit to result; implements `CommandPromise` | `mqtt_shim.py` 239-488, `southbound.py` 125-180, 217-309, `fake_legacy_unit.py` 104-246 |
| `BrokerLink` | the MQTT client and its connections | `mqtt_min.py` 71-232 |
| `Timelines` | data: the event tables of the methods, and the captures their interpretation needs | `timelines.py` 20-259, `interpret.py` 118-156, `interpret_full.py` 12-82 |
| `Pimod` | over `Timelines`: the analyzer's agent between hub, plant and pumps | `pimod.py` 53-123, 147-308, 333-464 |
| `Desk` | who asks for what: scheduler, callers, idempotency, cancel, calls that raise, against modules and a hub that come and go | `scheduler.py` 41-144, `commands.py` 63-237, `southbound.py` 217-309 |
| `Detections` | the alert engine: one rule of any type against all modules | `engine.py` 63-166, 202-206, 224-379 |
| `Vision` | a camera, its connection, the interpreter on the loop and the foam service | `campod.py` 41-325, `interpreter.py` 53-251, `service.py` 20-50 |
| `FrameStore` | frames on disk, digest and sweep | `blobstore.py` 16-40, `digest.py` 46-166, `retain.py` 42-142 |
| `Publishing` | over `FrameStore`: the publisher and the archive job | `publish.py` 30-196, `bfp_publish.py` 79-219 |
| `*Proofs` | theorems about the module they are named after (`EvidenceStoreProofs` also about `Feeds`, `AnalyzerProofs` about `BrokerLink`, `Pimod` and `MqttShim`, `JudgementProofs` about `Detections` and `Vision`) | |
| `MC*` | instances for TLC; `BrokerLink`, `Vision` and `Publishing` need none, their .cfg gives all | |

### EvidenceStore

`append()` is seven actions per thread, at the points where another thread or a crash can
fall in: `Build`, `Acquire`, `Insert`, `Commit`, `Update`, `CommitNumber`, `Publish` (the
tip is remembered, the queues are offered the envelope, the lock released). `Refuse` is a
statement that raises, any of the four: what is open is rolled back and the lock given back,
and when it is one of the second transaction, the row is in the table without its number,
the tip stays the one before it and the next row extends that. `Extends` says which rows a
row may extend because of this. A hash is the sequence of the payloads it covers, which is
what a collision-free hash chain is. `rows` is what is committed; `staged` is the open
transaction, which a crash forgets. `Restart` is death at any step followed by `__init__`.
`next` and `overflowed` in a feed observe it and are not state of the code.

### CommandLife

Link k is the k-th connection. `up[k]` and `down[k]` are its bytes, `alive[k]`
whether it still carries any; `LinkDrops` truncates both. Each end notices a dead
link after it has read what was left, and writes to a dead link may pass
silently or raise. `gate` is where a submitting thread is, `trail` is the
evidence about a command. The agent's `execute` tasks (`task`) outlive
connections and send through `writer` or into `ring`, exactly as `send()` does;
the flush after ROLE_OK, including the path on which writing to `None` kills the
process, is in `AgentAdopted`.

`CommandPromise` says what a submitter may see: a command is undelivered, or
answered at most once by the module and given up at most once by the hub.
`KeepsThePromise` is that `CommandLife` implements it, with `life` computed from
the result envelopes.

### Adoption

Sessions are numbered as they are opened, so two sessions of one unit can coexist while
`sessions[u]` holds one. `profile` is chosen once per unit: an allowed type, a stranger with
a serial, a stranger without one, or another protocol version. The release call is
`ReleaseCalled`, the lookup in the HTTP thread, and then three steps of `release()` on the
loop, in the order of the code: `Trusts` (the memory), `Saves` or `SaveFails` (the file) and
`LogsRelease` (the log, which the store may refuse). No other task of the loop comes between
them (`LoopFree`), but the hub may die there, and each may be the last. The watchdog is
three steps too (judge, write, log). `pardoned` observes whom a release was ever to trust. A
message in each direction is at most one: more would only delay.

### Approvals

A handler thread is idle, expiring, deciding or dispatching; every dict access
that another thread can fall between is an action. `_expire` runs at the start of
every look and decision, over a list it made first; a `pop` of a record that is
gone raises and ends the request.

### MqttShim

`runAt` is where the coroutine `_run` is, `hubWriter` whether it has a writer, `pending`,
`acked` and `last` are the fields of the pending table, and an `_action_status` task that
waits in `_ack`'s `drain()` is in `suspended`: other handlers, and the timer, run before
`Continue`. `Send` drops what is sent without a connection (the shim has no ring) and loses
what is written to a dead one. MQTT is QoS 0, so `Publish` and `Deliver` may lose a message,
and a publish that fails may have been written: `drain()` raises after the write, and then
the unit hears a command that the session's end gives up. A publish that fails does so
before the unit answers; the other order needs a `drain()` still waiting when the answer is
read, which asyncio does only over 64 KiB of unsent bytes and until fewer than 16 KiB are
left, so that the command has left and that much of other units' commands stands behind it.
That is not modelled.

The hub is one session of `CommandLife` with one link at a time, and
`KeepsThePromise` refines the same `CommandPromise`: behind the shim a legacy unit
promises a submitter what a native module does.

### Detections

The engine's thread is `Drain` (one envelope of its subscription), `Evaluate` (the
queue is empty: whom the pass is about is fixed), one `Judge` per module, and
`PassOver`. `_transition` is split where the code is: the alarm changes on the
board in the handler, the alert is appended by `Write`, which the store may
refuse (`Refused`: the pass is given up; `Report`: the error is logged, and when
that raises too the thread ends). `ack` is look, mark and log in another thread.
One rule is chosen at the start, since rules share nothing; a reading is where it
lies among the thresholds; `old`, `ripe` say that a window or a debounce has
elapsed.

### Feeds

A reader takes no lock and shares the one database connection: `Visible` is the table
with the open transaction of another thread. The SSE handler is `Connect` (subscribe,
`Last-Event-ID`), `Replay` (one query), a write per row, then a write per queued
envelope; the client remembers the last id. An export is `Begins`, a `Page` at a time,
`Served`. `KeyError` is what a row without `sequence` does to whoever asks for it.

### BrokerLink

`run` is where the coroutine is; `conn` says what the connection is and not what the
client believes, which is `connected`. A tick is 0.3 keepalive, so a ping goes after 2 of
them and the reader gives up after 5. `Connack` sets `connected` before the
subscriptions are copied, in one step of the loop, and `Resubscribe` sends them one by
one while other tasks may `Subscribe`.

### Timelines and Pimod

The event tables are the ones of the code, and `FitPairs` and `SamplePairs` are the
captures `interpret.py` and `interpret_full.py` look up by name. In `Pimod` every command
is a task that is suspended at each `send()`: other tasks, the loop `run()` and lines of
the plant come between. `Says` drops a message without a writer, loses it on a link that
is cut, or raises (`Raises`) into whatever called it, which is how `busy` may stay set.
`MaySet` is the latch. A capture is its name: an ADC that does not answer gives `vin` None
(`hw.py` 170-180) and the run still succeeds with it (`pimod.py` 292, 304), so a success
says that every capture was made in its order, not that every one has a value.

### Desk

`seen` is what the hub last heard of a module, `dev` what the module is. A tick of the
scheduler is `Tick` (what it remembers is cut to who is present), a `Visits` per module
and `Schedules` (the submission, after which `pending` is set); callers are `Calls`,
`Submits`, `Cancels`. `Remembers` writes the idempotency cache after the command was made,
which is what two overlapping calls fall between. A submission may raise (`SubmitRaises`,
`ScheduleRaises`): before it stored anything, or after, when the number, the deferral or the
"module gone" of a stored command is refused or its dispatch takes 5 s; then the key is not
remembered, the scheduler was not `told`, and the command runs on or is `stuck`, which is
one that nothing ends. `PassFails` is a refused query or append of the pass itself.
`HubRestart` forgets keys, approvals, sessions and the scheduler's memory. `made`, `excused`
and `missed` observe. That the scheduler's own error report (`scheduler.py` 61) raises as
well, which ends its thread, is not modelled.

### Vision

`shot[n]` is the view frame n was taken in. `mv` is the `ModuleVision` of the camera,
which the loop changes in `HandleResult` and reads in `HandleFrame` and the foam service
reads field by field: `Measure` (region), `Flag` (requirement), `Name` (baseline).
`StoreSeed` is the assignment in `VisionState.get`, which another thread's may precede.
`campod` sends frames and results in the order of its ring, and `taking` is a capture
suspended in its PROGRESS.

### FrameStore and Publishing

Frames are numbered by time; slots, key slots and days are runs of ticks. The sweep is
`PlanSweep` and a `Remove` per file, in any order and cut short by `SweepDies`. The
publisher is `Collect` and `Answered` or `Fails`, which may be a request the plane did
handle. The archive job is `Start` (select), per frame `Upload`, `CreateItem`, `Save`, and
`JobDies` between any two, which may leave `state.json` torn. `Start` selects, adds the slots
of the picks to the ones seen and cuts them to the last `KeptSlots` (14 in the code), sorted
as text, *before* anything is published; `Save` and `Finish` write what the cut left. A slot
is a `DaySlot`, since keys bear their day. `forgotten` observes the slots that a job which died
had published and cut with rows of them still to come. A post that is out when the hub
restarts may still arrive.

## 3. Runs

| run | expects | shows |
|---|---|---|
| `evidence_store` | pass | with any statement refused: every row extends the last one published, immutability, durable gap-free feed through SSE replay, honest bundles, lock always released |
| `command_life` | pass | two commands: refinement of `CommandPromise`; nothing forgotten; no verdict twice; a command ends unless the hub restarts |
| `adoption` | pass | mute until trusted; what the log calls released is in the file, wherever a release fails; custody of sessions; recognition on sight |
| `approvals` | pass | authority, each decision acts once, expiry once |
| `mqtt_shim` | pass | the shim refines `CommandPromise`; nothing accepted is refused; no repeated progress; no command in flight is forgotten; none is open that nobody waits for; it ends unless accepted; a silent unit leaves |
| `broker_link` | pass | every filter heard on every connection; healthy connections kept; dead ones replaced |
| `detections` | pass | board and evidence agree; hysteresis and debounce; acknowledgements; stale modules raised, and cleared after a swap |
| `pimod` | pass | one authority over the pumps; one timeline at a time; a success has every capture its interpretation needs; verdicts on a connection that holds |
| `desk` | pass | one scheduled command at a time, none uncalibrated; a retry creates a second command only when the answer could not be known; the cadence resumes |
| `vision` | pass | the reference scene is the one in force; known moves hold frames back; every frame is judged once, and is judged |
| `publishing` | pass | slots and digests keep their frames; the plane shows the frame it names; a slot is twice in the archive only where a job died after the cut; the newest frame gets out |
| `vision_stale` | violation | a queued frame of the old view is good against the new scene |

The violation is a disagreement between the code and its docstring; `PROJECT.json`
"findings" quotes both sides.

### Known departures

More statements of the documents do not hold. Those the models state as definitions
have a configuration each that TLC refutes (`tlc -config X.cfg M`):

| configuration, module | refuted | what happens |
|---|---|---|
| `CommandLifeTwoResults`, `MCCommandLife` | `AtMostOneResult`: "one result per command, always" (`commands.py` 4-6) | the link is lost mid-command and the session appends a module-lost result; the module's buffered RESULT is a second one (`southbound.py` 167) |
| `AdoptionReleased`, `MCAdoption` | `ReleasedGetsIn`: a released unit "reconnects, and is adopted" (`southbound.py` 17-19) | `release()` runs on the session of before a redial (`api.py` 268); the new one stays in quarantine |
| `ApprovalsTwice`, `MCApprovals` | `OneOutcome` (`docs/architecture.md` 284-286) | two requests look a record up before either removes it (`authority/__init__.py` 87-101) |
| `DetectionsSuppressed`, `MCDetections` | `SuppressionHolds`: "rule evaluation holds while the module is in declared process states" (`docs/detections.md` 127) | the promotion of a pending breach does not ask (`engine.py` 281) |
| `DetectionsStranded`, `MCDetections` | `NothingStranded`: "a swap cannot strand a stale alarm" (`docs/detections.md` 176) | a module that never produced and is gone is judged no more (`engine.py` 290) |
| `WindowVerifies`, `MCEvidenceStore` | `WindowVerifies`: "a pure time/sequence window is a contiguous slice of the chain" (`bundles.py` 15-16) | telemetry carries the module's clock, so a window by time leaves rows out of the middle (`bundles.py` 43) |
| `PimodBusy`, `MCPimod` | `BusyIsRunning`: method timing must "survive hub loss" (`docs/architecture.md` 193) | the ACK of a method raises on a cut link before the `try` that frees `busy` (`pimod.py` 246-253): the analyzer declines every method until it restarts |
| `DeskStalls`, `MCDesk` | `AlwaysResumes`: "the moment a module is adopted into a role, the role's cadence resumes" (`scheduler.py` 1-4) | a module that left and came back between two ticks is still in `_control_requested` and stays in BRIDGE (`scheduler.py` 68-72) |
| `ChainForks`, `MCEvidenceStore` | `OneChain`: "append-only, hash-chained" (`evidence.py` 3) | the second transaction of a row is refused, `_prev_hash` is not assigned (`evidence.py` 87-90) and the next row extends the row before it: two rows with one predecessor |
| `AdoptionUnlogged`, `MCAdoption` | `AdmittedIsLogged`: "release is one logged call" (`southbound.py` 17) | the serial is trusted before it is saved and logged (`config.py` 99-105, `southbound.py` 201-205); when one of these fails the unit is adopted and no release is in the log |
| `DeskRetries`, `MCDesk` | `NeverTwice`: "a retried command cannot run twice" (`docs/agent-interface.md` 53, 87) | a call that raises after it stored its command does not reach `_idem[key] =` (`commands.py` 110-113, 161, 178), a restart forgets `_idem` (98), and two calls overlap |
| `SlotsTwice`, `Publishing` | `OneKeyFrame`: only the first frame of a key slot (`bfp_publish.py` 13) | with a backlog the cut drops slots that the job then publishes (`bfp_publish.py` 112-115); when it dies before its end, the next run has rows of them and does not know them |
| `SlotsArePublished`, `Publishing` | `SlotsArePublished`: `bfp_publish.py` 14-18 | the key slots of all picks are saved with the first one; after a failure the rest is never picked again (`bfp_publish.py` 206-207) |

Departures that the properties excuse by name, or that the models only show:

* `append` commits a row before it writes the row's sequence into the stored body
  (`evidence.py` 85-89); a crash or a refusal in between leaves a body without `sequence`,
  which is a row whose `sequence` stays 0, is never offered to a subscriber, and is a
  KeyError in every SSE client and export that reaches it (`api.py` 365, `bundles.py` 56).
* `query` shares the writer's connection, so a reader may see a row that is rolled back.
* A command that is stored when the hub restarts, and not yet dispatched, never gets
  a result (`commands.py` 161-169): `EndsUnlessRestarted` excuses it.
* The end of a session that was overtaken by its module's redial logs "removed" and
  empties the map entry of the new session (`southbound.py` 158-159).
* The RESULT of a command that a legacy unit accepted is dropped by the shim when the
  hub is down at that moment, and the command stays open: `EndsUnlessAccepted`
  excuses it.
* One idempotency key makes a second command after its eviction, after a restart of the
  hub, after a call that raised when it had stored its command, and in two overlapping calls
  (`commands.py` 98-116): `RetryIsSafe` allows one for each of these and no other.
* `cancel` sends an abort that stops whatever timeline runs, also another command's
  (`commands.py` 213-237, `pimod.py` 216-222).
* A submission that raises inside a tick leaves `_pending` unset, so the scheduler asks again
  beside a command of its own that is open (`scheduler.py` 57-63): `Disciplined` speaks of
  the commands it was told of. A request for control that raises is never made again
  (68-72): `missed` excuses it.
* `docs/vision-profile.md` (section 11) and `blobstore.py` 10-12 say that reference images and
  event frames are kept; `retain.py` keeps neither. `RetentionKeeps` says what it does keep.
* A replay of more than 500 rows skips what follows; `?since=` overrides
  `Last-Event-ID` when an EventSource reconnects (`api.py` 340, 348).
* A callback that raises ends the MQTT client's `run()`, which only catches connection
  errors (`mqtt_min.py` 170-182): `ComesBack` excuses it.
* An early TELEM of a camera between HELLO and ROLE_OK fails its adoption; a message
  before `role` is set raises in `campod.py` 289-290.
* A restart of the hub forgets baselines, set regions and requirements
  (`interpreter.py` 84-92); a dose reading ignores `re_baseline_required`; a frame whose
  session is gone has no role and is judged by foam CV (`interpreter.py` 205-213).
* Two threads that find no `ModuleVision` each store one; the later seed wins
  (`interpreter.py` 87-92): `forgot` excuses it.
* The publisher reads a dose "class" that the interpreter never writes
  (`publish.py` 96), and a frame whose bytes are gone is remembered as sent (177):
  `blind` excuses it. Review frames are never selected, since no row carries "models";
  `state.json` is not written atomically.
* An approval expires only when some request looks, and is gone after a restart: the
  command under approval may never end (`authority/__init__.py` 123).
* After a restart the engine's board is empty, whatever the log's last word on an alert
  (`engine.py` 87).

### Bounds, and why they are enough

* `evidence_store`: 2 writers, because the lock admits one and the other is
  whoever falls in between; 3 envelopes, so that a chain has a middle row, a queue of 2
  overflows, a replay of 2 is cut short and an export takes three pages of 1; one SSE
  client that comes back as often as it likes; a clock that is behind. Crashes and refusals,
  of any statement, are unbounded.
* `command_life`: 2 commands (one busy, one declined; the second may turn out to
  be an abort), 2 connections, a ring of 2 (4 messages can be waiting, so it
  overflows), one restart of each end. Only one unread message of telemetry is allowed
  per link, at its head, where it can displace ROLE_OK.
* `adoption`: one unit (units share nothing but disjoint map entries, which the
  proofs cover for any number), 3 connections (an old one, its overlapping
  successor and one more), one loss, one restart, two release calls (one that fails and one
  that is made again). `RecognizedOnSight` and
  `ReleasedGetsIn` excuse the last dial the bound allows.
* `approvals`: 1 command (approvals share nothing), 2 threads (every race of the code is
  between two; the theorem covers any number), 3 actors of two classes, all 16 pairs of risk
  and ingress, one logged refusal, one restart.
* `mqtt_shim`: one command (the pending entries of two share only the unit's
  busy flag, which a refusal without cause stands for), two steps of progress (the
  second can overtake the first), two statuses under way, two connections and one
  restart of the hub; the timer, the unit's power and the broker may fail at any
  time. Repeated progress is ruled out on the first connection only: a lost step may
  sit between two equal ones.
* `broker_link`: two filters (one before, one during the greeting), three faults (a
  connection that breaks, a dial that fails, and one more). The theorems cover any.
* `detections`: one module under every type of rule, with and without debounce and
  suppression, and two under stale_data, whose role changes hands; a streak of 2;
  one envelope waiting (more would delay), one request, one refused append. The log
  keeps the last two alerts of a module, which is what alternation is about.
* `pimod`: three commands, one that takes control, one method and one that comes between
  (a second method, an abort, the way back, an unknown type), every analyte with its whole
  table, one lost connection or restart.
* `desk`: one module of the role (the scheduler's passes over two share nothing), two
  callers with one key, two commands remembered at a time, two calls, and one fault: a call
  that raises, a restart of the module or a restart of the hub. The theorems cover any.
* `vision`: two frames (one waits while the other is judged), one move, the configured
  region, none and a new one, a ring of 2 and a queue of 1 so that both overflow, one lost
  connection, one restart. `vision_stale` needs a queue of 2 and none of the accidents.
* `publishing`: three frames of one look in up to three slots, key slots and days of two ticks,
  five ticks, so that a frame passes every age; one key kept, so that two slots are a backlog
  to cut; one failure at any step. What a look decides, in the digest only, is checked with
  two frames of three looks by one more configuration, `PublishingLooks.cfg` (it passes).

`CHECK_DEADLOCK FALSE` is set where the bounds let the system stop: no dials, no
commands or no envelopes left.

### Fairness

Weak fairness on what a running thread or task does next when nothing keeps it waiting: the
steps of `append()` (`put_nowait` never blocks), a submitting thread, a session's reads and
end of file, the agent's tasks, a release coroutine already on the loop, which may fail at
its steps but not stay there. `GivesUp` is fair only when there is a message or an end of
file to read; its 10 s timer may or may not fire first. Nothing is assumed of operators, of
the network (losses, dials), of restarts, of the watchdog's judgement or of consumers. That
the end of a dead link reaches the hub is assumed: the code has no idle timeout, so a module
that loses power without a FIN is noticed only when TCP gives up.

In `MqttShim` what is ready on either event loop runs and the acknowledgement timer
fires; the unit and the broker owe nothing. In `BrokerLink` the loop runs, a broker that
is there answers, and a dial in the end succeeds. In `Feeds` only the appending threads
are fair; in `Pimod` only the command tasks. In `Desk` the hub's threads run, time passes,
and a module that stays reports, executes and finishes, in the end with a fit; no call
need raise. In
`Vision` only the foam service's thread is fair, in `Publishing` only the publisher's, and
its request ends. In `Detections` the engine's thread
runs, and reaches the end of its queue again and again (strong fairness of
`Evaluate`): `_drain` empties the queue faster than modules fill it. The sessions, the
readings and the operators owe nothing.

## 4. Proofs

The eight proof modules prove their theorems for every value of the constants allowed
by the named assumptions.

**EvidenceStore** (assuming `StoreAssumption`). That every row extends the last one
published is not inductive alone: it rests on who knows the tip. The inductive invariant is
`TypeOK /\ Custody`: only the lock's holder is past `Acquire`; a staged row extends `prevHash`;
and `prevHash` is a hash that the next row may extend, which is the tip of the table but for
rows at its end that were committed and have no number, because a statement of their second
transaction was refused. `CustodyStep` has a case per action. On top: `ChainIntact` (a row that
extends a tip of this kind keeps the table `Chained`, numbering a row leaves it alone) and with
it `EvidenceIsSound`, `EvidenceIsImmutable` as an action property, and `FanOutIsDurable` (the
envelope offered is the row just numbered, and no step takes a row back). Nothing is assumed
of the store: that the chain may fork behind a row without a number is what `Chained` allows,
and that it forks nowhere else is what is proved.

**Feeds** (in `EvidenceStoreProofs`, assuming also `FeedsAssumption`). `ReadersOnlyRead`
shows that a step of the readers is a step of the store or none, so everything above holds.
The added invariant is `Positions /\ Following /\ Exporting`: every row stands at the place
its number tells, or has none (`Positions`); every queue ends right before the first number
that `append()` has still to offer (`Follows`, with `Unoffered`, which is the last row from
its COMMIT to its fan-out and one more otherwise); what the SSE client has had, its replay
and its queue reach from the first event to there (`Tracks`); and an export is a `Slice` of
rows that are in the table. What a query returns is a lemma of its own (`QueryReturns`):
rows in their order and, with no latest time, without a gap, from the cardinalities in
`InOrder` and `FirstOf` (`RankIsTaken` counts ranks with an injection into as many numbers).
That the last row of a page has a number is why all rows of the page are committed.
`SseResumes` and `BundlesAreHonest` follow.

**CommandLife** (assuming `CommandAssumption`). The argument follows a token per command:
it is at the gateway, then a CMD on one link, a task of the agent, a verdict in the ring or
on one link, and last a result in the evidence, or lost. `OnePlace` says that it is in one
of these places, `Gate` what there can be of a command at every stage of `submit()`,
`Waiting` what the sessions still owe (a command that was sent and has no result is in
flight on one session, unless the hub restarted), `Verdicts` that no kind of result comes
twice; `Talk` and `Sessions` are what they rest on. Messages are lost by prefixes, written,
read and flushed, and `FewerTalk`, `SentUp`, `SentDown`, `Flushing` say once what that does
to all places. `TokenInvariant` is the induction; `HubAndModuleAgree` and the refinement
`PromiseKept` follow, the latter from `Tale`, which is `Life` told from what the evidence
holds instead of from the order it came in, and `Promised`, in which every step of the
system is a step of `CommandPromise` or leaves its state alone.

**Adoption** (assuming `AdoptionAssumption`). The inductive invariant is `TypeOK /\
Custody`: exactly the opened sessions exist and belong to a unit; a session past
VERIFYING belongs to an accepted unit; what a release call or the quarantine map
points at was quarantined or has ended, and how far a release got tells what it has
written; what the watchdog judged was in service; the file holds nothing the memory does not,
nor the memory anything nobody was to trust. The second to last part is why a
stale watchdog write or a stale release cannot bring an untrusted unit into
service. `AcceptedStays` shows that no step un-accepts a unit, so that each action
of `CustodyStep` answers only for the sessions it touches. From it:
`UntrustedIsMute` and `DispatchFindsALiveSession`. `ReleaseIsNeverForgotten` needs an argument
of its own: a release comes to its log only past a save that succeeded, and no step takes a
serial out of the file or lets the memory fall behind it, a restart included.

**Detections** (assuming `DetectionsAssumption`). Every handler raises an alarm that
was not active, clears one that was, or leaves alone what the board shows of it:
that is `Transition`, with a lemma per handler. From it and `TypeOK` follow
`BoardAndLogAgree`, whose inductive invariant adds that the kept log has at most two
words and speaks of the word being written as if it were logged, and
`AcknowledgementsAreAudited`. `HysteresisHolds` is inductive as it stands and looks
into `OnThreshold` and `Promote`. `BoardAndLogAgree` assumes that the store refuses
nothing, as its property does; `DetectionsAreSound` joins it with the types.

**BrokerLink** (assuming `BrokerLinkAssumption`). `HearsAll` is not inductive: that a
filter asked for during the greeting is heard rests on who still owes it (`Telling`: what
is subscribed and not owed is heard), and that a healthy connection is never given up on
how old the last packet can be when a ping is due (`Pinged`: it is no older than the last
ping, and an unanswered one stops the clock). `Starting` says that nothing of the old
connection is left when the next one begins, which `LostKeeps` shows once for the four
actions that close one. `EveryFilterIsHeard` and the action property
`HealthyConnectionsAreKept` follow.

**Approvals** (assuming `AuthorityAssumption` and `ApprovalsAssumption`). That a dispatch
was authorized rests on what every thread carries between two of its steps: `Handling`
says, for each step, that what the thread is about to do was borne out by the matrix or
by a grant already in the log; nothing is written about a command nobody asked for
(`Unwritten`), and what pends was let through by its path. `RecordingStep` shows once for all
handlers that appending to the evidence keeps what was warranted (`Onward`), `OthersKeep`
that a step of one thread leaves the others' warrants alone. `AllowedRunsAlone` ties
`decide()` to the reference definition `RunsAlone`. `ApprovalCannotLaunder` follows.

That every end of an approval comes once (`EveryEndComesOnce`) is an induction of its own on
top of it, over `Once`: while a command pends, nothing was decided about it and no thread
acts on a decision (`Open`); a thread that is about to put it up is the only one to know of
it (`PutUp`); and what is in the log, together with the threads that are about to write
there, never exceeds the decisions that caused it (`Spent`, with cardinalities of the sets of
threads and entries). Two threads may both decide one approval, since the `pop` of a decision
takes a record that is gone in silence (`authority/__init__.py` 101); what makes the counts
come out is that each logs a decision of its own before it acts on it. The `pop` of `_expire`
raises (127), so for one thread only: an approval expires once.

**Pimod** (assuming `PimodAssumption`). The invariant is `OneTimeline` (a running timeline
is the one `busy` stands for, and the mode is ENDPOINT) with `Latch` (ENDPOINT and the
latch are the same thing, and the pumps were last driven by the hub in ENDPOINT only).
`TimelinesExclude` and the action property `PumpsObeyOne` follow; for the second, a step
that goes on to the next event has looked at the abort flag (`AbortHolds`).

What is reported as succeeded needs the event tables as well, in `Whole`: the captures a
running timeline holds are the lights its table has up to `pos` (`Follows`, counted by
`Taken`), and an answer that says succeeded was sent with all of them (`Told`). That the
lights of a table are the pairs its interpretation needs, each before its partner and none
over, is `Covers`, shown table by table (`TimelinesCover`), since the tables are data and
not parameters. `AgentInvariant` and `SuccessIsComplete` follow.

**Vision** (assuming `VisionAssumption`, whose `MaxRegions > 0` says only that the region
of the role config is one). `Line`: only an adopted connection carries anything, the ring
is out by then, and what is under way is in order (`Underway`): neither a move nor a
reference comes behind a move it was made before, nor behind one the hub has heard of.
`Single`: a frame is claimed by one thing only, the capture that waits, a message on the
connection or in the ring, a place in the queue, FoamService or a reading. `Handled`: what
the hub holds is as current as what it heard, and a verdict FoamService has reached stays
good, since a re-baseline it meets on its way is never older. That messages are written,
kept in the ring, cut, flushed and read does to all three what `UnderwayConcat`,
`UnderwaySuffix`, `ClaimedConcat`, `ClaimedHead` say once; the camera's actions go through
`CameraSays`, the loop's through `LoopKeeps`, the service's through `FoamWorks` and
`FoamReads`. `ReferenceAndReadings` and the action property `HeldUntilReBaselined` follow.
Both keep the exception the properties name: a seed stored over the loop's work (`forgot`).

**Desk** (assuming `DeskAssumption`). That the scheduler has one open command at a module
is inductive once said of what it remembers (`Own`: whatever it has open and was told of is
what `pending` holds, at a module that is there, and it asks only where `pending` is empty).
`Keyed` counts for every key: at most one command more than there are excuses, and none more
while the answer is not remembered or a call that found nobody else asking is about to
store, of which there is one at a time. An eviction, a restart, a call that raises and one
that overlaps each add an excuse for the command they let in. A lemma per action;
`SchedulerIsDisciplined` and `RetriesAreSafe` follow.

**Publishing** (assuming `FrameStoreAssumption` and `PublishingAssumption`). The retention
promise must hold of what a sweep has *planned*, since it may be killed anywhere: `Spared`
and `KeptSpared` speak of `disk \ doomed`. `PlanSpares` is the argument: of the frames of a
young slot none is of the oldest class; one that a manifest names is spared; else the
earliest of the thinned class, or of the class kept whole when all are in it, is the first
of its slot, for the valve as well. `Least` takes the earliest from the library's
well-foundedness of `<`, `Floor` is the bound on a division it needs. `RetentionIsSafe`
follows.

What the plane shows and what the archive holds (`PlaneAndArchiveAreSound`) is an induction
over `Pushing` (the picture the publisher believes the plane to hold it does hold, and a post
that goes without bytes names it) and `Archiving` (a frame picked, or archived ahead of
the last row saved, would be picked again; a document passed by has its slot in `state.json`, or
no row of that slot is to come, or the job that cut it still runs), for a job that may die
between any two steps.
The cut is where it could go wrong: `CutIsBehind` shows that a slot it drops is of an earlier
day than the last row, since a whole day's slots are kept (`PublishingAssumption`, 12 of the 14
in the code), so a job that ends never reads a row of it again, and only one that dies after
the cut does. What it leaves behind then is `forgotten`, and no slot outside of it is ever
published twice.
`DigestIsSmall` bounds a digest by its cap, counting the picked frames by their ranks.

**MqttShim** (in `AnalyzerProofs`, assuming `ShimAssumption`). The argument is again a token
per command, with one process more: `Placed` says that a command is on its way down,
pending, a verdict on the link or a verdict in the evidence, and which of these exclude each
other; `EndsOnce` that the unit's last word on it is still to be said, under way to the shim
or waiting in `drain()`, in one of these places only, which matters because a status that
waited is translated without another look at the pending table (`mqtt_shim.py` 466-479);
`Acknowledged` that an ACK and a NACK about it, on the link or in the evidence, tell which
way `acked` went. `Custody` is the three together. That progress is not repeated needs the
order of what is on the link: `InLine` (neighbours differ, and the first differs from what
was shown last) and `Latest` (the last one is `p["last_progress"]`), while a lost step
excuses a second link. `Somewhere` and `Waited` are what the hub holds in flight, `Counting`
that a step of the unit counts from 1, `Linked` what a link that is down leaves. Every
action takes from one queue and adds to another, so the sequences are dealt with once,
without induction: what shortening, taking off, adding to and concatenating do to "is in
it", "is in it at most once" and "stands in line" (`ThinByShift`, `TakenOff`, `Grown`,
`Chained`). Then a lemma per action and part of the invariant; `ShimTokenInvariant` is the
induction, `ShimAndHubAgree` follows. `ShimKeepsThePromise` is the refinement, by `Tale`,
which tells `Life` from what the evidence holds, and one step of `CommandPromise`, or none,
per step.

**Only model-checked**: the liveness properties (`LockIsReleased`, `EndsUnlessRestarted`,
`RecognizedOnSight`, `EndsUnlessAccepted`, `SilentUnitLeaves`, `ComesBack`, `StaleIsRaised`,
`ProducerIsCleared`, `EndsUnlessCut`, `CadenceResumes`, `QueuedFramesAreJudged`,
`PlaneCatchesUp`), which need ENABLED and are out of the prover's reach. Every safety
property of the runs has its theorem, except those a run expects to be violated.

## 5. Not modelled

PROGRESS and telemetry as evidence (they change no protocol state); flow control (a
`drain()` that waits, and in `CommandLife` the 5 s limit on the dispatch future, which
`Desk` lets a submission raise by); role and slot names; the wording of envelopes; a dict
that changes while `_expire` lists it (RuntimeError, the request fails), or while the engine
lists the sessions (the pass is given up, reported and made again a tick later); the NE107
roll-up; the engine's board after a restart of the hub, which starts empty whatever the log
says; the shim's quarantine, its clock skew and the payloads it normalises; MQTT's framing,
and a publish of the shim that waits in `drain()` while its command is already answered
(section 2 says when that can be); the serial framing of the analyzer and its telemetry
ring; `edge.py`, `set_cadence` and `set_exposure`; `blobstore.sweep`, which nothing calls;
the review frames of the archive job; `validate_params` beyond its verdict; the floating
point of interpretation and vision; SQLite itself, whose commits are taken to be durable and
whose refused transactions are rolled back.

## 6. Plan

The modules of section 2 and the proofs of section 4 are complete as planned. Left open is a
model of flow control, a dispatch that waits longer than the 5 s its caller does
(`commands.py` 178): a variant of `CommandLife` in which `down` is bounded.
