# A verification project for the face-attendance system

The repository holds an attendance system: ESP32-S3 kiosks that recognise faces and open doors, an MQTT broker, a NestJS
backend that keeps people, punches, leave and pay, and a web dashboard. This directory holds TLA+ models of the parts
where its correctness rests on order: power cuts at the kiosk, messages lost, late or repeated between kiosk and backend,
and handlers of the backend that overlap. TLC checks the models on small instances. TLAPS proves the safety properties
for every value of the constants: of the flash and its ids, the link, the door, the clock, the captures, the faces, the day,
pay and leave, updates, commands and tickets, and the browser's outbox. What it does not prove is listed in section 4.

`KEHOACH` below is `src/docs/KE_HOACH_face_attendance_esp32s3.md`, the project's plan and reference.

## 1. Inventory

### Kiosk (C and C++, `src/firmware`)

| Component | State it keeps | Operations | Hard behaviour | What makes it correct |
|---|---|---|---|---|
| `sys_storage` | NVS keys; files on LittleFS replaced in two phases; the rotating log `attend.NNN`, `cursor.bin`, `boot.bin`; model slots | `write_atomic`, `attend_append/read/cursor_set`, `init`, `lift_boot_count`, `models_*` | power cuts and failures inside a call, an append torn in the middle, a record whose bytes flash lost, NVS erased | a reader never gets an older file than the writer was told of; no acknowledged record is lost; ids do not repeat; a trial of a model leaves one that works |
| `svc_attendance` | `s_seq`, the last arrivals, grant and deny state | one result of recognition in, a door opening and a record out | the door opens before the record is down; result, timer and departure of a face interleave | a punch has an id of its own; the door opens at most once for an arrival |
| `svc_sync` (uplink) | what it holds of the log head | `drain`: read, place in time, encode, send, move the cursor | an ack that never comes, a cursor that will not write, a record that will never encode | at-least-once, in order, no record stops the ones behind it |
| `svc_facedb` | face table in RAM and on flash, sessions, unreported flags | apply a push, remove, clear, seal and keep a session, report, persist | two locks (`m_facedb_io` before `m_facedb`), four tasks | a capture not reported yet survives; a removed face is gone after a reboot |
| `app_tasks` | roster number, `s_roster_gapped`, pending list, commands, ticket state | `take_roster`, `drain_reports`, `ui_task`, `sync_task`, `ota_task`, `run_command` | a lane with gaps, a session at the glass while a report waits for its ack | equal roster numbers mean equal rosters; nothing captured vanishes |
| `net_mqtt` | client, `up`, `stopping`, `awaited_msg`, `s_acked`, `s_send_lock` | `publish`, events of the client, `start`, `stop` | the stop wakes a sender through the semaphore a PUBACK gives | `ESP_OK` means this message was acknowledged; nothing hangs; the client outlives its sender |
| `net_provision`, `net_ota` | ticket, pending update | register, check, renew; download, trial, sign-off, fall-back | a lost answer, a power cut in the trial | a kiosk never keeps a dead ticket nor drops a live one; some build boots |
| `svc_door`, `drv_servo` | where the arm is, one timer | `open`, `close`, the timer's callback | two callers and the callback meet in a mutex each gives up on after 50 ms | a raised barrier comes down, and not on the person just let in |
| `sys_time` | the clock's source, a marker in RAM and in NVS, the DS3231 behind it | `init`, an SNTP sync, the Date of an answer, the write-back | two tasks set one clock and one chip, a cut or a failed write between the chip and its marker | a punch that is not flagged carries NTP's time |
| `net_wifi`, `svc_vision`, `ui_kiosk`, drivers, board | a link, pixels | reconnect, infer, draw | little that outlasts a call | |

### Backend (TypeScript, `src/backend`)

| Component | State it keeps | Operations | Hard behaviour | What makes it correct |
|---|---|---|---|---|
| `MqttService` | the broker session, one lane for a kiosk | `receive`, `dispatch`, `settle` | an acknowledgement lost, a handler that fails, a restart | a message is acknowledged only when it is done with |
| `AttendanceService` | `AttendanceRecord` | `record`, `decide` | a redelivery, two inserts racing, a late punch whose day is built | one row for a punch; a late punch reaches its day |
| `EnrollmentService`, consent | `DeviceEnrollment`, `FaceTemplate`, roster number of each door, resync runs in memory | assign, revoke, withdraw, erase, `takeSample`, `spread`, `tell`, `resync`, `converge` | handlers overlap at their awaits, messages are lost, a heartbeat is old | every door comes to the roster the server holds; an erased face opens nothing |
| `TimesheetService` and queue | `AttendanceDay`, jobs | nightly, rebuild and range builds, marks, fixes, corrections | a build reads, then writes; approvals and punches come in between | a day says what its facts make of it |
| `LeaveService` | requests, `LeaveBalance` | file, decide, cancel, carry over | two requests on one balance, two years | held, taken and left add up |
| `PayrollService`, advances | periods, runs, payslips | lock, execute, settle, discard | claims that race | a run sees one set of facts; an advance is taken back once |
| `AuthService`, devices, commands, models | sessions, tokens, tickets, commands, releases | renew, redeem, approve, retire, send, answer | retries of what was done, an answer before the send returned | a token is spent once; a command has one outcome |
| the browser's outbox (`src/frontend/lib`) | requests in IndexedDB, the refresh cookie, a token to each tab | press, flush, renew, sign in and out | tabs cross, answers are lost, another person signs in | a request queued reaches the server as its owner's, or its owner is told |
| the rest (org, shifts, documents, disputes, assets, notifications, search, reports) | rows | forms, lists | single guarded statements | |

The kiosk and the backend share nothing but messages. Upwards go punches, capture reports, events and heartbeats; downwards
go roster messages and commands. Punches and reports are QoS 1 and a session of the backend at the broker holds them; the
kiosk's session is clean, so what is sent to a kiosk that is away is lost and only the heartbeat finds out.

`PROJECT.json` lists every component with what is left out of it, and under `hazards` each hazard with its line.

## 2. Modules

```
TwoPhase       outcomes of a two-phase replace          PunchLedger    what is promised of a punch
   |      \                                                 ^ refined by
   |    AttendLog ------------------------------------------+   AttendLog_proofs
ReplacedFile   a replace as one step with such an outcome
   ^ refined by
AtomicFile     a replace call by call                \
Ticket         how a kiosk is let in                  \
Commands       a command to a kiosk                   +-- and MCComponents: Fleet_proofs
ModelTrial     firmware and model packs on trial     /

NetMqtt        the broker link shared by three tasks  \
DoorAccess     a face, the barrier and the punch       +-- and MCKiosk, MCSyncTask: Kiosk_proofs
PunchClock     what a punch's time is worth           /
RosterSync     one door and its roster, over a lossy lane  RosterSync_proofs
Enrolment      one person at several doors                Enrolment_proofs
Timesheet      one person's day                           Timesheet_proofs
Payroll        periods, runs, payslips, advances      \
LeaveBalance   requests on a balance over two years   /   PayAndLeave_proofs
Outbox         a request from the form to the server      and MCOutboxes: Outbox_proofs

MCComponents   one of AtomicFile, Payroll, LeaveBalance, ModelTrial, Commands, Ticket
MCKiosk        one of NetMqtt, DoorAccess, RosterSync (pushes, with fairness)
MCSyncTask     one of RosterSync (pushes), PunchClock (with fairness)
MCOutboxes     one of RosterSync (captures), Outbox
MCEnrolment    Enrolment, and the symmetry of its doors
```

**TwoPhase** is data only. A file that `replace_locked` writes is a register: whole under its own name, whole under `.bak`,
or under neither. `Finished`, `Failed` and `Cut` are the outcomes of a replace that goes through, answers an error, or is
cut by the power.

**AtomicFile** (`sys_storage.c` 407-470, 498-523) runs `replace_locked` one file operation at a time: write the scratch
file, unlink `.bak`, rename the old file aside, rename the scratch file into place, answer. Each may fail and the power may
go between any two. `OutcomesCovered` says that `TwoPhase` lists every outcome, at every moment.

**ReplacedFile** is a replace as one step, `Replaced`, `NotReplaced` or `CutShort`: what `AttendLog` takes it for. A reader that
holds the lock (`load_cursor` reads both names in one hold) meets no replace under way, so `AtomicFile` is mapped to what stood
there when the replace began, until it ends or is cut (`ReplacesInOneStep`).

**AttendLog** is a punch from flash to the row of the server.
- `AppendRecord`, `AppendFails`: `write_record` gives the id `(boot_count, ++s_seq)`; `sys_storage_attend_append` picks the
  active file (`ActiveLog`: a torn tail is truncated or its file passed, a full file is rotated), or has no name left.
- `ReadNext`, `Send`, `Acked`, `GiveUp`, `MoveCursor`: one turn of `UplinkQueue::drain`. The read skips records that fail
  their check; the cursor is a register; `drop_synced_logs` is part of moving it.
- `BootCounts`, `BootFiles`: `sys_storage_init`, above the highest of NVS, `boot.bin` and the last record of each file, NVS
  written first. `Collect`: `keep_ticket` lifts the count before it keeps the ticket.
- `Accept`, `Handle`: the broker's session of the backend, and `AttendanceService.record` as `MqttService.dispatch` runs it.
- `PowerCut` falls between any two steps and inside every replace and append; `Rot` spoils one record; `EraseFlash` is the
  bench erase of KEHOACH 6.2.5.

**PunchLedger** is the abstract specification: a punch comes on the books, leaves them when the backend has kept or refused
it, and only flash losing its bytes takes it off earlier. `AttendLog` implements it (`LedgerSteps`) and, with fairness, pays
every debt (`LedgerPays`).

**RosterSync** is one door. `EnrollmentService` numbers each message it tells the door; `take_roster` applies only the next
number, otherwise marks a gap and waits for a `REPLACE_ALL`; the heartbeat names the number on flash and `converge` replays
the roster when it differs. Server actions are whole transactions with their messages (`Tell`, `Replay`), because one lock
for a door covers both. `Deliver` loses any of them. The kiosk's batch is three steps (`TakeOne` and its siblings,
`EndBatch`, `StoreNumber`), because a power cut between them is the hazard: the face table is saved at the end, the pending
list at every change, the number last. `TakeOne` is what `apply_roster` calls applied or spent: an upsert of `FaceDb::enroll` that meets an
unreported sample in its place (`MaySpare`), one that finds the table full (`NewPlace`, `NoRoom`) and an ask that finds the pending
list full (`Full`) change nothing and the number moves on all the same; whom that happened to stands in the history `spent` and
`lacks`. `TakeFails` is an outcome that holds the number. `OpenSession`, `SealSession`, `LeaveSession` are the capture session of `ui_task`;
`Report`, `Acked`, `NotAcked` are `drain_reports`, split where it waits for the broker.

**PunchClock** is the clock of a kiosk and the punches stamped by it. A time is modelled by where it comes from: NTP, the api, the
chip as it left the bench, or a count since some start. `SntpSets`, `SntpRaises` are lwip and `on_sntp`; `ApiHears`, `ApiSets`,
`ApiRaises` are `sys_time_take_http_date` around its load, `settimeofday` and exchange of the source; either goes on to
`sys_time_write_rtc` and the telling (`SetsTime`, `ClearsStopped`, `Tells`), and any write may fail. `PowersUp` reads the chip,
which may be silent or have stopped. `ReadsSource` and `Stamps` are the two loads of `write_record`; `GivesUp`, `DrainBegins`,
`Sends`, `SendFails`, `DrainEnds` are `clock_may_come` and `UplinkQueue::drain`, with `Place` the function `place`.

**Enrolment** is one person at several doors of one recognition model, and the awaits of the handlers. `TakeSample` is the
transaction of `takeSample`; after it the handler holds no lock, and `SpreadOthers` (read the doors), `SpreadSample` (read
the sample) and `SpreadTell` (one door at a time) are separate steps. `AskAssign` and `Assign` are the two halves of `assign`:
consent is asked for before the transaction. A door obeys when it is told; that it does in the end is RosterSync's business.

**NetMqtt** is `net_mqtt.c` with three tasks. The sender's steps are the statements of `net_mqtt_publish` and `send_locked`
between which another task can run; the esp task's steps are the two halves of `on_connected` and of `on_disconnected`, and
`on_published`; the stopper's are the statements of `net_mqtt_stop`. `s_acked` is one binary semaphore for both uses.

**Timesheet** is one `AttendanceDay`: its punches that count or wait for HR, its jobs, its row, and requests on it. A build is
three steps (`ReadPunches`, `ReadRequests` in either order, `WriteDay`), a decision two (`Approve` marks the row inside the
transaction, `CommitDecision` makes it visible), a correction two (`CorrectRead`, `CorrectWrite`). The queue drops a rebuild
that is already waiting and keeps one that comes while the same is active.

**Payroll** is `PayrollService` and the worker of its queue as one employee meets them: periods, the REGULAR and BONUS runs in
them, the payslip each run holds, and the advances a regular run deducts. Desks press under the period's row lock: `Claim` and
`Execute` are the guarded update and the `queue.add` behind it, `Lock` and `CommitLock` the two halves of the lock. The worker
has no lock: `BeginRegular`, `WriteSlip`, `MarkCarried`, `FinishRegular` and `BeginBonus`, `FinishBonus` are its statements, and
`AttemptFalls`, `Redeliver` and `FailRun` what BullMQ makes of one that breaks off. `finished` keeps the order of `finishedAt` as
places, the newest first, which is all the code compares: a run that finishes takes place 1 and moves the others back.

**LeaveBalance** is `LeaveService` and `LeaveYearService` over one person's balance rows of two years, one READ COMMITTED
transaction a statement at a time. `row` is what a transaction has written and `kept` what is committed; `holder` says whose
lock a row is under; `Keep` and `RollBack` end a transaction. `BeginFiling`, `Ensure`, `CarryOne`, `Hold`, `CreateRequest` are a
submission (a `clientKey` may come twice), `ClaimRequest`, `Settle`, `EndDecision` a decision or a cancellation, `OpenRows`,
`OpenCarry`, `OpenEnds` the year's job, and `CarryInto` the closing that both the job and a filing do.

**ModelTrial** is a kiosk through firmware and model updates. `Booting` is the bootloader's choice, `app_boot.c`'s load, check
and judgement of a pack on trial, and the way back (`Revert`); `OtaTask` stages, marks, names and arms an offer; `SyncTask`
signs off, reports and runs SET_ACTIVE_SLOT. `CutShort` takes the power between any two writes.

**Commands** is a command from its row to the row's answer: `Send`, the client's copies (`Deliver`), `Published` and
`WriteOutcome`, the kiosk's inbox and ring of names (`TakeRepeat`, `TakeCommand`), the restart a REBOOT is, and `OnAnswer`.

**Ticket** is the exchange that lets a kiosk in: `DevicesService.register`, `approve`, `revoke`, `renew` and
`AuthService.admitDevice` as read and write apart (`ReadDevice`, then one action for each way the handler ends), the kiosk's
`net_provision` and `ota_task` (`AskToRegister`, `AskWithTicket`, `Dial`, `HearRegister`, `HearGood`, `TicketDied`), and the
purge of the faces (`TakePurge`, `VersionFollows`). `GiveUp` leaves an exchange to be served after the kiosk stopped waiting.

**DoorAccess** is a face at the kiosk. `Verdict` takes one row of `fsm.cpp`'s table with what `svc_attendance` does at it
(`Apply`); `Arrives` and `Leaves` are the face in front of the camera, `Punch` the record and its stamp. `TakeDoor`, `StopTimer`,
`StartTimer` are `ServoDoor::open` and `close` between the calls that matter, for both callers; `Fires`, `OnTimer`,
`OnTimerAgain` the timer's callback, which waits for `m_door` like they do.

**Outbox** is one browser: tabs that share the cookies and IndexedDB (`cookie`, `mark`, `stored`) and keep a token each
(`page`), the one renewal a tab has under way (`Asking`, `Reopen`, `Rotate`, `GoOn`, `Renewed`, `NotRenewed`: `renew` of `lib/api.ts`
and `AuthService.rotate`), and its call (`Press`, `Serve`, `ServeBreaks`, `Answered`, `TakenForRefusal`, `NoAnswer`, `Drops`). A flush is
`FlushBegins`, one key at a time, `FlushEnds`. `Serve` is `LeaveService.submit` with its `clientKey` as far as a retry can tell;
`ServeBreaks` is a 429 or a 5xx on the way back, whether the row was filed or not; `TakenForRefusal` is what the form and `flush` make
of an answer in which nobody judged, that one or a 401.

**MCComponents**, **MCKiosk**, **MCSyncTask** and **MCOutboxes** put modules that share no variable side by side: a behaviour picks
one and runs it while the others rest in an initial state. Nothing is composed in them; they give the instances their constants.

`outboxHoles`, `ticketHoles`, `payHoles`, `cmdHoles`, `trialHoles`, `doorHoles`, `holes`, `doubt`: a module that found windows the code leaves open
records in a history variable when a behaviour goes through one, each set by the step that opens it and named in section 6 (`doubt` of PunchClock
also ends: the next sync of NTP that nobody crosses mends clock and chip). A property then says that nothing *else* breaks it.

Abstractions shared by all modules: payloads are what the properties tell apart (a record is whole or not, a face is the
number of its session, minutes are the number of punches); logging, audit rows, the realtime feed and statistics are left
out; each bound is a CONSTANT whose comment says so. A definition headed "Faulty form" is a plausible bug of the
definition below it, kept to show that the properties notice.

## 3. Runs

Passing runs. Deadlock is not checked: every model has bounded work and rightly stops when it is used up; that the work
ends well is what `LedgerPays`, `ComesLevel`, `StopEnds` and `DaySettles` say.

| Run | Instance | What it shows |
|---|---|---|
| `log_losses` | 2 files of 1 record, 3 punches, boots up to 3, 1 rotten record, NVS erased at any boot, bench erase | `NothingLost`: a punch the append answered `ESP_OK` for is whole on flash ahead of the cursor, or with the broker, or settled. `BootCountsOn`: a boot count runs again only after both copies were gone. `RepeatsOnlyThroughAHole`: an id repeats only in two situations (section 6). |
| `log_pays` | 2 files of 2 records, 2 punches, boots up to 2, 1 rotten record, writes of count and cursor fail | `OneIdOnePunch` without any exception when NVS is not erased; the refinement of `PunchLedger`; every punch on the books is answered once cuts are over. |
| `sync_task` | roster: 2 people, a pending list of 1 row and a face table of 1 set, 2 operations, 1 heartbeat, from a new door with 2 faults and from one whose people were both captured elsewhere (`crowd`) with 1; clock: 2 punches, 2 starts, fair | Roster: `EqualNumbersEqualRosters`, with nothing on its way equal numbers mean the door holds what the server says, but for an ask its full list and a face its full table refused; `NeverAhead`, no number is spent twice on a door. Clock: `VouchedByNtp`, a punch that is not flagged carries NTP's time, outside `doubt`; `PlacedByItsStart`, a count since a start leaves as a time only by that start's clock; `HeldIsSent`, no punch waits for a clock for ever, nor behind one that does. |
| `outboxes` | kiosk: 1 person, 2 captures, 2 operations, 2 faults, failing pending lists, restored databases; browser: 2 tabs and 2 accounts (symmetric), 1 request, 2 sessions, 1 expiry, 1 trouble | `NoCaptureVanishes`: a sealed capture is at the kiosk or with the broker until it was judged, ordered dropped or replaced. `RequestsAccounted`: a request that waited in a browser is filed as its owner's, refused or given up by its owner, but through three holes (section 6). |
| `enrol_doors` | 3 doors (symmetric), 3 sessions, 5 requests | `NoFaceWithoutConsent`; `DoorsEndAlike` and `NoErasedFaceReturns` when no two handlers overlap and no door is told while its capture is on its way (`holes`). |
| `kiosk_tasks` | link: 3 messages, 1 lost link, 2 clients; door: 2 people, 2 stamps, 3 punches or restarts in a window; roster: 1 person, 2 operations, 2 faults; fair | Link: `OkMeansAcked` except for a write that outlasted a stop (`stuck`); `ClientOutlivesSender`; `StampedOfflineOnceStopped` except for one window (`crossed`); `StopEnds`. Door: `OnePunchAWindow`, `OneOpeningAnArrival`, `BarrierKeepsItsTime`. Roster: `ComesLevel`, the door reaches the server's number and stays there. |
| `day_facts` | 2 punches, all kinds of request, 1 build or correction by hand, 1 crash | `DayFollowsItsFacts`, `MeasureKept`, `DaySettles`, outside the windows recorded in `holes`. |
| `components` | one of six components, see below | Files: `NeverRolledBack`. Pay: an advance comes back once (`ComesBackOnce`), an issued bonus was taxed on the payslips issued (`BonusStandsOnIssued`), one regular payslip a month (`OneSlipAMonth`), a locked period's payslips stay (`IssuedStays`). Leave: `DaysAddUp`, `NeverOverdrawn`. Updates: the slot the next boot reads, or the one a trial would go back to, holds a pack that answers (`APackThatAnswers`), and a rollback is told (`RollbackTold`). Commands: `CommandToldTruly`. Tickets: `StaysLetIn`, `FacesFollowTicket`. |

Instance of `components`: 6 replaces; five pay plans over three periods (a run taken again and carried to the next month, two
bonuses on one run, two runs and a bonus, a move between two legal entities, and the same with a bonus behind it) with three
executions and at most one fault; three
requests in four submissions over two years, 2 days entitled and 1 carried over; two firmwares and three packs, one of which
answers nobody; two commands, one of them a REBOOT, with a ring and an inbox of one; three tickets, two claim codes and one
wrong attempt.

Runs that end in a violation, because the code does something else than its documents say (section 6):

| Run | Property | Counterexample |
|---|---|---|
| `roster_slow_ack` | `NoCaptureVanishes` with `SlowAck` | a second session is sealed while the first's report waits; the ack of the first deletes it |
| `enrol_erased` | `ErasedFaceIsGone` | a door keeps a face erased from the server, with nothing left to tell it |
| `day_refused` | `LatePunchNotLost` | a stored late punch whose rebuild was never queued |
| `outbox_unsigned` | `UnsentStays` | a 401 after a renewal that failed drops the request that waited |

### Bounds, and why they are enough

- Files: a version is compared only with its neighbours and two unfinished replaces are the worst case, so six
  replaces hold every pattern twice. The proof removes the bound.
- Log: one record to a file makes every append rotate and every move of the cursor drop a file; two records put a torn tail,
  a skipped record and a cursor inside a file. Two names reach the full log. Three punches are one acknowledged, one being
  sent, one being appended. Three boots are a count, its loss and the boot after. The proofs remove these bounds for
  `NothingLost`, the counts, the ids and `LedgerSteps`.
- Roster: a person is independent of another but for the pending list and their places in a replay, hence two people and a
  list of one row. A face table of one set is full as soon as one of the two is held, so that every order of push, refusal, drop and
  replay between them is met in `crowd`, where all the faces exist from the start and two operations bring both people to the
  door; in `kiosk_tasks` and `outboxes` nobody was captured before. Two faults suffice for a loss inside the repair of an earlier loss. Five to fourteen numbers are chosen so
  that the number, not the bound, ends a behaviour only after a full replay could follow every operation. `ComesLevel` is
  checked on one person, for the state space's sake: a person with a replay of one message shows the restart of a resync.
- Outbox: a request meets at most its own account and another one, in its own tab and another one; two sessions are theirs, an
  expiry asks for a renewal and one trouble is its loss. `Unhurried` of MCOutboxes keeps who signs in or out waiting for the form
  and the renewal of that tab, `BreaksAlone` lets a 429 or a 5xx come to a flush only, while the other tab is idle (a form it comes to
  ends as a refused one does); the proof is about the specification without it. Symmetry is sound: nothing singles out a tab
  or an account, and the run checks no liveness.
- Three doors are the one that captured, one that is told and one that changes in between. Symmetry of doors is sound: no
  definition singles out a door, and the run checks no liveness.
- Three messages let one be late, one in hand and one follow; two clients are needed for a stop, a start and what is left over.
- Door: two people make a passage A, B, A with a ring of two and a window of three punches, the shortest in which a stamp that
  is overwritten would show. That a ring which has overflowed lets a second punch through is stated but needs a third person;
  the proof covers it.
- Pay: three executions are a run, its second turn and one on top of it; one fault reaches every window recorded, and a second
  would only add another of them.
- Leave: the request over New Year and its redelivery against one in each year is what two rows and their locks can do to
  each other; 2 days entitled make the third request the one that does not fit.
- Updates, commands, tickets: a behaviour is followed to its first hole (ModelTrial to both of its holes), because behind it the
  property claims nothing. Two names with a ring of one overflow it; a third ticket is the one signed while the second is on
  its way and the first still kept.
- Clock: two starts let a stamp of one meet the clock of the next, and a chip written in the first be believed in the second. The
  second punch is there for the log's order, so `SecondWaits` begins it in the first start, behind one that has no clock,
  and has the api set no time and no second start follow it. So a record is behind a held one in every order of drains, syncs of NTP and
  readings, and `HeldIsSent` says of both that they leave. The proof removes every one of these bounds for the two invariants.
- Two punches distinguish a stale read from a fresh one on either side of the day's first build.

### Fairness, and why the code justifies it

- `AttendLog!FairSpec`: FreeRTOS runs ready tasks, so boot, drain and collection are weakly fair. Sending, its ack and the
  write of a cursor are each tried for ever by `sync_task` (a failed drain is tried again at the next poll), so strong
  fairness says only that not all of infinitely many tries fail. Cuts are bounded by `MaxBoots`.
- `MCKiosk`, the roster: `sync_task` loops, heartbeats every 30 s (`GEN_TOPIC_HEARTBEAT_INTERVAL_S`), the lane of the door in
  the backend runs in order. Nothing is assumed of faults except that they end. With `SlowLane = FALSE`, in
  `kiosk_tasks` only, the kiosk sends a heartbeat when no roster message is on its way to it: a lane slower than the
  heartbeat lets a resync be restarted for ever by the beats of a kiosk that is still taking the last one. The runs of
  the safety properties keep `SlowLane = TRUE`.
- `NetMqtt`: a call that began goes on: writes return within esp-mqtt's network timeout, waits are bounded by
  `ack_timeout_ms` and `LOCK_WAIT_MS`. No event of the client and no call of the stopper must happen. `GiveUp`
  is not fair: a stop may always get the lock.
- `MCKiosk` asks NetMqtt's fairness everywhere, since at rest the link has nothing enabled that is fair, and the roster's where the
  roster runs, because a door at rest would still beat. The door's properties are safety.
- `MCSyncTask`, `ClockFairness`: `sync_task` goes round, looks at the time in each round and begins and ends drains; a kiosk with something to
  send comes to ten minutes with its broker (`CLOCK_WAIT_ONLINE_MS`), and not every one of infinitely many sends fails. No clock is
  ever owed to a kiosk: no setter is fair.
- `Timesheet`: the day ends, BullMQ runs what is queued and its stalled job again, a transaction that began ends. Nobody has to
  punch, ask or decide.

## 4. Proofs

| Theorem | Module | States |
|---|---|---|
| `TypeCorrect`, `NoPunchLost` | `AttendLog_proofs` | `TypeOK` and `NothingLost`, for any number of files, records, punches, boots and any choice of faults |
| `CountGoesOn`, `IdsRepeatOnlyThroughHoles` | `AttendLog_proofs` | `BootCountsOn` and `RepeatsOnlyThroughAHole`, for the same, if writes of `boot.bin` go through or NVS and flash are not lost (`CountsStand`) |
| `IdsOnce` | `AttendLog_proofs` | `OneIdOnePunch`, whichever writes of `boot.bin` fail, if NVS and flash are not lost |
| `LogKeepsTheLedger` | `AttendLog_proofs` | the refinement `LedgerSteps`, if nobody erases the flash |
| `LinkTypeCorrect`, `OkIsAcked`, `ClientStays`, `StampedOffline` | `Kiosk_proofs` | the type invariant of the link and its three safety properties of `kiosk_tasks`, for any messages, lost links and clients |
| `DoorTypeCorrect`, `OnePunch`, `OneOpening`, `BarrierTimed` | `Kiosk_proofs` | `DoorTypeOK` and the door's three properties of `kiosk_tasks`, for any people, any ring and any window |
| `ClockTypeCorrect`, `NtpVouched`, `PlacedRight` | `Kiosk_proofs` | `ClockTypeOK` and the clock's two invariants of `sync_task`, for any number of punches and starts |
| `CapturesStay` | `RosterSync_proofs` | `NoCaptureVanishes`, for any staff, pending list and faults, if no session is sealed while a report waits for its ack (`~SlowAck`; `roster_slow_ack` shows what happens then) |
| `RosterTypeCorrect` | `RosterSync_proofs` | `RosterTypeOK`, for any staff, pending list, faults and restores |
| `NumbersHold` | `RosterSync_proofs` | `NeverAhead`, for the same, if no backup is put back (`~Restores`) |
| `EqualRosters` | `RosterSync_proofs` | `EqualNumbersEqualRosters`, for any staff, operations, beats and faults, any size of list and table, under the conditions `sync_task` checks it under (`~Captures`, `~PendingFails`, `~Restores`) |
| `EnrolmentTypeCorrect`, `NoFaceUnconsented`, `DoorsAgree`, `ErasedStaysErased` | `Enrolment_proofs` | `TypeOK` and the three properties of `enrol_doors`, for any finite set of doors, any sessions and requests |
| `DayTypeCorrect`, `DayFollows`, `MeasureStays` | `Timesheet_proofs` | `TypeOK` and both invariants of `day_facts`, for any requests, punches, corrections and faults |
| `LeaveTypeCorrect`, `NobodyOverdraws`, `CarriesOnce`, `DaysAreBooked` | `PayAndLeave_proofs` | `LeaveTypeOK`, `NeverOverdrawn`, `CarriedOnce` alone and `DaysAddUp`, for any requests (not even finitely many), any split over the years, any entitlement and carry-over limit |
| `PayTypeCorrect`, `OneSlip`, `StandsOnIssued`, `BackOnce`, `IssuedKept` | `PayAndLeave_proofs` | `PayTypeOK`, the three invariants of pay in `components` and its action property `IssuedStays`, for any calendar, plans, advances, presses and faults |
| `CommandTypeCorrect`, `ToldTruly` | `Fleet_proofs` | `CommandTypeOK` and `CommandToldTruly`, for any commands, any ring and any inbox |
| `TicketTypeCorrect`, `LetInStays`, `FacesFollow` | `Fleet_proofs` | `TicketTypeOK`, `StaysLetIn`, `FacesFollowTicket`, for any tickets, codes and attempts |
| `TrialTypeCorrect`, `APackAnswers`, `RollbacksAreTold` | `Fleet_proofs` | `TrialTypeOK`, `APackThatAnswers`, `RollbackTold`, for any packs and firmwares |
| `TypeCorrect`, `NoRollBack`, `TwoToLose`, `TwoPhaseOutcomes` | `Fleet_proofs` | the type invariant of a replace, `NeverRolledBack` of `components`, that both copies are lost to no less than two unfinished replaces, and that `TwoPhase` lists every outcome, for any number of replaces |
| `OneStepReplaces` | `Fleet_proofs` | the refinement `ReplacesInOneStep` of `ReplacedFile`, for any number of replaces |
| `SideBySide`, `ComponentsTypeCorrect` | `Fleet_proofs` | `ComponentsSpec` implies the specification of each of its six components, hence `ComponentsTypeOK` and every theorem about one of them |
| `TasksSideBySide` | `Kiosk_proofs` | `KioskSpec` implies those of link, door and roster, `SyncSpec` those of roster and clock, with the fairness of link and clock |
| `DevicesSideBySide` | `Outbox_proofs` | `DevicesSpec` implies those of roster and outbox |
| `OutboxTypeCorrect`, `RequestsKept` | `Outbox_proofs` | `OutboxTypeOK` and `RequestsAccounted` with its three exceptions, for any tabs, accounts and requests, without the bounds of MCOutboxes |

Assumptions: the conditions in the table and the named ASSUMEs of the modules, which only say what the constants are. Bounds
are natural numbers (`MaxWritesAssumption`, `NetAssumption`, `TimesheetAssumption`, and in all others). `SizesAssumption`: at
least one file and one record to a file; `FaultsAssumption`: the switches are Boolean; `DoorAssumption`: the stranger, nobody and
the mark of a restart are no people, and the ring has room for one; `LeaveAssumption`: days are natural numbers, and each
submission carries one request; `PayrollAssumption`: a run is in a period and of a kind, and an employee belongs to some entity;
`EnrolmentAssumption`: the doors are finitely many; `ClockAssumption`: at least one start; `RosterAssumption`: staff are finitely many
numbers, 0 not one of them; `CommandAssumption`: the ring and the inbox have room for one; `TicketAssumption`: at least one ticket,
code and attempt; `TrialAssumption`: a pack is neither an erased slot nor a torn one, and one that answers loads;
`OutboxAssumption`: nobody is no account. No fairness is used.

*AtomicFile.* `NeverRolledBack` says nothing of where a running replace stands, so it is not inductive. `FileInv` adds
`Progress` (what each name holds at each step), `Ages` (no name holds a version older than the last acknowledged, and the
main name is empty only while some replace has not gone through, two of them once `.bak` is empty too) and `Found` (what a
reader finds, as a function of what stood there at the start). `Found` is also what the refinement needs: the call that fails
last leaves one of `Failed`, and until a replace ends or is cut the mapping stands still.

*Side by side.* The components of an MC module share no variable, and a step of one leaves those of the others: whichever
component runs, the behaviour is one of each of them, in stuttering steps for those at rest. The theorems are stated of the
components' own specifications and carry over to the explorations this way, the conditions on the constants with them.

*AttendLog.* `NothingLost` says where a punch is. What keeps it true is that the cursor passes no record the broker does not
have, and that is the strengthening:
- `LogInPlace`: the files in use reach up to `logIndex`, and both cursors stand on a record that exists;
- `BehindTheCursor`: every whole record behind the cursor is with the broker;
- `BehindTheNext`: the same behind the cursor the drain is about to write, but for the record it holds;
- `Acknowledged`: between ack and cursor, the broker has that record;
- `Written`: a promised punch the broker does not have is whole in some file.

The proof has one lemma for each action that touches the log (`AppendRecordKeeps`, `ReadNextKeeps`, `MoveCursorKeeps`,
`PowerCutKeeps`, `RotKeeps`, ...). `CursorWriteKeeps` treats a cursor that may fall back to the other name or to the start,
whichever way its replace ended, and is used for both the move and the cut.

Ids need another invariant. `Issued` collects every message there is or may still be made of what is on flash; `PunchesApart`
says that the number of a punch is given once, `CountsHold` where NVS and `boot.bin` stand against the count tasks last ran under,
`IdsBelow` that every id lies behind the next one while the kiosk knows somebody, `Blank` that a kiosk that knows nobody has written
nothing since it was erased, and `NoHole` why a kiosk that loses nothing gets into neither hole. The condition `CountsStand` is
needed: a write of `boot.bin` that fails, and NVS lost later, start the kiosk under an old count. That a step of the log is a step
of `PunchLedger` (`Take`, `Keep`, `Refuse`, `Forget`, or none) needs what is on flash (`OnFlash`) and that whatever is on the wire
stays there until the broker has it (`WireWritten`). The bench erase takes punches off the books on purpose, hence its condition.

*DoorAccess.* None of the three properties is inductive, and each has its own reason. `Ring` ties the ring to the punches:
`recent` is the tail of the punches of this run of the firmware, no name twice in it, so that a name not in the ring was
pushed out by as many others as the ring holds. `Stay` says what the state machine must be in for each value of `visit`: who
stands there and was opened for is the last one granted and has not left, or else is in the ring. `Calls` says who holds
`m_door` at which step of a call, and `Barrier` (`Raised`, `Inside`) what the timer is armed for in each position of the arm, with
the task inside `m_door` allowed to be between its stop and its start.

*LeaveBalance.* `NeverOverdrawn` is about committed rows, and what is committed next is what a transaction has written, so
`RowsHold` says it of `row` too (`RowsSound`), that only the holder's rows differ from the committed ones (`Committed`), and that
what row 2 got is what row 1 gave, in the committed rows and in those of a transaction that holds both (`Carried`). `Filed` and
`Decided` say where a filing and a decision stand when they hold which rows.

`DaysAddUp` is of committed rows as well, while the code moves days and the state of the request in several writes of one
transaction. `Booked` says by how many days each held row is ahead of the committed one: a filing by what it has put on hold
(`FilingBooks`), a decision by what it has settled, and it holds exactly the years it has settled (`DecisionBooks`), the year's
job by none (`JobBooks`). A commit then moves the days of the one request that changes its state, and a rollback none. That the
sum over a set of requests moves with one of them is `DaysOfOneMore`: the fold is unfolded over the subsets of a finite set,
where any member may be taken first (`AnyFirst`), by the well-foundedness of the numbers (`Upwards`). It needs the requests there
are to be finitely many, which `AddUp` carries, and not that the keys to file under are.

*NetMqtt.* `OkMeansAcked` judges an answer by where the wake behind it came from, so the strengthening follows the semaphore:
`Wakes` says that once the sender has emptied it, it is given by the ack of the message in hand, by a stop still under way, or by
one that gave up (`stuck`). It needs `Locks` (which steps hold `s_send_lock`, and that the client is there while one writes) and
`Stops` (`stopping` is exactly the stopper's place). `Offline` says who may still tell the link up behind a stop.

*Enrolment.* The two claims about doors speak of moments when everything is judged. What carries them there: `OneAtATime` (without
a recorded crossing, one handler works while the others rest), `Shape` (what a door holds, by its pair and by whether a capture of
it is on its way), `Level` (only doors a spread has still to tell may differ from the server) and `Fresh` (a capture on its way
is one door's, is not the set and was never erased). The invariant is claimed while `holes` is empty, and a hole is never
forgotten.

*PunchClock.* Neither invariant says anything of the clock before a punch is stored, so the strengthening follows the time back to
its source: `Punched` (the source a punch under way has read still stands, and what waits in the log is as it was stamped), `Wall`
(what the clock was set from, by the source), `Chip` (what the DS3231 holds, by each marker and by who is writing), `Meet` (a sync
that met nobody has the clock to itself, one that met the other setter left it in doubt) and `Off`. Each setter's step disturbs
the last four, and the proofs treat `Sn` and `Ap`, where the two stand, one at a time.

*RosterSync, captures.* `NoCaptureVanishes` speaks of a sample's places. `KioskShape` gives the tables their rows, and `Waited` adds the
one moment where two tasks share a sample: while a report waits for its ack, the sample it carries is still in the table and
with the broker or judged. With `SlowAck` a second session replaces it there, which is the counterexample of `roster_slow_ack`.

*RosterSync, numbers and rosters.* `EqualNumbersEqualRosters` speaks of a lane with nothing on it. What leads there is what the lane
will have done to the door by its end, person by person:
- `Live`: the door misses nothing, so the lane's numbers go on from the one it reached to the server's, with no gap (`Chain`);
- `Followed`: then, of the messages that place a person, either the door is right and every one left keeps it right, or one of
  them sets it right and every later one keeps that (`Follows`); and so for whom it asks for. The same holds behind a `REPLACE_ALL`
  with nothing missing after it, whatever the door held before: this is what makes a door that lost messages come right again;
- `Ascending`: the lane's numbers ascend past the one reached, so that a gap cannot close by itself;
- `Saved`: what flash has is the table that goes with the number on flash, or the number is older than what was reached, so that a
  loss of power makes the door miss numbers and never makes it wrong under the right one;
- `NumbersInv`: every number at the door or on the lane has been spent by the server, which is also why `NumbersHold` is true;
- `NoCaptures`: what `~Captures` means for each variable.

Right is `HoldsNow` and `AsksNow`: what the server says, or, of one a full table refused (`lacks`) or a full list (`spent`), the face or the
ask missing. The exception is a person's and lasts until the next message places that person, and a message that is neither crowded out nor
spared ends it in every state (`OneTaken` names the three ways one is taken).

None of them can be left out: numbers alone say nothing of tables, and tables say nothing while messages are on their way. TLC checked
`RosterInv` on all states of the roster's half of `sync_task` before it was proved. The three conditions are the code's own limits and not the proof's: a
capture marked in a door's table carries no number until it is judged, a pending list that is not saved is stored under the new number
all the same (`app_tasks.c:693`, one of the hazards), and a backup gives numbers out again. `CapturesStay` covers captures.

`RosterTypeOK` was not inductive as it first stood: a message could name nobody and still be an upsert. `Message` now says that only
`REPLACE_ALL` carries `NO_EMPLOYEE`, as `EnrollmentService` builds them.

The messages of a replay are a flattened sequence of sequences, one for each of the staff in the order of their numbers. What
they hold for every staff is an induction over data. The recursive functions the community modules define their folds by can be
unfolded one step at a time, and `Upwards` stands in for the induction rule: it takes the set of the numbers a claim holds
for where the library's rule takes the claim itself, and follows from the least element of the rest (`WFMin`). From it come what
`FlattenSeq` puts where (`EverybodyInTurn`) and that `Nth` counts through a finite set of numbers.

*Timesheet.* A day is judged at rest, so the strengthening says at every moment what will still come: a build that read before
a punch has that punch's rebuild behind it (`PunchesFollow`), no approval is unseen by a build that read the requests, nor by the row
(`RequestsFollow`), and a decision under way marked the row exactly if the row needs it (`DecisionsStand`). It is claimed while
`holes` is empty. `Measures` ties what the device measured to the last build, corrected or not.

*Payroll.* All five are consequences of `PayInv`, whose parts are claimed while the orders they do not survive have not happened
(`MonthHoles`, `StandHoles`, `DeductHoles`: the exceptions the properties name). Unless a job comes twice, a run under way is in
one place (`OneJob`), alone in an open period no lock has taken (`Running`), and what a lock has chosen stays held and done until it
commits (`Seats`). From there the three properties part:
- `Months`: no two locks of a month at once, and what one has chosen nobody else has issued;
- `Standing`: a finished bonus stands on what the lock would issue now, or a run under it is being taken again (`DoneStands`); so do
  a bonus being priced (`JobStands`) and what a lock has chosen (`LockStands`);
- `Deducted`: open drafts of the employee are of one period (`OneCovers`), and what the payslip that finished last deducts points back
  at it, in the period (`LastCarries`) as in a lock (`LockCarries`). `Pointing` says that no advance points at a payslip that does not
  deduct it, `Written` when the worker holds what it priced.

Worker and lock write several tables in one step; a lemma for each (`Going`, `Finishing`, `Pricing`, `Writing`, `LockCommits`, ...) says
row by row what it writes, and the rest of the proof cites those. The attempt to prove `BonusStandsOnIssued` failed where
`taxBases` and `chosenSlips` disagree; TLC found the behaviour once a plan could reach it, and it is the order "elsewhere" of section 6.

*Commands.* `Traced` follows a command while no hole was met: one that was met is known by name in the ring or no copy of it is left,
one whose sending failed never came to the kiosk, and a REJECTED was not carried out.

*Ticket.* `StaysLetIn` depends on two exchanges at once, the one waited for and the one given up on. `RowHolds` orders the row's tokens
(`prev` is older than `token`), `NowHolds` and `LateHolds` say which ticket each exchange is about, `GiftStands` and `Stands` that the
ticket an answer carries is the row's until it lapses or is revoked. `WipeHolds` ties the faces to the purge.

*ModelTrial.* `TasksHold` says what `ota_task` and `sync_task` may be doing in each phase of a boot; `SeatHolds` where a pack that answers
is: in the slot named or, while that one is on trial, in the other; `TellingHolds` where the record of a rollback is: on flash until
the report, in the event queue after it.

*Outbox.* A session never changes hands, and a call carries the account it was made for: `PagesHold` (a tab's token is of a session
of the account it shows), `CallsHold` (a call's request and token are of its account) and `OwnersHold` (a stored request carries who
pressed the button) hold however tabs cross, but for a call that another account's session came in under ("switched"). A call that is
"done" was filed or refused, so `Answered` drops what was dealt with; every other drop of a flush is `TakenForRefusal`, which records the hole.

Only model-checked:
- every liveness property (`LedgerPays`, `ComesLevel`, `StopEnds`, `HeldIsSent`, `DaySettles`), which the prover's backends cannot
  treat under fairness;
- what the four runs that end in a violation show, which is a counterexample and not a theorem.

Every invariant and every action property of the passing runs is a theorem.

## 5. Not modelled, and why

- Log: a header that fails its check (rotated past like a bad tail), a record that will not encode, a read that fails at the device (the drain stops and tries again), the broker's queue
  overflowing (`deploy/emqx/emqx.conf` holds 10000).
- Clock: the arithmetic of dates, the parsing of a Date, a `settimeofday` that fails, the zone, the chip's drift; a marker is stored
  in one step with the write it follows; two records of one batch are placed by readings of their own.
- Roster: other recognition models (`refuse_upsert`) and sets nobody uses, several samples to a session and the window that takes
  them: the samples of a set go as one message and take one row of the face table, and a set that would fit in part counts as
  one that does not fit; how `compact` moves the rows;
  samples of a session not sealed yet that a persist of `sync_task` puts on flash, rot of the face table.
- MQTT: messages in pieces, the dial's parameters; `on_published` compares and gives in one step, `Published` too.
- Day: the arithmetic of minutes, shifts, holidays; a leave and a trip on one day; attempts of a job that run out; more than
  one worker or backend (the code states one of each).
- Door: times (a hold, a refusal and the window end at any moment, stamps in the order they were taken), a policy that changes
  in mid window, the record's fields, angles and pulses.
- Pay: amounts, taxes, retroactive adjustments, final settlements, the request and approval of an advance.
- Leave: how many days a request is worth, other kinds of request, adjustments by HR; deadlock detection is a statement that
  may fail at any moment.
- Updates: the transfer, the digest and the signature; a failed erase of a latch; the bootloader is modelled from its use.
- Tickets: whether an answer is lost, refused or a failure is free; when a renewal or a check comes is free; erasing the claim
  goes with keeping the ticket; a ticket runs out only while nothing is under way; one exchange given up on per behaviour; one `approve` at
  a time, and a wrong claim code is read and counted in one step of it (simultaneous ones could pass the limit: `TicketTypeOK`'s bound on
  `wrong` is of the model, and nothing else reads the count but to ask whether the limit is reached).
- Commands: what other commands do; each answers and changes nothing kept.
- Outbox: more than one call of a tab at a time; a request that a form's 429 or 5xx ended and that its owner files again, under a new
  key; drafts and files of a form; a browser that clears its storage. Of sessions only what a browser's calls hang on: the rotation, its reuse and its end.
- One-time tokens of people and MFA (`AuthService`), notifications, and the routes of `ModelsService`: see the plan.
- Whole components: see `components` in `PROJECT.json`.

## 6. Where code and documents part

Shown by a run:
1. `roster_slow_ack`: `drain_reports` calls `svc_facedb_keep_session` for an acknowledged session without looking whether a newer
   one was sealed meanwhile (`app_tasks.c:741`). `svc_facedb.h:158` guards the flag against just that; KEHOACH 7.5 lets only the
   broker's ack take a capture's flag away.
2. `enrol_erased`: `spread` reads the sample and the doors outside any lock and `assign` asks for consent outside its transaction
   (`enrollment.service.ts:834`, `:138`). A withdrawal in between leaves a door with the erased face under equal numbers.
   KEHOACH 7364-7366 calls that the worst failure of the system.
3. `day_refused`: `record` stores a late punch and queues its rebuild in two steps; the redelivery is a duplicate and returns first
   (`attendance.service.ts:270-276`, `:318`), against the comment at `:316`. `decide` has the same gap at 148-162.

Met while modelling, and stated by the exact form of a passing property:
4. `sys_storage.c:430` says a complete file sits under one of the two names at every moment. Two replaces cut short in a row leave
   neither; that no single one does is proved (`TwoToLose`).
5. KEHOACH 6.2.5 says a `local_id` never repeats. `RepeatsOnlyThroughAHole` names the exceptions: an erased kiosk approved at just
   the count the server holds is not lifted (`sys_storage.c:251`), and NVS erased while `boot.bin` is gone and the log empty.
6. Equal roster numbers do not mean equal rosters after an `ASSIGN` crossed the capture it asks for, after a restored database
   (KEHOACH 11244-11246, `enrollment.service.ts:728`) or after a pending list that failed to save (`app_tasks.c:693`, against the
   comment at 972). `sync_task` switches these three off. Nor do they after an ask the full pending list or a face the full face table
   refused (`app_tasks.c:862-865`, `882-885`): the number moves on and an event alone tells of it, so `EqualNumbersEqualRosters` names
   these two as its exceptions.
7. Two captures of one person judged at once can leave doors with different faces (`enrollment.service.ts:834-850`; KEHOACH
   11219-11223 says the doors hold one set): the hole "overlap".
8. A stop that gives up clears `stopping` with its wake still in the semaphore (`net_mqtt.c:327`), and the sender then answers
   `ESP_OK` for a message nobody acknowledged: `stuck`. A stop that falls between the read of `stopping` and the telling in
   `on_connected` leaves the state told as up: `crossed`.
9. An approval between a build's read and its write, two halves of different leave types approved at once, and a correction that
   read the row before a rebuild: `holes` of Timesheet.

10. Pay (`payHoles`): a finished regular run pressed again comes back without the employee's payslip, and the advance it had
   taken is taken by nobody ("relost"); an employee who moved between two legal entities is carried by drafts of both ("crossed");
   the regular run under a bonus goes while the bonus is being priced ("undercut"); a bonus another is taxed on top of is run again
   or taken back (`payroll.service.ts:1492`, "retaken"); a job comes twice ("redelivered"); two periods of one month are locked at
   once ("overlapped"). `taxBases` (`payroll.service.ts:1492-1502`) takes the regular payslip of the period as a bonus's base without
   asking, as `chosenSlips` does (1531), whether another period of the month has issued one: a bonus of somebody who moved between
   entities is taxed on top of a draft its lock never issues ("elsewhere"; the comment at 1487-1489 and KEHOACH 8523-8526 promise the
   payslip the lock will issue). A crash between the claim and `queue.add`, or a lost `failRun`, leaves a run RUNNING for ever and its
   period cannot be locked.
11. Leave: a filing over New Year and the job lock the two rows in opposite orders, and Postgres ends one of them. A next year's
   row made in December is never carried into when every attempt of the job fails; a first row of the old year made after
   the job is never closed; days a refusal gives back after the close are not carried.
12. Updates ("seat"): a cut between `last_ota` and `models_revert` leaves a pack that failed, active and off trial
   (`app_boot.c:144-145`, `190-191`); a mark whose flip failed or was cut has the old pack judged; SET_ACTIVE_SLOT is not refused
   while firmware is on trial, and looks at the spare's header only. ("telling"): cuts around `ota_to` (`app_tasks.c:1399`), or the
   next update armed before the report, lose a rollback or tell of one that was none. A pack that panics on trial is not taken
   back.
13. Commands: a send that fails at the server although the kiosk has the command writes "not sent" over the kiosk's answer
   (`commands.service.ts:111-116`, "refused"); the kiosk knows the last eight names in RAM only and may run one twice (`again`).
14. Tickets: `devices.service.ts:171` says an approved machine that holds a token never asks again; one whose answer was lost
   does, and waits for a second approval. A renewal or registration the kiosk gave up on and that is written after a later one
   kills the ticket it keeps ("late"). `approve` that crosses a collection and a revoke leaves a row APPROVED with neither ticket
   nor code ("crossed"). A purge lost to power, a full queue or a failed save leaves the faces ("unwiped"); `app_tasks.c:972` says a
   power cut never leaves a claimed version, and one between the save of the emptied table and `roster_ver = 0` does ("claimed").
15. Door: a callback that waits for `m_door`, or goes off between the raise and the stop, brings down the barrier just raised for
   the next person ("crossed"); a servo that fails in the callback leaves it up ("servo"); the retry after a missed lock is armed
   without it (`servo_door.cpp:94`). `svc_door.h:35` says a call while raised only extends the hold: a shorter one shortens it.
   A face whose leaving went unseen behind the operator's screen is told "already" and not let in; a punch that failed to write
   leaves no stamp, so the one who stands there is granted again.
16. Clock (`doubt`): `sys_time.c:411` lets a Date's step stand when NTP landed behind the load, so the source says NTP over a
   clock of the api until the next sync, and the write-back of either may put that time into the chip under NTP's marker. A cut or
   a failed write between the chip's time and NVS leaves `rtc_ntp_set` claiming NTP for a time of the api, and the next start
   believes it (`sys_time.c:256-266`, `app_boot.c:202-214`). A punch stamped then is not flagged.
17. Outbox. `outbox_unsigned` shows that `flush` drops a request on any answer with a response (`outbox.ts:111`): after a renewal that
   failed that answer is a 401, and nobody has judged the request ("unsigned"), against KEHOACH 10254, 10266-10268 and the comment at
   `outbox.ts:91`. A 429 or a 5xx is dropped at the same line, whether the row was filed or not ("unjudged"; `RequestsAccounted` names
   both). `outbox.ts:13` lets only the account that filed a request send it, and `flush` looks who is signed in before each
   call; but the call takes the token the tab holds once its renewal is over, which may by then be another account's, and the
   request is filed as that account's ("switched").

## 7. Plan

Done: sections 2 to 4. The order was set by what is lost for good when it goes wrong: punches, then faces, then the link both
rest on, the day a punch ends in, the door and the pay, then how a kiosk stays a member of the system.

To model next: PunchClock joined to AttendLog, whose log it keeps as a plain sequence; one-time links of people; a notice claimed,
sent and retried; the routes of `ModelsService`.

To prove next: what those modules will promise. Of the present ones only liveness is left, which waits for a prover of it.
