# bally_OS: TLA+ models, checks and proofs

bally_OS is the firmware of a two-wheeled robot: an ESP32-S3 with two cores, FreeRTOS, an
ESP-NOW radio to a dongle, and optional direct sessions over TCP, BLE and USB serial. This
directory models the parts of it whose difficulty is concurrency, retries and restarts, checks
them with TLC on small instances, and proves with TLAPS, for every value of the constants, what
matters most. Source paths below are relative to the repository's root.

## 1. The system

### Tasks

| task | core, priority | what it does here |
|---|---|---|
| `state_machine` | 1, 10 | runs the action of the current state |
| Wi-Fi driver | 0, above the tasks | receives ESP-NOW frames (`handleReceiveStatic`), reports send status (`handleSendStatic`) |
| `comms` | 0, 4 | `terminal_responder.pump()`, `tx_scheduler.pump()`, CONTROL/STATUS |
| TCP server, NimBLE host, TinyUSB | any, 4 and up | receive over a direct session, start and end it |
| `esp_timer` | any | `tx_scheduler.pump_telemetry()` |
| `routine` | 0, 3 | boot script and saved jobs, then telemetry flush, logs, state transitions, jobs, script lines |
| `shell_task` | 0, 2 | runs every command line, one at a time, from `receivedDataQueue` |
| `junkebox`, `interrupts` | 0, 1 and 0 | sound; button and encoder interrupts |

A task preempts a lower-priority one on its core between any two instructions, and tasks on
different cores (and unpinned ones) run at the same time. Most shared objects have no lock, or a
flag that is tried and never waited for, because a high-priority task that waited on core 0
could wait forever.

### Components

**TxScheduler** (`lib/TxScheduler`). Six rings, one for each priority class, each with a try-lock; one
confirm-gated frame; seven counters. `enqueue` (any task), `pump` (comms), `pump_telemetry` (esp_timer),
`on_delivery` (Wi-Fi task). Hard: three kinds of task meet at each ring; the send status names no
frame; callbacks are late, interrupted or never come. Correct when frames are neither lost nor
repeated, classes are FIFO, an urgent frame is not overtaken for long, verdicts and counters are true, and
nothing wedges the lane.

**CommandProcessor and the command path** (`lib/CommandProcessor`, `processCommandRequest`,
`processTcpCommandRequest`, `runShell`). The dedup cache and its slots' metadata, the highest sequence
of each requester, `receivedDataQueue`, the shell's job, two result views, session generations, the boot id. Hard:
the same request comes several times over several links while its slot is reserved, queued, running,
recorded or evicted; a session ends or is replaced under a running command; the queue fills; the robot reboots.
Correct when a command runs at most once, what its requester is told is true, and a slot in flight is its
request's and will be completed.

**JobScheduler** (`lib/JobScheduler`, `saveJobs`, `loadJobs`, `pollJobs`). Eight job slots, `next_id_`,
`last_state_`, `jobs.conf`. Hard: the shell task fills a slot field by field while the routine task,
which preempts it, polls the table. Correct when a job keeps its limit and its schedule, a stall is not
made up for, a state job fires on entries only and on every entry, and ids are unambiguous.

**StateMachine, transition policy and USBMassStorage** (`lib/StateMachine`, `src/robot`,
`lib/USBMassStorage`). Current and requested state, lock, mutex, history; who owns the card. Hard: `next()`
reads the state, runs a callback and stores its decision, while `reportError()` stores directly; `expose()`
and `reclaim()` run in two tasks without a lock. Correct when DEBUG is never left while the host owns
the card or firmware is written, a request is always taken up, and the history is a path of the machine.

**OTAUpdater** (`lib/OTAUpdater`). Phase, session, flags of the Wi-Fi events, HTTP server. Hard: four
tasks (routine, shell, esp_timer, HTTP server) without a lock; the session ends from within the server. Correct
when a firmware write keeps its link and its server, an idle updater has given the radio channel back, and a
session that was written to ends.

**TelemetryPublisher** (`lib/TelemetryPublisher`, `sampleTelemetry`). A 16-slot single-producer,
single-consumer ring with free-running indices, a one-document stage, two targets. Hard: targets are bound
pointer by pointer while `flush()` collects them; indices wrap. Correct when samples leave in order,
once, and keep leaving, and the document stage has one owner.

**TerminalResponder, capture and scripts** (`lib/TerminalResponder`, `begin_capture`/`end_capture` of Logger,
`startScript`, `pollScript`, `runShell`). Slots with a line editor for each origin, the command queue, a script
cursor. Hard: a slot is evicted and taken by another origin under `pump()`; a spin lock that
comms and receive tasks only try. Correct when a result reaches the origin that asked, lines run in order, and
no terminal waits for good.

**TCP, BLE and USB-serial servers** (`lib/TcpBtpServer`, `lib/BleBtpServer`, `lib/UsbSerialBtpServer`,
`BtpTransport/TcpSendAdmission.h`, the session in `ROBOT`). Connection, waiting connection, send queue with a
ceiling for telemetry, session generation. Hard: `stop()` and `close_client()` from another task; a session
replaced while a command runs. Correct when queue and session never cross connections, the reserve for answers
is kept, and what a stream link admitted leaves.

**Logger and the card stream** (`lib/Logger`, the stream of `lib/SDCard`). A byte ring in PSRAM with two cursors
and one consumer at a time. Hard: four tasks save or send with the mutex dropped between chunks; one
shared stream. Correct when no record is released before it is stored, and the consumer flag is always given back.

**Junkebox** (`lib/Junkebox`, `updateSoundFeedback`). A one-place mailbox, a notification, the player task. Hard:
the notification that interrupts a song may be its own. Correct when the newest request is heard.

**RobotSettings** (`lib/RobotSettings`, `factory_reset`, COMM_CONFIG's confirmation). Values in memory and
`settings.conf`. Hard: two tasks without a lock; the file is truncated and rewritten in place, goes through
texts, and may be edited on a PC. Correct when what a save reported written is what the next boot runs
with, and `settings diff` says what a reboot would change.

**ROBOT** (`utils/BallyRobot`) composes these. **KeyStore**, **RadioSeal**, **ManifestCatalog**, **SystemMonitor**,
**StatusReporter**, **Flags**, **Format** and the device drivers are parsers, reports, registers or arithmetic.
The btp protocol library is a submodule that is not in the tree.

### How they interact

A COMMAND_REQUEST comes in over a link, passes `intake`, waits in `receivedDataQueue`, runs in the
shell and is answered by `send_result`: over the radio through `TxScheduler::enqueue`, over a direct
session through that session's server. Jobs and script lines enter the same queue as local
lines. Commands change the state machine, the job table and the settings; state changes fire
jobs and are published as telemetry, which shares the transmit scheduler with everything else.

## 2. Modules

| module | models | extends / instantiates |
|---|---|---|
| `TxPromise` | what the transmit scheduler promises, without rings, locks or timers | |
| `TxScheduler` | `lib/TxScheduler`, access by access; the mapping to `TxPromise` | instantiates `TxPromise` |
| `CommandPath` | `lib/CommandProcessor`, receive tasks, queue, shell, sessions, reboots | |
| `JobScheduler` | `lib/JobScheduler`, its file, shell calls store by store | |
| `RobotStates` | `lib/StateMachine`, `src/robot`, `lib/USBMassStorage`, boot modes, `main.cpp` | |
| `OtaUpdater` | `lib/OTAUpdater` | |
| `TelemetryPublisher` | `lib/TelemetryPublisher`, `sampleTelemetry` | |
| `Terminal` | `lib/TerminalResponder`, the capture, the script runner, `runShell` | |
| `DirectLink` | the three direct servers, send admission, ROBOT's session on them | |
| `Logger` | `lib/Logger`'s ring, `lib/SDCard`'s stream | |
| `Junkebox` | `lib/Junkebox`, its player and its callers | |
| `RobotSettings` | `lib/RobotSettings`, `write_file` | |
| `MC...` | the instances of each | the module it is named for |
| `TxSchedulerProofs`, `CommandPathProofs`, `JobSchedulerProofs`, `RobotStatesProofs`, `DirectLinkProofs` | theorems and their proofs | the module it is named for, `TLAPS`, the theorem library |
| `UpdaterAndSoundProofs` | theorems about two components | `OtaUpdater`, `Junkebox` |
| `TelemetryAndSettingsProofs` | theorems about two components | `TelemetryPublisher`, `RobotSettings` |
| `LoggerAndTerminalProofs` | theorems about two components | `Logger`, `Terminal` |

The last three put two components side by side that share no variable, constant or name. That is why
`Junkebox`, `RobotSettings` and `Terminal` call their specification `SoundSpec`, `SettingsSpec` and `TerminalSpec`,
and its parts likewise (`SoundInit`, `SoundNext`, `SoundTypeOK`). Nothing is said of the two together.

A definition whose name has an underscore and a suffix (`Front_Newest`) is a plausible defect of the
definition that follows it. No specification uses it: with it in place of the original, a
property of the same module fails, which shows that the property depends on that line of code.
A property whose comment says that the code does not keep it belongs to section 5.

### TxScheduler

`slots`, `read`, `write`, `count` and `lock` are the fields of `queues_[c]`; `pumping` and `class` say
where `pump()` is; `pending`, `awaiting`, `event` and `age` are `pending_`, `awaiting_delivery_`,
`delivery_event_` and the time since `pending_since_ms_`; `timing` and `sample` are `pump_telemetry()`'s
position and local frame; `paused` is the upload session during which `runComms` does not call `pump()`. `air` is the set of frames in the Wi-Fi driver, which ends them in any
order, or never. `callback` and `verdict` are `on_delivery()` between its load of
`awaiting_delivery_` and its store. An action is a stretch of code no other task can divide
visibly: taking a try-lock, copying a frame, moving the indices and unlocking, raising one counter.
`fate`, `sends`, `acked`, `crossed`, `overtaken` and `contended` are history.
`TxPromise` keeps a FIFO for each class and a stage for each frame; `Backlog` maps the live part of each
ring to the FIFO, and `StageOf` the fate of a frame to its stage.

### CommandPath

`slotRequest`, `slotState` and `slotResult` are the dedup cache and `slot_meta_`; `highWater` is the
requester table; `rx[l]` is the receive task of link `l`, `rxView` and `shellView` are `rx_view_`
and `shell_view_`; `generation` and `session` are `x_session_generation_` and the live session.
`intake`, `complete` and `reject_busy` hold `cache_lock_` throughout and are single actions;
the gaps between them are not: a session can end between the generation check and the send, and the
view is read after the lock is released. `executed` and `told` are history.
A retry of an evicted command is answered with the status and error code of a refusal, BUSY and CapacityExhausted
(`CommandProcessor.cpp:272`), and counts as such; `refused` is what `reject_busy()` turned away.
The cache is btp's `DedupCache`, outside the tree, modelled from how `CommandProcessor` and
`test/btp_integration` use it: an identity in a slot is a duplicate or a conflict; one at or below
the requester's highest sequence is evicted; a fresh one takes a free slot or evicts a completed
one, never one in flight. Payloads are abstracted to a key and a status, and to whether the
captured output fits (`Long`).

### JobScheduler

`jobs`, `next_id`, `last_state` are the members of the class; `call` is the shell task's call in
progress, `routine` says how far `loadJobs()` has come and which lines it has in hand, `saved` is
`jobs.conf`. `ReadFile` is its `read_file()`, which waits for the card while the shell runs. After that the
routine task, which has the higher priority on the same core, lets the shell do nothing until the last line is
scheduled (`LoadLine`, one step for each line, and `EndLoad`); `Poll` is atomic for the same reason. Both fall
anywhere between the shell's steps: after a slot was found, after `active` was set, between any two of the stores that
follow, between `list()`'s test and copy, between the opening and the writing of the file. The increment of `next_id_` is
a read and a write: the write may build on the id the call has in hand (`IdInHand`) or on what `next_id` has become. Time
advances from one poll to the next by any amount. `seen` is history: a job's limit, its first poll, the
occurrences dropped, whether its call was interrupted (`torn`), how many ids precede its own (`made` is how many
precede `next_id`), and whether it was restored while a call had an id in hand (`unsure`).

### RobotStates

`state`, `requested`, `locked`, `history` and `mutex` are the members of `StateMachine`; `machine` is `run()`,
`routine` is `next()`, `shell` the gated command being executed. Both hold the mutex throughout, but
`reportError()`, the USB operations and the HTTP server's upload hold nothing, so they fall between any two of their
steps: `process_transition` only decides, `cancelDebugTests` and `cancel()` look at the session once more, `StopServer`
waits for an upload that began after that, and the state is stored last. `run()`'s action may throw. `card` is USBMassStorage (mount point, who may use it, session, TinyUSB); `usb[t]` is where task
`t` is in `expose()`, `reclaim()` or `process()`. `menu` is COMM_CONFIG; `ota` and `test` are what
the policy asks of the updater and the motor test. `escaped` is history: an error may leave DEBUG, and a command that
passed its gate, or an upload that began between the gates and `cancel()`, may go on after DEBUG was left.

### OtaUpdater

`phase`, `session`, `server` are members; `raised` holds the flags of the Wi-Fi events; `httpd` and `upload` are the
HTTP server and its handler; `at[t]` is where a task is in `cancel()`, `begin()` or `process()`. `process()` is
one step except where it tests `direct_mode_` and then stores the phase. The driver in `wifi` scans, connects, drops
and reports at any time. `overlap` is history: `IdleIsHome` and `SessionNotTorn` say what they can of sessions
on which two tasks acted at once.

### TelemetryPublisher

`ring` has the two indices modulo `IndexMod` and the slots; `targets` is, for each target, which of its pointers are
set, and `todo` the stores the link's task has still to make; `producer` and `flusher` are where
`sampleTelemetry()` and `flush()` are, topic by topic and target by target. `queued` is history: the FIFO the ring stands for.

### Terminal

`slots` has what the spin lock guards, `own` what only `pump()` touches, `pump` and `shell` the locals of `pump()`
and `runShell()`, `queue` is `receivedDataQueue`, `capture` the capture in Logger, `script` the runner. A
section under the lock is one step; a `try_lock()` that gives up, and a capture mutex that is waited for in vain, are
branches. `PumpCall` is `runComms` finding no upload session. A line is its number, a command of a script carries which
start of a script it is of; `typed`, `ran` and that number are history.

### DirectLink

One of three links is chosen at boot. `peer`, `waiting`, `usable`, `queue`, `latch` are the server's fields,
`flight` the notification or FIFO below it, `session` ROBOT's node with its generation, `asked` the command the shell has taken.
`at[t]` is where the link's task, routine (telemetry, `stop()`) and the shell (answers) are. Connections
are numbered, which is what lets the properties say whose a frame is.

### Logger

`ring` is storage in cells (a header or a chunk), `cur` the two cursors, whose counters wrap; `snd` the send cursor's
record in progress; `radio` and `save[t]` are the locals of `flush_logs()` and `flush_logs_to()`; `card` is the one
stream all tasks share, with a test of it and an opening that are two steps. `records`, `released`, `stored`, `aired` are history.

### Junkebox

The routine task preempts the shell, which preempts the player: `updateSoundFeedback()` is one step, a shell command
two (request, notification), and the player moves only in between. `newest` and `played` are history.

### RobotSettings

`data` and `file` are `data_` and the lines of `settings.conf`; `call[t]` is the loop a task is in, with the keys left and
its buffer. `set` is one store; a reset, a parse and the formatting of a save go key by key, so the other core's
call falls anywhere between; opening the file empties it. Values are converted as the code does: a FLOAT is rounded to
what `%.6f` prints and, from 1e31 on, cut to the 31 characters `format_entry()` has room for; a STRING is its length, a
refused text leaves the field. `kept` and `foretold` are history.

## 3. Runs

| run | bounds | states | question |
|---|---|---|---|
| `TxLanes` | 2 producers, 3 confirm-gated frames of 2 classes, 1-slot rings | 3.76 M | types, loss and repetition, verdicts, urgency |
| `TxFifo` | 1 producer, a debug frame and 2 samples, 2-slot rings, upload sessions, fair | 477 k | implements `TxPromise`; counters; queued frames settle |
| `Cmd` | 4 requests of 2 requesters (one conflicting and too long to record), 2 slots, queue of 1, radio and TCP, 2 boots, 1 session | 1.99 M | at most once; replies true; slots owned and not leaked |
| `Jobs` | 2 slots, 3 requests (twice, on a state, refused), 2 ids, 3 ids used, 5 ms | 5.24 M | limits, schedule, ids, entries |
| `States` | history of 2, one requestable state, boot plain or with the USB chord, 2 modes, 2 buttons, fair | 1.19 M | DEBUG gates; history a path; requests taken |
| `Ota` | 2 networks, 3 cancelling tasks, fair | 629 k | writes keep their link; idle is home; the end of a write ends |
| `Telemetry` | ring of 2, indices modulo 4, flush of 2, 6 sequences, BLE link, fair | 845 k | ring is a queue; stage has one owner; samples leave |
| `Term` | 2 origins on 1 slot, 1 pending line, queue of 1, 3 lines, 1 missed wait, a script of 3 lines with a job line started twice, fair | 1.10 M | results and lines reach whom they should; nobody waits for good |
| `Direct` | all 3 links, queue of 3 with ceiling 2, 3 connections, 8 generations, fair | 817 k | nothing crosses connections; the reserve; stream frames leave |
| `Log` | 5 cells, counters modulo 8, 3 records of up to 2 chunks, 2 packets a flush, 2 savers | 1.64 M | nothing released unstored; one consumer, given back |
| `Sound` | a song with a repetition, click, error, a tone, 2 buttons | 43 k | the newest request is heard |
| `Settings` | a string, a float that may be too long to print, and the mode; 2 saves a boot | 8.00 M | a save survives a reboot; diff foretells it |

Why the bounds are enough. One-slot rings are full and empty at every turn; in a two-slot ring the
indices wrap. Two producers and two consumers are every kind of contender a ring has, and three frames are
needed for one to be overtaken twice. In `Cmd` a requester has two successive requests and a
conflicting payload, so that with two slots each new identity may evict the last; two boots are one reboot. Two ids and three
used make ids wrap while an older job is active; 5 ms and an interval of 2 ms leave room for a poll that is late by
a whole interval. A history of two overwrites its oldest record. Two networks let a candidate fail with
another to try, and with all three cancelling tasks any two meet. A ring of two
with indices modulo four wraps both ways, and a flush of two leaves samples behind. Two origins on one slot make
every request of the second an eviction, and a script started twice lets the end of one run meet the start of the
next. Three connections are one served, one waiting and one that replaces
them. Five cells hold one long record and part of the next, so records straddle the end of the storage and the
ring refuses some; the wrap is not a multiple of its size. The song repeats and has a line to skip, and more
requests than one are outstanding. In `Settings` a type each of the conversions that lose something is there (an empty
string, a text too long, a digit too many, a number whose text is longer than its buffer, a number out of range); the
limits of a FLOAT are scaled down (`Wide` is 1e31, `Infinite` is FLT_MAX), and U32 and PIN differ from U8 only in their range.

In `Jobs` a state constraint (`EarlySaves`) explores saves only while the card is empty, of one
job in the first 3 ms or of two in the first, so that a restart may have two lines to schedule. `TxLanes` uses the symmetry of producers and of two frames of one kind and checks no
liveness; `Cmd` uses the symmetry of the cache's slots. `Log` has a VIEW without `aired`, which no step and none of its properties reads. Deadlock is not checked in `Term`, `Direct` and
`Log`, where the bounded supply of lines, connections and records runs out. `MaxBoot`, `MaxSession`,
`MaxTime`, `MaxJobs`, `MaxSequence`, `MaxLines`, `MaxTimeouts`, `MaxScripts`, `MaxPeers`, `MaxGeneration`,
`MaxRecords` and `MaxSaves` bound counters and appear as guards.

### Fairness

* `TxFifo`: while no upload session is up comms calls `pump()`, and a call that was begun ends; `pump_telemetry()` and
  the clock keep running (an endless task loop, a periodic timer), and a task that entered `enqueue()` or `on_delivery()`
  leaves it (neither waits). Nothing is assumed of the radio, nor of the upload session: it may begin at any time
  and last for ever (`BallyRobot.cpp:3286`; a served session has no timeout), so that `QueuedFramesSettle` promises a
  confirm-gated frame only that it settles or a session comes up. All weak.
* `States`: weak fairness of the steps of `run()` and `next()`, two endless task loops. Strong fairness of taking
  the transition mutex: FreeRTOS hands it to the waiter, so a task that keeps asking gets it between two passes of the other.
* `Ota`: a task inside `cancel()` goes on, and the HTTP server serves the upload it accepted. Nothing of the driver.
* `Telemetry`: weak, the routine task flushes and the state machine task samples.
* `Term`: weak fairness of a pass of `pump()` once begun, and of the shell; strong of `pollScript()`, which needs room in
  the queue each time it runs, and of `pump()`'s lock, which is free again and again while comms keeps asking. Nothing
  says that comms calls `pump()` at all, as an upload session may keep it from that for ever: `WaitEnds`
  assumes of a behaviour that it does so again and again.
* `RequestIsTaken` excuses the wait of `next()` for an upload that began after `cancel()` had looked: it lasts as long
  as the client keeps its connection.
* `Direct`: weak fairness of the link's task and of calls that were entered; strong of the medium, which accepts or completes a
  frame it is offered again and again, or loses the connection.

## 4. Proofs

Each `...Proofs` module proves about its components, for every value of the constants that satisfies the
assumptions named in the component's module, what section 3 checks on one instance. Every safety property and every
action property a run checks is proved, and the refinement of `TxPromise`. None of them is inductive as it stands. Every
proof therefore goes through an inductive invariant `IInv` (`SoundIInv`, `SettingsIInv`, `TerminalIInv`), a
conjunction of named parts: it holds initially, every step keeps it (one proof step for each action, and within it one
for each part the action can disturb), and it implies the properties. `Inductive` states it of the specification. An
action property follows from `IInv` before the step.

**`TxSchedulerProofs`**: `TypeCorrect`, `FramesAreConserved` (`NoFrameLostOrRepeated`), `UrgencyIsKept`
(`OvertakenAtMostOnce`), `VerdictsAreHonest` (`VerdictHonestWhenAlone`), `CountersAreRight` (`CountersAddUp`),
`ImplementsThePromise` (`KeepsPromise`). In `IInv`, whoever is between the lock and the unlock of a ring holds its
lock, and the room or the frame it found is still there (`LockDiscipline`); rings are contiguous, and live slots and
queued frames correspond one to one (`Places`); a frame a task has in hand is in no ring (`InHand`); `sends`
agrees with `fate` (`SendsCounted`). At its heart, publishing adds exactly the written slot to the live ones and
removing takes exactly the oldest away (`PublishGrowsLive`, `RemoveShrinksLive`). The others put an invariant of
their own on top. `LanesTyped` says which task holds a frame that left its ring; with it every
step of the rings is a step of `TxPromise` on `Backlog` and `StageOf` or does not show there
(`PromiseStep`). `Passes`: no pass of `pump()` is beyond the class of a frame that was already overtaken, until
that class is empty. `Alone`: while nothing else crossed the pending frame, what `on_delivery()` and
`delivery_event_` hold is what the air said of it. `Counted`: each counter is the number of frames with the fates it
stands for, which are finitely many because frames get a fate one at a time.

**`CommandPathProofs`**: `TypeCorrect`, `SlotsAreOwned` (`WorkOwnsItsSlot`), `SlotsDoNotLeak` (`NoLeakedSlot`),
`CommandsRunAtMostOnce` (`AtMostOnce`), `AnswersAreTrue` (`RepliesAreTrue`). The first half (`SlotInv`) says who
owns a slot: each piece of work names a slot that is in flight with its request, no two the same
(`Ownership`), and a slot in flight has work or had a result too long to record (`NoneLeaks`). It needs nothing of the
second half (`KeyInv`), about a key: one slot holds it at most (`OneSlotPerKey`), what a slot holds is
below the high-water mark of its source (`HeldIsSeen`), and what was said of the key, or could still be said
from a recorded result or a prepared view, agrees with whether it ran and is one outcome, but for the BUSY a retry is
told once its slot is evicted (`Truth`); what `reject_busy()` turned away is told nothing else. Once run or spoken of,
a key is `Spent`: each of its requests is for an earlier boot or below the mark. That is why eviction,
retries over another link and deliveries after a reboot cannot run it again. `TargetAssumption` is used here:
all requests with one key name one boot (`README.md:317`, one sequence for each logical message).

**`JobSchedulerProofs`**: `TypesAreKept` (`TypeOK`), `LimitsHold` (`StopsAtItsLimit`), `NoBurstMakesUp`
(`NeverAheadOfTime`), `DueWithinOneInterval` (`NothingIsSavedUp`), `IdsNameOneJob` (`IdsTellJobsApart`), and the
action property `StateJobsFireOnEntry` (`FiresOnEveryEntry`). What the routine task finds in a slot depends on
how far the shell task has come with filling it, so `Kept` takes the set of stores that are still to come
and says of the other fields what they hold, and of a job whose call was not interrupted where it stands: not yet
seen (`Awaits`), counting down (`CountsDown`), on schedule (`KeepsTime`). The time argument is one inequality,
(fired + missed + 1) * interval <= next - since, which a late poll keeps because the quotient it adds to `missed`, times the
interval, is at most the lateness. `CallKept` ties the call in progress to its slot. `InOrder` numbers the
jobs: the id of each is a function of how many precede it (`IdAfter`, a remainder), and the numbers differ and stay
below `Frontier`, which is the number of the id a call has in hand and not yet counted.

**`RobotStatesProofs`**: `TypeCorrect`, `HistoryTellsThePath` (`HistoryIsAPath`), `DebugIsGated`
(`GatesKeepDebug`). `Inside` says what a task inside `run()` or `next()` may rely on: the mutex is its own, and
the state is what it found, for `next()` unless `reportError()` came between. `Recorded` says that the history, the
state and the state `next()` is about to record from continue one another; `Gates`, that DEBUG is neither left nor about to
be left under a busy card, an OTA session or a gated command.

**OtaUpdater**, in `UpdaterAndSoundProofs`: `TypeCorrect`, `WritesKeepTheirLink` (`SessionNotTorn`), `RadioComesHome` (`IdleIsHome`).
Some parts hold whatever overlaps: the index stays inside the list (`IndexHasRoom`), `server_` is kept exactly while the
server runs (`ServerInStep`), a survey joins nothing. `Orderly` holds while no two operations overlapped: where each
operation has got the session to (`Places`) and where the radio is (`RadioAtHome`).

**Junkebox**, in `UpdaterAndSoundProofs`: `SoundTypeCorrect`, `NewestIsHeard` (`NewestRequestIsHeard`). A request is in
the mailbox exactly while it is the newest call (`MailboxInStep`); once the player has thrown away the notification
that came with it, no other is outstanding, so what may stop it is a newer call (`NewestInHand`). The rest is counting:
the notes played are those of the rounds done and of this round up to the cursor (`SongCounted`), where a "loop"
directive counts from the line it stands on in the first round and from the start in the others. `NotesOf` is the
cardinality of a set of places, so that one step adds one place or none and no recursion is needed.

**TelemetryPublisher**, in `TelemetryAndSettingsProofs`: `TypeCorrect` (`TypeOK`), `RingHoldsItsQueue` (`RingIsAQueue`), `StageOwned`
(`StageHasOneOwner`). The ring's indices run freely modulo `IndexMod`; the lemmas are modular arithmetic: the
difference of the indices is the length of the queue, and places less than a capacity apart are different slots. They need
that the capacity divides the modulus, which 16 and 2^32 satisfy. `FilledIsNext` and
`FlushHasWork` connect the two tasks to the queue.

**RobotSettings**, in `TelemetryAndSettingsProofs`: `SettingsTypeCorrect`, `KeptIsRead` (`SavedIsRead`),
`BootDoesWhatDiffTold` (`DiffForetellsBoot`). The conversions come first: of a value that a field may hold (`Fits`: its default, or
one its type accepts), `parse_into` undoes what `format_entry` printed, up to half a printed digit of a FLOAT (`Rounds`,
by quotients and remainders) unless the FLOAT's text is longer than the buffer (`Cut`), and printing what was read back prints the
same. So the file alone decides what a boot prints, and `settings
diff`, which compares texts, foretells it. In `SettingsIInv` a save no other call ran beside has in its buffer what memory
says for each key it visited (`SavesAlone`), what the last such save wrote is the file (`KeptOnFile`), and a
diff's answer stands while neither file nor memory changes (`ForetoldStands`). The proofs need that a FLOAT's default is one that
`%.6f` prints exactly, that the key table names each key once, both true of `kTable`, and that no finite number has
more than eight digits past the 31 that fit, which holds of a 32-bit float (3.4e38).

**`DirectLinkProofs`**: `TypeCorrect` (`TypeOK`), `NoLeftOvers` (`QueueIsOfThisPeer`), `GenerationsNameSessions`
(`GenerationNamesSession`), `TelemetryLeavesRoom` (`ReserveIsKept`). Frames of a connection that is over stay only until its
clearing is done (`FramesOfPeer`), which needs that nobody is served meanwhile (`NobodyMeanwhile`); telemetry
enters only the lower part of the queue and moves down from there (`TelemetryLow`), which makes the reserve a matter of
counting. `GenerationsLeft` accounts for the generations still due, so that the bound is met.

**Logger**, in `LoggerAndTerminalProofs`: `TypeCorrect`, `NothingIsLost` (`RetainedUntilStored`), `OneWalkerAtATime` (`OneConsumer`). The
ring is seen from its read cursor: the retained records tile the used bytes (`Tiled`) and are whole in their cells
(`Whole`), hence what an insertion writes belongs to none of them. `Walkers` says that `consumer_busy_` is up
exactly while one walker goes round; so the record it has in hand is the oldest retained one, stored up to the
fragment before the next (`Walked`), until the walker itself releases it, and what was released was stored (`Saved`).

**Terminal**, in `LoggerAndTerminalProofs`: `TerminalTypeCorrect`, `ResultsKeepOrigin` (`ResultsStayWithTheirOrigin`), and
the action property `LinesRunInOrder` (`LinesInOrder`). A result that is ready is for the occupant of its slot, also while
`pump()` holds a copy of a slot that has changed hands (`ResultsPlaced`); captured text is the
running command's alone until two waits for the mutex ran out, since the first leaves the capture on and the second
does not clear it (`CaptureInStep`). An origin's lines are in one of four stages -- run or queued, typed ahead, in
`pump()`'s hands, waiting in the slot (`Past`, `Ahead`, `Hand`, `Waiting`) -- and every line of a stage is below every line
of the next (`StagesInStep`), in order within a stage (`HandsInStep`, `QueueInStep`). This survives an eviction because an
origin has one slot (`OneSlotEach`) and because what is typed ahead in a slot whose occupant has changed no longer counts: it
will be reset before it can be submitted (`Mine`, `PumpInStep`). `ScriptInStep` says the same of the script: of the last
command run and those in the queue each is the next line of its predecessor's run or, that run being complete, the first
line of the next one (`MarksInStep`), and the cursor is where the newest of them leaves it (`CursorInStep`). Every
step that takes from the queue is the shell's (`OnlyTheShellTakes`), so the property speaks of every command that is run.

Constants are constrained only as the code's are: capacities, depths and lengths are positive, a record fits the
ring, placeholders such as `NoFrame` are not members of the sets they stand beside. The bounds on counters are arbitrary naturals.

Only model-checked: `QueuedFramesSettle`, `RequestIsTaken`, `FinishEnds`, `SamplesAreTaken`, `WaitEnds` and
`StreamFramesLeave`, which are liveness under fairness. TLAPS does not prove those here: fairness
is about ENABLED, which this version does not expand.

## 5. What the code does not keep, and what is not modelled

### Statements of the source the models refute

Each is a definition of its module that no run lists, written next to the properties that do hold. To see the
history, name it as the INVARIANT (or PROPERTY) of the run's configuration, without SYMMETRY and VIEW.

* `DeliveredMeansAcked` (TxScheduler, run `TxLanes`). The send callback of another frame counts as the pending one's.
  `TxScheduler.h:67` says correlation is unambiguous because only one frame awaits a callback; a frame that
  timed out, and every telemetry broadcast, is reported all the same. `VerdictHonestWhenAlone` is what holds.
* `AcceptedIsConfirmGated` (TxScheduler, run `TxFifo`). `TxScheduler.h:39` says telemetry is not folded into `accepted`,
  `delivered` and `dropped`, which "only ever reflect the confirm-gated classes"; `enqueue()` counts every frame in
  `accepted`, and a refused telemetry frame in `dropped` (`TxScheduler.cpp:69`, `:77`, `:89`). `CountersAddUp` says what the
  counters do hold. (`stats()` loads them one by one, so a reader may get a mixture of two instants.)
* `RetriesReuseTheResult` (CommandPath, `Cmd`). `README.md:309` says identical retries reuse the stored result. A retry of a
  command that ran and whose slot was evicted is told BUSY/CapacityExhausted.
* `BusyMeansNotRun` (CommandPath, `Cmd`). `README.md:212` gives BUSY/CAPACITY_EXHAUSTED as the answer of a full queue, to a
  command that was not run. A command that ran and was evicted is answered so too: its requester cannot tell.
* `ReplyReachesAsker` (CommandPath, `Cmd` with `Requests = {a1}`, `Long = {}`, `MaxSession = 3`). The generation check in `runShell` and the
  send after it are two steps; a session replaced in between gets its predecessor's reply.
* `ViewIsPrivate` (CommandPath, `Cmd`). Every receive task prepares its reply in the one `rx_view_` and sends it
  after the cache lock is released.
* `NoLeakedSlot` without its last disjunct (CommandPath, `Cmd`). A successful command with more than 128 bytes of
  captured output is never recorded: its slot stays in flight until reboot and its requester is never answered.
* `FirstFiringAFullIntervalLater` (JobScheduler, `Jobs`). A poll between the stores of a schedule call anchors the job
  with interval 0 and fires it at once (a second one before the store divides by zero).
* `SavedJobsKeepTheirLimit` (JobScheduler, `Jobs`). `list()` can copy `remaining` after the last firing made
  it 0, which means no limit; the restored job never stops.
* `IdsAreNotReused` (JobScheduler, `Jobs` with `NSlots = 3`, `IdMax = 4`, `MaxTime = 2`, `MaxJobs = 5`, `Requests <- one`).
  `JobScheduler.h:183` says that ids are never reused within a boot. `loadJobs()` between the read and the write of
  `next_id_` in `allocate()` has its ids given out again when the interrupted call stores the successor of its own.
* `FirmwareWriteKeepsDebug` (RobotStates, run `States`). `StatesManager.cpp:74` says a firmware write in progress is never
  interrupted; `is_flashing()` is tested there and again in `cancel()`, and an upload that begins in between (or in a
  session a command starts after them) goes on while the robot leaves DEBUG.
* `UploadIsServed` (OtaUpdater, `Ota`). `process()` tests `direct_mode_`, the shell upgrades the session, and `process()`
  stores SERVING without having started a server.
* `TargetsAreWhole` (TelemetryPublisher, `Telemetry`). The direct target is bound pointer by pointer; `flush()` can
  collect an endpoint without its seal or its subscriptions.
* `LatchMeansNotification` (DirectLink, `Direct`). A BLE frame is queued after the drain found the queue empty and before
  it gave the latch back; its own drain finds the latch taken, and nothing sends it until the next frame.
* `ScriptFinishes` (Terminal, `Term` with `MaxLines = 1`, `LongLines = {3}`). A script line above `kMaxShellCommandSize` is
  refused by the queue as if it were full and tried again for ever.
* `RequestInterrupts` (Junkebox, `Sound`). A `play` or `stop` between `xQueueReceive()` and the discard of stale
  notifications loses its own notification: the old song plays on to its end.
* `ChunkMatchesHeader` (Logger, `Log`). `flush_logs_to()` releases a record whose send was refused half-way and leaves
  `send_header_` and `send_record_bytes_done_` behind; the next record's bytes go out under that header
  (`Logger.cpp:487` says the SD flush removes the record from both cursor ranges).
* `EveryFloatIsRead` (RobotSettings, `Settings`). `README.md:35` has the class persist every parameter. `settings set` accepts
  a FLOAT of 1e31 or more, `format_entry()` prints it into 32 bytes (`RobotSettings.cpp:113`), and the next boot reads a number
  that lacks its last digits.
* `LoadDiscardsEdits` (RobotSettings, `Settings`). `settings load` promises to discard unsaved edits, but parses over
  memory: a key whose line is missing, empty or invalid keeps its edit, and an absent file is written from memory.
* `SaveIsAtomic` (RobotSettings, `Settings`). A restart in the middle of a save, or a card that refuses the bytes, leaves an empty file, hence the defaults at the next boot.

Loosely worded rather than wrong: `Logger.h:111` has `flush_logs()` send everything "and then clear it"; by
`Logger.h:116`, `:191` and `Logger.cpp:210` it only moves the send cursor, as `RetainedUntilStored` requires.

### Seen while reading, and outside the models

* Loss of NVS restarts boot ids (`BallyRobot.cpp:452`), so an old requester's command may run again.
* `jobs.conf`, like `settings.conf`, is rewritten in place (2731).
* A BLE chunk may be notified to a newer central; frames queued while unsubscribed are not drained on
  re-subscription; failing advertising is not retried; the HELLO deadline is never enforced (`TcpBtpServer.h:83`); a
  serial straggler frame between the reset and the store of `connected_`; `stop()` waits for the server's task
  (`TcpBtpServer.cpp:98`), and one during `on_connect` can leave a node without a server.
* A `robot.state` change is lost when the ring is full (3395); leases of direct subscribers never expire.
* A link that `startDirect()` brought up is torn down by leaving DEBUG; a stale disconnect event fails the next
  candidate; `finish_update()` may fall into a later session.
* After an eviction two results before a pump overwrite each other; the responder's LRU stamps mix two clocks.
  (That two missed mutex waits, in `end_capture()` and the next `begin_capture()`, mix the outputs of two commands
  is in the model: it is the exception in `ResultsStayWithTheirOrigin`.)
* `fwrite()` is buffered, so a failing `close_stream()` loses records already released; `log_counter_` and
  `save_revision_` are incremented unsynchronised; `clear_ring()` and `reset_loop_counter()` have no caller; `flush_to_sd()` leaves an empty file
  when another consumer is busy.
* Outputs: `getValue()` of a flag writes back, which can undo a stop; a drive command is lost when a pass zeroes the
  duty between value and flag; presses are swallowed between a flag's expiry and its sampling.

### Not modelled

Of the modelled components: getters, logging, wording and most statistics; parsing and encoding are reduced to what they
accept and what they lose. The comms task's terminal output is one more producer of a direct link's queue, under the
same lock as those of `DirectLink`; a frame counts there as of the connection at its admission, not at the sender's own
look at the client before it. `TerminalResponder::push_async_output()`, `accept()` in hand while
`stop()` runs, the race of autoexec with an early script, and the settings appliers are left out. The test-then-open
race of the card stream is modelled and only fails the save. Components without a module are in `PROJECT.json` with the
reason; a module for motors, buttons and flags was tried, passed 27 million states with its smallest instance and
was left out.

## 6. What comes next

Of the plan these models were built along nothing is left: its components are modelled, their properties checked, and the
safety and action properties proved. What would add most from here:

1. The hazards without a property (`PROJECT.json`), each of which is a statement of section 5 that the code
   does not keep: a change to the code that repairs one turns its definition into a property of a run, and
   the invariant of section 4 says which part the repair has to keep.
2. `BtpTransport` and `components/btp`, once the submodule is in the tree: `CommandPath` models the dedup cache from its use.
3. Motors, buttons and flags, whose drive commands meet button presses without a lock, with a smaller abstraction than the
   one that was tried.
