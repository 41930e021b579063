# Verification of multi_cctv_object_detection

The program watches up to twelve ward cameras behind one recorder (NVR), runs a
YOLO detector on their pictures, evaluates alarm rules on what it sees, notifies
a robot over MQTT, and feeds a web page with overlays and a log.  This directory
holds TLA+ models of its concurrent and stateful parts, TLC configurations that
check them on small instances, and TLAPS proofs that hold for every instance.

Paths below are relative to the repository (`src/` here is the repository's root, so
the C++ sources are under `src/src/`).

* [Inventory](#inventory)
* [Plan](#plan)
* [Modules and how they correspond to the code](#modules)
* [Runs](#runs)
* [Fairness](#fairness)
* [Proofs](#proofs)
* [Findings](#findings)
* [What is not modelled](#not-modelled)

## Inventory

| component | code | state | operations |
|---|---|---|---|
| alarm manager | `src/alarm/alarmManager.cpp` | `active_channels` and `channel_cooldowns` (a time per channel, one mutex each), the shared counter `id` (no mutex), `id.bin`, the rules | `process_channel_alarms`, `is_channel_active`, `cancel_alarm`, `start_cooldown`, `is_on_cooldown`, the constructor that reads `id.bin` |
| alarm rules | `src/alarm/alarm.cpp` | none; reads a channel's history | `define_alarm` |
| channel routine | `src/main.cpp:256-520`, `src/cctv/getFrame.cpp` | per channel: `frame`, `sub_frame`, `detected_class`, the history (199 items), the staff count, overlay and picture files; two semaphores shared by all | one turn of the loop |
| process life | `src/main.cpp:88-254, 522-533`, `src/server/server.cpp` | `g_running`, the named semaphores, the threads, the log's mutex | start-up, joins, signal handler, log worker, staff reporter |
| log and feed | `include/config/logHandler.h`, `assets/resource/script.js:548-601` | fifty lines under a mutex, `app.log`, the page's `last_alarm` | `push`, `save`, `load`; poll and pop-up |
| MQTT manager | `src/mqttManager/mqttManager.cpp` | the client and its connection | `connect`, `publish` |
| overlay of the page | `assets/resource/script.js:93-168, 219-392` | what is remembered of a channel's file, a canvas and a border per cell, the polls on their way | tick, poll, answer, resize, new grid |
| robot control | `src/server/server.cpp`, `include/global.h`, `assets/resource/script.js:165-392` | sixteen atomic flags; checkboxes and dots of every page | POST, GET; click, (re)build of the grid |
| configuration | `src/config/Handler.cpp`, `configHandler.cpp`, vendored inih | the list of rules, read once | `read_conf`, `make_space`, `postfix`; the stack of `define_alarm` |
| data collection | `include/data_save/directory.h`, `src/main.cpp:482-505` | a folder per channel | save a pair, delete the oldest |
| modbus handler | `src/_modbus/modbus_handler.c` | built, called by nothing | init, start, stop, release, registers |
| queue and stack | `include/thread_safe/*.h` | included, used by nothing | push, pop, wait |

**How they interact.**  One thread per channel runs the routine.  It takes a permit of
`g_sem_image` around the request to the recorder and one of `g_sem_inference` around
the detector, then calls the one shared alarm manager, which publishes through the one
shared MQTT manager and pushes to the one shared log; it then reads back whether its
alarm is active and writes the overlay file.  The log worker saves the log every five
seconds, the staff reporter reads every channel's count and publishes it.  The HTTP
server's threads set the mute flags that `publish` reads.  nginx hands the files to the
page.  A signal handler runs on top of whichever thread the system picks, pushes to the
log and clears `g_running`, which every loop tests.

**What is hard.**  Shared memory without a lock (`id`, `g_running`); decisions taken
under a lock and used after it; a notification, its cooldown and its active entry set in
three separate steps around a network call; permits that must survive every `continue`;
a signal handler that takes a mutex; threads that wait while the process is to stop; a
file truncated before the lock is taken and served meanwhile; polls that overtake each
other; pages that show what they asked for rather than what is; restarts between any
two steps.  `PROJECT.json` lists each at its line under `hazards`.

**What makes each part correct.**

* alarm manager: a channel is not notified twice within the cooldown; an alarm goes away
  only for staff and only after its grace, counted from the newest notification; one
  that persists becomes active again and one with staff in view is cancelled; the log's
  newest line tells what is active; the harm of a race over the numbers ends with the
  race, and the file is never ahead of what was sent.
* channel routine: no permit is lost; what is acted on is a report on a fresh picture
  or on the black one that stands in for it; the
  overlay tells the alarm; a stop ends every thread.
* process life: the log is used by one thread at a time, also by a handler, but
  for the loading at the start; threads start with full semaphores whatever an earlier run
  left; main does not end under running threads; a signal ends it.
* feed: no alarm that is still in the log is passed over, each pops up, and once.
* overlay: the file is only ever emptied, filled with lines of one flag and closed; canvas,
  border and what is remembered of the file agree through resizes, new grids, late and
  lost answers; the page ends up with the file as it was left.
* configuration: each block of `alarm.conf` is one rule with its own fields, and its
  condition holds on the pictures the file's header says.
* data collection: the newest samples stay, whole; what faults cost is bounded; a turn
  does not delete what it has just saved.
* modbus handler: no memory is used after its release, stop leaves no thread and returns.
* robot control: a page whose newest answer is the newest event shows the server's
  flags; a message that was sent, muted or dropped was so for a reason of that moment.

## Plan

1. `AlarmRules`, `AlarmManager`, its contract `AlarmContract`, proofs.  *Done.*
2. `ChannelRoutine`: permits, frames, the overlay, stopping; proofs.  *Done.*
3. `Shutdown`: start-up, signal handler, joins, semaphores; proofs.  *Done.*
4. `LogFeed` and `RobotControl`; proofs.  *Done.*
5. `AlarmConf`: `read_conf`, `make_space`, `postfix` and the stack of `define_alarm`.
   Proofs.  *Done.*
6. `OverlayFile`, the abstract writer of the overlay file, which `ChannelRoutine` is
   shown to implement, and `OverlayView`, the page that reads it; proofs.  *Done.*
7. `DataRetention`; proofs.  *Done.*
8. `ModbusHandler`; proofs.  *Done but for the register accessors.*
9. A composition of `AlarmManager` with `RobotControl`'s publish: an alarm the robot
   never got although the manager holds it active.
10. Proofs of the invariants that TLC alone had checked: `FaultsCostLittle`, and
    `EveryBlockIsARule`, `ConditionMeansWhatItSays` and the types of `AlarmConf`.  *Done.*
    Left: that `ChannelRoutine`'s one-step alarm call is what `AlarmManager` does.
11. `thread_safe_queue.h` and `thread_safe_stack.h`, included and used by no thread.

`AlarmRules` is extended by `AlarmManager` and `ChannelRoutine`; `AlarmContract` is an
instance inside `AlarmManager` (`Contract`), `OverlayFile` one inside `ChannelRoutine`
(`File(ch)`); `OverlayView` extends `OverlayFile`, so the page is checked against every
file that a routine may write.  `MC*` modules hold the values of constants
that a configuration cannot write.

<a id="modules"></a>
## Modules and how they correspond to the code

Definitions named as mutants in a comment (`\* Mutant of ...`) are not part of the
models: each replaces the definition after it, and the property it is listed with in
`PROJECT.json` then fails.

### AlarmManager, AlarmContract, AlarmRules

The program counter `pc[ch]` follows `process_channel_alarms` for each channel's thread.
A critical section is one action; the unprotected `id` has one action per load and per
store (`ScanHit` reads it for the message, `WriteIdFile` writes it to the file, `LoadId`
and `StoreId` are `id++`, `CheckWrap` and `ResetId` the test for `UINT32_MAX`), which is
what the build, without optimisation, can do; the data race is thereby a choice of
interleaving.  Opening `id.bin` truncates it (`OpenIdFile`), so a `Restart` may find it
empty.  `Log::load` brings back the log lines of earlier runs, of which the file may lack
the latest, so `lastLine` starts as anything.  Time points are ages that saturate, since only differences with `cooltime` and
the grace are compared; `Tick` is a second.  `NewFrame` is the caller's turn: the
detector's classes go to `detected` and to the history, cut as in `main.cpp:345`.

A condition is the set of pictures it holds on; `Persists` is the loop of `define_alarm`
over the last `frames_to_check` pictures.  The repository declares `frames_to_check`
nowhere, so it is a constant; the argument `persist_seconds` is not read.

`AlarmContract` knows only notifications, alarms held and seconds: notified no more than
once per cooldown, held before the next one, released after the grace.  `Implements` is
the refinement: `notified` is the age of the last publish, `held` the active entry,
`due` the channels between the publish and the active entry.

`sent`, `lastSent`, `repeated`, `overlapped`, `racing` and `sincePublish` are history
variables.  `racing` is TRUE from the moment two raises handle the counter at once until a
raise finds no other under way; `IdsSentOnce` is about all states outside such a race, also
those after one, and `sent` then holds what was sent since.

### ChannelRoutine

`at[ch]` follows the loop.  A picture is a scene (the classes in view), black, or empty;
`frame` keeps its value when the recorder does not answer, `sub_frame` becomes black
(`getFrame.cpp:36-41`), so an outage makes the thread infer on black pictures.
An answer that is no picture ends the process.  `Detect` stands for `inference`, which
reports the classes its network scores above a threshold: any set of `Reports` on any
picture, a black one included.  `evidence[ch]` runs along with the history and says of each
report which picture it is on and whether the recorder answered in that turn.  A call of
`process_channel_alarms` is one action here that keeps, adds or removes the channel's
entry: only this thread touches that entry, and when it raises is what `AlarmManager`
checks.  The staff count is 0 or 1.  The overlay file is truncated when it is opened and
filled a line at a time (`AddOverlayLine`), each line flushed, then closed; at the start it
may hold an earlier run's lines.  `stale` has the channels whose file is that old, or could
not be opened in the last turn that tried.

### OverlayFile, OverlayView

`OverlayFile` is what a reader can rely on: a file that is emptied, gets lines that all carry
one alarm flag, and is closed, or is abandoned by a killed program at any step.  A line is
its class; two detections of one class are one line, and coordinates are left out.  The
file of each channel in `ChannelRoutine` is an instance of it: `WritesOverlayFile`.

`OverlayView` is one cell.  A poll is served the file as it is at some moment and answered
in any order or never.  `lastText` and `emptyCount` are the page's `channelState`, which
outlives a canvas; `cell` is the canvas and its border, and whether the canvas has the
size of its cell (setting the size clears it).  A poll that was sent for a canvas that is
gone (`here = FALSE`) draws on nothing but still changes what is remembered: `crossed` is
TRUE from then until the current canvas is drawn on, and the properties except that case,
in which the code does leave the canvas behind until the text changes.  `emptyCount`
saturates at 2, the only value it is compared with.

### AlarmConf

A line of the file is its key, its number and the words of a condition; a word is a sequence
of atoms, since brackets may stick to their neighbours and `make_space` takes them apart.
`Join`, `Seen` and `NotSeen` write conditions the way the header of `alarm.conf` describes
(lines 5-17) together with the set of pictures they are meant to hold on, the reference
that `Holds(Postfix(MakeSpace(..)))` is compared with.  The two loops are `Turns` and
`Evaluate`: each says how the loop goes on from any state, which is what a proof about a
part of a condition needs.  A number in the file and a class are both digits, so `Numbers`
lies in `Class`, but for the one that `std::stoi` rejects.  A line that starts with `[` begins
an alarm whatever it was meant to be (`Marks`): a name, the end marker, or a condition in
square brackets, which therefore never reaches the compiler (`Opens`).  A blank line and a `risk_level` line
may stand anywhere; a number that `std::stoi` rejects and a
key before the first `[` end the process (`Die`).  Names and sentences are left out.

### DataRetention

The end of a turn that saves a sample: picture, label, deletion, and the label's stream
closed at the end of its scope, after the deletion, which writes the label once more.
The deletion lists the folder (`ListOldest`, with what it is to remove in `doomed`) and then
removes file by file (`RemoveOldest`).  Every write, the scan of the folder and every
removal may fail, the program may be restarted at any step, also between two removals, and
the clock, by which names, file times and the wait all go, may be set back.  Ties between
file times are broken in every way.

### ModbusHandler

`HandlerInit` to `JoinConfig` are the header's functions, split where a thread is created
or joined; `server[n]` and `config[n]` are the threads of the n-th start.  A thread inside a
call of libmodbus holds the context it was given; `misused` is set when a call, a
release or a return meets a freed one, and the behaviour ends there.  The caller follows
the order of the header's declarations, since no code in the program calls it.
Its `Init`, `Next` and the like bear the prefix `Modbus`, so that one module of proofs extends
it together with `RobotControl`.

### Shutdown

`at[t]` follows main and the workers, `handling[t]` is the stack of signal handlers on
top of thread t; a thread takes its own steps only when the stack is empty, which is how
a handler that waits for its own thread's mutex hangs.  The two signals may be delivered
once each to any live thread, also to one in a handler and to the server's thread.  A channel's turn is one step,
with or without a log line.  `sem` is what is under the two names in the system: at
the start anything an earlier run left.  `exit` tells apart main's own end
(second join, joinable thread destroyed: an abort both ways, which runs no destructors, so
the last save of `~Log` does not happen) and a crash: an exception that leaves main or a
routine (`Throw`: numbers of `app.ini` that do not parse, a picture that cannot be decoded),
or a list that a handler's push met in the middle of `Log::load`, which takes no mutex
(`ListBreaks`).

### LogFeed

The list, `save` as open (truncate; or the file cannot be opened, and nothing is saved),
lock, one line at a time, close; a poll copies the
file as it is at that moment; answers arrive in any order or not at all; `last_alarm` and
the search for it as in `script.js:576-595`: the new alarms of a text are the places after
the last one at which `last_alarm` stands, all of them if it stands nowhere.  `Restart` kills the program at any step and
loads what the file then holds.  A line is a number, which stands for its unique text,
and a level; the page itself is not reloaded.

### RobotControl

A click changes checkbox and dot at once and sends a POST; a GET is sent when the grid
is built.  Requests and answers are sets, so they overtake each other and may get lost.
`Publish` .. `Send` are the steps of `MqttManager::publish`: test the connection, test the
flag of `camera_id`, send, wait up to two seconds for the confirmation (an outcome of
"unconfirmed" is a message that is on its way all the same).  A failed first connection stays failed (the client is never
asked again); after a success the Paho client, external, loses and regains it.  The
staff report has no `camera_id` and cannot be muted.

<a id="runs"></a>
## Runs

| run | module | states | question and answer |
|---|---|---|---|
| `alarm_lifecycle` | `MCAlarmManager` | 104 k | One channel, seconds passing at any step, a restart with loaded log lines, an `id.bin` that may not open: types, spacing of notifications, grace, log against active entry, the contract; and under fairness a lasting condition has its alarm active again and again, staff who stay cancel. Holds. |
| `alarm_comment` | `MCAlarmManager` | | No alarm is looked for while one is active. Violated. |
| `alarm_ids` | `MCAlarmManager` | 1655 k | Two channels on the unprotected counter, two restarts: outside races, also after one, a number is sent once; without a race the file holds the last number or the one before. Holds. |
| `routine` | `MCChannelRoutine` | 514 k | Two channels on one permit, every fault, leftovers: permits, no report on a picture of an earlier turn, overlay against alarm, the file is written as `OverlayFile` allows, and everyone returns after the stop. Holds. |
| `shutdown_life` | `MCShutdown` | 113 k | Two signals on any threads, exceptions, leftover semaphores: the log's mutual exclusion, full permits, main last; and a signal ends the process unless its handler waits for its own thread. Holds. |
| `shutdown_signal` | `MCShutdown` | | A signal stops the program. Violated. |
| `feed` | `LogFeed` | 80 k | Torn, late, lost and overtaking answers, overflow, a crash: nothing is passed over, each alarm pops up in the end, and once when nothing disturbs the page. Holds. |
| `robot_mute` | `MCRobotControl` | 1196 k | Two pages, clicks, reloads, losses, a restart, a publish while the broker comes and goes: an undisturbed answer shows the server, outcomes have reasons. Holds. |
| `conf_rules` | `MCAlarmConf` | 4082 k | Every file of five lines, two numbers, every condition of up to four classes: types, blocks against rules, conditions against their meaning. Holds. |
| `overlay` | `OverlayView` | 271 k | Two polls, resizes, a new grid, a file being written: canvas, border and memory agree, one empty answer clears nothing, the page ends up with the file. Holds. |
| `retention` | `DataRetention` | 969 k | Two samples kept, two faults of any kind: the newest are kept, faults cost little, what was just saved stays. Holds. |
| `modbus` | `ModbusHandler` | 17 k | Two inits, three starts, any of them failing half way: memory, threads left, and stop returns. Holds. |

**Bounds.**  Every bound is a constant named in the module that uses it.

* Alarm manager: `CoolTime = 3` and `Grace = 2` (the code's default is 180 s and its
  `ALARM_GRACE_PERIOD_SEC` is 5) keep the cooldown the longer of the two, and let it start late
  and end while the alarm is active; `IdMax = 3` lets the counter wrap after three raises
  and still tells ahead by one from behind by one (`2` in the run that is not about ids); two channels
  are what a race needs, a third thread adds no access of another kind; a history of three
  with a window of two has pictures come, persist and leave.
* Routine: one permit makes two threads compete as seven would for six; the one report
  raises the first channel's alarm, never the second's, and lets staff cancel; a history
  of one picture and one report are enough for what the run asks, and the proofs cover
  every history and every report.
* Shutdown: two signals nest, on one thread or on two; one channel stands for any number,
  for which the safety properties are proved.
* Feed: two lines overflow with the third, two answers overtake.
* Configuration: five lines are a complete block and a part of another, with one stray
  line or a repeated key; two numbers tell a channel from an alarm's number, a neighbour's
  value from one's own and the first of two lines from the last; four classes on one level of brackets are every shape of
  condition the header describes, and the condition is read in a file of two lines, since
  what precedes it is overwritten.
* Overlay: two polls overtake each other, two empty answers are what clears a canvas,
  one new grid makes one old canvas; proved for any number of each.
* Retention: two samples kept, four time units and two faults make the deletion run in
  turns after a fault, and take two files of which either or both may stay; `Duration = 0` means that a sample is due in every later unit.
* Modbus: the second of three starts follows a failed one, the second init a release.
* Robot: cell 3 of 3 is the code's cell 16 of 16; two acts are a click and its undoing, a
  click and a reload, or two pages at once; one publish is enough, since publishing threads
  share nothing but what they read.

`CHECK_DEADLOCK FALSE` appears in three runs: in the robot run the bounded number of
clicks runs out, in the retention run time does, and in the modbus run the caller may be
done, or memory was misused and nothing is said of what follows.  A process that has ended stutters in `ChannelRoutine` and `Shutdown`
(`Finished`, `Stuck`; the latter also when a handler hangs and nobody else can go on), so
every other stop of all threads is a deadlock.

## Fairness

* One weak fairness condition per thread: the operating system runs what can run.
* `SF(Tick)` in `AlarmManager`: every turn of a thread's loop sleeps at least 50 ms, so
  time passes again and again.  `StaffCancels` holds of threads that run promptly
  (`PromptStep`: a call takes no time outside the publish, which waits up to two seconds),
  and only of those: a thread held up for the length of the cooldown between its
  two checks raises the alarm again before its grace is over, time after time.
* `SF(Lock(t))` in `Shutdown`: between two uses of the log every thread sleeps, so one
  that waits for the mutex finds it free again and again; pthread mutexes are not
  fair, and weak fairness would let a thread lose the race for ever.
* `ChannelRoutine` assumes nothing of the order in which a semaphore wakes its waiters:
  `StopDrains` needs only that holders go on, since a stopped thread does not come back
  for a permit.
* `LogFeed`: the log worker goes on; it sleeps five seconds and the page polls every
  three, so polls and answers meet it asleep again and again (`SF` on both), and not every
  whole answer is lost (`SF(DeliverWhole)`).
* `OverlayView`: the page's timer ticks (`WF(Tick)`); the server goes on answering and not
  every answer is lost (`SF(Serve)`, `SF(Arrive)`; strong, because a poll may be lost
  before it is served).  None on the writer: the property is about a file left alone
* `ModbusHandler`: the threads and the rest of a call go on (weak fairness each); none on
  clients, so `StopReturns` says which client can keep stop from returning.
* No fairness on faults, signals, clicks, restarts or frames with a certain content.

<a id="proofs"></a>
## Proofs

`tlapm` checks every proof from nothing with Z3, Zenon and LS4; there are no unproved
steps.  The assumptions are the named `ASSUME`s of the modules, no more, except that
`ConditionsMean` supposes a file whose conditions are made as `alarm.conf` describes.  So
the theorems hold for sets of channels, pages and classes of any size (finite where permits
are counted), any cooldown and grace, any width of the counter, any length of log, history,
file, condition and folder, any number of restarts, signals, faults, polls, clicks and rules.

**Alarm manager** (`AlarmManagerProofs`)

| theorem | statement | how |
|---|---|---|
| `TypeCorrect` | `[]TypeOK` | by itself inductive |
| `SpacingKept` | `[]RaiseSpacing` | `IInv`: types, and for each channel that the cooldown, where there is one, is no older than the last notification, that a notification which is not covered by a cooldown is one whose thread is still on its way to start it, or is older than the cooldown time, and that a thread about to cancel saw what justifies it |
| `GraceKept` | `CancelRespectsGrace` | the same `IInv`: only a channel's own thread changes its entry (`ActiveChangers`), so what it saw before it released the lock still holds, and entries only grow older |
| `ManagerImplementsContract` | `Implements` | each step maps to one of the contract's or to a stutter; `IInv` gives `Notify` and `Release` their guards |
| `GraceIsNewest`, `LogAgrees` | `[]GraceFromNewestNotification`, `[]LogAgreesWithActive` | `RecordInv`: between a notification and its entry the channel still has the entry of the one before, or none, and log line and entry are one step apart in either order; so `Notified` and `Logged` say for each `pc` what is already true there |
| `IdsAreSentOnce` | `[]IdsSentOnce` | `RaceInv`: even in a race a thread that has moved the counter to the largest number is on its way to look at it, and only a race writes that number to the file.  `IdInv`: outside a race only one thread is where ids are handled, its copy of the counter is what it reads, and every number sent since is below the counter, or equal to it until the counter is stored back; a wrap, and the end of a race, forget what was sent |
| `IdFileIsNotAhead` | `[]IdFileNotAhead` | `FileInv` on top of `IdInv`: file, counter and last message are at most one apart in this order, modulo the wrap |

**Channel routine** (`ChannelRoutineProofs`)

| theorem | statement | how |
|---|---|---|
| `TypeCorrect`, `PermitsKept` | `[]TypeOK`, `[]PermitsConserved` | together inductive: the range of a semaphore's value needs the sum, the sum needs the range; lemmas `Enter`, `Leave`, `Stay` count the threads in a region |
| `OverlayWritten` | `WritesOverlayFile` | the file is initially one an earlier run left, and every step empties it, adds a line, closes it or leaves it alone; `FlagInv` gives that all lines of a turn carry one flag |
| `FreshKept` | `[]DetectionsAreFresh` | `PictureInv`: while a thread is about to infer, `sub_frame` is of this turn's answer or black; `FreshInv`: history and evidence are pushed and cut alike |
| `OverlayTells` | `[]OverlayTellsAlarm` | `TellInv`: from the reading of the flag to the last line the flag is the alarm's, since only this thread changes its entry, and with `FlagInv` the lines carry it |

**Process life** (`ShutdownProofs`)

| theorem | statement | how |
|---|---|---|
| `TypeCorrect`, `LogGuarded`, `PermitsFull`, `ProcessOutlivesWorkers` | `[]TypeOK`, `[]OneInLog`, `[]PermitsStartFull`, `[]EndsAfterWorkers` | `IInv` adds where main is when which threads exist and have returned, and what the semaphores hold then, so that during the load nobody but a handler can be in the log; a handler's frames are added and removed at the end of a sequence of any length |

**Log and feed** (`LogFeedProofs`)

| theorem | statement | how |
|---|---|---|
| `TypeCorrect` | `[]TypeOK` | by itself inductive, with what `Trim` and the removal of an answer do to a sequence (`TrimIs`, `RemoveAtIs`) |
| `NoneSkipped` | `[]NoAlarmSkipped` | `TextInv`: the list, the file and every text on its way are in order, hold nothing that was not pushed, and miss no line that is still held and is older than one of theirs; so the alarms that a late or torn text does not have are newer than all it has, or gone |
| `PopsUpOnce` | `[]AlarmPopsUpOnce` | `OnceInv`: what has popped up is no newer than `last_alarm`; and of every line the page knows, the list, the whole file and the texts asked for later have that line or newer ones only.  So a `last_alarm` that a text does not have is older than all of it |

**Robot control** (`RobotControlProofs`)

| theorem | statement | how |
|---|---|---|
| `TypeCorrect` | `[]TypeOK` | by itself inductive, the messages on their way included |
| `PageShowsServer` | `[]AnswerShowsServer` | `AnswerInv`: an answer that nothing has made stale carries the flags the server has now |
| `OutcomesHaveReasons` | `[]OutcomeHasReason` | `SeenInv`: a publish under way has recorded what is true now, one about to send has found its camera unmuted, and nobody publishes before the first connection was tried |

**Overlay of the page** (`OverlayViewProofs`)

| theorem | statement | how |
|---|---|---|
| `CanvasFollowsMemory`, `BorderFollowsBoxes` | `[]CanvasShowsLastText`, `[]BorderTellsBoxes` | together inductive: a tick that clears an unsized canvas leaves the border alone, which is right only since nothing was on it |
| `TypeCorrect`, `OneEmptyKeeps` | `[]TypeOK`, `OneEmptyAnswerKeepsBoxes` | `CountInv`: the page counts an empty answer only if the last one was empty, a counter that a canvas which is gone shares with the current one |

**Training data** (`DataRetentionProofs`)

| theorem | statement | how |
|---|---|---|
| `TypeCorrect`, `OwnSampleKept` | `[]TypeOK`, `OwnSampleSurvives` | `IInv`: while the clock runs forward every file is written no earlier than its name says, and in a turn only the files of the sample in hand are as new as its name; two files stay after a deletion (`TwoStay`), so one of the sample's two can be deleted only if a file as new as it is somebody else's |
| `NewestKept` | `[]NewestSamplesKept` | `WholeInv`: without a fault the files are those of whole pairs and of what the turn has written so far, each sample is later than the last write of the one before, and what was deleted is older than what stays, which is then as much as there may be; `OldestPair`: the two files with the oldest times are the pair of the oldest sample |
| `FaultsCost` | `[]FaultsCostLittle` | the number of halves, `HalvesInv`: the samples fall into epochs, one from the start and one from each restart or setting back of the clock in a turn; a deletion goes by the order of the last writes, which within an epoch is the order of the samples (`Ordered`), so it cuts no more than the oldest sample an epoch still has (`OldestCut`), and the sample a fault falls on is exempt.  That leaves one half too many (`Budget`), which the property grants while a turn is removing; but a turn that has removed all it was to leaves an even number of files, hence of halves, unless a removal failed, and then that fault pays (`Removing`, `LooseFew`).  The number of files (`FolderLimit`): a turn adds two and dooms whatever is beyond the limit; each removal that fails or is never reached is paid by its fault |

**alarm.conf and its conditions** (`AlarmConfProofs`)

| theorem | statement | how |
|---|---|---|
| `EveryBlock` | `[]EveryBlockIsARule`, for files of plain blocks | `FileInv`: at every line the rules there are, with the one under construction as the last, agree with the blocks begun, an end marker or a condition in square brackets counting as one; a block is found by its rank among the lines that begin one, and a line belongs to the last block (`OtherLine`) or begins another (`NewBlock`) and changes nothing of what the others say |
| `ConditionsMean` | `[]ConditionMeansWhatItSays`, if every rule of the file is `Written` | the third part of `FileInv`, that a rule's condition is what the last compiled line of its block makes of it, and `WrittenHolds`, below |
| `TypeCorrect` | `[]TypeOK` | with the type of the lines inductive; `PostfixType`: whatever the words are, only classes, operators and opening brackets come out |

`WrittenHolds` is about the compiler alone, for conditions of any length and depth.  A loop
over a sequence is a `Run`, and a run on two stretches in a row goes on where the first
ended (`RunConcat`); `FlattenSeq`, `Turns` and `Evaluate` are such runs.  A part of a line
`Compiles` to what it puts out (`out`) and what it leaves on the operator stack (`pend`)
when postfix does just that from every state, and when `out` followed by the reverse of
`pend` puts one value, the part's, on top of any values of `define_alarm`.  A class does
(`SeenCompiles`, `NotSeenCompiles`), two parts with a word between them do (`JoinCompiles`:
the operators of a chain wait until its end, so it groups to the right, which is the same
for one word), and a part in brackets does (`GroupCompiles`).  `Written` is the least set
with the classes that is closed under joining; since the parts that compile are closed
too (`GoodIsClosed`), all that is `Written` compiles.

The hypothesis of `ConditionsMean` is about the file: its conditions are made as its header
describes.  `ClassIsWritten` and `JoinIsWritten` say how a condition comes to be `Written`,
`RoundIsWritten` that with the header's round brackets nothing else is asked.  `postfix`
also takes `{` and `[` but leaves them on its stack, so a part in such brackets may not
contain a bracket of its own kind: `{A or {B and C}} and D` puts out its words in a wrong
order.  Every condition of `MCRules` and `MCLongRules` is `Written`.

**Modbus handler** (`RobotControlProofs`, at its end)

| theorem | statement | how |
|---|---|---|
| `TypeCorrect`, `MemoryUsedSafely`, `NoThreadLeft` | `[]TypeOK`, `[]MemorySafe`, `[]StopLeavesNoThread` | `IInv`: a thread that runs is the one its handle names, and its start is not stopped to the end; every step of a server thread is one `ServerGoto` (`GotoKeeps`) |

The inductive invariants were first checked by TLC on the runs' instances.  Where a proof
wants the oldest or the last of something, or what a loop computes after any number of
turns, it takes a least element of a set of numbers (`Least`, `MaxIsThere` and `UpTo`, from the
well-foundedness of `<` on the naturals): the induction theorems of the library take an
operator as a parameter, which the provers cannot instantiate, this one takes a set.  The type invariants of `ChannelRoutine`, `Shutdown`,
`DataRetention` and `ModbusHandler` are proved and no longer part of a run.

**What TLC alone checks, and why.**  Liveness (`AlarmIsRaised`, `StaffCancels`,
`StopDrains`, `SignalEndsProcess`, `AlarmPopsUp`, `OverlayReachesPage`, `StopReturns`): the
prover has no rules of fairness.  Every invariant and action property of a passing run
is proved, and both refinements (`Implements`, `WritesOverlayFile`).

## Findings

The first and the fourth have a run whose counterexample shows them and an entry in
`PROJECT.json`; the others follow from one or two steps of a model and have no run.

1. `shutdown_signal`: a signal that interrupts `Log::push` or `Log::save` hangs its thread: the
   handler pushes to the log before it clears `g_running`, so nothing stops
   (`main.cpp:526`).
2. `staff_thread` is joined twice: every orderly end of the program is an abort, before
   the semaphores are unlinked (`main.cpp:185`, `Shutdown!JoinAgain`),
   although `main.cpp:188` and `194` announce the unlink and its end.
3. A recorder's answer that is no picture ends the program; the line that would replace it
   by a black picture comes after the throwing `cv::resize` (`getFrame.cpp:29`,
   `ChannelRoutine!CaptureUndecodable`).
4. `alarm_comment`: an alarm is raised again while it is active, against the comment above
   the check (`alarmManager.cpp:143`): only the cooldown is asked.
5. Cell 16 of the default grid cannot be muted: sixteen flags are numbered from 0
   (`global.h:8`; `RobotControl!Settable`).
6. `alarm.conf` describes an end marker `[/name]` (line 12), which
   `read_conf` makes another alarm without a condition (`configHandler.cpp:28`), as it does
   with a condition that starts with a square bracket.  The key `risk_level` (line 7) it
   compiles as a condition, which overwrites the real one when it comes after
   it (`configHandler.cpp:56`).  A line with only blanks, or a lone `\r`, does the same.
   `EveryBlockIsARule` is about files without such a bracket, `ConditionMeansWhatItSays`
   about blocks without such a line.
7. Conditions outside the header's description mean something else than they look like:
   a chain of `and` and `or` without brackets groups to the right, `not` before a bracket
   reaches one class only, an unmatched `)` pops an empty stack, and `{` or `[`
   inside a bracket of its own kind ends the wrong one (`Handler.cpp:57-101`).
8. An alarm without a detection in the last picture has no line to carry its flag: the
   cell's border goes away although the alarm is active (`main.cpp:439-467`).
9. Two polls in a row that both meet the emptied overlay file clear the
   cell, although `script.js:255-256` promise that flickering is shut out (`main.cpp:432`);
   one that meets a part of the file draws that part.  An answer to a removed canvas is remembered and never drawn on
   the new one until the text changes (`script.js:277`; `crossed` in `OverlayView`).
10. After one failed write, removal or crash the training folder's number of files stays
    odd, and later turns cut pairs (`directory.h:104`); when the clock is set back, the
    sample just saved is deleted as the oldest (`directory.h:110`).  While a camera is away
    its last picture goes on being saved, with an empty label (`main.cpp:379, 495`).
11. `modbus_handler_init` leaves a dangling context behind when there is no memory for the
    mapping (line 48), `modbus_handler_start` forgets the server thread when it cannot
    create the other one (136), and `modbus_handler_stop` waits for a silent client (217).

12. `Log::load` fills the list without the log's mutex after the signal handlers are
   installed (`main.cpp:92-93, 109`; `logHandler.h:83-88`): a signal in that moment lets the
   handler's push meet the list half changed (`Shutdown!ListBreaks`).
13. After a restart the newest log line of a channel may announce an alarm that nobody
   holds active any more (`main.cpp:109`; the exception in `LogAgreesWithActive`).

Smaller ones: `return 1` after a failed `sem_open`
destroys a `Server` whose thread is joinable and aborts (`Shutdown!DestroyServer`); a poll that
meets `app.log` between its truncation and its last line pops old alarms up again
(`disturbed` in `LogFeed`); a click whose request is lost shows a mute the server does
not have until the grid is rebuilt (`synced` in `RobotControl`); the cooldown of a
channel suppresses its other alarms too.

## What is not modelled
<a id="not-modelled"></a>

Planned: the queue and stack, which have no caller, and modbus's four register accessors
(`modbus_handler.c:157-186`), which write one number each.

Left out: the detector's numerics (`inference.cpp`: no state of its own), the vendored INI
reader, box arithmetic and drawing, message and log texts, time stamps, CSS and HTML, the
RTSP capture class (its pointer stays null), files that are not built (`prev_main.cpp`,
`iniHandler.cpp`, `legacy/`), `MqttManager::disconnect` and the `connect` without
arguments (no caller), the OPTIONS handler and malformed JSON (no state).  `g_running` is
a plain `bool`; it is modelled as memory that every loop rereads, which holds as long as
each turn calls functions the compiler cannot see through.
