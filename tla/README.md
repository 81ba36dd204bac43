# hydro-logger: a formal model

TLA+ modules of the hydro-logger firmware, the TLC runs that check them on small
instances, and TLAPS proofs of the results that hold for every instance. Paths below are
relative to `src/main` unless they begin with `src/`.

## 1. The system

An ESP32 (two cores, FreeRTOS) measures a water level every ten minutes, and sends what it
has measured once an hour, over a SIM A76XX modem or over Wi-Fi (the "DCOM" module). Between
two measurements it is in deep sleep: RAM is lost, and only the interrupt line of a PCF8563
real-time clock wakes it. So every boot is one *cycle*: restore the queues from flash,
measure, perhaps send, program the next alarm, sleep.

| part | state it keeps | operations | model |
|---|---|---|---|
| persistent queue mirror (`middleware/persistent_queue_mirror.hpp`) | a FreeRTOS queue, a shadow vector, a snapshot file on SPIFFS | `init` and restore, `enqueue`, `peek`, `ack`, `persistSnapshot` | PersistentQueue |
| message bus (`middleware/message_bus.*`, `publish_api.*`) | two mirrors, measurements and logs | publish, peek, ack | DurableQueue, WakeCycle |
| `app/scheduler_task.cpp` | none between cycles | notify, poll the busy bits within a budget, program the alarm, sleep | WakeCycle, RtcAlarm |
| `app/measure_task.cpp` | bits of AppState | read the time, measure, publish sample and session log | WakeCycle, Report |
| `app/sync_task.cpp` | bits of AppState | warm up a module, set the time, early OTA, wait for the flush, drain, send logs, late OTA, power off | WakeCycle, Report |
| `app/failover_task.cpp` | a request queue of length 1, the preferred module in NVS | swap the preference, log it | WakeCycle |
| OTA service (`services/ota/ota_service.cpp`) | two firmware partitions, otadata | version check, up to three attempts, restart | WakeCycle, OtaDownload |
| boot (`app/app_main.cpp`) | otadata's "pending verify" | mark the image valid, clear the alarm, restore the queues, start the tasks | WakeCycle, RtcAlarm, OtaDownload |
| SIM 4G module (`services/connectivity/sim4g_module.cpp`) | `http_inited_`, power line, the APN in NVS, the modem's own session and context | powerOn, checkInternet, sendPayload, httpGet, downloadOtaImage, powerOff | SimNetwork, SimHttp, OtaDownload, Connectivity |
| sensors (`modules/sensor/sensor_manager.cpp`, `ultrasonic_sensor.cpp`) | the UART's receive buffer | warmup, read3 with its repeats | Ultrasonic |
| DCOM Wi-Fi module (`services/connectivity/dcom_module.cpp`) | `wifi_started_`, two event bits, the station | powerOn, checkInternet, powerOff, wifiEventHandler | DcomWifi, Connectivity |
| connectivity manager (`services/connectivity/connectivity_manager.cpp`) | `active_`, preference | warmup, tryModule | Connectivity, WakeCycle |
| boot diagnostic (`app/diagnostic_task.cpp`) | an event group, the semaphore app_main waits for | two parallel tests, decision, time sync, window, delay | Connectivity, Report |
| RTC (`modules/rtc/pcf8563.cpp`, `rtc_pcf8563.cpp`, `common/time_utils.cpp`) | registers of the chip | init, clearAlarmFlag, setMinuteAlarm, set/get time | RtcAlarm, RtcTime, Report |
| session log (`services/logging/log_buffer.cpp`, `log_service.cpp`, `services/pack/json_packer.cpp`) | a buffer of 1024 characters and its length | clear, vappendf, publish, packLog | SessionLog, Report |
| power manager and IO pins | pin levels | init, setters, enterSafeMode, deepSleep | Connectivity |
| laser and pressure sensors, configuration console, NVS store, HTTP client, the rest of the JSON packer, board drivers, bench tests | | | not modelled, see section 8 |

How they interact: tasks notify each other (scheduler to measure and sync), share the bits of
`AppState`, and share the two mirrors, which nothing locks; `sync_task` hands a failed module
to `failover_task` through a queue of length one; the SIM driver talks to its modem over a
UART, the Wi-Fi driver to `checkInternet` through event bits set in another task. The chip
itself comes and goes: deep sleep, an OTA restart and power loss are all resets, and may come
while any task is inside a call.

What is hard about it:

- three tasks on unlocked mirrors, whose calls are a queue operation, a vector operation and a
  file that is truncated and rewritten;
- a reset in the middle of a snapshot, or between a send and its ack;
- a scheduler that polls bits, with budgets, beside tasks it does not wait for;
- an alarm computed from one time and armed, three transfers later, at another;
- modem answers that come after their wait, are cut in two, or overlap the next command;
- an image fetched in windows over a UART that may lose bytes, into the only slot beside the one
  that runs, with a reset possible at every step and a trial boot after it;
- two tests of the modules that nobody joins, beside tasks that use the same modules;
- Wi-Fi events handled in their own task, late;
- one deadline shared by two APNs, beside commands that do not look at it;
- a sensor whose answer comes after its wait, in part;
- a time kept in BCD registers, compared over every rollover with an answer that may be cut short;
- a log that fills its buffer, and is then copied and escaped by a length of its own.

`PROJECT.json` lists each of these hazards at the line where it bites with the properties
that are about it.

## 2. The modules

| module | what it models | proofs |
|---|---|---|
| `DurableQueue` | abstract specification: a bounded FIFO and what a crash brings back of it | |
| `PersistentQueue` | the mirror at the grain of its queue, vector and file operations: any number of producers and one consumer with no lock, resets and failing writes; implements DurableQueue | `PersistentQueue_proofs` |
| `WakeCycle` | one boot after another: scheduler, measure, sync and failover tasks, the mirrors as DurableQueue allows them, OTA attempts, budgets, sleep, restart, power loss | `WakeCycle_proofs` |
| `RtcAlarm` | the PCF8563's minute, alarm, AF and AIE, every I2C transfer that touches them, and the clock running beside | `Devices_proofs` |
| `FirmwareSlots` | abstract specification: two firmware slots, one of which is always a whole image | |
| `OtaDownload` | version check, attempts, windows, sub-blocks and bytes of a firmware image over the modem; the boots after it, trial and rollback; implements FirmwareSlots | `OtaDownload_proofs` |
| `RtcTime` | operators: BCD registers, `setDateTime` and `getDateTime`, differences of times, the calendar | |
| `SessionLog` | operators: the log buffer, its copy into a record, the JSON string made of it | |
| `Report` | cycle after cycle: stamp, log, time sync with the server, what the server reads; uses RtcTime and SessionLog | `Report_proofs` |
| `SimNetwork` | `powerOn` and `checkInternet` of the SIM module, command by command, in tenths of a second: handshake, card, registration, carrier, one APN and then the other, the modem's context | `SimNetwork_proofs` |
| `SimHttp` | HTTP over AT commands: chunks, tokens, waits that end early, the modem's session | `Links_proofs` |
| `Connectivity` | the power lines of both modules: diagnostic, window, warmup, sleep; second by second | `Connectivity_proofs` |
| `DcomWifi` | `checkInternet`'s bits, the event handler and the station | `Links_proofs` |
| `Ultrasonic` | a Modbus exchange byte by byte, what parses as an answer, and `read3`'s readings and repeats | `Devices_proofs` |

`MC<module>` extends the module with the values of its constants. `Devices_proofs` is about the two
devices on a bus, RtcAlarm and Ultrasonic, `Links_proofs` about the two ways out, DcomWifi and
SimHttp; to be extended by one module with another, Ultrasonic and SimHttp prefix the names of their
specifications (`USSpec`, `HttpSpec`). Composition: PersistentQueue implements DurableQueue
(`RefinesDurableQueue`); WakeCycle takes both mirrors to do what DurableQueue allows them.
OtaDownload implements FirmwareSlots (`RefinesSlots`); it takes a command to have an outcome, which
SimHttp looks into. WakeCycle takes an OTA attempt to have an outcome and a duration, which
OtaDownload looks into; a measurement to have an outcome, which Ultrasonic looks into; and a sample
to have the number of its cycle for a time, which Report looks into. Connectivity takes a check to
have an outcome and a duration, which DcomWifi looks into for Wi-Fi and SimNetwork for the SIM
(`InTime` is the duration).

A mutant is an operator `<Name>_<Change>` before the definition it stands in for; it is part of
no specification and says what a plausible bug of that code would be.

### PersistentQueue
`ram`, `shadow` and `file` are the FreeRTOS queue, the vector and the file; each client has a
program counter at the operation it is about to make inside `enqueue`, `peek` or `ack`, and clients
interleave at every operation, as in the code. A write is a header and records, and `fwrite` hands
them to stdio and SPIFFS, which hold back up to `Buffered` of them (`buffer`): a reset leaves a
prefix, and so does an `fopen` or `fwrite` that fails, which the caller is told. Nobody looks at the
last `fflush` and `fclose`: when they fail, `persistSnapshot` returns true, and what was held back
is not on flash (`saved` is then "short"). A boot may find SPIFFS not mounted, format it, or read
only the first records ("unread"). `torn` is history: since boot, two calls have overlapped. Two
operations on one vector that overlap are undefined behaviour: the vector may then hold any messages
it has room for, and so may its file. DurableQueue promises accordingly: the queue in RAM stays a
FIFO whatever happens; a call that returned true is on flash but for the newest `Slack` messages at
most; one under way or failed leaves a prefix of the queue or what was there; a boot brings back
that or less, oldest first; after an overlap, anything. So true does not mean saved: when the
snapshot is no larger than the buffers, a failing flush leaves nothing of it, though the call
returned true.

### WakeCycle
One action per step of a task between two points where another task can see or disturb it. A mirror
call is two steps: the RAM queue changes as it begins, flash when it returns. A reset inside it, or
a write, flush or close that fails (`CallFails`: no caller looks at the result, so it is no matter
whether it told), leaves what DurableQueue allows; so does a boot that does not read all there is
(`WakeMisreads`); two calls that overlap leave anything made of the messages at hand.
`failover_task` publishes its log on the unlocked mirror at any time, which is the overlap the
firmware can meet. Assumptions, each from the code: `measure_task` has set its bit within the 100 ms
the scheduler waits; `sync_task`, which reads the RTC first, may set its own later than that, but a
warm-up, which takes seconds, that the scheduler has not seen does not end before deep sleep; a
measurement ends within the 18-minute budget (the slowest sensor needs about 200 s); one that
outlasts the 45 s of the flush wait (the ultrasonic build needs about 34 s when it works, up to
about 190 s when it fails) or runs beside an OTA restart is `overtaken`; the rest of a cycle takes
the 3 minutes `config.hpp` gives it, and an attempt one of `AttemptMinutes`. `MaxTrouble` bounds
power failures, snapshots that failed or were not read, and overtaken measurements together. When
the drain window expires is left open. What becomes of a log that was sent is not recorded.

### RtcAlarm
Every transfer of `pcf8563_init`, `clearAlarmFlag` and `setMinuteAlarm` is an action that may
fail, with or without its effect. From the data sheet, as the driver uses it: AF is set when
the clock advances to the alarm minute, never by writing the register; INT is low while AF and
AIE are set. `MayRoll` bounds the minutes that pass in each phase of a cycle: none or one while
the alarm is programmed (it takes milliseconds, or 100 ms per failing transfer), one while the
chip starts, an hour and a minute in the work. A boundary that passes while the chip is awake
is no wake-up missed. The time sync may set any minute.

### SimNetwork
`step` is the command the driver is at, `now` the tenths of a second since `powerOn` and then since
`checkInternet` began. A wait of t is made of reads of 200 ms (300 for AT+CIMI), so it ends with a
read (`Reads`), found or not; `Clamp` is `clampTimeout`. `Lags` are the times the modem may take:
an answer after the wait is not seen, but the command may have been obeyed. `card` is the card's
carrier as the driver's table tells it, `works` the APNs the network accepts from it. External: the
modem, whose context is down when it is powered (`powerOff` cuts its supply), whose definition of
context 1 is kept, and whose active context AT+CGACT=1,1 leaves as it is. The modem is taken not to
lag by a whole command here, which SimHttp looks into. Not modelled: UART writes that fail.

### SimHttp
The driver's `step` is a command with its wait, in the order of `httpInitAndSetBearer`,
`sendPayload` and `httpGet`. Tokens are on the wire, then in the UART buffer (`rx`);
`readLineSim` takes a chunk, `waitForToken` drops chunks without its token. The modem is
external and does what the driver's comments say it does. `SlowModem` lets a wait end before
its answer, and `MaxBehind` bounds by how many commands the modem may lag when one does. With five,
which is checked over three calls, a call is never answered for another; with six TLC finds `httpGet`
returning an earlier call's body, while `PostDelivered` still holds over three calls with seven. Beyond
that nothing is claimed. `behind` is history: since the modem was powered on, a wait ended before it
had taken up the command. Until then, proved for any number of calls (section 6), its answers may
still come as late as they like. The driver waits one to five seconds for most commands, so a modem that
is six commands behind has been silent for some ten seconds.
Not modelled: a body that contains "OK", UART writes that fail, a number cut so that it still
parses.

### OtaDownload
One token per byte, header or line end. How the modem cuts a window into sub-blocks is chosen as
late as possible, which the driver cannot tell. `clock` counts reads of up to 8 s. A range answer
may be shorter than the range (`ShortWindows`), longer, up to the rest of the file (`LongWindows`:
the driver takes over the length the modem tells), or the whole file from its start, from a server
that ignores ranges (`WholeFile`). `esp_ota_begin` erases what the probe told and refuses while the
running image is on trial (`MayBegin`); `esp_ota_write` fails past the partition's end, not past
what was erased. `running` and `flash` are the two slots, `boot` is otadata: run the slot that runs
now, the other one, or this one on trial. External: `esp_ota_end` accepts what is one whole image,
and the bootloader goes back from an image that boots a second time without having been marked
valid. A reset (power, a crash, deep sleep within a download) may come anywhere, any number of
times. Marking the new image valid may fail, which `app_main` does not look at: it then stays on
trial. The version the server tells is taken to be the image's own. After a rollback that version is
new again, and the image is downloaded again in the next cycle: nothing remembers that it failed.

### Report, RtcTime, SessionLog
RtcTime has the masks, the BCD digits and the century bit of `pcf8563_setDateTime` and
`_getDateTime`, the narrowing of `RtcBase::setTime`, the comparison in `syncTimeWithRetry` and the
diagnostic, and the chip's counting. SessionLog has `vappendf` with the return value of `vsnprintf`,
the copy into a `LogMsg`, `packLog`'s escapes, which let every control character but the ends of lines
through, and a reader of JSON, which does not take one. Report runs them: the first boot compares and
sets the time in each round of its diagnostic window, or hears nothing for the 30 s to the next; a cycle
stamps its records with what the RTC reads (or the default `DateTime` of 2026-01-01 if the read
fails, which nobody looks at), logs, compares the RTC with the server's time and sends. Answers may
be cut short and still be six numbers; a transfer that sets the time may stop half way; the RTC
gains or loses `Drift` seconds a cycle, may lose its power, and starts off by any of `Errors`.
`doubt` is history: by how many seconds the RTC may be off, a day meaning anything. The weekday is
left out (written as 0, never used). In 2100 chip and driver have a 29 February and the server does
not: starts are before it, and the proof takes chip's and server's calendar to be the same one.
`InRange` ends the model before 2199, where the two digits and the bit do.

### Connectivity
`line` is the level of the two power pins, `doing` what each user of a module does: the diagnostic's
two tasks (named after their modules) and the sync. `age` is the whole seconds a party has spent in
its phase; nobody stays past the last second of a phase, so `Tick` is enabled only if all may wait.
Durations: SIM power and handshake 5 to 18 s; LTE configuration 6 and check 40, past whose deadline
AT+CSQ, AT+CIMI and AT+COPS wait on their own for 8 more, and the last clamped wait for a read, if
unanswered (`InTime` of SimNetwork); DCOM power 1, Wi-Fi wait 60, settling 5; diagnostic wait 60,
grace 3, delay 10, and a window of at least 180. `SimCheckMax` is how long a SIM check takes to
fail: 48 if those last commands are answered, 55 if the modem is silent, the runs' value (any value
from 46 on is allowed). A test that then outlives the diagnostic goes on beside
sync_task, and the two may switch one modem (`LateTest`). The preference is any
module at each warmup. A warmup is never cut by sleep (it is far shorter than the budget); a session
may be.

### DcomWifi
The handler's queue of events, the two bits and the station. Between `powerOn` and the wait
there are 600 ms of delays and the event task has the highest priority, so a use begins with no
event left. `esp_wifi_connect` only acts on a started idle station. The one-time start of the
Wi-Fi library succeeds. `Losses` bounds what the access point and the driver may fail.

### Ultrasonic
The sensor's answer is three bytes, one with each register used and one with the checksum; they
arrive one by one, are lost or spoilt, or come after the driver has given up. Taken as given: the
frame's fixed bytes and its CRC tell the bytes of one frame from any mixture, and the sensor answers
a request once. Registers are any 16 bits, and the level is their difference modulo 2^16.
`MaxFaults` counts what goes wrong: a request unheard, a byte lost or spoilt, a wait that ends with
bytes on the way. The sensor of another build, and the sensor's power line, are not here.

## 3. The runs

Every "pass" run finishes; every property has a mutant of the code that violates it.

| run | bounds | shows |
|---|---|---|
| `queue` | 1 producer, consumer, 2 interchangeable items, capacity 3, 2 records held back, failing opens, writes, flushes and reads, and resets anywhere | `HeldIsHead`: with no lock an ack still removes the very item that was sent; `MirrorAtRest`: unless calls have overlapped, at rest the vector is the RAM queue and a snapshot reported as written restores it, but for the records an unseen flush failure cost; `RefinesDurableQueue` |
| `cycle` | 3 cycles, 2 samples and 1 log queued at most, attempts of 15 minutes, one power failure, snapshot failed or not read, or overtaken measurement at any step | `InOrder`, `RepeatsBounded`, `NothingLost`, `TopOfHourIncluded`, `MirrorsApart`; `CycleEnds` |
| `alarm` | an hour of 12 minutes, 3 of them scheduled; failing transfers, power loss, a minute ending while the alarm is set | `EnabledHasAlarm`, `SoundAlarmRings`, `WakesOnSchedule`; `WakesAgain` |
| `sim_http` | 3 calls, 5 commands behind, cut tokens, failing network | `PostDelivered`, `GetOwnBody`, `HealthyCallsSucceed` |
| `sim_network` | 40 s, answers at once or after 2.1 s, both carriers or none, any set of working APNs | `InTime`, `RightApn`, `FailsForAReason` |
| `ota_download` | images of 3, 4 and 5 bytes for a slot of 4, windows and blocks of 2, ranges answered short, long or not at all, 2 attempts, 1 loss, resets without bound | `FlashIsImage`, `GivesUpInTrouble`; `RefinesSlots`; `DownloadEnds`, `TrialEnds` |
| `report` | 2 cycles from before midnight, a month's end, 28 February in a leap year and another, and the end of a year and of a century; 2 rounds of the window; a buffer of 4; 60 s of error and one more | `RecordHoldsLog`, `StampsTrue`, `LogArrives` |
| `connectivity` | the true durations, a SIM check of up to 55 s, resets at any second | `WindowLinkHeld`, `TriedIsOff`, `LateTestsAreShort`, `PowerIsKept`; `MainStarts`, `WarmupReturns` |
| `wifi` | 2 uses, 4 failures | `ResultFresh`, `KeepsTrying`; `HealthySession` |
| `ultrasonic` | a warm-up and 2 readings, 2 tries each, registers at 0, 30 m and 65535, 3 faults | `LevelsAreMeasured`, `OwnAnswer`, `HealthyReads` |

After the semicolons: refinements and liveness. Each module's `TypeOK` is proved (section 6); of
SimHttp's, the types (`HttpTypes`), while TLC finds the rest to hold when `HttpTypeOK` is added to
the run's invariants.

Why the bounds are enough. Queue: capacity 3 has empty, full and in between, and a prefix of a
snapshot that is neither empty nor whole; with two records held back a flush loses one or both, or
all of a short snapshot; two clients are all the measurement mirror has, and the proofs take any
number. Cycles: a sample can wait, be sent and be acked in three different boots; the queues fill up
in two; most of the properties allow no trouble of some kind, and one of each other kind is enough
to meet them in every phase; the proofs take any number. Alarm: a shorter hour because every
transfer doubles the states, but one in which each scheduled minute has minutes before and after it
and the schedule wraps; `alarm_missed` takes the true hour. HTTP: three calls let an answer of the
first reach the third, and a modem that is one more command behind breaks `GetOwnBody`. Network: the
code's own time-outs; one lag is within every wait, the other outlasts those of 2 s and not those of
3 and 5, and any command may go unanswered, obeyed or not. OTA: an image of a window and a half has
a whole window and a short last one, or one that came longer than asked; the next image is longer,
so that a window may bring more than was erased, and the last does not fit the slot. Report: a
rollover is in the first cycle, at the window, the sync or the cycle after, a second round meets
what the first has set, and a buffer of four is full within a line or two. Connectivity: nothing is
scaled. Wi-Fi: a second use is all a late event needs, four failures more than one use can meet
before it gives up. Ultrasonic: two tries and three faults let what is left of one answer, or of
two, meet the next reading's; the ends of the range are where the test of its range bites, and 65535
where the 16-bit difference wraps into it.

`CHECK_DEADLOCK FALSE` stands in the DcomWifi configuration only: the number of uses of the Wi-Fi
module is bounded.

## 4. Fairness

Weak fairness only, on what the code schedules: in WakeCycle the scheduler (until it sleeps),
measure and sync tasks (their sends, AT commands and downloads all time out), not the failover task,
which nobody waits for, not power loss, and not the waking of the chip: `CycleEnds` says that a
cycle that begins ends in deep sleep, and the next need not come (section 5); in RtcAlarm the clock,
the boot and the cycle (a transfer times out after 100 ms) and waking on INT; in OtaDownload the
driver (version check, download, restart and the marking of a new image) and the modem's sending,
not its faults, nor the next cycle, nor a reset; in Connectivity the run of the system, where time
cannot stop since every wait has a time-out; in DcomWifi the caller, the event task and the station.
The safety modules PersistentQueue, Report, SimHttp, SimNetwork and Ultrasonic have none.

## 5. Where code and words differ

Two disagreements are runs expected to be violated; `PROJECT.json` has the quotation.

| run | what happens |
|---|---|
| `alarm_missed` | a minute that ends while its alarm is programmed is missed, the wake-up comes an hour late |
| `connectivity_stray` | a module that comes online after the grace period stays on beside the one in use |

Others met while modelling, each reproducible by widening the constant named:

- `app/sync_task.cpp:135`: `esp_restart` after an update waits for no task. A measurement's snapshot
  can be cut short by it, against "unsent data will be picked up from the NVS-mirrored queues on the
  next boot" (lines 186-187): `NothingLost` fails without its condition on `overtaken`.
- `services/ota/ota_service.cpp:37`: three attempts of 15 minutes do not fit a budget of 20
  (`AttemptMinutes` 15, `MaxAttempts` 3): deep sleep in a download, against "the scheduler must keep
  the device awake until OTA finishes" (`common/config.hpp:20-22`).
- `app/measure_task.cpp:25`: a measurement begun before the OTA bit was set runs beside the
  download, against "Skip measurement if OTA download is in progress" (lines 23-24).
- `app/scheduler_task.cpp:68`: the result of `setMinuteAlarm` is ignored; one failed transfer and
  nothing wakes the chip again (`WakesAgain` without its condition fails with `I2cFaults`).
- `middleware/persistent_queue_mirror.hpp:231-236`: the results of the last `fflush` and `fclose` are
  ignored; `persistSnapshot` returns true over a snapshot that lacks its newest records, or all
  of them (`MirrorAtRest` without its exception for "short" fails).
- `services/connectivity/sim4g_module.cpp:690`: an HTTPINIT obeyed after its wait leaves a session
  that `httpTermSafe` does not close.
- `sim4g_module.cpp:252`: a token cut by the end of a read window is dropped in two halves
  (`HealthyCallsSucceed` therefore speaks of answers that come whole).
- `sim4g_module.cpp:602`: the clean-up between the APNs is not checked. A first context left up passes
  the second APN's test, and the wrong APN is saved: `RightApn` fails without `~stale`.
- `sim4g_module.cpp:1110`: the OTA deadline, "hard cap per download attempt", is looked at between
  windows only.
- `sim4g_module.cpp:1174`: a 206 with more than was asked is taken as it comes. If a longer image has
  replaced the one that was probed, it is written past what was erased; such an image is never chosen,
  since `esp_ota_end` finds it damaged (`RefinesSlots`).
- `app/diagnostic_task.cpp:410`: nobody joins the tests of the modules. A silent modem makes the SIM
  check take 55 s, and the test then outlives the diagnostic by 3 s, in which it and sync_task may
  switch one modem (`LateTestsAreShort`; `PowerIsKept` without its exception fails).
- `modules/io/io_controller.cpp:10`: init puts the power lines at the level the setters use for
  "on"; `powerOn` ends with the line LOW, though its comment has LOW->HIGH.
- `services/connectivity/dcom_module.cpp:57`: one disconnection with a fatal reason in a session and
  nobody connects again (`KeepsTrying` therefore excepts `gaveUp`).
- `app/app_main.cpp:39`: a new image is marked valid "after successful boot", but as the first thing
  `app_main` does: only a crash before that is rolled back. Line 47 ignores the result: if marking
  fails, the image runs a cycle on trial, no update can begin, and the next boot goes back to the
  old one.
- `services/logging/log_buffer.cpp:21`: a full log is one character longer by its length than by its
  text, so `packLog` sends a NUL with it, and the "1024B session log" of `src/docs/requirements.md:20`
  and `app/measure_task.cpp:76` holds 1022.
- `services/pack/json_packer.cpp:44-50`: only quotes, backslashes and the ends of lines are escaped.
  A tab or another control character, which a modem's answer may put into the log, goes out raw, and
  a JSON parser refuses the body (`LogArrives` says when).
- `modules/sensor/ultrasonic_sensor.cpp:233-238`: a distance register of 35536 or more, beyond a small
  range register, wraps to a level that `isValidDistance` accepts (`Gives`).
- `app/measure_task.cpp:35`: a session whose RTC cannot be read is stamped 2026-01-01 (`StampsTrue`
  excepts this default).
- `modules/rtc/pcf8563.cpp:319`: 2100 is a leap year to chip and driver.
- `src/docs/api_contracts.md:8` has `publishLog` called by SyncTask; only `measure_task` and
  `failover_task` call it. That is why logs are the one queue with a producer nobody waits for.
- `middleware/persistent_queue_mirror.hpp`: a snapshot whose records have another size is discarded
  when it is restored; an update that changes a message type thus drops what was queued.
- `app/sync_task.cpp:336`: `BIT_LAST_SYNC_FAIL` is cleared after every sync, failed or not. A
  failover request may be lost to deep sleep.

## 6. What is proved

Every theorem holds for every value of the constants, under the named assumptions of the
modules (non-empty capacities, a schedule of minutes of the hour, ...), and each rests on an
inductive invariant found by strengthening the property with what it silently relies on.

- **PersistentQueue.** `TypeCorrect` and `AckDropsHeld` from `TypeInv`, for any number of producers
  that interleave freely: only the consumer removes, so the head it peeked stays.
  `MirrorAtRestHolds` from `Calm`: as long as no two calls have overlapped, `StageInv` says which of
  RAM queue, vector and file is ahead of the others at each stage of a call. `MirrorIsDurable` maps
  every step to a step of DurableQueue or a stutter: what a reset finds is a prefix of the vector
  that was being written (`FlashIsPrefix`), and `TypeInv` and `Calm` say what that vector is.
  Storage may fail at every call made on it; what both theorems promise after a return of true is
  all but the `Buffered` newest records, for any `Buffered`.
- **WakeCycle.** `Base` types the state and has the head of the queue under an item that waits for
  its ack. `Places` says which bits, notifications and calls go with which phases of the tasks, and
  that sync leaves its flush wait only when the measurement is over or overtaken:
  `MirrorsStayApart`, and with `Measured` (this cycle's sample is to come, under way or published)
  `TopOfHour`. `Kept` adds that with no call under way and nothing failed, told or not, flash is the
  queue (`AtRest`), so that a sleep or restart loses nothing: `NothingIsLost`. `Ordered` has the
  queue and the snapshot each a chain that goes on where the deliveries ended: `DeliveredInOrder`,
  through any number of power failures. `Tally` keeps account of repeats: those made and those that
  draining the queue, or what is on flash, would make are together no more than the failures, the
  sample being acked on credit (`RepeatsAreBounded`). `StepsLeft` adds up what each task still has
  to do in a cycle, the attempts and the queued messages included; every step of any task lowers it,
  so a cycle is at most `CycleLimit` = 35 + the attempts + 3 x the sample queue + 2 x the log queue
  steps long (`CyclesAreShort`, from `Counted`). Until the chip sleeps some task waits for no other
  (`SomebodyAlwaysMoves`, from `Held`: whoever waits is waiting for one who has yet to run).
- **RtcAlarm.** `TypeCorrect`, which rests on `nextScheduledMinute` always returning a scheduled
  minute (lemmas on its search); `InterruptHasAlarm` from `WriteOrder`, what the order of the writes
  guarantees at each transfer; `EveryBoundaryWakes` from `Armed`: a chip asleep, whose alarm was set
  with no trouble, has it at the next scheduled minute after the one it read. `WakesAreScheduled`
  has a hypothesis, that at most one minute ends while the alarm is programmed (three transfers of at
  most 100 ms each), and needs it: with two, AF could be set by the alarm and the chip woken at once,
  in the minute after. `OnSchedule` says at each transfer whether AF can be set, and by which alarm.
  `SleepsAnHourAtMost`, without that hypothesis: unless a transfer failed, a chip asleep is at most
  an hour from its alarm minute, nears it with every minute, and in it INT is low (`AlarmSet`).
- **SimNetwork.** `IInv` = TypeOK, `Timely`, `OwnContext`, `Reasons`. `Timely` gives each step a
  latest instant, from lemmas on waits (`Clamped`: one clamped to the deadline ends within a read of
  it): `ReturnsInTime`. `OwnContext`: unless the clean-up left it up, a context is the one of the
  APN being tried: `SavesWhatWorked`. `Reasons`: which APNs have been tried, and that one given up
  with time left and no failure is one the network refuses: `GivesUpForAReason`. For any budget and
  any lags.
- **OtaDownload.** `IInv` = TypeOK, `FlashFollowsOffset`, and what makes it inductive: a block in
  progress is the one announced (`BlockOpen`), what the modem has announced and not yet sent does
  not exceed the window (`Announced`, `OneHeader`), a window is asked for only within the image that was
  probed, and that fits the slot (`Fits`), and an image is chosen or on trial only between `Finish`
  and `MarkValid`, or to the next boot when that failed (`ChosenAt`). `OffsetIsFetched`;
  `UpdateKeepsAnImage` (`RefinesSlots`), each step a step of FirmwareSlots (`StepIsSlots`);
  `NeverBricked` from it; `TypeCorrect`. `Faithful` says what is on the UART while nothing was lost:
  between blocks, a header and the bytes that flash lacks (`ComesNext`); inside one, exactly its bytes
  (`ComesNow`); so flash is the beginning of the image (`OwnImage`, `OnlyTheImage`), and with
  nothing wrong since the boot no read waits and each window is fetched whole (`Smooth`, `GivesUp`);
  a window that brings more than it was asked for still ends within the image (`OwnRange`).
  `AttemptsRunOut`: whatever goes wrong, each step of an update lowers, in lexicographic order, the
  attempts left, the way through this one, and the tokens still to be read; only a new image on the
  server leaves them as they are. `TrialsAreShort`: a chosen image is restarted into and confirmed, or
  rolled back; every boot takes off one of the two steps, and every other of the driver's does
  unless the confirmation failed.
- **Report.** `SetThenGet`: no field of a date spills out of its digits or mask. Lemmas on the
  calendar (`NextDayIsOneOn` over any month, leap day, year and century; `AfterAdds`) give
  `CountedOn`: the chip's counting follows the server's time. `ClockInv` = once compared, the
  registers hold a time within `doubt` of the truth (`Tracks`); an answer whose year was cut short
  is more than a day off, so it is never taken for the present by accident (`YearsClose`):
  `StampsAreTrue`. `LogInv` says what the buffer holds of what was appended: `LogsAreWhole`.
  Packing and reading are folds over the text: that a fold takes one character after the other, and
  that reading undoes the escapes after each of them (`PackedIsReadBack`), is proved for texts of any
  length, by the least length at which it would fail instead of by induction; with `LogInv` that is
  `LogsArrive`: what text a reader finds, a NUL at the end of a full log included, and that a parser
  accepts it just when the log fitted and had no control character but the ends of lines. `TypeCorrect`.
- **Connectivity.** `IInv` (`TypeCorrect`) gives `WindowKeepsItsLink`, `FailedStaysOff`,
  `WarmupLeavesOneOn` and `SleepsWithBothOff` for any duration of a check. `LateTestsEndSoon`: a
  task that is still busy has been busy at least as long as the diagnostic has been in its phase,
  and since the boot once the delay has begun (`Elapsed`), and no phase outlasts its last second
  (`Bounded`): a test that is not over after those 60 + 10 s is the SIM's, 52 s into its check; so
  with the code's 55 it is over 3 s later. `UsedStaysOn`: nobody cuts the power of a module that
  another brings up, but for the SIM module beside such a test. Nobody waits for what does not come
  (`NobodyWaitsForEver`), beside a late test too, since every phase has a time-out of its own.
  `TestsAndTriesEnd`: the diagnostic ends within 253 s, `warmup` within 84 s and a SIM check, and
  each step takes off a second or a phase of what is left. That is why no deep sleep cuts a `warmup`
  in the model: it is far shorter than the awake budget.
- **DcomWifi.** `ResultIsFresh`: the events of a use are handled before the next (`CurrentEvents`)
  and its bits cleared before the station starts (`CurrentBits`). `StationKeepsTrying`: whatever
  stops a station leaves an event behind (`Noticed`). `SessionIsNear`: a use that begins after the
  last failure is at most seven steps from its session, whatever earlier uses left, every step
  brings it nearer, and what it waits for is in the events, the bits or the air (`OnTheWay`).
  `OffStaysOff`, `TypeCorrect`.
- **Ultrasonic.** `LineInv`: each byte on the line is of an answer to a request made (`Known`), and
  an answer's checksum is in one place only (`Once`); what read3 took was a whole answer, each
  another (`Taken`), and its level is the difference of two registers of any 16 bits, or that
  difference wrapped when the distance is 35536 or more (`Gives`). From it `Measured`,
  `AnswersAreOwn` (`Fresh`: if nothing was on the line when the request went out, what is there now
  is its answer) and `MeasurementTypes`. `FirstTryReads` from `Healthy`: with no fault the line
  holds the rest of the frame being read and nothing else.
- **SimHttp.** `HealthyCalls`, with no hypothesis on the constants. `Fine` says where each step of
  the driver finds UART and modem since the last power on if nothing came late, was cut or failed:
  one or two commands not yet obeyed, or the one answer, after at most one OK that is left of the
  command before, whatever part of it is still on the wire (`Coming`). So a wait finds its token and
  no ERROR (`NoError`), and never times out (`NoTimeOut`). `PostsAreDelivered` and `BodiesAreOwn`,
  again with no hypothesis on the constants, are about the calls of every behaviour until one wait
  ends, since the modem was last powered on, before the modem had taken up its command (`behind`);
  every other trouble, answers that come late included, is allowed. They state `PostDelivered` and
  `GetOwnBody` under that condition (`DeliveredInTime`, `OwnInTime`). `Turns` says of each step of
  the driver which one command the modem may still have to take up (`Earlier`), what earlier ones
  may have left on the line (`Old`), what may be coming once its own is answered (`Due`), that a
  +HTTPACTION on its way is about this call's URL and body (`Told`), and when the modem takes
  commands for data (`Deaf`): then it answers nothing, so the call ends. `Earned`: a call about to
  return true has done what it was for.

Assumptions on constants are those of the modules (`ASSUME`) and one hypothesis, named in its theorem:
one minute while the alarm is programmed (`WakesAreScheduled`).

Liveness is only model-checked, since fairness and `ENABLED` are out of the prover's reach. What a
liveness property needs besides fairness is proved: a measure that the steps of those who run lower
and no step raises and, where the guards do not say so at once, that somebody can always move.

| property | measure | somebody can move |
|---|---|---|
| `CycleEnds` | `CyclesAreShort` | `SomebodyAlwaysMoves` |
| `WakesAgain` | `SleepsAnHourAtMost` | the clock |
| `DownloadEnds` | `AttemptsRunOut` | a read for which nothing comes times out (`ReadFails`) |
| `MainStarts`, `WarmupReturns` | `TestsAndTriesEnd` | `NobodyWaitsForEver` |
| `HealthySession` | `SessionIsNear` | `SessionIsNear` |
| `TrialEnds` | `TrialsAreShort` | restart, confirmation and the end of a sync wait for nothing |

Every safety invariant and action property of a passing run is stated by a theorem, except
`PostDelivered` and `GetOwnBody`: they are proved for the calls before the modem has fallen behind,
and model-checked, up to five commands behind, for those after. What may be on the line then is too
much to list step by step, and for any number of commands `GetOwnBody` does not hold (section 2).

## 7. Running it

`tlc -config MC<X>.cfg MC<module>` for a run, `tlapm <module>_proofs.tla` for the proofs.
Properties and theorems are commented where they stand, with the code they are about.

## 8. What is left out, and the plan

Not modelled, for good: the board drivers and the HTTP client (one blocking call each, their outcome
is an input), `esp_https_ota` (the Wi-Fi download is the library's own), the server API and the
wording of the JSON packer, `notify_task` (an LED) and the empty `ota_task`, the bench tests, the
configuration console (a sequential parser over single-key NVS writes), the DS1307 driver and the
PCF8563's timer and CLKOUT (unused).

Left for later, in this order:

1. Proofs: `PostDelivered` and `GetOwnBody` for a modem a few commands behind, by where an answer to
   an earlier call can still be rather than by what is on the line.
2. An abstract specification of a connection (off, trying, usable) that Connectivity's users rely
   on, with SimNetwork and DcomWifi shown to implement it.
3. The sends of the diagnostic's window; the server's time query over AT commands; a version that
   the server tells before its image is there.
4. The laser and pressure sensors.
