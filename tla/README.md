# IN10dhost: a TLA+ model

IN10dhost is a daemon that drives a house's lights over four 1-Wire busses. It
reads buttons (latches) and switches outputs (PIOs) of owSlave devices (an
ATtiny that answers as a DS2408), keeps a table of switches in a file system
(FUSE), runs plugins and scripts, and updates the devices' firmware over the
bus. These modules model its threads, its tables and what it keeps in memory of
devices that reset, lose answers and raise alarms at any time.

Paths below are relative to `src/`, the repository.

## 1. Inventory

### Threads

| Thread | Code | What it does |
|---|---|---|
| poll worker | `src/main.cpp` `background_worker()` | waits for the interrupt line, the next due poll or the end; handles alarms, presses, timers, restores |
| FUSE threads | `src/fs*.cpp`, callbacks of fuse | read and write devices, the switch table, plugins; scan the busses; start firmware updates |
| firmware thread | `src/ds2408.cpp` `fw_run()` | one per device, writes the pages of an update |
| main | `src/main.cpp` `main()` | mounts, and at the end stops the worker and saves |

They share the bus controller (`ds->mtx`), the devices (one recursive lock each,
`OwDev::lock()`), the plugins (`Plugins::mtx`, recursive, held while a plugin
runs), and, without a lock, the switch table and the list of devices. Plugins and
scripts run in the thread that brings them an event.

### Components

| Component | State | Operations | Module |
|---|---|---|---|
| Switch handler (`src/switch_handler.cpp`) | switch table, off timers, dark flags, masks, the current alarm | `dev_alarm`, `switchHandle`, `switch_timed`, `all_off`, `timer_poll`, `w_add`, `w_del`, `mask`, `w_dark`, `dark_set` | `Switches` |
| ds2408 / owSlave (`src/ds2408.cpp`) | copy of the registers, kept latches, what to restore after a reset, firmware state | `reg_read`, `alarm_read`, `latch_reset`, `pio_set`, `pin_switch`, `watchdog_restore`, `status_clear`, `w_latched`, `begin` | `Ds2408` |
| Firmware update (`src/fw_update.cpp`, `src/ds2408.cpp` `w_firmware`, `fw_run`) | thread, image, page, tries, the device's flash | `w_firmware`, `fw_enter`, `fw_flash`, `page_write`, `fw_run` | `FwUpdate` |
| Firmware image (`src/fw_update.cpp` `fw_load`, `fw_parse_hex`) | the bytes so far, the base, the end record | a line of the file, its end | `FwImage` |
| Configuration file (`src/ow_devices.cpp` `save`, `load`) | the file, the temporary file, what the disk holds | `save`, `save_poll`, `load` | `ConfigSave`, `CrashSafeStore` |
| Alarm search (`src/ds2482.cpp` `search`, `src/ow_devices.cpp` `alarmHandler`) | search address, last discrepancy, exhausted | `reset_search`, `target_search`, `search`, `alarmHandler` | `RomSearch` |
| Bus controller and its users (`src/ds2482.cpp`) | selected channel, search, who listens on the bus, `ds->mtx`, device locks | `selectChannel`, `reset`, `select`, the transactions of `ds2408`, `OwDevices::search` | `OneWire`; its registers and read pointer `Ds2482` |
| Poll worker, Arduino line (`src/main.cpp`, `src/ard_i2c.cpp`) | edge, level, status, waits, the wake event, `running` | `background_worker`, `arduino_service`, `Ard_i2c::interrupt`, `dev_poll`, `alarm_poll`, the end of `main` | `Worker` |
| Device registry (`src/ow_devices.cpp`, `src/ow_dev.cpp`) | the vector of devices, the sorted list of at most 30, the lists of the busses, their `state` and locks | `search`, `update_device`, `add_device`, `update_data`, `begin`, `find`, `list_devices`, `OwDev::init`, `OwDev::begin`, `DevLock` | `Registry` |
| Plugin host (`src/plugins.cpp`) | list of plugins, lifecycle events sent, files | `load`, `add`, `remove`, `reload`, `unload`, `action`, `catch_up`, `file_add`, `file_remove`, `file_read`, `file_write` | `Plugins` |
| JavaScript plugin (`plugin/jsengine.cpp`) | scripts, their contexts and files, hash and time of what was loaded, lifecycle events seen | `config_set`, `action`, `check_script`, `replay`, `js_file_add`, `js_file_remove`, `exit` | `Plugins` |
| Event ring buffer (`lib/ring_buffer`) | head, tail, count | a container of an Arduino library, for the log of transfers | not modelled |
| Sensors (`src/ds1820.cpp`, `src/ds2450.cpp`) | last value, configuration | `temp_read`, `adc_read`, `cfg_read`, `cfg_write`, `poll` | `Sensors` |
| FUSE tree (`src/fs*.cpp`) | none of its own | paths to handlers | its writes are actions of the components |
| Parsing, command line, logger | none | conversions | not modelled |

### How they interact

- **A press.** The Arduino pulls its line low; the worker reads its status,
  searches the busses it names (`alarmHandler`), and for every device found
  reads and resets the latches (`alarm_read`), then walks the switch table once
  per latch. The press may switch outputs on other busses before the search
  goes on. (`Worker` → `RomSearch` / `OneWire` → `Ds2408` → `Switches`.)
- **A reset.** Any register read may see the reset flag of a device. It notes
  what the outputs were, and the worker restores them later, by a write that
  may meet the next reset. (`Ds2408`.)
- **Files.** Everything above races with FUSE threads that write outputs, edit
  the table, scan the busses and start updates.
- **Plugins** get events outside of the device locks. A script that drives a
  device causes the next event, in the same thread, while it still runs.
  (`Plugins`.)

### What is hard here

Interleavings of the worker with FUSE threads over unlocked tables; a shared
channel and search state on one controller; a copy of registers that outlives
its device's reset; answers lost after the effect; crashes between two steps of
a save or two pages of an update; timers against plain presses; levels and
edges. `PROJECT.json` lists each under "hazards" at its line, with the property
that is about it or the reason why there is none.

### What makes each component correct

- Switches: whatever a timed switch switched on has its timer and goes off;
  what a plain one switched on has none, whatever the daemon's copy of the
  outputs says; a dark switch switches nothing on by day; no switch is in the
  table twice; a press drives its own target; all-off misses no light. (The code
  does not keep the last two, see section 4.)
- Ds2408: outputs come back after a reset as they were; nothing is switched on
  that never was; no press is made up; the copy is true when marked so.
- FwUpdate: a device that boots an image has all of it; "done" means written;
  no user blocks on the thread of the last update; each update ends.
- ConfigSave: the file is whole at any crash; a save reported and synced stays.
- FwImage: no byte is written beyond the image; a file that loads is whole and
  means the image it gives.
- Registry: a rom has one device; none is destroyed while used; each is begun
  once; nobody waits in a circle.
- Ds2482, Sensors: what the driver remembers of the chip is so; a reading is its
  own device's; a configuration arrives; after a failure the next cycle reads.
- RomSearch, OneWire: every alarm is handed over, once, with a real address;
  each command reaches the device it is for. (The code keeps both as long as a
  reset of the bus is answered, see section 4.)
- Plugins: a plugin, library or script that comes late gets what it missed, once
  and in order; files go with their script; an edited script is live soon.
- Worker: no sleep on a low line; due polls are made; alarms are handled at
  last; the shutdown ends.

## 2. Modules and the code

One action is one step between two points where another thread can come in: an
access under a lock, a read of a shared table, a call of a system function.
Every module names, above each definition, the function it stands for;
`PROJECT.json` "map" gives the lines.

- **`Switches`** — `table` is `cache.switches`, `timer` the `timers` map, `out`
  the outputs together with who switched them on last ("timed", "plain",
  "outside", "stray" for another pin of a device written from a wrong copy,
  "stuck" when switching off failed, "missed" when all-off passed it by),
  `roomDark`/`astro` the dark flags, `pc`/`idx`/`cur` the worker in
  `switchHandle()`. `copy` is `data[PIO_OUT]`, which every decision goes by:
  `pio_set()` writes a whole device from it (`Written`) and notes what was
  written only when an answer was read (`Answer`), a read sets it to the outputs
  or, without an answer, to all off (`RegRead`; of any device between two
  presses, of one that users drive at any time). It starts as never read, as
  read, or as all off. `cur` is a *reference*: `SeesEdit` moves it when a FUSE
  thread edits the table under it. `Found` is the effect of a scan on `find()`.
  A failed bus access is an outcome of `ActorHandle` and `LightsOff`.
  `EditDuringPress` and `RescanDuringPress` say whether a table is edited, or a
  bus scanned, while a press is handled: with both FALSE the handler's own
  promises are checked and proved, with the first TRUE a run shows what the
  missing lock costs.
- **`Ds2408`** — the device (`dout`, `dlatch`, `dflag`, `mode`) beside the
  daemon's copy (`out`, `last`, `known`, …). `RegRead` has its three outcomes: a
  good read, no answer (0xff everywhere), a bad CRC on every try. `busy` is
  `fw_busy`. `want` is what the outputs have to be.
- **`FwUpdate`** — `w_firmware()` of each user step by step (lock, refuse,
  load, join, start), the thread from entering the bootloader to its end, page
  0 last, and a device whose flash holds one image's pages or another's.
- **`CrashSafeStore`** — what `ReadMe.md` promises of the configuration: "either
  the old or the new file". A save has one new file, the configuration as it was
  when it began; that replaces the old one in one step, the disk has either
  until the directory is synced, and a save given up changes nothing else.
  **`ConfigSave`** — `save()` call by call (open, write, fsync, rename,
  directory fsync), each may fail, by several threads, with a page cache that a
  power loss empties.
- **`RomSearch`** — one triplet per action, `i`, `last_zero`,
  `searchLastDisrepancy`, `searchAddress` as in the code; the devices that
  listen are those that answered every bit so far. Between two searches
  `dev_alarm()` takes the alarm, or fails to. `search()` does not look at what
  `reset()` returns, and its `write()` clears the error: after a failed reset
  (`NotReset`) it goes on with whoever was left talking (`talker`), whose bits
  are any (`Stray`). `sound` says that no search of the pass was one of these.
- **`OneWire`** — one command to the controller per action, for every thread:
  `wire` is who listens after the last reset, select or search. A reset without
  a presence pulse is no error (`NoPresence`): the command is sent all the same
  (`stage` is "blind"), to any one device that was left listening, or to none.
  Every access may fail, and is tried again as often as it likes (`TryAgain`) or
  not (`GiveUp`). A search step is abstracted to its result, which `RomSearch`
  shows while the search stays on its channel; `course` says whether it did.
- **`Worker`** — the loop statement by statement, with time in units of
  `ARD_RETRY_MS`. `edge` and `low` are the two things a GPIO line tells.

- **`Plugins`** — one call into a plugin at a time, as a stack of calls: `stack`
  has what is under way in the thread that holds `Plugins::mtx`, the innermost
  last, so that the event of a device a script drives while it loads (`Drive`)
  goes through the scripts, that one included, before the load goes on. `ctx`
  is a script's context with the text it runs and what it got, `hash` and
  `mtime` what `check_script()` compares; `files` the host's owners of files,
  `sfiles` the engine's. Another plugin adds and removes files at any time.

- **`FwImage`** — the file a user names, as a sequence of lines read one by one.
  A line is what the parser tells apart: a data record with its address, the
  two kinds of base, the end, a start address, an unknown type, a blank line,
  and `Bad` for everything that is no record. The widths of the integers are
  parameters: `Word` is where `uint32_t` and the ARM's `size_t` wrap. `beyond`
  notes a write past the end of the vector.
- **`Registry`** — `obj` has every device object ever made, `devices` the vector
  that owns them, `devList` the sorted list `find()` searches, `listed` what
  `list_devices()` copies. A scan is a loop over the busses with `ds->mtx`
  held per bus, then the rebuild, one device per step, and the sweep of
  `begin()`. Users find a device and lock it in two steps and keep nothing that
  keeps it alive in between. `Canon` is what `canonical_rom()` makes of a code.
  `Main` loads the configuration before there are other threads.
- **`Ds2482`** — each operation of the driver is the set of states of driver and
  chip it may leave: `_read_ptr` against the chip's pointer, `ch` against its
  channel, `last_err`. Any I2C call may fail, with or without effect, as often
  as `MaxFaults`. **`Sensors`** — `EXTENDS` it: the programs of a temperature
  read, a voltage read and the configuration's, an operation per step, the bus
  mutex released during a conversion.

Every module states its types in a `TypeOK` (`ImageTypeOK` in `FwImage`). They
are proved for the modules listed in section 5.

`MC*` modules give the instances for TLC.

## 3. Runs

| Run | Shows | Bounds, and why they do |
|---|---|---|
| `Switches` | `TimedHasTimer`, `PlainHasNoTimer`, `NoDuplicates`, `DarkStaysOff`, `TimedGoesOff` | two outputs on two devices, one a light that users drive too; every kind of switch on the light, and two outputs on one press; timers of at most 2 s, so that one runs out while another waits; two latches, short and long press |
| `Ds2408` | `OutputsComeBack`, `RestoresOnlyWhatWasOn`, `PressIsReal` | two outputs, so that one is set while the other has to stay; the resets are not bounded |
| `FwUpdate` | `BootableIsWhole`, `DoneIsWhole`, `JoinNeverBlocks`, `OneThread`, `UpdateEnds`, `UserReturns` | two users, two images, so that one is written over a half of the other |
| `ConfigSave` | `NeverBroken`, `SavedStays`, and `StoreSpec`: it implements `CrashSafeStore`, the old file or the new one | two savers, files of a few blocks so that a short write is one |
| `RomSearch` | `HandsRealDevices`, `NoneTwice`, `NoneMissed` | eight addresses of four bits, the last a parity as the CRC is of a real one: every set of alarms, raised before or meanwhile; three alarms per pass instead of ten; a reset may fail before each search |
| `OneWire` | `CommandReachesItsDevice`, `PassHandsAll` | two devices on one bus, one on another, one FUSE thread; failures, retries and commands without a select are not bounded; `Together` FALSE: the FUSE thread is off the busses during an alarm pass |
| `Worker` | `LineIsWatched`, `DuePolled`, `AlarmsHandled`, `MainReturns` | a second of two ticks so that a retry is shorter than a poll; two status reads in a row; the Arduino reports at most twice (`MaxRaises`): a line with edges without end would keep the poll from ever timing out |
| `Plugins` | `StartIsKnown`, `FilesOfScripts`, `EditIsLive` | two scripts, so that one takes the other's file; one of the configurations names one twice; a file below another; one edit of each (`MaxEdits`), between two calls (`EditMeanwhile` FALSE; see Plugins under Proofs) |
| `Registry` | type, `EachDeviceOnce`, `UsedIsAlive`, `FoundIsBegun`, `NoWaitCycle` | four codes on two busses, one with a CRC that is wrong, one of a family without a driver, one the Arduino's; a list of two instead of 30, so that the next device finds it full; three scans, one thread at a time, so that the last one meets what two left; two users |
| `Sensors` | `ControllerIsRight`, `ReadingsAreTrue`, `CfgArrives` | one device on each of two channels, so that each job has to select; one failed call (`MaxFaults`) at any place: what a second could do it does from a state the first leaves; a temperature whose high byte is 0xff; configurations of one and two bytes |
| `Sensors_stuck` | violation of `NextCycleReads` | the temperature alone, one failed call, under `FairSpec` |
| `FwImage` | `NothingBeyond`, `ImageIsTheFile` | files of up to five lines: a base, records on both sides of another, the end and one after it; records of up to three bytes, an image of five, integers that wrap at 16 with a base of 12, an address of 3 and three bytes beyond that |

Configurations beside these runs, each but the last with one property that the
code does not keep, for the list in section 4:

| Configuration (module) | Property violated | What differs |
|---|---|---|
| `Switches_editrace.cfg` (`MCSwitches`) | `DrivesItsTarget` | `EditDuringPress` TRUE: two switches, deleting one moves the other into its slot |
| `Switches_alloff.cfg` (`MCSwitches`) | `AllOffMissesNone` | as `Switches` |
| `Ds2408_noanswer.cfg` (`Ds2408`) | `OutKnownIsTrue` | as `Ds2408` |
| `OneWire_mixed.cfg` (`MCOneWire`) | `CommandReachesItsDevice` | `Together` TRUE: a FUSE thread is on the bus during an alarm pass |
| `OneWire_missed.cfg` (`MCOneWire`) | `EveryAlarmIsHanded` | `Together` FALSE: the worker alone suffices |
| `OneWire_blind.cfg` (`MCOneWire`) | `EveryCommandReachesItsDevice` | as `OneWire` |
| `RomSearch_stray.cfg` (`MCRomSearch`) | `HandsDevices` | as `RomSearch` |
| `Registry_twoscans.cfg` (`MCRegistry`) | `NoWaitCycle` | two threads scan at once |
| `Registry_unbegun.cfg` (`MCRegistry`) | `UsedAfterBegin` | as `Registry` |
| `Switches_onedevice.cfg` (`MCSwitches`) | none: the properties of `Switches` but `DarkStaysOff` hold | both outputs on one device, which is written as a whole: a wrong copy of the one switches the other |

A run fails when a property does; that each property can fail is shown by the
mutants in `PROJECT.json`: a plausible bug per property, marked `\* mutant` in
the modules.

### Fairness

- `Switches`: weak fairness of the worker's steps of a press (`HandlePress`), of
  its timers (`HandleTimers`) and of time (`Tick`). The worker is a loop that is
  never blocked for good; a press waits for nobody. `TimedGoesOff`
  is about runs whose presses stop at some time: a button pressed without end
  may restart a timer without end.
- `FwUpdate`: weak fairness of the steps of each user's `w_firmware()` once
  called (`Refuse`, `Load`, `Start`); strong fairness of the thread's steps that take the device lock
  (others take and release it again and again). Nobody is forced to start an
  update, no answer has to come.
- `Worker`: weak fairness of the worker, of time and of `main()` once unmounted;
  strong fairness of handling a bus (a bus that is searched again and again
  works at last). Nothing makes the Arduino answer, or raise anything.
- `Sensors_stuck`: weak fairness of the poll that starts a read of the
  temperature (`ReadTemp`) and of the steps on the bus (`Bus`): the worker polls
  again and again, and a thread goes on with what it has started. `MaxFaults`
  bounds the failures, so that the calls work again after them.

## 4. Where the code and its documents disagree

Shown by a run (`PROJECT.json` "findings"):

1. `Sensors_stuck` — a command whose I2C call fails leaves `_read_ptr` as if it
   had been done: the `_read_ptr = 0` of the error path
   (`src/ds2482.cpp:319`, `:345`) is overwritten right after it. Every later
   `busyWait()` may then poll another register than the status, time out, and do
   so for ever, although "next cycle will come" (`src/ds1820.cpp:209-210`).

Shown by the configurations beside the runs:

2. `Switches_editrace` — the table is edited without a lock while the worker
   walks it: a press drives the target of another switch.
3. `Ds2408_noanswer` — a read without an answer leaves "all off" in the copy,
   marked as known.
4. `OneWire_mixed` — the latch reset of an alarm read uses the bus without the
   bus mutex.
5. `OneWire_missed` — the alarm search goes on on the channel a press switched
   to.
6. `OneWire_blind` — a reset without a presence pulse is no error:
   `pio_set()`, `reg_read()` and `latch_reset()` then send their command without
   a select (`src/ds2408.cpp:1000-1010`, `:1166-1172`), to whichever device was
   left listening. They read an answer all the same, and that may be another
   device's: 0xAA from one that has just reset its latches is taken for success,
   and the CRC of a register read does not cover who sent it.
7. `RomSearch_stray` — `search()` goes on after a reset that failed
   (`src/ds2482.cpp:711-714`; the `write()` clears the error, `:594`). What a
   device was left sending is taken for an address, and one that no device has
   is handed to `dev_alarm()`, where `alarmHandler()` speaks of "every 0x29
   device currently pulling alarm".
8. `Switches_alloff` — all-off goes by the copy of the outputs: a light that is
   on is passed by when the last read of its device had no answer
   (`src/ds2408.cpp:1219`), or an answer was lost, although "The target `0.0.0`
   switches every light off" (`ReadMe.md:166`). Its timer has been stopped by
   then: what a timed switch switched on stays on for good.
9. `Registry_twoscans` — two scans at once, by two reads of `/uncached`: each
   holds what the other waits for (`src/ow_devices.cpp:658` takes device locks
   under the bus mutex, which `include/ow_dev.h` forbids).
10. `Registry_unbegun` — a device is found and used before its `begin()`, or when
   the controller did not start: `ds` is null.

Met while modelling, in the modules' steps but without a run of their own:

- A scan empties the list of devices (`src/ow_devices.cpp:477`) that
  `output_on()` looks an output's device up in: with `RescanDuringPress` TRUE, an
  output that is on counts as off, a timed press starts a timer, and what a plain
  button switched on goes off, although `ReadMe.md:199-201` says it stays on.
- `save()` walks the list of plugins without the mutex that "Guards the plugins
  vector and every dlopen/dlclose" (`src/plugins.cpp:363`,
  `include/plugins.h:13`): a plugin removed meanwhile is destroyed under it.
- A script's hash and its text are read one after the other
  (`plugin/jsengine.cpp:702-705`, `:719-727`): with `EditMeanwhile` TRUE, a script
  edited in between and then set back as it was keeps running the text in
  between, and one edited during its replay gets an event of the start twice.
- A dark switch looks at the output before it toggles it, each under a lock of
  its own (`src/switch_handler.cpp:323-338`): an output switched off from outside
  in between is switched on by day. A read by a user in between may do the same
  to the copy. `DarkStaysOff` is therefore about the outputs of devices that only
  the worker uses (`OwnPins`), and about the target of the press: a wrong copy
  may switch on the other outputs of the device with it ("stray").
- A light switched off and on again through the file system while its timer
  runs keeps that timer (`src/switch_handler.cpp:483`), although `ReadMe.md:196`
  says such a press starts no timer.
- `switch_timed()` starts the timer also when switching on failed
  (`src/switch_handler.cpp:474`); `timer_poll()` forgets a timer whose switching
  off failed (`:545`), the output stays on ("stuck").
- A reset by the restore itself is restored again by the next read; the branch
  against it (`src/ds2408.cpp:1535`) is dead, as nothing before it reads the
  registers.
- `status_clear()` does not look at `fw_busy` (`src/ds2408.cpp:1075`): a restore
  found before an update sends its command while the update runs.
- `cache.devices` grows at a scan (`src/ow_devices.cpp:520-529`) while the worker
  iterates over it (`:733`, `:746`): the vector moves under its iterators. With two
  scans at once a device in use may be erased as a duplicate (`:485`).
- A 31st device is dropped from the list with no message to its user, found by
  no `find()`, and made anew by every scan (`src/ow_devices.cpp:396`).
- A device plugged into another bus keeps the old one until a restart.
- `DS2482::begin()` at every scan sets `start_time` anew; `log_event()` writes
  the ring buffer without `ds->mtx`; `set_error()` is given the result of
  `ioctl()`, -1, and not `errno`, so that its cases never apply.
- A temperature from -16 to -0.06 degrees has a high byte of 0xff and is taken
  for no answer (`src/ds1820.cpp:257`); the scratchpad's CRC is not looked at,
  so a lost low byte is taken over; a read starts a conversion but may give back
  the one before.
- `adc_read()` failing gives -1, kept as 65535 and shown as about 320 V
  (`src/ds2450.cpp:98-106`).
- `cfg_write()` of both devices sends all bytes but the last, does not look at
  errors and reports success (`src/ds1820.cpp:195`, `src/ds2408.cpp:1337`):
  `CfgArrives` is about the bytes it sends. `cfg_read()` without an answer
  keeps 0xff for each.
- A value that an uncached read sees changed first is never notified as a
  change; change events of a device, sent after its lock is released
  (`src/ow_dev.cpp:30-40`), may overtake each other.
- `fw_load()` takes a file for Intel HEX by its first byte (`src/fw_update.cpp:139`):
  one that starts with a blank line or a byte order mark is loaded as binary.
- An update broken off at its very last page, programmed but not answered,
  leaves a whole application (`src/fw_update.cpp:162`), where
  `include/fw_update.h:60` says it leaves none.

## 5. Proofs

For every value of the constants, with TLAPS:

| Module | Theorems |
|---|---|
| `SwitchesProofs` | `TypeCorrect`, `NoSwitchTwice`, and — with `EditDuringPress` and `RescanDuringPress` FALSE — `TimersAreKept` (`TimedHasTimer`), `PlainStaysOn` (`PlainHasNoTimer`), `DarkIsRespected` (`DarkStaysOff`), `TimedRunsOut` |
| `Ds2408Proofs` | `TypeCorrect`, `OutputsRestored` (`OutputsComeBack`), `RestoreIsNoGuess` (`RestoresOnlyWhatWasOn`), `PressesAreReal` (`PressIsReal`) |
| `FirmwareProofs` | of `FwUpdate`: `TypeCorrect`, `NeverHalfAnImage` (`BootableIsWhole`), `UpdateIsWhole` (`DoneIsWhole`), `JoinIsSafe` (`JoinNeverBlocks`), `ThreadsAreJoined` (`OneThread`), `UpdateStepsEnd`; of `FwImage`: `ImageTypeCorrect`, `BytesStayInside` (`NothingBeyond`), `ImageIsWhatIsMeant` (`ImageIsTheFile`) |
| `RomSearchProofs` | `TypeCorrect`, `AddressesAreReal` (`HandsRealDevices`), and — with `Stolen` FALSE — `NoneIsTwice` (`NoneTwice`), `NoneIsMissed` (`NoneMissed`) |
| `WorkerProofs` | of `Worker`: `TypeCorrect`, `LowLineIsWatched` (`LineIsWatched`), `RoundsEnd`; of `OneWire`: `BusTypeCorrect`, `MutexIsHeld`, `DeviceIsLocked`, and — with `Together` FALSE — `CommandsArrive` (`CommandReachesItsDevice`), `PassIsComplete` (`PassHandsAll`) |
| `SensorsProofs` | `TypeCorrect`, `DriverIsRight` (`ControllerIsRight`), `ReadingsRight` (`ReadingsAreTrue`), `ConfigurationArrives` (`CfgArrives`) |
| `RegistryProofs` | with one scan at a time (`OneScanner`): `TypeCorrect`, `EveryDeviceOnce` (`EachDeviceOnce`), `FoundStaysAlive` (`UsedIsAlive`), `FoundWasBegun` (`FoundIsBegun`), `NobodyWaitsInACircle` (`NoWaitCycle`) |
| `FilesProofs` | of `ConfigSave`: `SaveTypeCorrect`, `FileIsWhole` (`NeverBroken`), `SaveIsDurable` (`SavedStays`), `Implements` (`StoreSpec`); of `Plugins`: `HostTypeCorrect`, `FilesGoWithScripts` (`FilesOfScripts`), and — with `EditMeanwhile` FALSE — `EditsGoLive` (`EditIsLive`), `StartGetsKnown` (`StartIsKnown`) |

How they go:

- **Switches.** `TypeOK` and `NoDuplicates` are inductive with an edit meanwhile.
  The rest need `Inv`: the two invariants, and what the worker knows in the
  middle of a press — the output it is about to start a timer for was not
  switched on by a plain switch (`StartsOwnTimer`), the one it stops a timer for
  not by a timed one (`StopsOwnTimer`), timers are taken out only to switch
  their outputs off (`Settled`), the target of a step is an output
  (`TargetIsPin`), and one it looks at by day is on by the copy, which nobody
  else writes (`DarkIsLit`, `UsersInv`). Without them each of the three fails
  between the access and the change of its timer. Nothing is assumed of the copy
  beside that: what a write does to an output it is not for is to leave it, to
  switch it off, or to switch it on as nobody meant it (`WrittenOut`).
- **Ds2408.** The invariant says where the outputs as they have to be are kept:
  after a reset in the copy until the read that sees the flag, then in `wout`
  (`KeptInWdt`), then again in the copy and the device (`KeptInCopy`); a restore
  under way has taken its reset (`TakenForRestore`); nothing that is known of
  was never on (`WasOn`); an alarm read has the device's latches (`AsRead`).
- **FwUpdate.** `Progress`: page 0 is erased as long as there are others to
  write, and those before the current one are written, so a device with page 0
  of an image has all of it. `Threads`: `fw_busy` covers the thread's life but
  for its very end, and who holds the device lock at a join has seen it
  cleared, so the thread is past its last lock.
- **ConfigSave.** One saver at a time is past the mutex (`Exclusive`); what it
  renames has been written whole and synced (`TmpIsWhole`), so every file a
  crash may leave is whole (`Whole`); and they are in the order of their
  versions (`InOrder`). The refinement maps
  the mutex to the store's save (`Saving`, the version its holder has turned into
  text), so that what `rename()` puts in place is the configuration as it was when
  that save began, and what `data.json` may be to the store's disk.
- **RomSearch.** `Real`: the devices that listen have the address found so far,
  of a search that had them reset, and with a talker none listens. The rest is
  about passes that are `sound`.
  `Order`: between two searches a device in alarm agrees with the last address
  up to the bit where the next search turns, and goes up there (`HasWitness`);
  it keeps the search on its way that far. What has been handed over lies below
  the address from the turn on (`Turned`, `Below`), what is still wanted listens
  on or left it upwards at a zero not passed yet (`Above`). The first search
  after a family follows its bits (`Started`); that it cannot turn at the last
  bit is what the CRC of an address is assumed for.

- **Worker.** `Inv` adds to the type, in `Flags` and `Others`, where the loop is
  when what is set, and `Reported`: impulses counted were raised, so that the
  bound on raises keeps its type. One lemma for the environment's and main's
  steps, one for the loop, one for the service of the line.
- **OneWire.** `BusTypes`, which holds with `Together` TRUE too, has the types,
  which jobs a thread may have where (`Jobs`), and that a thread on the bus
  holds its mutex but for the latch reset of an alarm read (`MutexHeld`);
  `DevicesHeld` says the same of the device locks. With `Together` FALSE the
  reset is alone as well (`PassAlone`), so one thread at most is on the bus
  (`OneOnBus`), and who listens follows from how far its command is (`Heard`):
  of a blind command nothing does, so the theorem is about those sent after
  their select, and a pass with a blind or failed search is not `kept`.
  `PassKnows`: what is still wanted is in alarm on the bus of the pass, which is
  the selected one while the course is kept; a search says it is exhausted only
  with the last of them found.
- **Sensors.** Proved operation by operation: each operator of `Ds2482` maps a
  controller that is right (`Right`: types, the channel, the last operation) to
  one that is, whatever fails in it (`SelectChannelRight`, `ResetRight`,
  `WriteRight`, `ReadRight`). No failure has to be excluded: the read pointer
  the driver remembers may be wrong, but then the wait before the operation
  times out and reports it (`BusyWaitDoes`). A job's step is one operation, so
  it keeps `Inv`. `Flow` adds what the bytes under way are while nothing has
  failed: whose answer the chip reads, from which page, since which conversion.
  A reading is right although no CRC is looked at, and a written configuration
  arrives, because each program gives up at its first failure.
- **FwImage.** `NothingBeyond` is inductive with the types. Its one hard step is
  `SizeHolds`: past the guard the sum at + len is at most `MaxSize`, so it does
  not wrap, and the vector has grown to it. `ImageIsTheFile` needs that a line's
  base and place are functions of the lines before it (`BaseUnique`,
  `PlaceUnique`) that later lines leave as they are (`BaseStays`, `PlaceStays`),
  and that every byte of the vector is meant by the last line over it
  (`MeantBy`). `PlacesFit` says that no base and address together leave
  `uint32_t`: the record's fields have 16 bits, 0xffff0000 + 0xffff < 2^32.
- **Registry.** `Held` says what the list holds of the first n devices of the
  vector: one per rom, the first, and none is left out before it is full. A scan
  that empties the list and fills it again thus makes the list it emptied
  (`HeldAgain`): it erases no device, as a duplicate, that someone may have
  found. Only `Main`, before there are users, erases what the configuration
  names twice. `New`: the device a scan has just made is in no list, so the lock
  it takes with the bus mutex held is free, and closes no circle. `Begun`: the
  sweep has come by every device before its place, and by all when no scan is
  under way and the controller started. The hypothesis is `OneScanner`; without it
  `Registry_twoscans` shows the circle.
- **Plugins.** `FilesOfScripts` needs to know whom the calls under way are for,
  however deep they nest: each of a script is of one in the list (`Frames`), so
  that a script that adds a file is still there, and the list changes only with
  no such call below (`config_set()` is called with the events of the start
  under it, and nothing else). `Owned` is `FilesOfScripts` for all scripts,
  those that are not in the list having no file; a host without the engine has
  no list (`EngineUp`). Scripts may be edited at any time (`EditMeanwhile`).

  `StartIsKnown` and `EditIsLive` need `PluginsInv`, in three layers on top of
  that one. `Shape`: which call makes which (`Chain`), so that the events of the
  start are only ever at the bottom of the stack or under a catch-up, and the
  others say `"change"`; and how far the engine's `seen` is behind the host's
  (`Seen`, up to the event the catch-up is at). `TextsInv`: the text kept is that
  of the context but within a load (`TextsKept`), and whatever has been looked at
  since the last edit — a script on the stack past its look (`LooksFresh`), one an
  event has come by (`ToldFresh`), every one of a new configuration that is not
  still to be started (`ConfigFresh`) — has the text of its file (`FreshTexts`). `Given`:
  a script that loads has got exactly what its replay has been through, loads
  once only and has not been told the event under way; any other has got `seen`,
  and that event if it has come by. The hard step is `NotYet`: a script may be
  reloaded in the middle of an event another script causes, but only if its text
  changed, and then neither a load of it nor the event under way has passed it.

  That is why both theorems have `EditMeanwhile` FALSE, and they do not hold
  without: a script edited after `initialized` has come by, and reloaded by the
  event of a later script that drives a device, is replayed `seen`, which that
  event is not in yet (TLC, 44 states, with the bounds of the run); a script
  edited between its hash and its text (`start_script()`), and edited back, keeps
  the hash of the one and the context of the other (19 states, with two edits).

Assumptions are those of the modules' `ASSUME`s, none of them on sizes.

`TypeOK` of these modules is a theorem and not repeated as a run's invariant.

Only model-checked: the liveness properties (`TimedGoesOff`, `UpdateEnds`,
`UserReturns`, `DuePolled`, `AlarmsHandled`, `MainReturns`), as the prover does
not reach fairness and ENABLED. What they need beside it is proved, for every
value of the constants:

- `RoundsEnd`: below the top of its loop, every step of the worker is a later
  phase of the round or, in the same phase, one of at most `ARD_MAX_READS` reads
  or one bus less to handle; nobody else moves it. An Arduino that never stops
  reporting, or never answers, cannot keep it from its device poll or from
  seeing that it is to stop.
- `UpdateStepsEnd`: the same for the update thread, with the pages left, the
  tries of the page and its writing and reading in place of reads and busses;
  it is only set back by a new update, started with `fw_busy` cleared.
- `TimedRunsOut`: between two presses a light a timed switch keeps on has its
  timer, or is about to be switched off; nothing sets that back, and the second,
  the poll and the access it is waiting for each bring it nearer. Without the
  hypothesis of the other theorems (no edit, no scan in a press) it may have no
  timer at all. That the three steps are taken is the fairness.

What is left to TLC is that the next step is enabled and taken. Every invariant
and every other action property of a passing run is stated by a theorem.

## 6. Not modelled

- The FUSE tree (`src/fs*.cpp`, `include/fs_table.h`): paths, listings and
  attributes of files, tables without a state of their own. What a write of a
  file changes is an action of the component it belongs to.
- Text: a line of the switch table (`parse_buf`), JSON, numbers, the command
  line, the log.
- PWM levels, the roles and names of pins and rooms.
- The bits of the bootloader's answers, whose loss and damage are modelled; the
  wire's timing; signals that interrupt `poll()`, and errors of the GPIO file
  descriptor.
- The Arduino's registers and modes beside its interrupt status.
- The queue of change events of a device.
- The example plugins, and the ring buffer of an Arduino library.

External code (the kernel's file system, the DS2482 chip, the owSlave's firmware,
the sensors, the Arduino) is modelled as the repository's code relies on it.

## 7. Plan

Done: `Switches`, `Ds2408`, `FwUpdate`, `FwImage`, `ConfigSave`, `RomSearch`,
`Worker`, `OneWire`, `Sensors`, `Registry`, `Plugins` with their proofs.

What would come next:

1. The order of change events after the device lock is released, against the
   calls that queue them (`src/ow_dev.cpp`).
2. Compositions: `Worker` with `OneWire`, a press from the line to the output.
