# Verification of the HAPH gateway

The program is a Qt gateway: every few seconds it samples current sensors over
RS-485 or ZigBee, publishes the samples over MQTT, and keeps what it could not
publish until the link is back. These modules model the parts of it whose
correctness depends on the order of events, TLC checks them on small instances,
and TLAPS proves all the safety properties that the runs check, and the safety
half of each liveness property, for all instances.
Paths are relative to the repository.

## The system

| Component | State | Operations | Talks to |
|---|---|---|---|
| MQTT link: `helper/Mqtt/mqttoperator.cpp`, slots of `mainwindow.cpp`, `Helper::initMqtt` | `isOnline`, `isOnline2`, `dog`, static `first` | `onPingresp`, `checkDog`, `sendData`, `sendDoor`/`sendPower`/`sendSensor`, `on_connected`, `mqttConnectted`, `mqttDisConnectted`, `networkStatusChanges` | QMQTT (signals `connected`, `disconnected`, `pingresp`), DataOperator (`start`, `stop`, shared `isOnline`) |
| QMQTT: `qmqtt_client_p.cpp`, `qmqtt_network.cpp` | socket state, keep-alive timer, `_gmid`, `_midToMessage`, `_readState` | connect, CONNECT, SUBSCRIBE, PUBLISH, PINGREQ, DISCONNECT, byte-level reception | Qt socket, broker |
| Store and forward: `helper/Data/dataoperator.cpp` | `localData/`, `pendingData/`, `isOn`, a thread | `save`, `rePushPendingData_start`/`_stop`, `run` | MqttOperator (queued `needPush`), Helper |
| Acquisition: `Helper::timerEvent`, `gotoRun`, `stopRun` | `dasDataBuf`, `dasDataCounter`, `timerId` | one sampling round, start, stop | DeviceOperator, MqttOperator, DataOperator |
| Serial ports and RS-485: `Helper::initSerial`, `helper/Serial/deviceoperator.cpp` | `serialList`, `deviceOptList`, direction pins | open, read registers, write a register, ZigBee address | devices |
| Device configuration: `setDeviceConfig`, `searchDevices` | registers of the devices | a sequence of writes, a scan of addresses | settings dialogs |
| GPIO and beeper: `helper/Gpio/GPIOSet.cpp` | `isDoor`, `isDcAc`, `type`, static `num` | polling thread, beep timer | Helper (queued `door`, `dcac`) |
| Report: `createReport`, `print.cpp` | static `first`, `staArray`, one file per channel | record a change, truncate at 0 o'clock, read back | Helper, printer |
| Pending file format: `helper/AES/aes.cpp`, `save`, `run` | static key schedule `w` | pad, encrypt, read 512 bytes, decrypt | - |
| Main window: `MainWindow::timerEvent`, `startSet`, `shownum.cpp`, `numpad.cpp` | module shown, boxes of its channels, digits typed | show a module, open the settings | Helper (`dasDataBuf`, `gotoRun`, `stopRun`) |
| Settings: `settingdialog.cpp`, `DMSNavigation.cpp`, `switchbutton.cpp` | tab, page, slider | choose a page, slide a switch | CollectionSetting |
| Others: `main.cpp`, watchdog child, reading the configuration | - | start-up | - |

Threads: the GUI thread runs the Qt event loop with all timers and slots, so
that a slot is atomic with respect to other slots. `DataOperator::run` and
`GPIOset::run` are threads of their own; what they emit is queued to the GUI
thread. The watchdog is a forked child that shares nothing.

What is hard: the link's state lives in four places at once (socket, keep-alive
timer, `isOnline`/`isOnline2`, `isOn`) that different signals update; the dog
is a second, independent opinion about the link; the flag decides about
reconnecting *and* about keeping a message; the re-push thread and `save` share
directories and flags without a lock; stopping the thread blocks the GUI; the
program restarts itself every 12 hours. `PROJECT.json` lists each hazard at its
line.

What makes the components correct:

* link: handshake order; timers follow the socket; a wrong flag is corrected in
  bounded time; after disturbances end the gateway comes back online;
* store and forward: every message is sent, pending, queued or lost at one of a
  few known places; nothing is removed before it was handed over; a run that is
  not disturbed pushes everything; stopping ends;
* acquisition: a value is fresh or marked absent after the retries; the bus
  direction is reset after every request; every module uses its own port;
* device configuration: a job fails of itself only on a module that was moved;
  what the dialog knows belongs to the port it has open; reported success means
  that the module has the configuration asked for;
* QMQTT: what the broker sends is delivered whole, once and in order; an
  acknowledgement is credited to the message that was taken;
* pending files: what is pushed is what was saved;
* report: no more downtime is printed than there was, and none of today's is
  left out;
* alarms and screens: the beeper is as the inputs are; what is shown is true of
  the channel it is shown for; the lit tab is the page; a slider tells its state.

## Modules

| Module | Models | Composition |
|---|---|---|
| `LinkContract` | what the link promises its users: phases of a connection and changes of `isOnline` | abstract specification |
| `MqttLink` | MqttOperator, the link slots of Helper and MainWindow, QMQTT's connection handling, socket and broker as environment | implements `LinkContract` |
| `MqttLinkProofs` | - | theorems about `MqttLink` |
| `Resend` | `DataOperator::save`, `start`, `stop`, `run`, and `onNeedPush`, on two threads | extends `LinkContract`, its environment |
| `ResendProofs` | - | theorems about `Resend` |
| `Acquisition` | `Helper::initSerial`, `gotoRun`, `stopRun`, the reading loop of `timerEvent`, `DeviceOperator::readDevRegister` | stands alone; what `timerEvent` does after the loop is in `MqttLink` and `Resend` |
| `MCAcquisition` | configurations of modules for the runs | extends `Acquisition` |
| `AcquisitionProofs` | - | theorems about `Acquisition` |
| `DeviceSettings` | `CollectionSetting` and `ZigbeeSetting` with `searchDevices`, `getDeviceInfo`, `setDeviceConfig`, `writeDevRegister` | stands alone: the dialog stops the sampling and has an operator and a port of its own |
| `MCDeviceSettings` | a list of registers for the runs | extends `DeviceSettings` |
| `DeviceSettingsProofs` | - | theorems about `DeviceSettings` |
| `FrameChannel` | what the frame layer promises: frames whole, once, in order | abstract specification |
| `Session` | `ClientPrivate`'s ids and acknowledgements, `Frame`, the byte parser of `Network`, against a broker | implements `FrameChannel`; below `MqttLink`, which sees frame types only |
| `SessionProofs` | - | theorems about `Session` |
| `Aes` | the cipher of `aes.cpp`: tables, key expansion, block functions, length rules | operators, used by `PendingFile` |
| `PendingFile` | the bytes of one pending file through `save` and `run`, on two threads | extends `Aes`; below `Resend`, which sees whole files only |
| `MCPendingFile` | messages and builds for the run | extends `PendingFile` |
| `PendingFileProofs` | - | theorems about `PendingFile` |
| `Report` | `DataOperator::createReport`, `Print::on_btnPrint`, the configuration's look-ups | a part of `Panel`; its samples are those of `Acquisition` |
| `MCReport` | modules for the runs | extends `Report` |
| `ReportProofs` | - | theorems about `Report` |
| `Beeper` | `GPIOset`: set-up, polling thread, beep timer | a part of `Panel` |
| `Screens` | MainWindow's display and `startSet`, NumPad, SettingDialog, DMSNavigation, SwitchButton | a part of `Panel` |
| `Panel` | - | the three parts, each explored while the others are as at the start: they share neither state nor signals |
| `MCPanel` | files, modules, titles for the runs | extends `Panel` and `MCReport` |
| `PanelProofs` | - | theorems about `Panel`, with those of `ReportProofs` |

### MqttLink

`sock` is the QTcpSocket's state, `pendingClose` Qt's note that a connecting
socket is to be closed. `toBroker` and `fromBroker` are the two directions of
one TCP connection as queues of frame types; `path` turns false when the peer
is unreachable while the socket still looks connected. `broker` is how far the
broker's handshake has come. `keepAlive` is QMQTT's ping timer. The flags are
the members of MqttOperator with the same names, `first` the static of
`checkDog`, `isOn` the re-push switch. `acked` records that `connected()` was
emitted.

Each slot is an action: `TcpConnected` (onNetworkConnected), `ReceiveConnack`
(handleConnack, on_connected, mqttConnectted in that order, which is the order
of the `connect` calls), `ReceivePingresp`, `DogHeard`/`DogBites`/`DogSulks`
(the branches of checkDog), `Sample` (the end of timerEvent), `Notify`
(sendDoor, sendPower, sendSensor), `NetworkOnline`/`NetworkOffline`,
`LinkDrops`/`CloseDone` (onNetworkDisconnected, mqttDisConnectted), `Restart`.
Time passes in ping periods: `Tick` when the broker has answered everything
(`Quiet`), `TickLate`, a disturbance, when it has not. PUBACK and SUBACK are
left out; they change QMQTT's bookkeeping only.

### Resend

`main` and `worker` are the program counters of the two threads. `save` is
split where the other thread can see the file system: `SaveLocal` is part of
the slot that calls it, `SaveMkdir` and `SaveCopy` are steps of their own, and
no other slot runs between them. `run` is split at each directory listing,
emit, test of `isOn`, remove and rmdir. A file is named by the second it was
saved in and holds one message; `DayOf` maps it to its directory, so that a day
boundary lies inside the runs. Nothing keeps two messages out of one second: the
second one takes the place of the first, in `localData` and in `pendingData`.
`payload` is what the thread has read from `file`, which may hold another
message by the time it is removed. Before it puts the new file there, `save`
removes the old one; a run that opens its list's file in between gets NULL from
`fopen`, and `getc` ends the process (`RunCrash`). The names of the directory
and of the file, which the code computes by two calls of the clock each, are
taken to agree. `queue` is the queue of `needPush` events. `published`, `sends`,
`removed`, `lost`, `locFile` and `penFile` are history; `sends` counts a push
when its file has been removed, so that a push that was cut off between the two
and is repeated counts once, and a file that outlives its push does not. The
link's phase and flag change in every way `LinkContract` allows.

### Acquisition

`ports` is `serialList`, `opts` is `deviceOptList` with each operator reduced
to the port it was given. `AddModule` is one pass of the loop in `initSerial`,
including its use of `indexOf` as a truth value and its early return when a port
does not open. `at` is the loop variable of `timerEvent`; the timer does not
fire while a round is under way, nor does the settings dialog act, because a
read blocks the GUI thread. `buf` and `counter` are `dasDataBuf` and
`dasDataCounter`; a value stands for the twelve channels of a module and is
told apart by the device that measured it and its age in rounds. `late` is an
answer that missed its 500 ms. A request (`ReadModule`) clears the port, then
collects what arrives until the line is silent: the late answer unless `clear`
took it, and its own answer, which may also be late, lost or damaged.
`Accepts` stands for the checks on length, CRC, sender and function code.
ZigBee differs in `AfterFailure`. `Wired` and `Driven` are the direction pin a
port needs and the one the code sets; a device on a line whose transmitter was
not switched hears nothing. `fails` is history. Not modelled: a `RetryCount`
that is not a positive number, and values of channels that are not configured.

### DeviceSettings

`device` is the module: a function from the registers `setDeviceConfig` knows
to their values, with address, baud rate and parity, which share a register, as
one record. `cache` is `equArray`; the dialog searches address 1 alone, so that
it has one element at most. `port` is the serial port's line settings. `job` is
`setDeviceConfig` under way; `WriteRegister` is one call of `writeDevRegister`
and the steps between the calls are kept apart because the module may miss each
request and each answer may be lost, cleared away or late. The module hears
what is sent to its address with its line settings, which a write of the modbus
register changes at once. `late` is an answer to a write that missed its 250 ms;
it is taken for the next one, whose register and value nobody compares.
`SearchModNum`, `GetPar`, `SetModNum`, `SetPassType` and `SetPar` are the
buttons. `ReadPassData` ends the program when the module does not answer, which
the model treats as a restart. `wanted` and `strayed` are history.

### Session and FrameChannel

What the client writes is kept as frames, what the broker writes as bytes:
`Read` is one turn of the loop in `onSocketReadReady`, so that TCP may cut the
stream anywhere. `readState`, `header`, `length`, `shift` and `data` are the
parser's members (`shift` is the weight of the next digit of the length). `gmid`, `midToMessage` and
`midToTopic` are ClientPrivate's. A refused connection leaves the maps alone,
because a socket that never was connected emits no `disconnected`. The broker
keeps to the protocol and begins a session anew on every connection; the version
message that `on_connected` sends depends on a file that may be missing.
`connectToHost` resets the parser whatever the socket does with the request; if
that cuts a frame, `sound` turns false and `FrameChannel` promises nothing until
the next connection. `queue` and `last` are history and carry the refinement:
the refinement mapping is the identity on them. `readInt` on a frame that is too
short, which only a parser that lost its place produces, yields any id.
Base 4 replaces 128 and four ids replace 65536, so that lengths of two digits
and a wrap happen within a few frames.

### Aes and PendingFile

`Aes` has the cipher with its tables as the source types them, on bytes.
`th` holds both threads: `ExtendKey` is the store of one word into the static
array `w`, by either thread, `SaveBlock` and `PushBlock` one turn of the loops
of `aes` and `deAes`. `CharsRead` is the loop that compares the char it has just
stored with EOF: with a signed char it ends at the end of the file or at a byte
255, with an unsigned one only when `c_data` is full. `build` is the sign of
char and the configuration's `EncryptLog`. On a build with a signed char no
enciphered file is ever deciphered: the trailing blank makes every length 16k+1,
`deAes` refuses it, and the cipher text is pushed. `PushedIsSaved` leaves that
combination out and is about the three others (on ARM, the target, char is
unsigned and 512 chars are read, which is a whole number of blocks).
`dataoperator.cpp:55` keeps a pointer into a QByteArray that is gone; the model
takes its bytes to be intact still, since nothing in the code says what else
they would be.

### Report

Time is in ticks, one sampling round per tick at most. `file` has the records
of a channel's file; a record of 0 o'clock is written in a format that the
reader does not parse (`legible` is FALSE), so that it counts as a date before
all others. An absent value, -1, counts as off, and a report that ends in the
future counts the rest of its range, as the code does. `served` are the modules
that have an operator. `Restart` begins with `first` set again. The clock is
never set back; Ids of modules and channels are unique (`ReportConstants`). The
value compared with the threshold is the raw one of the payload, whereas the
main window compares the scaled one. `ReadLine` is one turn of
the loop in `on_btnPrint`.

### Beeper, Screens and Panel

`thread` is where `GPIOset::run` is; reading an input, telling Helper and
switching the beeper are steps of their own, since the GUI thread, which takes
`events` and runs `on_beep`, sees `type` in between. A file of sysfs may not
open: `broken`. The set-up is one sum of results, as in `initUart`; a value file
that does not open goes unnoticed. `num` is the static counter of `on_beep`,
which compares it for equality and never resets it when the kind of alarm
changes: after a power alarm a door alarm may find it above 4 and be silent.
`OneKindSounds` is what holds.

`screen` tells whose event loop is innermost: `startSet` opens the number pad
and the settings with loops of their own while timers go on behind them.
`grid` has a box per channel, reused for one module after the other; the case of
`setOn` for a channel that is off falls through to `hide()`, so that its label
is never seen (`OffLabelShown`). `LabelNeverLies` is about the labels that are
seen, and would hold of one that says off as well. `nav` is the navigation bar with the page it selects, `switch`
one SwitchButton of the collection page. `updateValue` is its timer, `Pressed` a
press; `setChecked`, which the end of a search calls, moves the slider but
leaves the slide that is under way, whose end is then on the other side
(`overtaken`). The tabs are those of settingdialog.cpp; nobody calls `insertTab`
or `removeTab`. Repeated `connect` calls (`collectionsetting.cpp:190`) only run
slots twice that do the same again.

## Runs

| Run | Bounds | Shows |
|---|---|---|
| `link` | 5 frames each way, 5 disturbances, a dog of 3 ping periods | types; `KeepAliveTracksLink`; `StaleOnlineIsBounded`; `ClosingIsOffline`; `ConnectFirst`; `OneSubscription`; refinement of `LinkContract`; `Recovers` |
| `link_sent_means_written` | 4 frames, 2 disturbances, 2 ping periods | **violated**: sendData answers true over a dead socket |
| `resend` | a sample and a notification, 3 seconds, 2 days, 2 stops or restarts | types; `WorkerOnlyOnAckedLink`; `ListedFilesExist`; `SentOnce`; `NothingVanishes`; `WaitEnds`; `DrainsWhileLinkHolds` |
| `resend_removed_means_sent` | 2 messages, 2 seconds, no stop | **violated**: a pending file is removed, its message dropped |
| `acquisition` | two modules on one RS-485 line, 3 retries, 6 faults | types; `ValuesAreOwn`; `BoundedAge`; `ToleratesFailures`; `ReadingsReturn` |
| `acquisition_second_line` | one module on ttyS4 | **violated**: it is never read |
| `device_settings` | two ZigBee registers, the input mode and the modbus register, two values each; 3 jobs, 2 faults | types; `FailureMeansMoved`; `CacheMatchesPort`; `RepeatedSuccessMeansSet` |
| `pending_file` | texts around a block's border and around 510 characters, at most two at a time; every build | `PushedIsSaved`; `TablesMatchField`; `ScheduleStable` |
| `session` | 3 messages, 2 in flight, 2 connections, one command or ping on each, 4 ids, lengths to base 4, 4 bytes under way before the broker writes on | types; `AckMeansTaken`; `Answered`; refinement of `FrameChannel` |
| `report_last_off` | as the report in `panel` | **violated**: a channel off all day is printed without downtime |
| `panel` | three sets of broken files, inputs change while fewer than 2 events wait; two modules, two channels, a password of two digits, a slide of 3 steps whose last one overshoots; 2 days of 5 ticks, a midnight window of 2, two modules, an AC channel and two DC ones, values absent, below and at the threshold | types; `BeeperFollowsInputs`; `OneKindSounds`; `LabelNeverLies`; `OneTabLit`; `RestShowsState`; `NeverOvercounts`; `TodayIsAccounted` |
| `panel_off_label` | the same | **violated**: a channel that is off has no label |

Bounds. Five frames hold a whole handshake (CONNECT, SUBSCRIBE, version), a
publication and a ping; `Publish` leaves the room the protocol's own frames
need, so that the bound never blocks the handshake. Five disturbances cover a
lost link whose reconnection is refused, closed early by the dog and lost
again. The proofs remove both bounds for safety. Three seconds and a midnight
between them give two directories; two messages share a second or a directory,
lie on either side of midnight, or one is saved, under its own name or the
other's, while a run is under way with the other; two stops give a stop, a
reconnect and a second stop or a restart. The proofs take any number of each. Six faults exceed the three retries, so that a value is given
up, comes back and fails again; the proofs remove the bound and take any list of
modules, over RS-485 and ZigBee. Three jobs and two faults let a job fail after
some of its registers, be repeated with an answer lost again, and succeed; the
four ZigBee registers are treated alike, so that two of them are enough to be
written, skipped and left half done. Two connections, ids that wrap and a
connection request on a live socket let an acknowledgement arrive for an id that
was used before. The texts of `pending_file` are the ones on either side of each
border; the cipher works on blocks that do not see each other. Two days have two
midnights' windows and a report that ends before it starts. `NumCap` exceeds
every value `on_beep` compares `num` with; the slide overshoots by
a pixel either way, as it does for most widths.

Fairness. `MqttLink` assumes that the event loop runs socket events and timers,
that the broker answers and that samples go on; refusals, drops, dead paths,
late timers and restarts are not fair and bounded by `MaxFaults`, so that
`Recovers` says: once they stop, the link settles. `Resend` assumes only that
both threads are scheduled and that a slot which has begun goes on; the link
owes it nothing, and `DrainsWhileLinkHolds` is conditional on a link that stays
up. `Acquisition` assumes that the timer fires and that a round which has begun
is finished, every wait in it having a timeout; ports that do not open, answers
that go wrong and visits to the dialog are not fair and bounded by `MaxFaults`.
`Session` assumes that the event loop hands over what has arrived and that the
broker answers what it reads; connections need not last. `Panel` assumes that
the polling thread, the event loop and the beep timer are scheduled; inputs and
operator owe nothing, and an error of `poll` may end the thread.

The violated runs state what a comment of the code says; each finding in
`PROJECT.json` quotes it. `SentMeansWritten`: a PINGRESP sets `isOnline2`, the
link is lost, the dog's timeout raises `isOnline` again; until the next timeout
samples are written to a closed socket and not kept. `StaleOnlineIsBounded` is
the part of it that does hold. `RemovedMeansSent`: the pending file is removed
as soon as its event is queued, and the handler drops the message if the gateway
is offline by then. `EveryModuleRead`: `indexOf` is used as a truth value.
`LastOffIsAdded`: the only record of the day cannot be read back.
`OffLabelShown`: a `break` is missing in `ShowNum::setOn`. One finding goes with
a property that holds: by `ToleratesFailures` a failed read over RS-485 leaves
the old values for the retries to come, whereas the comment of
`readDevRegister` (`deviceoperator.cpp:302`) has them set to -1; over ZigBee
they are (`:487`, `:507`), and there the tolerance of three faults that
`helper.cpp:186` promises is not kept, so that the property speaks of RS-485
lines only.

What no comment contradicts is not a finding and is part of the models: modules
on another port are given the first one's (`AddModule`), a directory may be
removed between its creation by `save` and the copy (`SaveCopy` can fail),
messages of one second overwrite each other, and a configuration that was changed and changed back is reported as set without a
write, which is why `RepeatedSuccessMeansSet` speaks of whoever asks until
success is reported.

## Proofs

What TLC checks on one instance these modules prove for every value of the
constants, from the assumptions named in the modules (`ConstantsOK`,
`ScreensConstants`, ...). Hypotheses beyond those are given below. Few of the
properties are inductive; each module has an inductive invariant (`Inv`, in
`SessionProofs` `Linked` and `Acknowledging`) with one part per idea and one
lemma per action. The theorems `InvOK` and their like state it; the properties
follow from it.

| Module | Proved | Beyond the constants' assumptions |
|---|---|---|
| `MqttLinkProofs` | `TypeOK`, `KeepAliveTracksLink`, `StaleOnlineIsBounded`, `ClosingIsOffline`, `ConnectFirst`, `OneSubscription`, refinement of `LinkContract` | - |
| | `SettledStays`, `NeverFurther` | `DogPeriod >= 2` (6 in the code) |
| `ResendProofs` | `TypeOK`, `WorkerOnlyOnAckedLink`, `ListedFilesExist`, `SentOnce`, `NothingVanishes`, refinement of `LinkContract`, `RunsEnd`, `WaitIsShort`, `NothingIsPassedOver` | - |
| `AcquisitionProofs` | `TypeOK`, `ToleratesFailures`, `NeverOlder`, `TwoRoundsReturn` | - |
| | `ValuesAreOwn`, `BoundedAge` | addresses differ |
| `DeviceSettingsProofs` | `TypeOK`, `CacheMatchesPort`, `FailureMeansMoved`, `RepeatedSuccessMeansSet`, `Traceable` | - |
| `SessionProofs` | `TypeOK`, `AckMeansTaken`, refinement of `FrameChannel`, `NothingIsOvertaken` | - |
| `PendingFileProofs` | `ScheduleStable`, `PushedIsSaved`, `TablesMatchField` | - |
| `ReportProofs` | types, `NeverOvercounts`, `TodayIsAccounted` | - |
| `PanelProofs` | `TypeOK` of all three parts, `BeeperFollowsInputs`, `LabelNeverLies`, `OneTabLit`, `RestShowsState`, `BeepComesRound`; `ReportIsKept`: what is proved of `Report` holds of `Panel` | - |

**MqttLinkProofs.** `Inv` adds `LinkShape` (what a socket state implies for
wire and flags, for instance that a socket which is down has an empty wire and
that `isOnline2` implies a running dog) and `SessionShape`: a connection whose
path is alive is in one of three stages, `AwaitsConnect`, `AwaitsConnack`,
`Acknowledged`, each of which says which frames can be in flight and that they
are unique. The contract needs `Inv` at one point: a CONNACK can only be read
when none was read before, so that `ReceiveConnack` is the contract's
`LinkReady`.

**ResendProofs.** Two threads work on `pendingData` without a lock, and all that
either knows of the other's files is their names. `NameShape` says that a file
holds a message that was given its name: whatever is removed by name, then,
held the message meant or one of the same second, which is all
`NothingVanishes` gives away. `ListShape` says that the directory of the files
that the thread has listed stays: `rmdir` comes after the last of them, and so
the copy by which `save` replaces a listed file cannot fail. This is why
`ListedFilesExist` has one exception and no other. `ThreadShape` follows the
message read from a file up to the file's removal, though the file may hold
another one by then; `SavingShape` says that the message being saved has no
file yet. `Credit` says that what can still be pushed has not been pushed and
done with; it is the inductive form of `SentOnce`. `KeepsLinkContract`
is the other half of the contract that `MqttLink` implements: what `Resend`
assumes of the link is what `MqttLink` is proved to do, so that the two compose.

**AcquisitionProofs.** `SetupShape` says that nothing is sampled before
`initSerial` returns, `LateShape` that a late answer has an operator, on an open
port, that disposes of it within a round, `CounterShape` that the counter is the
number of failures since the value was read and bounds its age. `LateShape` makes
the bound independent of who shares a port with whom. `BoundedAge` is sharper by
a round: since every operator is given the first port (`PortShape`), a late
answer is the latest request's, or last round's when the first module is about to
be read (`LateIsRecent`), and with several modules the next read clears it or
refuses its address (`SharedIsFresh`). Different addresses are needed: if
ttyS2 and ttyS4 each have a module 1, both operators are given ttyS2 and the
second module is shown the first one's values.

**DeviceSettingsProofs.** After lost and late answers the dialog may rely on two
facts. Every register holds what was read from it or what one of the dialog's
jobs has asked for since (`Traceable`). A job none of whose answers was a stray
one has put every register it has passed into place, given that the dialog has
asked for one configuration only (`Confirmed`).
`JobShape` ties the job to the cache it was made from. The proofs hold for any
ZigBee page and any number of jobs and faults.

**SessionProofs.** The frame layer has two invariants, for lengths to any base
and of any number of digits, frames of any contents and any number of ids.
`Parsing` says that the bytes on the wire are the rest of the frame whose header
was read (`Begun`: the rest of the length's digits and the payload, or of the
payload) followed by the whole frames that `queue` still has behind it
(`Frames`). That a byte then belongs to one frame only needs `encodeLength` to
be read back by `LengthByte` digit by digit, which is why `shift` is the weight
of a digit and not a count. `FramesAreDelivered`, the refinement, follows step
by step. `Drawing` says that the ids under way are the latest that `nextmid`
drew (`Latest`), on the wire in the order in which they were drawn (`Ordered`):
acknowledgements before frames not yet read, older before younger. With it,
`NextIsFree` and `SecondIsFree` show that an id comes round again only when its
frame is gone: the ids under way that name messages are remembered, at most
`MaxInFlight` of them, and there is one SUBSCRIBE per connection, whence the
assumption `MaxInFlight + 2 <= IdCount` (65536 in the code). The guard of
`Publish` on the messages in flight is the model's; the code has none, so that
the theorem is about connections on which fewer than 65535 messages are
unacknowledged. `OkFrame` and `OkSent` say that what is acknowledged was taken.
No step looks further than one connection, since `disconnected` clears the maps.

**PendingFileProofs.** For messages of any length, any contents and any number,
and whichever builds are considered (`BatchesAssumption`, `BuildsAssumption`).
A word of the key schedule is stored from words below it only, and both threads
use the same key; so every word below the place where a thread is (`Expanded`)
is what any thread would store there again. This gives `ScheduleStable`, for
which neither the tables of the cipher nor the texts matter, and says that there
is one schedule, `KeyWords`, that both threads have when they start on a block
(`OneSchedule`).

`PushedIsSaved` needs the cipher itself. That a block comes back
(`BlockComesBack`) is shown round by round from four facts: the two boxes are
inverse (`BoxesAreInverse`, by evaluation over 256 bytes), rows turn back
(`ShiftedBack`), a word is added twice, and a mixed column is unmixed
(`MixedBack`). The last one is linear algebra over bits: exclusive or is addition
modulo 2 in every bit (`XorIs`), multiplication distributes over it
(`ProductSum`), and each byte's `Contributions` to the four places of a column
that was mixed and mixed back are odd in its own place and even in the others.
The rounds are a recursive function; that it exists is shown by writing it down.
`Buffers` then follows a text through both threads: which of its blocks are
enciphered (`SaveOK`), what its file holds (`OnFile`), what `c_data` holds of it
after the read, with the zeros behind a short file (`ReadIs`), which of its
blocks are deciphered (`PushOK`), and, when the thread looks for the end of the
string, a text that is the saved one up to what `c_data` can hold (`Kept`,
`TextIsKept`). The padding matters: `getAesLen` leaves a zero behind every text,
and that zero is what ends the deciphered string before what `deAes` makes of
the rest of `c_data`.

`TablesMatchField` says that the tables are those of AES: `GFMul` multiplies in
the field of 256 elements, `S` holds the affine images of its inverses.
A product is the sum of the doublings of one factor at the bits of the other
(`ProductSums`, `OnProduct`), which gives the rows of `GFMul`
(`FactorsMultiply`). Multiplying 65536 pairs out is beyond the provers. Instead,
x^8 = x^4 + x^3 + x + 1 (`EighthDoubling`) lets a factor 3 move from one side of
a product to the other (`ThreeMoves`); a table of the powers of 3, of which each
entry is three times the one before (`NextPower`), holds every byte but zero; so
two powers whose exponents add up to 255 are inverse (`PowersCancel`), and only
the 255 affine images have to be worked out one by one (`BoxIsAffine`).

**ReportProofs.** `FileTells` makes a channel's file a summary of its samples:
from one line to the next the channel was in the state of the first of the two,
and every stop since the midnight window has its line. `LastNoted` ties the
static `staArray` to the last line, across restarts. The loop of `on_btnPrint`
(`ReadLines`) is then a walk along the ticks (`Walk`): at every line what has
been added up lies between the stops and the downtime passed so far. `ReadLines`
is a recursive function; that it is defined for every file is shown by way of a
least line at which it is not.

**PanelProofs.** `LastWord`: the last signal queued carries what the polling
thread knows; `NoEdgeMissed`: what it knows of an input is its level unless an
edge is pending. Together they give `BeeperFollowsInputs` once nothing is under
way. `Truthful` speaks of every box of the grid, not only of those of the module
shown, because boxes are reused. The report keeps to its own specification
whatever the other parts do (`ReportIsKept`). `Heading` relates the slider's end to its state
unless a `setChecked` has overtaken the slide.

**What is proved of the liveness properties.** Fairness and `ENABLED` are out of
the prover's reach. What can be proved for every instance is that nothing stands
in the way: a count of what is left, bounded, which every helpful step lowers and
which no other step raises. What TLC adds, on small instances, is that the fair
scheduler takes the helpful step, and that there always is one.

| Property | Left | Theorems |
|---|---|---|
| `WaitEnds` | `StepsToStop`, at most 6 | `WaitIsShort`: each step of `run` lowers it while the GUI thread waits |
| `DrainsWhileLinkHolds` | `StepsLeft`, at most `2 * Room + 2` | `RunsEnd`: each step of `run` lowers it, whatever `save` adds; `NothingIsPassedOver`: as long as the link holds, a file the run has still to come to stays so until it is removed |
| `Recovers` | `Distance`, at most 21 | `NeverFurther`: undisturbed, no step raises it and each helpful one lowers it; at 0 the link is `Settled`; `SettledStays` |
| `ReadingsReturn` | the modules before the next one (`at`) | `TwoRoundsReturn`: a round goes through all of them, the first request on an open port leaves a clean line behind, on a clean line a module read is up to date and stays so |
| `Answered` | the frames before the message's, then before its acknowledgement | `NothingIsOvertaken`: no step lets another frame go first, and the last one signals the message |
| `OneKindSounds` | `BeepsLeft`, fewer than 7 | `BeepComesRound`: a beep sounds or leaves fewer silent ones |

`NeverFurther` is where the dog could do harm: it remembers earlier links, and
could close each new one before its first answer. `Bites` says that it closes a
fresh link at most once: having closed one without an answer, it closes no other
before it has heard one (the static `first` of `checkDog`). A live link then
stays out of its reach, since a ping is answered before the dog looks again;
this needs a period of two pings or more, whence the hypothesis.
`NothingIsOvertaken` uses `Acknowledging` and `Parsing`: the client's frames are
taken in order, the broker's are read in order, an acknowledgement in `queue` has bytes on the wire,
and its number still maps to the message when it comes.

Induction over data is done through least counterexamples (`WFMin` of the
library), as in `Strongly` and `DigitsExist`. The state machines' invariants were
checked by TLC before they were proved.

Only model-checked: that `Recovers`, `WaitEnds`, `DrainsWhileLinkHolds`,
`ReadingsReturn`, `Answered` and `OneKindSounds` follow from the above under the
fairness stated, since the prover has neither `ENABLED` nor induction along a
behaviour.

## Not modelled

The commands of the management topic start external scripts. ZigBee net
addresses are set with one request nobody waits for. `calibrateDevice`, wills,
unsubscribe, automatic reconnection and the router have no caller, and
`qmqtt_client.cpp` only delegates. `Printer` writes lines to a serial port; its
answer compares the count with one too many and is always false, but nobody
looks at it. The system page has fields and no behaviour. The JSON reader fills
a structure once; it has no return at its end, and when it fails the main window
goes on without an `mqttOperator`: the models begin with a configuration that
was accepted. Layout, colours, the clock, the log handler and the watchdog child
have no behaviour that interacts with the rest.

No property covers a port that stays closed or is one of several
(`helper.cpp:67`, `:81`), messages that are not acknowledged when a connection
ends (`qmqtt_client_p.cpp:361`), a configuration changed and changed back, an
answer taken for another write's, a module kept on show after a search that
could not open its port, a beeper that falls silent after alarms of both kinds,
and a slider overtaken by a search: the code behaves as the hazards say and
nothing in the repository promises otherwise.

## Plan

Done: every safety property that a run checks has a theorem, and every liveness
property has its safety half. What would say more:

1. `DeviceSettings` on a line with a second module, so that a late answer of
   another module is told apart from the module's own.
2. `FrameChannel` composed with `MqttLink`: the order of frame types `MqttLink`
   starts from is what `Session` delivers.
