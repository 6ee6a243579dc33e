# Eco-watt in TLA+

A verification project for the Eco-watt firmware (`src/`, `include/`) and its cloud server
(`server/`). The device is an ESP32 that polls a solar inverter over Modbus, buffers and
compresses the samples, publishes them over MQTT, and takes three kinds of command from
the cloud: configuration, register writes, and firmware updates.

## 1. The system

| part | state it keeps | operations | talks to |
|---|---|---|---|
| Firmware update, device (`include/FotaManager.h`, `fotaReceived` in `src/Mqtt.cpp`, `setup` in `src/main.cpp`) | flash partitions, OTA data, NVS namespace `fota`, members | manifest, chunk, finish, reboot, `begin`, self-test | server over MQTT, boot loader |
| Firmware update, server (`server/fota_manager.py`, `server/mqtt_client.py`) | one session: firmware, version, next offset, total, active, armed fault | upload, pause, resume, abort, inject, status received | device over MQTT; HTTP threads and the MQTT thread share the session |
| SecureLink (`include/SecureLink.h`, `server/securelink.py`) | boot and sequence number of each sender, last pair the device accepted | seal, open, restart | wraps every message |
| Configuration (`src/ConfigUpdate.cpp`) | EEPROM bytes, `config_changed`, four globals | `SaveConfig` (cloud task), `ApplyConfig` (main task) | poller, compression, upload timer |
| Write commands (`src/Mqtt.cpp`, `src/main.cpp`, `src/Poller.cpp`, `src/CloudTransport.cpp`) | two flags, address, value, emulation fields | `writeReceived` (cloud task), `Poller::write` with retries (main task) | inverter |
| Poller (`src/Poller.cpp`) | next poll time, back-off, counters | `read`, `changePeriod` | inverter, ring buffer |
| Acquisition buffer (`src/Buffer.cpp`) | ring of records, head, tail, size, dropped | `push`, `drainTo`, `clear` | poller, upload timer |
| Upload path (`src/Uploader.cpp`, `mqttEnqueue`, `CloudConnect`) | transmit queue of 32 messages | drain, compress, seal, enqueue, publish | both tasks, broker |
| Compression (`src/Compression.cpp`, `server/telemetry.py`) | none across calls | `compressDelta`, `decompressDelta`, `decompress_delta` | device to server |
| Server web application (`server/app.py`, `server/state.py`) | `current_config`, log buckets, `data_records` | one route per form and button, `api_data`, `api_logs` | dashboard page, device over MQTT |
| Dashboard page (`server/web/static/script.js`) | charts, current values, forms, log panels | polls of data and logs, submits, tabs, visibility of fields | web application over HTTP |
| Documentation search (`docs/docs/html/search/search.js`, `menu.js`, `cookie.js`) | text, timers, popup, index files loaded, result list, focus | keys, clicks, timers, loads | browser |
| Modbus framing, RS-485 and HTTP input, WiFi, Packetizer | none that matters here | pure or byte I/O | |
| Monolithic `server.py`; documentation navigation | a copy of the package; a page's layout | | |

Two tasks run on the device, pinned to different cores (`main.cpp:293-311`): `main_task`
polls, writes, uploads and applies configuration; `CloudConnect` runs `client.loop()`, and
with it every message handler, and publishes from the queue. Nothing but the queue is
protected. On the server Flask runs each request on a thread of its own, and these and the
MQTT thread share the session, the configuration, the logs and the records. The page runs
on one thread, but its fetches and timers overlap.

What is hard, part by part (each hazard is listed at its line in `PROJECT.json`):

* **Firmware update, device**: power can be lost between any two writes to flash, NVS or
  OTA data, and six NVS keys have to agree for a resume to be right; a job that outlives
  its update targets the partition that executes. Correct means: the image that executes
  is not damaged and the device has an image to start; only an image whose digest was
  checked is selected; what is resumed is what was promised.
* **Firmware update, transfer**: answers drive the server and there is no timer on either
  side, so any lost or ignored answer stops the update; pause, resume, abort and a second
  upload race the MQTT thread.
* **SecureLink**: both sides take numbers without a lock, the window of the receiver is
  lost at restart, the broker delivers again. Correct means: nothing is handled twice,
  nothing new is refused, no number is used twice.
* **Configuration and commands**: bytes, flags and one-place slots shared by two tasks
  without a lock. Correct means: only a configuration that passed the checks survives a
  restart and takes effect; a command is carried out whole, and once.
* **Telemetry**: limits (ring, queue), failures in the middle of the path, decoding of
  wrapped 16-bit differences.
* **Dashboard page**: polls that overlap and answer out of order, a clock of the device
  that may be set back, animations that overlap; requests of several forms under way while
  the routes of others run; fields that are hidden and still have a value.
* **Documentation search**: a timer whose handle is forgotten while it is pending, index
  files that arrive late or never, a list that is replaced under the focus.

## 2. Plan

| module | subject | state |
|---|---|---|
| `FotaDevice`, `MCFotaDevice`, `FotaDeviceProofs` | firmware update on the device, with power loss and flash faults | done |
| `FotaTransfer`, `MCFotaTransfer`, `FotaTransferProofs` | server session, channels, device answers; liveness; the device's flash and NVS reduced to a cursor | done |
| `RingBuffer`, `DeltaCodec`, `Telemetry`, `MCTelemetry`, `DropOldestQueue`, `TelemetryProofs` | the way of a record from poll to `data_records`; the ring implements a queue that drops its oldest record | done |
| `DeviceTasks`, `MCDeviceTasks`, `DeviceTasksProofs` | the two device tasks over shared memory: `SaveConfig` against `ApplyConfig` byte by byte, the write and emulation slots, the retries of `Poller::write`, the emulation flag read twice by the transport | done |
| `SecureLink`, `MCSecureLink`, `SecureLinkProofs` | numbers taken without a lock on both sides, the receive window, restarts, a broker that delivers again | done |
| `Dashboard`, `MCDashboard`, `DashboardProofs` | charts and values over overlapping polls | done |
| `ControlForms`, `MCControlForms`, `ControlFormsProofs` | forms, routes, configuration and log panels | done |
| `DocSearch`, `MCDocSearch`, `DocSearchProofs` | the search box of the documentation | done |
| `Poller` | schedule over a wrapping clock, back-off | left |
| `DeltaCodec`, second part | the device's own decoder, which has no caller | left |
| proofs | every invariant and every safety property of the runs, and the refinement of the ring | done |

Each module is parameterised by constants with named assumptions, has one action per
operation and uses no `RECURSIVE` operator, so that it can be proved about as it stands. A
detailed module keeps one subject in full and reduces the neighbour to what the subject
sees: `FotaTransfer` sees the flash of `FotaDevice` as the bytes written so far,
`Dashboard` sees `Telemetry` as records that arrive, `ControlForms` sees `DeviceTasks` as
a topic. Definitions marked *mutant* in the modules are plausible faults of the code; no
specification uses them. Each says what a property would notice.

## 3. Firmware update on the device (`FotaDevice`)

State is split as the hardware splits it. `flash`, `ota`, `boot` (OTA data) and `nvs` (the
keys of the namespace `fota`) survive a power loss; `ram` (the members of `FotaManager`)
does not. `phase` says whether the device is off, in `setup()` before the self-test, or
running; `running` is the partition it executes. `vetted` and `reused` are history: the
partitions whose contents passed `finishAndVerify`, and whether a chunk or a finish was
taken for a job on the partition that executed at that moment.

| action | code |
|---|---|
| `ManifestFresh`, `ManifestResume`, `ManifestEraseFails`, `ManifestPowerLoss` | `handleManifest` (`FotaManager.h:117-201`) |
| `ChunkRefused`, `ChunkWritten`, `ChunkWriteFails`, `ChunkPowerLoss` | `handleChunk` (`:213-235`) |
| `FinishRefused`, `FinishFails`, `FinishCleared`, `FinishSelected` and their power losses | `finishAndVerify` (`:247-294`) |
| `Boot` (`BeginIdle`, `BeginResumes`, `BeginGivesUp`, `BeginClears`), `BootPowerLoss` | `begin` (`:48-92`) after the choice of the boot loader (`BootChoice`, `BootState`) and what the Arduino core does before `setup()` (`CoreStates`) |
| `SelfTest...` | `bootSelfTestFinalize(true)` (`:316-343`), which `setup()` calls |
| `Reboot`, `PowerLoss` | `requestReboot`; power |

Every handler with more than one NVS write has a second action in which power is lost
after the first *k* of them (`Mix`), between the flash operation and the writes, or after a
part of a flash operation.

What is abstracted. A digest is the sequence it hashes, so two images never share one. Flash
is a sequence of units; programming a unit that is not erased with something else gives
`Garbage`. The next update partition is the other of two and is never null. The boot
loader and the image check of `esp_ota_set_boot_partition` are external: they accept a
partition that begins with a complete image. The nonce is not modelled, NVS puts and
`prefs.begin` succeed. A chunk may carry any data at any offset and in any order, so no
assumption about the server is built in. `setup()` always calls the self-test with `TRUE`
(`main.cpp:206, 255`), because one set bit suffices and the WiFi bit is always set; a job
that is pending without an active SHA context is at offset 0, where a resume reads nothing.

The build. `platformio.ini` builds the Arduino framework on `espressif32@3.5.0`. Its core
looks at the running image in `initArduino()`, before `setup()`, and marks a pending one
valid unless the sketch overrides `verifyOta` or `verifyRollbackLater`, which this one does
not. `CoreValidates` says whether it does; it is `TRUE` in every run, and the theorems hold
for both values. The core does not look at the result: when the OTA data cannot be written
the image stays pending, and only then does `bootSelfTestFinalize` find it so.

### Runs

Two partitions of two units, two units of content, two images; `MaxHash = 2` bounds what is
fed to one SHA context, which is enough to hash a whole image, to hash one chunk twice
after a failed write, and to reach the refusal beyond the end.

| run | flash that may fail | checks |
|---|---|---|
| `DeviceUpdate` | read, OTA data, image state | `TypeOK`, `HashTracksFlash`, `JobIsStored`, `SelectedIsVerified` |
| `DeviceFlashFaults` | all: erase, write, read, OTA data, image state | `NeverBricked`, `RunningHoldsImage` |
| `DeviceJobLeft` | none | finding: `NoJobOnRunning` fails |

In all three power may be lost between any two writes, inside the self-test too.

The properties are checked where they hold. `SelectedIsVerified` and `HashTracksFlash` need
erases and writes that succeed (`FlashSound`): after a failed write the digest is ahead of
the flash and, for suitable images, the same chunk sent again completes a digest that
flash does not match. `SelectedIsVerified` speaks of the moment of selection; what may
happen to the partition between that and the restart is in section 10.

On this build the job of a finished update is not cleared: it targets the partition that
executes after the restart. That is the finding of `DeviceJobLeft`. `RunningHoldsImage` and
`NeverBricked` say that nothing else is dangerous: as long as no chunk and no finish is
taken for such a job (`~reused`), whatever operation fails and wherever power is lost, the
image that executes stays whole and the boot loader finds one to start. They would be
violated if a manifest chose the partition of the job before, or the one that is not
selected for boot, instead of the one that does not execute (`TargetKept`,
`TargetUnselected`).

These configurations set `CHECK_DEADLOCK FALSE`: once a job on the executing partition has
been used, a device can be left without a complete image and stays off.

### Proofs (`FotaDeviceProofs`)

For every partition size, image set, version set and bound, either build and any set of
flash faults: `TypeCorrect`, `RunningSafe` and `BootSafe`; under `FlashSound`, `HashCorrect`
and `SelectionVerified`; under `EraseSound`, `JobIsStoredAlways`.

The argument for `RunningSafe` and `BootSafe` is one inductive invariant, `HomeInv`. *Home*
is the partition selected for boot if it is valid, and the other one if it is not: the one
the device falls back to. `HomeInv` says that, until a job on the executing partition has
been used, Home holds an image and was not given up; that Home executes while the device
runs; and that in `setup()` the partition that executes is Home, or the pending one that
the boot loader just tried. `RunningHoldsImage` and `NeverBricked` alone are not inductive:
they say nothing of the partition that is left when the one selected turns out damaged or
is given up. A manifest never touches Home, because it takes the partition that does not
execute; a chunk does not, because then it would be for a job on the executing partition;
and selecting a partition, marking it valid or invalid, or a restart moves Home only to a
partition that holds an image.
`HashTracksFlash` is inductive with `TypeOK`, and `SelectedIsVerified` follows from it in
the step of `finishAndVerify`.

`JobIsStored` speaks of the running phase, but `begin` loads the job before that:
`StoredInv` says that from the moment the members hold a job, the self-test included, NVS
holds the same one. It needs erases that succeed: after one that failed, `handleManifest`
leaves the new job in the members and the old one in NVS (`FotaManager.h:139-154`), and TLC
finds the state.

## 4. Transfer (`FotaTransfer`)

`session` is the dict of `fota_manager.py`, `thread` the MQTT thread inside `on_message`
with its locals, `posting` the message an HTTP handler has changed the session for and not
published yet, `down` and `up` the two topics, `device` the device's job. `on_message`
takes one step per access to the session (`StoreTotal`, `CheckActive`, `ReadCursor`, `Cut`,
`Send`), because Flask's threads change it in between without a lock; `StartUpload`,
`Pause`, `Resume`, `Abort`, `ArmFault` and `AskReboot` are the HTTP routes. The device
answers each message in one step (`TakeManifest`, `TakeChunk`, `TakeFinish`, `TakeReboot`,
`TakeUnknown`, `DropTampered`). `PowerLoss` takes the device off line and drops what is on its way to it
(clean session, QoS 0), `Start` restores the job from NVS; `Lose` drops one message of either topic. A message that
SecureLink refuses because a later one overtook it is lost in the same way.

What is abstracted. HTTP requests run one at a time. A firmware stands for its version, size
and digest. Failures of `handleManifest`, of flash and of NVS are in `FotaDevice`. The
chunks of two firmwares that overlap may mix on the device, and the digest rejects the
mixture (`SelectedIsVerified` of `FotaDevice`, where chunks carry any data); here
`WrittenIsPrefix` is about overlapping uploads of one firmware.

### Runs

| run | bounds | shows |
|---|---|---|
| `TransferOneFirmware` | firmware of 3 units, chunks of 1; 2 overlapping uploads, all faults, 2 of pause/resume/abort/reboot, 1 restart, 1 loss | `TypeOK`, `OneMessagePerRequest`, `WrittenIsPrefix`, `ThreadAlive` |
| `TransferRetried` | chunks of 2 units, 4 uploads, a fault, a pause or a reboot request, 1 restart, 1 loss | liveness `RetriedUploadCompletes` |
| `TransferRestart` | 1 upload, 1 restart | finding: `AutoResume` fails |

Three chunks let a chunk be first, middle and last; two uploads let a manifest arrive while
the other upload's chunk is under way; four uploads are one more than the three
disturbances (control, restart, loss) can spoil. `CHECK_DEADLOCK FALSE` in these configurations:
the bounds are used up, or both sides wait for each other, which is what the liveness
properties are about.

Fairness. `Running` is weak fairness of the MQTT thread (`loop_forever`), of an HTTP handler
that has a message to publish, and of the device, whose task loops and which starts again
after a power loss. Losses, power losses, faults and controls have none. `RetrySpec` adds
an operator who uploads again when nothing moves; that is an assumption about a person, made
because the code has no timer, and it is used by `RetriedUploadCompletes` alone.

### Proofs (`FotaTransferProofs`)

For every set of firmwares, chunk size and bounds: `TransferTypeCorrect`;
`MessagesBounded`, by an inductive count of what each action takes and gives; and
`PrefixWritten`, when there is a single firmware. The last rests
on the invariant `PiecesInv`: every chunk under way, on the topic, in the thread or about to
be posted, carries the part of the firmware at its own offset (one cut short still does),
and no total that either side holds is longer than the firmware, so the thread never cuts
beyond its end. `WrittenIsPrefix` alone is not inductive, because a chunk that is no piece
could already be on the topic.

`ThreadAliveAlways`: the thread dies when it slices a session without firmware. Until
somebody aborts, a session has none only before the first upload, and `BeforeUploads` says that until
then nothing but reboots and their reports is under way, so nobody asks for a chunk.

## 5. Telemetry (`RingBuffer`, `DeltaCodec`, `Telemetry`)

`Telemetry` composes the ring (`ring`, operators of `RingBuffer`), the transmit queue
(`txq`), the messages between publish and reception (`air`), the server's `data_records`
(`records`), and the register mask the main task applies (`mask`). `captured` and `gone`
are history: what was built from a reply, and the time stamps of what was given up.

| action | code |
|---|---|
| `Poll` | `Poller::read` with a good reply: build the record with the current mask, push |
| `Upload`, `UploadFails` | `main_task` drains, `uploadBatch` compresses, seals and enqueues; a full queue refuses the batch silently; `seal` fails |
| `AckWrite` | a message of `Poller::write` takes a slot of the same queue |
| `ApplyConfig` | the mask changes between a poll and the upload |
| `Publish`, `PublishFails` | `CloudConnect` takes one message and deletes it whatever `publish` returns |
| `Restart`, `Lose`, `Receive` | power; QoS 0; `on_message` decodes and `trim_records` |

`DeltaCodec` is the wire format byte by byte: `CompressDelta` is the device's encoder and
`DecompressDelta` the server's decoder, so what `records` shows is what the server
computes from the bytes. A reader returns its value and the bytes that are left, where the
code returns an index; a varint has as many bytes as the number needs, at most the five of
a number of 32 bits.

What is abstracted. Messages are authenticated, so the decoder's paths for a truncated or odd
buffer are left out. Time stamps increase, because the poll period is at least a second
and a clock set back is not modelled (`Elapsed` clamps it to 0). When the main task polls,
and its back-off, belong to `Poller`: here a poll and the end of an upload period may come
at any time. Write acknowledgements are empty messages, one per action. Nothing resizes the
ring: a new `BUFFER_CAPACITY` is stored and never used. The mask is applied in one step
here; the torn reads of the EEPROM belong to `DeviceTasks`.

### Runs

`Telemetry` uses two registers with values 5 and 300 (one byte and two on the wire,
differences of both signs), a reply that lacks the second register, time gaps of two varint
bytes, a ring of 2, a queue of 1, 2 records kept by the server, 3 polls (so the ring
overflows and the server trims), 2 mask changes, 1 acknowledgement (which fills the
queue) and 1 fault.

* `Pipeline`: in order of capture, every record is in one place (server, network, queue,
  ring) or was given up; the server decodes its time stamp.
* `ValuesAsRead`: a register the server shows and the inverter returned has that value.
* `RingIsQueue`: the ring implements `DropOldestQueue` (refinement, `items <- Contents(ring)`).
* `EverythingSettles`: every record reaches the server or is given up. Fairness is weak
  fairness of `Upload` (the upload period ends again and again), `Publish` (the cloud task
  loops) and `Receive`. `WF` is written out with each action's guard instead of
  `ENABLED`, because TLC would evaluate the codec for it; `Poll` has no fairness.

The values stay below 32768. The encoder takes differences of signed 16-bit values and the
server clamps sums to 0..65535 (`telemetry.py:109`): larger values are shown as 0, and the
error lasts to the end of the batch.

### Proofs (`TelemetryProofs`)

`RingImplementsQueue`: `Spec => RingIsQueue` for every capacity, reply, mask and bound. The
inductive invariant is `RingInv`: the indices are in range and
`head = (tail + size) % Cap`. Without the equation a push into a ring that is not full
could overwrite an element. The lemmas about `% Cap` are turned into `Wrap` once
(`WrapArithmetic`), `PushedContents` shows that a push appends, dropping the first element
of a full ring, and every action of the system is then a push, a drain, a restart or none.

`CodecRoundTrip`: for every batch that fits the wire format (`Sendable`: at most 65535
records whose times do not run back, differ by less than 2^32 and fit 64 bits) and every
mask, the server decodes from the device's bytes the same records in the same order, with
their time stamps and the registers of the mask, and with values below 32768 each register
has the value of the record, or of the last one before it that had the register; with a mask
that selects no register it shows no record. The proof goes up the layers. Digits:
`ShiftedIs` and `NumberIs` say that the recursive functions of the codec exist and that the
digits cut off a number make it up again. Numbers: `LittleEndianRead` and `VarintRead` say that a reader returns what was written and exactly the bytes after it,
whatever follows. Records: `RegistersRead` and `RecordRead` carry the reader over the
registers of a record and the decoder over a record, with the decoder's `last` equal to the
encoder's. Batches: an induction over the records. Each induction is over a set of numbers
(`SetInduction`), because the library's theorem takes an operator. `SmallValueArrives` is
its step for one value of a register; `HighValueIsLost` says for every pair of values that
one of 32768 or more after a smaller one becomes 0, so the bound on the values cannot be
left out.

`PipelineAlways`: `Spec => []Pipeline`, for every mask, reply, queue, server and number of
polls, faults and changes of configuration, under `RingFits` (the ring has fewer than 65536
records, whose number travels in 16 bits: `BUFFER_CAPACITY` is a `uint16_t`, `main.cpp:41`)
and `TimeFits` (polls are less than 2^32 seconds apart, and fewer than 2^32, so that their
times fit 64 bits: the code takes them from a `uint32_t`, `Poller.cpp:71`).

`Pipeline` alone is not inductive: it does not say that the batch of a message is what the
server will decode from its bytes. `PipelineInv` adds that: time runs forward in what was
captured (`CapturedOk`), the ring holds the last of it (`RingOk`), each message is an
acknowledgement or the compression of a batch that fits (`QueueOk`), and what was given up
had been captured (`GoneOk`). The argument about order is about four sequences of numbers
joined to a line: `LineUpload`, `LineDrop`, `LinePublish`, `LineLose`, `LineReceive` and
their like say that moving a part, cutting one out, or adding a later number keeps it
whole, and each action is one of them (`LineAfterPoll` ... `LineAfterReceive`).

`ValuesAsReadAlways`: `Spec => []ValuesAsRead` under the same hypotheses and `SmallReplies`
(no register of a reply reaches 32768). `ValuesInv` says that every batch on its way, and the
ring, consists of records that were captured, and that each record of the server *shows* one
of them: same time stamp, same values of the registers both have. `ValuesAsRead` looks a
record up by its time stamp; that it finds the right one is `CapturedOnce`.

## 6. The two tasks (`DeviceTasks`)

`cells` is the EEPROM library's copy in memory and `flash` what was committed; `slot`,
`wflag` and `eflag` are the globals of a write command; `cloud` and `main` are the two
tasks with their locals. Fields of the slot hold the number of the command they came from.

| action | code |
|---|---|
| `ReceiveConfig`, `Store`, `Commit`, `Raise` | `SaveConfig` with its checks, `updateConfig` byte by byte, `EEPROM.commit()`, the flag (`ConfigUpdate.cpp`) |
| `ApplyStarts`, `ApplyReads`, `ApplyAssigns`, `ApplyEnds` | `ApplyConfig` and `retrieveConfig`, byte by byte in either order within a parameter |
| `ReceiveCommand`, `StoreCommand` | `writeReceived`: with the optional keys the flag is raised first, without them last |
| `WriteStarts`, `ReadArguments`, `WriteEnds` | the write branch of `main_task` |
| `Choose`, `ChooseBody`, `PostEnds` | one attempt of `Poller::write`: the transport reads the emulation flag for the address and again for the body, and clears it after the post |
| `Restart` | power or a crash; only `flash` survives |

What is abstracted. The inverter's service answers anything (`ok`, an illegal value, an
error). `AsWord` is the conversion of ArduinoJson, which gives 0 for a number that does
not fit: `upload_period_ms` is documented up to 300000 and everything above 65535 is
refused. Back-off and delays are interleaving. Messages wait for each other because one
task handles them all.

Some races lose a configuration or mix two commands, and the repository does not say
otherwise. Instead of leaving them out, the model records that they happened (`torn`: a
configuration was stored while one was being applied; `busy`: a command met one that was
still in the slot, or was taken half stored), and a property that depends on it says so.

`DeviceTasks` uses two of the four parameters, which are all treated alike; 1000 and 1024
differ in both bytes, so that a torn read gives 768; 300000 does not fit 16 bits. Two
messages of any kind, three attempts, one restart: a message can meet every step of the
handling of another, and the restart every step of either.

* `CommittedIsValid`: only a whole configuration that passed the checks survives a restart.
* `AppliedIsBounded`: torn or not, no period comes near 0.
* `ConfigTakesEffect`: a committed configuration is applied (unless `torn`).
* `NothingUnasked`: at most one call of `Poller::write`, and one posted fault, per command.
* `WritesAreWhole`: address and value belong to one command (unless `busy`).
* `CommandIsCarriedOut`: the last command is carried out (unless `busy`, or after a restart).

Fairness is weak fairness of the main task and of the steps by which the cloud task
finishes a message: both tasks are endless loops on cores of their own. Messages and
restarts have none.

### Proofs (`DeviceTasksProofs`)

For every number of parameters, ranges, offered configurations and bounds: `TypeCorrect`,
`CommittedIsValidAlways`, `AppliedIsBoundedAlways`, `NothingUnaskedAlways` and
`WritesAreWholeAlways`.
`ConfigInv` follows the bytes: while `updateConfig` runs, the cells below the next one are
those of the configuration that passed the checks, so a commit finds all of them; and every
high byte in memory, in flash or in the hands of the main task is at least that of the
parameter's minimum, or erased, which no mixture of bytes can undo. `CommittedIsValid`
alone says nothing of a store that is half done. `CountInv` counts: a flag that is
raised, a flag about to be raised and a call about to be made each stand for one call
that is still to come, and the calls made and to come never exceed the commands. `WholeInv` holds while
commands have not overlapped: storing a command and carrying one out exclude each other;
what has been stored so far is of the command that is being stored, and all of it once a
flag is up and the store is over; what the main task has read is of the command in the slot.
`WritesAreWhole` alone says nothing of a slot that is half filled.

## 7. Numbers of the messages (`SecureLink`)

| action | code |
|---|---|
| `GetEntry`, `ReadSeq`, `WriteSeq`, `StoreEntry`, `Pack`, `Publish` | `seal_downlink` (`securelink.py`) and the publish after it, one access to the shared dictionary at a time, on any thread |
| `Tick`, `RestartServer` | time, which gives a new entry its boot; an empty dictionary |
| `Copy`, `Lose` | the broker sends again (QoS 1), or the device is off line |
| `Open` | `SecureLink::open`: the message is handled if its (boot, seq) is later than the last |
| `SealRead`, `SealWrite`, `SealSave` | `SecureLink::seal` on either task, with the flush of the number to Preferences every `FlushEvery` messages |
| `RestartDevice` | `begin`: the boot is counted and the number saved last is loaded; the window is empty |

What is abstracted. Keys, cipher and MAC are ideal: every message is whole and from its
sender. The clock of the server is not set back, and a restart takes longer than its
resolution. The server checks no numbers, so nothing is said of the uplink but that its
numbers differ. `overlapped` records that two threads, or two tasks, sealed at the same
time; they take no lock, and then numbers can be equal or arrive in the wrong order.

`SecureLink` uses two threads and two tasks (symmetric), three messages down, one copy, one
loss, two messages up, one restart, and a flush every second message: a copy can meet an
older and a newer message and a restart of either side, and the restart of the device every
place between two flushes.

* `HandledOnce`: between two starts of the device nothing is handled twice. It needs no
  exception: of two messages with one number only the first is handled.
* `NoneRefused`: no message is refused at its first arrival, unless threads overlapped.
* `NumbersDiffer`: no number of the device is used twice, unless tasks overlapped.

### Proofs (`SecureLinkProofs`)

For every number of threads and tasks and every bound all four are proved. `DeviceInv`:
every number used is at most (`boot`, `seq`) of the device, and a task that has read
`_seq` still finds it there; a restart counts the boot, so a number that was not saved
does not matter. `LinkInv`: what is on the wire is a copy of what was published, and
nothing handled is later than `last`; two messages handled with one id would have one
number, and the second would not be later. `ServerInv`: while threads do not overlap, the
current entry is the latest number, the thread at work is ahead of everything published,
and of the first arrivals on the wire each is later than those before it and than what was
handled; an entry made after a restart has a later boot because the clock moved.

## 8. The dashboard (`Dashboard`, `ControlForms`)

### Charts and values (`Dashboard`)

`setInterval` starts a poll whether or not the last one has ended (`Tick`); `Answer` is
`api_data`, `NothingNew` and `Draw` are `pollData` after its two awaits, in whatever order
the answers come; `Fail` is a fetch that fails; `Arrive` is `data_records` growing with a
record of whatever time the device's clock had; `Frame` is one `requestAnimationFrame` with
the animations of `animateNumber` that are under way. The charts are updated together and
stand for one. Rendering by Chart.js is external.

`Dashboard`: two polls at once, three times (a clock that stands still, advances and is set
back), four records, three kept by the server, two asked for, two on the chart, one failure.

* `ChartIsHistory`: no record twice, none out of order, no more than the window.
* `ValuesAgree`: values, end of the chart and `lastRecordTimestamp` belong to one record,
  and the animated number rests at it.
* `CatchesUp`: what the server serves is drawn, or a later time was. Fairness: timers,
  fetches and frames go on; each fetch is answered or fails.

#### Proofs (`DashboardProofs`)

`ChartIsHistoryAlways` and `ValuesAgreeAlways`, for any number of polls at once, any clock
of the device, and any window, history and bound. Two facts make them inductive.
`KnownInv`: two copies of one record, wherever they are (the server or the hands of any
poll), are alike, and a record that was drawn has a time of at most `lastRecordTimestamp`,
so a late answer that brings it again has it filtered out. `AnimInv`: of the animations
under way the one that began last goes to the record on display, so the number rests there
when all have ended.

### Forms, routes and logs (`ControlForms`)

`EditWrite`, `EditFlag`, `EditConfig` and `ClearFlag` are the fields with their change
handlers, which show and hide optional fields; `Submit...` the `onsubmit` handlers after
the checks of the browser; `WriteRoute`, `ConfigRoute`, `LoadRoute`, `FlagRoute` and
`FotaRoute` the handlers of `app.py`, step by step, with their merge into `current_config`,
publish, log and answer; `Answered` and `Lost` the `then` and `catch` of the page;
`Report` the MQTT thread writing to a bucket; `PollLogs` and `ShowLogs` are `pollLogs` and
`api_logs`. What is typed is a kind (an integer, nothing, or what the browser refuses). The
first `writeForm.onsubmit` (`script.js:236-316`) is replaced by the second before anything
can call it.

`ControlForms`: two requests at once, one numeric parameter of two values and one register
box, one change of tab, four edits, two submits, two polls of the configuration log, one
report, one loss, buckets of two events, and nine of all these together (`MaxTotal`). Four
edits are enough to tick, choose, fill in and untick; two polls are enough for an older
answer to arrive after a newer one and for a panel to be redrawn over events it shows.
`CHECK_DEADLOCK FALSE`, because the bounds are used up.

* `SentAsShown`: a command goes out with exactly the optional parameters on display.
* `ConfigAgrees`: unless two configuration requests overlapped, what was published and
  logged last is the configuration the server holds.
* `PanelInOrder`: a panel shows one state of its bucket, newest first, without a gap, and
  lines of the page's own stand above the events only.

What is abstracted in a configuration request: the body is the set of parameters filled in
(`Filled`), with their values, and of registers; `api_config` merges the keys one after
the other, in the order of the form (`Order`), and `left` holds those still to come.

#### Proofs (`ControlFormsProofs`)

`FormsTypeCorrect`, `SentAsShownAlways`, `ConfigAgreesAlways` and `PanelInOrderAlways`, for
any number of requests and parameters and every bound. The inductive invariant has five
parts. `PageInv`: what is on display follows from what is chosen, after every change
handler, so a body built from what is chosen fits what was on display. `ReqsInv`: a request
still carries what fitted when it was submitted, and what its handler made of it.
`LogInv`: a bucket is numbered without a gap, and so is every copy that a poll of the logs
holds, however old, which is why a panel drawn from any copy is in order; a line of the
page's own is put on top, and the next poll removes it. `ServerInv`: a
published write command is the one submitted. `AgreeInv`: while configuration requests have
not overlapped there is at most one, and what was published, or logged, last differs from
`current_config` only while that one is between its merge and its publish, or its
`push_log`. `ConfigAgrees` speaks only of moments without a request under way, so it is far
from inductive.

## 9. The documentation search (`DocSearch`)

The search box of the generated documentation is a small concurrent program: a search timer
whose handle is forgotten when it is replaced, a timer that hides the section popup, scripts
that are loaded for each letter and may arrive late, in another order, or never, and a list
with a keyboard of its own that is replaced under the focus. Each handler is an action of
the user (`User`), `SearchTimer`, `HideTimer`, `LoadEnds` and `LoadFails` come from the
browser, `Resize` is the re-rendering by `menu.js`, and `Reload` the next page, which takes
the section from the session (`cookie.js`). What may have the focus is the browser's rule
(`CanFocus`). A search in a section that does not exist throws; where it is called from
`OnSearchSelectKey` for Enter or Escape, the popup stays open and keeps the focus
(`SelectEnd`). `made` is history: text and file of the searches made on this page;
`produced` is the text of the one that filled the list.

The index files are not in the repository; `Index` stands for any. Letters are numbers, and
texts have no spaces. `DocSearch`: two letters, four texts, two sections of which one lacks
a file, rows with no, one or two children; ten steps of the user, two timers and two loads
at once, one failure. `CHECK_DEADLOCK FALSE`, because the bounds are used up.

* `ListIsOneSearch`: the list is the complete result of a search that was made on this page;
  the text of one search and the file of another never meet.
* `ListIsLastSearch`: it ends with the last search, unless a load failed or was overtaken.
* `FocusIsVisible`: the keyboard is never left on something that is not displayed.
* `InactiveIsBlank`: a box that is not active is empty.

### Proofs (`DocSearchProofs`)

All five, for every index, text and bound. The invariant adds to them that the field has
the focus only while the box is active (so when the box is deactivated the focus has
somewhere to go), `MadeInv`: text and file of every load under way are those of a search
that was made, so its result is one whenever it arrives, and `LastInv`: while no load has failed or been overtaken, the search made
last is the last one under way, or it filled the list. `IndexAssumption` says that each
section has a first file (`FirstFile`); for a section with files that is the principle of
the least number, an induction the provers cannot instantiate, so it is assumed in this
form, which TLC evaluates.

## 10. Where code and documentation disagree

Two runs are such that TLC must find a violation.

`TransferRestart`: "automatic resume after power loss or reboot" (`FotaManager.h:36`), but
after a restart the device tells nobody and the server does not ask, so the update stands
still until somebody uploads again.

`DeviceJobLeft`: "Clears FOTA state after successful validation" (`FotaManager.h:313`) and
"keep pending=1 until new app marks itself valid" (`:290`), but the Arduino core of
`platformio.ini` validates the new image before `setup()`, `bootSelfTestFinalize` never finds
it pending (`:328`), and `clearState` is skipped: the new image runs with the finished job
resumed on its own partition. Without validation by the core the same happens when power is
lost between the mark and the removal (`:330`). What follows: a chunk at offset 0 that
reaches the device before the next manifest is programmed over the executing image; and
power lost while the next manifest is being stored, after its digest and before its
partition, makes `begin` resume the *new* job on the executing partition. Both are behaviours
of the model, which is why `RunningHoldsImage` and `NeverBricked` hold only while `~reused`.

Seen while modelling, and without a run:

* a manifest after finish erases and rewrites the partition already selected for boot
  (`FotaManager.h:146`), so a restart can execute an image whose digest was not checked
  (`:243`);
* `chunk_sha_mismatch` asks the server to resend (`Mqtt.cpp:362`), and the server ignores it;
* an abort while the MQTT thread is about to slice the firmware ends that thread
  (`fota_manager.py:68`), and so does an answer that arrives after an abort and a resume,
  which is why `ThreadAlive` holds only until somebody aborts;
* the mask of valid registers is read at compression, not at capture (`Compression.cpp:108`);
* a power loss between the erase and the first NVS write of a fresh manifest resumes the
  previous job over erased flash (`FotaManager.h:151`; its finish fails);
* a manifest refused because the erase failed is accepted as a resume when it is sent again
  (`:139`; its digest fails);
* a pause that meets a progress under way leaves nothing that a resume could continue;
* `uploadBatch` reports success when the queue refused the batch;
* the device's `decompressDelta` reads a 32-bit `dt` where the encoder writes a varint, and
  has no caller.

## 11. Proved, model-checked, not modelled

| | proved for every constant | model-checked only |
|---|---|---|
| `FotaDevice` | `TypeOK`, `NeverBricked`, `RunningHoldsImage`, `HashTracksFlash`, `SelectedIsVerified`, `JobIsStored` (and `HomeInv`) | |
| `FotaTransfer` | `TypeOK`, `OneMessagePerRequest`, `WrittenIsPrefix`, `ThreadAlive` | `RetriedUploadCompletes` (liveness) |
| `Telemetry` | `Pipeline`, `ValuesAsRead`, `RingIsQueue`; the round trip of the codec | `EverythingSettles` (liveness) |
| `DeviceTasks` | `TypeOK`, `CommittedIsValid`, `AppliedIsBounded`, `NothingUnasked`, `WritesAreWhole` | `ConfigTakesEffect`, `CommandIsCarriedOut` (liveness) |
| `SecureLink` | `TypeOK`, `HandledOnce`, `NoneRefused`, `NumbersDiffer` | |
| `Dashboard` | `ChartIsHistory`, `ValuesAgree` | `CatchesUp` (liveness) |
| `ControlForms` | `TypeOK`, `SentAsShown`, `ConfigAgrees`, `PanelInOrder` | |
| `DocSearch` | `TypeOK`, `ListIsOneSearch`, `ListIsLastSearch`, `FocusIsVisible`, `InactiveIsBlank` | |

What stays with TLC, and why. The five liveness properties: liveness under fairness, and
`ENABLED`, are out of the prover's reach. Everything else the passing runs check is a theorem.

The theorems depend on the named assumptions of the modules (`ImageAssumption`,
`BoundAssumption`, `FaultAssumption`, `TransferAssumption`, `CapAssumption`,
`TelemetryAssumption`, `ParamsAssumption`, `RangeAssumption`, `SizeAssumption`,
`TimeAssumption`, `NoneAssumption`, `FormAssumption`, `IndexAssumption`), which TLC
evaluates on every run, and on the hypotheses stated in a theorem: `FlashSound` and
`EraseSound` about the flash of `FotaDevice`, a single firmware for
`PrefixWritten`, and `TimeFits`, `RingFits` and `SmallReplies` about the constants of
`Telemetry`, which the runs satisfy too.

Not modelled:

* the poller's schedule and back-off over a wrapping clock;
* Modbus framing, the RS-485 transport and the read half of the HTTP transport, which are
  pure or byte I/O without state; the WiFi reconnect loop;
* `Packetizer`, the device's `decompressDelta` and `Buffer::clear`, which nothing calls;
* the older single-file `server.py`;
* `navtree.js`, `dynsections.js` and `clipboard.js`, the layout of a generated page: a
  synchronous walk over a tree without a property of this system; `jquery.js`, a library;
  the generated tables `navtreedata.js`, `navtreeindex0.js` and `menudata.js`; in
  `search.js` the layout of the window and the fallback for key repeat, in `menu.js` the
  animation of the menu.

Encryption and HMAC are taken as ideal wherever a message is accepted.
