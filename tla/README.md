# Verification of the IoT edge gateway

TLA+ models of the gateway in `src/`, TLC configurations that check them on small
instances, and TLAPS proofs that establish the main safety properties for every
value of the constants. `PROJECT.json` is the index: components, runs, the map from
definitions to source lines, hazards, findings and theorems.

## The system

The gateway is one process. A worker thread per input device (UART, Modbus RTU,
SocketCAN) opens its port, reads, parses and reopens it after errors. Every reading
goes through `PublisherGroup` to the MQTT channel and to the TCP channel. The MQTT
channel (`ReliablePublisher`) waits for the broker's PUBACK; without it the message
goes to a local cache, a text file or an SQLite table. The main thread replays the
cache periodically, publishes the device status for the HTTP endpoints and runs the
shutdown. Two handlers on the worker threads publish the readings and count what was
read and what was rejected. libmosquitto's network thread runs the MQTT callbacks, and
the HTTP server has one thread. Before any of this, the configuration file decides
which of these parts there are and with which values.

| part of `src/src` | module | state of the model |
|---|---|---|
| `mqtt/mqtt_client` | `MqttClient` | `publish()` step by step, the three callbacks, packets in flight, PUBACKs under way |
| `mqtt/reliable_publisher` | `ReliablePublisher` (extends `MqttClient`) | mutex, callers, replay, cache, gauge, crash and restart |
| its promise | `StoreAndForward` | answers, stored and delivered messages, no threads |
| `protocol/byte_ring_buffer.h` | `ByteRingBuffer` | storage, head, size as operators |
| `protocol/frame_parser` | `FrameParser` (extends `ByteRingBuffer`) | `feed()` byte by byte, `drain_buffer()` branch by branch |
| `device/*`, `can/socketcan_device` | `DeviceManager` | workers, `fd_`, the kernel's descriptor table, status, `stop()` |
| `cache/message_cache.h` | `MessageCache` | the queue both caches promise |
| `cache/file_cache` | `FileCache` | lines of the file, torn lines, temporary file, disk faults |
| `cache/sqlite_cache` | `SqliteCache` | rows by id, the id sequence |
| the order in which both load | `InOrder` | the increasing enumeration of a set of numbers |
| the choice of the cache in `main.cpp` | `CacheBackend` (extends `FileCache`, instantiates `SqliteCache`) | either cache, with the same callers |
| `tcp/*`, `publisher/*`, the counting of outcomes | `TcpPublisher` | mutex, connection, bytes handed to each connection, outcomes |
| `protocol/crc16` | `Crc16` | the bit loop, and the remainder of polynomials it is meant to be |
| `app/sensor_data`, `device/device_data`, `modbus/modbus_rtu`, `can/can_parser` | `SensorCodec` (extends `Crc16`) | decoding and validation, on bytes |
| `read()` of the adapters, given bytes | `Sensors` (extends `SensorCodec`) | what sensors send, what a line does to it, what `read()` returns |
| `run_device()`, the two handlers and `publish_sensor_data()` in `main.cpp`, `app/runtime_metrics` | `DataPath` (extends `TcpPublisher`) | results under way, `pending_`, counters, a scrape, shutdown |
| `device/modbus_device` in time, `DeviceManager::statuses()` | `ModbusDevice` | instants as time left, the input queue, the slave, the system clock |
| `config/gateway_config`, `main()`, the construction in `run_gateway()` | `GatewayConfig` | the file by sections, the checks, what the components get |
| `http/*`, `app/runtime_status`, `app/shutdown_signal`, the main loop | `HttpServer` | life cycle, server thread, clients, status fields |

The `MC*` modules only name small sets of constants for TLC. The `*Proofs` modules
hold theorems. Definitions keep the names of the source where they can.
An operator whose comment begins "A faulty ..." is not part of a specification: it
is a plausible bug in the definition that follows it, and putting it in place of
that definition makes the property listed with it in `PROJECT.json` fail. This
shows that the property depends on the code it is about.

### What a step is

* A section under a mutex is one step unless another thread can see into it.
  `wait_for` in `MqttClient::publish` is split into the evaluation of its predicate,
  the block and the wake-up, because `on_disconnect` notifies without the mutex.
* `close_port()` is two steps (close, store -1), since both the worker and the main
  thread run it on a plain `int`.
* `/health` and `/ready` read one atomic field per step. The two arguments of
  `build_response()` for `/ready` are evaluated in either order.
* Every `fetch_add()` of a handler is a step, and so is every `load()` of
  `render_prometheus()` of a counter that a property compares.
* `ModbusDevice::read()` is split wherever it looks at the clock. A tick of the clock
  may fall between any two of its steps. The code only compares instants, so the state
  holds the time left until them, and behaviours are unbounded in time.
* The bytes of frames are decoded by the code's definitions and encoded by the
  environment's: the sensors compute their checksum by polynomial division, not with
  `crc16_modbus`, so an error in the algorithm is a rejected frame.
* A section of the configuration is one step: nothing runs beside it.
* A line sent over TCP is cut into pieces, and `send()` takes one at a time.
* libmosquitto, the broker, SQLite's commit, the kernel's descriptor table and HTTP
  clients are external, and modelled from how the source uses them. An accepted
  packet stays in flight until its PUBACK is processed, the broker may receive it
  several times, a PUBACK may be lost, an id is reused only when free.

## Runs

| run | what it shows | distinct states |
|---|---|---|
| `reliable_publisher` | `PublishedMeansDelivered`, `NoLoss`, `DepthAccurate`, `AckNotDiscarded`, the refinement `StoreAndForwardSpec`, `CallsReturn`, `CacheDrains` | 176 000 |
| `frame_parser` | `BufferIsSuffix`, `NoOverflow`, `FramesAreReal`, `NoFrameLost`, `CountsExact`, `DrainTerminates` | 1 730 000 |
| `device_manager` | `OwnPorts`, `QuiescentAfterStop`, `PortsClosedAtExit`, `StopReturns`, `DevicesReopen` | 173 000 |
| `cache_backend` | `BackendKeepsDeferred`, `LossOnlyByMisread`, the refinement `MessageCacheSpec`, for both caches | 455 000 |
| `data_path` | `JsonLines`, `OutcomeHonest`, `ShutdownClean`, `PublishedAsMeasured`, `GoodFramesPublished`, `EveryFrameCounted`, `ScrapeExplained` | 595 000 |
| `modbus_device` | `AnswersOwnRequest`, `ErrorsCounted`, `StaleShownOffline`, `HealthyShownOnline`, `TimeoutRecorded` | 1 028 000 |
| `gateway_config` | `ComponentsAsConfigured`, `RejectedForCause` | 330 000 |
| `http_server` | `ReadyCurrent`, `HealthConsistent`, `ConnectionsClosed`, `StopReturns`, `ClientsServed` | 155 000 |

Most modules with state also state their type invariant. It is a part of the inductive
invariant that is proved. To repeat a run: `tlc -config <cfg> <module>` with the names in
`PROJECT.json`.

### Disagreements with the documentation

Four runs end in a violation of what a document says.

* `device_manager_shared`: `DeviceManager::stop()` closes ports under running
  workers. A descriptor number freed by the main thread can be reopened by another
  worker before the first one notices, which then uses or closes the wrong port.
  This can only happen during shutdown; `OwnPorts` is proved while the manager runs,
  and `PortsClosedAtExit` shows that nothing is left open all the same.
* `file_cache_torn`: after a write cut short, the next accepted line is glued to the
  torn one and the accepted message is not in the cache.
* `modbus_deadline`: `ModbusDevice::read()` tests the deadline and then computes the
  time that remains from a second reading of the clock. When the thread is preempted
  in between until the deadline has passed, the remaining time is negative and `poll()`
  waits without a timeout; a silent slave then blocks the worker for ever. The run
  `modbus_device`, whose preemptions never outlast the time that was left at the test,
  shows that `TimeoutRecorded` holds otherwise.
* `modbus_errors`: every wait of up to 250 ms between two polls returns a `Timeout`,
  which `run_device()` reports for a Modbus device, and so is counted in
  `gateway_modbus_error_total` although nothing is wrong (`OnlyErrorsCounted`). The other
  direction holds: `ErrorsCounted`, no error that the adapter records is left out.

Reading the code for the models showed further differences that no run states:

* `DeviceManager::stop()` sets `running_`, closes the ports and joins the workers, which
  wakes no worker that is in a call without a timeout. There are two: the data handler's
  `connect()` and `send()` to the TCP receiver (`tcp_client.cpp:68`, `158`), and the Modbus
  `poll()` of `modbus_deadline`. `docs/debug_record.md:255` says that all long waits check
  the exit flag, and line 261 that the gateway stops within 5 seconds. `StopReturns` is
  what holds: `stop()` returns unless one of these two calls lasts for ever (`Blocked`),
  so nothing else can keep it.
* The code and the body of a `/ready` response come from two evaluations of readiness
  (`http_server.cpp:298`), between which the main thread may change it: a 503 may say that
  all is ready, against `docs/http_observability.md:26`. `ReadyCurrent` shows that the code
  is right for some moment of the request.
* A `/health` request during which the main thread updates the device status may get
  fields of two updates: `HealthConsistent` is about the others.
* After a transport error a port is reopened at once, without the reconnect interval
  (`device_manager.cpp:111`, against `docs/protocol_architecture.md:59`).
* `iot_gateway_frames_invalid_total` also counts frames whose reading is out of range
  (`device_interface.h:32`, against the help text at `runtime_metrics.cpp:159`).

`LossOnlyByMisread` documents a further weakness in a property that holds:
`FileCache::remove_first()` reads the file again, and when that read fails it replaces
the cache by what it did read. This is the only way a readable line is lost.

### Bounds

* `ReliablePublisher`: two workers, two messages and three ids let an id be reused
  while an older message is unconfirmed. One fault is a failing send or
  connection attempt, a disconnection (which loses PUBACKs), a crash or a failing cache
  operation, at any moment, with both workers and the replay under way. Several faults are left to the proofs, which cover all of
  the safety properties. No symmetry, since two of the properties are about liveness.
* `FrameParser`: a ring of six bytes for frames of at most five, eight input bytes,
  four byte values of which two are the headers: wrap-around, false headers, bad
  lengths, bad checksums and frames inside rejected frames all occur. A frame has
  four fixed bytes instead of seven; the fields between length and checksum are
  opaque to the parser.
* `DeviceManager`: one UART and one Modbus device, as many descriptors as make
  reuse of a number possible. A CAN device does what a UART does without pending
  frames and without a read that yields nothing; the proofs cover it.
* `CacheBackend`: four messages. Whether the disk may misread or cut writes short is
  chosen at the start of a behaviour, so that one run covers sound and failing disks.
* `DataPath`: a UART, a Modbus and a CAN worker, two calls of `read()` in all, two
  pieces of a line, two connections. A read returns any of the results the wire formats
  make of seven readings (two in range, at the limits and below zero, and five outside
  by one in one field), of frames with any one byte altered in three ways, of foreign,
  short and exception frames, and, for UART, of two frames in one read. Bytes lost or
  inserted in front of a frame are `FrameParser`'s subject. Two reads are what it takes
  for two workers to meet on the connection, or for a kept reading to be followed up.
* `ModbusDevice`: a poll interval of three ticks, a response timeout, a latency and a
  preemption of one, two ticks to a second, a window of three seconds, one step of the
  system clock. `ModbusDeadline` lets a preemption last for two ticks. Two assumptions
  restrict the instances: an answer is never so late that it meets the next request (a
  device with such a latency is misconfigured, and the code has no means to tell), and
  the heartbeat window is longer than a poll, which the loader does not enforce.
* `GatewayConfig`: the empty file and one with everything enabled, with every choice of at
  most two keys set to values at and beyond the limits or of the wrong type, and with
  any one section a scalar or null; four argument lists. Checks relate at most two
  keys, so two edits reach every one of them both ways.
* `HttpServer`: two clients, one input device.

### Fairness

* `ReliablePublisher` (`ScheduledSpec`): threads inside a call are scheduled, the
  main thread calls `flush_cache()` again and again (its loop does), and
  `wait_for` returns after its timeout. `CacheDrains` needs more, and says so as a
  premise: `NetworkFairness`, a network and a broker that answer. Faults are
  finitely many in every behaviour, which is the meaning of "the outage ends".
* `FrameParser`: the drain loop runs on.
* `DeviceManager`: every thread is scheduled; a `poll()` with a timeout, the error
  handler (counters and the log) and the sleep return. A `poll()` without a timeout and
  the data handler need not (`Blocked`); that they do is the premise of `StopReturns`.
  `write_all()` repeats a write that the port does not take, and ends at the latest when
  `stop()` has closed the port. Nobody has to request a stop. `DevicesReopen` has the
  premise that opening and configuring the port succeed if tried often enough.
* `ModbusDevice`: the worker is scheduled, and time passes with what is on the line. A
  failure of the port is not assumed to happen, so that a `poll()` without a timeout and
  without input stays blocked.
* `HttpServer`: both threads are scheduled. Nothing is assumed of clients, except in
  `ClientsServed`, whose premise is that no client stays silent for ever: the single
  server thread waits for the client it has accepted. `send_all()` is a loop of blocking
  calls without a timeout and is taken to return, also when the client does not read:
  a connection carries one response of a few KB, which fits into its send buffer. With
  larger responses `StopReturns` would need a premise about the clients.

## Proofs

| module | theorems |
|---|---|
| `ReliablePublisherProofs` | `TypeCorrect`, `AtLeastOnce`, `ConfirmationSound`, `CacheWithoutDuplicates`, `GaugeAccurate`, `RemovalSound`, `AckSafe`, `Refinement` |
| `CacheBackendProofs` | `DeferredStays`, `OnlyMisreadLoses`, `CacheRefinement` |
| `FrameParserProofs` | `TypeCorrect`, `NeverOverflows`, `RingIsQueue`, `FramesSound`, `FramesComplete`, `DrainVariant`, `CountsAreExact` |
| `DeviceManagerProofs` | `TypeCorrect`, `PortsOwned`, `StatusHonest`, `StopQuiesces`, `NoDescriptorLeaks` |
| `DataPathProofs`, the connection | `LinesIntact`, `OutcomesTrue`, `CleanShutdown` |
| `DataPathProofs`, the path to it | `DataPathPublishes`, `CountersComplete`, `ScrapesExplained`, `OnlyMeasurements`, `GoodPublishedOnce` |
| `ModbusDeviceProofs` | `OwnAnswers`, `NoErrorMissed`, `StaleOffline`, `HealthyWhileTimed` |
| `HttpServerProofs` | `TypeCorrect`, `ReadinessCurrent`, `HealthAgrees`, `NoConnectionLeaks` |
| `GatewayConfigProofs` | `ComponentsConfigured`, `RejectionsCaused`, `RunningInRange` |

Each rests on an inductive invariant (`IInv`, in the composed modules `BackendIInv`,
`TcpIInv` and `DataIInv`, in the configuration `LoaderIInv`; theorem `Invariance`,
`BackendInvariance`, `TcpInvariance`, `DataInvariance` and `LoaderInvariance`), with one
lemma per action. TLC has checked each invariant on the instance of the module's run (of
`LoaderIInv` all but the conjunct that the file is one of `Files`, which never changes).
The bounds of the runs are no assumptions of the proofs: the number of workers, messages, reads, faults, bytes or clients is arbitrary.

* **Publisher.** Assumed: `Main` is not a worker, the threads are the workers and
  `Main`, `None` is none of the values. `NoLoss` is not inductive. The argument is about
  ids: only a packet in flight carries an id (`PacketsSound`), and an id in
  `acknowledged_message_ids` that a thread waits for was recorded after that thread's
  own send, because the send cleared the set and took a free id (`WaitSound`). Hence
  an acknowledgement means delivery of this very message. During a replay the batch
  is the cache itself and the counted prefix is delivered (`FlushSound`), which uses
  that the mutex excludes appends (`MutexSound`); so removal is safe. The refinement
  maps the cache to the store and every step of network and locking to a stutter.
* **Parser.** Assumed: headers are bytes, a frame has at least three fixed bytes, the
  capacity is at least that of the largest frame. The checksum is any predicate. The
  invariant says that the ring is the suffix of the input from `base` on, and that every
  position before `base` is inside a returned frame or was rejected for a reason
  (`AllDecided`); completeness follows since the start of a frame is never rejected.
  The ring cannot fill up because after a drain it holds less than one frame.
* **Device manager.** Assumed: UART and Modbus devices are disjoint sets of devices,
  `Main` is not a device. The invariant locates the open ports: a port belonging to `d` is
  the one `d.fd_` refers to, and no thread is about to overwrite `fd_` while the port is
  open (`DescriptorsSound`). It holds during the racy shutdown too, because a worker
  cannot open a port while the main thread has a store to its `fd_` outstanding
  (`ThreadsSound`).

* **Caches.** Assumed: the three marks of damaged lines are different and are not
  messages. For the table the invariant is that its ids are an interval that ends with the
  last id given out: so a new row comes last in `ORDER BY id`, the rows removed are the
  oldest, and a flush removes what it published. For the file it is that between a flush
  and the end of its `remove_first()` the file still begins with the published messages
  (`FlushSound`), that what is kept is all that follows them unless the file was misread
  (`RestSound`), and that an unfinished line holds no accepted message (`CutSound`).
  Without the latter two a crash between writing the temporary file and renaming it, or
  after a partial write, is not covered. `CacheRefinement` maps the queue to what
  `load_all()` would return; on a disk that misreads or cuts lines the mapped queue is
  constantly empty, since there the file is not the promised queue (`OnlyMisreadLoses` and the run
  `file_cache_torn` say what it is). Both load in increasing order of ids or lines, which
  `InOrder` defines by rank: that the enumeration is complete and strictly increasing then
  follows from cardinalities, without induction over the sequence.
* **TCP publisher.** Assumed: a line has at least one piece, `None` is none of the values.
  The mutex is held exactly while a worker uses the connection (`LockSound`), so the last
  piece on the open connection is either a newline or the last piece of the one worker in
  the middle of a line (`ConnectionSound`). A send that fails closes the connection, hence
  the next line starts on a new one. The newline of a message has been sent on at most one
  connection, and on one exactly if its outcome is or is about to be `Published`
  (`SentSound`).
* **Data path.** Assumed (`ReadsAssumption`): the shape of what `read()` returns, such as
  that `UartDevice::read()` makes of each frame one reading or one error; the run evaluates
  it on the results that `Sensors` computes. The properties are about moments of rest; the
  invariant states them at every step, with the additions that the handlers still have to
  make of the results at hand: what is counted and what is due together are what was
  received. There is a balance for the frames, for their ends, for the invalid frames with
  their causes, and for the good frames. `ScrapeExplained` follows from the third, in which
  the causes are never behind, and from the order of the loads (`ScrapeSound`).
  `OnlyMeasurements` and `GoodPublishedOnce` have the hypothesis `CodecSound`: a valid
  reading is what the sensor measured, and a good frame gives one. It is a hypothesis and
  not an assumption of the module because it is about what the codecs compute; the run
  `data_path` checks the two properties with the codecs themselves, and a wrong checksum
  or range there shows up as a violation of them. `DataPathPublishes` shows that the
  workers are workers of `TcpPublisher`, so that its theorems hold here.
* **Modbus device.** Assumed: durations are positive, an answer is never so late that it
  meets the next request, the heartbeat window is longer than a poll with two preemptions.
  No piece on the line when a request is written answers an earlier one, since what is
  under way arrives before `next_poll_` and is discarded then (`LineSound`); the age that
  `statuses()` computes in whole seconds is less than a second off (`AgeSound`).
  `HealthyShownOnline` needs a bound on the silence at each place of the worker
  (`HealthSound`), and fails when the worker polls without a timeout: `HealthyWhileTimed`
  has the premise that it never does (`TimedPoll`), for preemptions of any length. The
  code does not guarantee the premise, as `modbus_deadline` shows.
* **HTTP server.** Assumed: `None` is neither a client, nor a number, nor a path. The
  invariant says what a response under construction has read: nothing but fields of this
  request, in the code's order, and fields that are still current if main has written none
  since the request was received (`ResponseSound`); the counts agree whenever main is not
  updating them (`CountsSound`). Connections: the one client with an open connection is the
  one being handled, also while `stop()` closes and joins (`ClientSound`, `LifeSound`).
* **Configuration.** Assumed: `serial.devices` and the arguments are lists, `inet_pton()`
  accepts the default address. Files and settings are otherwise arbitrary: any set of
  sections, any keys, any values. The properties compare the end of a run with the file,
  so the invariant follows the reading: a section not yet reached has its defaults, one
  that was read agrees with the file key by key, with the four keys that are converted
  described on their own (`AsRead`, `SectionsSound`). From there the two directions are
  separate. Whoever gets to `main` has passed every check (`ChecksPassed`), and each
  component's own test follows from the checks: `to_speed()` from
  `is_supported_baud_rate()`, `HttpServer::start()` from `is_valid_http_host()`,
  `configure_security()` from the checks of `mqtt.tls`. And if a check fails, the member
  it looks at is not the default, so the file sets its key (`FailureJustified`, with
  one lemma per group of checks); here the proof uses that every default passes its check.
  The narrowing casts change nothing because the ranges are tested first (`Narrowed`), which
  `RunningInRange` states for the components.

For the parser, `CountsExact` is a second invariant on top of `IInv`: a step over a byte
moves at most one position out of the undecided part, and it is a rejected header of the
kind that is counted. `DrainVariant` is the variant behind `DrainTerminates`: every iteration
of `drain_buffer()` ends the loop or shortens the buffer.

Only model-checked: all liveness properties (the prover has no rule for fairness or
`ENABLED`); what the codecs compute (`crc16_modbus` and its reference are recursive, and
what a recursive definition computes for every input is out of the prover's reach), hence
`CodecSound`. Every safety invariant, action property and refinement of a passing run has
a theorem; `PublishedAsMeasured` and `GoodFramesPublished` have theirs under `CodecSound`,
and `HealthyShownOnline` its under the premise named above.

## Not modelled

* The logger: output behind one mutex that nothing reads back.
* Text: `sensor_data_to_json()`, the MQTT topic, HTTP bodies beyond the fields that
  change, and the metrics format. A message stands for its reading.
* The MQTT and flush counters, the device gauges and the uptime of `RuntimeMetrics`:
  independent stores and additions that no other state depends on. The error counts of
  the UART and CAN status, for the same reason.
* YAML, `inet_pton()`, libmosquitto, SQLite and the kernel are external.
* How long a shutdown takes. That it ends is `StopReturns`, for the device manager under
  the premise that the data handler and the Modbus `poll()` return.
