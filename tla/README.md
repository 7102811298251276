# A TLA+ model of AWS IoT FleetWise Edge

AWS IoT FleetWise Edge is a process in a vehicle. It receives two documents from the cloud, a
*decoder manifest* (how frames become signals) and a list of *collection schemes* (which signals
to collect, under which condition, from when to when). It takes frames from CAN buses, decodes
them, evaluates the conditions on the signals, and uploads what a triggered condition asks for; what
cannot be uploaded is kept in a file. Every part has a thread of its own.

This directory models those parts one module each, checks the modules with TLC on small
instances, and proves the safety of all but two of them with TLAPS for every instance: the collection scheme manager with
the dictionaries it makes, the connectivity module, the CAN channel, the binder, the pipeline of samples, the inspection engine with its time
windows, the upload, the OBD module, the process as it starts and ends, its profiler, and the signal every thread sleeps on, which is shown to
implement an abstract latch. The camera node and the trees of the conditions are model-checked only.
Paths below are relative to `src/src/` of the repository.

Contents: 1 the system, 2 the modules, 3 the runs, 4 bounds, 5 fairness, 6 what is proved,
7 where the code and its documents disagree, 8 what is not modelled, 9 the plan.

## 1. The system

Data flows upwards on the left, documents downwards on the right:

```
            MQTT broker (AWS IoT Core)
   payloads ^                    | manifests, scheme lists
            |                    v
  AwsIotChannel (send)      AwsIotChannel (receive)        AwsIotConnectivityModule, RetryThread
     ^          \                |                           connect, subscribe, reset, destroy
     |     PayloadManager        v
     |     CacheAndPersist   Schema -> CollectionSchemeManager <-> CacheAndPersist
  DataCollectionSender               | inspection matrix      | decoder dictionary
     ^                               v                        v
  IoTFleetWiseEngine <--  CollectionInspectionWorkerThread   VehicleDataSourceBinder
  (upload loop)              CollectionInspectionEngine        |  resume, suspend, stop
                                     ^                         v
                                     +------ queues ---- CANDataConsumer <- CANDataSource <- bus
```

| Component | State | Operations | Talks to | Hard behaviour | Correct when |
|---|---|---|---|---|---|
| CollectionSchemeManager (`datamanagement/datamanager`) | idle and enabled maps, timeline, current manifest, inputs, check-in | two callbacks, `doWork` with its three steps, `stop` | `Schema` (callback threads), persistency, matrix and dictionary listeners | documents in any order while it works, times that pass, crash between two writes | maps, timeline, manifest, disk and consumers stay in step |
| Document ingestion (`Schema`, `*Ingestion*`, `CollectionScheme`) | one document, `mReady` | `copyData`, `build`, getters | the manager | bytes that do not parse, broken schemes among good ones | a broken part does not take the rest along |
| DecoderDictionaryExtractor, InspectionMatrixExtractor | none | extraction | the manager | several schemes want one frame differently; trees relinked by address | every wanted frame and signal is in the result, every condition is the one of its document |
| CollectionInspectionEngine (`datamanagement/datainspection`) | ring buffers, conditions, four bit sets, consumption flags, windows | change of matrix, new signal, frame or DTCs, evaluate, collect | the worker thread | wrap-around of shared rings, intervals and delays, partial allocation | no trigger missed, nothing sent twice or skipped |
| Fixed windows (same class) | start, last, previous, collecting | `addValue`, `updateWindow` | the engine | whole windows without a sample | equal to a look at all samples |
| CollectionInspectionWorkerThread | three queues, new matrix, output queue | `start`, `stop`, `doWork` | consumers, engine, IoTFleetWiseEngine | full output queue, stop while collecting, sleep until due | what is due is collected in time |
| CANDataSource, CANDataConsumer (`vehiclenetwork`, `datainspection`) | thread, sleep and stop flags, circular buffer, dictionary | `connect`, `suspend`, `resume`, `disconnect`, `doWork` | each other, binder, worker | flags and signals set by other threads between a test and a wait | no lost wake-up, no frame without dictionary, stop ends |
| VehicleDataSourceBinder | two maps, reports of sources | add, bind, remove, unbind, disconnect, its thread, dictionary change | sources, consumers, manager | reports while it works or shuts down | consumers follow their sources, nothing left running |
| AwsIotConnectivityModule, RetryThread, receiving AwsIotChannels (`offboardconnectivity`) | connection flags, two promises, retry state, subscriptions | connect, retry, subscribe, SDK callbacks, reset, destructor | MQTT SDK, main thread | callbacks, retries and destruction at once | promises used once, destruction ends, subscriptions are made |
| Persisted upload (AwsIotChannel::send, PayloadManager, DataCollectionSender::transmit, IoTFleetWiseEngine) | payload file, reserved memory, publishes under way | send, store, retrieve, erase | SDK, persistency | connection lost in a round, torn record, crash | nothing persisted is lost, nothing repeated without cause |
| CacheAndPersist, CheckinAndPersistency (`platform/linux`, `datamanager`) | three files | `write`, `read`, `erase`, `getSize` | manager, PayloadManager | truncating writes, the shared quota | a document that was stored can be read |
| IoTFleetWiseEngine, `main` (`executionmanagement`) | the components, upload timers | `connect`, `start`, `stop`, `disconnect`, `doWork` | all | order of shutdown | everything is stopped before it is destroyed |
| Signal, Thread, ThreadListeners, Timer, Clock | a flag, a thread id | `notify`, `wait`, `create`, `release` | all threads | notify before wait | a notification is kept |
| RemoteProfiler | log structure and its size, pending metrics | `logMessage`, `setMetric`, `start`, `stop`, `doWork` | every thread that logs, sender channels | callers from every thread, a send that fails and logs that | the structure and its size agree, nothing waits for itself, metrics are sent once |
| OBDOverCANModule, ISO-TP, OBDDataDecoder (`datainspection/src/diag`, `vehiclenetwork`) | lists of PIDs, two timers, two signals | `init`, `connect`, `doWork`, change of dictionary and matrix, `stop` | two control units, manager, inspection queues | two writers of a list, late answers, three threads | units are asked for what they support, all of it, again and again; stop returns |
| DataOverDDSModule, CameraDataSubscriber, CameraDataPublisher | an event, a request, an answer | event, request, answer, start, stop | inspection, DDS nodes | an event while the last one is being handled | events reach their sources, all threads end |
| CANDecoder, Geohash, writers, trace, resource usage, SDK bootstrap | - | - | - | see section 8 | - |

How threads meet: every thread sleeps on a `Signal`, a flag under a mutex that `notify` sets and
`wait` takes; a notification before the wait is therefore kept, and several count as one.
`mNotify`, `fWait` and the like in the modules are that flag. The hazards these components have, each
with its line and the properties that would notice, are listed in `PROJECT.json`.

## 2. The modules

Variables, operators and actions have the names of the members and methods they stand for, where
TLA+ allows it; `PROJECT.json` maps each definition to its lines. A definition with a name such as
`CleanupKeepsEnabled` next to `Cleanup` is a wrong variant: put in the place of the right one
it breaks a property, which shows that the property depends on that code (`mutants` in
`PROJECT.json`). The runs use the right ones only.

### CollectionSchemeManager

State: the two maps as sets of schemes, the heap as a set of entries, the manifest id, both
documents with their `mReady`, the flags `mProcess*`, the two inputs of the callbacks, the
signal, what was last published, and the two files. A scheme is its id, manifest id and two times;
a manifest is its id, a revision that stands for its contents, and whether it builds. The documents
come from `Schema` as they are built: a list that does not parse, and schemes dropped one by
one (`Built`), are part of the model.

| Action | Code (`CollectionSchemeManager.cpp`) |
|---|---|
| `Boot` | `doWork` before its loop: check-in, `retrieve` of both files |
| `ManifestStep` | `processDecoderManifest`, with build, store, clean-up or rebuild |
| `SchemesStep` | `processCollectionScheme`: `rebuildMapsandTimeLine` or `updateMapsandTimeLine` |
| `TimelineStep` | `checkTimeLine`, with check-in and its rescheduling |
| `PublishStep` | extraction and hand-over of matrix and dictionary, when something changed |
| `Wake`, `UpdateAvailable` | the wait (signal or timer), then `updateAvailable` and the loop's condition |
| `onCollectionSchemeUpdate`, `onDecoderManifestUpdate`, `Stop` | other threads |
| `Tick`, `Crash` | time; the process ends and starts again, with a write under way torn |

Each step of the thread is one action because what it works on is its own; the inputs, which are
shared, are taken under the mutex in `UpdateAvailable`, and the clock is read once per step.

### PersistedUpload

`IoTFleetWiseEngine::doWork` with `AwsIotChannel::send`, `PayloadManager` and the payload file.
Actions: `Collect` (a payload is sent or, refused, stored), `Retrieve`, `RetrieveNothing`,
`RetrieveFails`, `Transmit`, `TransmitFails`, `Erase` (a round of `checkAndSendRetrievedData`),
`PublishComplete` (the SDK's callback that releases memory), `ConnectionUp`, `ConnectionLost`, `Crash`.
The file is a sequence of records; a record that was cut short is torn, and what
`retrieveData` parses behind it is left open (`Parses`, `RetrieveFails`). Nothing bounds the failures of rounds,
reads and erases, the losses of the connection or the crashes: `sent` counts what was handed over since the last of them that is
a cause for repetition, so the model stays finite.

### Connectivity

`connect(asynchronous)`, the retry thread with its `attempt` and `onFinished`, `subscribe`, the
SDK's five callbacks, `resetConnection` and the destructor. The SDK and its event loop are external:
one callback runs at a time. A promise counts how often it was set and fetched, since the
standard library throws on the second time. `onDisconnect` is two actions, because the thread that
waits for its promise goes on before the rest of it runs.

### InspectionEngine and FixedWindow

`InspectionEngine` is `CollectionInspectionEngine` under the calls of its one worker thread:
`onChangeInspectionMatrix` with the allocation in any order of the hash map, `addNewSignal`,
`addNewRawCanFrame`, `setActiveDTCs`, `evaluateConditions`, `collectNextDataToSend` with its
rotation, delays, probabilities and waiting time. A condition is abstracted to the values of the
signals for which it holds. `FixedWindow` is the online computation of minimum, maximum and average over the last
two windows (`FixedTimeWindowFunctionData`), compared with a definition over the whole history of samples. The model's history notes of each sample the start of the window it was counted for and when the engine last
looked; neither is in the code. A buffer of size 0, which only a frame may ask for, is not among the model's buffers: the code's guards keep it empty.

### CANChannel and VehicleDataSourceBinder

`CANChannel` composes the threads of `CANDataSource` and `CANDataConsumer`, the buffer
between them, `onChangeOfActiveDictionary` (on the manager's thread) and `disconnect` (on the main
thread), at the grain of single flags: setting `mShouldSleep` and notifying are two actions, as
are the thread's test of the flag and its wait. A frame carries the time at which it reached the socket and the timestamp the socket gave it (`Stamps`): the
kernel's time or none, by the device's own clock, or none at all with `POLLING_TIME`; `extractTimestamp` is what the code makes of it. `disconnect` starts only when the manager is through, as
in `IoTFleetWiseEngine::disconnect`. `VehicleDataSourceBinder` is the level above: its maps, the
reports of the sources, its thread, and its client from start to `disconnect`; of a source and a
consumer it keeps whether their thread runs.

### OBDOverCAN

`OBDOverCANModule::doWork` step by step (`worker`): the sleep, the VIN, the two requests that find out what a unit
supports, the assignment of PIDs, the requests in chunks, trouble codes and the waits. Two units, of which a vehicle may
lack one, answer in time, late or never; what comes late stays in the socket and is taken for the answer to the next request, as
`receivePDU` takes it. The manager's thread changes the dictionary (`onChangeOfActiveDictionary`), the inspection's the wish for
trouble codes, each by setting a flag and notifying in separate steps; the main thread stops and joins. The lists the
thread computes without the mutex are assigned one step later (`assign`), so that the other writer can come between.

### Documents and DecoderDictionary

What becomes of a manifest and a list of schemes, for every choice of enabled schemes: `build` of both, `serializeNode`
with its depth, its index into the vector that must not move and its invalid nodes, `getNumberOfNodes`, and the matrix with its traversal and its
map of addresses. `DecoderDictionary` has no state: it is what the look-ups of a manifest find, and the dictionaries of both protocols that
`decoderDictionaryExtractor` makes of the enabled schemes in the order of their ids, scheme by scheme (`AddScheme`), the signals first (`AddSignals`), then
the frames wanted raw (`AddRawFrames`). `Documents` extends it and says when it is called and with what; it is a module of its own because the
loops in it are recursive functions, which can be proved about, and the trees of `Documents` take recursive operators, which cannot. A pointer is an index into the vector it points into, 0 is the null pointer; a vector that had to grow is `dangling`.

### Signal, Latch, RemoteProfiler, DataOverDDS, EngineProcess

`Signal` is `Signal.h` in the separate steps of its mutex and condition variable: test of the predicate, release and
sleep, wake-up (by `notify_one`, by the timeout, for no reason), test again, take. `Latch` says what its users rely on; `Signal`
instantiates it with a refinement mapping and states `ImplementsLatch`. `RemoteProfiler` puts its thread on such a `Signal`, with the
log lines of every thread, which go through `ConsoleLogger`'s global mutex and the profiler's own, the batches of metrics and the steps of
`stop()`. `DataOverDDS` is the camera node with one subscriber and one publisher per source. `EngineProcess` composes both with the order in which
`main`, `connect()`, `disconnect()` and the destruction of the members start, join and destroy everything else; the other modules are
there as a thread that runs or not, a set of listeners and a member that is destroyed or not. Their stops and destructors are one step, which
returns, but for that of the connection: `SubscriptionHangs` is the wait for a subscription that was answered with an error, without end.

### InspectionPipeline

The way of a sample from a consumer, through an input queue and the inspection thread, to a package in the output queue
and the main loop that sends it: `CANDataConsumer`'s counted push, `CollectionInspectionWorkerThread::doWork`, its hand-over of the matrix, its
`stop`, and `IoTFleetWiseEngine::doWork`. The worker takes at most `BatchSize` samples of a queue, evaluates by the time of the latest signal or by
count, with the unsigned difference of the code (`InputIsNewer`, modulo `Width`), evaluates once more before it sleeps, pushes what is collected until
the output is full, and sleeps until the next condition is due. Which condition triggers is a choice here and computed in `InspectionEngine`.

The `MC*` modules give the constants values a configuration cannot write. `MCInspection` extends both `InspectionEngine` and `FixedWindow`
and puts them into one run: they are members of one object and share nothing that either writes, so each behaviour is of one of them.

## 3. The runs

A property is often a named conjunction: `MapsAgree`, say, is the type invariant and two invariants about the
maps, each with a comment of its own in the module. Each component has one passing run, over one instance, with its safety and its
liveness together; the manager has two, because failing writes and liveness ask for different instances. The type invariant
of the older modules is a conjunct of one of the properties of their runs.

| Run | Question and result |
|---|---|
| `CSM_safety` | Two callbacks, the loop, time, failing writes and a crash in every order. One scheme per id, schemes agree with the manifest (`MapsAgree`); the timeline covers them, with one check-in and nothing overdue (`TimelineKept`); no lost document, consumers know what is enabled (`HandOversKept`); a manifest is switched only with everything under it (`ManifestSwitch`). |
| `CSM_progress` | Writes do not fail, and the thread and time go on: the disk covers what is loaded (`DiskCoversLoaded`), documents are taken up and expired schemes are disabled (`KeepsUp`), also after a boot from torn files. |
| `Upload_rounds` | Torn writes, and any number of failing rounds, reads and erases, drops and crashes: memory accounted for, the file holds a payload once, repeats have a cause (`UploadsAccounted`), a record in front of a torn one leaves the file only after it was handed over (`ClearedAfterUpload`), and with a lasting connection every stored payload is, if rounds begin with no publish under way and no more is on file than the SDK may hold (`StoredUploaded`). |
| `Conn_lifetime` | Promises used once (`PromisesUsedOnce`), the destructor meets neither a connection nor a subscription (`DestructionClean`), it ends unless a subscription met an error, a lasting connection is noticed, with no loss and no refusal all channels are subscribed (`ConnectionSettles`). |
| `Inspection` | Rings hold the latest samples, no trigger is missed, what is asked for is published whole, once and in time (`PublishedInFull`), every trigger is served; over matrices that share signals, do not fit, are too many or malformed. The online windows say what a look at the samples would, however long samples wait in the queue and the thread does not look, each sample being counted for the window it was received in unless that had gone; maxima of negative values, and previous data older than the window before the last, are exempt and in section 7 (`WindowsKept`). |
| `CAN_channel` | No frame is decoded without a dictionary, no wake-up is lost, frames of a sleep that are stamped with their arrival are ignored (`BufferKept`); a suspended thread comes to rest, `disconnect` returns (`ThreadsComeToRest`). |
| `Binder_lifetime` | No report is lost while the thread sleeps, `disconnect` leaves nothing running of sources that do not come back; calls return, consumers follow their sources when reports come one at a time or the source does not come back (`BinderKeepsUp`). |
| `OBD_rounds` | Two units of which one may be missing, changes of dictionary and wishes at any point of a round, a late answer, a stop. Units are asked only for what they support and some dictionary wants (`RequestsSupported`); no wake-up is lost; every PID of a list is asked for once, in chunks (`AllAsked`); rounds go on and `stop()` returns (`RoundsServed`). |
| `Documents` | Lists of up to three schemes with every kind of node, raw frames and signals of CAN and OBD, against manifests that describe them, do not, or do not build; any of the schemes enabled together. No vector moves under pointers and the condition that is evaluated is the one of the document (`ConditionsKept`; a comparison with `NOT_EQUAL` is exempt), the dictionaries serve every enabled scheme (`DictionaryServes`). |
| `Process_lifetime` | Five configurations, every step of `connect()` and `disconnect()` that can fail failing. `Signal` loses no wake-up and implements the latch; log structure and metrics stay sound (`ProfilerSound`); members, threads and listeners end in an order that fits (`LifetimesOrdered`); the process ends, or is stuck in the destruction of the connection after an error of a subscription (`ProcessEnds`), and events are served. |
| `Pipeline` | The reported fill of a queue is true but for what is in a thread's hands (`FillMetricTrue`); the thread does not sleep on samples that were not evaluated (`EvaluatedBeforeSleep`), nor anyone on work (`NothingOverlooked`); samples, packages and matrices are served and a stop ends (`Served`). |
| `Conn_subscribe_returns` | Finds a disagreement of section 7. |

## 4. Bounds

Every bound is a constant. They cut behaviours short; they never change what a step does.

* Manager: four schemes over two ids (waiting, running at once, of another manifest, ending as it
  starts), two manifests, three documents, three instants, one crash. Two versions of one id
  and a second id are what the code distinguishes (`Ids`, times before and after now); three documents allow
  manifest, list, and a further one of either kind on top. `CSM_progress` has a scheme that its build drops,
  a third manifest that does not build, and two documents. The proofs lift all of these bounds.
* Upload: four payloads, one of which is not persisted, and a file of three records, so that the file fills up; a limit of two publishes, so that a file of three never gets through in
  one round and one of two does. Drops, crashes and failures have no bound.
* Connectivity: two channels (the loop over channels meets a second one), three refusals, two losses.
* Engine: rings of one and two samples with three recorded samples wrap; memory for three samples does not suffice for
  all matrices; `MaxConditions` is two with a matrix of three. `MAX_EQUATION_DEPTH` and 64 bits are out of
  reach and play no part in the control.
* Windows: sizes 1 and 2 with six instants and three samples of a negative and a positive value, added at any time after they are received and in any order. The thread may
  look at any time or never: of the smaller size up to five windows pass in one silence, of the larger two. The ends of both coincide and do not.
* CAN: two frames, two dictionary changes (resume and suspend in either order), a buffer of one behind a socket of two. Timestamps are the kernel's, which is the default, and some are missing. One frame is received
  in a round, so that frames of a sleep are still in the socket in the rounds after it; the proofs are for any batch.
* Binder: one source that comes back with reports one at a time, one that does not with reports that overlap, four reports.

* OBD: two units, the second of which may be absent; three PIDs of which two make a full group (`MAX_PID_RANGE`
  is 2 here, 6 in the code) and one a rest, the third in the range of the second request; two changes, one late answer.
* Documents: lists of three schemes from a fixed set that has each kind of node, invalid nodes, a tree of the greatest depth (3 here), a scheme of no type, frames
  wanted raw once or twice, by two schemes or by one, and decoded too; every subset of the schemes is extracted. One list and one manifest, since each is built from nothing.
* Process: five configurations, one per optional part; one step fails. One logging thread besides the profiler's and the main one, messages of a size of which
  one fills an upload (a second is then sent for), batches of two metrics of three in a round, two events.
* Pipeline: one producer on two queues, two samples, two packages on an output queue of one, one matrix, two instants; `Width` is 8 for 2^64,
  above every time and count, so that a wrap is the same as in the code. Two samples make a batch of `BatchSize` (256 in the code).

Deadlock is checked for the engine and its windows, and the upload, which never stop. The other components do: the manager's thread
is stopped, the connectivity module is destroyed, a channel, the binder and the process end, the OBD module is stopped, documents end with
the last list, and the pipeline is stopped. That they stop only there is what
`KeepsUp`, `ConnectionSettles`, `ThreadsComeToRest`, `BinderKeepsUp`, `RoundsServed`, `ProcessEnds` and `Served` say.

## 5. Fairness

* The threads of the process are scheduled: weak fairness of the manager's worker, the retry
  thread, the destructor's thread, source, consumer and binder threads, the OBD thread, the inspection thread, the engine's loop, the profiler's and the
  camera threads, a thread in the middle of a log line. A call that has begun goes on
  (`ManagerGoesOn`, `MainGoesOn`, `ClientGoesOn`); that somebody stops, destroys or disconnects is never assumed.
* A control unit that is asked answers unless its answer is lost (`AnswerStep`); `RoundsServed` claims something only for a unit that does.
* Time passes (`Tick`): the waits of the code have timeouts that the clock ends. Idle threads of a channel
  wake from `IDLE` waits by their timeout, so their step is always enabled.
* The SDK answers a connect, a disconnect and a subscription while the connection is up, completes
  each publish, and reconnects by itself after a loss; these are the callbacks it promises. That a connection lasts is not fairness: it is
  the left side of the property (`<>[]alive`), and so is, for `StoredUploaded`, that rounds of uploads begin again and again when the SDK has completed the earlier
  publishes and the file can be read (`QuietRounds`): seconds pass between two rounds. Without it a round may find the memory taken every time.
* Nothing is assumed of the cloud, of crashes, or of losses.

## 6. What is proved

`CollectionSchemeManagerProofs.tla` proves, for all sets of schemes and manifests, all intervals and all bounds:

| Theorem | Statement |
|---|---|
| `Invariance` | `Spec => []IInv` |
| `MapsSafe` | `MapsAgree`: types, one scheme per id, schemes of the current manifest only |
| `TimelineSafe` | `TimelineKept`: the timeline covers what is loaded, one check-in, nothing overdue after `checkTimeLine` |
| `HandOversSafe` | `HandOversKept`: a document handed over while the thread sleeps has set the signal; the published matrix has the enabled ids, unless nothing is enabled |
| `TypeCorrect`, `MapsConsistent`, `TimerSound`, `NoUpdateLost`, `ConsumersInformed` | the parts of these one by one |
| `ManifestPresent` | the dictionary extractor never meets a null manifest (`ManifestThere`, stated for the proof only) |
| `ManifestSwitchSafe` | the action property `ManifestSwitch` |
| `DiskRecovers` | when writes do not fail, the disk covers what is loaded |

Assumptions: those named in `CollectionSchemeManager`: scheme ids differ from `CHECKIN`, manifest ids are not the
empty one, intervals are positive, the null values are none of the documents. No theorem assumes
that schemes have sensible times; `Built` drops the others, as the code does.

The argument. None of the properties is inductive alone, and `IInv` adds what the code relies on:

* `LoadedWellFormed`: loaded schemes start no later than they stop, since only built ones
  are loaded. Without it `checkTimeLine` could pop a stop before its start, and
  `TimelineCoversSchemes` would fail.
* `BootEmpty`: before the thread has put the check-in into the timeline nothing is loaded.
* `DocumentsThere`: a flag `mProcess*`, a ready list or a current manifest implies that the document is there.
* `SignalPending`: the signal is set whenever an input is available, except between the wake-up and
  `updateAvailable`; this is what makes `NoLostUpdate` inductive.
* `MatrixUpToDate` and `ChangedPublished`: either a change is still to be reported, or the matrix is right;
  the report does not survive `PublishStep`.

The first lemmas say what the operations on maps and timeline preserve (`CleanupKeeps`, `RebuildKeeps`,
`UpdateKeeps`, `TimelineKeeps`, about `MapsInv`, which speaks of three variables only). Then there is one lemma
per action, and `StepIInv` puts them together. `DiskFollows` is a second invariant on top of `IInv`,
for a build in which writes succeed.

`CloudProofs.tla` is about both machines on the way to the cloud, which share no variable. It proves the safety properties of `Connectivity`, for any number of channels, refusals and
losses; the only assumption is that these are numbers and the outcomes of a subscription the three of the SDK.

| Theorem | Statement |
|---|---|
| `ConnectivityInvariance` | `Spec => []IInv` |
| `PromisesSafe` | no promise is set or fetched twice |
| `DestructionSafe` | type correctness; past the retry thread's end the destructor is alone, and leaves no connection |
| `SubscriptionsSafe` | a subscription is answered to a valid channel |
| `DestructionMeetsNothing` | `DestructionClean`: both of these |

That a promise was not used yet says nothing by itself; its `IInv` says which of three phases the connection is in (`Idle`,
`Attempted`/`Established`, `Closing`), from where the retry thread is (`RetryPhase`) and, once that has ended, from where the
destructor is (`MainPhase`). `StopSeen` is why the early wake-up of a stopped retry thread, in the middle of
`onDisconnect`, does not lead to another attempt. `ConnectedPhase` is what remains of `isAlive()` when the destructor is through.

`CANChannelProofs.tla` proves, for any sizes of socket, buffer and batch and any number of frames and changes:

| Theorem | Statement |
|---|---|
| `ChannelInvariance` | `Spec => []IInv` |
| `DictionarySafe` | `DictionaryThere`: the consumer never decodes with a null dictionary |
| `WakeUpsSafe` | `WakeNotLost`: neither thread sleeps through a resume or a stop |
| `ChannelTypes` | the type invariant: times, dictionaries, and what the socket and the buffer hold, within their sizes |
| `BufferIsKept` | the action property `BufferKept`: nothing that is stamped with its arrival, that the source slept through, and that is from before the resume, comes into the buffer; for every type of timestamp |

`DictionaryThere` rests on an order that the code never states. The consumer dereferences the dictionary it copied without a test, and a
stop gets it there without one. Before the first dictionary nothing but a stop gets a thread past its sleep
(`BeforeDictionary`), and `disconnect()` stops the consumer, and waits for it, before the source, so that
the buffer is still empty. `StopPending` extends `WakeNotLost` to a thread that has not yet tested whether it should sleep.
`BufferIsKept` has an invariant of its own on top, `BufferInv`. Its point is `SleptUntaken`: a frame the source has slept through is in the socket only as long as
the source sleeps on, or was woken and has not come to an idle round since; and as long as that is so, the flag `wokeUpFromSleep` makes it compare the timestamp of each frame with
the time of the resume, which is that of its arrival where the property speaks of it (`Stamped`). The frames let through are those of a recursive function, one frame after the other as in the code's loop (`Received`); `ReceivedIs` says that the buffer
grows at its end, by frames of the socket that are fresh, within its size.

The third part of the module is about the dictionary the consumer gets, the operators of `DecoderDictionary`, for any manifest, any interfaces and any sequence of schemes:

| Theorem | Statement |
|---|---|
| `DictionariesServe` | `Serves(m, schemes, decoderDictionaryExtractor(m, schemes))`: whatever the schemes want and in whatever order they come, each signal of a scheme is decoded from its frame or the answer to its PID, unless its interface is unknown or its format was lost; and exactly the frames some scheme wants raw are kept raw |

`Serves` is what `DictionaryServes` claims of each extraction in the run `Documents`. Two signals of a frame come from different schemes with different wishes in between, so the proof is about what an entry
of the dictionary can be: `Rawish` (kept raw), `Good` (decoded, with the format of its frame) and `NotLost` (decoded only with that format). Signals leave alone whether an
entry is kept raw, and what is good stays good (`ToBeDecodedIs`); a wish for the raw frame keeps what is good and loses what is not there yet only if it is the second of its kind
(`ToBeRawIs`). These compose over the loops (`AddSignalsIs`, `AddRawFramesIs`, `ExtractedNext`). Then two signals of one frame have one format (`FormatIsOne`), because different interfaces
have different numbers (`ChannelIsOne`), and the format has each of them (`FormatHasSignal`). `WantedRawTwice` is the exact case in which a format is lost, see section 7.

An induction over data is done the same way here, in the windows and in the payload of a log upload. The recursive function is the `CHOOSE` of a function that satisfies its
equation; that there is one, and that a property passes from the beginning of a sequence to its end, follow from the least
counterexample of a set of numbers (`UpTo`), which needs no operator as a parameter.

`VehicleDataSourceBinderProofs.tla` proves, for any set of sources, whichever of them come back or report twice:

| Theorem | Statement |
|---|---|
| `BinderInvariance` | `Spec => []IInv` |
| `ReportsSafe` | `ReportNotLost`: the thread does not wait while a report is there or while it is to stop |
| `DisconnectSafe` | `NoneLeftRunning`: what `disconnect()` leaves running; also the type invariant |

`ConsumersKnown` and `SourcesKnown` say for each step of the client what may still run: during `unbind` also the consumer
at hand, during `disconnect()` only those not yet dealt with. That they survive the thread, which goes on meanwhile with the reports it took
and looks at the map no more, is due to `ReportsSound`: a report of a source that does not come back never says
connected, so the thread can only stop its consumer. For the others the theorem claims nothing, and section 7 shows why.

`EngineProcessProofs.tla` proves about `Signal`, citing no assumption and for any sets of waiting and of notifying threads:

| Theorem | Statement |
|---|---|
| `SignalInvariant` | `SignalSpec => []SignalInv` |
| `NoLostWakeupHolds` | `NoLostWakeup` |
| `SignalImplementsLatch` | `SignalSpec => ImplementsLatch`: the initial state maps to that of `Latch`, each step to a step or a stutter |

The refinement mapping is the flag itself and, per thread, what it waits for. The invariant has to say that a thread is inside
`wait()` exactly when it waits for something, and that only a timed wait expires (`WaitsAgree`); then setting the flag is `Notify`, entering `Begin`,
the way out `Take` or `Expire`, and the sleep, the wake-up for no reason and the second test are stutters. `notify_one` may wake a thread
other than the one that later takes the notification; `NoLostWakeup` says why no thread sleeps on it: whoever is awake has
yet to look. The theorems do not depend on who uses the signal; `Process_lifetime` checks both properties on the profiler's thread.

The same module proves about the whole process, for any configuration, any number of camera sources, logging threads and metrics, and whichever
steps of `connect()` and `disconnect()` fail:

| Theorem | Statement |
|---|---|
| `ProcessInvariance` | `Spec => []IInv` |
| `ReleasedInOrder` | `LifetimesOrdered`: what is destroyed is used by no thread and no listener, but for those section 7 names |
| `LoggingNeverBlocks` | `NoSelfDeadlock`: no thread waits for the forwarding mutex that it holds |
| `PayloadIsCounted` | `PayloadCounted`: the counter of bytes is the sum of what is collected, unless both are being cleared |
| `ProfilerIsSound` | `ProfilerSound`: this, the two theorems below, and the type invariant, as the run checks them |
| `UploadsStayBounded` | `UploadBounded`: what is collected for one upload of logs is within the limit, or one message |
| `MetricsAreSentOnce` | `MetricsOnce`: each metric of a round is pending or handed over, once |
| `ProcessKeepsSignal` | in the process, too, `NoLostWakeup` and `ImplementsLatch` |

Assumptions: those of `RemoteProfiler`, that sizes and numbers are what they say, that the profiler's thread waits with the modes `Signal.h` has, and that
the value that stands for a free mutex is no thread. The argument has five parts, which meet only in the thread and in the door of the forwarding:

* `ProcessInv`. The members that are gone are a beginning of the list of members (`GoneInOrder`), and none of them has a thread left (`GoneForGood`); `StoppedInOrder`
  says what the stop has ended by which step, unless something failed, and `ForwardingOver` that once the forwarding is off and
  its mutex was free, no thread gets in again: that is why the profiler may be destroyed although the log macros of other threads still run.
* `ThreadInv`. The profiler's thread ends only after `stop()` has asked for it, and the main thread does not go on while it is in `stop()`.
* `LogInv`. The forwarding mutex is held by exactly the thread that is past its door; and what a thread emptied under it stays empty while that thread sends.
  So the send has nothing to send and cannot fail, and the log line of a failing send, which would wait for the mutex its own thread holds, is never written. The worker empties the same
  structure without that mutex, which is harmless to these two, since it makes nothing larger.
* `CountInv`, for the counter. That it is the sum of what is collected is not inductive: `stop()` clears the structure and then the counter, without the mutex of the forwarding, and a message
  added in between would not be counted. None is: by then the forwarding is off and nobody is past its door (`ForwardingOver`).
* `MetricsInv`. Of the metrics of the round the last pending ones stand in the structure in their order, all before them are handed over.

That a step of the process is a step of the `Signal` or leaves it alone (`ProcessStepIsSignalStep`) carries the theorems about `Signal` over.

`InspectionPipelineProofs.tla` proves, for any number of producers and queues and any sizes of batch and output:

| Theorem | Statement |
|---|---|
| `PipelineInvariance` | `Spec => []IInv`, with the types of all variables |
| `FillIsTrue` | `FillMetricTrue`: the reported fill of a queue is what is in it, but for what is in a thread's hands |
| `SleepsAfterEvaluation` | `EvaluatedBeforeSleep`: the inspection thread waits on no sample that was not evaluated |
| `NoThreadOverlooks` | `NothingOverlooked`: who waits has nothing pending that it was not told of |

Assumptions: times start at one, and the unsigned type is wider than any time and than twice the samples there are, as 64 bits are. The invariant
says more than the properties in three places. `FillExact` counts who holds a sample, and bounds the counter by the samples handed over, so that the
unsigned arithmetic never wraps. `Rounds` follows what a round leaves behind: samples that were added to the engine have left their time in
`lastInput`, and a thread that is about to sleep has found every queue empty after that, with a latest time of 0; the difference of the two is then at least one, also
modulo `Width`, which is why the round evaluates. `Pending` is about the three signals, from the step that changes something to the one that looks.

The other half of `CloudProofs.tla` proves of `PersistedUpload`, for any payloads, sizes, and any number of drops, failures and crashes:

| Theorem | Statement |
|---|---|
| `UploadInvariance` | `UploadSpec => []UploadInv` |
| `UploadsAreAccounted` | `UploadsAccounted`: memory is reserved for exactly what is under way, the file fits its quota; a payload is sent again only for a failed round or a crash |
| `ClearedWhenUploaded` | the action property `ClearedAfterUpload`: a record in front of a torn one leaves the file only after it was handed over |

Assumptions: what stands for a torn or an empty read is no payload. That nothing is repeated without a cause needs that neither the file nor the batch that was read
from it holds a payload twice (`HeldOnce`), that what was not collected is nowhere (`OnlyCollected`), and that what is on file or still to transmit was not sent
since something went wrong last (`Owed`); only then is another transmission not a repetition. `Handed` is the other theorem: during a round every record that a retry could read
is in the batch or was handed over. What `SelectInSeq` finds, the first torn record, is reasoned about by the least element of a set of numbers (`HasMin`, `TornMeans`).

`InspectionEngineProofs.tla` proves, for any set of matrices, any signals, frames and values, any limits of conditions and of memory, with samples sent once or
again:

| Theorem | Statement |
|---|---|
| `EngineInvariance` | `Spec => []IInv` |
| `RingsHoldLatest` | `RingHoldsLatest`: however often it wraps, a ring holds the latest samples in their order; also the type invariant |
| `NoTriggerMissed` | `UnmarkedDoesNotHold`: a condition that is not marked to be evaluated does not hold |
| `PublishedAsAsked` | the action property `PublishedInFull`: nothing is collected twice, nothing that was asked for is skipped, and the thread is woken in time |

Assumptions: a matrix is a sequence of conditions, no frame is a signal, the clock may pass its start. A matrix may be malformed, ask for buffers of size zero or for more than there is memory, and
is replaced at any time. The rings are reasoned about by age: `RingExact` says that every position holds the sample whose number is the counter less
the age of the position, so that recording one sample makes all others one older and overwrites the oldest (`RecordedIs`). The size of a ring is the largest any
item asks for (`BuffersFit`, from `MaxIs`); without it an item could visit a position twice. `Wired` says that a sample marks each condition that
reads its source through its buffer, which is what makes `UnmarkedDoesNotHold` inductive: a step that changes what a condition reads marks it (`HoldsKept`), and an evaluation takes the mark only from
conditions that do not hold. `MarksTrue` is behind the first two parts of `PublishedInFull`: a sample in a ring bears the mark of exactly the conditions that it was delivered
to. `delivered` is a variable of the model only; the code has just the marks, and loses them with the sample, which the ages show to be harmless.

The same module proves of `FixedWindow`, for any set of window sizes and any bounds:

| Theorem | Statement |
|---|---|
| `WindowsInvariance` | `WindowsSpec => [](WindowsTypeOK /\ NothingOverdue)`: types, and no window that is over is taken for the present one when the windows are evaluated, however late samples and evaluations come |
| `WindowsAreKept` | `WindowsSpec => []WindowsKept`: minimum, sum and count of the last two windows, and the maximum where a value reaches the least the code begins with, are those of the samples counted for them; a sample is counted for a later window than its own only where the engine was ahead of it. No assumption but that a value is below the greatest double |

The invariant `WindowsMatch` says exactly what each window's collecting, last and previous data are (`CollectedOf`, with the maximum as the code computes it, of the samples counted for a start).
When two or more windows have passed, what was being collected becomes the previous data, whichever window it was of: `PreviousFrom` says of which, and that nothing was counted since. `InTime` says that no
window begins after both the last look and every sample. The lemmas under them say how the sum over a history, a recursive function, and its extremes change with one more sample (`CollectedGrows`),
what `updateWindow` makes of any number of windows that passed (`UpdatedMatches`), and that the exact data agree with what the property compares (`KeptAgrees`).

`OBDOverCANProofs.tla` proves, for any PIDs, dictionaries and reports of the units, with or without a second unit, for any intervals and any size of a request:

| Theorem | Statement |
|---|---|
| `OBDInvariance` | `Spec => []IInv` |
| `RequestsAreSupported` | `RequestsSupported`: a unit is asked for what it reported and some dictionary wanted; also the type invariant |
| `WakesAreNotLost` | `WakeNotLost`: the thread does not sleep on what it was told of, or is about to be |
| `EachAskedOnce` | the action property `AllAsked`: at the end of a list each of its PIDs was asked for once, in requests that are not too large |

Assumptions: PIDs are positive and finitely many, units report and dictionaries want PIDs, a request takes at least one, one interval is not zero. What makes the first property
inductive is that the list of what a unit supports is written once: a unit is asked about its support only while it is unknown (`WorkerOK`), so a list that was computed from it
stays right while the other thread writes another (`ForUnitStays`), and so does a late answer in the socket (`AnswersOf`). That the list is of the newest dictionary does not follow, and
is not true (section 7). `EachAskedOnce` needs that what is left of a list is always made of whole groups (`Grouped`). The lemmas under it are about numbers: each rank up to the size of a
set belongs to exactly one element (`Ranks`, from the theorems on injections), so the groups by rank cover the set, are no larger than a request, and the full ones are not
empty (`Groups`); the next chunk is a group of what is left, and not empty as long as anything is (`ChunkMeans`).

Only model-checked:

* Liveness, which is out of the prover's reach: `KeepsUp`, `StoredUploaded`, `ConnectionSettles`, `TriggeredServed`, `ThreadsComeToRest`, `BinderKeepsUp`, `RoundsServed`, `ProcessEnds`,
  `EventsServed`, `Served`, and `Conn_subscribe_returns`.
* `ConditionsKept` of `Documents`: the traversal of a tree is a recursive operator, and what it yields for every tree an induction over trees. `DictionaryServes` as a property of `Documents`'
  behaviours, for the same reason; what it says of each extraction is `DictionariesServe`.

## 7. Where the code and its documents disagree

This disagreement has a run, which TLC refutes with a short behaviour of the code; `PROJECT.json` quotes the sentence:

* `Conn_subscribe_returns`. An error of a subscription leaves `subscribe` waiting for ever, and the destructor with it (`AwsIotChannel.cpp:106`): a process that is
  to stop then never ends, which `ProcessEnds` leaves out by naming it (`SubscriptionHangs` of `EngineProcess`).

The others are stated in their module with the sentence of the code they come from, and TLC refutes them in the same way on the instance
given here. To see one, put it into a copy of the configuration named, in place of its properties.

| Property | Instance | What happens |
|---|---|---|
| `ManifestStepReports` (CollectionSchemeManager) | as `CSM_safety`, `StoreMayFail = FALSE`, `MaxCrashes = 0`, `MaxTime = 4` | a new manifest empties the enabled schemes and nothing is reported: engine and sources go on with the old (`:424`) |
| `FramesWhole` (InspectionEngine) | as `Inspection`, `Matrices <- FramedMatrix`, `FrameSizes = {3, 8}`, `MaxSamples = 8` | a raw frame is cut to as many bytes as the ring has samples (`CollectionInspectionEngine.cpp:583`) |
| `NotReconnected` (VehicleDataSourceBinder) | as `Binder_lifetime`, `Ids = {1}` | a report that waited for the mutex restarts a consumer that `disconnect()` stopped (`:239`) |
| `ListsCurrent` (OBDOverCAN) | as `OBD_rounds`, `ECUs = {"engine"}` | the thread writes a list computed from the old dictionary over that of the new (`OBDOverCANModule.cpp:767`) |
| `ConditionsPointInto` (Documents) | as `Documents` | a scheme of neither type gets the first node of another scheme, or of an empty vector (`InspectionMatrixExtractor.cpp:187`) |
| `NotEqualKept` (Documents) | as `Documents` | "COMPARE operators return a bool and their children must return a double" (`collection_schemes.proto:285`); the ingestion makes the constant false of `COMPARE_NOT_EQUAL`, whatever is compared (`CollectionSchemeIngestion.cpp:262`, `:408`), so that a condition `a != 1` never triggers |
| `SchemesStepReports` (CollectionSchemeManager) | as `ManifestStepReports` | a clean-up in `updateMapsandTimeLine` (`:553`) and the replacement of an enabled scheme by a new version (`:593`) are not reported |
| `IdleTimesUpdated` | `Schemes <- MCOverdueUpdate`, `MaxTime = 4` | an idle scheme whose new version is over keeps its old times and is started by them (`:613`) |
| `SameNameIgnored` | `Manifests <- MCTwoRevisions` | a manifest "ignored" for its name is already the one dictionaries are made of (`:405`, `:330`) |
| `ClearedOnlyAfterUpload` (PersistedUpload) | as `Upload_rounds` | a torn record swallows whole ones behind it; the file is then erased (`PayloadManager.cpp:167`) |
| `OnlyUnsentPersisted` | as `Upload_rounds` | after a failed round, payloads that were uploaded stay persisted and are uploaded again (`IoTFleetWiseEngine.cpp:858`) |
| `StoredAlwaysUploaded` | as `Upload_rounds` | the log says of a failed transmission that it "will be retried on the next bootup"; with more on file than the SDK may hold (`AwsIotChannel.cpp:194`), or a record that cannot be sent, each round fails at the same record, for ever (`IoTFleetWiseEngine.cpp:858`) |
| `AliveMeansConnected` (Connectivity) | as `Conn_lifetime` | an interruption between the answer and `mConnected = true` leaves the module "alive" (`AwsIotConnectivityModule.cpp:315`) |
| `SubscribedWhenConnected` | `AckOutcomes = {"granted"}`, one interruption | a channel that is met while the connection is interrupted is never subscribed (`:334`) |
| `DTCsSentOnce` (InspectionEngine) | `Matrices <- FramedMatrix` | with "send only once" trouble codes are sent with every trigger (`CollectionInspectionEngine.cpp:429`) |
| `MaximaMatchHistory` (FixedWindow) | as `Inspection` | the maximum of a window of negative values is the smallest positive double (`CollectionInspectionEngine.h:259`) |
| `PreviousMatchesHistory` | as `Inspection` | after more than two windows without a sample and a look, a window from long ago is reported as the previous one (`CollectionInspectionEngine.cpp:819`) |
| `CountsMatchHistory` | as `Inspection` | a sample that waited in the queue is counted for the next window (`:852`) |
| `KernelQueueIgnored` (CANChannel) | `mTimestampTypeToUse = "POLLING_TIME"` | "old messages in the kernel queue need to be ignored", says the comment at `CANDataSource.cpp:280`. A frame that gets the time of its reading (`:214`; also a frame without a timestamp with the other types) is never before the resume: what the kernel queued while the source slept is taken for new |
| `OldFramesIgnored` | `MaxChanges = 3`, `MaxTime = 3` | frames queued during a suspension get through when the thread did not go through its sleep (`CANDataSource.cpp:281`) |
| `InterruptsReflected` (VehicleDataSourceBinder) | `Reconnecting` and `Overlapping` both `{1}` | of a disconnect and a reconnect only the first is handled: the consumer stays stopped (`:364`) |

Some more show in the models without a property of their own:

* `RemoteProfiler`: logs never reach the cloud. The `output` written under the lock shadows the one that is sent (`RemoteProfiler.cpp:81`), and the size that is tested was
  reset just before (`:84`), so nothing is sent; its header says it "Packs the log string into a json and uploads to the cloud if necessary". That is also why a thread
  does not wait for its own mutex when a send of logs fails and logs (`ConsoleLogger.cpp:54`). Batches of metrics are one larger than `MAX_PARALLEL_METRICS` (`:136`).
* `EngineProcess`: the option of JSON schemes leaves the schema null, which `IoTFleetWiseEngine.cpp:347` dereferences (`main = "crashed"`). `disconnect()` leaves the
  connection up, so that its listeners dangle until its own destruction; `LifetimesOrdered` names these.
* `DataOverDDS`: an event that comes between the request for the last one and the reset of the flag is forgotten (`DataOverDDSModule.cpp:177`); `EventsServed` exempts it.
* `DecoderDictionary`: a second wish for a raw frame that nothing is decoded from, by another scheme or the same, marks the entry `RAW_AND_DECODE` without a format ("This CAN Frame contains
  signal to be decoded", `DecoderDictionaryExtractor.cpp:189`). A later scheme that wants signals of that frame then finds the entry and sets no format either, so they are never decoded; `FormatLost` exempts exactly these.
* `InspectionPipeline`: `CollectionInspectionWorkerThread.h:47` says to call `onNewDataAvailable` on new data; nothing but tests does, so data waits for the idle time. The queues
  grow beyond the size they are configured with, since they are not of fixed size (`CollectionInspectionAPITypes.h:182`).
* `TraceModule.cpp` writes the maximum since the start and the maximum since the last output of a plain variable under each other's names; not modelled.

## 8. What is not modelled

* Protobuf itself, message formats (protobuf and JSON writers), the split into messages, wording of logs and traces: formatting and I/O.
  Reading `/proc` (`CPUUsageInfo`, `MemoryUsageInfo`), the sockets below ISO-TP and CAN: wrappers of the kernel.
* `CANDecoder`, the scaling in `OBDDataDecoder`, `Geohash`, the evaluation of a condition's tree: arithmetic on bits and doubles without state. The tree
  itself is in `Documents`, and in `InspectionEngine` a condition is a predicate of the latest values.
* `CollectionSchemeJSONParser`, `CollectionScheme.cpp`, `OBDOverCANSessionManager`: only the tests or the JSON option use them.
* The DDS library and the file a camera answer is written to.
* Within the modelled parts: a second `start` of the manager within one process; the synchronous connect (tests only);
  unsubscribe; decoding of frame contents; event ids; what the configuration file says beyond which parts exist; signal handlers.
* The partition that the manager and the payloads share, with its quota: each of the models has a file of its own.
* The 32-bit cast of the manager's waiting time (`CollectionSchemeManager.cpp:288`): its edge is 49 days away.
* Races in the sense of the C++ memory model on single words (`mResumeTime`, `fUpdatedInspectionMatrix`, the dictionary pointer of the OBD thread,
  the thread id) are taken as atomic accesses.

## 9. The plan

Done: the manager, connectivity, channel, binder, signal, pipeline, inspection engine, upload and OBD module with their proofs; documents; the process with its profiler
and camera node, of which the order of the stop, the logging and the metrics are proved; the windows and the dictionaries with their proofs. Every safety property of the runs is proved but for
the trees of the conditions.

1. Refinements: the threads of `CANChannel`, `VehicleDataSourceBinder` and `InspectionPipeline` take a `Signal` for a `Latch`; a scheme's life (idle, enabled, gone)
   implemented by the manager; a channel with retries implemented by `PersistedUpload` when writes do not tear.
2. The shared partition of `CacheAndPersist`, and the evaluation of a condition's tree against a reference.
