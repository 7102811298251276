------------------------- MODULE InspectionPipeline -------------------------
(***************************************************************************)
(* The way of a sample to the cloud: the data consumers push it on a queue,*)
(* the CollectionInspectionWorkerThread pops it, lets the inspection       *)
(* engine evaluate its conditions and pushes what they collect on the      *)
(* output queue, and the engine's main loop takes it from there to the     *)
(* sender.  What the conditions are and which data they collect is the     *)
(* subject of InspectionEngine; here an evaluation triggers one package    *)
(* or none, due now or later.  The two Signals the threads wait on are     *)
(* taken for the latch a Signal implements (Signal!ImplementsLatch).       *)
(***************************************************************************)
EXTENDS Naturals, Sequences, FiniteSets, FiniteSetsExt

CONSTANTS
    Producers,      \* the data consumers and the OBD module
    Inputs,         \* the input queues, in the order the worker looks at them
    Worker, Engine, \* the inspection thread and the engine's main loop
    BatchSize,      \* the samples that force an evaluation (256 in the code)
    OutputSize,     \* the size of the output queue
    Width,          \* unsigned numbers wrap at this value (2^64 in the code)
    MaxTime, MaxSamples, MaxPackages, MaxMatrices      \* the bounds of the search

ASSUME PipelineAssumption ==
    /\ Inputs \in Seq(STRING) /\ Worker # Engine
    /\ BatchSize \in Nat \ {0} /\ OutputSize \in Nat
    /\ MaxTime \in Nat \ {0} /\ MaxSamples \in Nat /\ Width \in Nat /\ MaxTime < Width /\ 2 * MaxSamples < Width
    /\ MaxPackages \in Nat /\ MaxMatrices \in Nat

VARIABLES
    clock,          \* what the Clock says, in milliseconds
    samples,        \* how many samples were handed over
    producer,       \* [Producers -> where it is with the sample in its hands]
    queue,          \* [inputs -> the reception times of the samples queued]
    mCurrentValue,  \* [inputs -> the fill of the queue as TraceModule counts it]
    fUpdatedInspectionMatrix,          \* the matrix last handed over, 0 for none
    fUpdatedInspectionMatrixAvailable,
    worker,         \* the locals of CollectionInspectionWorkerThread::doWork
    engine,         \* the inspection engine: [matrix, added, due]
    packages,       \* how many packages were triggered
    output,         \* fOutputCollectedData
    loop,           \* where IoTFleetWiseEngine::doWork is
    fWait, mWait,   \* the Signals of the two threads: [set, waiting]
    main            \* where the main thread is with stopping the two

samplesVars == <<samples, producer, queue, mCurrentValue>>
matrixVars == <<fUpdatedInspectionMatrix, fUpdatedInspectionMatrixAvailable>>
packageVars == <<packages, output>>
vars == <<clock, samplesVars, matrixVars, worker, engine, packageVars, loop, fWait, mWait, main>>

InputNames == {Inputs[i] : i \in DOMAIN Inputs}

\* fShouldStop of either thread: set by the main thread, taken back after the join.
WorkerShouldStop == main \in {"workerNotify", "workerJoin"}
EngineShouldStop == main = "engineJoin"

\* The latch of a Signal. A timed wait may expire at any time; that the worker sleeps no
\* longer than until the next package is due is InspectionEngine's WokenInTime.
Notified(signal) == [signal EXCEPT !.set = TRUE]
Waits(signal) == signal.waiting # "none"
WaitsFor(signal, how) == [signal EXCEPT !.waiting = how]
Awake(signal) == [set |-> FALSE, waiting |-> "none"]

Init ==
    /\ clock = 1
    /\ samples = 0
    /\ producer = [p \in Producers |-> [step |-> "idle"]]
    /\ queue = [q \in InputNames |-> <<>>]
    /\ mCurrentValue = [q \in InputNames |-> 0]
    /\ fUpdatedInspectionMatrix = 0
    /\ fUpdatedInspectionMatrixAvailable = FALSE
    /\ worker = [step |-> "top", next |-> 1, readyToSleep |-> TRUE, latest |-> 0,
                 lastInput |-> 0, lastEvaluated |-> 0, count |-> 0, held |-> 0]
    /\ engine = [matrix |-> 0, added |-> 0, due |-> {}]
    /\ packages = 0 /\ output = <<>>
    /\ loop = "until"
    /\ fWait = [set |-> FALSE, waiting |-> "none"]
    /\ mWait = [set |-> FALSE, waiting |-> "none"]
    /\ main = "run"

-----------------------------------------------------------------------------
(* The producers: CANDataConsumer::doWork and OBDOverCANModule::doWork *)

otherThanSamples == <<clock, matrixVars, worker, engine, packageVars, loop, fWait, mWait, main>>

\* addToAtomicVariable; the maximum it keeps is that of the values counted.
Count(p, q) ==
    /\ producer[p].step = "idle"
    /\ samples < MaxSamples
    /\ samples' = samples + 1
    /\ mCurrentValue' = [mCurrentValue EXCEPT ![q] = (@ + 1) % Width]
    /\ producer' = [producer EXCEPT ![p] = [step |-> "push", q |-> q]]
    /\ UNCHANGED queue

\* The queue allocates a node when it has none left: it refuses only without memory.
Push(p) ==
    LET mine == producer[p]
    IN  /\ mine.step = "push"
        /\ \/ /\ queue' = [queue EXCEPT ![mine.q] = Append(@, clock)]
              /\ producer' = [producer EXCEPT ![p] = [step |-> "idle"]]
           \/ /\ producer' = [producer EXCEPT ![p].step = "undo"]
              /\ UNCHANGED queue
        /\ UNCHANGED <<samples, mCurrentValue>>
Undo(p) ==
    LET mine == producer[p]
    IN  /\ mine.step = "undo"
        /\ mCurrentValue' = [mCurrentValue EXCEPT ![mine.q] = (@ + Width - 1) % Width]
        /\ producer' = [producer EXCEPT ![p] = [step |-> "idle"]]
        /\ UNCHANGED <<samples, queue>>

\* Mutant: a sample is counted only once it is in the queue.
PushFirst(p) ==
    LET mine == producer[p]
    IN  /\ mine.step = "idle"
        /\ samples < MaxSamples
        /\ samples' = samples + 1
        /\ \E q \in InputNames :
              /\ queue' = [queue EXCEPT ![q] = Append(@, clock)]
              /\ producer' = [producer EXCEPT ![p] = [step |-> "undo", q |-> q]]
        /\ UNCHANGED mCurrentValue
ProducerCountsLate(p) ==
    /\ \/ PushFirst(p)
       \/ /\ producer[p].step = "undo"
          /\ mCurrentValue' = [mCurrentValue EXCEPT ![producer[p].q] = (@ + 1) % Width]
          /\ producer' = [producer EXCEPT ![p] = [step |-> "idle"]]
          /\ UNCHANGED <<samples, queue>>
    /\ UNCHANGED otherThanSamples

Producer(p) ==
    /\ \/ \E q \in InputNames : Count(p, q)
       \/ Push(p) \/ Undo(p)
    /\ UNCHANGED otherThanSamples

-----------------------------------------------------------------------------
(* The inspection thread: CollectionInspectionWorkerThread::doWork *)

At(step) == worker.step = step
Go(step) == [worker EXCEPT !.step = step]

\* Mutant: the thread is not told of the new matrix.
onChangeInspectionMatrixSilent ==
    /\ main # "done"
    /\ fUpdatedInspectionMatrix < MaxMatrices
    /\ fUpdatedInspectionMatrix' = fUpdatedInspectionMatrix + 1
    /\ fUpdatedInspectionMatrixAvailable' = TRUE
    /\ UNCHANGED <<clock, samplesVars, worker, engine, packageVars, loop, fWait, mWait, main>>

\* CollectionSchemeManager hands a matrix over; the thread is notified under the mutex.
onChangeInspectionMatrix ==
    /\ main # "done"
    /\ fUpdatedInspectionMatrix < MaxMatrices
    /\ fUpdatedInspectionMatrix' = fUpdatedInspectionMatrix + 1
    /\ fUpdatedInspectionMatrixAvailable' = TRUE
    /\ fWait' = Notified(fWait)
    /\ UNCHANGED <<clock, samplesVars, worker, engine, packageVars, loop, mWait, main>>

\* A new matrix clears the buffers and what waits to be published.
TakeMatrix ==
    /\ At("top")
    /\ IF fUpdatedInspectionMatrixAvailable
       THEN /\ fUpdatedInspectionMatrixAvailable' = FALSE
            /\ engine' = [matrix |-> fUpdatedInspectionMatrix, added |-> 0, due |-> {}]
       ELSE UNCHANGED <<fUpdatedInspectionMatrixAvailable, engine>>
    /\ worker' = Go("check")
    /\ UNCHANGED <<clock, samplesVars, fUpdatedInspectionMatrix, packageVars, loop, fWait, mWait,
                   main>>

Check ==
    /\ At("check")
    /\ IF fUpdatedInspectionMatrix # 0
       THEN /\ worker' = [worker EXCEPT !.step = "pop", !.next = 1, !.readyToSleep = TRUE,
                                        !.latest = 0]
            /\ UNCHANGED fWait
       ELSE /\ worker' = Go("wait")
            /\ fWait' = WaitsFor(fWait, "predicate")
    /\ UNCHANGED <<clock, samplesVars, matrixVars, engine, packageVars, loop, mWait, main>>

\* One sample from each queue, if there is one; without a matrix it is ignored.
Pop ==
    /\ At("pop")
    /\ IF worker.next > Len(Inputs)
       THEN worker' = [worker EXCEPT !.step = "evaluate", !.next = 1] /\ UNCHANGED <<queue, engine>>
       ELSE LET q == Inputs[worker.next]
            IN  IF queue[q] = <<>>
                THEN /\ worker' = [worker EXCEPT !.next = @ + 1]
                     /\ UNCHANGED <<queue, engine>>
                ELSE /\ queue' = [queue EXCEPT ![q] = Tail(@)]
                     /\ engine' = [engine EXCEPT !.added = IF engine.matrix = 0 THEN 0 ELSE @ + 1]
                     /\ worker' = [worker EXCEPT !.step = "popped", !.readyToSleep = FALSE,
                                                 !.latest = Max({@, Head(queue[q])}),
                                                 !.count = @ + 1]
    /\ UNCHANGED <<clock, samples, producer, mCurrentValue, matrixVars, packageVars,
                   loop, fWait, mWait, main>>
Popped ==
    /\ At("popped")
    /\ mCurrentValue' = [mCurrentValue EXCEPT ![Inputs[worker.next]] = (@ + Width - 1) % Width]
    /\ worker' = [worker EXCEPT !.step = "pop", !.next = @ + 1]
    /\ UNCHANGED <<clock, samples, producer, queue, matrixVars, engine, packageVars,
                   loop, fWait, mWait, main>>

\* evaluateConditions, at the time of the clock: a condition triggers or none does.
EvaluateAndGo(step) ==
    /\ worker' = [worker EXCEPT !.step = step, !.lastInput = worker.latest,
                                !.latest = IF step = "collect" THEN 0 ELSE @,
                                !.lastEvaluated = clock, !.count = 0]
    /\ \/ engine' = [engine EXCEPT !.added = 0] /\ UNCHANGED packages
       \/ /\ engine.matrix # 0 /\ packages < MaxPackages
          /\ packages' = packages + 1
          /\ \E t \in {clock, clock + 1} : t <= MaxTime /\
                engine' = [engine EXCEPT !.added = 0, !.due = @ \cup {<<packages', t>>}]

\* Mutant: the difference is taken for a signed number.
InputIsNewerSigned == worker.latest >= worker.lastInput + 1

\* The difference of the unsigned times: EVALUATE_INTERVAL_MS or more whenever they differ.
InputIsNewer == (worker.latest + Width - worker.lastInput) % Width >= 1
EvaluateInput ==
    /\ At("evaluate")
    /\ IF InputIsNewer \/ worker.count >= BatchSize
       THEN EvaluateAndGo("idle")
       ELSE worker' = Go("idle") /\ UNCHANGED <<engine, packages>>
    /\ UNCHANGED <<clock, samplesVars, matrixVars, output, loop, fWait, mWait, main>>
EvaluateIdle ==
    /\ At("idle")
    /\ IF worker.readyToSleep /\ clock >= worker.lastEvaluated + 1
       THEN EvaluateAndGo("collect")
       ELSE worker' = [worker EXCEPT !.step = "collect", !.latest = 0] /\ UNCHANGED <<engine, packages>>
    /\ UNCHANGED <<clock, samplesVars, matrixVars, output, loop, fWait, mWait, main>>

-----------------------------------------------------------------------------
(* Collecting, and handing over to the engine's main loop *)

\* collectNextDataToSend returns a package that is due, or how long none will be.
Collect ==
    /\ At("collect")
    /\ \/ \E d \in engine.due :
            /\ d[2] <= clock
            /\ engine' = [engine EXCEPT !.due = @ \ {d}]
            /\ worker' = [worker EXCEPT !.step = "deliver", !.held = d[1]]
       \/ /\ \A d \in engine.due : d[2] > clock
          /\ worker' = [worker EXCEPT !.step = "rest", !.held = 0]
          /\ UNCHANGED engine
    /\ UNCHANGED <<clock, samplesVars, matrixVars, packageVars, loop, fWait, mWait, main>>

\* What was collected when the thread has to stop is not pushed any more.
Deliver ==
    /\ At("deliver")
    /\ \/ /\ WorkerShouldStop
          /\ worker' = [worker EXCEPT !.step = "rest", !.held = 0]
          /\ UNCHANGED output
       \/ /\ ~WorkerShouldStop /\ Len(output) >= OutputSize
          /\ worker' = [worker EXCEPT !.step = "collect", !.held = 0]
          /\ UNCHANGED output
       \/ /\ ~WorkerShouldStop /\ Len(output) < OutputSize
          /\ output' = Append(output, worker.held)
          /\ worker' = [worker EXCEPT !.step = "notify", !.held = 0]
    /\ UNCHANGED <<clock, samplesVars, matrixVars, engine, packages, loop, fWait, mWait, main>>

\* Mutant: nobody tells the main loop that there is data.
NotifySenderNot ==
    /\ At("notify")
    /\ worker' = Go("collect")
    /\ UNCHANGED <<clock, samplesVars, matrixVars, engine, packageVars, loop, fWait, mWait, main>>

\* onDataReadyToPublish of the engine, the listener of the thread.
NotifySender ==
    /\ At("notify")
    /\ mWait' = Notified(mWait)
    /\ worker' = Go("collect")
    /\ UNCHANGED <<clock, samplesVars, matrixVars, engine, packageVars, loop, fWait, main>>

\* wait(timeToWait), when nothing was popped.
Rest ==
    /\ At("rest")
    /\ IF worker.readyToSleep
       THEN /\ worker' = Go("wait")
            /\ fWait' = WaitsFor(fWait, "timed")
       ELSE /\ worker' = [worker EXCEPT !.step = "until", !.readyToSleep = TRUE]
            /\ UNCHANGED fWait
    /\ UNCHANGED <<clock, samplesVars, matrixVars, engine, packageVars, loop, mWait, main>>
Woken ==
    /\ At("wait")
    /\ fWait.set \/ fWait.waiting = "timed"
    /\ fWait' = Awake(fWait)
    /\ worker' = Go("until")
    /\ UNCHANGED <<clock, samplesVars, matrixVars, engine, packageVars, loop, mWait, main>>
LoopOrEnd ==
    /\ At("until")
    /\ worker' = Go(IF WorkerShouldStop THEN "ended" ELSE "top")
    /\ UNCHANGED <<clock, samplesVars, matrixVars, engine, packageVars, loop, fWait, mWait, main>>

WorkerStep ==
    \/ TakeMatrix \/ Check \/ Pop \/ Popped \/ EvaluateInput \/ EvaluateIdle
    \/ Collect \/ Deliver \/ NotifySender \/ Rest \/ Woken \/ LoopOrEnd

-----------------------------------------------------------------------------
(* The engine's main loop, and the main thread that stops both *)

otherThanLoop == <<clock, samplesVars, matrixVars, worker, engine, packages, fWait, main>>

LoopOver ==
    /\ loop = "until"
    /\ EngineShouldStop
    /\ loop' = "ended"
    /\ UNCHANGED <<mWait, output, otherThanLoop>>
\* The wait is always a timed one: no path takes timeTrigger back to zero.
LoopWait ==
    /\ loop = "until"
    /\ ~EngineShouldStop
    /\ loop' = "wait"
    /\ mWait' = WaitsFor(mWait, "timed")
    /\ UNCHANGED <<output, otherThanLoop>>
LoopWoken ==
    /\ loop = "wait"
    /\ loop' = "consume"
    /\ mWait' = Awake(mWait)
    /\ UNCHANGED <<output, otherThanLoop>>
\* consume_all: the worker may go on pushing meanwhile.
SendNext ==
    /\ loop = "consume"
    /\ output # <<>>
    /\ output' = Tail(output)
    /\ UNCHANGED <<loop, mWait, otherThanLoop>>
AllConsumed ==
    /\ loop = "consume"
    /\ output = <<>>
    /\ loop' = "until"
    /\ UNCHANGED <<mWait, output, otherThanLoop>>
LoopStep == LoopOver \/ LoopWait \/ LoopWoken \/ SendNext \/ AllConsumed

\* main(): stop() of the engine, then disconnect(), which stops the inspection thread.
MainGoes(from, to) ==
    /\ main = from
    /\ main' = to
    /\ UNCHANGED <<clock, samplesVars, matrixVars, worker, engine, packageVars, loop>>
StopEngine == MainGoes("run", "engineJoin") /\ mWait' = Notified(mWait) /\ UNCHANGED fWait
JoinEngine == loop = "ended" /\ MainGoes("engineJoin", "disconnect") /\ UNCHANGED <<fWait, mWait>>
StopWorker == MainGoes("disconnect", "workerNotify") /\ UNCHANGED <<fWait, mWait>>
NotifyWorker == MainGoes("workerNotify", "workerJoin") /\ fWait' = Notified(fWait) /\ UNCHANGED mWait
JoinWorker == At("ended") /\ MainGoes("workerJoin", "done") /\ UNCHANGED <<fWait, mWait>>
MainStep == StopEngine \/ JoinEngine \/ StopWorker \/ NotifyWorker \/ JoinWorker

Tick ==
    /\ clock < MaxTime
    /\ clock' = clock + 1
    /\ UNCHANGED <<samplesVars, matrixVars, worker, engine, packageVars, loop, fWait, mWait, main>>

Next ==
    \/ \E p \in Producers : Producer(p)
    \/ onChangeInspectionMatrix
    \/ WorkerStep
    \/ LoopStep
    \/ MainStep
    \/ Tick

\* The threads run, time goes on, and a stop that has begun goes on.
MainGoesOn == main # "run" /\ MainStep
Fairness ==
    WF_vars(WorkerStep) /\ WF_vars(LoopStep) /\ WF_vars(MainGoesOn) /\ WF_vars(Tick)
Spec == Init /\ [][Next]_vars
FairSpec == Spec /\ Fairness

-----------------------------------------------------------------------------
(* Properties *)

\* What is counted of a queue but is not in it: in a producer's hands, or just popped.
InHands(q) ==
    Cardinality({p \in Producers : producer[p].step # "idle" /\ producer[p].q = q})
        + (IF At("popped") /\ Inputs[worker.next] = q THEN 1 ELSE 0)

\* The fill of an input queue that TraceModule reports is that of the queue and of what
\* goes in or out of it, whatever the threads do meanwhile; so the unsigned counter is
\* never taken below zero, which would leave a maximum of 2^64 - 1 for ever.
FillMetricTrue ==
    \A q \in InputNames :
        mCurrentValue[q] \in Len(queue[q]) .. Len(queue[q]) + InHands(q)

\* The worker does not go to sleep on samples that no evaluation has seen, however its
\* reads of the clock and the times of the samples fall: nobody would wake it for them.
EvaluatedBeforeSleep == Waits(fWait) => engine.added = 0

\* Nothing is overlooked by a thread that waits: not a package in the output queue, not a
\* new matrix, not the request to stop. Its Signal is set, or is about to be.
NothingOverlooked ==
    /\ Waits(mWait) /\ output # <<>> => mWait.set \/ At("notify")
    /\ Waits(fWait) /\ fUpdatedInspectionMatrixAvailable => fWait.set
    /\ Waits(fWait) /\ WorkerShouldStop => fWait.set \/ main = "workerNotify"

\* While the program is not being stopped a package that was triggered gets sent, or is
\* dropped, by a full output queue or a new matrix; a new matrix is taken up; and a stop
\* of the two threads comes to its end.
InFlight(n) ==
    \/ \E d \in engine.due : d[1] = n
    \/ worker.held = n /\ worker.step = "deliver"
    \/ \E i \in DOMAIN output : output[i] = n
Served ==
    /\ \A n \in 1 .. MaxPackages : InFlight(n) ~> ~InFlight(n) \/ main # "run"
    /\ fUpdatedInspectionMatrixAvailable ~> ~fUpdatedInspectionMatrixAvailable \/ main # "run"
    /\ main # "run" ~> main = "done"

=============================================================================
