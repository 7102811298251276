--------------------------- MODULE RemoteProfiler ---------------------------
(***************************************************************************)
(* The upload of metrics and log messages: RemoteProfiler with its worker  *)
(* thread, the forwarding of every log message to it (ConsoleLogger.cpp),  *)
(* and the Thread and the Signal its life cycle is made of.                *)
(*                                                                         *)
(* A log message of any thread is forwarded under gLogForwardingMutex, and *)
(* the profiler itself logs when a send fails.  A message is the number of *)
(* bytes it needs; a metric is its number in the round.  Each critical     *)
(* section of loggingMutex is one action, except in stop(), which clears   *)
(* the same structure without the mutex, in two steps.  System time and    *)
(* the time of a wait are two clocks: after a wait a round may be due or   *)
(* not.                                                                    *)
(***************************************************************************)
EXTENDS Integers, Sequences, FiniteSets, Signal

CONSTANTS
    Loggers,          \* threads of other modules that log
    Worker, Main,     \* the profiler's thread, and the thread that owns the profiler
    EntrySizes,       \* sizes of log messages
    WaitModes,        \* the waits of its intervals: "predicate" when both are 0
    MaxBytes,         \* MAX_BYTES_FOR_SINGLE_LOG_UPLOAD
    MetricCount,      \* metrics of a round
    MaxMetrics,       \* MAX_PARALLEL_METRICS
    MaxEntries,       \* bound: log messages of the Loggers
    MaxFailures       \* bound: sends that fail

ASSUME ProfilerAssumption ==
    /\ EntrySizes \subseteq Nat \ {0} /\ WaitModes \subseteq {"predicate", "timed"}
    /\ {MaxBytes, MetricCount, MaxMetrics, MaxEntries, MaxFailures} \subseteq Nat
    /\ Waiters = {Worker} /\ Notifiers = {Main}
    /\ Worker \notin Loggers /\ Main \notin Loggers /\ Worker # Main

VARIABLES
    gLogForwarder,    \* messages are forwarded to the profiler
    holder,           \* the thread that holds gLogForwardingMutex
    logAt, entry,     \* where a thread is in forwardLog / logMessage, and its message
    fLogRoot, fCurrentUserPayloadInLogRoot,
    fMetricsRoot, fCurrentMetricsPending,
    nextMetric,       \* the metric the worker hands over next
    handed,           \* how often each metric of the round was sent
    workAt,           \* where the worker thread is
    fThread, mDone, terminated,   \* the Thread: valid, done, its mTerminateSignal
    fShouldStop,
    stopAt,           \* where Main is in stop()
    entries, failures \* bounds

logVars == <<gLogForwarder, holder, logAt, entry, fLogRoot, fCurrentUserPayloadInLogRoot>>
metricVars == <<fMetricsRoot, fCurrentMetricsPending, nextMetric, handed>>
threadVars == <<fThread, mDone, terminated, fShouldStop>>
profilerVars == <<signalVars, logVars, metricVars, threadVars, workAt, stopAt, entries, failures>>

Metrics == 1 .. MetricCount
NoneHanded == [m \in Metrics |-> 0]
LogThreads == Loggers \cup {Worker}
Nobody == "nobody"

ASSUME NobodyAssumption == Nobody \notin LogThreads

\* The bytes of the messages in a structure.
Bytes(root) == LET sum[i \in 0 .. Len(root)] == IF i = 0 THEN 0 ELSE sum[i - 1] + root[i]
               IN  sum[Len(root)]

ProfilerInit ==
    /\ SignalInit
    /\ gLogForwarder = FALSE /\ holder = Nobody
    /\ logAt = [t \in LogThreads |-> "out"] /\ entry = [t \in LogThreads |-> 0]
    /\ fLogRoot = <<>> /\ fCurrentUserPayloadInLogRoot = 0
    /\ fMetricsRoot = <<>> /\ fCurrentMetricsPending = 0
    /\ nextMetric = 1 /\ handed = NoneHanded
    /\ workAt = "none"
    /\ fThread = FALSE /\ mDone = TRUE /\ terminated = FALSE /\ fShouldStop = FALSE
    /\ stopAt = "out"
    /\ entries = 0 /\ failures = 0

-----------------------------------------------------------------------------
\* forwardLog and logMessage, in the thread that logs.

initLogStructure ==
    /\ fLogRoot' = <<>>
    /\ fCurrentUserPayloadInLogRoot' = 0

\* A message of another module's thread; without a forwarder it goes no further.
Log(t) ==
    /\ logAt[t] = "out" /\ gLogForwarder
    /\ entries < MaxEntries
    /\ entries' = entries + 1
    /\ \E s \in EntrySizes : entry' = [entry EXCEPT ![t] = s]
    /\ logAt' = [logAt EXCEPT ![t] = "forward"]
    /\ UNCHANGED <<gLogForwarder, holder, fLogRoot, fCurrentUserPayloadInLogRoot>>

\* The mutex is not recursive; the forwarder is read again under it.
forwardLog(t) ==
    /\ logAt[t] = "forward" /\ holder = Nobody
    /\ IF gLogForwarder
       THEN /\ holder' = t /\ logAt' = [logAt EXCEPT ![t] = "add"]
            /\ UNCHANGED entry
       ELSE /\ logAt' = [logAt EXCEPT ![t] = "out"] /\ entry' = [entry EXCEPT ![t] = 0]
            /\ UNCHANGED holder
    /\ UNCHANGED <<gLogForwarder, fLogRoot, fCurrentUserPayloadInLogRoot, entries>>

AddEntry(t) ==
    /\ fLogRoot' = Append(fLogRoot, entry[t])
    /\ fCurrentUserPayloadInLogRoot' = fCurrentUserPayloadInLogRoot + entry[t]
    /\ entry' = [entry EXCEPT ![t] = 0]
    /\ holder' = Nobody
    /\ logAt' = [logAt EXCEPT ![t] = "out"]

\* A message that would make the upload too large waits until the rest is sent.
logMessage(t) ==
    /\ logAt[t] = "add"
    /\ IF entry[t] + fCurrentUserPayloadInLogRoot > MaxBytes
       THEN /\ logAt' = [logAt EXCEPT ![t] = "flush"]
            /\ UNCHANGED <<holder, entry, fLogRoot, fCurrentUserPayloadInLogRoot>>
       ELSE AddEntry(t)
    /\ UNCHANGED <<gLogForwarder, entries>>

\* sendLogsOut on that path: the critical section ...
FlushLogs(t) ==
    /\ logAt[t] = "flush"
    /\ initLogStructure
    /\ logAt' = [logAt EXCEPT ![t] = "send"]
    /\ UNCHANGED <<gLogForwarder, holder, entry, entries>>

\* ... then the send, if the structure holds anything after it was emptied.
SendLogs(t) ==
    /\ logAt[t] = "send"
    /\ \/ /\ fCurrentUserPayloadInLogRoot > 0 /\ failures < MaxFailures
          /\ failures' = failures + 1
          /\ logAt' = [logAt EXCEPT ![t] = "forward"]   \* "Send error" is logged
       \/ logAt' = [logAt EXCEPT ![t] = "append"] /\ UNCHANGED failures
    /\ UNCHANGED <<gLogForwarder, holder, entry, fLogRoot, fCurrentUserPayloadInLogRoot, entries>>

\* The message that did not fit is added without asking again whether it fits.
AppendLog(t) ==
    /\ logAt[t] = "append"
    /\ AddEntry(t)
    /\ UNCHANGED <<gLogForwarder, entries>>

LogStep(t) ==
    /\ \/ /\ forwardLog(t) \/ logMessage(t) \/ FlushLogs(t) \/ AppendLog(t)
          /\ UNCHANGED failures
       \/ SendLogs(t)
    /\ UNCHANGED <<signalVars, metricVars, threadVars, workAt, stopAt>>

-----------------------------------------------------------------------------
\* The worker thread: Thread::workerFunctionWrapper around doWork.

\* A failing send is logged by the worker, through the same forwarding.
LogFailure ==
    /\ failures < MaxFailures
    /\ failures' = failures + 1
    /\ IF gLogForwarder
       THEN \E s \in EntrySizes : /\ entry' = [entry EXCEPT ![Worker] = s]
                                  /\ logAt' = [logAt EXCEPT ![Worker] = "forward"]
       ELSE UNCHANGED <<entry, logAt>>

SendMayFail == LogFailure \/ UNCHANGED <<failures, entry, logAt>>
forwardingVars == <<gLogForwarder, holder, fLogRoot, fCurrentUserPayloadInLogRoot>>

\* release() may have run before the thread did: then doWork is not entered.
WorkerBegins ==
    /\ workAt = "begin"
    /\ workAt' = IF mDone THEN "finish" ELSE "loop"
    /\ UNCHANGED <<signalVars, logVars, metricVars, threadVars, failures>>

Loop ==
    /\ workAt = "loop" /\ logAt[Worker] = "out"
    /\ \/ fShouldStop /\ workAt' = "finish" /\ UNCHANGED signalVars
       \/ ~fShouldStop /\ workAt' = "waiting" /\ \E m \in WaitModes : WaitCall(Worker, m)
    /\ UNCHANGED <<logVars, metricVars, threadVars, failures>>

Waiting ==
    /\ workAt = "waiting" /\ waitAt[Worker] # "out"
    /\ WaitStep(Worker)
    /\ UNCHANGED <<logVars, metricVars, threadVars, workAt, failures>>

\* After the wait: the metrics are collected when their time has come or at the end.
Woken ==
    /\ workAt = "waiting" /\ waitAt[Worker] = "out"
    /\ workAt' \in (IF fShouldStop THEN {"metrics"} ELSE {"metrics", "logs"})
    /\ UNCHANGED <<signalVars, logVars, metricVars, threadVars, failures>>

\* sendMetricsOut: what was collected is sent and forgotten, sent or not.
InRoot(m) == Cardinality({k \in DOMAIN fMetricsRoot : fMetricsRoot[k] = m})
MetricsSent == [m \in Metrics |-> handed[m] + InRoot(m)]

\* Mutant: a batch that was sent stays among the pending metrics.
setMetricKeepBatch ==
    /\ workAt = "metrics" /\ logAt[Worker] = "out"
    /\ nextMetric \in Metrics
    /\ LET full == fCurrentMetricsPending > MaxMetrics
           pending == (IF full THEN 0 ELSE fCurrentMetricsPending) + 1
       IN  /\ handed' = IF full THEN MetricsSent ELSE handed
           /\ fCurrentMetricsPending' = pending
           /\ fMetricsRoot' = [k \in DOMAIN fMetricsRoot \cup {pending} |->
                                 IF k = pending THEN nextMetric ELSE fMetricsRoot[k]]
    /\ nextMetric' = nextMetric + 1
    /\ UNCHANGED <<signalVars, logVars, failures, threadVars, workAt>>

\* The next metric goes under the key of its number among the pending ones.
setMetric ==
    /\ workAt = "metrics" /\ logAt[Worker] = "out"
    /\ nextMetric \in Metrics
    /\ LET full == fCurrentMetricsPending > MaxMetrics
           pending == (IF full THEN 0 ELSE fCurrentMetricsPending) + 1
           kept == IF full THEN <<>> ELSE fMetricsRoot
       IN  /\ handed' = IF full THEN MetricsSent ELSE handed
           /\ IF full THEN SendMayFail ELSE UNCHANGED <<failures, entry, logAt>>
           /\ fCurrentMetricsPending' = pending
           /\ fMetricsRoot' = [k \in DOMAIN kept \cup {pending} |->
                                 IF k = pending THEN nextMetric ELSE kept[k]]
    /\ nextMetric' = nextMetric + 1
    /\ UNCHANGED <<signalVars, forwardingVars, threadVars, workAt>>

sendMetricsOut ==
    /\ workAt = "metrics" /\ logAt[Worker] = "out"
    /\ nextMetric \notin Metrics
    /\ handed' = MetricsSent
    /\ fMetricsRoot' = <<>> /\ fCurrentMetricsPending' = 0
    /\ SendMayFail
    /\ workAt' = "logs"
    /\ UNCHANGED <<signalVars, forwardingVars, threadVars, nextMetric>>

\* The logs are sent when their time has come or at the end.
DueLogs ==
    /\ workAt = "logs" /\ logAt[Worker] = "out"
    /\ workAt' \in (IF fShouldStop THEN {"flush"} ELSE {"flush", "loop"})
    /\ nextMetric' = 1 /\ handed' = NoneHanded
    /\ UNCHANGED <<signalVars, logVars, threadVars, fMetricsRoot, fCurrentMetricsPending, failures>>

\* sendLogsOut by the worker, which does not hold gLogForwardingMutex: another
\* thread may add a message between the critical section and the send.
WorkerFlushes ==
    /\ workAt = "flush"
    /\ initLogStructure
    /\ workAt' = "sendLogs"
    /\ UNCHANGED <<signalVars, gLogForwarder, holder, logAt, entry, metricVars, threadVars, failures>>

WorkerSendsLogs ==
    /\ workAt = "sendLogs"
    /\ \/ fCurrentUserPayloadInLogRoot > 0 /\ LogFailure
       \/ UNCHANGED <<failures, entry, logAt>>
    /\ workAt' = "loop"
    /\ UNCHANGED <<signalVars, forwardingVars, metricVars, threadVars>>

\* After doWork: the thread is done, then mTerminateSignal says so.
Finish ==
    /\ workAt = "finish" /\ logAt[Worker] = "out"
    /\ mDone' = TRUE
    /\ workAt' = "signal"
    /\ UNCHANGED <<signalVars, logVars, metricVars, fThread, terminated, fShouldStop, failures>>

SignalTermination ==
    /\ workAt = "signal"
    /\ terminated' = TRUE
    /\ workAt' = "none"
    /\ UNCHANGED <<signalVars, logVars, metricVars, fThread, mDone, fShouldStop, failures>>

WorkerStep ==
    /\ \/ WorkerBegins \/ Loop \/ Waiting \/ Woken \/ setMetric \/ sendMetricsOut
       \/ DueLogs \/ WorkerFlushes \/ WorkerSendsLogs \/ Finish \/ SignalTermination
    /\ UNCHANGED <<stopAt, entries>>

-----------------------------------------------------------------------------
\* What Main calls.

setLogForwarding(forward) ==
    /\ holder = Nobody
    /\ gLogForwarder' = forward
    /\ UNCHANGED <<signalVars, holder, logAt, entry, fLogRoot, fCurrentUserPayloadInLogRoot,
                   metricVars, threadVars, workAt, stopAt, entries, failures>>

\* start() creates the thread if there is a sender; creating it may fail.
start(hasSender) ==
    /\ IF hasSender
       THEN /\ fShouldStop' = FALSE /\ mDone' = FALSE
            /\ \/ fThread' = TRUE /\ workAt' = "begin"
               \/ UNCHANGED <<fThread, workAt>>
       ELSE UNCHANGED <<fShouldStop, mDone, fThread, workAt>>
    /\ UNCHANGED <<signalVars, logVars, metricVars, terminated, stopAt, entries, failures>>

isAlive == fThread /\ ~mDone

StopUnchanged == UNCHANGED <<gLogForwarder, holder, logAt, entry, workAt, nextMetric, handed, entries, failures>>

\* Mutant: the thread is told to stop but not woken.
RequestStopSilent ==
    /\ stopAt = "out" /\ isAlive
    /\ fShouldStop' = TRUE
    /\ stopAt' = "notify"
    /\ StopUnchanged
    /\ UNCHANGED <<signalVars, fLogRoot, fCurrentUserPayloadInLogRoot, fMetricsRoot,
                   fCurrentMetricsPending, fThread, mDone, terminated>>

\* stop(): ask the thread to end and wake it ...
RequestStop ==
    /\ stopAt = "out" /\ isAlive
    /\ fShouldStop' = TRUE
    /\ stopAt' = "notify"
    /\ NotifyCall(Main)
    /\ StopUnchanged
    /\ UNCHANGED <<fLogRoot, fCurrentUserPayloadInLogRoot, fMetricsRoot, fCurrentMetricsPending,
                   fThread, mDone, terminated>>

NotifyWorker ==
    /\ stopAt = "notify"
    /\ \/ NotifyStep(Main) /\ UNCHANGED <<stopAt, mDone>>
       \/ /\ notifyAt[Main] = "out"
          /\ mDone' = TRUE              \* release() marks the thread done, then waits
          /\ stopAt' = "release"
          /\ UNCHANGED signalVars
    /\ StopUnchanged
    /\ UNCHANGED <<fLogRoot, fCurrentUserPayloadInLogRoot, fMetricsRoot, fCurrentMetricsPending,
                   fThread, terminated, fShouldStop>>

\* ... wait for its termination signal and join it ...
Release ==
    /\ stopAt = "release" /\ terminated
    /\ terminated' = FALSE /\ fThread' = FALSE
    /\ stopAt' = "clear"
    /\ StopUnchanged
    /\ UNCHANGED <<signalVars, fLogRoot, fCurrentUserPayloadInLogRoot, fMetricsRoot,
                   fCurrentMetricsPending, mDone, fShouldStop>>

\* ... and clear, without loggingMutex, what the logging threads write under it.
ClearRoot ==
    /\ stopAt = "clear"
    /\ fLogRoot' = <<>>
    /\ stopAt' = "cleared"
    /\ StopUnchanged
    /\ UNCHANGED <<signalVars, fCurrentUserPayloadInLogRoot, fMetricsRoot,
                   fCurrentMetricsPending, threadVars>>

ClearPayload ==
    /\ stopAt = "cleared"
    /\ fCurrentUserPayloadInLogRoot' = 0 /\ fMetricsRoot' = <<>>
    /\ fShouldStop' = FALSE
    /\ stopAt' = "out"
    /\ StopUnchanged
    /\ UNCHANGED <<signalVars, fLogRoot, fCurrentMetricsPending, fThread, mDone, terminated>>

StopStep == RequestStop \/ NotifyWorker \/ Release \/ ClearRoot \/ ClearPayload

\* The worker wakes from its wait for no reason.
Spurious ==
    /\ WaitSpurious(Worker)
    /\ UNCHANGED <<logVars, metricVars, threadVars, workAt, stopAt, entries, failures>>

ProfilerNext ==
    \/ \E t \in Loggers : /\ Log(t)
                          /\ UNCHANGED <<signalVars, metricVars, threadVars, workAt, stopAt, failures>>
    \/ \E t \in LogThreads : LogStep(t)
    \/ WorkerStep
    \/ Spurious

-----------------------------------------------------------------------------
\* The bytes counted for the log structure are the bytes in it, which stop() clears both
\* without loggingMutex (RemoteProfiler.cpp:198).
PayloadCounted == stopAt # "cleared" => fCurrentUserPayloadInLogRoot = Bytes(fLogRoot)

\* They stay under the limit of one upload unless a single message is larger, although a
\* message that did not fit is added without a second look (RemoteProfiler.cpp:119).
UploadBounded ==
    stopAt # "cleared" => fCurrentUserPayloadInLogRoot <= MaxBytes \/ Len(fLogRoot) = 1

LogRootSound == PayloadCounted /\ UploadBounded

\* No thread waits for gLogForwardingMutex while it holds it.
NoSelfDeadlock == \A t \in LogThreads : ~(logAt[t] = "forward" /\ holder = t)

\* Property.  Logging is safe from every thread at every moment (RemoteProfiler.h
\* "Can be called from multiple threads"): the log structure is sound, and the send
\* of the logs, which logMessage reaches under gLogForwardingMutex and which logs its
\* own failure (ConsoleLogger.cpp:54, RemoteProfiler.cpp:76), never happens there.
LoggingSafe == LogRootSound /\ NoSelfDeadlock

\* Property.  In a round every metric collected so far is pending or sent, once:
\* the batches cut in setMetric lose and repeat none (RemoteProfiler.cpp:128).
MetricsOnce ==
    workAt \in {"metrics", "logs"} =>
        \A m \in Metrics : m < nextMetric => handed[m] + InRoot(m) = 1

\* Property.  The log structure of several threads stays as it is counted and bounded, no thread
\* blocks itself on the mutex of the forwarding, and each metric of a round goes into a send once
\* (RemoteProfiler.cpp:119, :128). Whether the send succeeds, and the logs that the flush at stop
\* discards, are no part of it.
ProfilerSound == LoggingSafe /\ MetricsOnce
=============================================================================
