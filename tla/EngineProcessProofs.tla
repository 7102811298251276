------------------------- MODULE EngineProcessProofs -------------------------
(***************************************************************************)
(* The life of the process proved: first what a Signal guarantees for any  *)
(* number of waiting and notifying threads (no notification is slept       *)
(* through, it implements the latch its users take it for), then that the  *)
(* threads and listeners of the engine are released in an order that fits  *)
(* the members' destruction, wherever connect() or disconnect() gave up,   *)
(* and that the profiler's threads neither block themselves on the mutex   *)
(* of the log forwarding nor lose a metric or miscount a log's bytes.      *)
(* The first part cites none of the assumptions of the modules it shares   *)
(* this one with: it holds for any Waiters and Notifiers.                  *)
(***************************************************************************)
EXTENDS EngineProcess, FiniteSetTheorems, SequenceTheorems, WellFoundedInduction, TLAPS

-----------------------------------------------------------------------------
(* A Signal *)

\* Property.  Where a thread is in wait() agrees with what it asked wait() for
\* (Signal.h:62-78): only a timed wait expires, and only once it is awake again.
WaitsAgree ==
  \A w \in Waiters :
     /\ (waitAt[w] = "out") <=> (waitFor[w] = "none")
     /\ w \in expired => waitFor[w] = "timed" /\ waitAt[w] = "woken"

\* The strengthening: the refinement needs to know why a thread leaves wait().
SignalInv == SignalTypeOK /\ WaitsAgree

-----------------------------------------------------------------------------
\* Lemma.  A thread that leaves wait() leaves nothing behind (Signal.h:75-77).
LEMMA LeaveKeepsInv ==
  ASSUME NEW w \in Waiters, SignalInv, LeaveWait(w), UNCHANGED notifyAt
  PROVE  SignalInv'
<1> USE DEF SignalInv, LeaveWait
<1>1. SignalTypeOK'
  BY DEF SignalTypeOK, WaitPlaces
<1>2. WaitsAgree'
  BY DEF WaitsAgree, SignalTypeOK
<1> QED BY <1>1, <1>2

\* Lemma.  A thread that sleeps again has asked for a wait and not expired.
LEMMA SleepKeepsInv ==
  ASSUME NEW w \in Waiters, SignalInv, waitAt[w] # "out", w \notin expired,
         waitAt' = [waitAt EXCEPT ![w] = "asleep"],
         UNCHANGED <<mNotify, waitFor, expired, notifyAt>>
  PROVE  SignalInv'
<1>1. SignalTypeOK'
  BY DEF SignalInv, SignalTypeOK, WaitPlaces
<1>2. WaitsAgree'
  BY DEF SignalInv, WaitsAgree, SignalTypeOK
<1> QED BY <1>1, <1>2 DEF SignalInv

\* Lemma.  A signal starts without a notification and without a waiter.
LEMMA SignalInvInit == SignalInit => SignalInv
BY DEF SignalInit, SignalInv, SignalTypeOK, WaitsAgree, WaitPlaces

\* Lemma.  Every step of a waiter or a notifier keeps the strengthening.
LEMMA SignalInvStep == SignalInv /\ [SignalNext]_signalVars => SignalInv'
<1> SUFFICES ASSUME SignalInv, [SignalNext]_signalVars
             PROVE  SignalInv'
  OBVIOUS
<1>1. ASSUME NEW n \in Notifiers, NotifyCall(n) \/ NotifySet(n)
      PROVE  SignalInv'
  BY <1>1 DEF SignalInv, SignalTypeOK, WaitsAgree, WaitPlaces, NotifyCall, NotifySet
<1>2. ASSUME NEW n \in Notifiers, NotifyOne(n)
      PROVE  SignalInv'
  <2>1. CASE UNCHANGED waitAt
    BY <1>2, <2>1 DEF SignalInv, SignalTypeOK, WaitsAgree, NotifyOne
  <2>2. CASE \E w \in Waiters : /\ waitAt[w] = "asleep"
                                /\ waitAt' = [waitAt EXCEPT ![w] = "woken"]
    <3>1. PICK w \in Waiters : /\ waitAt[w] = "asleep"
                               /\ waitAt' = [waitAt EXCEPT ![w] = "woken"]
      BY <2>2
    <3>2. SignalTypeOK'
      BY <1>2, <3>1 DEF SignalInv, SignalTypeOK, WaitPlaces, NotifyOne
    <3>3. WaitsAgree'
      BY <1>2, <3>1 DEF SignalInv, SignalTypeOK, WaitsAgree, NotifyOne
    <3> QED BY <3>2, <3>3 DEF SignalInv
  <2> QED BY <1>2, <2>1, <2>2 DEF NotifyOne
<1>3. ASSUME NEW w \in Waiters, NEW m \in {"predicate", "timed"}, WaitCall(w, m)
      PROVE  SignalInv'
  <2>1. SignalTypeOK'
    BY <1>3 DEF SignalInv, SignalTypeOK, WaitPlaces, WaitCall
  <2>2. WaitsAgree'
    BY <1>3 DEF SignalInv, SignalTypeOK, WaitsAgree, WaitCall
  <2> QED BY <2>1, <2>2 DEF SignalInv
<1>4. ASSUME NEW w \in Waiters, WaitEnter(w)
      PROVE  SignalInv'
  <2>1. CASE LeaveWait(w)
    BY <1>4, <2>1, LeaveKeepsInv DEF WaitEnter
  <2>2. CASE ~mNotify /\ ~LeaveWait(w)
    <3>1. waitAt[w] # "out" /\ w \notin expired
      BY <1>4 DEF WaitEnter, SignalInv, WaitsAgree
    <3> QED BY <1>4, <2>2, <3>1, SleepKeepsInv DEF WaitEnter
  <2> QED BY <1>4, <2>1, <2>2 DEF WaitEnter
<1>5. ASSUME NEW w \in Waiters, WaitTimeout(w) \/ WaitSpurious(w)
      PROVE  SignalInv'
  <2>1. SignalTypeOK'
    BY <1>5 DEF SignalInv, SignalTypeOK, WaitPlaces, WaitTimeout, WaitSpurious
  <2>2. WaitsAgree'
    BY <1>5 DEF SignalInv, SignalTypeOK, WaitsAgree, WaitTimeout, WaitSpurious
  <2> QED BY <2>1, <2>2 DEF SignalInv
<1>6. ASSUME NEW w \in Waiters, WaitRecheck(w)
      PROVE  SignalInv'
  <2>1. CASE LeaveWait(w)
    BY <1>6, <2>1, LeaveKeepsInv DEF WaitRecheck
  <2>2. CASE ~LeaveWait(w)
    BY <1>6, <2>2, SleepKeepsInv DEF WaitRecheck
  <2> QED BY <2>1, <2>2
<1>7. CASE UNCHANGED signalVars
  BY <1>7 DEF SignalInv, SignalTypeOK, WaitsAgree, signalVars
<1> QED
  BY <1>1, <1>2, <1>3, <1>4, <1>5, <1>6, <1>7 DEF SignalNext, WaitStep, NotifyStep

\* Theorem.  The type invariant and the agreement of a wait with its place hold in
\* every state, for any threads (Signal.h).
THEOREM SignalInvariant == SignalSpec => []SignalInv
<1>1. SignalInv /\ [SignalNext]_signalVars => SignalInv'
  BY SignalInvStep
<1> QED BY <1>1, SignalInvInit, PTL DEF SignalSpec

-----------------------------------------------------------------------------
\* Lemma.  No step puts a thread to sleep on a pending notification unless a
\* notify() is still to wake one or another thread has yet to look.
LEMMA WakeupStep ==
  SignalInv /\ NoLostWakeup /\ [SignalNext]_signalVars => NoLostWakeup'
<1> SUFFICES ASSUME SignalInv, NoLostWakeup, [SignalNext]_signalVars
             PROVE  NoLostWakeup'
  OBVIOUS
<1> USE DEF SignalInv, SignalTypeOK
<1>1. ASSUME NEW n \in Notifiers, NotifyCall(n) \/ NotifySet(n)
      PROVE  NoLostWakeup'
  BY <1>1 DEF NoLostWakeup, NotifyCall, NotifySet
<1>2. ASSUME NEW n \in Notifiers, NotifyOne(n)
      PROVE  NoLostWakeup'
  BY <1>2 DEF NoLostWakeup, NotifyOne
<1>3. ASSUME NEW w \in Waiters, NEW m \in {"predicate", "timed"}, WaitCall(w, m)
      PROVE  NoLostWakeup'
  BY <1>3 DEF NoLostWakeup, WaitCall
<1>4. ASSUME NEW w \in Waiters, WaitEnter(w)
      PROVE  NoLostWakeup'
  BY <1>4 DEF NoLostWakeup, WaitEnter, LeaveWait
<1>5. ASSUME NEW w \in Waiters, WaitTimeout(w) \/ WaitSpurious(w)
      PROVE  NoLostWakeup'
  BY <1>5 DEF NoLostWakeup, WaitTimeout, WaitSpurious
<1>6. ASSUME NEW w \in Waiters, WaitRecheck(w)
      PROVE  NoLostWakeup'
  BY <1>6 DEF NoLostWakeup, WaitRecheck, LeaveWait
<1>7. CASE UNCHANGED signalVars
  BY <1>7 DEF NoLostWakeup, signalVars
<1> QED
  BY <1>1, <1>2, <1>3, <1>4, <1>5, <1>6, <1>7 DEF SignalNext, WaitStep, NotifyStep

\* Theorem.  No notification is slept through, however many threads wait, notify
\* and wake up for nothing (Signal.h:51-58, :62-78).
THEOREM NoLostWakeupHolds == SignalSpec => []NoLostWakeup
<1>1. SignalInit => NoLostWakeup
  BY DEF SignalInit, NoLostWakeup
<1>2. SignalInv /\ NoLostWakeup /\ [SignalNext]_signalVars => NoLostWakeup'
  BY WakeupStep
<1> QED BY <1>1, <1>2, SignalInvariant, PTL DEF SignalSpec

-----------------------------------------------------------------------------
\* Lemma.  Leaving wait() is what the latch allows: taking it, or a timeout of a
\* timed wait while it is not set.
LEMMA LeaveIsLatchStep ==
  ASSUME NEW w \in Waiters, SignalInv, LeaveWait(w), waitAt[w] # "out",
         mNotify \/ w \in expired
  PROVE  L!LatchNext
<1>1. waitFor[w] # "none"
  BY DEF SignalInv, WaitsAgree
<1>2. CASE mNotify
  <2>1. L!Take(w)
    BY <1>1, <1>2 DEF L!Take, LeaveWait
  <2> QED BY <2>1 DEF L!LatchNext
<1>3. CASE ~mNotify
  <2>1. waitFor[w] = "timed"
    BY <1>3 DEF SignalInv, WaitsAgree
  <2>2. mNotify' = mNotify
    BY <1>3 DEF LeaveWait, SignalInv, SignalTypeOK
  <2>3. L!Expire(w)
    BY <1>3, <2>1, <2>2 DEF L!Expire, LeaveWait
  <2> QED BY <2>3 DEF L!LatchNext
<1> QED BY <1>2, <1>3

\* Lemma.  Every step of a Signal is a step of the latch or changes nothing of it.
LEMMA SignalStepIsLatchStep ==
  SignalInv /\ [SignalNext]_signalVars => [L!LatchNext]_(L!latchVars)
<1> SUFFICES ASSUME SignalInv, [SignalNext]_signalVars
             PROVE  L!LatchNext \/ UNCHANGED <<mNotify, waitFor>>
  BY DEF L!latchVars
<1>1. ASSUME NEW n \in Notifiers, NotifySet(n)
      PROVE  L!LatchNext
  BY <1>1 DEF NotifySet, L!LatchNext, L!Notify
<1>2. ASSUME NEW n \in Notifiers, NotifyCall(n) \/ NotifyOne(n)
      PROVE  UNCHANGED <<mNotify, waitFor>>
  BY <1>2 DEF NotifyCall, NotifyOne
<1>3. ASSUME NEW w \in Waiters, NEW m \in {"predicate", "timed"}, WaitCall(w, m)
      PROVE  L!LatchNext
  <2>1. waitFor[w] = "none"
    BY <1>3 DEF SignalInv, WaitsAgree, WaitCall
  <2>2. L!Begin(w)
    BY <1>3, <2>1 DEF WaitCall, L!Begin, L!Waits
  <2> QED BY <2>2 DEF L!LatchNext
<1>4. ASSUME NEW w \in Waiters, WaitEnter(w) \/ WaitRecheck(w)
      PROVE  L!LatchNext \/ UNCHANGED <<mNotify, waitFor>>
  <2>1. waitAt[w] # "out"
    BY <1>4 DEF WaitEnter, WaitRecheck
  <2>2. CASE LeaveWait(w) /\ (mNotify \/ w \in expired)
    BY <2>1, <2>2, LeaveIsLatchStep
  <2> QED BY <1>4, <2>2 DEF WaitEnter, WaitRecheck
<1>5. ASSUME NEW w \in Waiters, WaitTimeout(w) \/ WaitSpurious(w)
      PROVE  UNCHANGED <<mNotify, waitFor>>
  BY <1>5 DEF WaitTimeout, WaitSpurious
<1>6. CASE UNCHANGED signalVars
  BY <1>6 DEF signalVars
<1> QED
  BY <1>1, <1>2, <1>3, <1>4, <1>5, <1>6 DEF SignalNext, WaitStep, NotifyStep

\* Theorem.  A Signal implements the latch its users take it for: no interleaving
\* of its critical sections, wakeups and timeouts does what a latch does not.
THEOREM SignalImplementsLatch == SignalSpec => ImplementsLatch
<1>1. SignalInit => L!LatchInit
  BY DEF SignalInit, L!LatchInit
<1>2. SignalInv /\ [SignalNext]_signalVars => [L!LatchNext]_(L!latchVars)
  BY SignalStepIsLatchStep
<1> QED
  BY <1>1, <1>2, SignalInvariant, PTL DEF SignalSpec, ImplementsLatch, L!LatchSpec

-----------------------------------------------------------------------------
(* The process *)

Places == {"iot", "profiler", "forward", "inspection", "schema", "csm", "binder", "obd",
           "startCsm", "dds", "startDDS", "start", "run", "unlistenDDS", "stopDDS", "stopObd",
           "stopInspection", "unforward", "stopProfiler", "stopCsm", "stopBinder", "destructor",
           "members", "exited", "crashed", "stuck"}
MemberSet == {"dds", "profiler", "inspection", "csm", "schema", "iot", "obd", "binder"}

\* The members go in the order of Members: each after those before it.
GoneInOrder(d) ==
    /\ d \subseteq MemberSet
    /\ "profiler" \in d => "dds" \in d
    /\ "inspection" \in d => "profiler" \in d
    /\ "csm" \in d => "inspection" \in d
    /\ "schema" \in d => "csm" \in d
    /\ "iot" \in d => "schema" \in d
    /\ "obd" \in d => "iot" \in d
    /\ "binder" \in d => "obd" \in d

Listening == {<<"inspection", "engine">>, <<"iot", "schema">>, <<"schema", "csm">>,
              <<"csm", "inspection">>, <<"csm", "obd">>, <<"csm", "binder">>,
              <<"inspection", "dds">>}

ProcessTypeOK ==
    /\ main \in Places
    /\ failed \in BOOLEAN
    /\ alive \subseteq {"iot", "inspection", "binder", "obd", "csm", "engine"}
    /\ listeners \subseteq Listening

\* What listens before the manager's thread is started, step by step.
ListenersReady ==
    /\ main \in {"binder", "obd", "startCsm"}
           => {<<"schema", "csm">>, <<"csm", "inspection">>} \subseteq listeners
    /\ main = "startCsm" /\ config.obd => <<"csm", "obd">> \in listeners
    /\ AllSubscribed

\* What an orderly stop has ended by the time it reaches a later step.
StoppedInOrder ==
    /\ main \in {"unforward", "stopProfiler", "stopCsm", "stopBinder", "destructor", "members", "exited",
                "stuck"} => failed \/ "inspection" \notin alive
    /\ main \in {"stopBinder", "destructor", "members", "exited", "stuck"}
           => failed \/ "csm" \notin alive
    /\ main \in {"members", "exited", "stuck"} => "engine" \notin alive

\* What is gone is gone for good, and took its threads with it.
GoneForGood ==
    /\ GoneInOrder(destroyed)
    /\ destroyed # {} => main \in {"members", "exited", "stuck"}
    /\ main = "exited" => destroyed = MemberSet
    /\ destroyed \cap alive = {}
    /\ "dds" \in destroyed => \A t \in DDSThreads : ddsAt[t] = "none"
    /\ "profiler" \in destroyed => ~fThread

\* From the end of the forwarding on no thread is in the log forwarding.
ForwardingOver ==
    main \in {"stopProfiler", "stopCsm", "stopBinder", "members", "exited", "stuck"}
        => ~gLogForwarder /\ holder = Nobody

\* Where stop() is agrees with the thread it ends, and with where main() calls it.
ThreadInv ==
    /\ stopAt \in {"out", "notify", "release", "clear", "cleared"}
    /\ workAt \in {"none", "begin", "loop", "waiting", "metrics", "logs", "flush", "sendLogs",
                   "finish", "signal"}
    /\ fThread \in BOOLEAN /\ mDone \in BOOLEAN /\ terminated \in BOOLEAN /\ fShouldStop \in BOOLEAN
    /\ main \in {"iot", "profiler"} => ~fThread
    /\ stopAt # "out" => main = "stopProfiler" \/ (main = "members" /\ "profiler" \notin destroyed)
    /\ stopAt \in {"notify", "release"} => fThread
    /\ stopAt \in {"clear", "cleared"} => ~fThread
    /\ ~fThread => workAt = "none" /\ ~terminated
    /\ terminated => workAt = "none"
    /\ stopAt = "out" /\ fThread =>
           /\ ~mDone /\ ~fShouldStop
           /\ workAt \notin {"none", "finish", "signal"}

\* The mutex of the forwarding is held by the thread that is past its door, and nothing comes
\* into the log structure while a thread sends what was in it.
LogInv ==
    /\ gLogForwarder \in BOOLEAN
    /\ logAt \in [LogThreads -> {"out", "forward", "add", "flush", "send", "append"}]
    /\ entry \in [LogThreads -> Nat]
    /\ fLogRoot \in Seq(Nat) /\ fCurrentUserPayloadInLogRoot \in Nat
    /\ holder \in LogThreads \cup {Nobody}
    /\ \A t \in LogThreads : logAt[t] \in {"add", "flush", "send", "append"} <=> holder = t
    /\ \A t \in LogThreads : logAt[t] \in {"send", "append"}
                               => fLogRoot = <<>> /\ fCurrentUserPayloadInLogRoot = 0
    /\ workAt \in {"flush", "sendLogs"} => logAt[Worker] = "out"
    /\ UploadBounded

\* The counter of the log structure is right outside of the two steps that clear it, and in
\* between the structure stays as empty as the first of them left it.
CountInv ==
    /\ PayloadCounted
    /\ stopAt = "cleared" => fLogRoot = <<>>

\* Among the metrics of the round those before nextMetric are handed over, but for the last
\* fCurrentMetricsPending ones, which stand in fMetricsRoot in their order.
MetricsInv ==
    /\ nextMetric \in 1 .. MetricCount + 1
    /\ fCurrentMetricsPending \in 0 .. nextMetric - 1
    /\ DOMAIN fMetricsRoot = 1 .. fCurrentMetricsPending
    /\ \A k \in 1 .. fCurrentMetricsPending :
           fMetricsRoot[k] = nextMetric - 1 - fCurrentMetricsPending + k
    /\ handed = [m \in Metrics |-> IF m < nextMetric - fCurrentMetricsPending THEN 1 ELSE 0]
    /\ workAt # "metrics" => fCurrentMetricsPending = 0
    /\ workAt \notin {"metrics", "logs"} => nextMetric = 1

ProcessInv ==
    /\ ProcessTypeOK
    /\ ListenersReady /\ StoppedInOrder
    /\ GoneForGood /\ ForwardingOver

IInv == ProcessInv /\ ThreadInv /\ LogInv /\ CountInv /\ MetricsInv

-----------------------------------------------------------------------------
(* The order of the members *)

\* Lemma.  Where each member stands in the order of destruction (IoTFleetWiseEngine.h:143).
LEMMA MemberPositions ==
  /\ DOMAIN Members = 1 .. 8
  /\ {Members[i] : i \in DOMAIN Members} = MemberSet
  /\ Position("dds") = 1 /\ Position("profiler") = 2 /\ Position("inspection") = 3
  /\ Position("csm") = 4 /\ Position("schema") = 5 /\ Position("iot") = 6
  /\ Position("obd") = 7 /\ Position("binder") = 8
<1>1. DOMAIN Members = 1 .. 8
  BY DEF Members
<1>2. /\ Members[1] = "dds" /\ Members[2] = "profiler" /\ Members[3] = "inspection"
      /\ Members[4] = "csm" /\ Members[5] = "schema" /\ Members[6] = "iot"
      /\ Members[7] = "obd" /\ Members[8] = "binder"
  BY DEF Members
<1>3. \A i \in 1 .. 8 : i = 1 \/ i = 2 \/ i = 3 \/ i = 4 \/ i = 5 \/ i = 6 \/ i = 7 \/ i = 8
  BY SMT
<1>4. {Members[i] : i \in 1 .. 8} = MemberSet
  BY <1>2, <1>3 DEF MemberSet
<1>5. ASSUME NEW k \in 1 .. 8
      PROVE  Position(Members[k]) = k
  <2>1. \A i \in DOMAIN Members : Members[i] = Members[k] <=> i = k
    BY <1>1, <1>2, <1>3
  <2> QED BY <1>1, <2>1 DEF Position
<1> QED BY <1>1, <1>2, <1>4, <1>5

\* Lemma.  The member that goes next is one that is not gone, and the first of these.
LEMMA NextMemberIs ==
  ASSUME GoneInOrder(destroyed), ~AllDestroyed
  PROVE  /\ NextMember \in MemberSet \ destroyed
         /\ GoneInOrder(destroyed \cup {NextMember})
<1> DEFINE Left == MemberSet \ destroyed
<1>1. Left # {}
  BY MemberPositions DEF AllDestroyed, GoneInOrder
<1>2. \E m \in Left : \A n \in Left : Position(m) <= Position(n)
  <2>1. PICK m \in Left : TRUE
    BY <1>1
  <2> QED
    BY <2>1, MemberPositions DEF GoneInOrder, MemberSet
<1>3. NextMember \in Left /\ \A n \in Left : Position(NextMember) <= Position(n)
  BY <1>2, MemberPositions DEF NextMember
<1>4. GoneInOrder(destroyed \cup {NextMember})
  <2> DEFINE next == NextMember
  <2>1. next \in Left /\ \A n \in Left : Position(next) <= Position(n)
    BY <1>3
  <2> HIDE DEF next
  <2>2. GoneInOrder(destroyed \cup {next})
    BY <2>1, MemberPositions DEF GoneInOrder, MemberSet
  <2> QED BY <2>2 DEF next
<1> QED BY <1>3, <1>4

-----------------------------------------------------------------------------
(* Frames *)

\* Lemma.  What a step that leaves the profiler alone leaves alone.
LEMMA ProfilerIdle ==
  ASSUME UNCHANGED profilerVars
  PROVE  /\ UNCHANGED gLogForwarder /\ UNCHANGED holder /\ UNCHANGED logAt /\ UNCHANGED entry
         /\ UNCHANGED fLogRoot /\ UNCHANGED fCurrentUserPayloadInLogRoot
         /\ UNCHANGED fMetricsRoot /\ UNCHANGED fCurrentMetricsPending
         /\ UNCHANGED nextMetric /\ UNCHANGED handed
         /\ UNCHANGED fThread /\ UNCHANGED mDone /\ UNCHANGED terminated /\ UNCHANGED fShouldStop
         /\ UNCHANGED workAt /\ UNCHANGED stopAt
BY DEF profilerVars, logVars, metricVars, threadVars

\* Lemma.  Only StartThread, JoinThread and a thread's own steps move a thread of the camera
\* modules, and its own steps do not begin or end at "none" (DataOverDDS).
LEMMA NoneStaysNone ==
  ASSUME NEW t \in DDSThreads, NEW locked, DDSStepOf(t, locked), \A u \in DDSThreads : ddsAt[u] = "none"
  PROVE  FALSE
<1>1. Module \in DDSThreads /\ \A s \in Sources : Pub(s) \in DDSThreads /\ Sub(s) \in DDSThreads
  BY DEF DDSThreads
<1> QED
  BY <1>1 DEF DDSStepOf, Begin, LoopOrEnd, Wake, RequestSources, ResetEvent, SendRequest,
              PersistAnswer, ResetResponse

\* Lemma.  A step of the profiler's threads keeps its thread valid, and when nothing is
\* forwarded any more and nobody is in the forwarding, nobody gets in.
LEMMA ProfilerStepFrame ==
  ASSUME ProfilerNext
  PROVE  /\ UNCHANGED fThread /\ UNCHANGED stopAt /\ UNCHANGED gLogForwarder
         /\ ~gLogForwarder /\ holder = Nobody => holder' = Nobody
<1>1. ASSUME NEW t \in Loggers, Log(t), UNCHANGED <<signalVars, metricVars, threadVars, workAt, stopAt, failures>>
      PROVE  UNCHANGED <<fThread, stopAt, gLogForwarder, holder>>
  BY <1>1 DEF Log, threadVars
<1>2. ASSUME NEW t \in LogThreads, LogStep(t)
      PROVE  /\ UNCHANGED <<fThread, stopAt, gLogForwarder>>
             /\ ~gLogForwarder => holder' \in {holder, Nobody}
  BY <1>2 DEF LogStep, forwardLog, logMessage, FlushLogs, SendLogs, AppendLog, AddEntry, threadVars
<1>3. ASSUME WorkerStep
      PROVE  UNCHANGED <<fThread, stopAt, gLogForwarder, holder>>
  BY <1>3 DEF WorkerStep, WorkerBegins, Loop, Waiting, Woken, setMetric, sendMetricsOut, DueLogs,
              WorkerFlushes, WorkerSendsLogs, Finish, SignalTermination, threadVars, logVars,
              forwardingVars
<1>4. ASSUME Spurious
      PROVE  UNCHANGED <<fThread, stopAt, gLogForwarder, holder>>
  BY <1>4 DEF Spurious, threadVars, logVars
<1> QED BY <1>1, <1>2, <1>3, <1>4 DEF ProfilerNext

-----------------------------------------------------------------------------
(* The order in which things are released *)

\* Lemma.  Before the process starts nothing is constructed, stopped or gone.
LEMMA ProcessInvInit == Init => ProcessInv
BY DEF Init, ProfilerInit, ProcessInv, ProcessTypeOK, Places, ListenersReady, AllSubscribed,
       StoppedInOrder, GoneForGood, GoneInOrder, ForwardingOver

\* Lemma.  Until the members go, a step of the main thread need not be looked at for them.
LEMMA NothingGoneYet ==
  ASSUME ProcessInv, main \notin {"members", "exited", "stuck"}, UNCHANGED destroyed, main' # "exited"
  PROVE  GoneForGood'
BY DEF ProcessInv, GoneForGood, GoneInOrder

\* Lemma.  The steps of connect(), of the stop and of disconnect().
LEMMA ConnectDisconnectStep ==
  ASSUME ProcessInv, ThreadInv, MainStep \/ StopEngine, ~DestructorStops, ~DestroyMember,
         ~SubscriptionHangs, ~Exit
  PROVE  ProcessInv'
<1> DEFINE Calm == ProcessTypeOK' /\ ListenersReady' /\ StoppedInOrder'
<1>0. ASSUME main \notin {"members", "exited", "stuck"}, UNCHANGED destroyed, main' # "exited",
             Calm, ForwardingOver'
      PROVE  ProcessInv'
  BY <1>0, NothingGoneYet DEF ProcessInv
<1> USE DEF Then, Fail, Listen, Idle
<1>1. CASE ConnectIot
  <2>1. main \notin {"members", "exited", "stuck"} /\ UNCHANGED destroyed /\ main' # "exited"
    BY <1>1 DEF ConnectIot
  <2>2. Calm
    BY <1>1 DEF ConnectIot, ProcessInv, ProcessTypeOK, Places, ListenersReady, AllSubscribed, StoppedInOrder, Listening
  <2>3. ForwardingOver'
    BY <1>1, ProfilerIdle DEF ConnectIot, ProcessInv, ForwardingOver
  <2> QED BY <1>0, <2>1, <2>2, <2>3
<1>2. CASE StartProfiler
  <2>1. main \notin {"members", "exited", "stuck"} /\ UNCHANGED destroyed /\ main' # "exited"
    BY <1>2 DEF StartProfiler
  <2>2. Calm
    BY <1>2 DEF StartProfiler, ProcessInv, ProcessTypeOK, Places, ListenersReady, AllSubscribed, StoppedInOrder, Listening
  <2>3. ForwardingOver'
    BY <1>2, ProfilerIdle DEF StartProfiler, ProcessInv, ForwardingOver, start
  <2> QED BY <1>0, <2>1, <2>2, <2>3
<1>3. CASE ForwardLogs
  <2>1. main \notin {"members", "exited", "stuck"} /\ UNCHANGED destroyed /\ main' # "exited"
    BY <1>3 DEF ForwardLogs
  <2>2. Calm
    BY <1>3 DEF ForwardLogs, ProcessInv, ProcessTypeOK, Places, ListenersReady, AllSubscribed, StoppedInOrder, Listening
  <2>3. ForwardingOver'
    BY <1>3, ProfilerIdle DEF ForwardLogs, ProcessInv, ForwardingOver, setLogForwarding
  <2> QED BY <1>0, <2>1, <2>2, <2>3
<1>4. CASE StartInspection
  <2>1. main \notin {"members", "exited", "stuck"} /\ UNCHANGED destroyed /\ main' # "exited"
    BY <1>4 DEF StartInspection
  <2>2. Calm
    BY <1>4 DEF StartInspection, ProcessInv, ProcessTypeOK, Places, ListenersReady, AllSubscribed, StoppedInOrder, Listening
  <2>3. ForwardingOver'
    BY <1>4, ProfilerIdle DEF StartInspection, ProcessInv, ForwardingOver
  <2> QED BY <1>0, <2>1, <2>2, <2>3
<1>5. CASE CreateSchema
  <2>1. main \notin {"members", "exited", "stuck"} /\ UNCHANGED destroyed /\ main' # "exited"
    BY <1>5 DEF CreateSchema
  <2>2. Calm
    BY <1>5 DEF CreateSchema, ProcessInv, ProcessTypeOK, Places, ListenersReady, AllSubscribed, StoppedInOrder, Listening
  <2>3. ForwardingOver'
    BY <1>5, ProfilerIdle DEF CreateSchema, ProcessInv, ForwardingOver
  <2> QED BY <1>0, <2>1, <2>2, <2>3
<1>6. CASE CreateManager
  <2>1. main \notin {"members", "exited", "stuck"} /\ UNCHANGED destroyed /\ main' # "exited"
    BY <1>6 DEF CreateManager
  <2>2. Calm
    BY <1>6 DEF CreateManager, ProcessInv, ProcessTypeOK, Places, ListenersReady, AllSubscribed, StoppedInOrder, Listening
  <2>3. ForwardingOver'
    BY <1>6, ProfilerIdle DEF CreateManager, ProcessInv, ForwardingOver
  <2> QED BY <1>0, <2>1, <2>2, <2>3
<1>7. CASE ConnectBinder
  <2>1. main \notin {"members", "exited", "stuck"} /\ UNCHANGED destroyed /\ main' # "exited"
    BY <1>7 DEF ConnectBinder
  <2>2. Calm
    BY <1>7 DEF ConnectBinder, ProcessInv, ProcessTypeOK, Places, ListenersReady, AllSubscribed, StoppedInOrder, Listening
  <2>3. ForwardingOver'
    BY <1>7, ProfilerIdle DEF ConnectBinder, ProcessInv, ForwardingOver
  <2> QED BY <1>0, <2>1, <2>2, <2>3
<1>8. CASE ConnectOBD
  <2>1. main \notin {"members", "exited", "stuck"} /\ UNCHANGED destroyed /\ main' # "exited"
    BY <1>8 DEF ConnectOBD
  <2>2. Calm
    BY <1>8 DEF ConnectOBD, ProcessInv, ProcessTypeOK, Places, ListenersReady, AllSubscribed, StoppedInOrder, Listening
  <2>3. ForwardingOver'
    BY <1>8, ProfilerIdle DEF ConnectOBD, ProcessInv, ForwardingOver
  <2> QED BY <1>0, <2>1, <2>2, <2>3
<1>9. CASE StartManager
  <2>1. main \notin {"members", "exited", "stuck"} /\ UNCHANGED destroyed /\ main' # "exited"
    BY <1>9 DEF StartManager
  <2>2. Calm
    BY <1>9 DEF StartManager, ProcessInv, ProcessTypeOK, Places, ListenersReady, AllSubscribed, StoppedInOrder, Listening
  <2>3. ForwardingOver'
    BY <1>9, ProfilerIdle DEF StartManager, ProcessInv, ForwardingOver
  <2> QED BY <1>0, <2>1, <2>2, <2>3
<1>10. CASE ListenDDS
  <2>1. main \notin {"members", "exited", "stuck"} /\ UNCHANGED destroyed /\ main' # "exited"
    BY <1>10 DEF ListenDDS
  <2>2. Calm
    BY <1>10 DEF ListenDDS, ProcessInv, ProcessTypeOK, Places, ListenersReady, AllSubscribed, StoppedInOrder, Listening
  <2>3. ForwardingOver'
    BY <1>10, ProfilerIdle DEF ListenDDS, ProcessInv, ForwardingOver
  <2> QED BY <1>0, <2>1, <2>2, <2>3
<1>11. CASE StartDDS
  <2>1. main \notin {"members", "exited", "stuck"} /\ UNCHANGED destroyed /\ main' # "exited"
    BY <1>11 DEF StartDDS
  <2>2. Calm
    BY <1>11 DEF StartDDS, ProcessInv, ProcessTypeOK, Places, ListenersReady, AllSubscribed, StoppedInOrder, Listening
  <2>3. ForwardingOver'
    BY <1>11, ProfilerIdle DEF StartDDS, ProcessInv, ForwardingOver
  <2> QED BY <1>0, <2>1, <2>2, <2>3
<1>12. CASE StartEngine
  <2>1. main \notin {"members", "exited", "stuck"} /\ UNCHANGED destroyed /\ main' # "exited"
    BY <1>12 DEF StartEngine
  <2>2. Calm
    BY <1>12 DEF StartEngine, ProcessInv, ProcessTypeOK, Places, ListenersReady, AllSubscribed, StoppedInOrder, Listening
  <2>3. ForwardingOver'
    BY <1>12, ProfilerIdle DEF StartEngine, ProcessInv, ForwardingOver
  <2> QED BY <1>0, <2>1, <2>2, <2>3
<1>13. CASE StopEngine
  <2>1. main \notin {"members", "exited", "stuck"} /\ UNCHANGED destroyed /\ main' # "exited"
    BY <1>13 DEF StopEngine
  <2>2. Calm
    BY <1>13 DEF StopEngine, ProcessInv, ProcessTypeOK, Places, ListenersReady, AllSubscribed, StoppedInOrder, Listening
  <2>3. ForwardingOver'
    BY <1>13, ProfilerIdle DEF StopEngine, ProcessInv, ForwardingOver
  <2> QED BY <1>0, <2>1, <2>2, <2>3
<1>14. CASE UnlistenDDS
  <2>1. main \notin {"members", "exited", "stuck"} /\ UNCHANGED destroyed /\ main' # "exited"
    BY <1>14 DEF UnlistenDDS
  <2>2. Calm
    BY <1>14 DEF UnlistenDDS, ProcessInv, ProcessTypeOK, Places, ListenersReady, AllSubscribed, StoppedInOrder, Listening
  <2>3. ForwardingOver'
    BY <1>14, ProfilerIdle DEF UnlistenDDS, ProcessInv, ForwardingOver
  <2> QED BY <1>0, <2>1, <2>2, <2>3
<1>15. CASE StopDDS
  <2>1. main \notin {"members", "exited", "stuck"} /\ UNCHANGED destroyed /\ main' # "exited"
    BY <1>15 DEF StopDDS
  <2>2. Calm
    BY <1>15 DEF StopDDS, ProcessInv, ProcessTypeOK, Places, ListenersReady, AllSubscribed, StoppedInOrder, Listening
  <2>3. ForwardingOver'
    BY <1>15, ProfilerIdle DEF StopDDS, ProcessInv, ForwardingOver
  <2> QED BY <1>0, <2>1, <2>2, <2>3
<1>16. CASE StopOBD
  <2>1. main \notin {"members", "exited", "stuck"} /\ UNCHANGED destroyed /\ main' # "exited"
    BY <1>16 DEF StopOBD
  <2>2. Calm
    BY <1>16 DEF StopOBD, ProcessInv, ProcessTypeOK, Places, ListenersReady, AllSubscribed, StoppedInOrder, Listening
  <2>3. ForwardingOver'
    BY <1>16, ProfilerIdle DEF StopOBD, ProcessInv, ForwardingOver
  <2> QED BY <1>0, <2>1, <2>2, <2>3
<1>17. CASE StopInspection
  <2>1. main \notin {"members", "exited", "stuck"} /\ UNCHANGED destroyed /\ main' # "exited"
    BY <1>17 DEF StopInspection
  <2>2. Calm
    BY <1>17 DEF StopInspection, ProcessInv, ProcessTypeOK, Places, ListenersReady, AllSubscribed, StoppedInOrder, Listening
  <2>3. ForwardingOver'
    BY <1>17, ProfilerIdle DEF StopInspection, ProcessInv, ForwardingOver
  <2> QED BY <1>0, <2>1, <2>2, <2>3
<1>18. CASE UnforwardLogs
  <2>1. main \notin {"members", "exited", "stuck"} /\ UNCHANGED destroyed /\ main' # "exited"
    BY <1>18 DEF UnforwardLogs
  <2>2. Calm
    BY <1>18 DEF UnforwardLogs, ProcessInv, ProcessTypeOK, Places, ListenersReady, AllSubscribed, StoppedInOrder, Listening
  <2>3. ForwardingOver'
    BY <1>18, ProfilerIdle DEF UnforwardLogs, ProcessInv, ForwardingOver, setLogForwarding
  <2> QED BY <1>0, <2>1, <2>2, <2>3
<1>19. CASE StopProfiler
  <2>1. main \notin {"members", "exited", "stuck"} /\ UNCHANGED destroyed /\ main' # "exited"
    BY <1>19 DEF StopProfiler
  <2>2. Calm
    BY <1>19 DEF StopProfiler, ProcessInv, ProcessTypeOK, Places, ListenersReady, AllSubscribed, StoppedInOrder, Listening
  <2>3. ForwardingOver'
    BY <1>19, ProfilerIdle DEF StopProfiler, ProcessInv, ForwardingOver, StopStep, RequestStop, NotifyWorker, Release, ClearRoot, ClearPayload, StopUnchanged
  <2> QED BY <1>0, <2>1, <2>2, <2>3
<1>20. CASE StopManager
  <2>1. main \notin {"members", "exited", "stuck"} /\ UNCHANGED destroyed /\ main' # "exited"
    BY <1>20 DEF StopManager
  <2>2. Calm
    BY <1>20 DEF StopManager, ProcessInv, ProcessTypeOK, Places, ListenersReady, AllSubscribed, StoppedInOrder, Listening
  <2>3. ForwardingOver'
    BY <1>20, ProfilerIdle DEF StopManager, ProcessInv, ForwardingOver
  <2> QED BY <1>0, <2>1, <2>2, <2>3
<1>21. CASE StopBinder
  <2>1. main \notin {"members", "exited", "stuck"} /\ UNCHANGED destroyed /\ main' # "exited"
    BY <1>21 DEF StopBinder
  <2>2. Calm
    BY <1>21 DEF StopBinder, ProcessInv, ProcessTypeOK, Places, ListenersReady, AllSubscribed, StoppedInOrder, Listening
  <2>3. ForwardingOver'
    BY <1>21, ProfilerIdle DEF StopBinder, ProcessInv, ForwardingOver
  <2> QED BY <1>0, <2>1, <2>2, <2>3
<1>22. CASE Destructor
  <2>1. main \notin {"members", "exited", "stuck"} /\ UNCHANGED destroyed /\ main' # "exited"
    BY <1>22 DEF Destructor
  <2>2. Calm
    BY <1>22 DEF Destructor, ProcessInv, ProcessTypeOK, Places, ListenersReady, AllSubscribed, StoppedInOrder, Listening
  <2>3. ForwardingOver'
    BY <1>22, ProfilerIdle DEF Destructor, ProcessInv, ForwardingOver, setLogForwarding
  <2> QED BY <1>0, <2>1, <2>2, <2>3
<1> QED
  BY <1>1, <1>2, <1>3, <1>4, <1>5, <1>6, <1>7, <1>8, <1>9, <1>10, <1>11, <1>12, <1>13, <1>14, <1>15, <1>16, <1>17, <1>18, <1>19, <1>20, <1>21, <1>22 DEF MainStep

\* Lemma.  The destruction of the members: their threads, each of them, and the end.
LEMMA DestructionStep ==
  ASSUME ProcessInv, ThreadInv, DestructorStops \/ DestroyMember \/ SubscriptionHangs \/ Exit
  PROVE  ProcessInv'
<1>1. CASE DestructorStops
  <2>1. main = "members" /\ main' = "members" /\ NextMember \notin destroyed
    BY <1>1, NextMemberIs DEF DestructorStops, Then, ProcessInv, GoneForGood
  <2>2. UNCHANGED <<config, failed, destroyed, alive, listeners>>
    BY <1>1 DEF DestructorStops, Then
  <2>3. ProcessTypeOK' /\ ListenersReady' /\ StoppedInOrder'
    BY <2>1, <2>2 DEF ProcessInv, ProcessTypeOK, ListenersReady, AllSubscribed, StoppedInOrder
  <2>4. UNCHANGED <<gLogForwarder, holder>>
    BY <1>1, ProfilerIdle DEF DestructorStops, StopStep, RequestStop, NotifyWorker, Release,
                              ClearRoot, ClearPayload, StopUnchanged
  <2>5. ForwardingOver'
    BY <2>1, <2>4 DEF ProcessInv, ForwardingOver
  <2>6. GoneForGood'
    <3>1. "dds" \in destroyed => UNCHANGED ddsAt
      BY <1>1, <2>1 DEF DestructorStops, ddsVars
    <3>2. "profiler" \in destroyed => UNCHANGED fThread
      BY <1>1, <2>1, ProfilerIdle DEF DestructorStops
    <3> QED
      BY <2>1, <2>2, <3>1, <3>2 DEF ProcessInv, GoneForGood, GoneInOrder
  <2> QED BY <2>3, <2>5, <2>6 DEF ProcessInv
<1>2. CASE DestroyMember
  <2> DEFINE next == NextMember
  <2>1. /\ main = "members" /\ main' = main /\ UNCHANGED <<config, failed>>
        /\ UNCHANGED profilerVars /\ UNCHANGED ddsVars
        /\ destroyed' = destroyed \cup {next} /\ alive' = alive \ {next}
        /\ listeners' = {l \in listeners : l[1] # next}
        /\ next = "profiler" => stopAt = "out" /\ ~isAlive
        /\ next = "dds" => \A t \in DDSThreads : ddsAt[t] = "none"
    BY <1>2 DEF DestroyMember, Idle
  <2>2. next \in MemberSet \ destroyed /\ GoneInOrder(destroyed \cup {next})
    BY <1>2, NextMemberIs DEF DestroyMember, ProcessInv, GoneForGood
  <2> HIDE DEF next
  <2>3. ProcessTypeOK' /\ StoppedInOrder'
    BY <2>1 DEF ProcessInv, ProcessTypeOK, StoppedInOrder
  <2>4. ListenersReady'
    <3>1. "csm" \in alive' => next \notin {"csm", "schema"}
      BY <2>1, <2>2 DEF ProcessInv, GoneForGood, GoneInOrder
    <3> QED
      BY <2>1, <3>1 DEF ProcessInv, ListenersReady, AllSubscribed
  <2>5. ForwardingOver'
    BY <2>1, ProfilerIdle DEF ProcessInv, ForwardingOver
  <2>6. GoneForGood'
    <3>1. next = "profiler" => ~fThread
      BY <2>1 DEF ThreadInv, isAlive
    <3>2. UNCHANGED <<fThread, ddsAt>>
      BY <2>1, ProfilerIdle DEF ddsVars
    <3> QED
      BY <2>1, <2>2, <3>1, <3>2 DEF ProcessInv, GoneForGood
  <2> QED BY <2>3, <2>4, <2>5, <2>6 DEF ProcessInv
<1>3. CASE Exit
  <2>1. /\ main = "members" /\ main' = "exited" /\ destroyed = MemberSet
        /\ UNCHANGED <<config, failed, destroyed, alive, listeners>>
        /\ UNCHANGED profilerVars /\ UNCHANGED ddsVars
    BY <1>3, MemberPositions DEF Exit, Then, Idle, AllDestroyed
  <2>2. UNCHANGED <<fThread, ddsAt, gLogForwarder, holder>>
    BY <2>1, ProfilerIdle DEF ddsVars
  <2> QED
    BY <2>1, <2>2 DEF ProcessInv, ProcessTypeOK, Places, ListenersReady, AllSubscribed,
                      StoppedInOrder, GoneForGood, GoneInOrder, ForwardingOver
<1>4. CASE SubscriptionHangs
  <2>1. /\ main = "members" /\ main' = "stuck"
        /\ UNCHANGED <<config, failed, destroyed, alive, listeners>>
        /\ UNCHANGED profilerVars /\ UNCHANGED ddsVars
    BY <1>4 DEF SubscriptionHangs, Then, Idle
  <2>2. UNCHANGED <<fThread, ddsAt, gLogForwarder, holder>>
    BY <2>1, ProfilerIdle DEF ddsVars
  <2> QED
    BY <2>1, <2>2 DEF ProcessInv, ProcessTypeOK, Places, ListenersReady, AllSubscribed,
                      StoppedInOrder, GoneForGood, GoneInOrder, ForwardingOver
<1> QED BY <1>1, <1>2, <1>3, <1>4

\* Lemma.  The other threads leave the process as it is and start nothing that is gone.
LEMMA OthersStep ==
  ASSUME ProcessInv, Others \/ UNCHANGED vars
  PROVE  ProcessInv'
<1>1. UNCHANGED <<config, main, alive, listeners, destroyed, failed>>
  BY DEF Others, vars, processVars
<1>2. (\A t \in DDSThreads : ddsAt[t] = "none") => UNCHANGED ddsAt
  <2>1. ASSUME \A t \in DDSThreads : ddsAt[t] = "none", NEW t \in DDSThreads, DDSStepOf(t, Locked)
        PROVE  FALSE
    BY <2>1, NoneStaysNone
  <2> QED
    BY <2>1 DEF Others, vars, ddsVars, onEventOfInterestDetected, NotifyModule, on_data_available,
                threadState
<1>3. /\ UNCHANGED fThread
      /\ ~gLogForwarder /\ holder = Nobody => ~gLogForwarder' /\ holder' = Nobody
  BY ProfilerIdle, ProfilerStepFrame DEF Others, vars
<1>4. ProcessTypeOK' /\ ListenersReady' /\ StoppedInOrder'
  BY <1>1 DEF ProcessInv, ProcessTypeOK, ListenersReady, AllSubscribed, StoppedInOrder
<1>5. GoneForGood' /\ ForwardingOver'
  BY <1>1, <1>2, <1>3 DEF ProcessInv, GoneForGood, GoneInOrder, ForwardingOver
<1> QED BY <1>4, <1>5 DEF ProcessInv

\* Lemma.  Every step keeps the order in which members are stopped and destroyed.
LEMMA ProcessInvStep ==
  ProcessInv /\ ThreadInv /\ [Next]_vars => ProcessInv'
<1> SUFFICES ASSUME ProcessInv, ThreadInv, [Next]_vars
             PROVE  ProcessInv'
  OBVIOUS
<1>1. CASE (MainStep \/ StopEngine) /\ ~DestructorStops /\ ~DestroyMember /\ ~SubscriptionHangs /\ ~Exit
  BY <1>1, ConnectDisconnectStep
<1>2. CASE DestructorStops \/ DestroyMember \/ SubscriptionHangs \/ Exit
  BY <1>2, DestructionStep
<1>3. CASE Others \/ UNCHANGED vars
  BY <1>3, OthersStep
<1> QED BY <1>1, <1>2, <1>3 DEF Next, Over

-----------------------------------------------------------------------------
(* The profiler and its thread *)

\* Lemma.  What the profiler sees of a step: nothing, a call of the main thread, or a step of
\* its own threads.
LEMMA ProfilerSees ==
  ASSUME [Next]_vars
  PROVE  \/ UNCHANGED profilerVars
         \/ main = "profiler" /\ start(config.metrics) /\ main' = "forward"
         \/ /\ \E forward \in BOOLEAN : setLogForwarding(forward)
            /\ main' \in {"inspection", "stopProfiler", "members"} /\ UNCHANGED destroyed
            /\ main \in {"forward", "unforward", "destructor"}
         \/ /\ StopStep /\ main' = main /\ UNCHANGED destroyed
            /\ \/ main = "stopProfiler"
               \/ main = "members" /\ ~AllDestroyed /\ NextMember = "profiler"
         \/ ProfilerNext /\ main' = main /\ UNCHANGED destroyed
<1> USE DEF Then, Fail, Idle
<1>1. CASE ConnectIot \/ StartProfiler \/ ForwardLogs \/ StartInspection \/ CreateSchema
              \/ CreateManager \/ ConnectBinder \/ ConnectOBD \/ StartManager
  BY <1>1 DEF ConnectIot, StartProfiler, ForwardLogs, StartInspection, CreateSchema,
              CreateManager, ConnectBinder, ConnectOBD, StartManager
<1>2. CASE ListenDDS \/ StartDDS \/ StartEngine \/ StopEngine \/ UnlistenDDS \/ StopDDS
              \/ StopOBD \/ StopInspection
  BY <1>2 DEF ListenDDS, StartDDS, StartEngine, StopEngine, UnlistenDDS, StopDDS, StopOBD,
              StopInspection
<1>3. CASE UnforwardLogs \/ StopProfiler \/ StopManager \/ StopBinder
  BY <1>3 DEF UnforwardLogs, StopProfiler, StopManager, StopBinder
<1>4. CASE Destructor
  BY <1>4 DEF Destructor
<1>5. CASE DestructorStops \/ DestroyMember \/ SubscriptionHangs \/ Exit
  BY <1>5 DEF DestructorStops, DestroyMember, SubscriptionHangs, Exit
<1>6. CASE Others
  BY <1>6 DEF Others, processVars
<1>7. CASE UNCHANGED vars
  BY <1>7 DEF vars
<1> QED BY <1>1, <1>2, <1>3, <1>4, <1>5, <1>6, <1>7 DEF Next, MainStep, Over

\* Lemma.  The main thread does not go on while it waits for the profiler in stop(), and does
\* not come back to the start of connect().
LEMMA MainWaits ==
  ASSUME ProcessInv, ThreadInv, [Next]_vars
  PROVE  /\ main' \in {"iot", "profiler"} => main \in {"iot", "profiler"}
         /\ UNCHANGED profilerVars /\ stopAt # "out" =>
               main' = main /\ (main = "members" => "profiler" \notin destroyed')
<1> USE DEF Then, Fail, Idle
<1>1. CASE ConnectIot \/ StartProfiler \/ ForwardLogs \/ StartInspection \/ CreateSchema
              \/ CreateManager \/ ConnectBinder \/ ConnectOBD \/ StartManager
  BY <1>1 DEF ConnectIot, StartProfiler, ForwardLogs, StartInspection, CreateSchema,
              CreateManager, ConnectBinder, ConnectOBD, StartManager, ThreadInv
<1>2. CASE ListenDDS \/ StartDDS \/ StartEngine \/ StopEngine \/ UnlistenDDS \/ StopDDS
              \/ StopOBD \/ StopInspection
  BY <1>2 DEF ListenDDS, StartDDS, StartEngine, StopEngine, UnlistenDDS, StopDDS, StopOBD,
              StopInspection, ThreadInv
<1>3. CASE UnforwardLogs \/ StopProfiler \/ StopManager \/ StopBinder \/ Destructor
  BY <1>3 DEF UnforwardLogs, StopProfiler, StopManager, StopBinder, Destructor, ThreadInv
<1>4. CASE DestructorStops
  BY <1>4 DEF DestructorStops, ThreadInv
<1>5. CASE DestroyMember
  <2> DEFINE next == NextMember
  <2>1. /\ main = "members" /\ main' = main /\ destroyed' = destroyed \cup {next}
        /\ next = "profiler" => stopAt = "out"
    BY <1>5 DEF DestroyMember
  <2> HIDE DEF next
  <2> QED BY <2>1 DEF ThreadInv
<1>6. CASE Exit
  <2>1. main = "members" /\ main' = "exited" /\ destroyed = MemberSet
    BY <1>6, MemberPositions DEF Exit, AllDestroyed
  <2> QED BY <2>1 DEF ThreadInv, MemberSet
<1>7. CASE SubscriptionHangs
  <2> DEFINE next == NextMember
  <2>1. main = "members" /\ main' = "stuck" /\ next = "iot"
    BY <1>7 DEF SubscriptionHangs
  <2>2. next \in MemberSet \ destroyed /\ GoneInOrder(destroyed \cup {next})
    BY <1>7, NextMemberIs DEF SubscriptionHangs, ProcessInv, GoneForGood
  <2> HIDE DEF next
  <2>3. "profiler" \in destroyed
    BY <2>1, <2>2 DEF GoneInOrder
  <2> QED BY <2>1, <2>3 DEF ThreadInv
<1>8. CASE Others \/ UNCHANGED vars
  BY <1>8 DEF Others, vars, processVars, ThreadInv
<1> QED BY <1>1, <1>2, <1>3, <1>4, <1>5, <1>6, <1>7, <1>8 DEF Next, MainStep, Over

\* Lemma.  The profiler's thread is not there at the start.
LEMMA ThreadInvInit == Init => ThreadInv
BY DEF Init, ProfilerInit, ThreadInv

\* Lemma.  The profiler's thread ends only after stop() asked for it, and stop() is through
\* with it only when it has ended.
LEMMA ThreadInvStep ==
  ProcessInv /\ ThreadInv /\ [Next]_vars => ThreadInv'
<1> SUFFICES ASSUME ProcessInv, ThreadInv, [Next]_vars
             PROVE  ThreadInv'
  OBVIOUS
<1>0. main' \in {"iot", "profiler"} => main \in {"iot", "profiler"}
  BY MainWaits
<1>1. CASE UNCHANGED profilerVars
  BY <1>1, <1>0, ProfilerIdle, MainWaits DEF ThreadInv
<1>2. CASE main = "profiler" /\ start(config.metrics) /\ main' = "forward"
  BY <1>2 DEF start, ThreadInv
<1>3. CASE /\ \E forward \in BOOLEAN : setLogForwarding(forward)
           /\ main' \in {"inspection", "stopProfiler", "members"} /\ UNCHANGED destroyed
           /\ main \in {"forward", "unforward", "destructor"}
  <2>1. UNCHANGED <<workAt, stopAt, fThread, mDone, terminated, fShouldStop>>
    BY <1>3 DEF setLogForwarding, threadVars
  <2> QED BY <1>3, <2>1 DEF ThreadInv
<1>4. CASE /\ StopStep /\ main' = main /\ UNCHANGED destroyed
           /\ \/ main = "stopProfiler"
              \/ main = "members" /\ ~AllDestroyed /\ NextMember = "profiler"
  <2>1. main = "stopProfiler" \/ (main = "members" /\ "profiler" \notin destroyed)
    BY <1>4, NextMemberIs DEF ProcessInv, GoneForGood
  <2>2. CASE RequestStop
    BY <1>4, <2>1, <2>2 DEF RequestStop, StopUnchanged, isAlive, ThreadInv
  <2>3. CASE NotifyWorker
    BY <1>4, <2>1, <2>3 DEF NotifyWorker, StopUnchanged, ThreadInv
  <2>4. CASE Release
    BY <1>4, <2>1, <2>4 DEF Release, StopUnchanged, ThreadInv
  <2>5. CASE ClearRoot
    BY <1>4, <2>1, <2>5 DEF ClearRoot, StopUnchanged, threadVars, ThreadInv
  <2>6. CASE ClearPayload
    BY <1>4, <2>1, <2>6 DEF ClearPayload, StopUnchanged, ThreadInv
  <2> QED BY <1>4, <2>2, <2>3, <2>4, <2>5, <2>6 DEF StopStep
<1>5. CASE ProfilerNext /\ main' = main /\ UNCHANGED destroyed
  <2>1. CASE WorkerStep
    <3>1. UNCHANGED stopAt
      BY <2>1 DEF WorkerStep
    <3>2. CASE WorkerBegins \/ Loop \/ Waiting \/ Woken
      BY <1>5, <3>1, <3>2 DEF WorkerBegins, Loop, Waiting, Woken, threadVars, ThreadInv
    <3>3. CASE setMetric \/ sendMetricsOut \/ DueLogs \/ WorkerFlushes \/ WorkerSendsLogs
      BY <1>5, <3>1, <3>3 DEF setMetric, sendMetricsOut, DueLogs, WorkerFlushes, WorkerSendsLogs,
                              threadVars, ThreadInv
    <3>4. CASE Finish
      BY <1>5, <3>1, <3>4 DEF Finish, ThreadInv
    <3>5. CASE SignalTermination
      <4>1. stopAt # "out" /\ fThread
        BY <3>5 DEF SignalTermination, ThreadInv
      <4> QED BY <1>5, <3>1, <3>5, <4>1 DEF SignalTermination, ThreadInv
    <3> QED BY <2>1, <3>2, <3>3, <3>4, <3>5 DEF WorkerStep
  <2>2. CASE ~WorkerStep
    <3>1. UNCHANGED <<workAt, stopAt, fThread, mDone, terminated, fShouldStop>>
      BY <1>5, <2>2 DEF ProfilerNext, LogStep, Spurious, threadVars
    <3> QED BY <1>5, <3>1 DEF ThreadInv
  <2> QED BY <2>1, <2>2
<1> QED BY <1>1, <1>2, <1>3, <1>4, <1>5, ProfilerSees

-----------------------------------------------------------------------------
(* The forwarding of log messages *)

LogPlaces == {"out", "forward", "add", "flush", "send", "append"}
InForwarding == {"add", "flush", "send", "append"}

\* Lemma.  At the start no thread logs, and nobody holds the forwarding mutex.
LEMMA LogInvInit == Init => LogInv
<1> SUFFICES ASSUME Init PROVE LogInv
  OBVIOUS
<1>1. fLogRoot = <<>> /\ <<>> \in Seq(Nat) /\ MaxBytes \in Nat
  BY ProfilerAssumption DEF Init, ProfilerInit
<1>2. UploadBounded
  BY <1>1 DEF Init, ProfilerInit, UploadBounded
<1> QED BY <1>1, <1>2, NobodyAssumption DEF Init, ProfilerInit, LogInv

\* Lemma.  A step of one thread in the forwarding: it holds the mutex afterwards exactly when it
\* is inside, no other thread comes in or goes out, and what is emptied stays empty.
LEMMA LogMoves ==
  ASSUME LogInv, NEW t \in LogThreads, NEW place \in LogPlaces,
         logAt' = [logAt EXCEPT ![t] = place],
         entry' \in [LogThreads -> Nat], UNCHANGED gLogForwarder,
         fLogRoot' \in Seq(Nat), fCurrentUserPayloadInLogRoot' \in Nat, UploadBounded',
         holder' \in LogThreads \cup {Nobody},
         place \in InForwarding <=> holder' = t,
         \A u \in LogThreads : u # t => (holder = u <=> holder' = u),
         \/ UNCHANGED <<fLogRoot, fCurrentUserPayloadInLogRoot>>
         \/ holder = t,
         place \in {"send", "append"} => fLogRoot' = <<>> /\ fCurrentUserPayloadInLogRoot' = 0,
         workAt' \in {"flush", "sendLogs"} =>
             workAt \in {"flush", "sendLogs"} /\ (t = Worker => place = "out")
  PROVE  LogInv'
<1>1. logAt' \in [LogThreads -> LogPlaces]
  BY DEF LogInv, LogPlaces
<1>2. \A u \in LogThreads : logAt'[u] = IF u = t THEN place ELSE logAt[u]
  BY DEF LogInv
<1>3. \A u \in LogThreads : logAt'[u] \in InForwarding <=> holder' = u
  BY <1>2 DEF LogInv, InForwarding
<1>4. ASSUME NEW u \in LogThreads, logAt'[u] \in {"send", "append"}
      PROVE  fLogRoot' = <<>> /\ fCurrentUserPayloadInLogRoot' = 0
  <2>1. u # t => holder = u /\ logAt[u] \in {"send", "append"}
    BY <1>2, <1>4 DEF LogInv
  <2> QED BY <1>2, <1>4, <2>1 DEF LogInv
<1>5. workAt' \in {"flush", "sendLogs"} => logAt'[Worker] = "out"
  BY <1>2 DEF LogInv, LogThreads
<1> QED BY <1>1, <1>3, <1>4, <1>5 DEF LogInv, LogPlaces, InForwarding

\* Lemma.  A thread that logs is alone in the log structure from the mutex on.
LEMMA LogStepInv ==
  ASSUME LogInv, NEW t \in LogThreads, LogStep(t)
  PROVE  LogInv'
<1>0. /\ UNCHANGED <<workAt, stopAt>>
      /\ logAt[t] # "out" => (t = Worker => workAt \notin {"flush", "sendLogs"})
  BY DEF LogStep, LogInv
<1>1. /\ logAt[t] \in InForwarding <=> holder = t
      /\ t # Nobody /\ \A u \in LogThreads : u # Nobody
      /\ entry[t] \in Nat /\ MaxBytes \in Nat
      /\ logAt \in [LogThreads -> LogPlaces]
      /\ \A e \in Nat : [entry EXCEPT ![t] = e] \in [LogThreads -> Nat]
  BY NobodyAssumption, ProfilerAssumption DEF LogInv, InForwarding, LogPlaces
<1>2. CASE forwardLog(t)
  <2>1. CASE gLogForwarder
    <3>1. /\ logAt' = [logAt EXCEPT ![t] = "add"] /\ holder' = t /\ holder = Nobody
          /\ UNCHANGED <<entry, gLogForwarder, fLogRoot, fCurrentUserPayloadInLogRoot>>
      BY <1>2, <2>1 DEF forwardLog
    <3>2. UploadBounded'
      BY <1>0, <3>1 DEF LogInv, UploadBounded
    <3>3. "add" \in LogPlaces /\ "add" \in InForwarding /\ logAt[t] # "out"
      BY <1>2 DEF LogPlaces, InForwarding, forwardLog
    <3> QED BY <1>0, <1>1, <3>1, <3>2, <3>3, LogMoves DEF LogInv
  <2>2. CASE ~gLogForwarder
    <3>1. /\ logAt' = [logAt EXCEPT ![t] = "out"] /\ holder' = holder /\ holder = Nobody
          /\ entry' = [entry EXCEPT ![t] = 0]
          /\ UNCHANGED <<gLogForwarder, fLogRoot, fCurrentUserPayloadInLogRoot>>
      BY <1>2, <2>2 DEF forwardLog
    <3>2. UploadBounded'
      BY <1>0, <3>1 DEF LogInv, UploadBounded
    <3>3. "out" \in LogPlaces /\ "out" \notin InForwarding /\ entry' \in [LogThreads -> Nat]
      BY <1>1, <3>1 DEF LogPlaces, InForwarding
    <3> QED BY <1>0, <1>1, <3>1, <3>2, <3>3, LogMoves DEF LogInv
  <2> QED BY <2>1, <2>2
<1>3. ASSUME logAt[t] \in {"add", "append"}, AddEntry(t), UNCHANGED gLogForwarder,
             \/ entry[t] + fCurrentUserPayloadInLogRoot <= MaxBytes
             \/ logAt[t] = "append"
      PROVE  LogInv'
  <2>1. /\ fLogRoot' = Append(fLogRoot, entry[t])
        /\ fCurrentUserPayloadInLogRoot' = fCurrentUserPayloadInLogRoot + entry[t]
        /\ logAt' = [logAt EXCEPT ![t] = "out"] /\ holder' = Nobody /\ holder = t
        /\ entry' = [entry EXCEPT ![t] = 0]
    BY <1>1, <1>3 DEF AddEntry, InForwarding
  <2>2. fLogRoot' \in Seq(Nat) /\ fCurrentUserPayloadInLogRoot' \in Nat
    BY <1>1, <2>1 DEF LogInv
  <2>3. logAt[t] = "append" => Len(fLogRoot') = 1
    BY <1>1, <2>1 DEF LogInv
  <2>4. UploadBounded'
    BY <1>1, <1>3, <2>1, <2>3 DEF UploadBounded, LogInv
  <2>5. "out" \in LogPlaces /\ "out" \notin InForwarding /\ entry' \in [LogThreads -> Nat]
    BY <1>1, <2>1 DEF LogPlaces, InForwarding
  <2> QED BY <1>0, <1>1, <1>3, <2>1, <2>2, <2>4, <2>5, LogMoves
<1>4. ASSUME holder = t, NEW place \in InForwarding, logAt' = [logAt EXCEPT ![t] = place],
             UNCHANGED <<holder, entry, gLogForwarder>>,
             \/ /\ UNCHANGED <<fLogRoot, fCurrentUserPayloadInLogRoot>>
                /\ place \in {"send", "append"} => logAt[t] \in {"send", "append"}
             \/ fLogRoot' = <<>> /\ fCurrentUserPayloadInLogRoot' = 0
      PROVE  LogInv'
  <2>1. /\ fLogRoot' \in Seq(Nat) /\ fCurrentUserPayloadInLogRoot' \in Nat
        /\ place \in {"send", "append"} => fLogRoot' = <<>> /\ fCurrentUserPayloadInLogRoot' = 0
    <3>1. CASE fLogRoot' = <<>> /\ fCurrentUserPayloadInLogRoot' = 0
      BY <3>1, <<>> \in Seq(Nat)
    <3>2. CASE /\ UNCHANGED <<fLogRoot, fCurrentUserPayloadInLogRoot>>
               /\ place \in {"send", "append"} => logAt[t] \in {"send", "append"}
      <4>1. fLogRoot \in Seq(Nat) /\ fCurrentUserPayloadInLogRoot \in Nat
        BY DEF LogInv
      <4>2. logAt[t] \in {"send", "append"} => fLogRoot = <<>> /\ fCurrentUserPayloadInLogRoot = 0
        BY DEF LogInv
      <4> QED BY <3>2, <4>1, <4>2
    <3> QED BY <1>4, <3>1, <3>2
  <2>2. UploadBounded'
    BY <1>0, <1>1, <1>4 DEF LogInv, UploadBounded
  <2>3. place \in LogPlaces /\ logAt[t] # "out"
    BY <1>1, <1>4 DEF LogPlaces, InForwarding
  <2> QED BY <1>0, <1>1, <1>4, <2>1, <2>2, <2>3, LogMoves DEF LogInv
<1>5. CASE logMessage(t)
  <2>1. CASE AddEntry(t) /\ ~(entry[t] + fCurrentUserPayloadInLogRoot > MaxBytes)
    <3>1. entry[t] + fCurrentUserPayloadInLogRoot <= MaxBytes
      BY <1>1, <2>1 DEF LogInv
    <3> QED BY <1>3, <1>5, <2>1, <3>1 DEF logMessage
  <2>2. CASE ~AddEntry(t) \/ entry[t] + fCurrentUserPayloadInLogRoot > MaxBytes
    BY <1>1, <1>4, <1>5, <2>2 DEF logMessage, InForwarding
  <2> QED BY <2>1, <2>2
<1>6. CASE FlushLogs(t)
  BY <1>1, <1>4, <1>6 DEF FlushLogs, initLogStructure, InForwarding
<1>7. CASE SendLogs(t)
  <2>1. fCurrentUserPayloadInLogRoot = 0
    BY <1>7 DEF SendLogs, LogInv
  <2> QED BY <1>1, <1>4, <1>7, <2>1 DEF SendLogs, InForwarding
<1>8. CASE AppendLog(t)
  BY <1>3, <1>8 DEF AppendLog
<1> QED BY <1>2, <1>5, <1>6, <1>7, <1>8 DEF LogStep


\* Lemma.  A step that only moves the worker, and not into the sending of the logs while it logs.
LEMMA LogKept ==
  ASSUME LogInv, UNCHANGED <<logVars, stopAt>>,
         workAt' \in {"flush", "sendLogs"} => workAt \in {"flush", "sendLogs"} \/ logAt[Worker] = "out"
  PROVE  LogInv'
BY DEF LogInv, UploadBounded, logVars

\* Lemma.  The worker logs a failed send while it is not logging anything yet.
LEMMA LogFailureInv ==
  ASSUME LogInv, logAt[Worker] = "out", SendMayFail, UNCHANGED <<forwardingVars, stopAt>>,
         workAt' \notin {"flush", "sendLogs"}
  PROVE  LogInv'
<1>1. CASE LogFailure /\ gLogForwarder
  <2>1. PICK s \in EntrySizes : /\ entry' = [entry EXCEPT ![Worker] = s]
                                /\ logAt' = [logAt EXCEPT ![Worker] = "forward"]
    BY <1>1 DEF LogFailure
  <2>2. s \in Nat /\ Worker \in LogThreads /\ entry' \in [LogThreads -> Nat]
    BY <2>1, ProfilerAssumption DEF LogInv, LogThreads
  <2>3. UNCHANGED <<gLogForwarder, holder, fLogRoot, fCurrentUserPayloadInLogRoot, stopAt>>
    BY DEF forwardingVars
  <2>4. UploadBounded' /\ holder # Worker
    BY <2>2, <2>3 DEF LogInv, UploadBounded
  <2>5. "forward" \in LogPlaces /\ "forward" \notin InForwarding
    BY DEF LogPlaces, InForwarding
  <2> QED BY <2>1, <2>2, <2>3, <2>4, <2>5, LogMoves DEF LogInv
<1>2. CASE UNCHANGED <<entry, logAt>>
  BY <1>2, LogKept DEF forwardingVars, logVars
<1> QED BY <1>1, <1>2 DEF SendMayFail, LogFailure

\* Lemma.  What the main thread does to the profiler leaves whoever logs alone.
LEMMA MainLogInv ==
  ASSUME LogInv,
         \/ UNCHANGED profilerVars
         \/ start(config.metrics)
         \/ \E forward \in BOOLEAN : setLogForwarding(forward)
         \/ StopStep
  PROVE  LogInv'
<1>1. MaxBytes \in Nat /\ <<>> \in Seq(Nat)
  BY ProfilerAssumption
<1>2. CASE UNCHANGED profilerVars
  BY <1>2, LogKept, ProfilerIdle DEF logVars
<1>3. CASE start(config.metrics)
  BY <1>3, LogKept DEF start
<1>4. CASE \E forward \in BOOLEAN : setLogForwarding(forward)
  <2>1. /\ gLogForwarder' \in BOOLEAN
        /\ UNCHANGED <<holder, logAt, entry, fLogRoot, fCurrentUserPayloadInLogRoot, workAt, stopAt>>
    BY <1>4 DEF setLogForwarding
  <2> QED BY <2>1 DEF LogInv, UploadBounded
<1>5. CASE StopStep
  <2>1. UNCHANGED <<gLogForwarder, holder, logAt, entry, workAt>>
    BY <1>5 DEF StopStep, RequestStop, NotifyWorker, Release, ClearRoot, ClearPayload, StopUnchanged
  <2>2. /\ UNCHANGED fLogRoot \/ fLogRoot' = <<>>
        /\ UNCHANGED fCurrentUserPayloadInLogRoot \/ fCurrentUserPayloadInLogRoot' = 0
        /\ \/ stopAt' = "cleared" \/ fCurrentUserPayloadInLogRoot' = 0
           \/ /\ stopAt # "cleared"
              /\ UNCHANGED <<fLogRoot, fCurrentUserPayloadInLogRoot>>
    BY <1>5 DEF StopStep, RequestStop, NotifyWorker, Release, ClearRoot, ClearPayload
  <2>3. UploadBounded'
    BY <1>1, <2>2 DEF LogInv, UploadBounded
  <2>4. fLogRoot' \in Seq(Nat) /\ fCurrentUserPayloadInLogRoot' \in Nat
    <3>1. fLogRoot \in Seq(Nat) /\ fCurrentUserPayloadInLogRoot \in Nat
      BY DEF LogInv
    <3>2. fLogRoot' \in Seq(Nat)
      BY <1>1, <2>2, <3>1, Zenon
    <3> QED BY <2>2, <3>1, <3>2
  <2>5. ASSUME NEW t \in LogThreads, logAt'[t] \in {"send", "append"}
        PROVE  fLogRoot' = <<>> /\ fCurrentUserPayloadInLogRoot' = 0
    <3>1. fLogRoot = <<>> /\ fCurrentUserPayloadInLogRoot = 0
      BY <2>1, <2>5 DEF LogInv
    <3> QED BY <2>2, <3>1
  <2> QED BY <2>1, <2>3, <2>4, <2>5 DEF LogInv
<1> QED BY <1>2, <1>3, <1>4, <1>5

\* Lemma.  The worker empties the log structure without the mutex of the forwarding, and logs
\* only where it holds none.
LEMMA WorkerLogInv ==
  ASSUME LogInv, WorkerStep
  PROVE  LogInv'
<1>0. UNCHANGED stopAt
  BY DEF WorkerStep
<1>1. CASE WorkerBegins \/ Loop \/ Waiting \/ Woken \/ Finish \/ SignalTermination \/ DueLogs
  BY <1>0, <1>1, LogKept DEF WorkerBegins, Loop, Waiting, Woken, Finish, SignalTermination, DueLogs
<1>2. CASE setMetric
  <2>1. SendMayFail
    BY <1>2 DEF setMetric, SendMayFail
  <2> QED BY <1>0, <1>2, <2>1, LogFailureInv DEF setMetric
<1>3. CASE sendMetricsOut
  BY <1>0, <1>3, LogFailureInv DEF sendMetricsOut
<1>4. CASE WorkerFlushes
  <2>1. MaxBytes \in Nat /\ <<>> \in Seq(Nat)
    BY ProfilerAssumption
  <2>2. /\ fLogRoot' = <<>> /\ fCurrentUserPayloadInLogRoot' = 0
        /\ UNCHANGED <<gLogForwarder, holder, logAt, entry>> /\ workAt = "flush"
    BY <1>4 DEF WorkerFlushes, initLogStructure
  <2> QED BY <1>0, <2>1, <2>2 DEF LogInv, UploadBounded
<1>5. CASE WorkerSendsLogs
  <2>1. SendMayFail /\ logAt[Worker] = "out"
    BY <1>5 DEF WorkerSendsLogs, SendMayFail, LogInv
  <2> QED BY <1>0, <1>5, <2>1, LogFailureInv DEF WorkerSendsLogs
<1> QED BY <1>1, <1>2, <1>3, <1>4, <1>5 DEF WorkerStep

\* Lemma.  Every step leaves the mutex with the thread that is past its door.
LEMMA LogInvStep == LogInv /\ [Next]_vars => LogInv'
<1> SUFFICES ASSUME LogInv, [Next]_vars
             PROVE  LogInv'
  OBVIOUS
<1>1. CASE ProfilerNext
  <2>1. ASSUME NEW t \in Loggers, Log(t), UNCHANGED <<workAt, stopAt>>
        PROVE  LogInv'
    <3>1. PICK s \in EntrySizes : entry' = [entry EXCEPT ![t] = s]
      BY <2>1 DEF Log
    <3>2. s \in Nat /\ t \in LogThreads /\ t # Worker /\ entry' \in [LogThreads -> Nat]
      BY <3>1, ProfilerAssumption DEF LogInv, LogThreads
    <3>3. /\ logAt' = [logAt EXCEPT ![t] = "forward"] /\ logAt[t] = "out"
          /\ UNCHANGED <<gLogForwarder, holder, fLogRoot, fCurrentUserPayloadInLogRoot>>
      BY <2>1 DEF Log
    <3>4. UploadBounded' /\ holder # t
      BY <2>1, <3>2, <3>3 DEF LogInv, UploadBounded
    <3>5. "forward" \in LogPlaces /\ "forward" \notin InForwarding
      BY DEF LogPlaces, InForwarding
    <3> QED BY <2>1, <3>2, <3>3, <3>4, <3>5, LogMoves DEF LogInv
  <2>2. CASE Spurious
    BY <2>2, LogKept DEF Spurious
  <2> QED BY <1>1, <2>1, <2>2, LogStepInv, WorkerLogInv DEF ProfilerNext
<1> QED BY <1>1, MainLogInv, ProfilerSees


-----------------------------------------------------------------------------
(* The bytes counted for the log structure *)

\* The partial sums of a log structure, by the number of messages summed up.
IsSumOf(sum, root) ==
    sum = [i \in 0 .. Len(root) |-> IF i = 0 THEN 0 ELSE sum[i - 1] + root[i]]
SumOf(root) == CHOOSE sum : IsSumOf(sum, root)

\* Lemma.  What holds for 0 and passes from each number up to n to the next holds up to n.
LEMMA UpTo ==
  ASSUME NEW n \in Nat, NEW S, 0 \in S, \A i \in 1 .. n : i - 1 \in S => i \in S
  PROVE  \A i \in 0 .. n : i \in S
<1> SUFFICES ASSUME NEW k \in 0 .. n, k \notin S
             PROVE  FALSE
  OBVIOUS
<1> DEFINE Left == {i \in 0 .. n : i \notin S}
<1>1. Left \subseteq Nat /\ Left # {}
  OBVIOUS
<1>2. PICK x \in Left : \A y \in Left : ~(<<y, x>> \in OpToRel(<, Nat))
  BY <1>1, NatLessThanWellFounded, WFMin
<1>3. ASSUME x - 1 \in Left
      PROVE  <<x - 1, x>> \in OpToRel(<, Nat)
  <2>1. <<x - 1, x>> \in Nat \X Nat /\ x - 1 < x
    BY <1>3
  <2> QED BY <2>1 DEF OpToRel
<1>4. x - 1 \notin Left
  BY <1>2, <1>3
<1>5. x \in 0 .. n /\ x \notin S
  BY <1>2
<1> HIDE DEF Left
<1>6. x \in 1 .. n /\ x - 1 \in 0 .. n
  BY <1>5
<1>7. x - 1 \in S
  BY <1>4, <1>6 DEF Left
<1> QED BY <1>5, <1>6, <1>7

\* Lemma.  The partial sums exist.
LEMMA SumExists ==
  ASSUME NEW root \in Seq(Nat)
  PROVE  IsSumOf(SumOf(root), root) /\ SumOf(root) \in [0 .. Len(root) -> Nat]
<1> DEFINE n == Len(root)
           Sum(f, k) == f = [i \in 0 .. k |-> IF i = 0 THEN 0 ELSE f[i - 1] + root[i]]
           S == {k \in 0 .. n : \E f : Sum(f, k)}
<1>0. n \in Nat /\ \A i \in 1 .. n : root[i] \in Nat
  OBVIOUS
<1> HIDE DEF n
<1>1. 0 \in S
  <2> DEFINE f == [i \in 0 .. 0 |-> 0]
  <2>1. f = [i \in 0 .. 0 |-> IF i = 0 THEN 0 ELSE f[i - 1] + root[i]]
    OBVIOUS
  <2>2. \E h : Sum(h, 0)
    BY <2>1
  <2> QED BY <1>0, <2>2
<1>2. ASSUME NEW k \in 1 .. n, k - 1 \in S
      PROVE  k \in S
  <2>1. PICK f : Sum(f, k - 1)
    BY <1>2
  <2> DEFINE g == [i \in 0 .. k |-> IF i = k THEN f[k - 1] + root[k] ELSE f[i]]
  <2>2. \A i \in 0 .. k - 1 : f[i] = IF i = 0 THEN 0 ELSE f[i - 1] + root[i]
    BY <2>1
  <2>3. \A i \in 0 .. k : g[i] = IF i = 0 THEN 0 ELSE g[i - 1] + root[i]
    BY <1>0, <2>2
  <2>4. g = [i \in 0 .. k |-> g[i]]
    OBVIOUS
  <2> HIDE DEF g
  <2>5. Sum(g, k)
    BY <2>3, <2>4
  <2> QED BY <2>5
<1>3. \E f : Sum(f, n)
  <2> HIDE DEF S
  <2>1. \A i \in 0 .. n : i \in S
    BY <1>0, <1>1, <1>2, UpTo
  <2>2. n \in S
    BY <1>0, <2>1
  <2> QED BY <2>2 DEF S
<1>4. IsSumOf(SumOf(root), root)
  <2>1. \E f : IsSumOf(f, root)
    BY <1>3 DEF IsSumOf, n
  <2> QED BY <2>1 DEF SumOf
<1> DEFINE sum == SumOf(root)
<1> HIDE DEF sum
<1>5. DOMAIN sum = 0 .. n /\ \A i \in 0 .. n : sum[i] = IF i = 0 THEN 0 ELSE sum[i - 1] + root[i]
  BY <1>4 DEF IsSumOf, sum, n
<1>6. \A i \in 0 .. n : i \in {j \in 0 .. n : sum[j] \in Nat}
  <2> DEFINE T == {j \in 0 .. n : sum[j] \in Nat}
  <2>1. 0 \in T
    BY <1>0, <1>5
  <2>2. \A i \in 1 .. n : i - 1 \in T => i \in T
    BY <1>0, <1>5
  <2> HIDE DEF T
  <2>3. \A i \in 0 .. n : i \in T
    BY <1>0, <2>1, <2>2, UpTo
  <2> QED BY <2>3 DEF T
<1>7. sum \in [0 .. n -> Nat]
  <2>1. sum = [i \in 0 .. n |-> sum[i]]
    BY <1>4, <1>5 DEF IsSumOf, sum, n
  <2> QED BY <1>6, <2>1
<1> QED BY <1>4, <1>7 DEF sum, n

\* Lemma.  An empty log structure holds no bytes.
LEMMA BytesOfNone == Bytes(<<>>) = 0
<1>1. <<>> \in Seq(Nat) /\ Len(<<>>) = 0
  OBVIOUS
<1>2. Bytes(<<>>) = SumOf(<<>>)[0]
  BY <1>1 DEF Bytes, SumOf, IsSumOf
<1>3. IsSumOf(SumOf(<<>>), <<>>)
  BY <1>1, SumExists
<1> QED BY <1>1, <1>2, <1>3 DEF IsSumOf

\* Lemma.  A message adds its own bytes to those of the log structure.
LEMMA BytesOfAppend ==
  ASSUME NEW root \in Seq(Nat), NEW e \in Nat
  PROVE  Bytes(root) \in Nat /\ Bytes(Append(root, e)) = Bytes(root) + e
<1> DEFINE n == Len(root)
           longer == Append(root, e)
           a == SumOf(root)
           b == SumOf(longer)
<1>1. /\ n \in Nat /\ longer \in Seq(Nat) /\ Len(longer) = n + 1 /\ longer[n + 1] = e
      /\ \A i \in 1 .. n : longer[i] = root[i]
  OBVIOUS
<1>2. Bytes(root) = a[n] /\ Bytes(longer) = b[n + 1]
  BY <1>1 DEF Bytes, SumOf, IsSumOf
<1>3. IsSumOf(a, root) /\ a \in [0 .. n -> Nat] /\ IsSumOf(b, longer)
  BY <1>1, SumExists
<1> HIDE DEF n, longer, a, b
<1>4. /\ \A i \in 0 .. n : a[i] = IF i = 0 THEN 0 ELSE a[i - 1] + root[i]
      /\ \A i \in 0 .. n + 1 : b[i] = IF i = 0 THEN 0 ELSE b[i - 1] + longer[i]
  <2>1. \A i \in 0 .. n : a[i] = IF i = 0 THEN 0 ELSE a[i - 1] + root[i]
    BY <1>3 DEF IsSumOf, n
  <2>2. \A i \in 0 .. n + 1 : b[i] = IF i = 0 THEN 0 ELSE b[i - 1] + longer[i]
    BY <1>1, <1>3 DEF IsSumOf
  <2> QED BY <2>1, <2>2
<1> DEFINE Same == {i \in 0 .. n : a[i] = b[i]}
<1>5. 0 \in Same
  BY <1>1, <1>4
<1>6. \A i \in 1 .. n : i - 1 \in Same => i \in Same
  BY <1>1, <1>4
<1> HIDE DEF Same
<1>7. n \in Same
  <2>1. \A i \in 0 .. n : i \in Same
    BY <1>1, <1>5, <1>6, UpTo
  <2> QED BY <1>1, <2>1
<1>8. a[n] = b[n]
  BY <1>7 DEF Same
<1>9. b[n + 1] = b[n] + e
  BY <1>1, <1>4
<1> QED BY <1>1, <1>2, <1>3, <1>8, <1>9 DEF longer

\* Lemma.  At the start the structure and its counter are empty.
LEMMA CountInvInit == Init => CountInv
BY BytesOfNone DEF Init, ProfilerInit, CountInv, PayloadCounted

\* Lemma.  A thread that adds a message adds its bytes; it is in the forwarding, which is over
\* before stop() clears the structure without the mutex.
LEMMA AddedIsCounted ==
  ASSUME ProcessInv, ThreadInv, LogInv, CountInv, NEW t \in LogThreads, AddEntry(t),
         logAt[t] \in InForwarding, UNCHANGED stopAt
  PROVE  CountInv'
<1>1. holder = t /\ t # Nobody
  BY NobodyAssumption DEF LogInv, InForwarding
<1>2. stopAt # "cleared"
  BY <1>1 DEF ProcessInv, ForwardingOver, ThreadInv
<1>3. fLogRoot \in Seq(Nat) /\ entry[t] \in Nat
  BY DEF LogInv
<1>4. Bytes(fLogRoot') = Bytes(fLogRoot) + entry[t]
  BY <1>3, BytesOfAppend DEF AddEntry
<1> QED BY <1>2, <1>4 DEF AddEntry, CountInv, PayloadCounted

\* Lemma.  A step that leaves the structure and its counter, or empties both.
LEMMA CountKept ==
  ASSUME CountInv, stopAt' = stopAt \/ (stopAt # "cleared" /\ stopAt' # "cleared"),
         \/ UNCHANGED <<fLogRoot, fCurrentUserPayloadInLogRoot>>
         \/ fLogRoot' = <<>> /\ fCurrentUserPayloadInLogRoot' = 0
  PROVE  CountInv'
BY BytesOfNone DEF CountInv, PayloadCounted

\* Lemma.  Every step keeps the counter that of the messages, whoever adds, flushes or clears.
LEMMA CountInvStep ==
  ProcessInv /\ ThreadInv /\ LogInv /\ CountInv /\ [Next]_vars => CountInv'
<1> SUFFICES ASSUME ProcessInv, ThreadInv, LogInv, CountInv, [Next]_vars
             PROVE  CountInv'
  OBVIOUS
<1>1. CASE UNCHANGED profilerVars
  BY <1>1, ProfilerIdle, CountKept
<1>2. CASE start(config.metrics) \/ \E forward \in BOOLEAN : setLogForwarding(forward)
  BY <1>2, CountKept DEF start, setLogForwarding, logVars
<1>3. CASE RequestStop \/ NotifyWorker \/ Release
  BY <1>3, CountKept DEF RequestStop, NotifyWorker, Release
<1>4. CASE ClearRoot
  BY <1>4 DEF ClearRoot, CountInv, PayloadCounted
<1>5. CASE ClearPayload
  BY <1>5, BytesOfNone DEF ClearPayload, CountInv, PayloadCounted
<1>6. CASE ProfilerNext
  <2>0. UNCHANGED stopAt
    BY <1>6, ProfilerStepFrame
  <2>1. ASSUME NEW t \in Loggers, Log(t)
        PROVE  CountInv'
    BY <2>0, <2>1, CountKept DEF Log
  <2>2. ASSUME NEW t \in LogThreads, LogStep(t)
        PROVE  CountInv'
    <3>1. CASE AddEntry(t) /\ logAt[t] \in InForwarding
      BY <2>0, <3>1, AddedIsCounted
    <3>2. CASE ~(AddEntry(t) /\ logAt[t] \in InForwarding)
      <4>1. \/ UNCHANGED <<fLogRoot, fCurrentUserPayloadInLogRoot>>
            \/ fLogRoot' = <<>> /\ fCurrentUserPayloadInLogRoot' = 0
        BY <2>2, <3>2 DEF LogStep, forwardLog, logMessage, FlushLogs, SendLogs, AppendLog,
                          initLogStructure, InForwarding
      <4> QED BY <2>0, <4>1, CountKept
    <3> QED BY <3>1, <3>2
  <2>3. CASE WorkerStep
    <3>1. \/ UNCHANGED <<fLogRoot, fCurrentUserPayloadInLogRoot>>
          \/ fLogRoot' = <<>> /\ fCurrentUserPayloadInLogRoot' = 0
      BY <2>3 DEF WorkerStep, WorkerBegins, Loop, Waiting, Woken, setMetric, sendMetricsOut,
                  DueLogs, WorkerFlushes, WorkerSendsLogs, Finish, SignalTermination, logVars,
                  forwardingVars, initLogStructure
    <3> QED BY <2>0, <3>1, CountKept
  <2>4. CASE Spurious
    BY <2>0, <2>4, CountKept DEF Spurious, logVars
  <2> QED BY <1>6, <2>1, <2>2, <2>3, <2>4 DEF ProfilerNext
<1> QED BY <1>1, <1>2, <1>3, <1>4, <1>5, <1>6, ProfilerSees DEF StopStep

-----------------------------------------------------------------------------
(* The metrics of a round *)

\* Lemma.  The last fCurrentMetricsPending metrics are in fMetricsRoot, each once.
LEMMA InRootIs ==
  ASSUME MetricsInv, NEW m \in Metrics
  PROVE  InRoot(m) = IF nextMetric - fCurrentMetricsPending <= m /\ m < nextMetric THEN 1 ELSE 0
<1> DEFINE first == nextMetric - fCurrentMetricsPending
<1> DEFINE Keys == {k \in DOMAIN fMetricsRoot : fMetricsRoot[k] = m}
<1>1. m \in Int /\ nextMetric \in Int /\ fCurrentMetricsPending \in Nat /\ MetricCount \in Nat
  BY ProfilerAssumption DEF MetricsInv, Metrics
<1>2. \A k : k \in Keys <=> k \in 1 .. fCurrentMetricsPending /\ k = m - first + 1
  BY <1>1 DEF MetricsInv
<1>3. CASE first <= m /\ m < nextMetric
  <2>1. Keys = {m - first + 1}
    BY <1>1, <1>2, <1>3
  <2> QED BY <1>3, <2>1, FS_Singleton DEF InRoot
<1>4. CASE ~(first <= m /\ m < nextMetric)
  <2>1. Keys = {}
    BY <1>1, <1>2, <1>4
  <2> QED BY <1>4, <2>1, FS_EmptySet DEF InRoot
<1> QED BY <1>3, <1>4

\* Lemma.  A send hands over all that was collected in the round so far.
LEMMA AllSent ==
  ASSUME MetricsInv
  PROVE  MetricsSent = [m \in Metrics |-> IF m < nextMetric THEN 1 ELSE 0]
<1>1. MetricCount \in Nat
  BY ProfilerAssumption
<1>2. ASSUME NEW m \in Metrics
      PROVE  handed[m] + InRoot(m) = IF m < nextMetric THEN 1 ELSE 0
  <2>1. handed[m] = IF m < nextMetric - fCurrentMetricsPending THEN 1 ELSE 0
    BY DEF MetricsInv
  <2>2. m \in Int /\ nextMetric \in Int /\ fCurrentMetricsPending \in Nat
    BY <1>1 DEF MetricsInv, Metrics
  <2> QED BY <2>1, <2>2, InRootIs
<1> QED BY <1>2 DEF MetricsSent

\* Lemma.  Before the first round no metric is pending.
LEMMA MetricsInvInit == Init => MetricsInv
<1> SUFFICES ASSUME Init PROVE MetricsInv
  OBVIOUS
<1>1. MetricCount \in Nat
  BY ProfilerAssumption
<1>2. nextMetric = 1 /\ fCurrentMetricsPending = 0 /\ fMetricsRoot = <<>> /\ handed = NoneHanded
  BY DEF Init, ProfilerInit
<1>3. handed = [m \in Metrics |-> IF m < 1 - 0 THEN 1 ELSE 0]
  BY <1>1, <1>2 DEF NoneHanded, Metrics
<1> QED BY <1>1, <1>2, <1>3 DEF MetricsInv

\* Lemma.  A step that leaves the metrics and goes on with an empty structure where one is due.
LEMMA MetricsKept ==
  ASSUME MetricsInv, UNCHANGED metricVars,
         workAt' # "metrics" => workAt # "metrics",
         workAt' \notin {"metrics", "logs"} => workAt \notin {"metrics", "logs"}
  PROVE  MetricsInv'
BY DEF MetricsInv, metricVars

\* Lemma.  The batches that setMetric cuts lose and repeat no metric.
LEMMA SetMetricInv ==
  ASSUME MetricsInv, setMetric
  PROVE  MetricsInv'
<1> DEFINE full == fCurrentMetricsPending > MaxMetrics
<1> DEFINE kept == IF full THEN <<>> ELSE fMetricsRoot
<1> DEFINE before == IF full THEN 0 ELSE fCurrentMetricsPending
<1>1. /\ MetricCount \in Nat /\ nextMetric \in 1 .. MetricCount
      /\ fCurrentMetricsPending \in 0 .. nextMetric - 1
  BY ProfilerAssumption DEF setMetric, Metrics, MetricsInv
<1>2. /\ workAt' = "metrics" /\ nextMetric' = nextMetric + 1
      /\ fCurrentMetricsPending' = before + 1
      /\ fMetricsRoot' = [k \in DOMAIN kept \cup {before + 1} |->
                            IF k = before + 1 THEN nextMetric ELSE kept[k]]
      /\ handed' = IF full THEN MetricsSent ELSE handed
  BY DEF setMetric
<1>3. DOMAIN kept = 1 .. before /\ before \in 0 .. nextMetric - 1
  BY <1>1 DEF MetricsInv
<1>4. \A k \in 1 .. before : kept[k] = nextMetric - 1 - before + k
  BY <1>1 DEF MetricsInv
<1>5. DOMAIN fMetricsRoot' = 1 .. before + 1
  BY <1>2, <1>3
<1>6. \A k \in 1 .. before + 1 : fMetricsRoot'[k] = nextMetric - 1 - before + k
  BY <1>1, <1>2, <1>3, <1>4
<1>7. handed' = [m \in Metrics |-> IF m < nextMetric - before THEN 1 ELSE 0]
  <2>1. CASE full
    BY <1>1, <1>2, <2>1, AllSent DEF Metrics
  <2>2. CASE ~full
    BY <1>2, <2>2 DEF MetricsInv
  <2> QED BY <2>1, <2>2
<1> HIDE DEF before, kept, full
<1>8. nextMetric' - fCurrentMetricsPending' = nextMetric - before
  BY <1>1, <1>2, <1>3
<1>9. nextMetric' \in 1 .. MetricCount + 1 /\ fCurrentMetricsPending' \in 0 .. nextMetric' - 1
  BY <1>1, <1>2, <1>3
<1>10. \A k \in 1 .. fCurrentMetricsPending' :
          fMetricsRoot'[k] = nextMetric' - 1 - fCurrentMetricsPending' + k
  <2>1. nextMetric' - 1 - fCurrentMetricsPending' = nextMetric - 1 - before
    BY <1>1, <1>2, <1>3
  <2>2. fCurrentMetricsPending' = before + 1
    BY <1>2
  <2> QED BY <1>6, <2>1, <2>2, Zenon
<1>11. handed' = [m \in Metrics |-> IF m < nextMetric' - fCurrentMetricsPending' THEN 1 ELSE 0]
  BY <1>7, <1>8, Zenon
<1>12. DOMAIN fMetricsRoot' = 1 .. fCurrentMetricsPending'
  BY <1>2, <1>5, Zenon
<1> QED BY <1>2, <1>9, <1>10, <1>11, <1>12 DEF MetricsInv

\* Lemma.  Every step keeps the pending metrics those that were not handed over.
LEMMA MetricsInvStep ==
  ProcessInv /\ ThreadInv /\ MetricsInv /\ [Next]_vars => MetricsInv'
<1> SUFFICES ASSUME ThreadInv, MetricsInv, [Next]_vars
             PROVE  MetricsInv'
  OBVIOUS
<1>0. MetricCount \in Nat
  BY ProfilerAssumption
<1>1. CASE UNCHANGED profilerVars
  BY <1>1, ProfilerIdle, MetricsKept DEF metricVars
<1>2. CASE main = "profiler" /\ start(config.metrics)
  <2>1. workAt = "none" /\ workAt' \in {"none", "begin"} /\ UNCHANGED metricVars
    BY <1>2 DEF start, ThreadInv
  <2> QED BY <2>1, MetricsKept
<1>3. CASE \E forward \in BOOLEAN : setLogForwarding(forward)
  BY <1>3, MetricsKept DEF setLogForwarding
<1>4. CASE StopStep
  <2>1. CASE ClearPayload
    <3>1. fCurrentMetricsPending = 0 /\ workAt = "none"
      BY <2>1 DEF ClearPayload, ThreadInv, MetricsInv
    <3>2. /\ fMetricsRoot' = <<>>
          /\ UNCHANGED <<fCurrentMetricsPending, nextMetric, handed, workAt>>
      BY <2>1 DEF ClearPayload, StopUnchanged
    <3> QED BY <3>1, <3>2 DEF MetricsInv
  <2>2. CASE ~ClearPayload
    BY <1>4, <2>2, MetricsKept DEF StopStep, RequestStop, NotifyWorker, Release, ClearRoot,
                                   StopUnchanged, metricVars
  <2> QED BY <2>1, <2>2
<1>5. CASE ProfilerNext
  <2>1. CASE sendMetricsOut
    <3>1. handed' = [m \in Metrics |-> IF m < nextMetric THEN 1 ELSE 0]
      BY <2>1, AllSent DEF sendMetricsOut
    <3>2. /\ fMetricsRoot' = <<>> /\ fCurrentMetricsPending' = 0 /\ UNCHANGED nextMetric
          /\ workAt' = "logs"
      BY <2>1 DEF sendMetricsOut
    <3>3. nextMetric - 0 = nextMetric /\ 0 \in 0 .. nextMetric - 1
      BY <1>0 DEF MetricsInv
    <3> QED BY <3>1, <3>2, <3>3 DEF MetricsInv
  <2>2. CASE DueLogs
    <3>1. fCurrentMetricsPending = 0
      BY <2>2 DEF DueLogs, MetricsInv
    <3>2. /\ nextMetric' = 1 /\ handed' = NoneHanded
          /\ UNCHANGED <<fMetricsRoot, fCurrentMetricsPending>>
          /\ workAt' \in {"flush", "loop"}
      BY <2>2 DEF DueLogs
    <3>3. NoneHanded = [m \in Metrics |-> IF m < 1 - 0 THEN 1 ELSE 0]
      BY <1>0 DEF NoneHanded, Metrics
    <3> QED BY <1>0, <3>1, <3>2, <3>3 DEF MetricsInv
  <2>3. CASE WorkerBegins \/ Loop \/ Waiting \/ Woken \/ WorkerFlushes \/ WorkerSendsLogs
                \/ Finish \/ SignalTermination
    BY <2>3, MetricsKept DEF WorkerBegins, Loop, Waiting, Woken, WorkerFlushes, WorkerSendsLogs,
                             Finish, SignalTermination
  <2>4. CASE UNCHANGED <<metricVars, workAt>>
    BY <2>4, MetricsKept
  <2>5. ASSUME ~WorkerStep
        PROVE  UNCHANGED <<metricVars, workAt>>
    BY <1>5, <2>5 DEF ProfilerNext, LogStep, Spurious
  <2> QED BY <2>1, <2>2, <2>3, <2>4, <2>5, SetMetricInv DEF WorkerStep
<1> QED BY <1>1, <1>2, <1>3, <1>4, <1>5, ProfilerSees

-----------------------------------------------------------------------------
(* The theorems *)

\* Theorem.  The invariant of the process holds in every state, whatever the configuration, the
\* number of camera nodes, logging threads and metrics, and whichever step of connect() or
\* disconnect() fails.
THEOREM ProcessInvariance == Spec => []IInv
<1>1. Init => IInv
  BY ProcessInvInit, ThreadInvInit, LogInvInit, CountInvInit, MetricsInvInit DEF IInv
<1>2. IInv /\ [Next]_vars => IInv'
  BY ProcessInvStep, ThreadInvStep, LogInvStep, CountInvStep, MetricsInvStep DEF IInv
<1> QED BY <1>1, <1>2, PTL DEF Spec

\* Theorem.  The order in which the members go and the order in which their threads and listeners
\* are released fit each other (IoTFleetWiseEngine.cpp:617 to :672, IoTFleetWiseEngine.h:143).
THEOREM ReleasedInOrder == Spec => []LifetimesOrdered
<1>1. ASSUME IInv
      PROVE  ListenersOutlive
  <2>1. ASSUME NEW l \in Dangling, ~failed
        PROVE  l \in {<<"iot", "schema">>, <<"schema", "csm">>}
    BY <1>1, <2>1 DEF IInv, ProcessInv, ProcessTypeOK, Listening, StoppedInOrder, GoneForGood,
                      GoneInOrder, MemberSet, Dangling, Notifies
  <2>2. ASSUME NEW l \in Dangling
        PROVE  l \in {<<"iot", "schema">>, <<"schema", "csm">>}
                        \cup {<<"csm", "inspection">>, <<"inspection", "dds">>}
    BY <1>1, <2>2 DEF IInv, ProcessInv, ProcessTypeOK, Listening, GoneForGood, GoneInOrder,
                      MemberSet, Dangling, Notifies
  <2> QED BY <1>1, <2>1, <2>2 DEF ListenersOutlive, IInv, ProcessInv, ListenersReady
<1>2. ASSUME IInv
      PROVE  NothingLeft
  <2>1. "profiler" \in destroyed => ~gLogForwarder /\ holder = Nobody /\ workAt = "none"
    BY <1>2 DEF IInv, ProcessInv, GoneForGood, ForwardingOver, ThreadInv
  <2> QED BY <1>2, <2>1 DEF NothingLeft, IInv, ProcessInv, GoneForGood
<1> QED BY <1>1, <1>2, ProcessInvariance, PTL DEF LifetimesOrdered

\* Theorem.  No thread asks for gLogForwardingMutex while it holds it: the one path on which it
\* would, a failing send under the mutex, has nothing to send (RemoteProfiler.cpp:76, :119).
THEOREM LoggingNeverBlocks == Spec => []NoSelfDeadlock
<1>1. IInv => NoSelfDeadlock
  BY DEF IInv, LogInv, NoSelfDeadlock
<1> QED BY <1>1, ProcessInvariance, PTL

\* Theorem.  What is collected for one upload of logs stays within its limit unless it is a single
\* message, also when stop() clears it without the mutex (RemoteProfiler.cpp:119, :198).
THEOREM UploadsStayBounded == Spec => []UploadBounded
<1>1. IInv => UploadBounded
  BY DEF IInv, LogInv
<1> QED BY <1>1, ProcessInvariance, PTL

\* Theorem.  Every metric that was collected in a round is pending or sent, and once
\* (RemoteProfiler.cpp:128).
THEOREM MetricsAreSentOnce == Spec => []MetricsOnce
<1>1. ASSUME IInv
      PROVE  MetricsOnce
  <2>1. ASSUME NEW m \in Metrics, m < nextMetric
        PROVE  handed[m] + InRoot(m) = 1
    BY <1>1, <2>1, AllSent DEF IInv, MetricsSent
  <2> QED BY <2>1 DEF MetricsOnce
<1> QED BY <1>1, ProcessInvariance, PTL

\* Theorem.  The counter that decides when an upload is full is that of the messages in it, although
\* stop() clears the two one after the other and without loggingMutex (RemoteProfiler.cpp:198).
THEOREM PayloadIsCounted == Spec => []PayloadCounted
<1>1. IInv => PayloadCounted
  BY DEF IInv, CountInv
<1> QED BY <1>1, ProcessInvariance, PTL

\* Theorem.  The log messages that the threads of the process hand to the profiler are counted,
\* bounded and never block the thread that logs, and metrics go into a send each once
\* (RemoteProfiler.h:71).
THEOREM ProfilerIsSound == Spec => []ProfilerSound
<1>1. PayloadCounted /\ UploadBounded /\ NoSelfDeadlock /\ MetricsOnce => ProfilerSound
  BY DEF ProfilerSound, LoggingSafe, LogRootSound
<1> QED
  BY <1>1, PayloadIsCounted, UploadsStayBounded, LoggingNeverBlocks, MetricsAreSentOnce, PTL


\* Lemma.  What the process does with a Signal is to call it: whatever connect(), disconnect(),
\* the worker and the forwarding of logs do, a step of the process is one of the Signal or none.
LEMMA ProcessStepIsSignalStep == [Next]_vars => [SignalNext]_signalVars
<1> SUFFICES ASSUME [Next]_vars
             PROVE  SignalNext \/ UNCHANGED signalVars
  OBVIOUS
<1>0. Worker \in Waiters /\ Main \in Notifiers /\ WaitModes \subseteq {"predicate", "timed"}
  BY ProfilerAssumption
<1>1. CASE UNCHANGED profilerVars
  BY <1>1 DEF profilerVars
<1>2. CASE start(config.metrics) \/ \E forward \in BOOLEAN : setLogForwarding(forward)
  BY <1>2 DEF start, setLogForwarding
<1>3. CASE StopStep
  <2>1. NotifyCall(Main) \/ NotifyStep(Main) \/ UNCHANGED signalVars
    BY <1>3 DEF StopStep, RequestStop, NotifyWorker, Release, ClearRoot, ClearPayload
  <2> QED BY <1>0, <2>1 DEF SignalNext
<1>4. CASE ProfilerNext
  <2>1. CASE WorkerStep
    <3>1. \/ \E m \in WaitModes : WaitCall(Worker, m)
          \/ WaitStep(Worker)
          \/ UNCHANGED signalVars
      BY <2>1 DEF WorkerStep, WorkerBegins, Loop, Waiting, Woken, setMetric, sendMetricsOut, DueLogs,
                  WorkerFlushes, WorkerSendsLogs, Finish, SignalTermination
    <3> QED BY <1>0, <3>1 DEF SignalNext
  <2>2. CASE Spurious
    BY <1>0, <2>2 DEF Spurious, SignalNext
  <2>3. ASSUME ~WorkerStep, ~Spurious
        PROVE  UNCHANGED signalVars
    BY <1>4, <2>3 DEF ProfilerNext, LogStep
  <2> QED BY <2>1, <2>2, <2>3
<1> QED BY <1>1, <1>2, <1>3, <1>4, ProfilerSees

\* Theorem.  In the whole process, too, no notification is slept through and the profiler's Signal
\* is a latch: the process keeps to the Signal's own specification.
THEOREM ProcessKeepsSignal == Spec => []NoLostWakeup /\ ImplementsLatch
<1>1. Init => SignalInit
  BY DEF Init, ProfilerInit
<1>2. Spec => SignalSpec
  BY <1>1, ProcessStepIsSignalStep, PTL DEF Spec, SignalSpec
<1> QED BY <1>2, NoLostWakeupHolds, SignalImplementsLatch, PTL
=============================================================================
