----------------------------- MODULE CANChannel -----------------------------
(***************************************************************************)
(* One CAN channel: the thread of CANDataSource, which takes frames from   *)
(* the socket, the thread of CANDataConsumer, which decodes them, the      *)
(* circular buffer between them, and what the other threads do to both:    *)
(* VehicleDataSourceBinder::onChangeOfActiveDictionary, which resumes and  *)
(* suspends them, and VehicleDataSourceBinder::disconnect, which stops     *)
(* them.                                                                   *)
(*                                                                         *)
(* A thread sleeps on its Signal until it is notified, or idles on it with *)
(* a timeout. A dictionary is a number, the how manieth it is. What a      *)
(* frame is decoded into is left out; a frame is when it reached the       *)
(* socket, the timestamp it got there, and whether the source was then     *)
(* asleep, suspended only, or awake.                                       *)
(***************************************************************************)
EXTENDS Naturals, Sequences

CONSTANTS
    SocketSize,     \* frames the kernel keeps for the socket
    BufferSize,     \* socketCANBufferSize
    Batch,          \* PARALLEL_RECEIVED_FRAMES_FROM_KERNEL
    mTimestampTypeToUse,    \* CAN_TIMESTAMP_TYPE, from the configuration file
    MaxFrames,      \* bound: frames on the bus
    MaxChanges,     \* bound: changes of the dictionary
    MaxTime         \* bound: the clock

ASSUME SizesAssumption ==
    /\ SocketSize \in Nat \ {0} /\ BufferSize \in Nat \ {0} /\ Batch \in Nat \ {0}
    /\ mTimestampTypeToUse \in {"KERNEL_SOFTWARE_TIMESTAMP", "KERNEL_HARDWARE_TIMESTAMP",
                                "POLLING_TIME"}
    /\ MaxFrames \in Nat /\ MaxChanges \in Nat /\ MaxTime \in Nat

VARIABLES
    clock, frames,      \* the time, and how many frames were on the bus
    socket,             \* what the kernel has for the source
    mCircularBuffPtr,
    source,             \* thread of the source: pc, mShouldSleep, mShouldStop and its signal
    wokeUpFromSleep, mResumeTime,
    consumer,           \* thread of the consumer
    mDecoderDictionary, \* mDecoderDictionaryConstPtr
    held,               \* the dictionary the consumer decodes the next frame with
    manager, changes,   \* where onChangeOfActiveDictionary is, and how many there were
    main                \* where disconnect() is

vars == <<clock, frames, socket, mCircularBuffPtr, source, wokeUpFromSleep, mResumeTime,
          consumer, mDecoderDictionary, held, manager, changes, main>>
dictionaryVars == <<mDecoderDictionary, held>>
otherVars == <<manager, changes, main>>
busVars == <<clock, frames>>

NoDictionary == 0

\* start(): asleep until there is a dictionary.
Started == [pc |-> "check", mShouldSleep |-> TRUE, mShouldStop |-> FALSE, mNotify |-> FALSE]

Init ==
    /\ clock = 1 /\ frames = 0
    /\ socket = <<>> /\ mCircularBuffPtr = <<>>
    /\ source = Started /\ wokeUpFromSleep = FALSE /\ mResumeTime = 0
    /\ consumer = Started /\ mDecoderDictionary = NoDictionary /\ held = NoDictionary
    /\ manager = "idle" /\ changes = 0
    /\ main = "run"

-----------------------------------------------------------------------------
(* Both threads *)

\* Signal::wait until notified.
Woken(t, next) == [t EXCEPT !.mNotify = FALSE, !.pc = next]
\* The loop goes on, unless the thread is to stop.
Again(t) == [t EXCEPT !.pc = IF t.mShouldStop THEN "ended" ELSE "check"]
CheckedNever(t, next) == [t EXCEPT !.pc = next]
Checked(t, next) == [t EXCEPT !.pc = IF t.mShouldSleep THEN "sleep" ELSE next]

-----------------------------------------------------------------------------
(* CANDataSource::doWork *)

SourceCheck ==
    /\ source.pc = "check"
    /\ source' = Checked(source, "receive")
    /\ UNCHANGED <<wokeUpFromSleep>>
SourceWoken ==
    /\ source.pc = "sleep" /\ source.mNotify
    /\ source' = Woken(source, "receive")
    /\ wokeUpFromSleep' = TRUE

AtMost(n, s) == SubSeq(s, 1, IF n < Len(s) THEN n ELSE Len(s))
Beyond(n, s) == SubSeq(s, n + 1, Len(s))

\* The time of a frame is that of its reading if no other is wanted or there is none.
Polled(f) == mTimestampTypeToUse = "POLLING_TIME" \/ f.stamp = 0
extractTimestamp(f) == IF Polled(f) THEN clock ELSE f.stamp

\* Frames from before the resume, by their timestamp, are ignored by a thread that was asleep;
\* of the others those that find the buffer full are discarded.
Fresh(f) == ~wokeUpFromSleep \/ extractTimestamp(f) >= mResumeTime
Pushed(buff, f) == IF Fresh(f) /\ Len(buff) < BufferSize THEN Append(buff, f) ELSE buff
Received(fs) ==
    LET after[i \in 0 .. Len(fs)] ==
            IF i = 0 THEN mCircularBuffPtr ELSE Pushed(after[i - 1], fs[i])
    IN  after[Len(fs)]

AfterReceiveAlways == wokeUpFromSleep' = FALSE
AfterReceive == UNCHANGED wokeUpFromSleep
SourceReceive ==
    /\ source.pc = "receive" /\ socket # <<>>
    /\ mCircularBuffPtr' = Received(AtMost(Batch, socket))
    /\ socket' = Beyond(Batch, socket)
    /\ source' = Again(source)
    /\ AfterReceive
SourceNothing ==
    /\ source.pc = "receive" /\ socket = <<>>
    /\ source' = [source EXCEPT !.pc = "idle"]
    /\ UNCHANGED wokeUpFromSleep
\* Notified or timed out.
SourceIdle ==
    /\ source.pc = "idle"
    /\ source' = Again(Woken(source, "idle"))
    /\ wokeUpFromSleep' = FALSE

SourceStep ==
    /\ \/ (SourceCheck \/ SourceWoken \/ SourceNothing \/ SourceIdle)
             /\ UNCHANGED <<socket, mCircularBuffPtr>>
       \/ SourceReceive
    /\ UNCHANGED <<busVars, mResumeTime, consumer, dictionaryVars, otherVars>>

-----------------------------------------------------------------------------
(* CANDataConsumer::doWork *)

ConsumerCheck ==
    /\ consumer.pc = "check"
    /\ consumer' = Checked(consumer, "dictionary")
    /\ UNCHANGED <<held, mCircularBuffPtr>>
ConsumerWoken ==
    /\ consumer.pc = "sleep" /\ consumer.mNotify
    /\ consumer' = Woken(consumer, "dictionary")
    /\ UNCHANGED <<held, mCircularBuffPtr>>
\* decoderDictPtr lives for one turn of the loop.
TakeDictionary ==
    /\ consumer.pc = "dictionary"
    /\ held' = mDecoderDictionary
    /\ consumer' = [consumer EXCEPT !.pc = "pop"]
    /\ UNCHANGED mCircularBuffPtr
Decode ==
    /\ consumer.pc = "pop" /\ mCircularBuffPtr # <<>>
    /\ mCircularBuffPtr' = Tail(mCircularBuffPtr)
    /\ consumer' = Again(consumer) /\ held' = NoDictionary
ConsumerNothing ==
    /\ consumer.pc = "pop" /\ mCircularBuffPtr = <<>>
    /\ consumer' = [consumer EXCEPT !.pc = "idle"]
    /\ UNCHANGED <<held, mCircularBuffPtr>>
ConsumerIdle ==
    /\ consumer.pc = "idle"
    /\ consumer' = Again(Woken(consumer, "idle")) /\ held' = NoDictionary
    /\ UNCHANGED mCircularBuffPtr

ConsumerStep ==
    /\ \/ ConsumerCheck \/ ConsumerWoken \/ TakeDictionary
       \/ Decode \/ ConsumerNothing \/ ConsumerIdle
    /\ UNCHANGED <<busVars, socket, source, wokeUpFromSleep, mResumeTime, mDecoderDictionary, otherVars>>

-----------------------------------------------------------------------------
(* onChangeOfActiveDictionary, on the thread of the collection scheme manager: the        *)
(* consumer first, then the source                                                        *)

Sleeping(t, b) == [t EXCEPT !.mShouldSleep = b]
Notified(t) == [t EXCEPT !.mNotify = TRUE]
Step(from, to) == manager = from /\ manager' = to

\* The manager runs until disconnect().
Change ==
    /\ Step("idle", "resume") \/ Step("idle", "suspend")
    /\ main = "run" /\ changes < MaxChanges
    /\ changes' = changes + 1
    /\ UNCHANGED <<source, consumer, mDecoderDictionary, mResumeTime>>

ResumeConsumerNotifyFirst ==
    \/ /\ Step("resume", "awake")
       /\ mDecoderDictionary' = changes
       /\ UNCHANGED consumer
    \/ /\ Step("awake", "notify")
       /\ consumer' = Notified(consumer)
       /\ UNCHANGED mDecoderDictionary
    \/ /\ Step("notify", "source")
       /\ consumer' = Sleeping(consumer, FALSE)
       /\ UNCHANGED mDecoderDictionary
ResumeConsumer ==
    \/ /\ Step("resume", "awake")
       /\ mDecoderDictionary' = changes
       /\ UNCHANGED consumer
    \/ /\ Step("awake", "notify")
       /\ consumer' = Sleeping(consumer, FALSE)
       /\ UNCHANGED mDecoderDictionary
    \/ /\ Step("notify", "source")
       /\ consumer' = Notified(consumer)
       /\ UNCHANGED mDecoderDictionary
ResumeSource ==
    \/ /\ Step("source", "sourceAwake")
       /\ mResumeTime' = clock
       /\ UNCHANGED source
    \/ /\ Step("sourceAwake", "sourceNotify")
       /\ source' = Sleeping(source, FALSE)
       /\ UNCHANGED mResumeTime
    \/ /\ Step("sourceNotify", "idle")
       /\ source' = Notified(source)
       /\ UNCHANGED mResumeTime
Suspend ==
    \/ /\ Step("suspend", "suspendSource")
       /\ consumer' = Sleeping(consumer, TRUE)
       /\ UNCHANGED source
    \/ /\ Step("suspendSource", "idle")
       /\ source' = Sleeping(source, TRUE)
       /\ UNCHANGED consumer

ManagerStep ==
    /\ \/ ResumeConsumer /\ UNCHANGED <<source, mResumeTime>>
       \/ ResumeSource /\ UNCHANGED <<consumer, mDecoderDictionary>>
       \/ Suspend /\ UNCHANGED <<mResumeTime, mDecoderDictionary>>
    /\ UNCHANGED changes
onChangeOfActiveDictionary ==
    /\ Change \/ ManagerStep
    /\ UNCHANGED <<busVars, socket, mCircularBuffPtr, wokeUpFromSleep, held, main>>

-----------------------------------------------------------------------------
(* disconnect, when the manager has ended: stop() of the consumer, which waits for the    *)
(* thread to end, then that of the source                                                 *)

StopFlag(t) == [t EXCEPT !.mShouldStop = TRUE]
Shutdown(from, to) == main = from /\ main' = to

StopConsumer(begin, end) ==
    \/ Shutdown(begin, "consumerFlag") /\ manager = "idle" /\ consumer' = StopFlag(consumer)
    \/ Shutdown("consumerFlag", "consumerNotify") /\ consumer' = Notified(consumer)
    \/ Shutdown("consumerNotify", end) /\ consumer.pc = "ended" /\ UNCHANGED consumer
StopSource(begin, end) ==
    \/ Shutdown(begin, "sourceFlag") /\ manager = "idle" /\ source' = StopFlag(source)
    \/ Shutdown("sourceFlag", "sourceNotify") /\ source' = Notified(source)
    \/ Shutdown("sourceNotify", end) /\ source.pc = "ended" /\ UNCHANGED source

DisconnectSourceFirst ==
    \/ StopSource("run", "next") /\ UNCHANGED consumer
    \/ StopConsumer("next", "done") /\ UNCHANGED source
Disconnect ==
    \/ StopConsumer("run", "next") /\ UNCHANGED source
    \/ StopSource("next", "done") /\ UNCHANGED consumer
disconnect ==
    /\ Disconnect
    /\ UNCHANGED <<busVars, socket, mCircularBuffPtr, wokeUpFromSleep, mResumeTime,
                   dictionaryVars, manager, changes>>

-----------------------------------------------------------------------------
(* The bus and the clock *)

Asleep(t) == t.pc = "sleep" /\ ~t.mNotify
SourceState == IF Asleep(source) THEN "asleep"
               ELSE IF source.mShouldSleep /\ manager = "idle" THEN "suspended" ELSE "awake"
\* What the socket adds to a frame, as connect() asks it to: the kernel's time, that of the
\* device, whose clock is its own, or none.
Stamps ==
    CASE mTimestampTypeToUse = "KERNEL_SOFTWARE_TIMESTAMP" -> {0, clock}
      [] mTimestampTypeToUse = "KERNEL_HARDWARE_TIMESTAMP" -> 0 .. MaxTime
      [] OTHER -> {0}
Frame ==
    /\ frames < MaxFrames
    /\ frames' = frames + 1
    /\ \E stamp \in Stamps :
          socket' = AtMost(SocketSize, Append(socket,
              [time |-> clock, stamp |-> stamp, source |-> SourceState]))
    /\ UNCHANGED <<clock, mCircularBuffPtr, source, wokeUpFromSleep, mResumeTime, consumer,
                   dictionaryVars, otherVars>>
Tick ==
    /\ clock < MaxTime
    /\ clock' = clock + 1
    /\ UNCHANGED <<frames, socket, mCircularBuffPtr, source, wokeUpFromSleep, mResumeTime, consumer,
                   dictionaryVars, otherVars>>

Next == SourceStep \/ ConsumerStep \/ onChangeOfActiveDictionary \/ disconnect \/ Frame \/ Tick
Spec == Init /\ [][Next]_vars

\* The threads are scheduled and a call that has begun goes on; nobody has to disconnect.
ManagerGoesOn == manager # "idle" /\ onChangeOfActiveDictionary
MainGoesOn == main # "run" /\ disconnect
Fairness ==
    /\ WF_vars(SourceStep) /\ WF_vars(ConsumerStep)
    /\ WF_vars(ManagerGoesOn) /\ WF_vars(MainGoesOn)
FairSpec == Spec /\ Fairness

-----------------------------------------------------------------------------
(* Properties *)

Frames == [time : Nat \ {0}, stamp : Nat, source : {"asleep", "suspended", "awake"}]
Thread(steps) == [pc : steps \cup {"check", "sleep", "idle", "ended"}, mShouldSleep : BOOLEAN,
                  mShouldStop : BOOLEAN, mNotify : BOOLEAN]

TypeOK ==
    /\ clock \in Nat \ {0} /\ frames \in 0 .. MaxFrames
    /\ socket \in Seq(Frames) /\ Len(socket) <= SocketSize
    /\ mCircularBuffPtr \in Seq(Frames) /\ Len(mCircularBuffPtr) <= BufferSize
    /\ source \in Thread({"receive"}) /\ consumer \in Thread({"dictionary", "pop"})
    /\ wokeUpFromSleep \in BOOLEAN /\ mResumeTime \in 0 .. clock
    /\ mDecoderDictionary \in 0 .. changes /\ held \in 0 .. changes
    /\ manager \in {"idle", "resume", "awake", "notify", "source", "sourceAwake", "sourceNotify",
                    "suspend", "suspendSource"}
    /\ main \in {"run", "consumerFlag", "consumerNotify", "next", "sourceFlag", "sourceNotify", "done"}

\* The consumer uses its dictionary without a test. It never has a frame to decode and no
\* dictionary, through all wake-ups, those of a stop included.
DictionaryThere == consumer.pc = "pop" /\ mCircularBuffPtr # <<>> => held # NoDictionary

\* A resume is not lost: a thread that may go on, or is to stop, does not sleep without a
\* notification being there or about to come.
WakeNotLost ==
    /\ Asleep(consumer) =>
          /\ ~consumer.mShouldSleep => manager = "notify"
          /\ consumer.mShouldStop => main = "consumerFlag"
    /\ Asleep(source) =>
          /\ ~source.mShouldSleep => manager = "sourceNotify"
          /\ source.mShouldStop => main = "sourceFlag"

Newcomers == {mCircularBuffPtr'[i] : i \in (Len(mCircularBuffPtr) + 1) .. Len(mCircularBuffPtr')}

\* The old frames that the socket collected while the source slept are ignored after the
\* resume, in whatever batches they are taken and whatever changes follow, if their timestamp
\* is the kernel's time of their arrival. Others are taken for new ones: see KernelQueueIgnored.
Stamped(f) == ~Polled(f) /\ f.stamp = f.time
SleptFramesIgnored ==
    [][Len(mCircularBuffPtr') > Len(mCircularBuffPtr) =>
          \A f \in Newcomers : f.source = "asleep" /\ Stamped(f) => f.time >= mResumeTime]_vars

\* "the channels and consumers must go to sleep": without a dictionary both threads come to
\* rest, whatever notifications were left over.
SuspendedSleeps ==
    /\ source.mShouldSleep ~> source.pc \in {"sleep", "ended"} \/ ~source.mShouldSleep
    /\ consumer.mShouldSleep ~> consumer.pc \in {"sleep", "ended"} \/ ~consumer.mShouldSleep

\* disconnect() returns, whatever the two threads were doing.
DisconnectEnds == main # "run" ~> main = "done"

\* Everything has its type, never more than fits comes into the buffer, and nothing stamped with
\* its arrival that the source slept through.
BufferKept == []TypeOK /\ SleptFramesIgnored

\* Both threads come to rest when they are told to, by a suspend or by a disconnect.
ThreadsComeToRest == SuspendedSleeps /\ DisconnectEnds

-----------------------------------------------------------------------------
(* What the comments say and the code does not do *)

\* "After waking up the Socket Can old messages in the kernel queue need to be ignored": with
\* every configuration, and whether or not the socket had a timestamp for them.
KernelQueueIgnored ==
    [][Len(mCircularBuffPtr') > Len(mCircularBuffPtr) =>
          \A f \in Newcomers : f.source = "asleep" => f.time >= mResumeTime]_vars

\* Also not, with the kernel's timestamps: what reached the socket while the
\* source was suspended, before it was resumed, is not put into the buffer.
OldFramesIgnored ==
    [][Len(mCircularBuffPtr') > Len(mCircularBuffPtr) =>
          \A f \in Newcomers : f.source # "awake" /\ Stamped(f) => f.time >= mResumeTime]_vars

=============================================================================
