-------------------------- MODULE CANChannelProofs --------------------------
(***************************************************************************)
(* The safety of a CAN channel for any sizes of its buffers and any number *)
(* of frames and dictionary changes: the consumer never decodes without a  *)
(* dictionary, and no wake-up of its two threads is lost.                  *)
(*                                                                         *)
(* What is in the buffer and in the socket plays no part in that, only     *)
(* whether there is anything. What comes into the buffer is the second     *)
(* part: nothing the source has slept through and that is from before the  *)
(* resume. The third is what the consumer decodes with: the dictionaries,  *)
(* entry by entry as they are made, and that they serve every scheme.      *)
(***************************************************************************)
EXTENDS CANChannel, DecoderDictionary, SequenceTheorems, WellFoundedInduction, TLAPS

\* The types of what controls the threads.
ControlOK ==
    /\ source \in Thread({"receive"}) /\ consumer \in Thread({"dictionary", "pop"})
    /\ changes \in Nat /\ mDecoderDictionary \in Nat
    /\ manager \in {"idle", "resume", "awake", "notify", "source", "sourceAwake", "sourceNotify",
                    "suspend", "suspendSource"}
    /\ main \in {"run", "consumerFlag", "consumerNotify", "next", "sourceFlag", "sourceNotify", "done"}

\* disconnect() comes after the manager, and the source after the consumer.
Order ==
    /\ main # "run" => manager = "idle"
    /\ manager # "idle" => changes # 0
    /\ main \in {"next", "sourceFlag", "sourceNotify", "done"} => consumer.pc = "ended"

\* Before the first dictionary only a stop gets a thread past its sleep; as the consumer is
\* stopped first, nothing is in the buffer while it still runs.
BeforeDictionary ==
    mDecoderDictionary = NoDictionary =>
        /\ manager \in {"idle", "resume", "suspend", "suspendSource"}
        /\ consumer.mShouldSleep
        /\ main \in {"run", "consumerFlag"} =>
              consumer.pc \in {"check", "sleep"} /\ ~consumer.mNotify
        /\ main \notin {"sourceNotify", "done"} =>
              /\ source.mShouldSleep /\ source.pc \in {"check", "sleep"} /\ ~source.mNotify
              /\ mCircularBuffPtr = <<>>

\* A thread that is to decode has no dictionary only where there was none.
HeldSound ==
    consumer.pc = "pop" /\ held = NoDictionary => mDecoderDictionary = NoDictionary

\* A thread about to test whether it should sleep, or asleep, has its notification, if it
\* is to stop, or gets it with the next step.
StopPending ==
    /\ consumer.mShouldStop /\ consumer.pc \in {"check", "sleep"} /\ ~consumer.mNotify
           => main = "consumerFlag"
    /\ source.mShouldStop /\ source.pc \in {"check", "sleep"} /\ ~source.mNotify
           => main = "sourceFlag"

IInv == ControlOK /\ Order /\ BeforeDictionary /\ HeldSound /\ StopPending /\ WakeNotLost

-----------------------------------------------------------------------------
(* Lemmas *)

\* The initial state: both threads asleep, no dictionary.
LEMMA InitIInv == Init => IInv
    BY DEF Init, IInv, ControlOK, Thread, Started, Order, BeforeDictionary, HeldSound, StopPending,
       WakeNotLost, Asleep, NoDictionary

\* onChangeOfActiveDictionary: the flag is there before the notification.
LEMMA ManagerKeeps ==
    ASSUME IInv, onChangeOfActiveDictionary, ManagerStep
    PROVE  IInv'
<1> DEFINE kept == <<mCircularBuffPtr, held, main, changes>>
<1>1. UNCHANGED kept /\ main = "run"
    BY DEF onChangeOfActiveDictionary, ManagerStep, ResumeConsumer, ResumeSource, Suspend, Step,
       IInv, Order, ControlOK
<1>2. source \in Thread({"receive"}) /\ consumer \in Thread({"dictionary", "pop"})
    BY DEF IInv, ControlOK
<1> USE <1>1 DEF IInv, ControlOK, Order, BeforeDictionary, HeldSound, StopPending, WakeNotLost, Asleep,
           NoDictionary
<1>3. CASE Step("resume", "awake")
  <2>1. mDecoderDictionary' = changes /\ UNCHANGED <<consumer, source>>
      BY <1>3 DEF ManagerStep, ResumeConsumer, ResumeSource, Suspend, Step
  <2> QED
      BY <1>3, <2>1 DEF Step
<1>4. CASE Step("awake", "notify")
  <2>1. consumer' = Sleeping(consumer, FALSE) /\ UNCHANGED <<mDecoderDictionary, source>>
      BY <1>4 DEF ManagerStep, ResumeConsumer, ResumeSource, Suspend, Step
  <2>2. /\ consumer' \in Thread({"dictionary", "pop"})
        /\ consumer'.pc = consumer.pc /\ (consumer'.mShouldStop <=> consumer.mShouldStop)
        /\ ~consumer'.mShouldSleep /\ (consumer'.mNotify <=> consumer.mNotify)
    <3> HIDE DEF IInv
    <3> QED
        BY <1>2, <2>1 DEF Thread, Sleeping, Notified
  <2> QED
      BY <1>4, <2>1, <2>2 DEF Step
<1>5. CASE Step("notify", "source")
  <2>1. consumer' = Notified(consumer) /\ UNCHANGED <<mDecoderDictionary, source>>
      BY <1>5 DEF ManagerStep, ResumeConsumer, ResumeSource, Suspend, Step
  <2>2. /\ consumer' \in Thread({"dictionary", "pop"})
        /\ consumer'.pc = consumer.pc /\ (consumer'.mShouldStop <=> consumer.mShouldStop)
        /\ consumer'.mNotify /\ (consumer'.mShouldSleep <=> consumer.mShouldSleep)
    <3> HIDE DEF IInv
    <3> QED
        BY <1>2, <2>1 DEF Thread, Sleeping, Notified
  <2> QED
      BY <1>5, <2>1, <2>2 DEF Step
<1>6. CASE Step("source", "sourceAwake")
  <2>1. UNCHANGED <<mDecoderDictionary, consumer, source>>
      BY <1>6 DEF ManagerStep, ResumeConsumer, ResumeSource, Suspend, Step
  <2> QED
      BY <1>6, <2>1 DEF Step
<1>7. CASE Step("sourceAwake", "sourceNotify")
  <2>1. source' = Sleeping(source, FALSE) /\ UNCHANGED <<mDecoderDictionary, consumer>>
      BY <1>7 DEF ManagerStep, ResumeConsumer, ResumeSource, Suspend, Step
  <2>2. /\ source' \in Thread({"receive"})
        /\ source'.pc = source.pc /\ (source'.mShouldStop <=> source.mShouldStop)
        /\ ~source'.mShouldSleep /\ (source'.mNotify <=> source.mNotify)
    <3> HIDE DEF IInv
    <3> QED
        BY <1>2, <2>1 DEF Thread, Sleeping, Notified
  <2> QED
      BY <1>7, <2>1, <2>2 DEF Step
<1>8. CASE Step("sourceNotify", "idle")
  <2>1. source' = Notified(source) /\ UNCHANGED <<mDecoderDictionary, consumer>>
      BY <1>8 DEF ManagerStep, ResumeConsumer, ResumeSource, Suspend, Step
  <2>2. /\ source' \in Thread({"receive"})
        /\ source'.pc = source.pc /\ (source'.mShouldStop <=> source.mShouldStop)
        /\ source'.mNotify /\ (source'.mShouldSleep <=> source.mShouldSleep)
    <3> HIDE DEF IInv
    <3> QED
        BY <1>2, <2>1 DEF Thread, Sleeping, Notified
  <2> QED
      BY <1>8, <2>1, <2>2 DEF Step
<1>9. CASE Step("suspend", "suspendSource")
  <2>1. consumer' = Sleeping(consumer, TRUE) /\ UNCHANGED <<mDecoderDictionary, source>>
      BY <1>9 DEF ManagerStep, ResumeConsumer, ResumeSource, Suspend, Step
  <2>2. /\ consumer' \in Thread({"dictionary", "pop"})
        /\ consumer'.pc = consumer.pc /\ (consumer'.mShouldStop <=> consumer.mShouldStop)
        /\ consumer'.mShouldSleep /\ (consumer'.mNotify <=> consumer.mNotify)
    <3> HIDE DEF IInv
    <3> QED
        BY <1>2, <2>1 DEF Thread, Sleeping, Notified
  <2> QED
      BY <1>9, <2>1, <2>2 DEF Step
<1>10. CASE Step("suspendSource", "idle")
  <2>1. source' = Sleeping(source, TRUE) /\ UNCHANGED <<mDecoderDictionary, consumer>>
      BY <1>10 DEF ManagerStep, ResumeConsumer, ResumeSource, Suspend, Step
  <2>2. /\ source' \in Thread({"receive"})
        /\ source'.pc = source.pc /\ (source'.mShouldStop <=> source.mShouldStop)
        /\ source'.mShouldSleep /\ (source'.mNotify <=> source.mNotify)
    <3> HIDE DEF IInv
    <3> QED
        BY <1>2, <2>1 DEF Thread, Sleeping, Notified
  <2> QED
      BY <1>10, <2>1, <2>2 DEF Step
<1> QED
    BY <1>3, <1>4, <1>5, <1>6, <1>7, <1>8, <1>9, <1>10
       DEF ManagerStep, ResumeConsumer, ResumeSource, Suspend

\* The source: it receives only when it was resumed or is stopped, and then the consumer, which
\* is stopped first, has ended or has a dictionary.
LEMMA SourceKeeps ==
    ASSUME IInv, SourceStep
    PROVE  IInv'
<1>1. source \in Thread({"receive"})
    BY DEF IInv, ControlOK
<1>2. UNCHANGED <<consumer, mDecoderDictionary, held, manager, changes, main>>
    BY DEF SourceStep, dictionaryVars, otherVars
<1> USE DEF IInv, ControlOK, Order, BeforeDictionary, HeldSound, StopPending, WakeNotLost, Asleep,
           NoDictionary
<1>3. CASE SourceCheck
  <2>1. /\ source' \in Thread({"receive"})
        /\ source'.pc = IF source.mShouldSleep THEN "sleep" ELSE "receive"
        /\ (source'.mNotify <=> source.mNotify)
        /\ (source'.mShouldSleep <=> source.mShouldSleep)
        /\ (source'.mShouldStop <=> source.mShouldStop)
    <3> HIDE DEF IInv
    <3> QED
        BY <1>3, <1>1 DEF SourceCheck, Thread, Woken, Checked, Again
  <2> QED
      BY <1>3, <1>1, <1>2, <2>1 DEF SourceStep, SourceCheck, SourceReceive
<1>4. CASE SourceWoken
  <2>1. /\ source' \in Thread({"receive"})
        /\ source'.pc = "receive" /\ ~source'.mNotify
        /\ (source'.mShouldSleep <=> source.mShouldSleep)
        /\ (source'.mShouldStop <=> source.mShouldStop)
    <3> HIDE DEF IInv
    <3> QED
        BY <1>4, <1>1 DEF SourceWoken, Thread, Woken, Checked, Again
  <2> QED
      BY <1>4, <1>1, <1>2, <2>1 DEF SourceStep, SourceWoken, SourceReceive
<1>5. CASE SourceReceive
  <2>1. /\ source' \in Thread({"receive"})
        /\ source'.pc = IF source.mShouldStop THEN "ended" ELSE "check"
        /\ (source'.mNotify <=> source.mNotify)
        /\ (source'.mShouldSleep <=> source.mShouldSleep)
        /\ (source'.mShouldStop <=> source.mShouldStop)
    <3> HIDE DEF IInv
    <3> QED
        BY <1>5, <1>1 DEF SourceReceive, Thread, Woken, Checked, Again
  <2> QED
      BY <1>5, <1>1, <1>2, <2>1 DEF SourceReceive
<1>6. CASE SourceNothing
  <2>1. /\ source' \in Thread({"receive"})
        /\ source'.pc = "idle" /\ (source'.mNotify <=> source.mNotify)
        /\ (source'.mShouldSleep <=> source.mShouldSleep)
        /\ (source'.mShouldStop <=> source.mShouldStop)
    <3> HIDE DEF IInv
    <3> QED
        BY <1>6, <1>1 DEF SourceNothing, Thread, Woken, Checked, Again
  <2> QED
      BY <1>6, <1>1, <1>2, <2>1 DEF SourceStep, SourceNothing, SourceReceive
<1>7. CASE SourceIdle
  <2>1. /\ source' \in Thread({"receive"})
        /\ source'.pc = IF source.mShouldStop THEN "ended" ELSE "check"
        /\ ~source'.mNotify
        /\ (source'.mShouldSleep <=> source.mShouldSleep)
        /\ (source'.mShouldStop <=> source.mShouldStop)
    <3> HIDE DEF IInv
    <3> QED
        BY <1>7, <1>1 DEF SourceIdle, Thread, Woken, Checked, Again
  <2> QED
      BY <1>7, <1>1, <1>2, <2>1 DEF SourceStep, SourceIdle, SourceReceive
<1> QED
    BY <1>3, <1>4, <1>5, <1>6, <1>7 DEF SourceStep

\* The consumer: it takes what there is at that moment, which may be none.
LEMMA ConsumerKeeps ==
    ASSUME IInv, ConsumerStep
    PROVE  IInv'
<1>1. consumer \in Thread({"dictionary", "pop"})
    BY DEF IInv, ControlOK
<1>2. UNCHANGED <<source, mDecoderDictionary, manager, changes, main>>
    BY DEF ConsumerStep, otherVars
<1> USE DEF IInv, ControlOK, Order, BeforeDictionary, HeldSound, StopPending, WakeNotLost, Asleep,
           NoDictionary
<1>3. CASE ConsumerCheck
  <2>1. /\ consumer' \in Thread({"dictionary", "pop"})
        /\ consumer'.pc = IF consumer.mShouldSleep THEN "sleep" ELSE "dictionary"
        /\ (consumer'.mNotify <=> consumer.mNotify)
        /\ (consumer'.mShouldSleep <=> consumer.mShouldSleep)
        /\ (consumer'.mShouldStop <=> consumer.mShouldStop)
    <3> HIDE DEF IInv
    <3> QED
        BY <1>3, <1>1 DEF ConsumerCheck, Thread, Woken, Checked, Again
  <2> QED
      BY <1>3, <1>1, <1>2, <2>1 DEF ConsumerCheck
<1>4. CASE ConsumerWoken
  <2>1. /\ consumer' \in Thread({"dictionary", "pop"})
        /\ consumer'.pc = "dictionary" /\ ~consumer'.mNotify
        /\ (consumer'.mShouldSleep <=> consumer.mShouldSleep)
        /\ (consumer'.mShouldStop <=> consumer.mShouldStop)
    <3> HIDE DEF IInv
    <3> QED
        BY <1>4, <1>1 DEF ConsumerWoken, Thread, Woken, Checked, Again
  <2> QED
      BY <1>4, <1>1, <1>2, <2>1 DEF ConsumerWoken
<1>5. CASE TakeDictionary
  <2>1. /\ consumer' \in Thread({"dictionary", "pop"})
        /\ consumer'.pc = "pop" /\ (consumer'.mNotify <=> consumer.mNotify)
        /\ (consumer'.mShouldSleep <=> consumer.mShouldSleep)
        /\ (consumer'.mShouldStop <=> consumer.mShouldStop)
    <3> HIDE DEF IInv
    <3> QED
        BY <1>5, <1>1 DEF TakeDictionary, Thread, Woken, Checked, Again
  <2> QED
      BY <1>5, <1>1, <1>2, <2>1 DEF TakeDictionary
<1>6. CASE Decode
  <2>1. /\ consumer' \in Thread({"dictionary", "pop"})
        /\ consumer'.pc = IF consumer.mShouldStop THEN "ended" ELSE "check"
        /\ (consumer'.mNotify <=> consumer.mNotify)
        /\ (consumer'.mShouldSleep <=> consumer.mShouldSleep)
        /\ (consumer'.mShouldStop <=> consumer.mShouldStop)
    <3> HIDE DEF IInv
    <3> QED
        BY <1>6, <1>1 DEF Decode, Thread, Woken, Checked, Again
  <2> QED
      BY <1>6, <1>1, <1>2, <2>1 DEF Decode
<1>7. CASE ConsumerNothing
  <2>1. /\ consumer' \in Thread({"dictionary", "pop"})
        /\ consumer'.pc = "idle" /\ (consumer'.mNotify <=> consumer.mNotify)
        /\ (consumer'.mShouldSleep <=> consumer.mShouldSleep)
        /\ (consumer'.mShouldStop <=> consumer.mShouldStop)
    <3> HIDE DEF IInv
    <3> QED
        BY <1>7, <1>1 DEF ConsumerNothing, Thread, Woken, Checked, Again
  <2> QED
      BY <1>7, <1>1, <1>2, <2>1 DEF ConsumerNothing
<1>8. CASE ConsumerIdle
  <2>1. /\ consumer' \in Thread({"dictionary", "pop"})
        /\ consumer'.pc = IF consumer.mShouldStop THEN "ended" ELSE "check"
        /\ ~consumer'.mNotify
        /\ (consumer'.mShouldSleep <=> consumer.mShouldSleep)
        /\ (consumer'.mShouldStop <=> consumer.mShouldStop)
    <3> HIDE DEF IInv
    <3> QED
        BY <1>8, <1>1 DEF ConsumerIdle, Thread, Woken, Checked, Again
  <2> QED
      BY <1>8, <1>1, <1>2, <2>1 DEF ConsumerIdle
<1> QED
    BY <1>3, <1>4, <1>5, <1>6, <1>7, <1>8 DEF ConsumerStep

\* disconnect: the flag is there before the notification, and the source is stopped only when
\* the consumer has ended.
LEMMA DisconnectKeeps ==
    ASSUME IInv, disconnect
    PROVE  IInv'
<1>1. UNCHANGED <<mCircularBuffPtr, mDecoderDictionary, held, manager, changes>>
    BY DEF disconnect, dictionaryVars
<1>2. source \in Thread({"receive"}) /\ consumer \in Thread({"dictionary", "pop"})
    BY DEF IInv, ControlOK
<1> USE DEF IInv, ControlOK, Order, BeforeDictionary, HeldSound, StopPending, WakeNotLost, Asleep,
           NoDictionary
<1>3. CASE Shutdown("run", "consumerFlag") /\ manager = "idle" /\ consumer' = StopFlag(consumer)
       /\ UNCHANGED source
  <2>1. /\ consumer' \in Thread({"dictionary", "pop"})
        /\ consumer'.pc = consumer.pc /\ consumer'.mShouldStop
        /\ (consumer'.mShouldSleep <=> consumer.mShouldSleep)
        /\ (consumer'.mNotify <=> consumer.mNotify)
    <3> HIDE DEF IInv
    <3> QED
        BY <1>3, <1>2 DEF Thread, StopFlag
  <2> QED
      BY <1>1, <1>2, <1>3, <2>1 DEF Shutdown
<1>4. CASE Shutdown("consumerFlag", "consumerNotify") /\ consumer' = Notified(consumer)
       /\ UNCHANGED source
  <2>1. /\ consumer' \in Thread({"dictionary", "pop"})
        /\ consumer'.pc = consumer.pc /\ consumer'.mNotify
        /\ (consumer'.mShouldSleep <=> consumer.mShouldSleep)
        /\ (consumer'.mShouldStop <=> consumer.mShouldStop)
    <3> HIDE DEF IInv
    <3> QED
        BY <1>4, <1>2 DEF Thread, Notified
  <2> QED
      BY <1>1, <1>2, <1>4, <2>1 DEF Shutdown
<1>5. CASE Shutdown("consumerNotify", "next") /\ consumer.pc = "ended" /\ UNCHANGED <<consumer, source>>
    BY <1>1, <1>2, <1>5 DEF Shutdown
<1>6. CASE Shutdown("next", "sourceFlag") /\ manager = "idle" /\ source' = StopFlag(source)
       /\ UNCHANGED consumer
  <2>1. /\ source' \in Thread({"receive"})
        /\ source'.pc = source.pc /\ source'.mShouldStop
        /\ (source'.mShouldSleep <=> source.mShouldSleep)
        /\ (source'.mNotify <=> source.mNotify)
    <3> HIDE DEF IInv
    <3> QED
        BY <1>6, <1>2 DEF Thread, StopFlag
  <2> QED
      BY <1>1, <1>2, <1>6, <2>1 DEF Shutdown
<1>7. CASE Shutdown("sourceFlag", "sourceNotify") /\ source' = Notified(source)
       /\ UNCHANGED consumer
  <2>1. /\ source' \in Thread({"receive"})
        /\ source'.pc = source.pc /\ source'.mNotify
        /\ (source'.mShouldSleep <=> source.mShouldSleep)
        /\ (source'.mShouldStop <=> source.mShouldStop)
    <3> HIDE DEF IInv
    <3> QED
        BY <1>7, <1>2 DEF Thread, Notified
  <2> QED
      BY <1>1, <1>2, <1>7, <2>1 DEF Shutdown
<1>8. CASE Shutdown("sourceNotify", "done") /\ source.pc = "ended" /\ UNCHANGED <<consumer, source>>
    BY <1>1, <1>2, <1>8 DEF Shutdown
<1> QED
    BY <1>3, <1>4, <1>5, <1>6, <1>7, <1>8 DEF disconnect, Disconnect, StopConsumer, StopSource

\* Every step of the four threads, of the bus and of the clock keeps the invariant.
LEMMA StepIInv == IInv /\ [Next]_vars => IInv'
<1> SUFFICES ASSUME IInv, [Next]_vars PROVE IInv'
    OBVIOUS
<1> USE DEF IInv, ControlOK, Order, BeforeDictionary, HeldSound, StopPending, WakeNotLost, Asleep,
           busVars, dictionaryVars, otherVars
<1>1. CASE SourceStep
    BY <1>1, SourceKeeps
<1>2. CASE ConsumerStep
    BY <1>2, ConsumerKeeps
<1>3. CASE onChangeOfActiveDictionary /\ Change
    BY <1>3 DEF onChangeOfActiveDictionary, Change, Step
<1>4. CASE onChangeOfActiveDictionary /\ ManagerStep
    BY <1>4, ManagerKeeps
<1>5. CASE disconnect
    BY <1>5, DisconnectKeeps
<1>6. CASE Frame
    BY <1>6 DEF Frame
<1>7. CASE Tick
    BY <1>7 DEF Tick
<1>8. CASE UNCHANGED vars
    BY <1>8 DEF vars
<1> QED
    BY <1>1, <1>2, <1>3, <1>4, <1>5, <1>6, <1>7, <1>8
       DEF Next, onChangeOfActiveDictionary

-----------------------------------------------------------------------------
(* What is in the buffer *)

\* A frame the source has slept through is in the socket only as long as the source sleeps on, or
\* has not idled since it was woken.
SleptUntaken ==
    \A i \in 1 .. Len(socket) :
        socket[i].source = "asleep" => source.pc = "sleep" \/ (wokeUpFromSleep /\ source.pc # "idle")

\* The types of what passes through the channel.
DataOK ==
    /\ clock \in Nat \ {0} /\ frames \in 0 .. MaxFrames
    /\ socket \in Seq(Frames) /\ Len(socket) <= SocketSize
    /\ mCircularBuffPtr \in Seq(Frames) /\ Len(mCircularBuffPtr) <= BufferSize
    /\ wokeUpFromSleep \in BOOLEAN /\ mResumeTime \in 0 .. clock
    /\ mDecoderDictionary \in 0 .. changes /\ held \in 0 .. changes

BufferInv == DataOK /\ SleptUntaken

\* The buffer after each of the received frames.
IsAfter(after, fs) ==
    after = [i \in 0 .. Len(fs) |-> IF i = 0 THEN mCircularBuffPtr ELSE Pushed(after[i - 1], fs[i])]
After(fs) == CHOOSE after : IsAfter(after, fs)

\* What holds for 0 and passes from each number up to n to the next holds up to n.
LEMMA UpTo ==
    ASSUME NEW n \in Nat, NEW S, 0 \in S, \A i \in 1 .. n : i - 1 \in S => i \in S
    PROVE  \A i \in 0 .. n : i \in S
<1> SUFFICES ASSUME NEW k \in 0 .. n, k \notin S
             PROVE  FALSE
    OBVIOUS
<1> DEFINE left == {i \in 0 .. n : i \notin S}
<1>1. left \subseteq Nat /\ left # {}
    OBVIOUS
<1>2. PICK x \in left : \A y \in left : ~(<<y, x>> \in OpToRel(<, Nat))
    BY <1>1, NatLessThanWellFounded, WFMin
<1>3. ASSUME x - 1 \in left
      PROVE  <<x - 1, x>> \in OpToRel(<, Nat)
  <2>1. <<x - 1, x>> \in Nat \X Nat /\ x - 1 < x
      BY <1>3
  <2> QED
      BY <2>1 DEF OpToRel
<1>4. x - 1 \notin left
    BY <1>2, <1>3
<1>5. x \in 0 .. n /\ x \notin S
    BY <1>2
<1> HIDE DEF left
<1>6. x \in 1 .. n /\ x - 1 \in 0 .. n
    BY <1>5
<1>7. x - 1 \in S
    BY <1>4, <1>6 DEF left
<1> QED
    BY <1>5, <1>6, <1>7

\* The buffer is defined after each of the received frames.
LEMMA AfterExists ==
    ASSUME NEW fs \in Seq(Frames)
    PROVE  IsAfter(After(fs), fs)
<1> DEFINE n == Len(fs)
           Prefix(g, k) == g = [i \in 0 .. k |-> IF i = 0 THEN mCircularBuffPtr
                                                 ELSE Pushed(g[i - 1], fs[i])]
           S == {k \in 0 .. n : \E g : Prefix(g, k)}
<1>0. n \in Nat
    OBVIOUS
<1> HIDE DEF n
<1>1. 0 \in S
  <2> DEFINE g == [i \in 0 .. 0 |-> mCircularBuffPtr]
  <2>1. g = [i \in 0 .. 0 |-> IF i = 0 THEN mCircularBuffPtr ELSE Pushed(g[i - 1], fs[i])]
      OBVIOUS
  <2>2. \E h : Prefix(h, 0)
      BY <2>1
  <2> QED
      BY <1>0, <2>2
<1>2. ASSUME NEW k \in 1 .. n, k - 1 \in S
      PROVE  k \in S
  <2>1. PICK f : Prefix(f, k - 1)
      BY <1>2
  <2> DEFINE g == [i \in 0 .. k |-> IF i = k THEN Pushed(f[k - 1], fs[k]) ELSE f[i]]
  <2>2. \A i \in 0 .. k - 1 : f[i] = IF i = 0 THEN mCircularBuffPtr ELSE Pushed(f[i - 1], fs[i])
      BY <2>1
  <2>3. \A i \in 0 .. k : g[i] = IF i = 0 THEN mCircularBuffPtr ELSE Pushed(g[i - 1], fs[i])
      BY <1>0, <2>2
  <2>4. g = [i \in 0 .. k |-> g[i]]
      OBVIOUS
  <2> HIDE DEF g
  <2>5. Prefix(g, k)
      BY <2>3, <2>4
  <2> QED
      BY <2>5
<1>3. \E g : Prefix(g, n)
  <2> HIDE DEF S
  <2>1. \A i \in 0 .. n : i \in S
      BY <1>0, <1>1, <1>2, UpTo
  <2>2. n \in S
      BY <1>0, <2>1
  <2> QED
      BY <2>2 DEF S
<1>4. \E g : IsAfter(g, fs)
    BY <1>3 DEF IsAfter, n
<1> QED
    BY <1>4 DEF After

\* What is pushed comes last, if it is fresh and there is room.
LEMMA PushedIs ==
    ASSUME NEW buff \in Seq(Frames), Len(buff) <= BufferSize, NEW f \in Frames
    PROVE  /\ Pushed(buff, f) \in Seq(Frames) /\ Len(Pushed(buff, f)) <= BufferSize
           /\ Pushed(buff, f) = buff \/ (Pushed(buff, f) = Append(buff, f) /\ Fresh(f))
<1>1. CASE Fresh(f) /\ Len(buff) < BufferSize
  <2>1. Append(buff, f) \in Seq(Frames) /\ Len(Append(buff, f)) = Len(buff) + 1
      OBVIOUS
  <2> QED
      BY <1>1, <2>1, SizesAssumption DEF Pushed
<1>2. CASE ~(Fresh(f) /\ Len(buff) < BufferSize)
  <2>1. Pushed(buff, f) = buff
      BY <1>2 DEF Pushed
  <2> QED
      BY <2>1
<1> QED
    BY <1>1, <1>2

\* What the buffer may be after a received frame: what it was, and then fresh frames.
Grown(b, fs) ==
    /\ b \in Seq(Frames) /\ Len(b) <= BufferSize /\ Len(mCircularBuffPtr) <= Len(b)
    /\ \A i \in Len(mCircularBuffPtr) + 1 .. Len(b) : \E j \in 1 .. Len(fs) : b[i] = fs[j] /\ Fresh(fs[j])

\* Only fresh frames come into the buffer, at most as many as fit.
LEMMA ReceivedIs ==
    ASSUME NEW fs \in Seq(Frames), mCircularBuffPtr \in Seq(Frames),
           Len(mCircularBuffPtr) <= BufferSize
    PROVE  Grown(Received(fs), fs)
<1> DEFINE n == Len(fs)
           m == Len(mCircularBuffPtr)
           after == After(fs)
           S == {k \in 0 .. n : Grown(after[k], fs)}
<1>0. n \in Nat /\ m \in Nat /\ (\A i \in 1 .. n : fs[i] \in Frames)
    OBVIOUS
<1>1. Received(fs) = after[n]
    BY DEF Received, After, IsAfter
<1>2. \A i \in 0 .. n : after[i] = IF i = 0 THEN mCircularBuffPtr ELSE Pushed(after[i - 1], fs[i])
  <2> HIDE DEF after
  <2>1. IsAfter(after, fs)
      BY AfterExists DEF after
  <2> QED
      BY <2>1 DEF IsAfter
<1> HIDE DEF n, m, after
<1>3. 0 \in S
  <2>1. after[0] = mCircularBuffPtr
      BY <1>0, <1>2
  <2>2. \A i \in m + 1 .. m : FALSE
      BY <1>0
  <2>3. Grown(after[0], fs)
      BY <2>1, <2>2 DEF Grown, m
  <2> QED
      BY <1>0, <2>3
<1>4. ASSUME NEW k \in 1 .. n, k - 1 \in S
      PROVE  k \in S
  <2> DEFINE b == after[k - 1]
             c == after[k]
  <2>1. Grown(b, fs) /\ fs[k] \in Frames /\ k \in Nat
      BY <1>0, <1>4
  <2>2. c = Pushed(b, fs[k])
      BY <1>0, <1>2
  <2> HIDE DEF b, c
  <2>3. /\ c \in Seq(Frames) /\ Len(c) <= BufferSize
        /\ c = b \/ (c = Append(b, fs[k]) /\ Fresh(fs[k]))
      BY <2>1, <2>2, PushedIs DEF Grown
  <2>4. ASSUME c = Append(b, fs[k]) /\ Fresh(fs[k])
        PROVE  Grown(c, fs)
    <3>1. b \in Seq(Frames) /\ Len(b) \in Nat /\ m <= Len(b)
        BY <2>1 DEF Grown, m
    <3>2. Len(c) = Len(b) + 1 /\ c[Len(b) + 1] = fs[k] /\ \A i \in 1 .. Len(b) : c[i] = b[i]
        BY <2>1, <2>4, <3>1
    <3>3. ASSUME NEW i \in m + 1 .. Len(c)
          PROVE  \E j \in 1 .. n : c[i] = fs[j] /\ Fresh(fs[j])
      <4>1. CASE i = Len(b) + 1
          BY <1>0, <2>4, <3>2, <4>1
      <4>2. CASE i # Len(b) + 1
        <5>1. i \in m + 1 .. Len(b) /\ i \in 1 .. Len(b)
            BY <1>0, <3>1, <3>2, <4>2
        <5>2. \E j \in 1 .. n : b[i] = fs[j] /\ Fresh(fs[j])
            BY <2>1, <5>1 DEF Grown, m, n
        <5> QED
            BY <3>2, <5>1, <5>2
      <4> QED
          BY <4>1, <4>2
    <3>4. m <= Len(c)
        BY <1>0, <3>1, <3>2
    <3> QED
        BY <2>3, <3>3, <3>4 DEF Grown, m, n
  <2>5. Grown(c, fs)
      BY <2>1, <2>3, <2>4
  <2> QED
      BY <2>5 DEF c
<1>5. n \in S
  <2> HIDE DEF S
  <2>1. \A i \in 0 .. n : i \in S
      BY <1>0, <1>3, <1>4, UpTo
  <2> QED
      BY <1>0, <2>1
<1> QED
    BY <1>1, <1>5

\* The first frames of the socket, and the others.
LEMMA SplitSocket ==
    ASSUME NEW s \in Seq(Frames), NEW k \in Nat
    PROVE  /\ AtMost(k, s) \in Seq(Frames) /\ Len(AtMost(k, s)) <= k /\ Len(AtMost(k, s)) <= Len(s)
           /\ \A i \in 1 .. Len(AtMost(k, s)) : AtMost(k, s)[i] = s[i]
           /\ Beyond(k, s) \in Seq(Frames) /\ Len(Beyond(k, s)) <= Len(s)
           /\ \A i \in 1 .. Len(Beyond(k, s)) : \E j \in 1 .. Len(s) : Beyond(k, s)[i] = s[j]
<1> DEFINE n == IF k < Len(s) THEN k ELSE Len(s)
           a == AtMost(k, s)
           b == Beyond(k, s)
           len == Len(s)
<1>1. len \in Nat /\ \A i \in 1 .. len : s[i] \in Frames
    OBVIOUS
<1>2. n \in 0 .. len /\ n <= k
    BY <1>1
<1>3. a = SubSeq(s, 1, n) /\ b = SubSeq(s, k + 1, len)
    BY DEF AtMost, Beyond
<1> HIDE DEF n, a, b, len
<1>4. /\ SubSeq(s, 1, n) \in Seq(Frames)
      /\ Len(SubSeq(s, 1, n)) = IF 1 <= n THEN n - 1 + 1 ELSE 0
      /\ \A i \in 1 .. n - 1 + 1 : SubSeq(s, 1, n)[i] = s[1 + i - 1]
  <2>1. 1 \in Int /\ n \in Int /\ \A i \in 1 .. n : s[i] \in Frames
      BY <1>1, <1>2
  <2> QED
      BY <2>1, SubSeqProperties
<1>5. /\ SubSeq(s, k + 1, len) \in Seq(Frames)
      /\ Len(SubSeq(s, k + 1, len)) = IF k + 1 <= len THEN len - (k + 1) + 1 ELSE 0
      /\ \A i \in 1 .. len - (k + 1) + 1 : SubSeq(s, k + 1, len)[i] = s[(k + 1) + i - 1]
  <2>1. k + 1 \in Int /\ len \in Int /\ \A i \in k + 1 .. len : s[i] \in Frames
      BY <1>1
  <2> QED
      BY <2>1, SubSeqProperties
<1>6. Len(a) = n /\ a \in Seq(Frames) /\ \A i \in 1 .. n : a[i] = s[i]
    BY <1>2, <1>3, <1>4
<1>7. /\ b \in Seq(Frames) /\ Len(b) <= len
      /\ \A i \in 1 .. Len(b) : b[i] = s[k + i] /\ k + i \in 1 .. len
    BY <1>1, <1>3, <1>5
<1> QED
    BY <1>1, <1>2, <1>6, <1>7 DEF a, b, len

\* The source: it takes the frames it has slept through before it idles for the first time.
LEMMA SourceKeepsBuffer ==
    ASSUME IInv, BufferInv, SourceStep
    PROVE  BufferInv'
<1>1. source \in Thread({"receive"})
    BY DEF IInv, ControlOK
<1>2. UNCHANGED <<clock, frames, mResumeTime, mDecoderDictionary, held, changes>>
    BY DEF SourceStep, busVars, dictionaryVars, otherVars
<1>3. ASSUME UNCHANGED <<socket, mCircularBuffPtr>>, wokeUpFromSleep' \in BOOLEAN
      PROVE  DataOK'
    BY <1>2, <1>3 DEF BufferInv, DataOK
<1>4. CASE (SourceCheck \/ SourceWoken \/ SourceNothing \/ SourceIdle) /\ UNCHANGED <<socket, mCircularBuffPtr>>
  <2>1. wokeUpFromSleep' \in BOOLEAN
      BY <1>4 DEF SourceCheck, SourceWoken, SourceNothing, SourceIdle, BufferInv, DataOK
  <2>2. ASSUME SourceCheck
        PROVE  SleptUntaken'
    <3>1. source.pc = "check" /\ source'.pc \in {"sleep", "receive"} /\ UNCHANGED wokeUpFromSleep
        BY <1>1, <2>2 DEF SourceCheck, Checked, Thread
    <3> QED
        BY <1>4, <3>1 DEF BufferInv, SleptUntaken
  <2>3. ASSUME SourceWoken
        PROVE  SleptUntaken'
    <3>1. source'.pc = "receive" /\ wokeUpFromSleep'
        BY <1>1, <2>3 DEF SourceWoken, Woken, Thread
    <3> QED
        BY <3>1 DEF SleptUntaken
  <2>4. ASSUME SourceNothing
        PROVE  SleptUntaken'
    <3>1. socket' = <<>>
        BY <1>4, <2>4 DEF SourceNothing
    <3> QED
        BY <3>1 DEF SleptUntaken
  <2>5. ASSUME SourceIdle
        PROVE  SleptUntaken'
    <3>1. source.pc = "idle"
        BY <2>5 DEF SourceIdle
    <3> QED
        BY <1>4, <3>1 DEF BufferInv, SleptUntaken
  <2>6. SleptUntaken'
      BY <1>4, <2>2, <2>3, <2>4, <2>5
  <2> QED
      BY <1>3, <1>4, <2>1, <2>6 DEF BufferInv
<1>5. CASE SourceReceive
  <2> DEFINE fs == AtMost(Batch, socket)
             rest == Beyond(Batch, socket)
  <2>1. /\ socket' = rest /\ mCircularBuffPtr' = Received(fs) /\ UNCHANGED wokeUpFromSleep
        /\ source.pc = "receive" /\ source'.pc \in {"ended", "check"}
      BY <1>1, <1>5 DEF SourceReceive, AfterReceive, Again, Thread
  <2>2. /\ socket \in Seq(Frames) /\ Len(socket) <= SocketSize
        /\ mCircularBuffPtr \in Seq(Frames) /\ Len(mCircularBuffPtr) <= BufferSize
      BY DEF BufferInv, DataOK
  <2>3. /\ fs \in Seq(Frames) /\ rest \in Seq(Frames) /\ Len(rest) <= Len(socket)
        /\ \A i \in 1 .. Len(rest) : \E j \in 1 .. Len(socket) : rest[i] = socket[j]
      BY <2>2, SplitSocket, SizesAssumption
  <2> HIDE DEF fs, rest
  <2>4. Received(fs) \in Seq(Frames) /\ Len(Received(fs)) <= BufferSize
      BY <2>2, <2>3, ReceivedIs DEF Grown
  <2>5. Len(rest) <= SocketSize
      BY <2>2, <2>3, SizesAssumption
  <2>6. DataOK'
      BY <1>2, <2>1, <2>3, <2>4, <2>5 DEF BufferInv, DataOK
  <2>7. SleptUntaken'
      BY <2>1, <2>3 DEF BufferInv, SleptUntaken
  <2> QED
      BY <2>6, <2>7 DEF BufferInv
<1> QED
    BY <1>4, <1>5 DEF SourceStep

\* The bus: a frame that comes while the source sleeps is one it sleeps through.
LEMMA FrameKeepsBuffer ==
    ASSUME IInv, BufferInv, Frame
    PROVE  BufferInv'
<1> PICK stamp \in Stamps : socket' = AtMost(SocketSize, Append(socket,
                                   [time |-> clock, stamp |-> stamp, source |-> SourceState]))
    BY DEF Frame
<1> DEFINE f == [time |-> clock, stamp |-> stamp, source |-> SourceState]
           longer == Append(socket, f)
           a == AtMost(SocketSize, longer)
<1>1. /\ frames < MaxFrames /\ frames' = frames + 1 /\ socket' = a
      /\ UNCHANGED <<clock, mCircularBuffPtr, source, wokeUpFromSleep, mResumeTime,
                     mDecoderDictionary, held, changes>>
    BY DEF Frame, dictionaryVars, otherVars
<1>2. /\ socket \in Seq(Frames) /\ Len(socket) <= SocketSize /\ clock \in Nat \ {0}
      /\ source \in Thread({"receive"})
    BY DEF IInv, ControlOK, BufferInv, DataOK
<1>3. f \in Frames /\ (f.source = "asleep" => source.pc = "sleep")
  <2>1. stamp \in Nat
      BY <1>2, SizesAssumption DEF Stamps
  <2>2. SourceState \in {"asleep", "suspended", "awake"} /\ (SourceState = "asleep" => source.pc = "sleep")
      BY DEF SourceState, Asleep
  <2> HIDE DEF Frame
  <2>3. f \in Frames /\ f.source = SourceState
      BY <1>2, <2>1, <2>2 DEF Frames
  <2> QED
      BY <2>2, <2>3
<1> HIDE DEF f
<1>4. /\ longer \in Seq(Frames) /\ Len(longer) = Len(socket) + 1 /\ Len(socket) \in Nat
      /\ longer[Len(socket) + 1] = f /\ \A i \in 1 .. Len(socket) : longer[i] = socket[i]
    BY <1>2, <1>3
<1> HIDE DEF longer
<1>5. /\ a \in Seq(Frames) /\ Len(a) <= SocketSize /\ Len(a) \in Nat /\ Len(a) <= Len(socket) + 1
      /\ \A i \in 1 .. Len(a) : a[i] = longer[i]
  <2>1. SocketSize \in Nat
      BY SizesAssumption
  <2> QED
      BY <1>4, <2>1, SplitSocket
<1> HIDE DEF a
<1>6. DataOK'
    BY <1>1, <1>5, SizesAssumption DEF BufferInv, DataOK
<1>7. \A i \in 1 .. Len(a) : a[i] = f \/ \E j \in 1 .. Len(socket) : a[i] = socket[j]
    BY <1>4, <1>5
<1>8. SleptUntaken'
    BY <1>1, <1>3, <1>7 DEF BufferInv, SleptUntaken
<1> QED
    BY <1>6, <1>8 DEF BufferInv

\* The other threads leave the socket alone; the consumer only takes from the buffer.
LEMMA StepBufferInv == IInv /\ BufferInv /\ [Next]_vars => BufferInv'
<1> SUFFICES ASSUME IInv, BufferInv, [Next]_vars
             PROVE  BufferInv'
    OBVIOUS
<1>1. /\ source \in Thread({"receive"}) /\ changes \in Nat
      /\ DataOK /\ SleptUntaken
    BY DEF IInv, ControlOK, BufferInv
<1>2. ASSUME UNCHANGED <<socket, wokeUpFromSleep>>, source'.pc = source.pc
      PROVE  SleptUntaken'
    BY <1>1, <1>2 DEF SleptUntaken
<1>3. CASE SourceStep
    BY <1>3, SourceKeepsBuffer
<1>4. CASE ConsumerStep
  <2>1. /\ UNCHANGED <<clock, frames, socket, source, wokeUpFromSleep, mResumeTime, mDecoderDictionary, changes>>
        /\ held' \in {held, mDecoderDictionary, NoDictionary}
        /\ UNCHANGED mCircularBuffPtr \/ (mCircularBuffPtr # <<>> /\ mCircularBuffPtr' = Tail(mCircularBuffPtr))
      BY <1>4 DEF ConsumerStep, busVars, otherVars, ConsumerCheck, ConsumerWoken, TakeDictionary, Decode,
         ConsumerNothing, ConsumerIdle
  <2>2. mCircularBuffPtr' \in Seq(Frames) /\ Len(mCircularBuffPtr') <= BufferSize
      BY <1>1, <2>1, SizesAssumption DEF DataOK
  <2>3. DataOK'
      BY <1>1, <2>1, <2>2 DEF DataOK, NoDictionary
  <2> QED
      BY <1>2, <2>1, <2>3 DEF BufferInv
<1>5. CASE onChangeOfActiveDictionary
  <2>1. UNCHANGED <<clock, frames, socket, mCircularBuffPtr, wokeUpFromSleep, held>>
      BY <1>5 DEF onChangeOfActiveDictionary, busVars
  <2>2. /\ source'.pc = source.pc /\ changes' \in {changes, changes + 1}
        /\ mResumeTime' \in {mResumeTime, clock}
        /\ mDecoderDictionary' \in {mDecoderDictionary, changes}
      BY <1>1, <1>5 DEF onChangeOfActiveDictionary, Change, ManagerStep, ResumeConsumer, ResumeSource, Suspend,
         Sleeping, Notified, Thread
  <2>3. DataOK'
      BY <1>1, <2>1, <2>2 DEF DataOK
  <2> QED
      BY <1>2, <2>1, <2>2, <2>3 DEF BufferInv
<1>6. CASE disconnect
  <2>1. /\ UNCHANGED <<clock, frames, socket, mCircularBuffPtr, wokeUpFromSleep, mResumeTime,
                       mDecoderDictionary, held, changes>>
        /\ source'.pc = source.pc
      BY <1>1, <1>6 DEF disconnect, busVars, dictionaryVars, Disconnect, StopConsumer, StopSource, StopFlag,
         Notified, Thread
  <2>2. DataOK'
      BY <1>1, <2>1 DEF DataOK
  <2> QED
      BY <1>2, <2>1, <2>2 DEF BufferInv
<1>7. CASE Frame
    BY <1>7, FrameKeepsBuffer
<1>8. CASE Tick
  <2>1. /\ clock' = clock + 1
        /\ UNCHANGED <<frames, socket, source, mCircularBuffPtr, wokeUpFromSleep, mResumeTime,
                       mDecoderDictionary, held, changes>>
      BY <1>8 DEF Tick, dictionaryVars, otherVars
  <2>2. DataOK'
      BY <1>1, <2>1 DEF DataOK
  <2> QED
      BY <1>2, <2>1, <2>2 DEF BufferInv
<1>9. CASE UNCHANGED vars
  <2>1. UNCHANGED <<clock, frames, socket, source, mCircularBuffPtr, wokeUpFromSleep, mResumeTime,
                    mDecoderDictionary, held, changes>>
      BY <1>9 DEF vars
  <2>2. DataOK'
      BY <1>1, <2>1 DEF DataOK
  <2> QED
      BY <1>2, <2>1, <2>2 DEF BufferInv
<1> QED
    BY <1>3, <1>4, <1>5, <1>6, <1>7, <1>8, <1>9 DEF Next

\* The initial state: there is nothing.
LEMMA InitBufferInv == Init => BufferInv
<1>1. <<>> \in Seq(Frames) /\ Len(<<>>) = 0
    OBVIOUS
<1>2. 0 <= SocketSize /\ 0 <= BufferSize /\ 0 \in 0 .. MaxFrames
    BY SizesAssumption
<1>3. ASSUME Init PROVE DataOK
  <2>1. /\ clock = 1 /\ frames = 0 /\ socket = <<>> /\ mCircularBuffPtr = <<>> /\ mResumeTime = 0
        /\ mDecoderDictionary = 0 /\ held = 0 /\ changes = 0 /\ wokeUpFromSleep \in BOOLEAN
      BY <1>3 DEF Init, NoDictionary
  <2>2. /\ clock \in Nat \ {0} /\ frames \in 0 .. MaxFrames /\ mResumeTime \in 0 .. clock
        /\ mDecoderDictionary \in 0 .. changes /\ held \in 0 .. changes
      BY <1>2, <2>1
  <2>3. /\ socket \in Seq(Frames) /\ Len(socket) <= SocketSize
        /\ mCircularBuffPtr \in Seq(Frames) /\ Len(mCircularBuffPtr) <= BufferSize
      BY <1>1, <1>2, <2>1
  <2> QED
      BY <2>1, <2>2, <2>3 DEF DataOK
<1>4. Init => SleptUntaken
    BY <1>1 DEF Init, SleptUntaken
<1> QED
    BY <1>3, <1>4 DEF BufferInv

\* What comes into the buffer comes from the socket, and is fresh if the source has slept through
\* it: its timestamp, the time of arrival if the socket gave that, is not before the resume.
NewcomersFresh ==
    Len(mCircularBuffPtr') > Len(mCircularBuffPtr) =>
        \A f \in Newcomers : f.source = "asleep" /\ Stamped(f) => f.time >= mResumeTime

LEMMA StepNewcomers == IInv /\ BufferInv /\ [Next]_vars => [NewcomersFresh]_vars
<1> SUFFICES ASSUME IInv, BufferInv, Next
             PROVE  NewcomersFresh
    OBVIOUS
<1>1. /\ socket \in Seq(Frames) /\ SleptUntaken
      /\ mCircularBuffPtr \in Seq(Frames) /\ Len(mCircularBuffPtr) <= BufferSize
    BY DEF BufferInv, DataOK
<1>2. CASE SourceReceive
  <2> DEFINE fs == AtMost(Batch, socket)
  <2>1. mCircularBuffPtr' = Received(fs) /\ source.pc = "receive"
      BY <1>2 DEF SourceReceive
  <2>2. /\ fs \in Seq(Frames)
        /\ \A i \in 1 .. Len(fs) : fs[i] = socket[i] /\ i \in 1 .. Len(socket)
    <3>1. /\ fs \in Seq(Frames) /\ Len(fs) <= Len(socket)
          /\ \A i \in 1 .. Len(fs) : fs[i] = socket[i]
        BY <1>1, SplitSocket, SizesAssumption
    <3> HIDE DEF fs
    <3>2. Len(fs) \in Nat /\ Len(socket) \in Nat
        BY <1>1, <3>1
    <3> QED
        BY <3>1, <3>2
  <2> HIDE DEF fs
  <2>3. Grown(Received(fs), fs)
      BY <1>1, <2>2, ReceivedIs
  <2>4. ASSUME NEW f \in Newcomers, f.source = "asleep", Stamped(f)
        PROVE  f.time >= mResumeTime
    <3>1. PICK j \in 1 .. Len(fs) : f = fs[j] /\ Fresh(fs[j])
        BY <2>1, <2>3 DEF Newcomers, Grown
    <3>2. wokeUpFromSleep
        BY <1>1, <2>1, <2>2, <2>4, <3>1 DEF SleptUntaken
    <3>3. extractTimestamp(f) = f.time
        BY <2>4 DEF Stamped, extractTimestamp
    <3> QED
        BY <3>1, <3>2, <3>3 DEF Fresh
  <2> QED
      BY <2>4 DEF NewcomersFresh
<1>3. CASE ~SourceReceive
  <2>1. UNCHANGED mCircularBuffPtr \/ (mCircularBuffPtr # <<>> /\ mCircularBuffPtr' = Tail(mCircularBuffPtr))
    <3>1. CASE SourceStep
        BY <1>3, <3>1 DEF SourceStep
    <3>2. CASE ConsumerStep
        BY <3>2 DEF ConsumerStep, ConsumerCheck, ConsumerWoken, TakeDictionary, Decode, ConsumerNothing,
           ConsumerIdle
    <3>3. CASE onChangeOfActiveDictionary
        BY <3>3 DEF onChangeOfActiveDictionary
    <3>4. CASE disconnect
        BY <3>4 DEF disconnect
    <3>5. CASE Frame \/ Tick
        BY <3>5 DEF Frame, Tick
    <3> QED
        BY <3>1, <3>2, <3>3, <3>4, <3>5 DEF Next
  <2>2. ~(Len(mCircularBuffPtr') > Len(mCircularBuffPtr))
      BY <1>1, <2>1
  <2> QED
      BY <2>2 DEF NewcomersFresh
<1> QED
    BY <1>2, <1>3

-----------------------------------------------------------------------------
(* The dictionaries: their entries *)

\* A set of natural numbers has a least element.
LEMMA MinIs ==
    ASSUME NEW S \in SUBSET Nat, S # {}
    PROVE  Min(S) \in S /\ \A y \in S : Min(S) <= y
<1>1. \E x \in S : \A y \in S : ~(<<y, x>> \in OpToRel(<, Nat))
    BY NatLessThanWellFounded, WFMin
<1>2. \A x, y \in S : ~(<<y, x>> \in OpToRel(<, Nat)) => ~(y < x)
  <2> SUFFICES ASSUME NEW x \in S, NEW y \in S, y < x
               PROVE  <<y, x>> \in OpToRel(<, Nat)
      OBVIOUS
  <2>1. <<y, x>> \in Nat \X Nat
      OBVIOUS
  <2> QED
      BY <2>1 DEF OpToRel
<1>3. \A x, y \in S : ~(y < x) => x <= y
    OBVIOUS
<1>4. \E x \in S : \A y \in S : x <= y
    BY <1>1, <1>2, <1>3
<1> QED
    BY <1>4 DEF Min

\* The number of a channel is that of one interface only.
LEMMA ChannelIsOne ==
    ASSUME NEW i, NEW j,
           getChannelNumericID(i) = getChannelNumericID(j),
           getChannelNumericID(i) # INVALID_CAN_SOURCE_NUMERIC_ID
    PROVE  i = j
<1> DEFINE Places(x) == {p \in DOMAIN Interfaces : Interfaces[p] = x}
<1>1. \A x : Places(x) \in SUBSET Nat /\ \A p \in Places(x) : p \in Nat \ {0} /\ Interfaces[p] = x
    BY InterfacesAssumption
<1>2. \A x : getChannelNumericID(x) = IF Places(x) # {} THEN Min(Places(x)) - 1 ELSE -1
    BY DEF getChannelNumericID, INVALID_CAN_SOURCE_NUMERIC_ID
<1> HIDE DEF Places
<1>3. \A x : Places(x) # {} => Min(Places(x)) \in Places(x)
    BY <1>1, MinIs
<1>4. Places(i) # {}
    BY <1>2 DEF INVALID_CAN_SOURCE_NUMERIC_ID
<1>5. getChannelNumericID(i) \in Nat
    BY <1>1, <1>2, <1>3, <1>4
<1>6. Places(j) # {}
    BY <1>2, <1>5
<1>7. Min(Places(i)) - 1 = Min(Places(j)) - 1
    BY <1>2, <1>4, <1>6
<1>8. Min(Places(i)) \in Nat /\ Min(Places(j)) \in Nat
    BY <1>1, <1>3, <1>4, <1>6
<1>9. Min(Places(i)) = Min(Places(j))
    BY <1>7, <1>8
<1> QED
    BY <1>1, <1>3, <1>4, <1>6, <1>9

\* The format of the frame a signal of the CAN is in has the signal.
LEMMA FormatHasSignal ==
    ASSUME NEW Rows, NEW m, m.can \in Seq(Rows), NEW s, getNetworkProtocol(m, s) = "RAW_SOCKET"
    PROVE  s \in FormatOf(m, s)
<1> DEFINE S == Describing(m.can, s)
           p == Min(S)
<1>1. S # {}
    BY DEF getNetworkProtocol
<1>2. S \in SUBSET Nat
    BY DEF Describing
<1> HIDE DEF S
<1>3. p \in S
    BY <1>1, <1>2, MinIs
<1>4. p \in DOMAIN m.can /\ m.can[p].signal = s
    BY <1>3 DEF S, Describing
<1>5. FormatOf(m, s) = getCANMessageFormat(m, m.can[p].frame, m.can[p].interface)
    BY DEF FormatOf, getCANFrameAndInterfaceID, S
<1> QED
    BY <1>4, <1>5 DEF getCANMessageFormat

\* Two signals of the same frame have the same format.
LEMMA FormatIsOne ==
    ASSUME NEW m, NEW s, NEW t, FrameOf(m, s) = FrameOf(m, t),
           FrameOf(m, s)[1] # INVALID_CAN_SOURCE_NUMERIC_ID
    PROVE  FormatOf(m, s) = FormatOf(m, t)
<1> DEFINE f == getCANFrameAndInterfaceID(m, s)
           g == getCANFrameAndInterfaceID(m, t)
<1>1. FrameOf(m, s) = <<getChannelNumericID(f[2]), f[1]>> /\ FrameOf(m, t) = <<getChannelNumericID(g[2]), g[1]>>
    BY DEF FrameOf
<1>2. FormatOf(m, s) = getCANMessageFormat(m, f[1], f[2]) /\ FormatOf(m, t) = getCANMessageFormat(m, g[1], g[2])
    BY DEF FormatOf
<1> HIDE DEF f, g
<1>3. /\ f[1] = g[1] /\ getChannelNumericID(f[2]) = getChannelNumericID(g[2])
      /\ getChannelNumericID(f[2]) # INVALID_CAN_SOURCE_NUMERIC_ID
  <2> DEFINE a == f[1]
             b == g[1]
             x == getChannelNumericID(f[2])
             y == getChannelNumericID(g[2])
  <2>1. FrameOf(m, s) = <<x, a>> /\ FrameOf(m, t) = <<y, b>>
      BY <1>1
  <2> HIDE DEF a, b, x, y
  <2>2. <<x, a>> = <<y, b>> /\ <<x, a>>[1] # INVALID_CAN_SOURCE_NUMERIC_ID
      BY <2>1
  <2>3. a = b /\ x = y /\ x # INVALID_CAN_SOURCE_NUMERIC_ID
      BY <2>2
  <2> QED
      BY <2>3 DEF a, b, x, y
<1>4. f[2] = g[2]
    BY <1>3, ChannelIsOne
<1> QED
    BY <1>2, <1>3, <1>4

\* What an entry is: wanted raw; with the format of its frame; not without a format it claims;
\* and good for decoding.
Rawish(methods, key) == key \in DOMAIN methods /\ methods[key].collectType # "DECODE"
Full(m, methods, key) ==
    \E s : /\ getNetworkProtocol(m, s) = "RAW_SOCKET" /\ FrameOf(m, s) = key
           /\ methods[key].format = FormatOf(m, s)
NotLost(m, methods, key) ==
    key \in DOMAIN methods => methods[key].collectType = "RAW" \/ Full(m, methods, key)
Good(m, methods, key) ==
    key \in DOMAIN methods /\ methods[key].collectType # "RAW" /\ Full(m, methods, key)

\* What a signal of the CAN does to the entries.
LEMMA ToBeDecodedIs ==
    ASSUME NEW m, NEW methods, NEW s, getNetworkProtocol(m, s) = "RAW_SOCKET"
    PROVE  LET key == FrameOf(m, s)
               after == ToBeDecoded(methods, key, FormatOf(m, s))
           IN  /\ DOMAIN after = DOMAIN methods \cup {key}
               /\ NotLost(m, methods, key) => Good(m, after, key)
               /\ \A k : /\ Rawish(after, k) <=> Rawish(methods, k)
                         /\ NotLost(m, methods, k) => NotLost(m, after, k)
                         /\ Good(m, methods, k) => Good(m, after, k)
<1> DEFINE key == FrameOf(m, s)
           format == FormatOf(m, s)
           after == ToBeDecoded(methods, key, format)
<1>1. ASSUME key \notin DOMAIN methods \/ methods[key].collectType = "RAW"
      PROVE  /\ DOMAIN after = DOMAIN methods \cup {key}
             /\ after[key].format = format
             /\ after[key].collectType = IF key \in DOMAIN methods THEN "RAW_AND_DECODE" ELSE "DECODE"
             /\ \A k \in DOMAIN methods : k # key => after[k] = methods[k]
  <2>1. CASE key \notin DOMAIN methods
    <3>1. after = With(methods, key, "DECODE", format)
        BY <2>1 DEF ToBeDecoded
    <3> HIDE DEF after, key, format
    <3>2. /\ DOMAIN after = DOMAIN methods \cup {key}
          /\ after[key] = [collectType |-> "DECODE", format |-> format]
          /\ \A k \in DOMAIN methods : k # key => after[k] = methods[k]
        BY <3>1 DEF With
    <3> QED
        BY <2>1, <3>2
  <2>2. CASE key \in DOMAIN methods /\ methods[key].collectType = "RAW"
    <3>1. after = With(methods, key, "RAW_AND_DECODE", format)
        BY <2>2 DEF ToBeDecoded
    <3> HIDE DEF after, key, format
    <3>2. /\ DOMAIN after = DOMAIN methods \cup {key}
          /\ after[key] = [collectType |-> "RAW_AND_DECODE", format |-> format]
          /\ \A k \in DOMAIN methods : k # key => after[k] = methods[k]
        BY <3>1 DEF With
    <3> QED
        BY <2>2, <3>2
  <2> QED
      BY <1>1, <2>1, <2>2
<1>2. ASSUME ~(key \notin DOMAIN methods \/ methods[key].collectType = "RAW")
      PROVE  after = methods /\ key \in DOMAIN methods
    BY <1>2 DEF ToBeDecoded
<1> HIDE DEF after
<1>3. CASE key \notin DOMAIN methods \/ methods[key].collectType = "RAW"
  <2> HIDE DEF format
  <2>1. /\ DOMAIN after = DOMAIN methods \cup {key}
        /\ after[key].format = format
        /\ after[key].collectType = IF key \in DOMAIN methods THEN "RAW_AND_DECODE" ELSE "DECODE"
        /\ \A k \in DOMAIN methods : k # key => after[k] = methods[k]
      BY <1>1, <1>3
  <2>2. Full(m, after, key)
      BY <2>1 DEF Full, format
  <2> HIDE DEF key
  <2>3. Good(m, after, key)
      BY <2>1, <2>2 DEF Good
  <2>4. ASSUME NEW k
        PROVE  /\ Rawish(after, k) <=> Rawish(methods, k)
               /\ NotLost(m, methods, k) => NotLost(m, after, k)
               /\ Good(m, methods, k) => Good(m, after, k)
    <3>1. CASE k = key
        BY <1>3, <2>1, <2>2, <2>3, <3>1 DEF Rawish, NotLost, Good
    <3>2. CASE k # key
      <4>1. k \in DOMAIN after <=> k \in DOMAIN methods
          BY <2>1, <3>2
      <4>2. k \in DOMAIN methods => after[k] = methods[k]
          BY <2>1, <3>2
      <4> QED
          BY <4>1, <4>2 DEF Rawish, NotLost, Good, Full
    <3> QED
        BY <3>1, <3>2
  <2> QED
      BY <2>1, <2>3, <2>4 DEF after, key, format
<1>4. CASE ~(key \notin DOMAIN methods \/ methods[key].collectType = "RAW")
  <2>1. after = methods /\ key \in DOMAIN methods
      BY <1>2, <1>4
  <2> HIDE DEF key
  <2>2. NotLost(m, methods, key) => Good(m, methods, key)
      BY <1>4 DEF NotLost, Good
  <2> QED
      BY <2>1, <2>2 DEF after, key
<1> QED
    BY <1>3, <1>4

\* What a frame wanted raw does to the entries.
LEMMA ToBeRawIs ==
    ASSUME NEW m, NEW methods, NEW key
    PROVE  LET after == ToBeRaw(methods, key)
           IN  /\ DOMAIN after = DOMAIN methods \cup {key}
               /\ ~Rawish(methods, key) /\ NotLost(m, methods, key) => NotLost(m, after, key)
               /\ \A k : /\ Rawish(after, k) <=> (Rawish(methods, k) \/ k = key)
                         /\ k # key /\ NotLost(m, methods, k) => NotLost(m, after, k)
                         /\ Good(m, methods, k) => Good(m, after, k)
<1> DEFINE after == ToBeRaw(methods, key)
<1>1. /\ DOMAIN after = DOMAIN methods \cup {key}
      /\ key \in DOMAIN methods => after[key].collectType = "RAW_AND_DECODE" /\ after[key].format = methods[key].format
      /\ key \notin DOMAIN methods => after[key].collectType = "RAW"
      /\ \A k \in DOMAIN methods : k # key => after[k] = methods[k]
  <2>1. CASE key \in DOMAIN methods
    <3>1. after = With(methods, key, "RAW_AND_DECODE", methods[key].format)
        BY <2>1 DEF ToBeRaw
    <3> HIDE DEF after
    <3>2. /\ DOMAIN after = DOMAIN methods \cup {key}
          /\ after[key] = [collectType |-> "RAW_AND_DECODE", format |-> methods[key].format]
          /\ \A k \in DOMAIN methods : k # key => after[k] = methods[k]
        BY <3>1 DEF With
    <3> QED
        BY <2>1, <3>2
  <2>2. CASE key \notin DOMAIN methods
    <3>1. after = With(methods, key, "RAW", {})
        BY <2>2 DEF ToBeRaw
    <3> HIDE DEF after
    <3>2. /\ DOMAIN after = DOMAIN methods \cup {key}
          /\ after[key] = [collectType |-> "RAW", format |-> {}]
          /\ \A k \in DOMAIN methods : k # key => after[k] = methods[k]
        BY <3>1 DEF With
    <3> QED
        BY <2>2, <3>2
  <2> QED
      BY <2>1, <2>2
<1> HIDE DEF after
<1>2. ~Rawish(methods, key) /\ NotLost(m, methods, key) => NotLost(m, after, key)
    BY <1>1 DEF Rawish, NotLost, Full
<1>3. ASSUME NEW k
      PROVE  /\ Rawish(after, k) <=> (Rawish(methods, k) \/ k = key)
             /\ k # key /\ NotLost(m, methods, k) => NotLost(m, after, k)
             /\ Good(m, methods, k) => Good(m, after, k)
  <2>1. CASE k = key
      BY <1>1, <2>1 DEF Rawish, Good, Full
  <2>2. CASE k # key
    <3>1. k \in DOMAIN after <=> k \in DOMAIN methods
        BY <1>1, <2>2
    <3>2. k \in DOMAIN methods => after[k] = methods[k]
        BY <1>1, <2>2
    <3> QED
        BY <2>2, <3>1, <3>2 DEF Rawish, NotLost, Good, Full
  <2> QED
      BY <2>1, <2>2
<1> QED
    BY <1>1, <1>2, <1>3 DEF after
-----------------------------------------------------------------------------
(* The dictionaries: the signals of a scheme *)

Configured(methods) == \A key \in DOMAIN methods : key[1] # INVALID_CAN_SOURCE_NUMERIC_ID

\* What is kept of the dictionary of the CAN while signals are added, and what each signal has after.
CANKept(m, d, e) ==
    LET before == d.canMessageDecoderMethod
        after == e.canMessageDecoderMethod
    IN /\ d.signalIDsToCollect \subseteq e.signalIDsToCollect
       /\ DOMAIN before \subseteq DOMAIN after
       /\ Configured(before) => Configured(after)
       /\ \A k : /\ Rawish(after, k) <=> Rawish(before, k)
                 /\ NotLost(m, before, k) => NotLost(m, after, k)
                 /\ Good(m, before, k) => Good(m, after, k)
CANServed(m, d, e, s) ==
    getNetworkProtocol(m, s) = "RAW_SOCKET" /\ FrameOf(m, s)[1] # INVALID_CAN_SOURCE_NUMERIC_ID =>
        /\ s \in e.signalIDsToCollect
        /\ NotLost(m, d.canMessageDecoderMethod, FrameOf(m, s)) =>
               Good(m, e.canMessageDecoderMethod, FrameOf(m, s))

\* What is kept of the dictionary of the OBD: signals are only added at the end of a PID.
Formatted(Signals, d) ==
    \A key \in DOMAIN d.canMessageDecoderMethod : d.canMessageDecoderMethod[key].format \in Seq(Signals)
OBDKept(Signals, d, e) ==
    LET before == d.canMessageDecoderMethod
        after == e.canMessageDecoderMethod
    IN /\ d.signalIDsToCollect \subseteq e.signalIDsToCollect
       /\ Formatted(Signals, e)
       /\ \A key \in DOMAIN before :
            /\ key \in DOMAIN after
            /\ \A p \in DOMAIN before[key].format :
                p \in DOMAIN after[key].format /\ after[key].format[p] = before[key].format[p]

DictsKept(m, Signals, d, e) ==
    CANKept(m, d.RAW_SOCKET, e.RAW_SOCKET) /\ OBDKept(Signals, d.OBD, e.OBD)
SignalServed(m, d, e, s) ==
    /\ CANServed(m, d.RAW_SOCKET, e.RAW_SOCKET, s)
    /\ getNetworkProtocol(m, s) = "OBD" => OBDSignalServed(m, e.OBD, s)

\* These compose.
LEMMA KeptTwice ==
    ASSUME NEW m, NEW Signals, NEW d, NEW e, NEW f,
           DictsKept(m, Signals, d, e), DictsKept(m, Signals, e, f)
    PROVE  DictsKept(m, Signals, d, f)
<1>1. CANKept(m, d.RAW_SOCKET, f.RAW_SOCKET)
  <2> DEFINE a == d.RAW_SOCKET
             b == e.RAW_SOCKET
             c == f.RAW_SOCKET
  <2>1. CANKept(m, a, b) /\ CANKept(m, b, c)
      BY DEF DictsKept
  <2> HIDE DEF a, b, c
  <2>2. CANKept(m, a, c)
      BY <2>1 DEF CANKept
  <2> QED
      BY <2>2 DEF a, b, c
<1>2. OBDKept(Signals, d.OBD, f.OBD)
  <2> DEFINE a == d.OBD
             b == e.OBD
             c == f.OBD
  <2>1. OBDKept(Signals, a, b) /\ OBDKept(Signals, b, c)
      BY DEF DictsKept
  <2> HIDE DEF a, b, c
  <2>2. OBDKept(Signals, a, c)
      BY <2>1 DEF OBDKept
  <2> QED
      BY <2>2 DEF a, b, c
<1> QED
    BY <1>1, <1>2 DEF DictsKept

LEMMA OBDServedStays ==
    ASSUME NEW m, NEW Signals, NEW a, NEW b, NEW s, OBDSignalServed(m, a, s), OBDKept(Signals, a, b)
    PROVE  OBDSignalServed(m, b, s)
<1> DEFINE key == <<0, getPIDSignalDecoderFormat(m, s)>>
<1>1. /\ s \in a.signalIDsToCollect
      /\ key \in DOMAIN a.canMessageDecoderMethod
      /\ \E p \in DOMAIN a.canMessageDecoderMethod[key].format : a.canMessageDecoderMethod[key].format[p] = s
    BY DEF OBDSignalServed
<1> HIDE DEF key
<1>2. /\ s \in b.signalIDsToCollect
      /\ key \in DOMAIN b.canMessageDecoderMethod
      /\ \E p \in DOMAIN b.canMessageDecoderMethod[key].format : b.canMessageDecoderMethod[key].format[p] = s
    BY <1>1 DEF OBDKept
<1> QED
    BY <1>2 DEF OBDSignalServed, key

LEMMA ServedStays ==
    ASSUME NEW m, NEW Signals, NEW d, NEW e, NEW f, NEW s,
           SignalServed(m, d, e, s), DictsKept(m, Signals, e, f)
    PROVE  SignalServed(m, d, f, s)
<1>1. CANServed(m, d.RAW_SOCKET, f.RAW_SOCKET, s)
    BY DEF SignalServed, DictsKept, CANServed, CANKept
<1>2. ASSUME getNetworkProtocol(m, s) = "OBD"
      PROVE  OBDSignalServed(m, f.OBD, s)
  <2>1. OBDSignalServed(m, e.OBD, s) /\ OBDKept(Signals, e.OBD, f.OBD)
      BY <1>2 DEF SignalServed, DictsKept
  <2> QED
      BY <2>1, OBDServedStays
<1> QED
    BY <1>1, <1>2 DEF SignalServed

LEMMA ServedAfter ==
    ASSUME NEW m, NEW Signals, NEW d, NEW e, NEW f, NEW s,
           DictsKept(m, Signals, d, e), SignalServed(m, e, f, s)
    PROVE  SignalServed(m, d, f, s)
    BY DEF SignalServed, DictsKept, CANServed, CANKept

\* One signal.
LEMMA AddSignalIs ==
    ASSUME NEW m, NEW Signals, NEW d, NEW s \in Signals, Formatted(Signals, d.OBD)
    PROVE  /\ DictsKept(m, Signals, d, AddSignal(d, m, s))
           /\ SignalServed(m, d, AddSignal(d, m, s), s)
<1> DEFINE e == AddSignal(d, m, s)
<1>1. CANKept(m, d.RAW_SOCKET, d.RAW_SOCKET) /\ OBDKept(Signals, d.OBD, d.OBD)
    BY DEF CANKept, OBDKept
<1>2. CASE getNetworkProtocol(m, s) = "RAW_SOCKET"
  <2> DEFINE a == d.RAW_SOCKET
             b == e.RAW_SOCKET
  <2>1. b = AddCANSignal(a, m, s) /\ e.OBD = d.OBD
      BY <1>2 DEF AddSignal
  <2> HIDE DEF e
  <2>2. CANKept(m, a, b) /\ CANServed(m, a, b, s)
    <3> HIDE DEF a, b
    <3>1. CASE FrameOf(m, s)[1] = INVALID_CAN_SOURCE_NUMERIC_ID
      <4>1. b = a
          BY <2>1, <3>1 DEF AddCANSignal
      <4> QED
          BY <3>1, <4>1 DEF CANKept, CANServed
    <3>2. CASE FrameOf(m, s)[1] # INVALID_CAN_SOURCE_NUMERIC_ID
      <4> DEFINE key == FrameOf(m, s)
                 before == a.canMessageDecoderMethod
                 after == ToBeDecoded(before, key, FormatOf(m, s))
      <4>1. /\ b.canMessageDecoderMethod = after
            /\ b.signalIDsToCollect = a.signalIDsToCollect \cup {s}
          BY <2>1, <3>2 DEF AddCANSignal
      <4>2. /\ DOMAIN after = DOMAIN before \cup {key}
            /\ NotLost(m, before, key) => Good(m, after, key)
            /\ \A k : /\ Rawish(after, k) <=> Rawish(before, k)
                      /\ NotLost(m, before, k) => NotLost(m, after, k)
                      /\ Good(m, before, k) => Good(m, after, k)
        <5> HIDE DEF before
        <5> QED
            BY <1>2, ToBeDecodedIs
      <4> HIDE DEF after, key
      <4>3. Configured(before) => Configured(after)
          BY <3>2, <4>2 DEF Configured, key
      <4>4. CANKept(m, a, b)
          BY <4>1, <4>2, <4>3 DEF CANKept
      <4>5. CANServed(m, a, b, s)
          BY <4>1, <4>2 DEF CANServed, key
      <4> QED
          BY <4>4, <4>5
    <3> QED
        BY <3>1, <3>2
  <2> QED
      BY <1>1, <1>2, <2>1, <2>2 DEF DictsKept, SignalServed, e
<1>3. CASE getNetworkProtocol(m, s) = "OBD"
  <2> DEFINE a == d.OBD
             b == e.OBD
             key == <<0, getPIDSignalDecoderFormat(m, s)>>
             before == a.canMessageDecoderMethod
             signals == IF key \in DOMAIN before THEN before[key].format ELSE <<>>
             after == With(before, key, "DECODE", Append(signals, s))
  <2>1. b = AddOBDSignal(a, m, s) /\ e.RAW_SOCKET = d.RAW_SOCKET
      BY <1>3 DEF AddSignal
  <2> HIDE DEF e
  <2>2. /\ b.canMessageDecoderMethod = after
        /\ b.signalIDsToCollect = a.signalIDsToCollect \cup {s}
      BY <2>1 DEF AddOBDSignal
  <2>3. signals \in Seq(Signals)
      BY DEF Formatted
  <2>4. /\ DOMAIN after = DOMAIN before \cup {key}
        /\ after[key].format = Append(signals, s)
        /\ \A k \in DOMAIN before : k # key => after[k] = before[k]
    <3> HIDE DEF before, key, signals
    <3> QED
        BY DEF With
  <2>5. key \in DOMAIN before => signals = before[key].format
      OBVIOUS
  <2>6. \A k \in DOMAIN before : before[k].format \in Seq(Signals)
      BY DEF Formatted
  <2> HIDE DEF before, key, signals, after
  <2>7. /\ Append(signals, s) \in Seq(Signals) /\ Len(signals) + 1 \in DOMAIN Append(signals, s)
        /\ Append(signals, s)[Len(signals) + 1] = s
        /\ \A p \in DOMAIN signals : p \in DOMAIN Append(signals, s) /\ Append(signals, s)[p] = signals[p]
      BY <2>3
  <2>8. \A k \in DOMAIN after : after[k].format \in Seq(Signals)
      BY <2>4, <2>6, <2>7
  <2>9. \A k \in DOMAIN before :
            /\ k \in DOMAIN after
            /\ \A p \in DOMAIN before[k].format :
                p \in DOMAIN after[k].format /\ after[k].format[p] = before[k].format[p]
    <3> SUFFICES ASSUME NEW k \in DOMAIN before
                 PROVE  /\ k \in DOMAIN after
                        /\ \A p \in DOMAIN before[k].format :
                            p \in DOMAIN after[k].format /\ after[k].format[p] = before[k].format[p]
        OBVIOUS
    <3>1. CASE k = key
        BY <2>4, <2>5, <2>7, <3>1
    <3>2. CASE k # key
        BY <2>4, <3>2
    <3> QED
        BY <3>1, <3>2
  <2>10. OBDKept(Signals, a, b)
    <3> HIDE DEF a, b
    <3> QED
        BY <2>2, <2>8, <2>9 DEF OBDKept, Formatted, before
  <2>11. OBDSignalServed(m, b, s)
    <3>1. key \in DOMAIN after /\ \E p \in DOMAIN after[key].format : after[key].format[p] = s
        BY <2>4, <2>7
    <3> HIDE DEF a, b
    <3> QED
        BY <2>2, <3>1 DEF OBDSignalServed, key
  <2>12. CANServed(m, d.RAW_SOCKET, e.RAW_SOCKET, s)
      BY <1>3 DEF CANServed
  <2> QED
      BY <1>1, <2>1, <2>10, <2>11, <2>12 DEF DictsKept, SignalServed, e
<1>4. CASE getNetworkProtocol(m, s) \notin {"RAW_SOCKET", "OBD"}
  <2>1. e = d
      BY <1>4 DEF AddSignal
  <2> QED
      BY <1>1, <1>4, <2>1 DEF DictsKept, SignalServed, CANServed
<1> QED
    BY <1>2, <1>3, <1>4
\* The dictionaries after each of the signals of a scheme.
IsSignalsAfter(after, dicts, m, signals) ==
    after = [i \in 0 .. Len(signals) |-> IF i = 0 THEN dicts ELSE AddSignal(after[i - 1], m, signals[i])]
SignalsAfter(dicts, m, signals) == CHOOSE after : IsSignalsAfter(after, dicts, m, signals)

LEMMA SignalsAfterExists ==
    ASSUME NEW Signals, NEW m, NEW dicts, NEW signals \in Seq(Signals)
    PROVE  IsSignalsAfter(SignalsAfter(dicts, m, signals), dicts, m, signals)
<1> DEFINE n == Len(signals)
           Prefix(g, k) == g = [i \in 0 .. k |-> IF i = 0 THEN dicts
                                                 ELSE AddSignal(g[i - 1], m, signals[i])]
           S == {k \in 0 .. n : \E g : Prefix(g, k)}
<1>0. n \in Nat
    OBVIOUS
<1> HIDE DEF n
<1>1. 0 \in S
  <2> DEFINE g == [i \in 0 .. 0 |-> dicts]
  <2>1. g = [i \in 0 .. 0 |-> IF i = 0 THEN dicts ELSE AddSignal(g[i - 1], m, signals[i])]
      OBVIOUS
  <2>2. \E h : Prefix(h, 0)
      BY <2>1
  <2> QED
      BY <1>0, <2>2
<1>2. ASSUME NEW k \in 1 .. n, k - 1 \in S
      PROVE  k \in S
  <2>1. PICK f : Prefix(f, k - 1)
      BY <1>2
  <2> DEFINE g == [i \in 0 .. k |-> IF i = k THEN AddSignal(f[k - 1], m, signals[k]) ELSE f[i]]
  <2>2. \A i \in 0 .. k - 1 : f[i] = IF i = 0 THEN dicts ELSE AddSignal(f[i - 1], m, signals[i])
      BY <2>1
  <2>3. \A i \in 0 .. k : g[i] = IF i = 0 THEN dicts ELSE AddSignal(g[i - 1], m, signals[i])
      BY <1>0, <2>2
  <2>4. g = [i \in 0 .. k |-> g[i]]
      OBVIOUS
  <2> HIDE DEF g
  <2>5. Prefix(g, k)
      BY <2>3, <2>4
  <2> QED
      BY <2>5
<1>3. \E g : Prefix(g, n)
  <2> HIDE DEF S
  <2>1. \A i \in 0 .. n : i \in S
      BY <1>0, <1>1, <1>2, UpTo
  <2>2. n \in S
      BY <1>0, <2>1
  <2> QED
      BY <2>2 DEF S
<1>4. \E g : IsSignalsAfter(g, dicts, m, signals)
    BY <1>3 DEF IsSignalsAfter, n
<1> QED
    BY <1>4 DEF SignalsAfter

\* All signals of a scheme.
LEMMA AddSignalsIs ==
    ASSUME NEW m, NEW Signals, NEW d, NEW signals \in Seq(Signals), Formatted(Signals, d.OBD)
    PROVE  /\ DictsKept(m, Signals, d, AddSignals(d, m, signals))
           /\ \A j \in 1 .. Len(signals) : SignalServed(m, d, AddSignals(d, m, signals), signals[j])
<1> DEFINE n == Len(signals)
           after == SignalsAfter(d, m, signals)
           Done(i) == /\ DictsKept(m, Signals, d, after[i])
                      /\ \A j \in 1 .. i : SignalServed(m, d, after[i], signals[j])
           S == {i \in 0 .. n : Done(i)}
<1>1. n \in Nat /\ \A i \in 1 .. n : signals[i] \in Signals
    OBVIOUS
<1>2. AddSignals(d, m, signals) = after[n]
    BY DEF AddSignals, SignalsAfter, IsSignalsAfter
<1>3. \A i \in 0 .. n : after[i] = IF i = 0 THEN d ELSE AddSignal(after[i - 1], m, signals[i])
  <2> HIDE DEF after
  <2>1. IsSignalsAfter(after, d, m, signals)
      BY SignalsAfterExists DEF after
  <2> QED
      BY <2>1 DEF IsSignalsAfter
<1> HIDE DEF n, after
<1>4. 0 \in S
  <2>1. after[0] = d
      BY <1>1, <1>3
  <2>2. CANKept(m, d.RAW_SOCKET, d.RAW_SOCKET) /\ OBDKept(Signals, d.OBD, d.OBD)
      BY DEF CANKept, OBDKept
  <2>3. DictsKept(m, Signals, d, after[0])
      BY <2>1, <2>2 DEF DictsKept
  <2> QED
      BY <1>1, <2>3
<1>5. ASSUME NEW k \in 1 .. n, k - 1 \in S
      PROVE  k \in S
  <2> DEFINE e == after[k - 1]
             f == after[k]
  <2>1. f = AddSignal(e, m, signals[k]) /\ k \in Nat /\ signals[k] \in Signals
      BY <1>1, <1>3
  <2>2. Done(k - 1)
      BY <1>5
  <2>3. DictsKept(m, Signals, d, e) /\ \A j \in 1 .. k - 1 : SignalServed(m, d, e, signals[j])
      BY <2>2
  <2> HIDE DEF e, f
  <2>4. Formatted(Signals, e.OBD)
      BY <2>3 DEF DictsKept, OBDKept
  <2>5. DictsKept(m, Signals, e, f) /\ SignalServed(m, e, f, signals[k])
      BY <2>1, <2>4, AddSignalIs
  <2>6. DictsKept(m, Signals, d, f)
      BY <2>3, <2>5, KeptTwice
  <2>7. ASSUME NEW j \in 1 .. k
        PROVE  SignalServed(m, d, f, signals[j])
    <3>1. CASE j = k
        BY <2>3, <2>5, <3>1, ServedAfter
    <3>2. CASE j # k
      <4>1. SignalServed(m, d, e, signals[j])
          BY <2>1, <2>3, <3>2
      <4> QED
          BY <2>5, <4>1, ServedStays
    <3> QED
        BY <3>1, <3>2
  <2>8. Done(k)
      BY <2>6, <2>7 DEF f
  <2> QED
      BY <2>8
<1>6. n \in S
  <2> HIDE DEF S
  <2>1. \A i \in 0 .. n : i \in S
      BY <1>1, <1>4, <1>5, UpTo
  <2> QED
      BY <1>1, <2>1
<1>7. Done(n)
    BY <1>6
<1> QED
    BY <1>2, <1>7 DEF n

-----------------------------------------------------------------------------
(* The dictionaries: the frames that a scheme wants raw *)

\* The dictionary after each of the frames.
IsRawAfter(after, dict, wanted) ==
    after = [i \in 0 .. Len(wanted) |-> IF i = 0 THEN dict ELSE AddRawFrame(after[i - 1], wanted[i])]
RawAfter(dict, wanted) == CHOOSE after : IsRawAfter(after, dict, wanted)

LEMMA RawAfterExists ==
    ASSUME NEW Wishes, NEW dict, NEW wanted \in Seq(Wishes)
    PROVE  IsRawAfter(RawAfter(dict, wanted), dict, wanted)
<1> DEFINE n == Len(wanted)
           Prefix(g, k) == g = [i \in 0 .. k |-> IF i = 0 THEN dict ELSE AddRawFrame(g[i - 1], wanted[i])]
           S == {k \in 0 .. n : \E g : Prefix(g, k)}
<1>0. n \in Nat
    OBVIOUS
<1> HIDE DEF n
<1>1. 0 \in S
  <2> DEFINE g == [i \in 0 .. 0 |-> dict]
  <2>1. g = [i \in 0 .. 0 |-> IF i = 0 THEN dict ELSE AddRawFrame(g[i - 1], wanted[i])]
      OBVIOUS
  <2>2. \E h : Prefix(h, 0)
      BY <2>1
  <2> QED
      BY <1>0, <2>2
<1>2. ASSUME NEW k \in 1 .. n, k - 1 \in S
      PROVE  k \in S
  <2>1. PICK f : Prefix(f, k - 1)
      BY <1>2
  <2> DEFINE g == [i \in 0 .. k |-> IF i = k THEN AddRawFrame(f[k - 1], wanted[k]) ELSE f[i]]
  <2>2. \A i \in 0 .. k - 1 : f[i] = IF i = 0 THEN dict ELSE AddRawFrame(f[i - 1], wanted[i])
      BY <2>1
  <2>3. \A i \in 0 .. k : g[i] = IF i = 0 THEN dict ELSE AddRawFrame(g[i - 1], wanted[i])
      BY <1>0, <2>2
  <2>4. g = [i \in 0 .. k |-> g[i]]
      OBVIOUS
  <2> HIDE DEF g
  <2>5. Prefix(g, k)
      BY <2>3, <2>4
  <2> QED
      BY <2>5
<1>3. \E g : Prefix(g, n)
  <2> HIDE DEF S
  <2>1. \A i \in 0 .. n : i \in S
      BY <1>0, <1>1, <1>2, UpTo
  <2>2. n \in S
      BY <1>0, <2>1
  <2> QED
      BY <2>2 DEF S
<1>4. \E g : IsRawAfter(g, dict, wanted)
    BY <1>3 DEF IsRawAfter, n
<1> QED
    BY <1>4 DEF RawAfter

\* What the first n frames wanted raw do to the dictionary of the CAN.
RawAdded(m, d, e, wanted, n) ==
    LET before == d.canMessageDecoderMethod
        after == e.canMessageDecoderMethod
    IN /\ e.signalIDsToCollect = d.signalIDsToCollect
       /\ DOMAIN before \subseteq DOMAIN after
       /\ Configured(before) => Configured(after)
       /\ \A k : Good(m, before, k) => Good(m, after, k)
       /\ \A j \in 1 .. n : RawFrame(wanted[j])[1] # INVALID_CAN_SOURCE_NUMERIC_ID =>
                                RawFrame(wanted[j]) \in DOMAIN after
       /\ \A k : k[1] # INVALID_CAN_SOURCE_NUMERIC_ID =>
            /\ Rawish(after, k) <=> (Rawish(before, k) \/ \E j \in 1 .. n : RawFrame(wanted[j]) = k)
            /\ /\ NotLost(m, before, k)
               /\ Rawish(before, k) => \A j \in 1 .. n : RawFrame(wanted[j]) # k
               /\ \A i, j \in 1 .. n : RawFrame(wanted[i]) = k /\ RawFrame(wanted[j]) = k => i = j
               => NotLost(m, after, k)

\* One more.
LEMMA RawAddedNext ==
    ASSUME NEW m, NEW d, NEW e, NEW wanted, NEW n \in Nat \ {0}, RawAdded(m, d, e, wanted, n - 1)
    PROVE  RawAdded(m, d, AddRawFrame(e, wanted[n]), wanted, n)
<1> DEFINE key == RawFrame(wanted[n])
           f == AddRawFrame(e, wanted[n])
           before == d.canMessageDecoderMethod
           middle == e.canMessageDecoderMethod
           after == f.canMessageDecoderMethod
           Named(k, i) == \E j \in 1 .. i : RawFrame(wanted[j]) = k
           Once(k, i) == \A x, y \in 1 .. i : RawFrame(wanted[x]) = k /\ RawFrame(wanted[y]) = k => x = y
<1>1. /\ e.signalIDsToCollect = d.signalIDsToCollect
      /\ DOMAIN before \subseteq DOMAIN middle
      /\ Configured(before) => Configured(middle)
      /\ \A k : Good(m, before, k) => Good(m, middle, k)
      /\ \A j \in 1 .. n - 1 : RawFrame(wanted[j])[1] # INVALID_CAN_SOURCE_NUMERIC_ID =>
                                   RawFrame(wanted[j]) \in DOMAIN middle
      /\ \A k : k[1] # INVALID_CAN_SOURCE_NUMERIC_ID =>
            /\ Rawish(middle, k) <=> (Rawish(before, k) \/ Named(k, n - 1))
            /\ /\ NotLost(m, before, k)
               /\ Rawish(before, k) => ~Named(k, n - 1)
               /\ Once(k, n - 1)
               => NotLost(m, middle, k)
    BY DEF RawAdded
<1>2. \A k : /\ Named(k, n) <=> (Named(k, n - 1) \/ k = key)
             /\ Once(k, n) => Once(k, n - 1)
             /\ Once(k, n) /\ k = key => ~Named(k, n - 1)
  <2> SUFFICES ASSUME NEW k
               PROVE  /\ Named(k, n) <=> (Named(k, n - 1) \/ k = key)
                      /\ Once(k, n) => Once(k, n - 1)
                      /\ Once(k, n) /\ k = key => ~Named(k, n - 1)
      OBVIOUS
  <2>1. \A j : j \in 1 .. n <=> (j \in 1 .. n - 1 \/ j = n)
      OBVIOUS
  <2>2. \A j \in 1 .. n - 1 : j # n
      OBVIOUS
  <2> QED
      BY <2>1, <2>2
<1>3. CASE key[1] = INVALID_CAN_SOURCE_NUMERIC_ID
  <2>1. f = e
      BY <1>3 DEF AddRawFrame
  <2>2. \A j \in 1 .. n : RawFrame(wanted[j])[1] # INVALID_CAN_SOURCE_NUMERIC_ID => j \in 1 .. n - 1
      BY <1>3
  <2>3. \A k : k[1] # INVALID_CAN_SOURCE_NUMERIC_ID => k # key
      BY <1>3
  <2> HIDE DEF key, f, before, middle, after, Named, Once
  <2>4. \A k : k[1] # INVALID_CAN_SOURCE_NUMERIC_ID =>
            /\ Rawish(middle, k) <=> (Rawish(before, k) \/ Named(k, n))
            /\ /\ NotLost(m, before, k)
               /\ Rawish(before, k) => ~Named(k, n)
               /\ Once(k, n)
               => NotLost(m, middle, k)
      BY <1>1, <1>2, <2>3
  <2>5. \A j \in 1 .. n : RawFrame(wanted[j])[1] # INVALID_CAN_SOURCE_NUMERIC_ID =>
                                   RawFrame(wanted[j]) \in DOMAIN middle
      BY <1>1, <2>2
  <2>6. RawAdded(m, d, e, wanted, n)
      BY <1>1, <2>4, <2>5 DEF RawAdded, before, middle, Named, Once
  <2> QED
      BY <2>1, <2>6 DEF f
<1>4. CASE key[1] # INVALID_CAN_SOURCE_NUMERIC_ID
  <2>1. after = ToBeRaw(middle, key) /\ f.signalIDsToCollect = e.signalIDsToCollect
      BY <1>4 DEF AddRawFrame
  <2>2. /\ DOMAIN after = DOMAIN middle \cup {key}
        /\ ~Rawish(middle, key) /\ NotLost(m, middle, key) => NotLost(m, after, key)
        /\ \A k : /\ Rawish(after, k) <=> (Rawish(middle, k) \/ k = key)
                  /\ k # key /\ NotLost(m, middle, k) => NotLost(m, after, k)
                  /\ Good(m, middle, k) => Good(m, after, k)
    <3> HIDE DEF after, middle, key
    <3> QED
        BY <2>1, ToBeRawIs
  <2>3. \A j \in 1 .. n : j \in 1 .. n - 1 \/ RawFrame(wanted[j]) = key
      OBVIOUS
  <2> HIDE DEF key, f, before, middle, after, Named, Once
  <2>4. Configured(before) => Configured(after)
      BY <1>1, <1>4, <2>2 DEF Configured
  <2>5. ASSUME NEW k, k[1] # INVALID_CAN_SOURCE_NUMERIC_ID
        PROVE  /\ Rawish(after, k) <=> (Rawish(before, k) \/ Named(k, n))
               /\ /\ NotLost(m, before, k)
                  /\ Rawish(before, k) => ~Named(k, n)
                  /\ Once(k, n)
                  => NotLost(m, after, k)
    <3>1. Rawish(after, k) <=> (Rawish(before, k) \/ Named(k, n))
        BY <1>1, <1>2, <2>2, <2>5
    <3>2. ASSUME NotLost(m, before, k), Rawish(before, k) => ~Named(k, n), Once(k, n)
          PROVE  NotLost(m, after, k)
      <4>1. NotLost(m, middle, k)
          BY <1>1, <1>2, <2>5, <3>2
      <4>2. k = key => ~Rawish(middle, k)
          BY <1>1, <1>2, <2>5, <3>2
      <4> QED
          BY <2>2, <4>1, <4>2
    <3> QED
        BY <3>1, <3>2
  <2>6. \A j \in 1 .. n : RawFrame(wanted[j])[1] # INVALID_CAN_SOURCE_NUMERIC_ID =>
                                   RawFrame(wanted[j]) \in DOMAIN after
      BY <1>1, <2>2, <2>3
  <2>7. \A k : Good(m, before, k) => Good(m, after, k)
      BY <1>1, <2>2
  <2>8. RawAdded(m, d, f, wanted, n)
      BY <1>1, <2>1, <2>2, <2>4, <2>5, <2>6, <2>7 DEF RawAdded, before, after, Named, Once
  <2> QED
      BY <2>8 DEF f
<1> QED
    BY <1>3, <1>4

\* All frames that a scheme wants raw.
LEMMA AddRawFramesIs ==
    ASSUME NEW m, NEW Wishes, NEW d, NEW wanted \in Seq(Wishes)
    PROVE  RawAdded(m, d, AddRawFrames(d, wanted), wanted, Len(wanted))
<1> DEFINE n == Len(wanted)
           after == RawAfter(d, wanted)
           S == {i \in 0 .. n : RawAdded(m, d, after[i], wanted, i)}
<1>1. n \in Nat
    OBVIOUS
<1>2. AddRawFrames(d, wanted) = after[n]
    BY DEF AddRawFrames, RawAfter, IsRawAfter
<1>3. \A i \in 0 .. n : after[i] = IF i = 0 THEN d ELSE AddRawFrame(after[i - 1], wanted[i])
  <2> HIDE DEF after
  <2>1. IsRawAfter(after, d, wanted)
      BY RawAfterExists DEF after
  <2> QED
      BY <2>1 DEF IsRawAfter
<1> HIDE DEF n, after
<1>4. 0 \in S
  <2>1. after[0] = d
      BY <1>1, <1>3
  <2>2. \A j \in 1 .. 0 : FALSE
      OBVIOUS
  <2>3. RawAdded(m, d, d, wanted, 0)
      BY <2>2 DEF RawAdded
  <2> QED
      BY <1>1, <2>1, <2>3
<1>5. ASSUME NEW k \in 1 .. n, k - 1 \in S
      PROVE  k \in S
  <2>1. after[k] = AddRawFrame(after[k - 1], wanted[k]) /\ k \in Nat \ {0}
      BY <1>1, <1>3
  <2>2. RawAdded(m, d, after[k - 1], wanted, k - 1)
      BY <1>5
  <2>3. RawAdded(m, d, after[k], wanted, k)
      BY <2>1, <2>2, RawAddedNext
  <2> QED
      BY <2>3
<1>6. n \in S
  <2> HIDE DEF S
  <2>1. \A i \in 0 .. n : i \in S
      BY <1>1, <1>4, <1>5, UpTo
  <2> QED
      BY <1>1, <2>1
<1> QED
    BY <1>2, <1>6 DEF n
-----------------------------------------------------------------------------
(* The dictionaries: the schemes *)

\* The dictionaries after each of the schemes.
IsSchemesAfter(after, m, schemes) ==
    after = [i \in 0 .. Len(schemes) |-> IF i = 0 THEN NoDictionaries
                                         ELSE AddScheme(after[i - 1], m, schemes[i])]
SchemesAfter(m, schemes) == CHOOSE after : IsSchemesAfter(after, m, schemes)

LEMMA SchemesAfterExists ==
    ASSUME NEW Schemes, NEW m, NEW schemes \in Seq(Schemes)
    PROVE  IsSchemesAfter(SchemesAfter(m, schemes), m, schemes)
<1> DEFINE n == Len(schemes)
           Prefix(g, k) == g = [i \in 0 .. k |-> IF i = 0 THEN NoDictionaries
                                                 ELSE AddScheme(g[i - 1], m, schemes[i])]
           S == {k \in 0 .. n : \E g : Prefix(g, k)}
<1>0. n \in Nat
    OBVIOUS
<1> HIDE DEF n
<1>1. 0 \in S
  <2> DEFINE g == [i \in 0 .. 0 |-> NoDictionaries]
  <2>1. g = [i \in 0 .. 0 |-> IF i = 0 THEN NoDictionaries ELSE AddScheme(g[i - 1], m, schemes[i])]
      OBVIOUS
  <2>2. \E h : Prefix(h, 0)
      BY <2>1
  <2> QED
      BY <1>0, <2>2
<1>2. ASSUME NEW k \in 1 .. n, k - 1 \in S
      PROVE  k \in S
  <2>1. PICK f : Prefix(f, k - 1)
      BY <1>2
  <2> DEFINE g == [i \in 0 .. k |-> IF i = k THEN AddScheme(f[k - 1], m, schemes[k]) ELSE f[i]]
  <2>2. \A i \in 0 .. k - 1 : f[i] = IF i = 0 THEN NoDictionaries ELSE AddScheme(f[i - 1], m, schemes[i])
      BY <2>1
  <2>3. \A i \in 0 .. k : g[i] = IF i = 0 THEN NoDictionaries ELSE AddScheme(g[i - 1], m, schemes[i])
      BY <1>0, <2>2
  <2>4. g = [i \in 0 .. k |-> g[i]]
      OBVIOUS
  <2> HIDE DEF g
  <2>5. Prefix(g, k)
      BY <2>3, <2>4
  <2> QED
      BY <2>5
<1>3. \E g : Prefix(g, n)
  <2> HIDE DEF S
  <2>1. \A i \in 0 .. n : i \in S
      BY <1>0, <1>1, <1>2, UpTo
  <2>2. n \in S
      BY <1>0, <2>1
  <2> QED
      BY <2>2 DEF S
<1>4. \E g : IsSchemesAfter(g, m, schemes)
    BY <1>3 DEF IsSchemesAfter, n
<1> QED
    BY <1>4 DEF SchemesAfter

\* What the i-th scheme has of its signal s in the dictionaries.
HasSignal(m, schemes, d, i, s) ==
    /\ getNetworkProtocol(m, s) = "RAW_SOCKET" /\ FrameOf(m, s)[1] # INVALID_CAN_SOURCE_NUMERIC_ID =>
          /\ s \in d.RAW_SOCKET.signalIDsToCollect
          /\ ~WantedRawTwice(schemes, i - 1, FrameOf(m, s)) =>
                Good(m, d.RAW_SOCKET.canMessageDecoderMethod, FrameOf(m, s))
    /\ getNetworkProtocol(m, s) = "OBD" => OBDSignalServed(m, d.OBD, s)

\* What the dictionaries are after the first n schemes: an entry is raw where one of these wants it
\* so, and claims a format it lacks only where it was wanted raw twice.
Extracted(m, Signals, schemes, d, n) ==
    LET methods == d.RAW_SOCKET.canMessageDecoderMethod
    IN /\ Configured(methods) /\ Formatted(Signals, d.OBD)
       /\ \A key : key[1] # INVALID_CAN_SOURCE_NUMERIC_ID =>
            /\ Rawish(methods, key) <=> \E i \in 1 .. n : WantsRaw(schemes[i], key)
            /\ ~WantedRawTwice(schemes, n, key) => NotLost(m, methods, key)
       /\ \A i \in 1 .. n : \A j \in DOMAIN getCollectSignals(schemes[i]) :
            HasSignal(m, schemes, d, i, getCollectSignals(schemes[i])[j])
       /\ \A i \in 1 .. n : \A j \in DOMAIN getCollectRawCanFrames(schemes[i]) :
            RawFrame(getCollectRawCanFrames(schemes[i])[j])[1] # INVALID_CAN_SOURCE_NUMERIC_ID =>
                RawFrame(getCollectRawCanFrames(schemes[i])[j]) \in DOMAIN methods

\* With one more scheme.
LEMMA TwiceMeans ==
    ASSUME NEW schemes, NEW n \in Nat \ {0}, NEW key, ~WantedRawTwice(schemes, n, key)
    PROVE  /\ ~WantedRawTwice(schemes, n - 1, key)
           /\ \A x, y \in RawWishes(schemes[n], key) : x = y
           /\ (\E i \in 1 .. n - 1 : WantsRaw(schemes[i], key)) => ~WantsRaw(schemes[n], key)
<1>1. \A i \in 1 .. n - 1 : i \in 1 .. n /\ i # n
    OBVIOUS
<1>2. n \in 1 .. n
    OBVIOUS
<1> QED
    BY <1>1, <1>2 DEF WantedRawTwice

LEMMA ExtractedNext ==
    ASSUME NEW m, NEW Signals, NEW Wishes, NEW schemes, NEW n \in Nat \ {0}, NEW d,
           getCollectSignals(schemes[n]) \in Seq(Signals),
           getCollectRawCanFrames(schemes[n]) \in Seq(Wishes),
           Extracted(m, Signals, schemes, d, n - 1)
    PROVE  Extracted(m, Signals, schemes, AddScheme(d, m, schemes[n]), n)
<1> DEFINE c == schemes[n]
           signals == getCollectSignals(c)
           wanted == getCollectRawCanFrames(c)
           e == AddSignals(d, m, signals)
           f == AddScheme(d, m, c)
           before == d.RAW_SOCKET.canMessageDecoderMethod
           middle == e.RAW_SOCKET.canMessageDecoderMethod
           after == f.RAW_SOCKET.canMessageDecoderMethod
<1>0. signals \in Seq(Signals) /\ wanted \in Seq(Wishes) /\ DOMAIN signals = 1 .. Len(signals)
      /\ DOMAIN wanted = 1 .. Len(wanted)
    OBVIOUS
<1>1. f.RAW_SOCKET = AddRawFrames(e.RAW_SOCKET, wanted) /\ f.OBD = e.OBD
    BY DEF AddScheme
<1> HIDE DEF f, signals, wanted, e, c
<1>2. /\ Configured(before) /\ Formatted(Signals, d.OBD)
      /\ \A key : key[1] # INVALID_CAN_SOURCE_NUMERIC_ID =>
            /\ Rawish(before, key) <=> \E i \in 1 .. n - 1 : WantsRaw(schemes[i], key)
            /\ ~WantedRawTwice(schemes, n - 1, key) => NotLost(m, before, key)
      /\ \A i \in 1 .. n - 1 : \A j \in DOMAIN getCollectSignals(schemes[i]) :
            HasSignal(m, schemes, d, i, getCollectSignals(schemes[i])[j])
      /\ \A i \in 1 .. n - 1 : \A j \in DOMAIN getCollectRawCanFrames(schemes[i]) :
            RawFrame(getCollectRawCanFrames(schemes[i])[j])[1] # INVALID_CAN_SOURCE_NUMERIC_ID =>
                RawFrame(getCollectRawCanFrames(schemes[i])[j]) \in DOMAIN before
    BY DEF Extracted
<1>3. /\ DictsKept(m, Signals, d, e)
      /\ \A j \in 1 .. Len(signals) : SignalServed(m, d, e, signals[j])
    BY <1>0, <1>2, AddSignalsIs DEF e
<1>4. /\ d.RAW_SOCKET.signalIDsToCollect \subseteq e.RAW_SOCKET.signalIDsToCollect
      /\ DOMAIN before \subseteq DOMAIN middle /\ Configured(middle)
      /\ \A k : /\ Rawish(middle, k) <=> Rawish(before, k)
                /\ NotLost(m, before, k) => NotLost(m, middle, k)
                /\ Good(m, before, k) => Good(m, middle, k)
      /\ OBDKept(Signals, d.OBD, e.OBD) /\ Formatted(Signals, e.OBD)
    BY <1>2, <1>3 DEF DictsKept, CANKept, OBDKept
<1>5. RawAdded(m, e.RAW_SOCKET, f.RAW_SOCKET, wanted, Len(wanted))
    BY <1>0, <1>1, AddRawFramesIs
<1>6. /\ f.RAW_SOCKET.signalIDsToCollect = e.RAW_SOCKET.signalIDsToCollect
      /\ DOMAIN middle \subseteq DOMAIN after /\ Configured(after)
      /\ \A k : Good(m, middle, k) => Good(m, after, k)
      /\ \A j \in DOMAIN wanted : RawFrame(wanted[j])[1] # INVALID_CAN_SOURCE_NUMERIC_ID =>
                                      RawFrame(wanted[j]) \in DOMAIN after
    BY <1>0, <1>4, <1>5 DEF RawAdded
<1>7. \A k : k[1] # INVALID_CAN_SOURCE_NUMERIC_ID =>
            /\ Rawish(after, k) <=> (Rawish(middle, k) \/ WantsRaw(c, k))
            /\ /\ NotLost(m, middle, k)
               /\ Rawish(middle, k) => ~WantsRaw(c, k)
               /\ \A x, y \in RawWishes(c, k) : x = y
               => NotLost(m, after, k)
  <2> SUFFICES ASSUME NEW k, k[1] # INVALID_CAN_SOURCE_NUMERIC_ID
               PROVE  /\ Rawish(after, k) <=> (Rawish(middle, k) \/ WantsRaw(c, k))
                      /\ /\ NotLost(m, middle, k)
                         /\ Rawish(middle, k) => ~WantsRaw(c, k)
                         /\ \A x, y \in RawWishes(c, k) : x = y
                         => NotLost(m, after, k)
      OBVIOUS
  <2>1. \A j : j \in RawWishes(c, k) <=> (j \in 1 .. Len(wanted) /\ RawFrame(wanted[j]) = k)
      BY <1>0 DEF RawWishes, wanted
  <2>2. WantsRaw(c, k) <=> \E j \in 1 .. Len(wanted) : RawFrame(wanted[j]) = k
      BY <2>1 DEF WantsRaw
  <2>3. /\ Rawish(after, k) <=> (Rawish(middle, k) \/ \E j \in 1 .. Len(wanted) : RawFrame(wanted[j]) = k)
        /\ /\ NotLost(m, middle, k)
           /\ Rawish(middle, k) => \A j \in 1 .. Len(wanted) : RawFrame(wanted[j]) # k
           /\ \A i, j \in 1 .. Len(wanted) : RawFrame(wanted[i]) = k /\ RawFrame(wanted[j]) = k => i = j
           => NotLost(m, after, k)
      BY <1>5 DEF RawAdded
  <2> QED
      BY <2>1, <2>2, <2>3
<1> HIDE DEF before, middle, after
<1>8. \A i : i \in 1 .. n <=> (i \in 1 .. n - 1 \/ i = n)
    OBVIOUS
<1>9. ASSUME NEW key, key[1] # INVALID_CAN_SOURCE_NUMERIC_ID
      PROVE  /\ Rawish(after, key) <=> \E i \in 1 .. n : WantsRaw(schemes[i], key)
             /\ ~WantedRawTwice(schemes, n, key) => NotLost(m, after, key)
  <2>1. Rawish(after, key) <=> \E i \in 1 .. n : WantsRaw(schemes[i], key)
      BY <1>2, <1>4, <1>7, <1>8, <1>9 DEF c
  <2>2. ASSUME ~WantedRawTwice(schemes, n, key)
        PROVE  NotLost(m, after, key)
    <3>1. /\ ~WantedRawTwice(schemes, n - 1, key)
          /\ \A x, y \in RawWishes(c, key) : x = y
          /\ (\E i \in 1 .. n - 1 : WantsRaw(schemes[i], key)) => ~WantsRaw(c, key)
        BY <2>2, TwiceMeans DEF c
    <3>2. NotLost(m, middle, key) /\ (Rawish(middle, key) => ~WantsRaw(c, key))
        BY <1>2, <1>4, <1>9, <3>1
    <3> QED
        BY <1>7, <1>9, <3>1, <3>2
  <2> QED
      BY <2>1, <2>2
<1>10. ASSUME NEW i \in 1 .. n, NEW j \in DOMAIN getCollectSignals(schemes[i])
       PROVE  HasSignal(m, schemes, f, i, getCollectSignals(schemes[i])[j])
  <2> DEFINE s == getCollectSignals(schemes[i])[j]
  <2>1. CASE i \in 1 .. n - 1
    <3>1. HasSignal(m, schemes, d, i, s)
        BY <1>2, <2>1
    <3> HIDE DEF s
    <3>2. getNetworkProtocol(m, s) = "OBD" => OBDSignalServed(m, f.OBD, s)
        BY <1>1, <1>4, <3>1, OBDServedStays DEF HasSignal
    <3>3. HasSignal(m, schemes, f, i, s)
        BY <1>4, <1>6, <3>1, <3>2 DEF HasSignal, before, after
    <3> QED
        BY <3>3 DEF s
  <2>2. CASE i = n
    <3>1. SignalServed(m, d, e, s)
        BY <1>0, <1>3, <2>2 DEF signals, c
    <3> HIDE DEF s
    <3>2. ASSUME getNetworkProtocol(m, s) = "RAW_SOCKET", FrameOf(m, s)[1] # INVALID_CAN_SOURCE_NUMERIC_ID
          PROVE  /\ s \in f.RAW_SOCKET.signalIDsToCollect
                 /\ ~WantedRawTwice(schemes, i - 1, FrameOf(m, s)) => Good(m, after, FrameOf(m, s))
      <4>1. /\ s \in e.RAW_SOCKET.signalIDsToCollect
            /\ NotLost(m, before, FrameOf(m, s)) => Good(m, middle, FrameOf(m, s))
          BY <3>1, <3>2 DEF SignalServed, CANServed, before, middle
      <4>2. ~WantedRawTwice(schemes, i - 1, FrameOf(m, s)) => NotLost(m, before, FrameOf(m, s))
          BY <1>2, <2>2, <3>2
      <4> QED
          BY <1>6, <4>1, <4>2
    <3>3. getNetworkProtocol(m, s) = "OBD" => OBDSignalServed(m, f.OBD, s)
        BY <1>1, <3>1 DEF SignalServed
    <3>4. HasSignal(m, schemes, f, i, s)
        BY <3>2, <3>3 DEF HasSignal, after
    <3> QED
        BY <3>4 DEF s
  <2> QED
      BY <1>8, <2>1, <2>2
<1>11. ASSUME NEW i \in 1 .. n, NEW j \in DOMAIN getCollectRawCanFrames(schemes[i]),
              RawFrame(getCollectRawCanFrames(schemes[i])[j])[1] # INVALID_CAN_SOURCE_NUMERIC_ID
       PROVE  RawFrame(getCollectRawCanFrames(schemes[i])[j]) \in DOMAIN after
  <2>1. CASE i \in 1 .. n - 1
      BY <1>2, <1>4, <1>6, <1>11, <2>1
  <2>2. CASE i = n
      BY <1>6, <1>11, <2>2 DEF wanted, c
  <2> QED
      BY <1>8, <2>1, <2>2
<1>12. Formatted(Signals, f.OBD)
    BY <1>1, <1>4
<1>13. Extracted(m, Signals, schemes, f, n)
    BY <1>6, <1>9, <1>10, <1>11, <1>12 DEF Extracted, after
<1> QED
    BY <1>13 DEF f, c

\* All schemes.
LEMMA ExtractorIs ==
    ASSUME NEW m, NEW Signals, NEW Wishes, NEW Schemes, NEW schemes \in Seq(Schemes),
           \A i \in 1 .. Len(schemes) : /\ getCollectSignals(schemes[i]) \in Seq(Signals)
                                        /\ getCollectRawCanFrames(schemes[i]) \in Seq(Wishes)
    PROVE  Extracted(m, Signals, schemes, decoderDictionaryExtractor(m, schemes), Len(schemes))
<1> DEFINE n == Len(schemes)
           after == SchemesAfter(m, schemes)
           S == {i \in 0 .. n : Extracted(m, Signals, schemes, after[i], i)}
<1>1. n \in Nat
    OBVIOUS
<1>2. decoderDictionaryExtractor(m, schemes) = after[n]
    BY DEF decoderDictionaryExtractor, SchemesAfter, IsSchemesAfter
<1>3. \A i \in 0 .. n : after[i] = IF i = 0 THEN NoDictionaries ELSE AddScheme(after[i - 1], m, schemes[i])
  <2> HIDE DEF after
  <2>1. IsSchemesAfter(after, m, schemes)
      BY SchemesAfterExists DEF after
  <2> QED
      BY <2>1 DEF IsSchemesAfter
<1>4. \A i \in 1 .. n : /\ getCollectSignals(schemes[i]) \in Seq(Signals)
                        /\ getCollectRawCanFrames(schemes[i]) \in Seq(Wishes)
    OBVIOUS
<1> HIDE DEF n, after
<1>5. 0 \in S
  <2>1. after[0] = NoDictionaries
      BY <1>1, <1>3
  <2>2. (\A i \in 1 .. 0 : FALSE) /\ DOMAIN <<>> = {}
      OBVIOUS
  <2>3. /\ NoDictionaries.RAW_SOCKET.canMessageDecoderMethod = <<>>
        /\ NoDictionaries.OBD.canMessageDecoderMethod = <<>>
      BY DEF NoDictionaries, EmptyDictionary
  <2>4. Extracted(m, Signals, schemes, NoDictionaries, 0)
      BY <2>2, <2>3 DEF Extracted, Configured, Formatted, Rawish, NotLost
  <2> QED
      BY <1>1, <2>1, <2>4
<1>6. ASSUME NEW k \in 1 .. n, k - 1 \in S
      PROVE  k \in S
  <2>1. after[k] = AddScheme(after[k - 1], m, schemes[k]) /\ k \in Nat \ {0}
      BY <1>1, <1>3
  <2>2. Extracted(m, Signals, schemes, after[k - 1], k - 1)
      BY <1>6
  <2>3. Extracted(m, Signals, schemes, after[k], k)
      BY <1>4, <2>1, <2>2, ExtractedNext
  <2> QED
      BY <2>3
<1>7. n \in S
  <2> HIDE DEF S
  <2>1. \A i \in 0 .. n : i \in S
      BY <1>1, <1>5, <1>6, UpTo
  <2> QED
      BY <1>1, <2>1
<1> QED
    BY <1>2, <1>7 DEF n

-----------------------------------------------------------------------------
(* Theorems *)

\* What the channel relies on holds however its four threads interleave.
THEOREM ChannelInvariance == Spec => []IInv
<1> QED
    BY InitIInv, StepIInv, PTL DEF Spec

\* No frame is decoded without a dictionary: the consumer uses its pointer untested.
THEOREM DictionarySafe == Spec => []DictionaryThere
<1>1. IInv => DictionaryThere
    BY DEF IInv, DictionaryThere, HeldSound, BeforeDictionary, Order
<1> QED
    BY <1>1, ChannelInvariance, PTL

\* No thread sleeps through a resume or a stop.
THEOREM WakeUpsSafe == Spec => []WakeNotLost
<1>1. IInv => WakeNotLost
    BY DEF IInv
<1> QED
    BY <1>1, ChannelInvariance, PTL

\* Everything has its type: no more is in the socket and in the buffer than fits, and a resume
\* is not later than now.
THEOREM ChannelTypes == Spec => []TypeOK
<1>1. IInv /\ BufferInv => TypeOK
    BY DEF IInv, ControlOK, BufferInv, DataOK, TypeOK
<1> QED
    BY <1>1, InitIInv, StepIInv, InitBufferInv, StepBufferInv, PTL DEF Spec

\* A frame that the socket collected while the source slept and stamped with its arrival comes into
\* the buffer only if it is not from before the resume, in whatever batches the frames are taken;
\* and the types hold. With other timestamps that is not so (KernelQueueIgnored in CANChannel).
THEOREM BufferIsKept == Spec => BufferKept
<1>1. Spec => [][NewcomersFresh]_vars
    BY InitIInv, StepIInv, InitBufferInv, StepBufferInv, StepNewcomers, PTL DEF Spec
<1>2. Spec => SleptFramesIgnored
    BY <1>1 DEF SleptFramesIgnored, NewcomersFresh
<1> QED
    BY <1>2, ChannelTypes DEF BufferKept

\* For every manifest and any enabled schemes, in whatever order they come, the dictionaries let the
\* consumers do what each of the schemes asks for.
THEOREM DictionariesServe ==
    ASSUME NEW Rows, NEW Signals, NEW Wishes, NEW Schemes, NEW m, m.can \in Seq(Rows),
           NEW schemes \in Seq(Schemes),
           \A i \in 1 .. Len(schemes) : /\ getCollectSignals(schemes[i]) \in Seq(Signals)
                                        /\ getCollectRawCanFrames(schemes[i]) \in Seq(Wishes)
    PROVE  Serves(m, schemes, decoderDictionaryExtractor(m, schemes))
<1> DEFINE d == decoderDictionaryExtractor(m, schemes)
           n == Len(schemes)
           dict == d.RAW_SOCKET
           methods == dict.canMessageDecoderMethod
<1>1. Extracted(m, Signals, schemes, d, n)
    BY ExtractorIs
<1>2. n \in Nat /\ DOMAIN schemes = 1 .. n
    OBVIOUS
<1> HIDE DEF d, n
<1>3. /\ Configured(methods)
      /\ \A key : key[1] # INVALID_CAN_SOURCE_NUMERIC_ID =>
            (Rawish(methods, key) <=> \E i \in 1 .. n : WantsRaw(schemes[i], key))
      /\ \A i \in 1 .. n : \A j \in DOMAIN getCollectSignals(schemes[i]) :
            HasSignal(m, schemes, d, i, getCollectSignals(schemes[i])[j])
      /\ \A i \in 1 .. n : \A j \in DOMAIN getCollectRawCanFrames(schemes[i]) :
            RawFrame(getCollectRawCanFrames(schemes[i])[j])[1] # INVALID_CAN_SOURCE_NUMERIC_ID =>
                RawFrame(getCollectRawCanFrames(schemes[i])[j]) \in DOMAIN methods
    BY <1>1 DEF Extracted
<1>4. SignalsServed(m, schemes, d)
  <2> SUFFICES ASSUME NEW k \in 1 .. n, NEW j \in DOMAIN getCollectSignals(schemes[k])
               PROVE  LET s == getCollectSignals(schemes[k])[j]
                      IN /\ getNetworkProtocol(m, s) = "RAW_SOCKET" =>
                              \/ FrameOf(m, s)[1] = INVALID_CAN_SOURCE_NUMERIC_ID
                              \/ FormatLost(m, schemes, k, FrameOf(m, s))
                              \/ CANSignalServed(m, dict, s)
                         /\ getNetworkProtocol(m, s) = "OBD" => OBDSignalServed(m, d.OBD, s)
      BY <1>2 DEF SignalsServed
  <2> DEFINE s == getCollectSignals(schemes[k])[j]
             key == FrameOf(m, s)
  <2>1. HasSignal(m, schemes, d, k, s)
      BY <1>3
  <2> HIDE DEF s
  <2>2. ASSUME getNetworkProtocol(m, s) = "RAW_SOCKET", key[1] # INVALID_CAN_SOURCE_NUMERIC_ID,
               ~FormatLost(m, schemes, k, key)
        PROVE  CANSignalServed(m, dict, s)
    <3>1. PICK i \in 1 .. k : Decodes(m, schemes[i], key) /\ ~WantedRawTwice(schemes, i - 1, key)
        BY <2>2 DEF FormatLost
    <3>2. i \in 1 .. n
        BY <1>2
    <3>3. PICK x \in DOMAIN getCollectSignals(schemes[i]) :
              /\ getNetworkProtocol(m, getCollectSignals(schemes[i])[x]) = "RAW_SOCKET"
              /\ FrameOf(m, getCollectSignals(schemes[i])[x]) = key
        BY <3>1 DEF Decodes
    <3>4. HasSignal(m, schemes, d, i, getCollectSignals(schemes[i])[x])
        BY <1>3, <3>2
    <3>5. Good(m, methods, key)
        BY <2>2, <3>1, <3>3, <3>4 DEF HasSignal
    <3>6. PICK t : FrameOf(m, t) = key /\ methods[key].format = FormatOf(m, t)
        BY <3>5 DEF Good, Full
    <3>7. FormatOf(m, t) = FormatOf(m, s)
        BY <2>2, <3>6, FormatIsOne
    <3>8. s \in FormatOf(m, s)
        BY <2>2, FormatHasSignal
    <3>9. s \in dict.signalIDsToCollect
        BY <2>1, <2>2 DEF HasSignal
    <3> QED
        BY <3>5, <3>6, <3>7, <3>8, <3>9 DEF CANSignalServed, Good
  <2>3. getNetworkProtocol(m, s) = "OBD" => OBDSignalServed(m, d.OBD, s)
      BY <2>1 DEF HasSignal
  <2> QED
      BY <2>2, <2>3 DEF s
<1>5. RawAsWanted(schemes, dict)
  <2>1. \A key \in DOMAIN methods :
            (methods[key].collectType # "DECODE") <=> \E k \in DOMAIN schemes : WantsRaw(schemes[k], key)
      BY <1>2, <1>3 DEF Configured, Rawish
  <2>2. \A k \in DOMAIN schemes : \A j \in DOMAIN getCollectRawCanFrames(schemes[k]) :
            \/ RawFrame(getCollectRawCanFrames(schemes[k])[j])[1] = INVALID_CAN_SOURCE_NUMERIC_ID
            \/ RawFrame(getCollectRawCanFrames(schemes[k])[j]) \in DOMAIN methods
      BY <1>2, <1>3
  <2> QED
      BY <2>1, <2>2 DEF RawAsWanted
<1> QED
    BY <1>4, <1>5 DEF Serves, d
=============================================================================
