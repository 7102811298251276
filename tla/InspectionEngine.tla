-------------------------- MODULE InspectionEngine --------------------------
(***************************************************************************)
(* The CollectionInspectionEngine: the ring buffers that keep the latest   *)
(* samples of every signal and raw frame, the conditions that are          *)
(* evaluated on them, the bits that say which of them are due, and the     *)
(* collection of the data a triggered condition publishes.                 *)
(*                                                                         *)
(* A condition holds when the latest value of each signal it reads is one  *)
(* of its values; fixed windows are the subject of FixedWindow. A raw frame*)
(* is a sample whose value is its number of bytes. n numbers the samples   *)
(* of a buffer and is not in the code.                                     *)
(***************************************************************************)
EXTENDS Integers, Sequences, FiniteSets, FiniteSetsExt

CONSTANTS
    Signals, Frames,
    SignalValues,       \* the values a signal takes
    FrameSizes,         \* the numbers of bytes a frame has
    Matrices,           \* inspection matrices: sequences of conditions
    MaxConditions,      \* MAX_NUMBER_OF_ACTIVE_CONDITION
    MaxSamples,         \* MAX_SAMPLE_MEMORY, in samples
    SendOnce,           \* mSendDataOnlyOncePerCondition
    NoData,             \* nothing was collected
    MaxTime,            \* bound: the clock
    MaxRecorded         \* bound: samples of one buffer

Sources == Signals \cup Frames
Items == [source : Sources, interval : Nat, size : Nat, conditionOnly : BOOLEAN]
Conditions == [items : Seq(Items), reads : SUBSET Signals, values : SUBSET SignalValues,
               triggerOnlyOnRisingEdge : BOOLEAN, minimumPublishInterval : Nat,
               afterDuration : Nat, probability : {"never", "sometimes", "always"},
               includeActiveDtcs : BOOLEAN]

ASSUME BoundsAssumption ==
    /\ MaxConditions \in Nat /\ MaxSamples \in Nat /\ SendOnce \in BOOLEAN
    /\ MaxTime \in Nat \ {0} /\ MaxRecorded \in Nat
    /\ Signals \cap Frames = {} /\ FrameSizes \subseteq Nat
ASSUME MatricesAssumption == \A m \in Matrices : m \in Seq(Conditions)

VARIABLES
    now,
    conditions,         \* mConditions: the conditions of the matrix that were taken over
    buffers,            \* mSignalBuffers and mCanFrameBuffers
    evaluating,         \* mConditionsThatEvaluateOnThisSignal of each buffer
    mConditionsWithInputSignalChanged, mConditionsWithConditionCurrentlyTrue,
    mConditionsNotTriggeredWaitingPublished,
    mLastTrigger,       \* of each condition
    mNextConditionToCollectedIndex,
    mActiveDTCsConsumed,
    collecting,         \* the worker's thread is in its loop of collectNextDataToSend
    sent,               \* what the last step collected
    waitTimeMs,         \* what the last collectNextDataToSend said when it had nothing
    delivered           \* the samples each condition has collected so far

bits == <<mConditionsWithInputSignalChanged, mConditionsWithConditionCurrentlyTrue>>
vars == <<now, conditions, buffers, evaluating, bits, mConditionsNotTriggeredWaitingPublished,
          mLastTrigger, mNextConditionToCollectedIndex, mActiveDTCsConsumed, collecting, sent,
          waitTimeMs, delivered>>

Loaded == DOMAIN conditions
Forever == MaxTime + 1          \* the largest uint32_t
ItemsOf(c) == {c.items[j] : j \in DOMAIN c.items}
Key(item) == <<item.source, item.interval>>

Init ==
    /\ now = 1
    /\ conditions = <<>> /\ buffers = <<>> /\ evaluating = <<>>
    /\ mConditionsWithInputSignalChanged = {}
    /\ mConditionsWithConditionCurrentlyTrue = {}
    /\ mConditionsNotTriggeredWaitingPublished = {}
    /\ mLastTrigger = <<>> /\ mNextConditionToCollectedIndex = 1
    /\ mActiveDTCsConsumed = {} /\ collecting = FALSE
    /\ sent = NoData /\ waitTimeMs = Forever
    /\ delivered = <<>>

-----------------------------------------------------------------------------
(* onChangeInspectionMatrix *)

Allowed(m) == SubSeq(m, 1, Min({Len(m), MaxConditions}))
\* A signal's sample buffer of size 0 ends the whole method; a frame's is not looked at.
Malformed(cs) ==
    {i \in DOMAIN cs : \E item \in ItemsOf(cs[i]) : item.source \in Signals /\ item.size = 0}
Taken(m) ==
    LET cs == Allowed(m)
    IN  IF Malformed(cs) = {} THEN cs ELSE SubSeq(cs, 1, Min(Malformed(cs)))
Keys(cs) == {Key(item) : item \in UNION {ItemsOf(cs[i]) : i \in DOMAIN cs}}
SizeOf(cs, k) ==
    Max({item.size :
            item \in {it \in UNION {ItemsOf(cs[i]) : i \in DOMAIN cs} : Key(it) = k}})

\* preAllocateBuffers goes through the signals in the order of a hash map, then through
\* the frames, and stops at the first buffer that does not fit. A buffer that has no memory or
\* the size 0 is not among buffers: it accepts nothing and there is nothing to collect from it.
Memory(cs, ks) == MapThenSumSet(LAMBDA k : SizeOf(cs, k), ks)
Allocations(cs) ==
    {ks \in SUBSET Keys(cs) :
        /\ Memory(cs, ks) <= MaxSamples
        /\ ks # Keys(cs) =>
              \E k \in Keys(cs) \ ks : Memory(cs, ks \cup {k}) > MaxSamples
        /\ (\E k \in ks : k[1] \in Frames) => \A k \in Keys(cs) \ ks : k[1] \in Frames}

\* The buffer eval reads a signal from: that of the last item for it.
EvaluationKey(c, s) ==
    LET j == Max({i \in DOMAIN c.items : c.items[i].source = s}) IN Key(c.items[j])

EmptyRing(size) == [i \in 0 .. size - 1 |-> [n |-> 0, value |-> 0, consumed |-> {}]]
EmptyBuffer(size) ==
    [ring |-> EmptyRing(size), mCurrentPosition |-> size - 1, mCounter |-> 0, mLastSample |-> 0]

onChangeInspectionMatrix(m) ==
    LET cs == Taken(m)
        complete == Malformed(Allowed(m)) = {}
    IN  /\ ~collecting
        /\ conditions' = cs
        /\ \E ks \in IF complete THEN Allocations(cs) ELSE {{}} :
              buffers' = [k \in {x \in ks : SizeOf(cs, x) > 0} |-> EmptyBuffer(SizeOf(cs, k))]
        /\ evaluating' =
              [k \in Keys(cs) |->
                  {i \in DOMAIN cs :
                      complete /\ k[1] \in cs[i].reads /\ k \in {Key(it) : it \in ItemsOf(cs[i])}}]
        /\ mConditionsWithInputSignalChanged' = {}
        /\ mConditionsWithConditionCurrentlyTrue' = IF complete THEN DOMAIN cs ELSE {}
        /\ mConditionsNotTriggeredWaitingPublished' = DOMAIN cs
        /\ mLastTrigger' = [i \in DOMAIN cs |-> 0]
        /\ mNextConditionToCollectedIndex' = 1
        /\ delivered' = [i \in DOMAIN cs |-> {}]
        /\ sent' = NoData
        /\ UNCHANGED <<now, mActiveDTCsConsumed, collecting, waitTimeMs>>

-----------------------------------------------------------------------------
(* addNewSignal, addNewRawCanFrame, setActiveDTCs *)

RingSize(b) == Cardinality(DOMAIN b.ring)
NextPosition(b) ==
    IF b.mCurrentPosition + 1 >= RingSize(b) THEN 0 ELSE b.mCurrentPosition + 1
Accepts(k, t) == k[2] = 0 \/ t >= buffers[k].mLastSample + k[2]

RecordedPast(b, value, t) ==
    LET p == IF b.mCurrentPosition + 1 > RingSize(b) - 2 THEN 0 ELSE b.mCurrentPosition + 1
    IN  [b EXCEPT !.ring[p] = [n |-> b.mCounter + 1, value |-> value, consumed |-> {}],
                  !.mCurrentPosition = p, !.mCounter = @ + 1, !.mLastSample = t]
Recorded(b, value, t) ==
    [b EXCEPT !.ring[NextPosition(b)] = [n |-> b.mCounter + 1, value |-> value,
                                         consumed |-> {}],
              !.mCurrentPosition = NextPosition(b),
              !.mCounter = @ + 1,
              !.mLastSample = t]

\* Every sampling interval of the source has a buffer of its own.
Accepting(source, t) == {k \in DOMAIN buffers : k[1] = source /\ Accepts(k, t)}

addNewSignal(s, t, value) ==
    LET ks == Accepting(s, t)
    IN  /\ ~collecting
        /\ \A k \in ks : buffers[k].mCounter < MaxRecorded
        /\ buffers' = [k \in DOMAIN buffers |->
                          IF k \in ks THEN Recorded(buffers[k], value, t) ELSE buffers[k]]
        /\ mConditionsWithInputSignalChanged' =
              mConditionsWithInputSignalChanged \cup UNION {evaluating[k] : k \in ks}
        /\ sent' = NoData
        /\ UNCHANGED <<now, conditions, evaluating, mConditionsWithConditionCurrentlyTrue,
                       mConditionsNotTriggeredWaitingPublished, mLastTrigger,
                       mNextConditionToCollectedIndex, mActiveDTCsConsumed, collecting,
                       waitTimeMs, delivered>>

\* The number of bytes is cut to the number of samples of the buffer, as a uint8_t.
StoredSize(b, size) == Min({size, RingSize(b) % 256})

addNewRawCanFrame(f, t, size) ==
    LET ks == Accepting(f, t)
    IN  /\ ~collecting
        /\ \A k \in ks : buffers[k].mCounter < MaxRecorded
        /\ buffers' = [k \in DOMAIN buffers |->
                          IF k \in ks THEN Recorded(buffers[k], StoredSize(buffers[k], size), t)
                          ELSE buffers[k]]
        /\ sent' = NoData
        /\ UNCHANGED <<now, conditions, evaluating, bits,
                       mConditionsNotTriggeredWaitingPublished, mLastTrigger,
                       mNextConditionToCollectedIndex, mActiveDTCsConsumed, collecting,
                       waitTimeMs, delivered>>

setActiveDTCs ==
    /\ ~collecting
    /\ mActiveDTCsConsumed' = {}
    /\ sent' = NoData
    /\ UNCHANGED <<now, conditions, buffers, evaluating, bits,
                   mConditionsNotTriggeredWaitingPublished, mLastTrigger,
                   mNextConditionToCollectedIndex, collecting, waitTimeMs, delivered>>

-----------------------------------------------------------------------------
(* evaluateConditions *)

\* SIGNAL_NOT_FOUND as long as there is no sample.
HasValue(k) == k \in DOMAIN buffers /\ buffers[k].mCounter > 0
Latest(k) == buffers[k].ring[buffers[k].mCurrentPosition].value
Holds(c) ==
    \A s \in c.reads :
        /\ \E item \in ItemsOf(c) : item.source = s
        /\ HasValue(EvaluationKey(c, s)) /\ Latest(EvaluationKey(c, s)) \in c.values

ConditionsToEvaluate ==
    (mConditionsWithConditionCurrentlyTrue \cup mConditionsWithInputSignalChanged)
        \cap mConditionsNotTriggeredWaitingPublished
IntervalOver(i) == now >= mLastTrigger[i] + conditions[i].minimumPublishInterval

\* Only a condition that triggers is marked as true.
EvaluateMarksTriggered ==
    LET evaluated == {i \in ConditionsToEvaluate : IntervalOver(i)}
        true == {i \in evaluated : Holds(conditions[i])}
        triggered == {i \in true : ~conditions[i].triggerOnlyOnRisingEdge
                                   \/ i \notin mConditionsWithConditionCurrentlyTrue}
    IN  /\ ~collecting
        /\ mConditionsWithInputSignalChanged' = mConditionsWithInputSignalChanged \ evaluated
        /\ mConditionsWithConditionCurrentlyTrue' =
              (mConditionsWithConditionCurrentlyTrue \ evaluated) \cup triggered
        /\ mConditionsNotTriggeredWaitingPublished' =
              mConditionsNotTriggeredWaitingPublished \ triggered
        /\ mLastTrigger' = [i \in Loaded |-> IF i \in triggered THEN now ELSE mLastTrigger[i]]
        /\ sent' = NoData
        /\ UNCHANGED <<now, conditions, buffers, evaluating, mNextConditionToCollectedIndex,
                       mActiveDTCsConsumed, collecting, waitTimeMs, delivered>>
evaluateConditions ==
    LET evaluated == {i \in ConditionsToEvaluate : IntervalOver(i)}
        true == {i \in evaluated : Holds(conditions[i])}
        triggered == {i \in true : ~conditions[i].triggerOnlyOnRisingEdge
                                   \/ i \notin mConditionsWithConditionCurrentlyTrue}
    IN  /\ ~collecting
        /\ mConditionsWithInputSignalChanged' = mConditionsWithInputSignalChanged \ evaluated
        /\ mConditionsWithConditionCurrentlyTrue' =
              (mConditionsWithConditionCurrentlyTrue \ evaluated) \cup true
        /\ mConditionsNotTriggeredWaitingPublished' =
              mConditionsNotTriggeredWaitingPublished \ triggered
        /\ mLastTrigger' = [i \in Loaded |-> IF i \in triggered THEN now ELSE mLastTrigger[i]]
        /\ sent' = NoData
        /\ UNCHANGED <<now, conditions, buffers, evaluating, mNextConditionToCollectedIndex,
                       mActiveDTCsConsumed, collecting, waitTimeMs, delivered>>

-----------------------------------------------------------------------------
(* collectNextDataToSend *)

\* The position of the sample that was recorded i samples before the latest one.
PositionUnwrapped(b, i) == IF b.mCurrentPosition >= i THEN b.mCurrentPosition - i ELSE 0
Position(b, i) == (b.mCurrentPosition - i + RingSize(b)) % RingSize(b)

\* collectLastSignals and collectLastCanFrames go back at most as far as the item asks for.
Visited(item) ==
    IF Key(item) \notin DOMAIN buffers THEN {}
    ELSE LET b == buffers[Key(item)]
         IN  {Position(b, i) : i \in 0 .. Min({item.size, b.mCounter}) - 1}
Published(c) == {item \in ItemsOf(c) : ~item.conditionOnly}
VisitedOf(c, k) == UNION {Visited(item) : item \in {it \in Published(c) : Key(it) = k}}

Collected(i) ==
    {kp \in UNION {{k} \X VisitedOf(conditions[i], k) : k \in DOMAIN buffers} :
        i \notin buffers[kp[1]].ring[kp[2]].consumed \/ ~SendOnce}
Samples(positions) == {<<kp[1], buffers[kp[1]].ring[kp[2]].n>> : kp \in positions}

Consumed(i) ==
    [k \in DOMAIN buffers |->
        [buffers[k] EXCEPT !.ring =
            [p \in DOMAIN buffers[k].ring |->
                IF <<k, p>> \in Collected(i)
                THEN [buffers[k].ring[p] EXCEPT !.consumed = @ \cup {i}]
                ELSE buffers[k].ring[p]]]]

IncludesDTCs(i) ==
    conditions[i].includeActiveDtcs /\ (i \notin mActiveDTCsConsumed \/ SendOnce)

Waiting(i) == i \notin mConditionsNotTriggeredWaitingPublished
DueAt(i) == mLastTrigger[i] + conditions[i].afterDuration
Due(i) == Waiting(i) /\ now >= DueAt(i)

\* The conditions in the order in which the loop meets them.
Rotation ==
    LET n == Len(conditions)
    IN  [j \in 1 .. n |-> ((mNextConditionToCollectedIndex + j - 2) % n) + 1]
MayDrop(i) == conditions[i].probability # "always"
MaySend(i) == conditions[i].probability # "never"

\* The loop drops what is due by chance until it comes to something it sends ...
CollectKeepsWaiting(j) ==
    LET i == Rotation[j]
        dropped == {Rotation[x] : x \in {y \in 1 .. j - 1 : Due(Rotation[y])}}
    IN  /\ Due(i) /\ MaySend(i)
        /\ \A d \in dropped : MayDrop(d)
        /\ UNCHANGED mConditionsNotTriggeredWaitingPublished
        /\ sent' = [condition |-> i, samples |-> Samples(Collected(i)), dtcs |-> IncludesDTCs(i)]
        /\ buffers' = Consumed(i)
        /\ mActiveDTCsConsumed' =
              IF IncludesDTCs(i) THEN mActiveDTCsConsumed \cup {i} ELSE mActiveDTCsConsumed
        /\ delivered' = [delivered EXCEPT ![i] = @ \cup Samples(Collected(i))]
        /\ mNextConditionToCollectedIndex' = i
        /\ collecting' = TRUE
        /\ UNCHANGED <<now, conditions, evaluating, bits, mLastTrigger, waitTimeMs>>
Collect(j) ==
    LET i == Rotation[j]
        dropped == {Rotation[x] : x \in {y \in 1 .. j - 1 : Due(Rotation[y])}}
    IN  /\ Due(i) /\ MaySend(i)
        /\ \A d \in dropped : MayDrop(d)
        /\ mConditionsNotTriggeredWaitingPublished' =
              mConditionsNotTriggeredWaitingPublished \cup dropped \cup {i}
        /\ sent' = [condition |-> i, samples |-> Samples(Collected(i)), dtcs |-> IncludesDTCs(i)]
        /\ buffers' = Consumed(i)
        /\ mActiveDTCsConsumed' =
              IF IncludesDTCs(i) THEN mActiveDTCsConsumed \cup {i} ELSE mActiveDTCsConsumed
        /\ delivered' = [delivered EXCEPT ![i] = @ \cup Samples(Collected(i))]
        /\ mNextConditionToCollectedIndex' = i
        /\ collecting' = TRUE
        /\ UNCHANGED <<now, conditions, evaluating, bits, mLastTrigger, waitTimeMs>>

\* ... or has nothing to send, and says how long there is to wait; the worker's loop ends.
Remaining(i) == DueAt(i) - now
WaitTime(is) == Min({Forever} \cup {Remaining(i) : i \in is})
CollectNothing ==
    LET due == {i \in Loaded : Due(i)}
    IN  /\ \A i \in due : MayDrop(i)
        /\ mConditionsNotTriggeredWaitingPublished' =
              mConditionsNotTriggeredWaitingPublished \cup due
        /\ collecting' = FALSE
        /\ waitTimeMs' = WaitTime({i \in Loaded : Waiting(i) /\ ~Due(i)})
        /\ sent' = NoData
        /\ UNCHANGED <<now, conditions, buffers, evaluating, bits, mLastTrigger,
                       mNextConditionToCollectedIndex, mActiveDTCsConsumed, delivered>>

collectNextDataToSend == CollectNothing \/ \E j \in Loaded : Collect(j)

Tick ==
    /\ now < MaxTime
    /\ now' = now + 1
    /\ sent' = NoData
    /\ UNCHANGED <<conditions, buffers, evaluating, bits,
                   mConditionsNotTriggeredWaitingPublished, mLastTrigger,
                   mNextConditionToCollectedIndex, mActiveDTCsConsumed, collecting,
                   waitTimeMs, delivered>>

Next ==
    \/ \E m \in Matrices : onChangeInspectionMatrix(m)
    \/ \E s \in Signals, v \in SignalValues : addNewSignal(s, now, v)
    \/ \E f \in Frames, size \in FrameSizes : addNewRawCanFrame(f, now, size)
    \/ setActiveDTCs
    \/ evaluateConditions
    \/ collectNextDataToSend
    \/ Tick

\* The worker thread goes on collecting, and time goes on.
Fairness == WF_vars(collectNextDataToSend) /\ WF_vars(Tick)
Spec == Init /\ [][Next]_vars
FairSpec == Spec /\ Fairness

-----------------------------------------------------------------------------
(* Properties *)

SampleNumbers == UNION {{k} \X (1 .. buffers[k].mCounter) : k \in DOMAIN buffers}

TypeOK ==
    /\ now \in 1 .. MaxTime
    /\ conditions \in Seq(Conditions)
    /\ DOMAIN buffers \subseteq Keys(conditions)
    /\ \A k \in DOMAIN buffers :
          /\ DOMAIN buffers[k].ring = 0 .. SizeOf(conditions, k) - 1
          /\ buffers[k].mCurrentPosition \in DOMAIN buffers[k].ring
          /\ buffers[k].mCounter \in 0 .. MaxRecorded
          /\ buffers[k].mLastSample \in 0 .. now
          /\ \A p \in DOMAIN buffers[k].ring :
                buffers[k].ring[p].consumed \subseteq Loaded
    /\ evaluating \in [Keys(conditions) -> SUBSET Loaded]
    /\ mConditionsWithInputSignalChanged \subseteq Loaded
    /\ mConditionsWithConditionCurrentlyTrue \subseteq Loaded
    /\ mConditionsNotTriggeredWaitingPublished \subseteq Loaded
    /\ mLastTrigger \in [Loaded -> 0 .. now]
    /\ collecting \in BOOLEAN /\ waitTimeMs \in 1 .. Forever
    /\ sent # NoData => sent.condition \in Loaded /\ sent.samples \subseteq SampleNumbers

\* Everything has its type, and however often it wraps a ring holds the last samples: going
\* back from the current position as far as there are samples meets each number once, in
\* falling order.
RingHoldsLatest ==
    /\ TypeOK
    /\ \A k \in DOMAIN buffers : \A i \in 0 .. Min({RingSize(buffers[k]), buffers[k].mCounter}) - 1 :
           LET b == buffers[k]
           IN  b.ring[(b.mCurrentPosition - i + RingSize(b)) % RingSize(b)].n = b.mCounter - i

\* No trigger is missed: a condition that is not marked to be evaluated does not hold,
\* whatever came while its publish interval ran or while it waited to be published. (A
\* condition that reads nothing holds always; it is lost with a matrix that is malformed.)
UnmarkedDoesNotHold ==
    \A i \in Loaded \ (mConditionsWithInputSignalChanged
                          \cup mConditionsWithConditionCurrentlyTrue) :
        conditions[i].reads # {} => ~Holds(conditions[i])

\* With sendDataOnlyOncePerCondition, no condition publishes a sample a second time.
SentOnce ==
    [][SendOnce /\ sent' # NoData => sent'.samples \cap delivered[sent'.condition] = {}]_vars

\* What a condition asks for is published, now or before: of each buffer the latest
\* samples, up to the item's size.
NothingSkipped ==
    [][sent' # NoData =>
          \A item \in Published(conditions[sent'.condition]) :
              Key(item) \in DOMAIN buffers =>
                  LET b == buffers[Key(item)]
                  IN  \A i \in 0 .. Min({item.size, b.mCounter}) - 1 :
                          <<Key(item), b.mCounter - i>> \in delivered'[sent'.condition]]_vars

\* The thread is told to sleep no longer than until the next condition is due.
WokenInTime ==
    [][CollectNothing =>
          \A i \in Loaded \ mConditionsNotTriggeredWaitingPublished' :
              now + waitTimeMs' <= DueAt(i)]_vars

\* What a condition publishes is all it asks for, once and in time, through every wrap of the
\* rings, rotation of the conditions and change of the matrix.
PublishedInFull == SentOnce /\ NothingSkipped /\ WokenInTime

\* A triggered condition is published or dropped in the end, whichever other conditions
\* trigger meanwhile.
TriggeredServed ==
    \A i \in 1 .. MaxConditions :
        i \in Loaded /\ Waiting(i) /\ DueAt(i) <= MaxTime ~> i \notin Loaded \/ ~Waiting(i)

-----------------------------------------------------------------------------
(* What the comments say and the code does not do *)

\* "only data with a millisecond timestamp bigger than the timestamp the condition last
\* sent out data": the trouble codes of one report are published once.
DTCsSentOnce ==
    [][SendOnce /\ sent' # NoData /\ sent'.dtcs
           => sent'.condition \notin mActiveDTCsConsumed]_vars

\* "if the raw can messages is only 3 bytes big this will be 3": a frame is kept whole.
FramesWhole ==
    \A k \in DOMAIN buffers :
        k[1] \in Frames /\ buffers[k].mCounter > 0 => Latest(k) \in FrameSizes

=============================================================================
