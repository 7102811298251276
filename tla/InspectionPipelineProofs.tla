----------------------- MODULE InspectionPipelineProofs -----------------------
(***************************************************************************)
(* The safety of the way of a sample, for any number of producers and      *)
(* queues and any sizes: the fill that is reported of a queue is true, the *)
(* inspection thread does not sleep on samples it has not evaluated, and   *)
(* no thread sleeps on work.                                               *)
(***************************************************************************)
EXTENDS InspectionPipeline, FiniteSetTheorems, TLAPS

Times == 1 .. MaxTime
Signals == [set : BOOLEAN, waiting : {"none", "predicate", "timed"}]

Steps == {"top", "check", "pop", "popped", "evaluate", "idle", "collect", "deliver", "notify", "rest",
          "wait", "until", "ended"}
Workers == [step : Steps, next : Nat, readyToSleep : BOOLEAN, latest : 0 .. MaxTime,
            lastInput : 0 .. MaxTime, lastEvaluated : 0 .. MaxTime, count : Nat, held : Nat]
Engines == [matrix : Nat, added : Nat, due : SUBSET (Nat \X Nat)]

\* Every variable has its type, and what is popped belongs to a queue.
QueuesOK ==
    /\ clock \in Times /\ samples \in 0 .. MaxSamples
    /\ producer \in [Producers -> [step : {"idle"}] \cup [step : {"push", "undo"}, q : InputNames]]
    /\ queue \in [InputNames -> Seq(Times)] /\ mCurrentValue \in [InputNames -> Nat]
WorkerOK ==
    /\ worker \in Workers
    /\ worker.next > 0
    /\ worker.step = "popped" => worker.next \in DOMAIN Inputs
EngineOK ==
    /\ fUpdatedInspectionMatrix \in Nat /\ fUpdatedInspectionMatrixAvailable \in BOOLEAN
    /\ engine \in Engines
    /\ packages \in Nat /\ output \in Seq(Nat)
ThreadsOK ==
    /\ loop \in {"until", "wait", "consume", "ended"}
    /\ fWait \in Signals /\ mWait \in Signals
    /\ main \in {"run", "engineJoin", "disconnect", "workerNotify", "workerJoin", "done"}
TypeOK == QueuesOK /\ WorkerOK /\ EngineOK /\ ThreadsOK

\* The counter of a queue is exact, and within what was handed over; the unsigned arithmetic
\* never wraps.
Holders(q) == {p \in Producers : producer[p].step # "idle" /\ producer[p].q = q}
FillExact ==
    \A q \in InputNames :
        /\ IsFiniteSet(Holders(q))
        /\ mCurrentValue[q] = Len(queue[q]) + InHands(q)
        /\ mCurrentValue[q] <= samples

\* An engine without a matrix has no samples, and a thread that was never given one waits.
MatrixFirst ==
    /\ fUpdatedInspectionMatrix = 0 =>
          engine.matrix = 0 /\ ~fUpdatedInspectionMatrixAvailable
    /\ engine.matrix = 0 => engine.added = 0

\* While it pops, the latest time is that of what it popped in this round; samples of an
\* earlier round have left their time behind in lastInput, so that a round without samples,
\* whose latest time is 0, differs from it and is evaluated.
Rounds ==
    /\ worker.step \in {"pop", "popped", "evaluate"} =>
          /\ worker.readyToSleep => worker.latest = 0
          /\ engine.added > 0 => worker.lastInput > 0 \/ worker.latest > 0
    /\ worker.step \in {"idle", "collect", "deliver", "notify", "rest"} =>
          (engine.added > 0 => worker.lastInput > 0 /\ ~worker.readyToSleep)
    /\ worker.step \in {"until", "top", "check"} => (engine.added > 0 => worker.lastInput > 0)
    /\ worker.step = "wait" => engine.added = 0
    /\ Waits(fWait) => worker.step = "wait"

\* What is set before a wait starts stays set until the thread wakes; from then until it looks
\* again it owes nothing.
Pending ==
    /\ loop \in {"until", "wait"} /\ output # <<>> => mWait.set \/ worker.step = "notify"
    /\ Waits(mWait) => loop = "wait"
    /\ fUpdatedInspectionMatrixAvailable => fWait.set \/ worker.step \in {"until", "top", "ended"}
    /\ main = "workerJoin" => fWait.set \/ worker.step \in {"until", "ended"}

IInv == TypeOK /\ FillExact /\ MatrixFirst /\ Rounds /\ Pending

-----------------------------------------------------------------------------
(* Lemmas about the unsigned arithmetic and the times *)

\* Up and down again: below the width nothing wraps.
LEMMA Unsigned ==
    ASSUME NEW W \in Nat, NEW a \in 0 .. W - 1
    PROVE  /\ a + 1 < W => (a + 1) % W = a + 1
           /\ a > 0 => (a + W - 1) % W = a - 1
<1>1. a + 1 < W => (a + 1) % W = a + 1
    OBVIOUS
<1>2. a > 0 => (a + W - 1) % W = a - 1
    OBVIOUS
<1> QED
    BY <1>1, <1>2

\* The unsigned difference of two times is at least one whenever they differ.
LEMMA Newer ==
    ASSUME NEW a \in 0 .. MaxTime, NEW b \in 0 .. MaxTime, a # b
    PROVE  (a + Width - b) % Width >= 1
<1>1. CASE a > b
    BY <1>1, PipelineAssumption
<1>2. CASE a < b
    BY <1>2, PipelineAssumption
<1> QED
    BY <1>1, <1>2

\* Lemma.  The larger of two numbers.
LEMMA MaxOfTwo ==
    ASSUME NEW a \in Nat, NEW b \in Nat
    PROVE  Max({a, b}) = IF a >= b THEN a ELSE b
    BY DEF Max

-----------------------------------------------------------------------------
(* Types *)

\* Lemma.  The steps of the inspection thread, by name.
LEMMA StepNames ==
    /\ "top" \in Steps /\ "check" \in Steps /\ "pop" \in Steps /\ "popped" \in Steps /\ "evaluate" \in Steps
    /\ "idle" \in Steps /\ "collect" \in Steps /\ "deliver" \in Steps /\ "notify" \in Steps
    /\ "rest" \in Steps /\ "wait" \in Steps /\ "until" \in Steps /\ "ended" \in Steps
    BY DEF Steps

\* The counters of the worker and of the engine go up within their types.
LEMMA Counting ==
    /\ WorkerOK => worker.next + 1 \in Nat \ {0} /\ worker.count + 1 \in Nat
    /\ EngineOK => engine.added + 1 \in Nat
    BY DEF WorkerOK, Workers, EngineOK, Engines

\* What a step leaves alone keeps its type.
LEMMA Untouched ==
    /\ QueuesOK /\ UNCHANGED <<clock, samplesVars>> => QueuesOK'
    /\ WorkerOK /\ UNCHANGED worker => WorkerOK'
    /\ EngineOK /\ UNCHANGED <<matrixVars, engine, packageVars>> => EngineOK'
    /\ ThreadsOK /\ UNCHANGED <<loop, fWait, mWait, main>> => ThreadsOK'
    BY DEF QueuesOK, WorkerOK, EngineOK, ThreadsOK, samplesVars, matrixVars, packageVars

\* Setting a signal, waiting on it and waking keep its type.
LEMMA SignalTypes ==
    ASSUME NEW s \in Signals
    PROVE  /\ Notified(s) \in Signals /\ Notified(s).set /\ Notified(s).waiting = s.waiting
           /\ \A how \in {"predicate", "timed"} :
                 /\ WaitsFor(s, how) \in Signals /\ WaitsFor(s, how).set = s.set
                 /\ WaitsFor(s, how).waiting = how
           /\ Awake(s) \in Signals /\ ~Awake(s).set /\ Awake(s).waiting = "none"
    BY DEF Signals, Notified, WaitsFor, Awake

\* The producers touch the queues and what is counted of them.
LEMMA ProducersType ==
    ASSUME TypeOK, NEW p \in Producers, Producer(p)
    PROVE  TypeOK'
<1> USE PipelineAssumption DEF QueuesOK
<1>1. QueuesOK' 
  <2>0. UNCHANGED clock /\ QueuesOK
      BY DEF Producer, otherThanSamples, TypeOK
  <2>1. CASE \E q \in InputNames : Count(p, q)
    <3> PICK q \in InputNames : Count(p, q)
        BY <2>1
    <3>1. (mCurrentValue[q] + 1) % Width \in Nat
        BY <2>0
    <3> QED
        BY <2>0, <3>1 DEF Count
  <2>2. CASE Push(p)
    <3>1. producer[p] \in [step : {"push", "undo"}, q : InputNames]
        BY <2>0, <2>2 DEF Push
    <3>2. CASE /\ queue' = [queue EXCEPT ![producer[p].q] = Append(@, clock)]
               /\ producer' = [producer EXCEPT ![p] = [step |-> "idle"]]
      <4> DEFINE q == producer[p].q
      <4>1. q \in InputNames /\ Append(queue[q], clock) \in Seq(Times)
          BY <2>0, <3>1
      <4> HIDE DEF q
      <4>2. queue' \in [InputNames -> Seq(Times)]
          BY <2>0, <3>2, <4>1 DEF q
      <4> QED
          BY <2>0, <2>2, <3>2, <4>2 DEF Push
    <3>3. CASE producer' = [producer EXCEPT ![p].step = "undo"] /\ UNCHANGED queue
      <4>1. [producer[p] EXCEPT !.step = "undo"] \in [step : {"push", "undo"}, q : InputNames]
          BY <3>1
      <4> QED
          BY <2>0, <2>2, <3>3, <4>1 DEF Push
    <3> QED
        BY <2>2, <3>2, <3>3 DEF Push
  <2>3. CASE Undo(p)
    <3>1. producer[p].q \in InputNames
        BY <2>0, <2>3 DEF Undo
    <3>2. (mCurrentValue[producer[p].q] + Width - 1) % Width \in Nat
        BY <2>0, <3>1
    <3> QED
        BY <2>0, <2>3, <3>1, <3>2 DEF Undo
  <2> QED
      BY <2>1, <2>2, <2>3 DEF Producer
<1> QED
    BY <1>1, Untouched DEF Producer, otherThanSamples, TypeOK, matrixVars, packageVars

\* What Pop does, with the queue it looks at named.
LEMMA PopDoes ==
    ASSUME WorkerOK, Pop
    PROVE  /\ worker.step = "pop"
           /\ UNCHANGED <<clock, samples, producer, mCurrentValue, matrixVars, packageVars, loop, fWait,
                          mWait, main>>
           /\ \/ /\ worker' = [worker EXCEPT !.step = "evaluate", !.next = 1]
                 /\ UNCHANGED <<queue, engine>>
              \/ /\ worker' = [worker EXCEPT !.next = @ + 1]
                 /\ UNCHANGED <<queue, engine>>
              \/ \E q \in InputNames :
                    /\ worker.next \in DOMAIN Inputs /\ q = Inputs[worker.next] /\ queue[q] # <<>>
                    /\ queue' = [queue EXCEPT ![q] = Tail(@)]
                    /\ engine' = [engine EXCEPT !.added = IF engine.matrix = 0 THEN 0 ELSE @ + 1]
                    /\ worker' = [worker EXCEPT !.step = "popped", !.readyToSleep = FALSE,
                                     !.latest = Max({@, Head(queue[q])}), !.count = @ + 1]
<1>1. worker.next > Len(Inputs) \/ worker.next \in DOMAIN Inputs
    BY PipelineAssumption DEF WorkerOK, Workers
<1>2. worker.next \in DOMAIN Inputs => ~(worker.next > Len(Inputs)) /\ Inputs[worker.next] \in InputNames
    BY PipelineAssumption DEF InputNames
<1> QED
    BY <1>1, <1>2 DEF Pop, At

\* What the worker pops.
LEMMA PopType ==
    ASSUME TypeOK, Pop \/ Popped
    PROVE  TypeOK'
<1>0. QueuesOK /\ WorkerOK /\ EngineOK /\ ThreadsOK
    BY DEF TypeOK
<1>1. CASE Pop
  <2> DEFINE same == UNCHANGED <<clock, samples, producer, mCurrentValue, matrixVars, packageVars, loop,
                                 fWait, mWait, main>>
  <2>0. same
      BY <1>0, <1>1, PopDoes
  <2>1. CASE /\ \/ worker' = [worker EXCEPT !.step = "evaluate", !.next = 1]
                \/ worker' = [worker EXCEPT !.next = @ + 1]
             /\ worker.step = "pop" /\ UNCHANGED <<queue, engine>>
    <3>1. ASSUME worker' = [worker EXCEPT !.step = "evaluate", !.next = 1]
          PROVE  WorkerOK'
      <4>1. worker' \in Workers
          BY <1>0, <3>1, StepNames DEF WorkerOK, Workers
      <4>2. worker'.next = 1 /\ worker'.step = "evaluate"
          BY <1>0, <3>1 DEF WorkerOK, Workers
      <4> QED
          BY <4>1, <4>2 DEF WorkerOK
    <3>2. ASSUME worker' = [worker EXCEPT !.next = @ + 1]
          PROVE  WorkerOK'
        BY <1>0, <2>1, <3>2, Counting DEF WorkerOK, Workers
    <3>3. WorkerOK'
        BY <2>1, <3>1, <3>2
    <3> QED
        BY <1>0, <2>0, <2>1, <3>3, Untouched DEF TypeOK, samplesVars
  <2>2. CASE \E q \in InputNames :
                /\ worker.next \in DOMAIN Inputs /\ queue[q] # <<>>
                /\ queue' = [queue EXCEPT ![q] = Tail(@)]
                /\ engine' = [engine EXCEPT !.added = IF engine.matrix = 0 THEN 0 ELSE @ + 1]
                /\ worker' = [worker EXCEPT !.step = "popped", !.readyToSleep = FALSE,
                                 !.latest = Max({@, Head(queue[q])}), !.count = @ + 1]
    <3> PICK q \in InputNames :
                /\ worker.next \in DOMAIN Inputs /\ queue[q] # <<>>
                /\ queue' = [queue EXCEPT ![q] = Tail(@)]
                /\ engine' = [engine EXCEPT !.added = IF engine.matrix = 0 THEN 0 ELSE @ + 1]
                /\ worker' = [worker EXCEPT !.step = "popped", !.readyToSleep = FALSE,
                                 !.latest = Max({@, Head(queue[q])}), !.count = @ + 1]
        BY <2>2
    <3> DEFINE latest == Max({worker.latest, Head(queue[q])})
    <3>1. Head(queue[q]) \in Times /\ Tail(queue[q]) \in Seq(Times)
        BY <1>0 DEF QueuesOK
    <3>2. latest \in 0 .. MaxTime
      <4> DEFINE h == Head(queue[q])
      <4>1. worker.latest \in 0 .. MaxTime /\ h \in 1 .. MaxTime
          BY <1>0, <3>1 DEF Times, WorkerOK, Workers
      <4>2. latest = IF worker.latest >= h THEN worker.latest ELSE h
        <5>1. worker.latest \in Nat /\ h \in Nat
            BY <4>1, PipelineAssumption
        <5> HIDE DEF h
        <5> QED
            BY <5>1, MaxOfTwo DEF h
      <4> HIDE DEF latest, h
      <4> QED
          BY <4>1, <4>2, PipelineAssumption
    <3>3. worker' = [worker EXCEPT !.step = "popped", !.readyToSleep = FALSE, !.latest = latest, !.count = @ + 1]
        OBVIOUS
    <3> HIDE DEF latest
    <3>4. QueuesOK'
        BY <1>0, <2>0, <3>1 DEF QueuesOK
    <3>5. WorkerOK'
      <4>1. worker' \in Workers
          BY <1>0, <3>2, <3>3, StepNames, Counting DEF WorkerOK, Workers
      <4>2. worker'.next = worker.next
          BY <1>0, <3>3 DEF WorkerOK, Workers
      <4> QED
          BY <1>0, <4>1, <4>2 DEF WorkerOK
    <3>6. EngineOK'
        BY <1>0, <2>0, Counting DEF EngineOK, Engines, matrixVars, packageVars
    <3> QED
        BY <1>0, <2>0, <3>4, <3>5, <3>6, Untouched DEF TypeOK
  <2> QED
      BY <1>0, <1>1, <2>1, <2>2, PopDoes
<1>2. CASE Popped
  <2> DEFINE q == Inputs[worker.next]
  <2>1. q \in InputNames
      BY <1>0, <1>2 DEF Popped, At, InputNames, WorkerOK
  <2>2. (mCurrentValue[q] + Width - 1) % Width \in Nat
      BY <1>0, <2>1, PipelineAssumption DEF QueuesOK
  <2>3. /\ mCurrentValue' = [mCurrentValue EXCEPT ![q] = (@ + Width - 1) % Width]
        /\ UNCHANGED <<clock, samples, producer, queue>>
      BY <1>2 DEF Popped
  <2>4. worker' = [worker EXCEPT !.step = "pop", !.next = @ + 1]
      BY <1>2 DEF Popped
  <2> HIDE DEF q
  <2>5. QueuesOK'
      BY <1>0, <2>1, <2>2, <2>3 DEF QueuesOK
  <2>6. WorkerOK'
    <3>1. worker' \in Workers
        BY <1>0, <2>4, StepNames, Counting DEF WorkerOK, Workers
    <3>2. worker'.next = worker.next + 1 /\ worker'.step = "pop"
        BY <1>0, <2>4 DEF WorkerOK, Workers
    <3> QED
        BY <1>0, <3>1, <3>2, Counting DEF WorkerOK
  <2> QED
      BY <1>0, <1>2, <2>5, <2>6, Untouched DEF Popped, TypeOK
<1> QED
    BY <1>1, <1>2

\* An evaluation leaves a package that is due, or none.
LEMMA EvaluateType ==
    ASSUME TypeOK, EvaluateInput \/ EvaluateIdle
    PROVE  TypeOK'
<1>0. QueuesOK /\ WorkerOK /\ EngineOK /\ ThreadsOK
    BY DEF TypeOK
<1>1. ASSUME NEW step \in {"idle", "collect"}, EvaluateAndGo(step)
      PROVE  WorkerOK' /\ engine' \in Engines /\ packages' \in Nat
  <2> DEFINE latest == IF step = "collect" THEN 0 ELSE worker.latest
  <2>1. /\ step \in Steps /\ step # "popped" /\ latest \in 0 .. MaxTime /\ clock \in 0 .. MaxTime
        /\ worker.latest \in 0 .. MaxTime
      BY <1>0, StepNames, PipelineAssumption DEF QueuesOK, Times, WorkerOK, Workers
  <2>2. worker' = [worker EXCEPT !.step = step, !.lastInput = worker.latest, !.latest = latest,
                                 !.lastEvaluated = clock, !.count = 0]
      BY <1>1 DEF EvaluateAndGo
  <2> HIDE DEF latest
  <2>3. WorkerOK'
      BY <1>0, <2>1, <2>2 DEF WorkerOK, Workers
  <2>4. CASE engine' = [engine EXCEPT !.added = 0] /\ UNCHANGED packages
      BY <1>0, <2>3, <2>4 DEF EngineOK, Engines
  <2>5. CASE /\ packages' = packages + 1
             /\ \E t \in {clock, clock + 1} : t <= MaxTime /\
                   engine' = [engine EXCEPT !.added = 0, !.due = @ \cup {<<packages', t>>}]
    <3> PICK t \in {clock, clock + 1} :
             engine' = [engine EXCEPT !.added = 0, !.due = @ \cup {<<packages', t>>}]
        BY <2>5
    <3>1. t \in Nat /\ packages' \in Nat
        BY <1>0, <2>1, <2>5 DEF EngineOK
    <3>2. engine.due \cup {<<packages', t>>} \in SUBSET (Nat \X Nat)
        BY <1>0, <3>1 DEF EngineOK, Engines
    <3> QED
        BY <1>0, <2>3, <3>1, <3>2 DEF EngineOK, Engines
  <2> QED
      BY <1>1, <2>4, <2>5 DEF EvaluateAndGo
<1>2. WorkerOK' /\ engine' \in Engines /\ packages' \in Nat
  <2>1. CASE worker' = [worker EXCEPT !.step = "idle"] /\ UNCHANGED <<engine, packages>>
      BY <1>0, <2>1, StepNames DEF WorkerOK, Workers, EngineOK
  <2>2. CASE worker' = [worker EXCEPT !.step = "collect", !.latest = 0] /\ UNCHANGED <<engine, packages>>
    <3>1. 0 \in 0 .. MaxTime
        BY PipelineAssumption
    <3> QED
        BY <1>0, <2>2, <3>1, StepNames DEF WorkerOK, Workers, EngineOK
  <2> QED
      BY <1>1, <2>1, <2>2 DEF EvaluateInput, EvaluateIdle, Go
<1>3. UNCHANGED <<clock, samplesVars, matrixVars, output, loop, fWait, mWait, main>>
    BY DEF EvaluateInput, EvaluateIdle
<1>4. EngineOK'
    BY <1>0, <1>2, <1>3 DEF EngineOK, matrixVars
<1> QED
    BY <1>0, <1>2, <1>3, <1>4, Untouched DEF TypeOK

\* The steps that move only the worker itself, and what it holds.
LEMMA MoveType ==
    ASSUME TypeOK, TakeMatrix \/ Check \/ Collect \/ Deliver \/ NotifySender \/ Rest \/ Woken \/ LoopOrEnd
    PROVE  WorkerOK'
<1>0. WorkerOK /\ EngineOK
    BY DEF TypeOK
<1>1. 0 \in 0 .. MaxTime
    BY PipelineAssumption
<1>2. ASSUME NEW step \in Steps \ {"popped"}, worker' = [worker EXCEPT !.step = step]
      PROVE  WorkerOK'
    BY <1>0, <1>2 DEF WorkerOK, Workers
<1>3. CASE TakeMatrix \/ NotifySender \/ Woken \/ LoopOrEnd
    BY <1>2, <1>3, StepNames DEF TakeMatrix, NotifySender, Woken, LoopOrEnd, Go
<1>4. CASE Check
  <2>1. CASE worker' = [worker EXCEPT !.step = "pop", !.next = 1, !.readyToSleep = TRUE, !.latest = 0]
    <3>1. worker' \in Workers
        BY <1>0, <1>1, <2>1, StepNames DEF WorkerOK, Workers
    <3>2. worker'.next = 1 /\ worker'.step = "pop"
        BY <1>0, <2>1 DEF WorkerOK, Workers
    <3> QED
        BY <3>1, <3>2 DEF WorkerOK
  <2> QED
      BY <1>2, <1>4, <2>1, StepNames DEF Check, Go
<1>5. CASE Collect
  <2>1. ASSUME NEW h \in Nat, NEW step \in {"deliver", "rest"},
               worker' = [worker EXCEPT !.step = step, !.held = h]
        PROVE  WorkerOK'
      BY <1>0, <2>1, StepNames DEF WorkerOK, Workers
  <2>2. \A d \in engine.due : d[1] \in Nat
      BY <1>0 DEF EngineOK, Engines
  <2> QED
      BY <1>5, <2>1, <2>2 DEF Collect
<1>6. CASE Deliver
  <2>1. ASSUME NEW step \in {"rest", "collect", "notify"}, worker' = [worker EXCEPT !.step = step, !.held = 0]
        PROVE  WorkerOK'
      BY <1>0, <2>1, StepNames DEF WorkerOK, Workers
  <2> QED
      BY <1>6, <2>1 DEF Deliver
<1>7. CASE Rest
  <2>1. CASE worker' = [worker EXCEPT !.step = "until", !.readyToSleep = TRUE]
      BY <1>0, <2>1, StepNames DEF WorkerOK, Workers
  <2> QED
      BY <1>2, <1>7, <2>1, StepNames DEF Rest, Go
<1> QED
    BY <1>3, <1>4, <1>5, <1>6, <1>7

\* Every step keeps the types.
LEMMA TypeKeeps ==
    ASSUME TypeOK, [Next]_vars
    PROVE  TypeOK'
<1> USE PipelineAssumption DEF TypeOK
<1>1. CASE \E p \in Producers : Producer(p)
    BY <1>1, ProducersType
<1>2. CASE onChangeInspectionMatrix
  <2>1. EngineOK'
      BY <1>2 DEF onChangeInspectionMatrix, EngineOK, packageVars
  <2>2. ThreadsOK'
      BY <1>2 DEF onChangeInspectionMatrix, ThreadsOK, Signals, Notified
  <2> QED
      BY <1>2, <2>1, <2>2, Untouched DEF onChangeInspectionMatrix
<1>3. CASE WorkerStep
  <2>0. CASE Pop \/ Popped
      BY <2>0, PopType
  <2>1. CASE EvaluateInput \/ EvaluateIdle
      BY <2>1, EvaluateType
  <2>2. CASE TakeMatrix
    <3>1. [matrix |-> fUpdatedInspectionMatrix, added |-> 0, due |-> {}] \in Engines
        BY DEF EngineOK, Engines
    <3>2. EngineOK'
        BY <2>2, <3>1 DEF TakeMatrix, EngineOK, packageVars
    <3> QED
        BY <2>2, <3>2, MoveType, Untouched DEF TakeMatrix
  <2>3. CASE Check \/ NotifySender \/ Rest \/ Woken \/ LoopOrEnd
    <3>1. ThreadsOK'
        BY <2>3, SignalTypes DEF Check, NotifySender, Rest, Woken, LoopOrEnd, ThreadsOK
    <3> QED
        BY <2>3, <3>1, MoveType, Untouched DEF Check, NotifySender, Rest, Woken, LoopOrEnd
  <2>4. CASE Collect
    <3>1. engine' \in Engines
        BY <2>4 DEF Collect, EngineOK, Engines
    <3>2. EngineOK'
        BY <2>4, <3>1 DEF Collect, EngineOK, matrixVars, packageVars
    <3> QED
        BY <2>4, <3>2, MoveType, Untouched DEF Collect
  <2>5. CASE Deliver
    <3>1. worker.held \in Nat
        BY DEF WorkerOK, Workers
    <3>2. output' \in {output, Append(output, worker.held)} /\ UNCHANGED <<matrixVars, engine, packages>>
        BY <2>5 DEF Deliver
    <3>3. EngineOK'
        BY <3>1, <3>2 DEF EngineOK, matrixVars
    <3> QED
        BY <2>5, <3>3, MoveType, Untouched DEF Deliver
  <2> QED
      BY <1>3, <2>0, <2>1, <2>2, <2>3, <2>4, <2>5 DEF WorkerStep
<1>4. CASE LoopStep
  <2>1. ThreadsOK'
      BY <1>4, SignalTypes DEF LoopStep, LoopOver, LoopWait, LoopWoken, SendNext, AllConsumed, otherThanLoop,
         ThreadsOK
  <2>2. /\ output' = output \/ (output # <<>> /\ output' = Tail(output))
        /\ UNCHANGED <<matrixVars, engine, packages>>
      BY <1>4 DEF LoopStep, LoopOver, LoopWait, LoopWoken, SendNext, AllConsumed, otherThanLoop
  <2>3. output' \in Seq(Nat)
      BY <2>2 DEF EngineOK
  <2>4. EngineOK'
      BY <2>2, <2>3 DEF EngineOK, matrixVars
  <2> QED
      BY <1>4, <2>1, <2>4, Untouched DEF LoopStep, LoopOver, LoopWait, LoopWoken, SendNext, AllConsumed,
         otherThanLoop
<1>5. CASE MainStep
  <2>1. ThreadsOK'
      BY <1>5 DEF MainStep, StopEngine, JoinEngine, StopWorker, NotifyWorker, JoinWorker, MainGoes,
         ThreadsOK, Signals, Notified
  <2> QED
      BY <1>5, <2>1, Untouched DEF MainStep, StopEngine, JoinEngine, StopWorker, NotifyWorker, JoinWorker,
         MainGoes
<1>6. CASE Tick
  <2>1. QueuesOK'
      BY <1>6 DEF Tick, QueuesOK, Times, samplesVars
  <2> QED
      BY <1>6, <2>1, Untouched DEF Tick
<1>7. CASE UNCHANGED vars
    BY <1>7, Untouched DEF vars
<1> QED
    BY <1>1, <1>2, <1>3, <1>4, <1>5, <1>6, <1>7 DEF Next

-----------------------------------------------------------------------------
(* The fill of the queues *)

Popping(q) == IF At("popped") /\ Inputs[worker.next] = q THEN 1 ELSE 0

\* What a queue's counter must be, by where its samples are; and that it may be counted up.
LEMMA FillMeans ==
    ASSUME TypeOK, FillExact, NEW q \in InputNames
    PROVE  /\ IsFiniteSet(Holders(q)) /\ Cardinality(Holders(q)) \in Nat
           /\ mCurrentValue[q] = Len(queue[q]) + Cardinality(Holders(q)) + Popping(q)
           /\ mCurrentValue[q] \in 0 .. samples /\ samples \in 0 .. MaxSamples /\ Len(queue[q]) \in Nat
           /\ Popping(q) \in {0, 1}
<1>1. IsFiniteSet(Holders(q)) /\ Cardinality(Holders(q)) \in Nat
    BY FS_CardinalityType DEF FillExact
<1>2. queue[q] \in Seq(Times) /\ mCurrentValue[q] \in Nat /\ samples \in 0 .. MaxSamples
    BY DEF TypeOK, QueuesOK
<1>3. Len(queue[q]) \in Nat
    BY <1>2
<1>4. mCurrentValue[q] = Len(queue[q]) + Cardinality(Holders(q)) + Popping(q) /\ mCurrentValue[q] <= samples
    BY <1>1, <1>2, <1>3 DEF FillExact, InHands, Popping, Holders
<1> QED
    BY <1>1, <1>2, <1>3, <1>4, PipelineAssumption DEF Popping

\* The other way round, for the state after a step.
LEMMA FillFollows ==
    ASSUME \A q \in InputNames :
               /\ IsFiniteSet(Holders(q)') /\ Cardinality(Holders(q)') \in Nat /\ Len(queue'[q]) \in Nat
               /\ mCurrentValue'[q] = Len(queue'[q]) + Cardinality(Holders(q)') + Popping(q)'
               /\ mCurrentValue'[q] <= samples'
    PROVE  FillExact'
<1> SUFFICES ASSUME NEW q \in InputNames
             PROVE  /\ IsFiniteSet(Holders(q)') /\ mCurrentValue'[q] = Len(queue'[q]) + InHands(q)'
                    /\ mCurrentValue'[q] <= samples'
    BY DEF FillExact
<1>1. InHands(q)' = Cardinality(Holders(q)') + Popping(q)'
    BY DEF InHands, Popping, Holders
<1>2. Popping(q)' \in {0, 1}
    BY DEF Popping
<1> QED
    BY <1>1, <1>2

\* A sample is counted before it is queued, and taken back when it cannot be.
LEMMA ProducersFill ==
    ASSUME TypeOK, TypeOK', FillExact, NEW p \in Producers, Producer(p)
    PROVE  FillExact'
<1>1. UNCHANGED worker /\ \A q \in InputNames : Popping(q)' = Popping(q)
    BY DEF Producer, otherThanSamples, Popping, At
<1>2. /\ producer \in [Producers -> [step : {"idle"}] \cup [step : {"push", "undo"}, q : InputNames]]
      /\ mCurrentValue \in [InputNames -> Nat] /\ queue \in [InputNames -> Seq(Times)]
      /\ \A q \in InputNames : Len(queue'[q]) \in Nat
    BY DEF TypeOK, QueuesOK
<1>0. \A q \in InputNames :
          /\ Cardinality(Holders(q)) \in Nat /\ Len(queue[q]) \in Nat /\ Popping(q) \in {0, 1}
          /\ mCurrentValue[q] = Len(queue[q]) + Cardinality(Holders(q)) + Popping(q)
          /\ mCurrentValue[q] <= samples /\ samples \in Nat
    BY FillMeans, PipelineAssumption
<1>3. CASE \E q \in InputNames : Count(p, q)
  <2> PICK q0 \in InputNames : Count(p, q0)
      BY <1>3
  <2>1. /\ p \notin Holders(q0)
        /\ \A q \in InputNames : Holders(q)' = IF q = q0 THEN Holders(q) \cup {p} ELSE Holders(q)
      BY <1>2 DEF Count, Holders
  <2>2. \A q \in InputNames \ {q0} : mCurrentValue'[q] = mCurrentValue[q]
      BY <1>2 DEF Count
  <2>3. mCurrentValue'[q0] = mCurrentValue[q0] + 1
    <3>1. mCurrentValue'[q0] = (mCurrentValue[q0] + 1) % Width /\ samples < MaxSamples
        BY <1>2 DEF Count
    <3>2. mCurrentValue[q0] \in 0 .. Width - 1 /\ mCurrentValue[q0] + 1 < Width /\ Width \in Nat
        BY <3>1, FillMeans, PipelineAssumption
    <3> QED
        BY <3>1, <3>2, Unsigned
  <2>4. samples' = samples + 1 /\ queue' = queue
      BY DEF Count
  <2>5. /\ IsFiniteSet(Holders(q0) \cup {p})
        /\ Cardinality(Holders(q0) \cup {p}) = Cardinality(Holders(q0)) + 1
      BY <2>1, FillMeans, FS_AddElement
  <2> QED
    <3> SUFFICES ASSUME NEW q \in InputNames
                 PROVE  /\ IsFiniteSet(Holders(q)') /\ Cardinality(Holders(q)') \in Nat /\ Len(queue'[q]) \in Nat
                        /\ mCurrentValue'[q] = Len(queue'[q]) + Cardinality(Holders(q)') + Popping(q)'
                        /\ mCurrentValue'[q] <= samples'
        BY FillFollows
    <3>1. CASE q = q0
      <4>1. Holders(q)' = Holders(q0) \cup {p}
          BY <2>1, <3>1
      <4> QED
          BY <1>0, <1>1, <2>3, <2>4, <2>5, <3>1, <4>1
    <3>2. CASE q # q0
        BY <1>1, <2>1, <2>2, <2>4, <3>2, FillMeans
    <3> QED
        BY <3>1, <3>2
<1>4. CASE Push(p)
  <2> DEFINE q0 == producer[p].q
  <2>1. q0 \in InputNames /\ p \in Holders(q0) /\ UNCHANGED <<samples, mCurrentValue>>
      BY <1>2, <1>4 DEF Push, Holders
  <2>2. CASE /\ queue' = [queue EXCEPT ![producer[p].q] = Append(@, clock)]
             /\ producer' = [producer EXCEPT ![p] = [step |-> "idle"]]
    <3>1. \A q \in InputNames : Holders(q)' = IF q = q0 THEN Holders(q) \ {p} ELSE Holders(q)
        BY <1>2, <2>1, <2>2 DEF Holders
    <3>2. \A q \in InputNames : Len(queue'[q]) = IF q = q0 THEN Len(queue[q]) + 1 ELSE Len(queue[q])
        BY <1>2, <2>1, <2>2
    <3>3. /\ IsFiniteSet(Holders(q0) \ {p}) /\ Cardinality(Holders(q0)) \in Nat
          /\ Cardinality(Holders(q0) \ {p}) = Cardinality(Holders(q0)) - 1
          /\ Cardinality(Holders(q0) \ {p}) \in Nat
        BY <2>1, FillMeans, FS_RemoveElement, FS_CardinalityType
    <3> HIDE DEF q0
    <3> QED
      <4> SUFFICES ASSUME NEW q \in InputNames
                   PROVE  /\ IsFiniteSet(Holders(q)') /\ Cardinality(Holders(q)') \in Nat
                          /\ Len(queue'[q]) \in Nat
                          /\ mCurrentValue'[q] = Len(queue'[q]) + Cardinality(Holders(q)') + Popping(q)'
                          /\ mCurrentValue'[q] <= samples'
          BY FillFollows
      <4>1. CASE q = q0
        <5>1. Holders(q)' = Holders(q0) \ {p} /\ Len(queue'[q]) = Len(queue[q0]) + 1
            BY <3>1, <3>2, <4>1
        <5>2. mCurrentValue'[q] = mCurrentValue[q0] /\ Popping(q)' = Popping(q0) /\ samples' = samples
            BY <1>1, <2>1, <4>1
        <5>3. IsFiniteSet(Holders(q)') /\ Cardinality(Holders(q)') = Cardinality(Holders(q0)) - 1
            BY <3>3, <5>1
        <5>4. /\ Cardinality(Holders(q0)) \in Nat /\ Cardinality(Holders(q0)) - 1 \in Nat
              /\ Len(queue[q0]) \in Nat /\ mCurrentValue[q0] <= samples /\ Popping(q0) \in {0, 1}
              /\ mCurrentValue[q0] = Len(queue[q0]) + Cardinality(Holders(q0)) + Popping(q0)
            BY <1>0, <2>1, <3>3
        <5> QED
            BY <5>1, <5>2, <5>3, <5>4
      <4>2. CASE q # q0
          BY <1>1, <2>1, <3>1, <3>2, <4>2, FillMeans
      <4> QED
          BY <4>1, <4>2
  <2>3. CASE producer' = [producer EXCEPT ![p].step = "undo"] /\ UNCHANGED queue
    <3>1. \A q \in InputNames : Holders(q)' = Holders(q)
      <4>1. producer'[p].q = producer[p].q /\ producer'[p].step # "idle" /\ producer[p].step # "idle"
          BY <1>2, <1>4, <2>3 DEF Push
      <4>2. \A r \in Producers \ {p} : producer'[r] = producer[r]
          BY <1>2, <2>3
      <4> QED
          BY <4>1, <4>2 DEF Holders
    <3> QED
        BY <1>1, <2>1, <2>3, <3>1, FillMeans, FillFollows
  <2> QED
      BY <1>4, <2>2, <2>3 DEF Push
<1>5. CASE Undo(p)
  <2> DEFINE q0 == producer[p].q
  <2>1. /\ q0 \in InputNames /\ p \in Holders(q0) /\ UNCHANGED <<samples, queue>>
        /\ mCurrentValue' = [mCurrentValue EXCEPT ![q0] = (@ + Width - 1) % Width]
      BY <1>2, <1>5 DEF Undo, Holders
  <2>2. \A q \in InputNames : Holders(q)' = IF q = q0 THEN Holders(q) \ {p} ELSE Holders(q)
      BY <1>2, <1>5, <2>1 DEF Undo, Holders
  <2>3. /\ IsFiniteSet(Holders(q0) \ {p}) /\ Cardinality(Holders(q0)) \in Nat
        /\ Cardinality(Holders(q0) \ {p}) = Cardinality(Holders(q0)) - 1
        /\ Cardinality(Holders(q0) \ {p}) \in Nat
      BY <2>1, FillMeans, FS_RemoveElement, FS_CardinalityType
  <2> HIDE DEF q0
  <2>4. mCurrentValue'[q0] = mCurrentValue[q0] - 1
    <3>1. mCurrentValue[q0] > 0 /\ mCurrentValue[q0] <= samples
        BY <1>0, <2>1, <2>3
    <3>2. mCurrentValue[q0] \in 0 .. Width - 1 /\ Width \in Nat
        BY <2>1, <3>1, FillMeans, PipelineAssumption
    <3>3. (mCurrentValue[q0] + Width - 1) % Width = mCurrentValue[q0] - 1
        BY <3>1, <3>2, Unsigned
    <3> QED
        BY <1>2, <2>1, <3>3
  <2> QED
    <3> SUFFICES ASSUME NEW q \in InputNames
                 PROVE  /\ IsFiniteSet(Holders(q)') /\ Cardinality(Holders(q)') \in Nat /\ Len(queue'[q]) \in Nat
                        /\ mCurrentValue'[q] = Len(queue'[q]) + Cardinality(Holders(q)') + Popping(q)'
                        /\ mCurrentValue'[q] <= samples'
        BY FillFollows
    <3>1. CASE q = q0
      <4>1. Holders(q)' = Holders(q0) \ {p}
          BY <2>2, <3>1
      <4> QED
          BY <1>0, <1>1, <2>1, <2>3, <2>4, <3>1, <4>1
    <3>2. CASE q # q0
        BY <1>1, <1>2, <2>1, <2>2, <3>2, FillMeans
    <3> QED
        BY <3>1, <3>2
<1> QED
    BY <1>3, <1>4, <1>5 DEF Producer

\* A popped sample is taken from the queue first and from its counter then.
LEMMA PopFill ==
    ASSUME TypeOK, TypeOK', FillExact, Pop \/ Popped
    PROVE  FillExact'
<1>0. \A q \in InputNames :
          /\ IsFiniteSet(Holders(q)) /\ Cardinality(Holders(q)) \in Nat /\ Len(queue[q]) \in Nat
          /\ Popping(q) \in {0, 1} /\ mCurrentValue[q] <= samples /\ samples \in Nat
          /\ mCurrentValue[q] = Len(queue[q]) + Cardinality(Holders(q)) + Popping(q)
    BY FillMeans, PipelineAssumption
<1>1. /\ queue \in [InputNames -> Seq(Times)] /\ mCurrentValue \in [InputNames -> Nat]
      /\ \A q \in InputNames : Len(queue'[q]) \in Nat
      /\ WorkerOK /\ WorkerOK'
    BY DEF TypeOK, QueuesOK
<1>2. UNCHANGED <<samples, producer>> /\ \A q \in InputNames : Holders(q)' = Holders(q)
    BY DEF Pop, Popped, Holders
<1>3. CASE Pop
  <2>1. UNCHANGED mCurrentValue /\ worker.step = "pop" /\ \A q \in InputNames : Popping(q) = 0
      BY <1>1, <1>3, PopDoes DEF Popping, At
  <2>2. CASE /\ UNCHANGED queue
             /\ \/ worker' = [worker EXCEPT !.step = "evaluate", !.next = 1]
                \/ worker' = [worker EXCEPT !.next = @ + 1]
    <3>1. worker'.step \in {"evaluate", "pop"}
        BY <1>1, <2>1, <2>2 DEF WorkerOK, Workers
    <3>2. \A q \in InputNames : Popping(q)' = 0
        BY <3>1 DEF Popping, At
    <3> QED
        BY <1>0, <1>2, <2>1, <2>2, <3>2, FillFollows
  <2>3. ASSUME NEW q0 \in InputNames, q0 = Inputs[worker.next], queue[q0] # <<>>,
               queue' = [queue EXCEPT ![q0] = Tail(@)],
               worker' = [worker EXCEPT !.step = "popped", !.readyToSleep = FALSE,
                                !.latest = Max({@, Head(queue[q0])}), !.count = @ + 1]
        PROVE  FillExact'
    <3>1. worker'.step = "popped" /\ worker'.next = worker.next
        BY <1>1, <2>3 DEF WorkerOK, Workers
    <3>2. \A q \in InputNames : Popping(q)' = IF q = q0 THEN 1 ELSE 0
        BY <2>3, <3>1 DEF Popping, At
    <3>3. \A q \in InputNames : Len(queue'[q]) = IF q = q0 THEN Len(queue[q]) - 1 ELSE Len(queue[q])
        BY <1>1, <2>3
    <3>4. \A q \in InputNames :
             /\ Cardinality(Holders(q)') \in Nat /\ IsFiniteSet(Holders(q)')
             /\ mCurrentValue'[q] = Len(queue'[q]) + Cardinality(Holders(q)') + Popping(q)'
             /\ mCurrentValue'[q] <= samples'
      <4> TAKE q \in InputNames
      <4>1. CASE q = q0
          BY <1>0, <1>2, <2>1, <3>2, <3>3, <4>1
      <4>2. CASE q # q0
          BY <1>0, <1>2, <2>1, <3>2, <3>3, <4>2
      <4> QED
          BY <4>1, <4>2
    <3> QED
        BY <1>1, <3>4, FillFollows
  <2> QED
      BY <1>1, <1>3, <2>2, <2>3, PopDoes
<1>4. CASE Popped
  <2> DEFINE q0 == Inputs[worker.next]
  <2>1. /\ q0 \in InputNames /\ worker.step = "popped" /\ UNCHANGED queue
        /\ mCurrentValue' = [mCurrentValue EXCEPT ![q0] = (@ + Width - 1) % Width]
        /\ worker' = [worker EXCEPT !.step = "pop", !.next = @ + 1]
      BY <1>1, <1>4 DEF Popped, At, WorkerOK, InputNames
  <2>2. \A q \in InputNames : Popping(q) = IF q = q0 THEN 1 ELSE 0
      BY <2>1 DEF Popping, At
  <2> HIDE DEF q0
  <2>3. \A q \in InputNames : Popping(q)' = 0
    <3>1. worker'.step = "pop"
        BY <1>1, <2>1 DEF WorkerOK, Workers
    <3> QED
        BY <3>1 DEF Popping, At
  <2>4. mCurrentValue'[q0] = mCurrentValue[q0] - 1
    <3>1. mCurrentValue[q0] > 0 /\ mCurrentValue[q0] <= samples
        BY <1>0, <2>1, <2>2
    <3>2. mCurrentValue[q0] \in 0 .. Width - 1 /\ Width \in Nat
        BY <2>1, <3>1, FillMeans, PipelineAssumption
    <3>3. (mCurrentValue[q0] + Width - 1) % Width = mCurrentValue[q0] - 1
        BY <3>1, <3>2, Unsigned
    <3> QED
        BY <1>1, <2>1, <3>3
  <2>5. \A q \in InputNames : mCurrentValue'[q] = IF q = q0 THEN mCurrentValue[q] - 1 ELSE mCurrentValue[q]
      BY <1>1, <2>1, <2>4
  <2> QED
      BY <1>0, <1>2, <2>1, <2>2, <2>3, <2>5, FillFollows
<1> QED
    BY <1>3, <1>4

\* What the assignments of the worker's steps do to the fields the invariant speaks of.
Leaves(w) == w.lastInput = worker.lastInput /\ w.readyToSleep = worker.readyToSleep

\* Lemma.  Going to another step changes that step, and the latest time where it says so.
LEMMA GoMeans ==
    ASSUME WorkerOK, NEW s
    PROVE  /\ Go(s).step = s /\ Leaves(Go(s)) /\ Go(s).latest = worker.latest
           /\ LET w == [worker EXCEPT !.step = s, !.latest = 0] IN w.step = s /\ Leaves(w)
           /\ EvaluateAndGo(s) =>
                 /\ worker'.step = s /\ worker'.readyToSleep = worker.readyToSleep
                 /\ worker'.lastInput = worker.latest
<1>1. Go(s).step = s /\ Leaves(Go(s)) /\ Go(s).latest = worker.latest
    BY DEF WorkerOK, Workers, Go, Leaves
<1>2. LET w == [worker EXCEPT !.step = s, !.latest = 0] IN w.step = s /\ Leaves(w)
    BY DEF WorkerOK, Workers, Leaves
<1>3. EvaluateAndGo(s) =>
          worker' = [worker EXCEPT !.step = s, !.lastInput = worker.latest,
                                   !.latest = IF s = "collect" THEN 0 ELSE worker.latest,
                                   !.lastEvaluated = clock, !.count = 0]
    BY DEF EvaluateAndGo
<1>4. EvaluateAndGo(s) =>
          /\ worker'.step = s /\ worker'.readyToSleep = worker.readyToSleep
          /\ worker'.lastInput = worker.latest
  <2> DEFINE l == IF s = "collect" THEN 0 ELSE worker.latest
  <2> HIDE DEF l
  <2>1. EvaluateAndGo(s) =>
            worker' = [worker EXCEPT !.step = s, !.lastInput = worker.latest, !.latest = l,
                                     !.lastEvaluated = clock, !.count = 0]
      BY <1>3 DEF l
  <2> QED
      BY <2>1 DEF WorkerOK, Workers
<1> QED
    BY <1>1, <1>2, <1>4

\* From where to where the other steps of the worker go.
LEMMA Moves ==
    ASSUME WorkerOK
    PROVE  /\ TakeMatrix => worker.step = "top" /\ worker'.step = "check" /\ Leaves(worker')
           /\ Check => /\ worker.step = "check" /\ worker'.lastInput = worker.lastInput
                       /\ \/ fUpdatedInspectionMatrix # 0 /\ UNCHANGED fWait /\ worker'.step = "pop"
                             /\ worker'.readyToSleep /\ worker'.latest = 0
                          \/ fUpdatedInspectionMatrix = 0 /\ worker'.step = "wait"
           /\ Collect => /\ worker.step = "collect" /\ worker'.step \in {"deliver", "rest"}
                         /\ Leaves(worker')
           /\ Deliver => /\ worker.step = "deliver" /\ Leaves(worker')
                         /\ \/ UNCHANGED output /\ worker'.step \in {"rest", "collect"}
                            \/ worker'.step = "notify"
           /\ NotifySender => worker.step = "notify" /\ worker'.step = "collect" /\ Leaves(worker')
           /\ Rest => /\ worker.step = "rest" /\ worker'.lastInput = worker.lastInput
                      /\ \/ worker.readyToSleep /\ worker'.step = "wait"
                         \/ worker'.step = "until" /\ UNCHANGED fWait
           /\ Woken => worker.step = "wait" /\ worker'.step = "until" /\ Leaves(worker')
           /\ LoopOrEnd => worker.step = "until" /\ worker'.step \in {"top", "ended"} /\ Leaves(worker')
<1>1. ASSUME NEW s PROVE Go(s).step = s /\ Leaves(Go(s))
    BY GoMeans
<1>2. ASSUME NEW s, NEW h
      PROVE  [worker EXCEPT !.step = s, !.held = h].step = s /\ Leaves([worker EXCEPT !.step = s, !.held = h])
    BY DEF WorkerOK, Workers, Leaves
<1>3. TakeMatrix => worker.step = "top" /\ worker'.step = "check" /\ Leaves(worker')
    BY <1>1 DEF TakeMatrix, At
<1>4. ASSUME Check
      PROVE  /\ worker.step = "check" /\ worker'.lastInput = worker.lastInput
             /\ \/ fUpdatedInspectionMatrix # 0 /\ UNCHANGED fWait /\ worker'.step = "pop"
                   /\ worker'.readyToSleep /\ worker'.latest = 0
                \/ fUpdatedInspectionMatrix = 0 /\ worker'.step = "wait"
  <2>1. CASE /\ fUpdatedInspectionMatrix # 0 /\ UNCHANGED fWait
             /\ worker' = [worker EXCEPT !.step = "pop", !.next = 1, !.readyToSleep = TRUE, !.latest = 0]
    <3>1. /\ worker'.step = "pop" /\ worker'.readyToSleep /\ worker'.latest = 0
          /\ worker'.lastInput = worker.lastInput
        BY <2>1 DEF WorkerOK, Workers
    <3> QED
        BY <1>4, <2>1, <3>1 DEF Check, At
  <2>2. CASE fUpdatedInspectionMatrix = 0 /\ worker' = Go("wait")
      BY <1>1, <1>4, <2>2 DEF Check, At, Leaves
  <2> QED
      BY <1>4, <2>1, <2>2 DEF Check
<1>5. ASSUME Collect
      PROVE  worker.step = "collect" /\ worker'.step \in {"deliver", "rest"} /\ Leaves(worker')
  <2>1. \E s \in {"deliver", "rest"} : \E h : worker' = [worker EXCEPT !.step = s, !.held = h]
      BY <1>5 DEF Collect
  <2> QED
      BY <1>2, <1>5, <2>1 DEF Collect, At
<1>6. ASSUME Deliver
      PROVE  /\ worker.step = "deliver" /\ Leaves(worker')
             /\ \/ UNCHANGED output /\ worker'.step \in {"rest", "collect"}
                \/ worker'.step = "notify"
  <2>1. \/ UNCHANGED output /\ worker' = [worker EXCEPT !.step = "rest", !.held = 0]
        \/ UNCHANGED output /\ worker' = [worker EXCEPT !.step = "collect", !.held = 0]
        \/ worker' = [worker EXCEPT !.step = "notify", !.held = 0]
      BY <1>6 DEF Deliver
  <2>2. worker.step = "deliver"
      BY <1>6 DEF Deliver, At
  <2>3. CASE UNCHANGED output /\ worker' = [worker EXCEPT !.step = "rest", !.held = 0]
      BY <1>2, <2>2, <2>3
  <2>4. CASE UNCHANGED output /\ worker' = [worker EXCEPT !.step = "collect", !.held = 0]
      BY <1>2, <2>2, <2>4
  <2>5. CASE worker' = [worker EXCEPT !.step = "notify", !.held = 0]
      BY <1>2, <2>2, <2>5
  <2> QED
      BY <2>1, <2>3, <2>4, <2>5
<1>7. NotifySender => worker.step = "notify" /\ worker'.step = "collect" /\ Leaves(worker')
    BY <1>1 DEF NotifySender, At
<1>8. ASSUME Rest
      PROVE  /\ worker.step = "rest" /\ worker'.lastInput = worker.lastInput
             /\ \/ worker.readyToSleep /\ worker'.step = "wait"
                \/ worker'.step = "until" /\ UNCHANGED fWait
  <2>1. CASE worker' = [worker EXCEPT !.step = "until", !.readyToSleep = TRUE] /\ UNCHANGED fWait
    <3>1. worker'.step = "until" /\ worker'.lastInput = worker.lastInput
        BY <2>1 DEF WorkerOK, Workers
    <3> QED
        BY <1>8, <2>1, <3>1 DEF Rest, At
  <2>2. CASE worker.readyToSleep /\ worker' = Go("wait")
      BY <1>1, <1>8, <2>2 DEF Rest, At, Leaves
  <2> QED
      BY <1>8, <2>1, <2>2 DEF Rest
<1>9. Woken => worker.step = "wait" /\ worker'.step = "until" /\ Leaves(worker')
    BY <1>1 DEF Woken, At
<1>10. LoopOrEnd => worker.step = "until" /\ worker'.step \in {"top", "ended"} /\ Leaves(worker')
    BY <1>1 DEF LoopOrEnd, At
<1> QED
    BY <1>3, <1>4, <1>5, <1>6, <1>7, <1>8, <1>9, <1>10

\* The other steps of the worker neither come to "popped" nor leave it.
LEMMA Elsewhere ==
    ASSUME WorkerOK, [Next]_vars, ~(Pop \/ Popped), ~\E p \in Producers : Producer(p)
    PROVE  /\ UNCHANGED samplesVars
           /\ \/ UNCHANGED worker
              \/ worker.step # "popped" /\ worker'.step # "popped"
<1>1. CASE WorkerStep
  <2>1. UNCHANGED samplesVars
      BY <1>1 DEF WorkerStep, TakeMatrix, Check, EvaluateInput, EvaluateIdle, Collect, Deliver, NotifySender,
         Rest, Woken, LoopOrEnd
  <2>2. CASE EvaluateInput \/ EvaluateIdle
    <3>1. worker.step # "popped"
        BY <2>2 DEF EvaluateInput, EvaluateIdle, At
    <3>2. ASSUME NEW step \in {"idle", "collect"}, EvaluateAndGo(step)
          PROVE  worker'.step = step
        BY <3>2, GoMeans
    <3>3. \/ \E step \in {"idle", "collect"} : EvaluateAndGo(step)
          \/ worker' = Go("idle")
          \/ worker' = [worker EXCEPT !.step = "collect", !.latest = 0]
        BY <2>2 DEF EvaluateInput, EvaluateIdle
    <3>4. Go("idle").step = "idle" /\ [worker EXCEPT !.step = "collect", !.latest = 0].step = "collect"
        BY GoMeans
    <3>5. worker'.step \in {"idle", "collect"}
        BY <3>2, <3>3, <3>4
    <3> QED
        BY <2>1, <3>1, <3>5
  <2> QED
      BY <1>1, <2>1, <2>2, Moves DEF WorkerStep
<1>2. CASE ~WorkerStep
    BY <1>2 DEF Next, vars, onChangeInspectionMatrix, LoopStep, LoopOver, LoopWait, LoopWoken, SendNext,
       AllConsumed, otherThanLoop, MainStep, StopEngine, JoinEngine, StopWorker, NotifyWorker, JoinWorker,
       MainGoes, Tick
<1> QED
    BY <1>1, <1>2

\* Every step keeps the counters exact.
LEMMA FillKeeps ==
    ASSUME TypeOK, TypeOK', FillExact, [Next]_vars
    PROVE  FillExact'
<1>1. CASE \E p \in Producers : Producer(p)
    BY <1>1, ProducersFill
<1>2. CASE Pop \/ Popped
    BY <1>2, PopFill
<1>3. CASE ~(Pop \/ Popped) /\ ~\E p \in Producers : Producer(p)
  <2>1. /\ UNCHANGED samplesVars
        /\ UNCHANGED worker \/ (worker.step # "popped" /\ worker'.step # "popped")
      BY <1>3, Elsewhere DEF TypeOK
  <2>2. \A q \in InputNames : Holders(q)' = Holders(q) /\ Popping(q)' = Popping(q)
      BY <2>1 DEF Holders, Popping, At, samplesVars
  <2> QED
      BY <2>1, <2>2, FillMeans, FillFollows DEF samplesVars
<1> QED
    BY <1>1, <1>2, <1>3

-----------------------------------------------------------------------------
(* Rounds *)

\* What an evaluation leaves, and what a step without one leaves.
LEMMA Evaluated ==
    ASSUME TypeOK, NEW step, EvaluateAndGo(step)
    PROVE  /\ worker'.step = step /\ worker'.readyToSleep = worker.readyToSleep
           /\ engine'.added = 0 /\ engine'.matrix = engine.matrix
<1>1. worker'.step = step /\ worker'.readyToSleep = worker.readyToSleep
    BY GoMeans DEF TypeOK
<1>2. engine \in Engines
    BY DEF TypeOK, EngineOK
<1>3. \A d : [engine EXCEPT !.added = 0, !.due = d].added = 0
             /\ [engine EXCEPT !.added = 0, !.due = d].matrix = engine.matrix
    BY <1>2 DEF Engines
<1>4. [engine EXCEPT !.added = 0].added = 0 /\ [engine EXCEPT !.added = 0].matrix = engine.matrix
    BY <1>2 DEF Engines
<1> QED
    BY <1>1, <1>3, <1>4 DEF EvaluateAndGo

\* A matrix is handed over before there is anything to evaluate.
LEMMA MatrixKeeps ==
    ASSUME TypeOK, MatrixFirst, [Next]_vars
    PROVE  MatrixFirst'
<1>0. /\ engine \in Engines /\ fUpdatedInspectionMatrix \in Nat /\ fUpdatedInspectionMatrixAvailable \in BOOLEAN
      /\ WorkerOK
    BY DEF TypeOK, EngineOK
<1>1. CASE onChangeInspectionMatrix
    BY <1>0, <1>1 DEF onChangeInspectionMatrix, MatrixFirst
<1>2. CASE TakeMatrix
  <2>1. CASE fUpdatedInspectionMatrixAvailable
    <3>1. engine'.matrix = fUpdatedInspectionMatrix /\ engine'.added = 0
        BY <1>2, <2>1 DEF TakeMatrix
    <3> QED
        BY <1>2, <2>1, <3>1 DEF TakeMatrix, MatrixFirst
  <2>2. CASE ~fUpdatedInspectionMatrixAvailable
      BY <1>2, <2>2 DEF TakeMatrix, MatrixFirst
  <2> QED
      BY <2>1, <2>2
<1>3. CASE Pop
  <2>1. UNCHANGED matrixVars
      BY <1>3 DEF Pop
  <2>2. CASE UNCHANGED engine
      BY <2>1, <2>2 DEF MatrixFirst, matrixVars
  <2>3. CASE engine' = [engine EXCEPT !.added = IF engine.matrix = 0 THEN 0 ELSE @ + 1]
    <3>1. engine'.matrix = engine.matrix /\ (engine.matrix = 0 => engine'.added = 0)
        BY <1>0, <2>3 DEF Engines
    <3> QED
        BY <2>1, <3>1 DEF MatrixFirst, matrixVars
  <2> QED
      BY <1>0, <1>3, <2>2, <2>3, PopDoes
<1>4. CASE EvaluateInput \/ EvaluateIdle
  <2>1. UNCHANGED matrixVars
      BY <1>4 DEF EvaluateInput, EvaluateIdle
  <2>2. ASSUME NEW step, EvaluateAndGo(step)
        PROVE  MatrixFirst'
      BY <2>1, <2>2, Evaluated DEF MatrixFirst, matrixVars
  <2>3. CASE UNCHANGED engine
      BY <2>1, <2>3 DEF MatrixFirst, matrixVars
  <2> QED
      BY <1>4, <2>2, <2>3 DEF EvaluateInput, EvaluateIdle
<1>5. CASE Collect
  <2>1. engine'.matrix = engine.matrix /\ engine'.added = engine.added
      BY <1>0, <1>5 DEF Collect, Engines
  <2> QED
      BY <1>5, <2>1 DEF Collect, MatrixFirst, matrixVars
<1>6. CASE UNCHANGED <<engine, matrixVars>>
    BY <1>6 DEF MatrixFirst, matrixVars
<1>7. \/ onChangeInspectionMatrix \/ TakeMatrix \/ Pop \/ EvaluateInput \/ EvaluateIdle \/ Collect
      \/ UNCHANGED <<engine, matrixVars>>
    BY DEF Next, vars, Producer, otherThanSamples, WorkerStep, Check, Popped, Deliver, NotifySender, Rest,
       Woken, LoopOrEnd, LoopStep, LoopOver, LoopWait, LoopWoken, SendNext, AllConsumed, otherThanLoop,
       MainStep, StopEngine, JoinEngine, StopWorker, NotifyWorker, JoinWorker, MainGoes, Tick
<1> QED
    BY <1>1, <1>2, <1>3, <1>4, <1>5, <1>6, <1>7

\* A sample that is popped brings a time that is not 0.
LEMMA PopRounds ==
    ASSUME TypeOK, Rounds, Pop \/ Popped
    PROVE  Rounds'
<1>0. WorkerOK /\ engine \in Engines /\ QueuesOK
    BY DEF TypeOK, EngineOK
<1>1. UNCHANGED fWait
    BY DEF Pop, Popped
<1>2. CASE Pop
  <2>0. worker.step = "pop" /\ ~Waits(fWait)
      BY <1>2 DEF Pop, At, Rounds
  <2>1. CASE worker' = [worker EXCEPT !.step = "evaluate", !.next = 1] /\ UNCHANGED engine
    <3>1. /\ worker'.step = "evaluate" /\ worker'.readyToSleep = worker.readyToSleep
          /\ worker'.latest = worker.latest /\ worker'.lastInput = worker.lastInput
        BY <1>0, <2>1 DEF WorkerOK, Workers
    <3> QED
        BY <1>1, <2>0, <2>1, <3>1 DEF Rounds, Waits
  <2>2. CASE worker' = [worker EXCEPT !.next = @ + 1] /\ UNCHANGED engine
    <3>1. /\ worker'.step = worker.step /\ worker'.readyToSleep = worker.readyToSleep
          /\ worker'.latest = worker.latest /\ worker'.lastInput = worker.lastInput
        BY <1>0, <2>2 DEF WorkerOK, Workers
    <3> QED
        BY <1>1, <2>0, <2>2, <3>1 DEF Rounds, Waits
  <2>3. ASSUME NEW q \in InputNames, queue[q] # <<>>,
               worker' = [worker EXCEPT !.step = "popped", !.readyToSleep = FALSE,
                                !.latest = Max({@, Head(queue[q])}), !.count = @ + 1]
        PROVE  Rounds'
    <3>1. /\ worker'.step = "popped" /\ ~worker'.readyToSleep
          /\ worker'.latest = Max({worker.latest, Head(queue[q])})
        BY <1>0, <2>3 DEF WorkerOK, Workers
    <3>2. worker.latest \in Nat /\ Head(queue[q]) \in Nat /\ Head(queue[q]) > 0
      <4>1. queue[q] \in Seq(Times)
          BY <1>0 DEF QueuesOK
      <4>2. Head(queue[q]) \in Times
          BY <2>3, <4>1
      <4>3. worker.latest \in 0 .. MaxTime
          BY <1>0 DEF WorkerOK, Workers
      <4> QED
          BY <4>2, <4>3, PipelineAssumption DEF Times
    <3>3. worker'.latest > 0
        BY <3>1, <3>2, MaxOfTwo
    <3> QED
        BY <1>1, <2>0, <3>1, <3>3 DEF Rounds, Waits
  <2> QED
      BY <1>0, <1>2, <2>1, <2>2, <2>3, PopDoes
<1>3. CASE Popped
  <2>1. /\ worker.step = "popped" /\ UNCHANGED engine
        /\ worker' = [worker EXCEPT !.step = "pop", !.next = @ + 1]
      BY <1>3 DEF Popped, At
  <2>2. /\ worker'.step = "pop" /\ worker'.readyToSleep = worker.readyToSleep
        /\ worker'.latest = worker.latest /\ worker'.lastInput = worker.lastInput
      BY <1>0, <2>1 DEF WorkerOK, Workers
  <2> QED
      BY <1>1, <2>1, <2>2 DEF Rounds, Waits
<1> QED
    BY <1>2, <1>3

\* After EvaluateInput there are samples left only in a round that had some; their time is the
\* last that was evaluated.
LEMMA EvaluateRounds ==
    ASSUME TypeOK, Rounds, EvaluateInput \/ EvaluateIdle
    PROVE  Rounds'
<1>0. /\ WorkerOK /\ UNCHANGED fWait /\ ~Waits(fWait) /\ engine.added \in Nat
      /\ worker.latest \in 0 .. MaxTime /\ worker.lastInput \in 0 .. MaxTime
    BY DEF EvaluateInput, EvaluateIdle, At, Rounds, TypeOK, WorkerOK, Workers, EngineOK, Engines
<1>1. CASE EvaluateInput
  <2>1. worker.step = "evaluate"
      BY <1>1 DEF EvaluateInput, At
  <2>2. CASE EvaluateAndGo("idle")
      BY <1>0, <2>2, Evaluated DEF Rounds, Waits
  <2>3. CASE ~InputIsNewer /\ worker' = Go("idle") /\ UNCHANGED engine
    <3>1. worker.latest = worker.lastInput
        BY <1>0, <2>3, Newer DEF InputIsNewer
    <3>2. worker'.step = "idle" /\ worker'.readyToSleep = worker.readyToSleep /\ worker'.lastInput = worker.lastInput
        BY <1>0, <2>3, GoMeans DEF Leaves
    <3> QED
        BY <1>0, <2>1, <2>3, <3>1, <3>2, PipelineAssumption DEF Rounds, Waits
  <2> QED
      BY <1>1, <2>2, <2>3 DEF EvaluateInput
<1>2. CASE EvaluateIdle
  <2>1. worker.step = "idle"
      BY <1>2 DEF EvaluateIdle, At
  <2>2. CASE EvaluateAndGo("collect")
      BY <1>0, <2>2, Evaluated DEF Rounds, Waits
  <2>3. CASE worker' = [worker EXCEPT !.step = "collect", !.latest = 0] /\ UNCHANGED engine
    <3>1. worker'.step = "collect" /\ worker'.readyToSleep = worker.readyToSleep /\ worker'.lastInput = worker.lastInput
        BY <1>0, <2>3, GoMeans DEF Leaves
    <3> QED
        BY <1>0, <2>1, <2>3, <3>1 DEF Rounds, Waits
  <2> QED
      BY <1>2, <2>2, <2>3 DEF EvaluateIdle
<1> QED
    BY <1>1, <1>2

\* The other steps of the worker and of the other threads.
LEMMA RoundsKeep ==
    ASSUME TypeOK, MatrixFirst, Rounds, [Next]_vars
    PROVE  Rounds'
<1>0. WorkerOK /\ EngineOK /\ fWait \in Signals /\ engine \in Engines /\ engine.added \in Nat
    BY DEF TypeOK, EngineOK, ThreadsOK, Engines
<1>1. CASE Pop \/ Popped
    BY <1>1, PopRounds
<1>2. CASE EvaluateInput \/ EvaluateIdle
    BY <1>2, EvaluateRounds
<1>3. CASE TakeMatrix
  <2>1. worker.step = "top" /\ worker'.step = "check" /\ Leaves(worker') /\ UNCHANGED fWait
      BY <1>0, <1>3, Moves DEF TakeMatrix
  <2>2. engine' = engine \/ engine'.added = 0
      BY <1>3 DEF TakeMatrix
  <2> QED
      BY <2>1, <2>2 DEF Rounds, Leaves, Waits
<1>4. CASE Check
  <2>1. UNCHANGED engine /\ worker.step = "check" /\ ~Waits(fWait)
      BY <1>4 DEF Check, At, Rounds
  <2>2. fUpdatedInspectionMatrix = 0 => engine.added = 0
      BY DEF MatrixFirst
  <2> QED
      BY <1>0, <1>4, <2>1, <2>2, Moves DEF Rounds, Waits
<1>5. CASE Collect \/ Deliver \/ NotifySender
  <2>1. /\ UNCHANGED fWait /\ Leaves(worker')
        /\ worker.step \in {"collect", "deliver", "notify"}
        /\ worker'.step \in {"collect", "deliver", "notify", "rest"}
      BY <1>0, <1>5, Moves DEF Collect, Deliver, NotifySender
  <2>2. CASE UNCHANGED engine
      BY <2>1, <2>2 DEF Rounds, Leaves, Waits
  <2>3. CASE \E d : engine' = [engine EXCEPT !.due = d]
    <3>1. engine'.added = engine.added
        BY <1>0, <2>3 DEF Engines
    <3> QED
        BY <2>1, <3>1 DEF Rounds, Leaves, Waits
  <2> QED
      BY <1>5, <2>2, <2>3 DEF Collect, Deliver, NotifySender
<1>6. CASE Rest
  <2>1. UNCHANGED engine /\ worker.step = "rest" /\ ~Waits(fWait)
      BY <1>6 DEF Rest, At, Rounds
  <2> QED
      BY <1>0, <1>6, <2>1, Moves DEF Rounds, Waits
<1>7. CASE Woken
  <2>1. worker.step = "wait" /\ worker'.step = "until" /\ Leaves(worker')
      BY <1>0, <1>7, Moves
  <2>2. UNCHANGED engine /\ ~Waits(fWait')
      BY <1>0, <1>7, SignalTypes DEF Woken, Waits
  <2> QED
      BY <2>1, <2>2 DEF Rounds, Leaves, Waits
<1>8. CASE LoopOrEnd
  <2>1. UNCHANGED <<engine, fWait>>
      BY <1>8 DEF LoopOrEnd
  <2> QED
      BY <1>0, <1>8, <2>1, Moves DEF Rounds, Leaves, Waits
<1>9. CASE UNCHANGED <<worker, engine>> /\ Waits(fWait') = Waits(fWait)
    BY <1>9 DEF Rounds, Waits
<1>10. \/ WorkerStep
       \/ Waits(fWait') = Waits(fWait) /\ UNCHANGED <<worker, engine>>
  <2>1. Waits(Notified(fWait)) = Waits(fWait)
      BY <1>0, SignalTypes DEF Waits
  <2>2. onChangeInspectionMatrix => fWait' = Notified(fWait) /\ UNCHANGED <<worker, engine>>
      BY DEF onChangeInspectionMatrix
  <2>3. MainStep => fWait' \in {fWait, Notified(fWait)} /\ UNCHANGED <<worker, engine>>
      BY DEF MainStep, StopEngine, JoinEngine, StopWorker, NotifyWorker, JoinWorker, MainGoes
  <2>4. \/ (\E p \in Producers : Producer(p)) \/ LoopStep \/ Tick \/ UNCHANGED vars
        => UNCHANGED <<worker, engine, fWait>>
      BY DEF vars, Producer, otherThanSamples, LoopStep, LoopOver, LoopWait, LoopWoken, SendNext, AllConsumed,
         otherThanLoop, Tick
  <2> QED
      BY <2>1, <2>2, <2>3, <2>4 DEF Next
<1> QED
    BY <1>1, <1>2, <1>3, <1>4, <1>5, <1>6, <1>7, <1>8, <1>9, <1>10 DEF WorkerStep

-----------------------------------------------------------------------------
(* What is pending *)

\* A notification is kept by whatever the other threads do; the waiting thread takes it when it
\* goes to look.
LEMMA PendingKeeps ==
    ASSUME TypeOK, MatrixFirst, Pending, [Next]_vars
    PROVE  Pending'
<1>0. WorkerOK /\ fWait \in Signals /\ mWait \in Signals
    BY DEF TypeOK, ThreadsOK
<1>1. CASE onChangeInspectionMatrix
  <2>1. fWait'.set /\ UNCHANGED <<worker, output, loop, mWait, main>>
      BY <1>0, <1>1, SignalTypes DEF onChangeInspectionMatrix, packageVars
  <2> QED
      BY <2>1 DEF Pending, Waits
<1>2. CASE WorkerStep
  <2>0. UNCHANGED <<loop, main>>
      BY <1>2 DEF WorkerStep, TakeMatrix, Check, Pop, Popped, EvaluateInput, EvaluateIdle, Collect, Deliver,
         NotifySender, Rest, Woken, LoopOrEnd
  <2>1. CASE TakeMatrix
    <3>1. ~fUpdatedInspectionMatrixAvailable' /\ UNCHANGED <<output, fWait, mWait>>
        BY <2>1 DEF TakeMatrix, packageVars, TypeOK, EngineOK
    <3>2. worker.step = "top"
        BY <2>1 DEF TakeMatrix, At
    <3> QED
        BY <2>0, <3>1, <3>2 DEF Pending, Waits
  <2>2. CASE Check
    <3>1. UNCHANGED <<output, fUpdatedInspectionMatrixAvailable, mWait>> /\ worker.step = "check"
        BY <2>2 DEF Check, At, matrixVars, packageVars
    <3>2. fWait'.set = fWait.set
        BY <1>0, <2>2, SignalTypes DEF Check
    <3> QED
        BY <2>0, <3>1, <3>2 DEF Pending, Waits
  <2>3. CASE Pop \/ Popped \/ EvaluateInput \/ EvaluateIdle \/ Collect
    <3>1. /\ UNCHANGED <<output, fUpdatedInspectionMatrixAvailable, fWait, mWait>>
          /\ worker.step \in {"pop", "popped", "evaluate", "idle", "collect"}
        BY <2>3 DEF Pop, Popped, EvaluateInput, EvaluateIdle, Collect, At, matrixVars, packageVars
    <3> QED
        BY <2>0, <3>1 DEF Pending, Waits
  <2>4. CASE Deliver
    <3>1. UNCHANGED <<fUpdatedInspectionMatrixAvailable, fWait, mWait>> /\ worker.step = "deliver"
        BY <2>4 DEF Deliver, At, matrixVars
    <3>2. UNCHANGED output \/ worker'.step = "notify"
        BY <1>0, <2>4, Moves
    <3> QED
        BY <2>0, <3>1, <3>2 DEF Pending, Waits
  <2>5. CASE NotifySender
    <3>1. UNCHANGED <<fUpdatedInspectionMatrixAvailable, fWait>> /\ worker.step = "notify"
        BY <2>5 DEF NotifySender, At, matrixVars
    <3>2. mWait'.set /\ mWait'.waiting = mWait.waiting
        BY <1>0, <2>5, SignalTypes DEF NotifySender
    <3> QED
        BY <2>0, <3>1, <3>2 DEF Pending, Waits
  <2>6. CASE Rest
    <3>1. /\ UNCHANGED <<output, fUpdatedInspectionMatrixAvailable, mWait>> /\ worker.step = "rest"
        BY <2>6 DEF Rest, At, matrixVars, packageVars
    <3>2. fWait'.set = fWait.set
        BY <1>0, <2>6, SignalTypes DEF Rest
    <3> QED
        BY <2>0, <3>1, <3>2 DEF Pending, Waits
  <2>7. CASE Woken
    <3>1. UNCHANGED <<output, mWait>> /\ worker.step = "wait" /\ worker'.step = "until"
        BY <1>0, <2>7, Moves DEF Woken, packageVars
    <3> QED
        BY <2>0, <3>1 DEF Pending, Waits
  <2>8. CASE LoopOrEnd
    <3>1. /\ UNCHANGED <<output, fUpdatedInspectionMatrixAvailable, fWait, mWait>>
          /\ worker' = Go(IF WorkerShouldStop THEN "ended" ELSE "top") /\ worker.step = "until"
        BY <2>8 DEF LoopOrEnd, At, matrixVars, packageVars
    <3>2. worker'.step = IF WorkerShouldStop THEN "ended" ELSE "top"
        BY <1>0, <3>1, GoMeans
    <3> QED
        BY <2>0, <3>1, <3>2 DEF Pending, Waits, WorkerShouldStop
  <2> QED
      BY <1>2, <2>1, <2>2, <2>3, <2>4, <2>5, <2>6, <2>7, <2>8 DEF WorkerStep
<1>3. CASE LoopStep
  <2>0. UNCHANGED <<fUpdatedInspectionMatrixAvailable, worker, fWait, main>>
      BY <1>3 DEF LoopStep, LoopOver, LoopWait, LoopWoken, SendNext, AllConsumed, otherThanLoop, matrixVars
  <2>1. CASE LoopOver \/ SendNext
      BY <2>0, <2>1 DEF LoopOver, SendNext, Pending, Waits
  <2>2. CASE LoopWait
    <3>1. mWait'.set = mWait.set /\ loop = "until" /\ loop' = "wait" /\ UNCHANGED output
        BY <1>0, <2>2, SignalTypes DEF LoopWait
    <3> QED
        BY <2>0, <3>1 DEF Pending, Waits
  <2>3. CASE LoopWoken
    <3>1. ~Waits(mWait') /\ loop' = "consume"
        BY <1>0, <2>3, SignalTypes DEF LoopWoken, Waits
    <3> QED
        BY <2>0, <3>1 DEF Pending, Waits
  <2>4. CASE AllConsumed
      BY <2>0, <2>4 DEF AllConsumed, Pending, Waits
  <2> QED
      BY <1>3, <2>1, <2>2, <2>3, <2>4 DEF LoopStep
<1>4. CASE MainStep
  <2>0. UNCHANGED <<fUpdatedInspectionMatrixAvailable, worker, output, loop>>
      BY <1>4 DEF MainStep, StopEngine, JoinEngine, StopWorker, NotifyWorker, JoinWorker, MainGoes, matrixVars,
         packageVars
  <2>1. CASE StopEngine
    <3>1. mWait'.set /\ mWait'.waiting = mWait.waiting /\ UNCHANGED fWait /\ main' = "engineJoin"
        BY <1>0, <2>1, SignalTypes DEF StopEngine, MainGoes
    <3> QED
        BY <2>0, <3>1 DEF Pending, Waits
  <2>2. CASE NotifyWorker
    <3>1. fWait'.set /\ UNCHANGED mWait
        BY <1>0, <2>2, SignalTypes DEF NotifyWorker
    <3> QED
        BY <2>0, <3>1 DEF Pending, Waits
  <2>3. CASE JoinEngine \/ StopWorker \/ JoinWorker
      BY <2>0, <2>3 DEF JoinEngine, StopWorker, JoinWorker, MainGoes, Pending, Waits
  <2> QED
      BY <1>4, <2>1, <2>2, <2>3 DEF MainStep
<1>5. CASE UNCHANGED <<fUpdatedInspectionMatrixAvailable, worker, output, loop, fWait, mWait, main>>
    BY <1>5 DEF Pending, Waits
<1> QED
    BY <1>1, <1>2, <1>3, <1>4, <1>5 DEF Next, vars, Producer, otherThanSamples, Tick, matrixVars, packageVars

-----------------------------------------------------------------------------
(* The theorems *)

\* Lemma.  The pipeline starts empty, with its threads at their first step.
LEMMA InitIInv == Init => IInv
<1> SUFFICES ASSUME Init
             PROVE  IInv
    OBVIOUS
<1> USE PipelineAssumption
<1>1. QueuesOK
    BY DEF Init, QueuesOK, Times
<1>2. WorkerOK
    BY StepNames DEF Init, WorkerOK, Workers
<1>3. EngineOK /\ ThreadsOK
  <2>1. engine \in Engines
      BY DEF Init, Engines
  <2>2. output \in Seq(Nat)
      BY DEF Init
  <2>3. EngineOK
      BY <2>1, <2>2 DEF Init, EngineOK
  <2>4. ThreadsOK
      BY DEF Init, ThreadsOK, Signals
  <2> QED
      BY <2>3, <2>4
<1>4. FillExact
  <2> SUFFICES ASSUME NEW q \in InputNames
               PROVE  /\ IsFiniteSet(Holders(q)) /\ mCurrentValue[q] = Len(queue[q]) + InHands(q)
                      /\ mCurrentValue[q] <= samples
      BY DEF FillExact
  <2>1. Holders(q) = {} /\ mCurrentValue[q] = 0 /\ queue[q] = <<>> /\ samples = 0 /\ ~At("popped")
      BY DEF Init, Holders, At
  <2>2. InHands(q) = Cardinality(Holders(q)) + 0
      BY <2>1 DEF InHands, Holders
  <2> QED
      BY <2>1, <2>2, FS_EmptySet
<1>5. MatrixFirst /\ Rounds /\ Pending
    BY DEF Init, MatrixFirst, Rounds, Pending, Waits
<1> QED
    BY <1>1, <1>2, <1>3, <1>4, <1>5 DEF IInv, TypeOK

\* Lemma.  Every step of every thread keeps the invariant.
LEMMA StepIInv == IInv /\ [Next]_vars => IInv'
<1> SUFFICES ASSUME IInv, [Next]_vars
             PROVE  IInv'
    OBVIOUS
<1>1. TypeOK'
    BY TypeKeeps DEF IInv
<1>2. FillExact' /\ MatrixFirst' /\ Rounds' /\ Pending'
    BY <1>1, FillKeeps, MatrixKeeps, RoundsKeep, PendingKeeps DEF IInv
<1> QED
    BY <1>1, <1>2 DEF IInv

\* The pipeline keeps its inductive invariant: the types, the exact fill of every queue, what a
\* round of the worker leaves behind, and what is pending for whom.
THEOREM PipelineInvariance == Spec => []IInv
    BY InitIInv, StepIInv, PTL DEF Spec

\* The fill that TraceModule reports of an input queue is that of the queue and of what is in the
\* hands of the threads, for any number of producers and queues: counting before the push and
\* after the pop never takes the unsigned counter below zero.
THEOREM FillIsTrue == Spec => []FillMetricTrue
<1>1. IInv => FillMetricTrue
  <2> SUFFICES ASSUME IInv, NEW q \in InputNames
               PROVE  mCurrentValue[q] \in Len(queue[q]) .. Len(queue[q]) + InHands(q)
      BY DEF FillMetricTrue
  <2>1. InHands(q) \in Nat
    <3>1. Cardinality(Holders(q)) \in Nat /\ Popping(q) \in {0, 1}
        BY FillMeans DEF IInv
    <3>2. InHands(q) = Cardinality(Holders(q)) + Popping(q)
        BY DEF InHands, Holders, Popping
    <3> QED
        BY <3>1, <3>2
  <2> QED
      BY <2>1, FillMeans DEF IInv, FillExact
<1> QED
    BY <1>1, PipelineInvariance, PTL

\* The inspection thread does not wait on samples that no evaluation has seen: a round that popped
\* none evaluates what is left, because its latest time, 0, differs from that of the last input.
THEOREM SleepsAfterEvaluation == Spec => []EvaluatedBeforeSleep
<1>1. IInv => EvaluatedBeforeSleep
    BY DEF IInv, Rounds, EvaluatedBeforeSleep
<1> QED
    BY <1>1, PipelineInvariance, PTL

\* Neither thread waits on a package, a new matrix or a stop that it was not told of, however
\* their checks, waits and notifications interleave.
THEOREM NoThreadOverlooks == Spec => []NothingOverlooked
<1>1. IInv => NothingOverlooked
  <2> SUFFICES ASSUME IInv
               PROVE  NothingOverlooked
      OBVIOUS
  <2>1. Waits(fWait) => worker.step = "wait"
      BY DEF IInv, Rounds
  <2> QED
      BY <2>1 DEF IInv, Pending, NothingOverlooked, WorkerShouldStop, At
<1> QED
    BY <1>1, PipelineInvariance, PTL

=============================================================================
