----------------------------- MODULE OBDOverCAN -----------------------------
(***************************************************************************)
(* OBDOverCANModule: a thread that asks the engine control unit, and the   *)
(* transmission's where there is one, for the parameters (PIDs) that the   *)
(* dictionary wants and for trouble codes, over one ISO-TP socket per unit *)
(* (ISOTPOverCANSenderReceiver), and decodes the answers (OBDDataDecoder). *)
(* The thread of the scheme manager changes the dictionary, in steps, and  *)
(* the wish for trouble codes; the main thread disconnects.                *)
(*                                                                         *)
(* A PID is a number, a dictionary the set of PIDs it decodes and those    *)
(* that it wants collected. An answer is what it answers: the values, and  *)
(* the sizes the decoder checks besides the PIDs, are left out. The        *)
(* sorted vectors of PIDs are sets, cut by rank.                           *)
(***************************************************************************)
EXTENDS Naturals, FiniteSets, Sequences

CONSTANTS
    PIDs,               \* what SIDs and PIDs the software knows, numbers
    SecondRange,        \* the PIDs above the first six ranges
    Reported,           \* per unit, what it reports to support
    Dictionaries,       \* what the manager may hand over
    ECUs,               \* {"engine"}, or with "transmission": hasTransmissionEcu
    MAX_PID_RANGE,
    PIDInterval,        \* pidRequestIntervalSeconds, 0: none
    DTCInterval,        \* dtcRequestIntervalSeconds, 0: none
    MaxChanges,         \* bound: calls of the manager
    MaxLate,            \* bound: answers that miss the timeout
    MaxLost             \* bound: requests that are not answered

ASSUME OBDAssumption ==
    /\ PIDs \subseteq Nat \ {0} /\ IsFiniteSet(PIDs) /\ SecondRange \subseteq PIDs
    /\ "engine" \in ECUs /\ ECUs \subseteq {"engine", "transmission"}
    /\ Reported \in [ECUs -> SUBSET PIDs]
    /\ \A d \in Dictionaries : d.wanted \subseteq d.pids /\ d.pids \subseteq PIDs
    /\ MAX_PID_RANGE \in Nat \ {0}
    /\ PIDInterval \in Nat /\ DTCInterval \in Nat /\ PIDInterval + DTCInterval > 0
    /\ MaxChanges \in Nat /\ MaxLate \in Nat /\ MaxLost \in Nat

VARIABLES
    mDecoderDictionaryPtr,      \* the PIDs of the dictionary; empty also stands for none
    mDecoderManifestAvailable,
    decoder,                    \* the dictionary that OBDDataDecoder works with
    mPIDsRequested,             \* mPIDsRequestedByDecoderDict
    mSupportedPIDs,             \* per unit
    mPIDsToRequest,             \* per unit
    mVIN,                       \* whether it is known
    mShouldRequestDTCs, mShouldStop,
    mWait, mDataAvailableWait,  \* whether the signals are set
    mPIDTimer, mDTCTimer, slept,
    worker,                     \* where the thread is, and what it is about
    asked,                      \* the PIDs it asked this unit for, this round
    unanswered, socket, open,   \* per unit
    late, lost,
    manager,                    \* where onChangeOfActiveDictionary is
    changes,
    main

dictionaryVars == <<mDecoderDictionaryPtr, mDecoderManifestAvailable, mPIDsRequested>>
decoderVars == <<decoder, mVIN>>
listVars == <<mSupportedPIDs, mPIDsToRequest>>
signalVars == <<mWait, mDataAvailableWait>>
flagVars == <<mShouldRequestDTCs, mShouldStop>>
timerVars == <<mPIDTimer, mDTCTimer, slept>>
busVars == <<unanswered, socket, open, late, lost>>
workerVars == <<worker, asked>>
otherVars == <<manager, changes, main>>
vars == <<dictionaryVars, decoderVars, listVars, signalVars, flagVars, timerVars, busVars,
          workerVars, otherVars>>

NoList == {0}           \* the map has no entry; 0 names a range, not a PID

Smaller(a, b) == IF a < b THEN a ELSE b
SleepTime == IF DTCInterval > 0 THEN Smaller(PIDInterval, DTCInterval) ELSE PIDInterval

At(pc) == [pc |-> pc, ecu |-> "engine", list |-> {}, rest |-> {}, chunk |-> {}, got |-> {}]

\* OBDOverCANModule::init
Initialised ==
    /\ mVIN = FALSE /\ decoder = {}
    /\ mDecoderDictionaryPtr = {} /\ mPIDsRequested = NoList
    /\ mSupportedPIDs = [e \in ECUs |-> NoList] /\ mPIDsToRequest = [e \in ECUs |-> NoList]
    /\ mWait = FALSE /\ mDataAvailableWait = FALSE
\* OBDOverCANModule::start
Started ==
    /\ mShouldStop = FALSE /\ mDecoderManifestAvailable = FALSE /\ mShouldRequestDTCs = FALSE
    /\ mPIDTimer = 0 /\ mDTCTimer = 0 /\ slept = 0
    /\ worker = At("check") /\ asked = {}
\* OBDOverCANModule::connect: what becomes of the transmission's socket does not matter to it.
Connected ==
    /\ open \in {o \in [ECUs -> BOOLEAN] : o["engine"]}
    /\ unanswered = [e \in ECUs |-> <<>>] /\ socket = [e \in ECUs |-> <<>>]
Init ==
    /\ Initialised /\ Started /\ Connected
    /\ late = 0 /\ lost = 0
    /\ manager = [pc |-> "idle", ecu |-> "engine", common |-> {}, wanted |-> {}] /\ changes = 0
    /\ main = "run"

-----------------------------------------------------------------------------
(* The control units and the bus, external *)

Answer(e) ==
    /\ unanswered[e] # <<>>
    /\ unanswered' = [unanswered EXCEPT ![e] = Tail(@)]
    /\ \/ socket' = [socket EXCEPT ![e] = Append(@, Head(unanswered[e]))] /\ lost' = lost
       \/ lost < MaxLost /\ lost' = lost + 1 /\ UNCHANGED socket
    /\ UNCHANGED <<open, late>>

-----------------------------------------------------------------------------
(* ISOTPOverCANSenderReceiver *)

\* The option of the socket can be read, and there is no error.
isAlive(e) == open[e]

\* sendPDU: fails on a socket that is not there.
Send(e, kind, pids, next, failed) ==
    IF open[e]
    THEN /\ unanswered' = [unanswered EXCEPT ![e] = Append(@, [kind |-> kind, pids |-> pids])]
         /\ worker' = next
         /\ UNCHANGED <<socket, open, late, lost>>
    ELSE worker' = failed /\ UNCHANGED busVars

\* receivePDU: poll waits for anything to read, and gives up after the P2 timeout. An answer
\* that comes later stays in the socket for the next call.
Received(e, Decode(_)) ==
    /\ open[e] /\ socket[e] # <<>>
    /\ socket' = [socket EXCEPT ![e] = Tail(@)]
    /\ Decode(Head(socket[e]))
    /\ UNCHANGED <<unanswered, open, late, lost>>
TimedOut(e) ==
    /\ ~(open[e] /\ socket[e] # <<>>)
    /\ IF open[e] /\ unanswered[e] # <<>>
       THEN late < MaxLate /\ late' = late + 1
       ELSE late' = late
    /\ UNCHANGED <<unanswered, socket, open, lost>>

-----------------------------------------------------------------------------
(* OBDDataDecoder: what it accepts *)

decodeVIN(a) == a.kind = "vin"
decodeDTCs(a) == a.kind = "dtc"
decodeSupportedPIDs(a) == IF a.kind = "supported" THEN a.pids ELSE {}
\* The PIDs asked for, one by one, each known to the dictionary.
isPIDResponseValid(a, pids) == a.pids = pids /\ pids \subseteq decoder
decodeEmissionPIDs(a, pids) == IF a.kind = "pids" /\ isPIDResponseValid(a, pids) THEN pids ELSE {}

-----------------------------------------------------------------------------
(* doWork: the dictionary *)

Go(pc) == worker' = [worker EXCEPT !.pc = pc]
Empty == mDecoderDictionaryPtr = {}

Check ==
    /\ worker.pc = "check"
    /\ Go(IF mShouldStop THEN "ended"
          ELSE IF ~mShouldRequestDTCs /\ Empty THEN "asleep" ELSE "take")
    /\ UNCHANGED <<busVars, asked>>
Woken ==
    /\ worker.pc = "asleep" /\ mDataAvailableWait
    /\ mDataAvailableWait' = FALSE
    /\ Go("take")
    /\ UNCHANGED <<decoderVars, dictionaryVars, listVars, mWait, timerVars, busVars, asked>>
\* Under mDecoderDictMutex, which onChangeOfActiveDictionary holds.
Take ==
    /\ worker.pc = "take"
    /\ IF mDecoderManifestAvailable
       THEN /\ manager.pc = "idle"
            /\ decoder' = mDecoderDictionaryPtr /\ mDecoderManifestAvailable' = FALSE
       ELSE UNCHANGED <<decoder, mDecoderManifestAvailable>>
    /\ Go("look")
    /\ UNCHANGED <<mVIN, mDecoderDictionaryPtr, mPIDsRequested, listVars, signalVars,
                   timerVars, busVars, asked>>
Due == IF PIDInterval > 0 /\ mPIDTimer >= PIDInterval THEN "support" ELSE "dtcs"
\* Mutant: without a dictionary the round is over.
LookRests ==
    /\ worker.pc = "look"
    /\ IF Empty THEN Go("resting") /\ UNCHANGED busVars
       ELSE IF mVIN THEN Go(Due) /\ UNCHANGED busVars
       ELSE Send("engine", "vin", {}, At("vin"), At(Due))
    /\ UNCHANGED asked
Look ==
    /\ worker.pc = "look"
    /\ IF Empty THEN Go("dtcs") /\ UNCHANGED busVars
       ELSE IF mVIN THEN Go(Due) /\ UNCHANGED busVars
       ELSE Send("engine", "vin", {}, At("vin"), At(Due))
    /\ UNCHANGED asked
requestReceiveVIN ==
    /\ worker.pc = "vin"
    /\ \/ Received("engine", LAMBDA a : mVIN' = decodeVIN(a))
       \/ TimedOut("engine") /\ UNCHANGED mVIN
    /\ Go(Due)
    /\ UNCHANGED <<decoder, dictionaryVars, listVars, signalVars, timerVars, asked>>

-----------------------------------------------------------------------------
(* doWork: what the units support *)

\* The engine's, then the transmission's.
OtherUnit(pc, done) == IF worker.ecu = "engine" /\ "transmission" \in ECUs
                       THEN [At(pc) EXCEPT !.ecu = "transmission"] ELSE At(done)

\* requestReceiveSupportedPIDs: the eight ranges take two requests; what either one brings
\* will do.
Support ==
    /\ worker.pc = "support"
    /\ IF mSupportedPIDs[worker.ecu] = NoList /\ (worker.ecu = "engine" => isAlive("engine"))
       THEN Send(worker.ecu, "supported", Reported[worker.ecu] \ SecondRange,
                 [worker EXCEPT !.pc = "firstRanges"], [worker EXCEPT !.pc = "moreRanges"])
       ELSE worker' = OtherUnit("support", "list") /\ UNCHANGED busVars
    /\ UNCHANGED asked
receiveSupportedPIDs(next) ==
    /\ \/ Received(worker.ecu, LAMBDA a : worker' = [worker EXCEPT !.pc = next,
                                              !.got = @ \cup decodeSupportedPIDs(a)])
       \/ TimedOut(worker.ecu) /\ Go(next)
    /\ UNCHANGED asked
FirstRanges == worker.pc = "firstRanges" /\ receiveSupportedPIDs("moreRanges")
MoreRanges ==
    /\ worker.pc = "moreRanges"
    /\ Send(worker.ecu, "supported", Reported[worker.ecu] \cap SecondRange,
            [worker EXCEPT !.pc = "lastRanges"], [worker EXCEPT !.pc = "supported"])
    /\ UNCHANGED asked
LastRanges == worker.pc = "lastRanges" /\ receiveSupportedPIDs("supported")
\* updatePIDRequestList, on either thread: it reads what is wanted, then writes the list.
CommonAll(supported) == mPIDsRequested
Common(supported) == supported \cap mPIDsRequested
Supported ==
    /\ worker.pc = "supported"
    /\ mSupportedPIDs' = [mSupportedPIDs EXCEPT ![worker.ecu] =
                             IF worker.got = {} THEN @ ELSE worker.got]
    /\ worker' = IF worker.got = {} \/ mPIDsRequested = NoList THEN OtherUnit("support", "list")
                 ELSE [worker EXCEPT !.pc = "assign", !.got = Common(worker.got)]
    /\ UNCHANGED <<decoderVars, dictionaryVars, mPIDsToRequest, signalVars, timerVars, busVars,
                   asked>>
AssignCommon ==
    /\ worker.pc = "assign"
    /\ mPIDsToRequest' = [mPIDsToRequest EXCEPT ![worker.ecu] = worker.got]
    /\ worker' = OtherUnit("support", "list")
    /\ UNCHANGED <<decoderVars, dictionaryVars, mSupportedPIDs, signalVars, timerVars, busVars,
                   asked>>

-----------------------------------------------------------------------------
(* doWork: values *)

\* getPIDsToRequest: a copy of the list.
List ==
    /\ worker.pc = "list"
    /\ LET l == mPIDsToRequest[worker.ecu] IN
       worker' = IF l \in {NoList, {}} THEN OtherUnit("list", "reschedule")
                 ELSE [worker EXCEPT !.pc = "ask", !.list = l, !.rest = l]
    /\ UNCHANGED <<busVars, asked>>

\* requestReceiveEmissionPIDs: groups of six, from the last full one to the first, then what is
\* left at the end. Then the values go into the signal buffer, which drops them when it is full.
Group(S, n) == {p \in S : Cardinality({q \in S : q < p}) \div MAX_PID_RANGE = n}
FullGroups(S) == Cardinality(S) \div MAX_PID_RANGE
ChunkUpTo(last, S, rest) ==
    LET full == {n \in 0 .. FullGroups(S) - 1 : Group(S, n) \subseteq rest} IN
    IF full = {} THEN Group(S, last) \cap rest
    ELSE Group(S, CHOOSE n \in full : \A m \in full : m <= n)
ChunkNoRest(S, rest) == ChunkUpTo(FullGroups(S) - 1, S, rest)
Chunk(S, rest) == ChunkUpTo(FullGroups(S), S, rest)

requestPIDs ==
    /\ worker.pc = "ask"
    /\ LET c == Chunk(worker.list, worker.rest)
           w == [worker EXCEPT !.rest = @ \ c, !.chunk = c] IN
       IF c = {} THEN worker' = OtherUnit("list", "reschedule") /\ asked' = {} /\ UNCHANGED busVars
       ELSE /\ Send(worker.ecu, "pids", c, [w EXCEPT !.pc = "values"], w)
            /\ asked' = asked \cup c
receivePIDs ==
    /\ worker.pc = "values"
    /\ \/ Received(worker.ecu, LAMBDA a : worker' = [worker EXCEPT !.pc = "ask",
                                    !.got = @ \cup decodeEmissionPIDs(a, worker.chunk)])
       \/ TimedOut(worker.ecu) /\ Go("ask")
    /\ UNCHANGED asked
Reschedule ==
    /\ worker.pc = "reschedule"
    /\ mPIDTimer' = 0 /\ Go("dtcs")
    /\ UNCHANGED <<decoderVars, dictionaryVars, listVars, signalVars, mDTCTimer, slept, busVars,
                   asked>>

-----------------------------------------------------------------------------
(* doWork: trouble codes, and the end of the round *)

DTCs ==
    /\ worker.pc = "dtcs"
    /\ worker' = At(IF mShouldRequestDTCs /\ DTCInterval > 0 /\ mDTCTimer >= DTCInterval
                    THEN "askDTCs" ELSE "resting")
    /\ UNCHANGED <<busVars, asked>>
\* What one unit reports will do; got is not empty once there was a report.
Reports == {"report"}
requestDTCs ==
    /\ worker.pc = "askDTCs"
    /\ Send(worker.ecu, "dtc", {}, [worker EXCEPT !.pc = "DTCs"],
            [OtherUnit("askDTCs", "pushDTCs") EXCEPT !.got = worker.got])
    /\ UNCHANGED asked
receiveDTCs ==
    /\ worker.pc = "DTCs"
    /\ LET then(got) == worker' = [OtherUnit("askDTCs", "pushDTCs") EXCEPT !.got = got] IN
       \/ Received(worker.ecu, LAMBDA a : then(worker.got \cup IF decodeDTCs(a) THEN Reports ELSE {}))
       \/ TimedOut(worker.ecu) /\ then(worker.got)
    /\ UNCHANGED asked
PushDTCs ==
    /\ worker.pc = "pushDTCs"
    /\ mDTCTimer' = 0 /\ worker' = At("resting")
    /\ UNCHANGED <<decoderVars, dictionaryVars, listVars, signalVars, mPIDTimer, slept, busVars,
                   asked>>
\* Notified or timed out.
Rested ==
    /\ worker.pc = "resting" /\ (mWait \/ slept >= SleepTime)
    /\ mWait' = FALSE /\ slept' = 0 /\ Go("check")
    /\ UNCHANGED <<decoderVars, dictionaryVars, listVars, mDataAvailableWait, mPIDTimer, mDTCTimer,
                   busVars, asked>>

WorkerStep ==
    /\ \/ /\ \/ Check \/ Look \/ Support \/ FirstRanges \/ MoreRanges \/ LastRanges
             \/ List \/ requestPIDs \/ receivePIDs \/ DTCs \/ requestDTCs \/ receiveDTCs
          /\ UNCHANGED <<decoderVars, dictionaryVars, listVars, signalVars, timerVars>>
       \/ Woken \/ Take \/ requestReceiveVIN \/ Supported \/ AssignCommon
       \/ Reschedule \/ PushDTCs \/ Rested
    /\ UNCHANGED <<flagVars, otherVars>>

-----------------------------------------------------------------------------
(* The thread of the scheme manager *)

ManagerAt(pc) == manager' = [manager EXCEPT !.pc = pc]

\* onChangeInspectionMatrix
MatrixSilent(includeActiveDtcs) ==
    /\ manager.pc = "idle" /\ changes < MaxChanges
    /\ mShouldRequestDTCs' = includeActiveDtcs
    /\ changes' = changes + 1
    /\ UNCHANGED <<dictionaryVars, listVars, mDataAvailableWait, manager>>
onChangeInspectionMatrix(includeActiveDtcs) ==
    /\ manager.pc = "idle" /\ changes < MaxChanges
    /\ mShouldRequestDTCs' = includeActiveDtcs
    /\ ManagerAt(IF includeActiveDtcs THEN "notify" ELSE "idle")
    /\ changes' = changes + 1
    /\ UNCHANGED <<dictionaryVars, listVars, mDataAvailableWait>>
Notify ==
    /\ manager.pc = "notify"
    /\ mDataAvailableWait' = TRUE
    /\ ManagerAt("idle")
    /\ UNCHANGED <<dictionaryVars, listVars, mShouldRequestDTCs, changes>>

\* onChangeOfActiveDictionary: an empty dictionary first, under the mutex; one of another kind
\* than CAN changes no more than that.
NewDictionary ==
    /\ manager.pc = "idle" /\ changes < MaxChanges
    /\ mDecoderDictionaryPtr' = {}
    /\ changes' = changes + 1
    /\ UNCHANGED <<mDecoderManifestAvailable, mPIDsRequested, listVars, mShouldRequestDTCs,
                   mDataAvailableWait>>
    /\ \/ \E d \in Dictionaries : manager' = [manager EXCEPT !.pc = "fill", !.common = d.pids,
                                                             !.wanted = d.wanted]
       \/ UNCHANGED manager
Fill ==
    /\ manager.pc = "fill"
    /\ mDecoderDictionaryPtr' = manager.common
    /\ ManagerAt("requested")
    /\ UNCHANGED <<mDecoderManifestAvailable, mPIDsRequested, listVars, mShouldRequestDTCs,
                   mDataAvailableWait, changes>>
ManagerDone == [manager EXCEPT !.common = {}, !.wanted = {}, !.ecu = "engine", !.pc = "available"]
ManagerOther == IF manager.ecu = "engine" /\ "transmission" \in ECUs
                THEN [manager EXCEPT !.ecu = "transmission", !.pc = "common"] ELSE ManagerDone
Requested ==
    /\ manager.pc = "requested"
    /\ mPIDsRequested' = manager.wanted
    /\ ManagerAt("common")
    /\ UNCHANGED <<mDecoderDictionaryPtr, mDecoderManifestAvailable, listVars, mShouldRequestDTCs,
                   mDataAvailableWait, changes>>
ManagerCommon ==
    /\ manager.pc = "common"
    /\ manager' = IF mSupportedPIDs[manager.ecu] = NoList THEN ManagerOther
                  ELSE [manager EXCEPT !.pc = "assign",
                                       !.common = Common(mSupportedPIDs[manager.ecu])]
    /\ UNCHANGED <<dictionaryVars, listVars, mShouldRequestDTCs, mDataAvailableWait, changes>>
ManagerAssign ==
    /\ manager.pc = "assign"
    /\ mPIDsToRequest' = [mPIDsToRequest EXCEPT ![manager.ecu] = manager.common]
    /\ manager' = ManagerOther
    /\ UNCHANGED <<dictionaryVars, mSupportedPIDs, mShouldRequestDTCs, mDataAvailableWait, changes>>
Available ==
    /\ manager.pc = "available"
    /\ mDecoderManifestAvailable' = (mDecoderManifestAvailable \/ ~Empty)
    /\ ManagerAt(IF Empty THEN "idle" ELSE "notify")
    /\ UNCHANGED <<mDecoderDictionaryPtr, mPIDsRequested, listVars, mShouldRequestDTCs,
                   mDataAvailableWait, changes>>

ManagerStep ==
    /\ \/ \E b \in BOOLEAN : onChangeInspectionMatrix(b)
       \/ Notify \/ NewDictionary \/ Fill \/ Requested \/ ManagerCommon \/ ManagerAssign
       \/ Available
    /\ UNCHANGED <<decoderVars, mShouldStop, mWait, timerVars, busVars, workerVars, main>>

-----------------------------------------------------------------------------
(* The main thread *)

\* ISOTPOverCANSenderReceiver::disconnect, of every unit; what the kernel kept for the socket is
\* gone.
Closed ==
    /\ open' = [e \in ECUs |-> FALSE]
    /\ unanswered' = [e \in ECUs |-> <<>>] /\ socket' = [e \in ECUs |-> <<>>]
\* disconnect(): the sockets first, and stop() only if the engine's could be closed.
Disconnect ==
    /\ main = "run"
    /\ Closed
    /\ main' \in {"stop", "failed"}
    /\ UNCHANGED <<mShouldStop, signalVars>>
StopFlag ==
    /\ main = "stop"
    /\ mShouldStop' = TRUE /\ main' = "notify"
    /\ UNCHANGED <<open, unanswered, socket, signalVars>>
StopNotify ==
    /\ main = "notify"
    /\ mWait' = TRUE /\ mDataAvailableWait' = TRUE /\ main' = "join"
    /\ UNCHANGED <<open, unanswered, socket, mShouldStop>>
Join ==
    /\ main = "join" /\ worker.pc = "ended"
    /\ mShouldStop' = FALSE /\ main' = "down"
    /\ UNCHANGED <<open, unanswered, socket, signalVars>>

MainStep ==
    /\ Disconnect \/ StopFlag \/ StopNotify \/ Join
    /\ UNCHANGED <<dictionaryVars, decoderVars, listVars, mShouldRequestDTCs, timerVars,
                   late, lost, workerVars, manager, changes>>

Tick ==
    /\ \/ mPIDTimer < PIDInterval
       \/ mDTCTimer < DTCInterval
       \/ worker.pc = "resting" /\ slept < SleepTime
    /\ mPIDTimer' = Smaller(mPIDTimer + 1, PIDInterval)
    /\ mDTCTimer' = Smaller(mDTCTimer + 1, DTCInterval)
    /\ slept' = IF worker.pc = "resting" THEN Smaller(slept + 1, SleepTime) ELSE slept
    /\ UNCHANGED <<dictionaryVars, decoderVars, listVars, signalVars, flagVars, busVars,
                   workerVars, otherVars>>

AnswerStep ==
    /\ \E e \in ECUs : Answer(e)
    /\ UNCHANGED <<dictionaryVars, decoderVars, listVars, signalVars, flagVars, timerVars,
                   workerVars, otherVars>>

Next == WorkerStep \/ ManagerStep \/ MainStep \/ Tick \/ AnswerStep
Spec == Init /\ [][Next]_vars

\* The threads run, time passes, a call of the manager that began ends, and a unit that is asked
\* answers unless the answer is lost.
FairSpec ==
    /\ Spec
    /\ WF_vars(WorkerStep) /\ WF_vars(Tick) /\ WF_vars(AnswerStep)
    /\ WF_vars(ManagerStep /\ manager.pc # "idle")
    /\ WF_vars(MainStep /\ main # "run")

-----------------------------------------------------------------------------
(* Properties *)

TypeOK ==
    /\ mDecoderDictionaryPtr \subseteq PIDs /\ decoder \subseteq PIDs
    /\ mPIDsRequested \subseteq PIDs \/ mPIDsRequested = NoList
    /\ \A e \in ECUs : \A l \in {mSupportedPIDs[e], mPIDsToRequest[e]} : l \subseteq PIDs \/ l = NoList
    /\ worker.ecu \in ECUs /\ manager.ecu \in ECUs /\ asked \subseteq PIDs
    /\ mPIDTimer \in 0 .. PIDInterval /\ mDTCTimer \in 0 .. DTCInterval /\ slept \in 0 .. SleepTime

\* A unit is asked only for PIDs that it reported and that some dictionary wanted, although
\* both threads write the lists and answers come late.
RequestsSupported ==
    /\ TypeOK
    /\ \A e \in ECUs : \A i \in DOMAIN unanswered[e] :
         unanswered[e][i].kind = "pids" =>
             /\ unanswered[e][i].pids \subseteq mSupportedPIDs[e] \cap Reported[e]
             /\ \E d \in Dictionaries : unanswered[e][i].pids \subseteq d.wanted

\* When a unit's list is through, each of its PIDs was asked for once, at most six at a time,
\* however the list divides into groups (requestReceiveEmissionPIDs).
AllAsked ==
    [][worker.pc = "ask" =>
         IF worker'.pc \in {"ask", "values"}
         THEN asked \cap worker'.chunk = {} /\ Cardinality(worker'.chunk) <= MAX_PID_RANGE
         ELSE asked = worker.list]_worker

\* The thread does not sleep while there is a dictionary, a wish for trouble codes, or a stop,
\* unless the notification is there or on its way.
WakeNotLost ==
    worker.pc = "asleep" /\ ~mDataAvailableWait =>
        /\ mShouldRequestDTCs \/ mDecoderManifestAvailable => manager.pc = "notify"
        /\ mShouldStop => main = "notify"

\* stop() returns, whatever the units answer and wherever the thread is.
StopReturns == main = "stop" ~> main = "down"

\* As long as no answer is late or lost, the values of a list that the decoder knows are pushed
\* again and again, and trouble codes are asked for as long as they are wanted.
Steady == main = "run" /\ late = 0 /\ lost = 0 /\ open["engine"]
PIDsServed ==
    <>[](/\ Steady /\ ~Empty /\ PIDInterval > 0
         /\ mPIDsToRequest["engine"] \notin {NoList, {}} /\ mPIDsToRequest["engine"] \subseteq decoder)
        => []<>(/\ worker.pc = "ask" /\ worker.ecu = "engine"
                 /\ worker.rest = {} /\ worker.got = worker.list)
DTCsServed ==
    <>[](Steady /\ mShouldRequestDTCs /\ DTCInterval > 0)
        => []<>(worker.pc = "pushDTCs" /\ worker.got = Reports)
RoundsServed == StopReturns /\ PIDsServed /\ DTCsServed

\* When neither thread is at it, the list of a unit is what it supports of what the dictionary
\* wants: updatePIDRequestList says to "Update the PID Request List with PIDs that are common
\* between decoder dictionary and the PIDs supported by ECU".
ListsCurrent ==
    manager.pc = "idle" /\ worker.pc # "assign" =>
        \A e \in ECUs : mSupportedPIDs[e] # NoList /\ mPIDsRequested # NoList =>
                            mPIDsToRequest[e] = Common(mSupportedPIDs[e])
=============================================================================
