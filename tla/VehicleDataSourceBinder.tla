----------------------- MODULE VehicleDataSourceBinder -----------------------
(***************************************************************************)
(* VehicleDataSourceBinder: its maps of sources and consumers, its thread, *)
(* which connects and disconnects consumers as their sources report, the   *)
(* client that sets it up, takes sources and consumers out again and       *)
(* disconnects it, and sources that are disconnected and connected again   *)
(* by others.                                                              *)
(*                                                                         *)
(* Of a source and of a consumer the model keeps whether its thread runs.  *)
(* What a dictionary does to them is the subject of CANChannel.            *)
(***************************************************************************)
EXTENDS Naturals, FiniteSets, Functions

CONSTANTS
    Ids,            \* data source ids
    Reconnecting,   \* the sources that come back after they were disconnected
    Overlapping,    \* the sources that report while an earlier report is not yet handled
    MaxReports      \* bound: reports of sources

ASSUME IdsAssumption == Ids \subseteq Nat /\ IsFiniteSet(Ids)
ASSUME BoundsAssumption ==
    Reconnecting \subseteq Ids /\ Overlapping \subseteq Ids /\ MaxReports \in Nat

VARIABLES
    mIdsToDataSources, mDataSourcesToConsumers,     \* the ids in the maps
    subscribed,             \* the sources that report to the binder
    connected, consuming,   \* the sources and the consumers whose threads run
    mDataSourceStates,      \* what the sources reported, by id
    mNotify, mShouldStop,
    binder,                 \* the thread: its step, the reports it took, the one at hand
    lock,                   \* who holds mConsumersMutex
    main,                   \* the client: its step and the ids it still has to deal with
    reports

vars == <<mIdsToDataSources, mDataSourcesToConsumers, subscribed, connected, consuming,
          mDataSourceStates, mNotify, mShouldStop, binder, lock, main, reports>>
maps == <<mIdsToDataSources, mDataSourcesToConsumers>>
signals == <<mDataSourceStates, mNotify>>

NoReports == [i \in {} |-> "CONNECTED"]
Least(is) == CHOOSE i \in is : \A j \in is : i <= j

Init ==
    /\ mIdsToDataSources = {} /\ mDataSourcesToConsumers = {} /\ subscribed = {}
    /\ connected = {} /\ consuming = {}
    /\ mDataSourceStates = NoReports /\ mNotify = FALSE /\ mShouldStop = FALSE
    /\ binder = [step |-> "off", copy |-> NoReports]
    /\ lock = "free"
    /\ main = [step |-> "start", ids |-> Ids]
    /\ reports = 0

-----------------------------------------------------------------------------
(* onVehicleDataSourceConnected and onVehicleDataSourceDisconnected, on the thread that    *)
(* connects or disconnects the source                                                      *)

\* emplace: a report that is there already stays.
Emplaced(i, s) == IF i \in DOMAIN mDataSourceStates THEN mDataSourceStates
                  ELSE [j \in DOMAIN mDataSourceStates \cup {i} |->
                           IF j = i THEN s ELSE mDataSourceStates[j]]
ReportSilent(i, s) ==
    IF i \in subscribed
    THEN mDataSourceStates' = Emplaced(i, s) /\ UNCHANGED mNotify
    ELSE UNCHANGED signals
Report(i, s) ==
    IF i \in subscribed
    THEN mDataSourceStates' = Emplaced(i, s) /\ mNotify' = TRUE
    ELSE UNCHANGED signals

-----------------------------------------------------------------------------
(* The binder's thread *)

Binding(step, copy) == binder' = [step |-> step, copy |-> copy]

\* It takes all reports at once.
Take ==
    /\ binder.step = "wait" /\ mNotify
    /\ mNotify' = FALSE
    /\ Binding("handle", mDataSourceStates)
    /\ mDataSourceStates' = NoReports
    /\ UNCHANGED consuming

\* The consumer is looked up under the mutex, which the client holds while it disconnects
\* all of them, and dealt with afterwards.
Current == Least(DOMAIN binder.copy)
LookUp ==
    /\ binder.step = "handle" /\ DOMAIN binder.copy # {} /\ lock = "free"
    /\ IF Current \in mDataSourcesToConsumers THEN Binding("apply", binder.copy)
       ELSE Binding("handle", Restrict(binder.copy, DOMAIN binder.copy \ {Current}))
    /\ UNCHANGED <<consuming, signals>>
ApplySwapped(state) ==
    consuming' = IF state = "DISCONNECTED" THEN consuming \cup {Current} ELSE consuming \ {Current}
\* reConnectConsumer and disconnectConsumer; a consumer that runs is not started again.
Apply(state) ==
    consuming' = IF state = "CONNECTED" THEN consuming \cup {Current} ELSE consuming \ {Current}
Handle ==
    /\ binder.step = "apply"
    /\ Apply(binder.copy[Current])
    /\ Binding("handle", Restrict(binder.copy, DOMAIN binder.copy \ {Current}))
    /\ UNCHANGED signals
\* The loop ends when it is told to stop.
HandledAll ==
    /\ binder.step = "handle" /\ DOMAIN binder.copy = {}
    /\ Binding(IF mShouldStop THEN "ended" ELSE "wait", NoReports)
    /\ UNCHANGED <<consuming, signals>>

doWork ==
    /\ Take \/ LookUp \/ Handle \/ HandledAll
    /\ UNCHANGED <<maps, subscribed, connected, mShouldStop, lock, main, reports>>

-----------------------------------------------------------------------------
(* The client *)

At(step) == main.step = step
Go(step, ids) == main' = [step |-> step, ids |-> ids]

start ==
    /\ At("start") /\ Go("add", Ids)
    /\ Binding("wait", NoReports)
    /\ UNCHANGED <<maps, subscribed, connected, consuming, signals, mShouldStop, lock>>

\* addVehicleDataSource connects the source, and only then subscribes to it; then
\* bindConsumerToVehicleDataSource starts its consumer.
AddSubscribesFirst(i) ==
    /\ subscribed' = subscribed \cup {i}
    /\ mDataSourceStates' = Emplaced(i, "CONNECTED") /\ mNotify' = TRUE
addVehicleDataSource(i) ==
    /\ subscribed' = subscribed \cup {i}
    /\ UNCHANGED signals
Add ==
    /\ At("add") /\ main.ids # {}
    /\ LET i == Least(main.ids)
       IN  /\ mIdsToDataSources' = mIdsToDataSources \cup {i}
           /\ connected' = connected \cup {i}
           /\ addVehicleDataSource(i)
           /\ Go("bind", main.ids)
    /\ UNCHANGED <<mDataSourcesToConsumers, consuming, binder, mShouldStop, lock>>
bindConsumerToVehicleDataSource ==
    /\ At("bind") /\ lock = "free"
    /\ LET i == Least(main.ids)
       IN  /\ i \in mIdsToDataSources
           /\ mDataSourcesToConsumers' = mDataSourcesToConsumers \cup {i}
           /\ consuming' = consuming \cup {i}
           /\ Go("add", main.ids \ {i})
    /\ UNCHANGED <<mIdsToDataSources, subscribed, connected, signals, binder, mShouldStop, lock>>
SetUp ==
    /\ At("add") /\ main.ids = {} /\ Go("run", {})
    /\ UNCHANGED <<maps, subscribed, connected, consuming, signals, binder, mShouldStop, lock>>

\* The source leaves the map, then it no longer reports to the binder, then it is
\* disconnected.
removeVehicleDataSource(i) ==
    /\ At("run") /\ i \in mIdsToDataSources
    /\ mIdsToDataSources' = mIdsToDataSources \ {i}
    /\ Go("remove", {i})
    /\ UNCHANGED <<mDataSourcesToConsumers, subscribed, connected, consuming, signals,
                   binder, mShouldStop, lock>>
Removed ==
    /\ At("remove")
    /\ subscribed' = subscribed \ main.ids
    /\ connected' = connected \ main.ids
    /\ Go("run", {})
    /\ UNCHANGED <<maps, consuming, signals, binder, mShouldStop, lock>>
unBindConsumerFromVehicleDataSource(i) ==
    /\ At("run") /\ i \in mDataSourcesToConsumers /\ lock = "free"
    /\ mDataSourcesToConsumers' = mDataSourcesToConsumers \ {i}
    /\ Go("unbind", {i})
    /\ UNCHANGED <<mIdsToDataSources, subscribed, connected, consuming, signals, binder, mShouldStop, lock>>
Unbound ==
    /\ At("unbind")
    /\ consuming' = consuming \ main.ids
    /\ Go("run", {})
    /\ UNCHANGED <<maps, subscribed, connected, signals, binder, mShouldStop, lock>>

\* disconnect(): the consumers, under their mutex; the sources; the thread.
Disconnect ==
    /\ At("run") /\ lock = "free"
    /\ lock' = "main" /\ Go("consumers", mDataSourcesToConsumers)
    /\ UNCHANGED <<maps, subscribed, connected, consuming, signals, binder, mShouldStop>>
DisconnectConsumer ==
    /\ At("consumers") /\ main.ids # {}
    /\ LET i == Least(main.ids)
       IN  consuming' = consuming \ {i} /\ Go("consumers", main.ids \ {i})
    /\ UNCHANGED <<maps, subscribed, connected, signals, binder, mShouldStop, lock>>
ConsumersDone ==
    /\ At("consumers") /\ main.ids = {}
    /\ lock' = "free" /\ Go("sources", mIdsToDataSources)
    /\ UNCHANGED <<maps, subscribed, connected, consuming, signals, binder, mShouldStop>>
DisconnectSource ==
    /\ At("sources") /\ main.ids # {}
    /\ LET i == Least(main.ids)
       IN  /\ connected' = connected \ {i}
           /\ Report(i, "DISCONNECTED")
           /\ Go("sources", main.ids \ {i})
    /\ UNCHANGED <<maps, subscribed, consuming, binder, mShouldStop, lock>>
\* stop() of the thread, which it waits for.
Stop ==
    /\ \/ At("sources") /\ main.ids = {} /\ Go("stop", {}) /\ mShouldStop' = TRUE /\ UNCHANGED mNotify
       \/ At("stop") /\ Go("join", {}) /\ mNotify' = TRUE /\ UNCHANGED mShouldStop
       \/ At("join") /\ binder.step = "ended" /\ Go("done", {}) /\ UNCHANGED <<mShouldStop, mNotify>>
    /\ UNCHANGED <<maps, subscribed, connected, consuming, mDataSourceStates, binder, lock>>

disconnect == Disconnect \/ DisconnectConsumer \/ ConsumersDone \/ DisconnectSource \/ Stop
Client ==
    /\ \/ start \/ Add \/ bindConsumerToVehicleDataSource \/ SetUp
       \/ (\E i \in Ids : removeVehicleDataSource(i) \/ unBindConsumerFromVehicleDataSource(i))
       \/ Removed \/ Unbound \/ disconnect
    /\ UNCHANGED reports

-----------------------------------------------------------------------------
(* Sources that others disconnect and connect again *)

Busy == DOMAIN mDataSourceStates \cup DOMAIN binder.copy
Outside(i) ==
    /\ At("run") /\ i \in mIdsToDataSources \cap subscribed
    /\ reports < MaxReports /\ reports' = reports + 1
    /\ i \in Busy => i \in Overlapping
    /\ UNCHANGED <<maps, subscribed, consuming, binder, mShouldStop, lock, main>>
SourceLost(i) ==
    /\ i \in connected
    /\ connected' = connected \ {i}
    /\ Report(i, "DISCONNECTED")
    /\ Outside(i)
SourceBack(i) ==
    /\ i \in Reconnecting /\ i \notin connected
    /\ connected' = connected \cup {i}
    /\ Report(i, "CONNECTED")
    /\ Outside(i)

Next ==
    \/ doWork
    \/ Client
    \/ \E i \in Ids : SourceLost(i) \/ SourceBack(i)
Spec == Init /\ [][Next]_vars

\* The thread is scheduled and a call of the client that has begun goes on.
ClientGoesOn == ~At("run") /\ Client
Fairness == WF_vars(doWork) /\ WF_vars(ClientGoesOn)
FairSpec == Spec /\ Fairness

-----------------------------------------------------------------------------
(* Properties *)

States(is) == UNION {[d -> {"CONNECTED", "DISCONNECTED"}] : d \in SUBSET is}
TypeOK ==
    /\ mIdsToDataSources \subseteq Ids /\ mDataSourcesToConsumers \subseteq Ids
    /\ subscribed \subseteq Ids /\ connected \subseteq Ids /\ consuming \subseteq Ids
    /\ mDataSourceStates \in States(Ids)
    /\ mNotify \in BOOLEAN /\ mShouldStop \in BOOLEAN
    /\ binder.step \in {"off", "wait", "handle", "apply", "ended"} /\ binder.copy \in States(Ids)
    /\ lock = IF At("consumers") THEN "main" ELSE "free"
    /\ main.step \in {"start", "add", "bind", "run", "remove", "unbind", "consumers", "sources",
                      "stop", "join", "done"}
    /\ main.ids \subseteq Ids /\ reports \in 0 .. MaxReports

\* While the thread sleeps, a report, or the request to stop, has set its signal or is
\* about to.
ReportNotLost ==
    binder.step = "wait" =>
        /\ mDataSourceStates # NoReports => mNotify
        /\ mShouldStop => mNotify \/ At("stop")

\* No consumer runs that is not bound, and disconnect() leaves nothing running, however far
\* the thread was with earlier reports; but for the consumers of sources that come back.
\* Everything has its type.
NoneLeftRunning ==
    /\ TypeOK
    /\ At("run") => consuming \subseteq mDataSourcesToConsumers \cup Reconnecting
    /\ At("done") => consuming \subseteq Reconnecting /\ connected = {} /\ binder.step = "ended"

\* disconnect() returns, and the client's other calls do.
CallsReturn == ~At("run") ~> At("run") \/ At("done")

\* A consumer runs in the end when its source does, and not when it does not, if the
\* reports of the source come one at a time or it does not come back.
ConsumersFollow ==
    \A i \in Ids \ (Reconnecting \cap Overlapping) :
        /\ i \in connected /\ i \in mDataSourcesToConsumers
               ~> i \in consuming \/ i \notin connected \/ ~At("run")
        /\ i \notin connected /\ i \in subscribed /\ i \in mDataSourcesToConsumers
               ~> i \notin consuming \/ i \in connected \/ ~At("run")

\* The thread and its clients keep up with each other: calls return and reports are acted on.
BinderKeepsUp == CallsReturn /\ ConsumersFollow

-----------------------------------------------------------------------------
(* What the comments say and the code does not do *)

\* "receives interrupts when the data sources are disconnected and reflects that to the
\* consumer state": so too when a source comes back before the thread looked.
InterruptsReflected ==
    \A i \in Ids :
        i \in connected /\ i \in mDataSourcesToConsumers
            ~> i \in consuming \/ i \notin connected \/ ~At("run")

\* "when the consumers are disconnected, this thread does not accidentally tries to
\* reconnect them".
NotReconnected == At("done") => consuming = {}

=============================================================================
