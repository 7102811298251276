---------------------------- MODULE EngineProcess ----------------------------
(***************************************************************************)
(* The life of the process: main() and IoTFleetWiseEngine, which creates,  *)
(* connects and stops the modules and destroys them.  The remote profiler  *)
(* and the DDS module run in detail beside it; of the other modules it     *)
(* matters here which have a running thread, who listens to whom, and      *)
(* which objects are gone.  main is where the main thread is in main(),    *)
(* connect(), disconnect() or the destructor.                              *)
(***************************************************************************)
EXTENDS RemoteProfiler, DataOverDDS

CONSTANT Configurations   \* the configurations connect() is called with

VARIABLES
    config,         \* the configuration of this process
    main,           \* the step the main thread does next
    alive,          \* modules whose thread runs; "iot" is the connection's
    listeners,      \* <<subject, listener>>: registered in the subject's ThreadListeners
    destroyed,      \* members of the engine that are gone
    failed          \* connect() or disconnect() gave up

processVars == <<config, main, alive, listeners, destroyed, failed>>
vars == <<profilerVars, ddsVars, processVars>>

\* config.profiler: "remoteProfilerDefaultValues" is there; metrics: there is a metrics
\* topic; json: "useJsonBasedCollectionScheme".

Init ==
    /\ ProfilerInit /\ DDSInit
    /\ config \in Configurations
    /\ main = "iot"
    /\ alive = {} /\ listeners = {} /\ destroyed = {} /\ failed = FALSE

\* The members with a thread or a listener, in the order they are destroyed:
\* the reverse of their declaration.
Members == <<"dds", "profiler", "inspection", "csm", "schema", "iot", "obd", "binder">>

Idle == UNCHANGED <<profilerVars, ddsVars>>
Then(place) == main' = place /\ UNCHANGED <<config, destroyed, failed>>
Fail == main' = "destructor" /\ failed' = TRUE /\ UNCHANGED <<config, destroyed>>
Listen(pairs) == listeners' = listeners \cup pairs

-----------------------------------------------------------------------------
\* connect(), in order.

\* The channels are created before; the connection comes up in the background.
ConnectIot ==
    /\ main = "iot"
    /\ alive' = alive \cup {"iot"}
    /\ Then("profiler")
    /\ Idle /\ UNCHANGED listeners

\* A profiler that does not start is only warned about ...
StartProfiler ==
    /\ main = "profiler"
    /\ IF config.profiler
       THEN start(config.metrics) /\ Then("forward")
       ELSE UNCHANGED profilerVars /\ Then("inspection")
    /\ UNCHANGED <<ddsVars, alive, listeners>>

\* ... and gets the log messages all the same.
ForwardLogs ==
    /\ main = "forward"
    /\ setLogForwarding(TRUE)
    /\ Then("inspection")
    /\ UNCHANGED <<ddsVars, alive, listeners>>

StartInspection ==
    /\ main = "inspection"
    /\ \/ /\ alive' = alive \cup {"inspection"}
          /\ Listen({<<"inspection", "engine">>})
          /\ Then("schema")
       \/ Fail /\ UNCHANGED <<alive, listeners>>
    /\ Idle

\* With a collection scheme from a file there is no Schema.
CreateSchema ==
    /\ main = "schema"
    /\ IF config.json
       THEN (Then("csm") \/ Fail) /\ UNCHANGED listeners
       ELSE Then("csm") /\ Listen({<<"iot", "schema">>})
    /\ Idle /\ UNCHANGED alive

\* CollectionSchemeManager::init, then mSchemaPtr->subscribeListener, which
\* dereferences null when there is no Schema.
CreateManager ==
    /\ main = "csm"
    /\ \/ /\ config.json
          /\ main' = "crashed" /\ UNCHANGED <<config, destroyed, failed, listeners>>
       \/ /\ ~config.json
          /\ Listen({<<"schema", "csm">>, <<"csm", "inspection">>})
          /\ Then("binder")
       \/ Fail /\ UNCHANGED listeners
    /\ Idle /\ UNCHANGED alive

\* The binder, and the sources and consumers of the configured CAN interfaces.
ConnectBinder ==
    /\ main = "binder"
    /\ \/ alive' = alive \cup {"binder"} /\ (Then("obd") \/ Fail)
       \/ Fail /\ UNCHANGED alive
    /\ Idle /\ UNCHANGED listeners

\* The OBD module is connected before it listens; init refuses when nothing is configured.
ConnectOBD ==
    /\ main = "obd"
    /\ \/ /\ config.obd
          /\ \/ alive' = alive \cup {"obd"} /\ Listen({<<"csm", "obd">>}) /\ Then("startCsm")
             \/ Fail /\ UNCHANGED <<alive, listeners>>
       \/ ~config.obd /\ Then("startCsm") /\ UNCHANGED <<alive, listeners>>
    /\ Idle

\* "Only start the CollectionSchemeManager after all listeners have subscribed".
StartManager ==
    /\ main = "startCsm"
    /\ Listen({<<"csm", "binder">>})
    /\ \/ alive' = alive \cup {"csm"} /\ Then(IF config.dds THEN "dds" ELSE "start")
       \/ Fail /\ UNCHANGED alive
    /\ Idle

\* The DDS module listens to the running inspection thread, then starts its threads.
ListenDDS ==
    /\ main = "dds"
    /\ \/ Listen({<<"inspection", "dds">>}) /\ Then("startDDS")
       \/ Fail /\ UNCHANGED listeners               \* DataOverDDSModule::init
    /\ Idle /\ UNCHANGED alive

StartDDS ==
    /\ main = "startDDS"
    /\ \/ /\ \E t \in DDSThreads, ok \in BOOLEAN :
                /\ StartThread(t, ok)
                /\ IF ok THEN Then("startDDS") ELSE Fail
       \/ /\ \A t \in DDSThreads : ddsAt[t] # "none"
          /\ Then("start") /\ UNCHANGED ddsVars
    /\ UNCHANGED <<profilerVars, alive, listeners>>

\* main(): the engine's own thread, then nothing until the signal handler ran.
StartEngine ==
    /\ main = "start"
    /\ \/ alive' = alive \cup {"engine"} /\ Then("run")
       \/ Fail /\ UNCHANGED alive
    /\ Idle /\ UNCHANGED listeners

-----------------------------------------------------------------------------
\* main() after the signal: stop(), then disconnect(), in order.

StopEngine ==
    /\ main = "run"
    /\ alive' = alive \ {"engine"}
    /\ Then("unlistenDDS")
    /\ Idle /\ UNCHANGED listeners

UnlistenDDS ==
    /\ main = "unlistenDDS"
    /\ listeners' = listeners \ {<<"inspection", "dds">>}
    /\ Then(IF config.dds THEN "stopDDS" ELSE "stopObd")
    /\ Idle /\ UNCHANGED alive

\* One thread at a time is asked to end and joined; the module's own is the last;
\* its destructor, below, begins with that one.
StopDDS ==
    /\ main = "stopDDS"
    /\ \/ /\ Then("stopDDS")
          /\ \/ \E t \in DDSThreads : JoinThread(t)
             \/ /\ ddsStop = {}
                /\ \E t \in DDSThreads :
                      /\ StopThread(t)
                      /\ t = Module => \A u \in ConnectOrder : ddsAt[u] = "none"
       \/ /\ \A t \in DDSThreads : ddsAt[t] = "none"
          /\ Then("stopObd") /\ UNCHANGED ddsVars
    /\ UNCHANGED <<profilerVars, alive, listeners>>

StopOBD ==
    /\ main = "stopObd"
    /\ \/ alive' = alive \ {"obd"} /\ Then("stopInspection")
       \/ "obd" \in alive /\ Fail /\ UNCHANGED alive      \* a socket did not close
    /\ Idle /\ UNCHANGED listeners

StopInspection ==
    /\ main = "stopInspection"
    /\ alive' = alive \ {"inspection"}
    /\ Then("unforward")
    /\ Idle /\ UNCHANGED listeners

UnforwardLogs ==
    /\ main = "unforward"
    /\ setLogForwarding(FALSE)
    /\ Then("stopProfiler")
    /\ UNCHANGED <<ddsVars, alive, listeners>>

StopProfiler ==
    /\ main = "stopProfiler"
    /\ \/ StopStep /\ Then("stopProfiler")
       \/ /\ stopAt = "out" /\ ~isAlive
          /\ Then("stopCsm") /\ UNCHANGED profilerVars
    /\ UNCHANGED <<ddsVars, alive, listeners>>

StopManager ==
    /\ main = "stopCsm"
    /\ alive' = alive \ {"csm"}
    /\ Then("stopBinder")
    /\ Idle /\ UNCHANGED listeners

StopBinder ==
    /\ main = "stopBinder"
    /\ \/ alive' = alive \ {"binder"} /\ Then("destructor")
       \/ Fail /\ UNCHANGED alive                         \* a source did not disconnect
    /\ Idle /\ UNCHANGED listeners

-----------------------------------------------------------------------------
\* The destructor of the engine: its own thread, the forwarding of logs, then
\* the members; each one's destructor stops its threads if they still run.

\* Mutant: the destructor leaves the forwarding of logs as it is.
DestructorForwarding ==
    /\ main = "destructor"
    /\ alive' = alive \ {"engine"}
    /\ Then("members")
    /\ Idle /\ UNCHANGED listeners

Destructor ==
    /\ main = "destructor"
    /\ alive' = alive \ {"engine"}
    /\ setLogForwarding(FALSE)
    /\ Then("members")
    /\ UNCHANGED <<ddsVars, listeners>>

Position(m) == CHOOSE i \in DOMAIN Members : Members[i] = m
NextMember == CHOOSE m \in {Members[i] : i \in DOMAIN Members} \ destroyed :
                 \A n \in {Members[i] : i \in DOMAIN Members} \ destroyed : Position(m) <= Position(n)
AllDestroyed == destroyed = {Members[i] : i \in DOMAIN Members}

\* Threads of a member that its destructor has to end first.
DestructorStops ==
    /\ main = "members" /\ ~AllDestroyed
    /\ \/ /\ NextMember = "profiler" /\ (stopAt # "out" \/ isAlive)
          /\ StopStep /\ UNCHANGED ddsVars
       \/ /\ NextMember = "dds"
          /\ \/ \E t \in DDSThreads : JoinThread(t)
             \/ /\ ddsStop = {}
                /\ \E t \in DDSThreads :
                      /\ StopThread(t)
                      /\ t # Module => ddsAt[Module] = "none"
          /\ UNCHANGED profilerVars
    /\ Then("members") /\ UNCHANGED <<alive, listeners>>

DestroyMember ==
    /\ main = "members" /\ ~AllDestroyed
    /\ NextMember = "profiler" => stopAt = "out" /\ ~isAlive
    /\ NextMember = "dds" => \A t \in DDSThreads : ddsAt[t] = "none"
    /\ destroyed' = destroyed \cup {NextMember}
    /\ alive' = alive \ {NextMember}
    /\ listeners' = {l \in listeners : l[1] # NextMember}
    /\ UNCHANGED <<config, main, failed>>
    /\ Idle

\* The destructor of the connection takes the mutex of every channel and joins the thread that
\* connects. After an error of a subscription, at any time since ConnectIot, that thread waits for
\* ever with such a mutex (SubscribeReturns of Connectivity), and so does the destructor. Nothing
\* else depends on the error here, so it is told from the others only when it matters.
SubscriptionHangs ==
    /\ main = "members" /\ ~AllDestroyed
    /\ NextMember = "iot" /\ "iot" \in alive
    /\ Then("stuck")
    /\ Idle /\ UNCHANGED <<alive, listeners>>

Exit ==
    /\ main = "members" /\ AllDestroyed
    /\ Then("exited")
    /\ Idle /\ UNCHANGED <<alive, listeners>>

-----------------------------------------------------------------------------
MainStep ==
    \/ ConnectIot \/ StartProfiler \/ ForwardLogs \/ StartInspection \/ CreateSchema
    \/ CreateManager \/ ConnectBinder \/ ConnectOBD \/ StartManager \/ ListenDDS \/ StartDDS
    \/ StartEngine \/ UnlistenDDS \/ StopDDS \/ StopOBD \/ StopInspection \/ UnforwardLogs
    \/ StopProfiler \/ StopManager \/ StopBinder \/ Destructor \/ DestructorStops
    \/ DestroyMember \/ SubscriptionHangs \/ Exit

\* disconnect() and connect() hold mPubSubMutex while they go through the nodes.
Locked == main = "startDDS" \/ (main = "stopDDS" /\ \E t \in ConnectOrder : ddsAt[t] # "none")

Running == main \notin {"crashed", "exited"}

Others ==
    \/ ProfilerNext /\ UNCHANGED <<ddsVars, processVars>>
    \/ (\E t \in DDSThreads : DDSStepOf(t, Locked)) /\ UNCHANGED <<profilerVars, processVars>>
    \/ /\ \/ <<"inspection", "dds">> \in listeners /\ "inspection" \in alive /\ onEventOfInterestDetected
          \/ NotifyModule
          \/ "dds" \notin destroyed /\ \E s \in Sources : on_data_available(s)
       /\ UNCHANGED <<profilerVars, processVars>>

\* The main thread has stopped, crashed, or is stuck.
Over == main \in {"crashed", "exited", "stuck"} /\ UNCHANGED vars

Next == (Running /\ (MainStep \/ StopEngine \/ Others)) \/ Over

Spec == Init /\ [][Next]_vars

\* Every thread goes on when it can; the threads of other modules need not log,
\* no event and no answer has to come, and the signal to stop need not either.
FairSpec ==
    /\ Spec
    /\ WF_vars(MainStep)
    /\ WF_vars(WorkerStep /\ UNCHANGED <<ddsVars, processVars>>)
    /\ \A t \in LogThreads : WF_vars(LogStep(t) /\ UNCHANGED <<entries, ddsVars, processVars>>)
    /\ WF_vars(NotifyModule /\ UNCHANGED <<profilerVars, processVars>>)
    /\ \A t \in DDSThreads : WF_vars(DDSStepOf(t, Locked) /\ UNCHANGED <<profilerVars, processVars>>)

-----------------------------------------------------------------------------
\* Property.  The manager's thread never runs before everyone who needs the stored
\* decoder manifest and collection schemes listens to it, and only subjects that
\* exist are listened to (IoTFleetWiseEngine.cpp:511 "Only start the
\* CollectionSchemeManager after all listeners have subscribed").
AllSubscribed ==
    "csm" \in alive =>
        /\ {<<"schema", "csm">>, <<"csm", "inspection">>, <<"csm", "binder">>} \subseteq listeners
        /\ config.obd => <<"csm", "obd">> \in listeners

\* Who notifies a subject's listeners: messages arrive on the connection's thread.
Notifies(subject) == (IF subject = "schema" THEN "iot" ELSE subject) \in alive
Dangling == {l \in listeners : l[2] \in destroyed /\ Notifies(l[1])}

\* Property.  After an orderly stop the only listeners that are destroyed before the
\* thread that notifies them are those of the connection, which disconnect() leaves
\* up; after a failed step also those of the threads it left running
\* (IoTFleetWiseEngine.cpp:617 to :672, and the members of IoTFleetWiseEngine.h:143).
ListenersOutlive ==
    /\ AllSubscribed
    /\ Dangling \subseteq {<<"iot", "schema">>, <<"schema", "csm">>}
                \cup (IF failed THEN {<<"csm", "inspection">>, <<"inspection", "dds">>} ELSE {})

\* Property.  No thread logs into a profiler that is gone, and its thread and those of the
\* camera nodes are gone before it and their module are, whatever failed on the way
\* (IoTFleetWiseEngine.cpp:76 and the destructors of the members).
NothingLeft ==
    /\ "profiler" \in destroyed => ~gLogForwarder /\ holder = Nobody /\ workAt = "none"
    /\ "dds" \in destroyed => \A t \in DDSThreads : ddsAt[t] = "none"

\* Property.  The order in which the members go and the order in which their threads and
\* listeners are released fit each other.
LifetimesOrdered == ListenersOutlive /\ NothingLeft

\* Property.  Once a stop is under way, or a step failed, the process ends (main.cpp:94), unless
\* it is stuck in the destruction of the connection after an error of a subscription: the threads
\* of the profiler and of the camera nodes are woken and answer. The stops of the other modules are
\* one step here; that they return is their own modules' claim.
ProcessEnds == main \notin {"run", "crashed"} ~> main \in {"run", "crashed", "exited", "stuck"}

\* Property.  While the process runs, the sources named in an event are asked for
\* its data, unless a newer event replaces it or it came between the request for the
\* last one and the reset of its flag (DataOverDDSModule.cpp:160, :167).
EventsServed ==
    \A e \in 1 .. MaxEvents :
        main = "run" /\ mEventMetatdata.id = e /\ e \notin late ~>
            \/ main # "run" \/ mEventMetatdata.id # e
            \/ \A s \in mEventMetatdata.sources \cap Sources : e \in written[s]
=============================================================================
