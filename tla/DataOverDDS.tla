----------------------------- MODULE DataOverDDS -----------------------------
(***************************************************************************)
(* Camera data over DDS: the DataOverDDSModule asks the sources named in   *)
(* an event for data, one CameraDataPublisher per source writes the        *)
(* requests to the DDS network and one CameraDataSubscriber per source     *)
(* stores what the remote node answers.  Each of them has a thread that    *)
(* sleeps on a Signal, here the latch it implements (module Latch).  The   *)
(* remote nodes and the DDS library are external: they answer requests     *)
(* in the order they came, or not at all, on a thread of the library.      *)
(***************************************************************************)
EXTENDS Integers, Sequences, FiniteSets

CONSTANTS
    Sources,          \* the configured camera nodes
    Unknown,          \* source IDs that are not configured
    MaxEvents         \* bound: events of interest

ASSUME DDSAssumption == MaxEvents \in Nat /\ Sources \cap Unknown = {}

VARIABLES
    mEventMetatdata,      \* the last event: its number and the sources it names
    mNewEventReceived,
    mRequest, mRequestCompleted,      \* of each publisher
    mDataItem, mNewResponseReceived,  \* of each subscriber
    ddsAt,                \* where each thread is
    ddsDone,              \* the threads whose mDone is set before they began
    ddsWait,              \* the threads with a notification in mWait
    ddsStop,              \* the threads with mShouldStop
    listening,            \* the subscribers the module listens to
    eventAt,              \* where the inspection thread is in its notification
    written,              \* history: the requests written to the network
    late,                 \* history: the events that came before the reset of the last
    events                \* bound and last event number

ddsVars == <<mEventMetatdata, mNewEventReceived, mRequest, mRequestCompleted, mDataItem,
             mNewResponseReceived, ddsAt, ddsDone, ddsWait, ddsStop, listening,
             eventAt, written, late, events>>
requestVars == <<mRequest, mRequestCompleted>>
responseVars == <<mDataItem, mNewResponseReceived>>
eventVars == <<mEventMetatdata, mNewEventReceived, eventAt, late, events>>
threadState == <<ddsAt, ddsDone, ddsStop, listening>>

Module == <<"module", "module">>
Pub(s) == <<"pub", s>>
Sub(s) == <<"sub", s>>
DDSThreads == {Module} \cup {Pub(s) : s \in Sources} \cup {Sub(s) : s \in Sources}

DDSInit ==
    /\ mEventMetatdata = [id |-> 0, sources |-> {}] /\ mNewEventReceived = FALSE
    /\ mRequest = [s \in Sources |-> 0] /\ mRequestCompleted = [s \in Sources |-> TRUE]
    /\ mDataItem = [s \in Sources |-> 0] /\ mNewResponseReceived = [s \in Sources |-> FALSE]
    /\ ddsAt = [t \in DDSThreads |-> "none"]
    /\ ddsDone = {} /\ ddsWait = {} /\ ddsStop = {} /\ listening = {}
    /\ eventAt = "out"
    /\ written = [s \in Sources |-> {}] /\ late = {}
    /\ events = 0

Goto(t, place) == ddsAt' = [ddsAt EXCEPT ![t] = place]

-----------------------------------------------------------------------------
\* The inspection thread: onEventOfInterestDetected, called for the listeners
\* of CollectionInspectionEngine; the mutex of the event excludes the request loop.
onEventOfInterestDetected ==
    /\ eventAt = "out" /\ events < MaxEvents
    /\ events' = events + 1
    /\ \E sources \in SUBSET (Sources \cup Unknown) \ {{}} :
          mEventMetatdata' = [id |-> events', sources |-> sources]
    /\ mNewEventReceived' = TRUE
    /\ late' = IF ddsAt[Module] = "reset" THEN late \cup {events'} ELSE late
    /\ eventAt' = "notify"
    /\ UNCHANGED <<requestVars, responseVars, threadState, ddsWait, written>>

NotifyModule ==
    /\ eventAt = "notify"
    /\ ddsWait' = ddsWait \cup {Module}
    /\ eventAt' = "out"
    /\ UNCHANGED <<mEventMetatdata, mNewEventReceived, late, events, requestVars, responseVars,
                   threadState, written>>

\* Each thread: the wrapper, the loop, the wait without a timeout.
Begin(t) ==
    /\ ddsAt[t] = "begin"
    /\ Goto(t, IF t \in ddsDone THEN "ended" ELSE "loop")
    /\ UNCHANGED <<eventVars, requestVars, responseVars, ddsDone, ddsStop, listening, ddsWait, written>>

LoopOrEnd(t) ==
    /\ ddsAt[t] = "loop"
    /\ Goto(t, IF t \in ddsStop THEN "ended" ELSE "wait")
    /\ UNCHANGED <<eventVars, requestVars, responseVars, ddsDone, ddsStop, listening, ddsWait, written>>

Wake(t) ==
    /\ ddsAt[t] = "wait" /\ t \in ddsWait
    /\ ddsWait' = ddsWait \ {t}
    /\ Goto(t, "awake")
    /\ UNCHANGED <<eventVars, requestVars, responseVars, ddsDone, ddsStop, listening, written>>

-----------------------------------------------------------------------------
\* Mutant: the publisher is given the request but not woken.
RequestSourcesSilent(locked) ==
    /\ ddsAt[Module] = "awake"
    /\ IF mNewEventReceived
       THEN /\ ~locked
            /\ LET asked == mEventMetatdata.sources \cap Sources
               IN  /\ mRequest' = [s \in Sources |-> IF s \in asked THEN mEventMetatdata.id ELSE mRequest[s]]
                   /\ mRequestCompleted' = [s \in Sources |-> mRequestCompleted[s] /\ s \notin asked]
            /\ Goto(Module, "reset")
       ELSE Goto(Module, "loop") /\ UNCHANGED requestVars
    /\ UNCHANGED <<eventVars, responseVars, ddsDone, ddsStop, listening, ddsWait, written>>

\* The module's thread: request every configured source of the event ...
RequestSources(locked) ==
    /\ ddsAt[Module] = "awake"
    /\ IF mNewEventReceived
       THEN /\ ~locked                       \* mPubSubMutex
            /\ LET asked == mEventMetatdata.sources \cap Sources
               IN  /\ mRequest' = [s \in Sources |-> IF s \in asked THEN mEventMetatdata.id ELSE mRequest[s]]
                   /\ mRequestCompleted' = [s \in Sources |-> mRequestCompleted[s] /\ s \notin asked]
                   /\ ddsWait' = ddsWait \cup {Pub(s) : s \in asked}
            /\ Goto(Module, "reset")
       ELSE Goto(Module, "loop") /\ UNCHANGED <<requestVars, ddsWait>>
    /\ UNCHANGED <<eventVars, responseVars, ddsDone, ddsStop, listening, written>>

\* ... and, no longer under the mutex, forget that there was an event.
ResetEvent ==
    /\ ddsAt[Module] = "reset"
    /\ mNewEventReceived' = FALSE
    /\ Goto(Module, "loop")
    /\ UNCHANGED <<mEventMetatdata, eventAt, late, events, requestVars, responseVars, ddsDone,
                   ddsStop, listening, ddsWait, written>>

\* A publisher's thread: write the request, once.
SendRequest(s) ==
    /\ ddsAt[Pub(s)] = "awake"
    /\ IF mRequestCompleted[s]
       THEN UNCHANGED <<written, mRequestCompleted>>
       ELSE /\ written' = [written EXCEPT ![s] = @ \cup {mRequest[s]}]
            /\ mRequestCompleted' = [mRequestCompleted EXCEPT ![s] = TRUE]
    /\ Goto(Pub(s), "loop")
    /\ UNCHANGED <<eventVars, mRequest, responseVars, ddsDone, ddsStop, listening, ddsWait>>

\* The library's thread: on_data_available puts the answer into mDataItem, whatever
\* the subscriber's thread is doing with the previous one.
on_data_available(s) ==
    /\ \E id \in written[s] : id > mDataItem[s] /\ mDataItem' = [mDataItem EXCEPT ![s] = id]
    /\ mNewResponseReceived' = [mNewResponseReceived EXCEPT ![s] = TRUE]
    /\ ddsWait' = ddsWait \cup {Sub(s)}
    /\ UNCHANGED <<eventVars, requestVars, threadState, written>>

\* A subscriber's thread: store mDataItem in the file named after it and tell the
\* listeners, then forget that there was an answer.
PersistAnswer(s) ==
    /\ ddsAt[Sub(s)] = "awake"
    /\ Goto(Sub(s), IF mNewResponseReceived[s] THEN "reset" ELSE "loop")
    /\ UNCHANGED <<eventVars, requestVars, responseVars, ddsDone, ddsStop, listening, ddsWait, written>>

ResetResponse(s) ==
    /\ ddsAt[Sub(s)] = "reset"
    /\ mNewResponseReceived' = [mNewResponseReceived EXCEPT ![s] = FALSE]
    /\ Goto(Sub(s), "loop")
    /\ UNCHANGED <<eventVars, requestVars, mDataItem, ddsDone, ddsStop, listening, ddsWait, written>>

-----------------------------------------------------------------------------
\* connect and disconnect, called by the thread that owns the module: one thread
\* after another is started, and later asked to end and joined.
ConnectOrder == {Sub(s) : s \in Sources} \cup {Pub(s) : s \in Sources}

StartThread(t, ok) ==
    /\ ddsAt[t] = "none"
    /\ t = Module => \A u \in ConnectOrder : ddsAt[u] # "none"
    /\ listening' = IF t[1] = "sub" THEN listening \cup {t} ELSE listening
    /\ ddsStop' = ddsStop \ {t} /\ ddsDone' = ddsDone \ {t}
    /\ IF ok THEN Goto(t, "begin") ELSE UNCHANGED ddsAt
    /\ UNCHANGED <<eventVars, requestVars, responseVars, ddsWait, written>>

StopThread(t) ==
    /\ ddsAt[t] # "none" /\ t \notin ddsStop
    /\ listening' = listening \ {t}
    /\ ddsStop' = ddsStop \cup {t} /\ ddsDone' = ddsDone \cup {t}
    /\ ddsWait' = ddsWait \cup {t}
    /\ UNCHANGED <<eventVars, requestVars, responseVars, ddsAt, written>>

JoinThread(t) ==
    /\ ddsAt[t] = "ended"
    /\ Goto(t, "none")
    /\ ddsStop' = ddsStop \ {t} /\ ddsDone' = ddsDone \ {t}
    /\ UNCHANGED <<eventVars, requestVars, responseVars, ddsWait, listening, written>>

DDSStepOf(t, locked) ==
    \/ Begin(t) \/ LoopOrEnd(t) \/ Wake(t)
    \/ t = Module /\ (RequestSources(locked) \/ ResetEvent)
    \/ \E s \in Sources : \/ t = Pub(s) /\ SendRequest(s)
                          \/ t = Sub(s) /\ (PersistAnswer(s) \/ ResetResponse(s))
=============================================================================
