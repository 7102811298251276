-------------------- MODULE VehicleDataSourceBinderProofs --------------------
(***************************************************************************)
(* The safety of the binder for any sources: no report is lost while the   *)
(* thread sleeps, and disconnect() leaves nothing running, but for the     *)
(* consumers of sources that come back.                                    *)
(***************************************************************************)
EXTENDS VehicleDataSourceBinder, WellFoundedInduction, TLAPS

\* The client's steps after all consumers and sources were disconnected.
Stopping == {"stop", "join", "done"}

\* A source that does not come back never reports that it is connected.
ReportsSound ==
    /\ \A i \in DOMAIN mDataSourceStates \ Reconnecting : mDataSourceStates[i] = "DISCONNECTED"
    /\ \A i \in DOMAIN binder.copy \ Reconnecting : binder.copy[i] = "DISCONNECTED"
    /\ binder.step = "apply" => DOMAIN binder.copy # {}
    /\ binder.step \notin {"handle", "apply"} => binder.copy = NoReports

\* Which consumers may run, and which sources, while the client is at a step of a call.
ConsumersKnown ==
    consuming \subseteq Reconnecting \cup
        (IF main.step \in {"start", "add", "bind", "run", "remove"} THEN mDataSourcesToConsumers
         ELSE IF At("unbind") THEN mDataSourcesToConsumers \cup main.ids
         ELSE IF At("consumers") THEN main.ids
         ELSE {})
SourcesKnown ==
    connected \subseteq
        IF At("remove") THEN mIdsToDataSources \cup main.ids
        ELSE IF At("sources") THEN main.ids
        ELSE IF main.step \in Stopping THEN {}
        ELSE mIdsToDataSources

\* A report sets the signal, and so does a stop, after its flag.
SignalSet ==
    /\ mDataSourceStates # NoReports => mNotify
    /\ mShouldStop => main.step \in Stopping
    /\ mShouldStop /\ binder.step = "wait" => mNotify \/ At("stop")
    /\ At("done") => binder.step = "ended"

IInv == TypeOK /\ ReportsSound /\ ConsumersKnown /\ SourcesKnown /\ SignalSet

-----------------------------------------------------------------------------
(* Lemmas *)

\* The least of some ids is one of them.
LEMMA LeastIn ==
    ASSUME NEW is \in SUBSET Nat, is # {}
    PROVE  Least(is) \in is
<1> DEFINE lt == OpToRel(<, Nat)
<1>1. IsWellFoundedOn(lt, Nat)
    BY NatLessThanWellFounded
<1> HIDE DEF lt
<1>2. PICK i \in is : \A j \in is : <<j, i>> \notin lt
    BY <1>1, WFMin
<1>3. ASSUME NEW j \in is PROVE i <= j
  <2>1. <<j, i>> \notin lt
      BY <1>2
  <2>2. <<j, i>> \in Nat \X Nat
      OBVIOUS
  <2>3. ~(j < i)
      BY <2>1, <2>2 DEF lt, OpToRel
  <2> QED
      BY <2>3
<1> QED
    BY <1>3 DEF Least

\* The set of functions from some of the sources, written out.
LEMMA StatesMeaning ==
    ASSUME NEW f, NEW is
    PROVE  f \in States(is) <=>
              /\ f = [i \in DOMAIN f |-> f[i]] /\ DOMAIN f \subseteq is
              /\ \A i \in DOMAIN f : f[i] \in {"CONNECTED", "DISCONNECTED"}
    BY DEF States

\* No reports are such a function.
LEMMA NoReportsIn == ASSUME NEW is PROVE NoReports \in States(is) /\ DOMAIN NoReports = {}
    BY StatesMeaning DEF NoReports

\* A report keeps what there is about the others.
LEMMA EmplacedSound ==
    ASSUME IInv, NEW i \in Ids, NEW s \in {"CONNECTED", "DISCONNECTED"},
           s = "CONNECTED" => i \in Reconnecting
    PROVE  /\ Emplaced(i, s) \in States(Ids)
           /\ \A j \in DOMAIN Emplaced(i, s) \ Reconnecting : Emplaced(i, s)[j] = "DISCONNECTED"
    BY StatesMeaning DEF Emplaced, IInv, TypeOK, ReportsSound

\* So is what a report leaves, whether or not the source is subscribed to.
LEMMA ReportSound ==
    ASSUME IInv, NEW i \in Ids, NEW s \in {"CONNECTED", "DISCONNECTED"},
           s = "CONNECTED" => i \in Reconnecting, Report(i, s)
    PROVE  /\ mDataSourceStates' \in States(Ids) /\ mNotify' \in BOOLEAN
           /\ \A j \in DOMAIN mDataSourceStates' \ Reconnecting : mDataSourceStates'[j] = "DISCONNECTED"
           /\ mDataSourceStates' # NoReports => mNotify'
           /\ mNotify => mNotify'
<1>1. CASE i \in subscribed
    BY <1>1, EmplacedSound DEF Report, IInv, TypeOK
<1>2. CASE i \notin subscribed
    BY <1>2 DEF Report, signals, IInv, TypeOK, ReportsSound, SignalSet
<1> QED
    BY <1>1, <1>2

\* At first nothing runs and nothing was reported.
LEMMA InitIInv == Init => IInv
<1> SUFFICES ASSUME Init PROVE IInv
    OBVIOUS
<1>1. TypeOK
  <2>1. NoReports \in States(Ids)
      BY NoReportsIn
  <2>2. main.step = "start" /\ main.ids = Ids /\ binder.step = "off" /\ binder.copy = NoReports
      BY DEF Init
  <2>3. reports \in 0 .. MaxReports
      BY BoundsAssumption DEF Init
  <2> QED
      BY <2>1, <2>2, <2>3 DEF Init, TypeOK, At
<1>2. ReportsSound /\ ConsumersKnown /\ SourcesKnown /\ SignalSet
    BY NoReportsIn DEF Init, ReportsSound, ConsumersKnown, SourcesKnown, SignalSet, At, Stopping
<1> QED
    BY <1>1, <1>2 DEF IInv

\* The thread: it disconnects a consumer, or connects that of a source that came back.
LEMMA WorkKeeps ==
    ASSUME IInv, doWork
    PROVE  IInv'
<1>1. UNCHANGED <<maps, subscribed, connected, mShouldStop, lock, main, reports>>
    BY DEF doWork
<1>2. /\ binder.copy \in States(Ids) /\ mDataSourceStates \in States(Ids)
      /\ NoReports \in States(Ids) /\ DOMAIN NoReports = {}
    BY NoReportsIn DEF IInv, TypeOK
<1>3. ASSUME DOMAIN binder.copy # {}
      PROVE  /\ Current \in DOMAIN binder.copy /\ Current \in Ids
             /\ Restrict(binder.copy, DOMAIN binder.copy \ {Current}) \in States(Ids)
             /\ \A i \in DOMAIN binder.copy \ {Current} :
                    Restrict(binder.copy, DOMAIN binder.copy \ {Current})[i] = binder.copy[i]
             /\ DOMAIN Restrict(binder.copy, DOMAIN binder.copy \ {Current})
                    = DOMAIN binder.copy \ {Current}
  <2>1. DOMAIN binder.copy \subseteq Ids
      BY <1>2, StatesMeaning
  <2>2. Current \in DOMAIN binder.copy
      BY <1>3, <2>1, LeastIn, IdsAssumption DEF Current
  <2> QED
      BY <1>2, <2>1, <2>2, StatesMeaning DEF Restrict
<1> USE <1>1 DEF maps, signals, Binding, At, Stopping
<1>4. CASE Take
  <2>1. TypeOK'
      BY <1>2, <1>4 DEF Take, IInv, TypeOK
  <2>2. ReportsSound'
      BY <1>2, <1>4 DEF Take, IInv, ReportsSound
  <2>3. ConsumersKnown' /\ SourcesKnown' /\ SignalSet'
      BY <1>4 DEF Take, IInv, ConsumersKnown, SourcesKnown, SignalSet
  <2> QED
      BY <2>1, <2>2, <2>3 DEF IInv
<1>5. CASE LookUp
  <2>1. /\ binder'.step \in {"handle", "apply"} /\ binder'.copy \in States(Ids)
        /\ DOMAIN binder'.copy \subseteq DOMAIN binder.copy
        /\ \A i \in DOMAIN binder'.copy : binder'.copy[i] = binder.copy[i]
        /\ binder'.step = "apply" => DOMAIN binder'.copy # {}
    <3>1. CASE Current \in mDataSourcesToConsumers
        BY <1>2, <1>5, <3>1 DEF LookUp
    <3>2. CASE Current \notin mDataSourcesToConsumers
        BY <1>3, <1>5, <3>2 DEF LookUp
    <3> QED
        BY <3>1, <3>2
  <2>2. TypeOK'
      BY <1>5, <2>1 DEF LookUp, IInv, TypeOK
  <2>3. ReportsSound'
      BY <1>5, <2>1 DEF LookUp, IInv, ReportsSound
  <2>4. ConsumersKnown' /\ SourcesKnown' /\ SignalSet'
      BY <1>5, <2>1 DEF LookUp, IInv, ConsumersKnown, SourcesKnown, SignalSet
  <2> QED
      BY <2>2, <2>3, <2>4 DEF IInv
<1>6. CASE Handle
  <2>1. DOMAIN binder.copy # {}
      BY <1>6 DEF Handle, IInv, ReportsSound
  <2>2. consuming' \subseteq consuming \cup Reconnecting
      BY <1>3, <1>6, <2>1 DEF Handle, Apply, IInv, ReportsSound
  <2>3. consuming' \subseteq Ids
      BY <2>2, BoundsAssumption DEF IInv, TypeOK
  <2>4. /\ binder' = [step |-> "handle", copy |-> Restrict(binder.copy, DOMAIN binder.copy \ {Current})]
        /\ UNCHANGED <<mDataSourceStates, mNotify>>
      BY <1>6 DEF Handle
  <2>5. TypeOK'
      BY <1>3, <2>1, <2>3, <2>4 DEF IInv, TypeOK
  <2>6. ReportsSound'
      BY <1>3, <2>1, <2>4 DEF IInv, ReportsSound
  <2>7. ConsumersKnown'
      BY <2>2 DEF IInv, ConsumersKnown
  <2>8. SourcesKnown' /\ SignalSet'
      BY <2>4, <1>6 DEF IInv, SourcesKnown, SignalSet, Handle
  <2> QED
      BY <2>5, <2>6, <2>7, <2>8 DEF IInv
<1>7. CASE HandledAll
    BY <1>2, <1>7 DEF HandledAll, IInv, TypeOK, ReportsSound, ConsumersKnown, SourcesKnown, SignalSet
<1> QED
    BY <1>4, <1>5, <1>6, <1>7 DEF doWork

\* The client: a consumer is bound before it runs, and stopped after it was unbound.
LEMMA ClientKeeps ==
    ASSUME IInv, Client
    PROVE  IInv'
<1>1. UNCHANGED reports
    BY DEF Client
<1>2. ASSUME main.ids # {}
      PROVE  Least(main.ids) \in main.ids /\ Least(main.ids) \in Ids
    BY <1>2, LeastIn, IdsAssumption DEF IInv, TypeOK
<1>3. NoReports \in States(Ids) /\ DOMAIN NoReports = {}
    BY NoReportsIn
<1> USE <1>1 DEF maps, signals, Binding, At, Go, Stopping
<1>4. CASE start
    BY <1>3, <1>4 DEF start, IInv, TypeOK, ReportsSound, ConsumersKnown, SourcesKnown, SignalSet
<1>5. CASE Add
    BY <1>2, <1>5 DEF Add, addVehicleDataSource, IInv, TypeOK, ReportsSound, ConsumersKnown,
                      SourcesKnown, SignalSet
<1>6. CASE bindConsumerToVehicleDataSource
    BY <1>2, <1>6 DEF bindConsumerToVehicleDataSource, IInv, TypeOK, ReportsSound, ConsumersKnown,
                      SourcesKnown, SignalSet
<1>7. CASE SetUp
    BY <1>7 DEF SetUp, IInv, TypeOK, ReportsSound, ConsumersKnown, SourcesKnown, SignalSet
<1>8. CASE \E i \in Ids : removeVehicleDataSource(i)
    BY <1>8 DEF removeVehicleDataSource, IInv, TypeOK, ReportsSound, ConsumersKnown, SourcesKnown,
                SignalSet
<1>9. CASE \E i \in Ids : unBindConsumerFromVehicleDataSource(i)
    BY <1>9 DEF unBindConsumerFromVehicleDataSource, IInv, TypeOK, ReportsSound, ConsumersKnown,
                SourcesKnown, SignalSet
<1>10. CASE Removed
    BY <1>10 DEF Removed, IInv, TypeOK, ReportsSound, ConsumersKnown, SourcesKnown, SignalSet
<1>11. CASE Unbound
    BY <1>11 DEF Unbound, IInv, TypeOK, ReportsSound, ConsumersKnown, SourcesKnown, SignalSet
<1>12. CASE Disconnect
    BY <1>12 DEF Disconnect, IInv, TypeOK, ReportsSound, ConsumersKnown, SourcesKnown, SignalSet
<1>13. CASE DisconnectConsumer
    BY <1>13 DEF DisconnectConsumer, IInv, TypeOK, ReportsSound, ConsumersKnown, SourcesKnown,
                 SignalSet
<1>14. CASE ConsumersDone
    BY <1>14 DEF ConsumersDone, IInv, TypeOK, ReportsSound, ConsumersKnown, SourcesKnown, SignalSet
<1>15. CASE DisconnectSource
  <2> DEFINE i == Least(main.ids)
  <2>1. i \in main.ids /\ i \in Ids /\ Report(i, "DISCONNECTED")
      BY <1>2, <1>15 DEF DisconnectSource
  <2> HIDE DEF i
  <2>2. /\ mDataSourceStates' \in States(Ids) /\ mNotify' \in BOOLEAN
        /\ \A j \in DOMAIN mDataSourceStates' \ Reconnecting : mDataSourceStates'[j] = "DISCONNECTED"
        /\ mDataSourceStates' # NoReports => mNotify'
        /\ mNotify => mNotify'
      BY <2>1, ReportSound
  <2>3. /\ At("sources") /\ connected' = connected \ {i} /\ Go("sources", main.ids \ {i})
        /\ UNCHANGED <<maps, subscribed, consuming, binder, mShouldStop, lock>>
      BY <1>15 DEF DisconnectSource, i
  <2> QED
      BY <2>2, <2>3 DEF IInv, TypeOK, ReportsSound, ConsumersKnown, SourcesKnown, SignalSet
<1>16. CASE Stop
  <2>1. CASE At("sources") /\ main.ids = {} /\ Go("stop", {}) /\ mShouldStop' = TRUE
             /\ UNCHANGED mNotify
      BY <1>16, <2>1 DEF Stop, IInv, TypeOK, ReportsSound, ConsumersKnown, SourcesKnown, SignalSet
  <2>2. CASE At("stop") /\ Go("join", {}) /\ mNotify' = TRUE /\ UNCHANGED mShouldStop
      BY <1>16, <2>2 DEF Stop, IInv, TypeOK, ReportsSound, ConsumersKnown, SourcesKnown, SignalSet
  <2>3. CASE At("join") /\ binder.step = "ended" /\ Go("done", {})
             /\ UNCHANGED <<mShouldStop, mNotify>>
      BY <1>16, <2>3 DEF Stop, IInv, TypeOK, ReportsSound, ConsumersKnown, SourcesKnown, SignalSet
  <2> QED
      BY <1>16, <2>1, <2>2, <2>3 DEF Stop
<1> QED
    BY <1>4, <1>5, <1>6, <1>7, <1>8, <1>9, <1>10, <1>11, <1>12, <1>13, <1>14, <1>15, <1>16
       DEF Client, disconnect

\* The sources: one that comes back is of those that do.
LEMMA SourcesKeep ==
    ASSUME IInv, NEW i \in Ids, SourceLost(i) \/ SourceBack(i)
    PROVE  IInv'
<1>1. /\ mDataSourceStates' \in States(Ids) /\ mNotify' \in BOOLEAN
      /\ \A j \in DOMAIN mDataSourceStates' \ Reconnecting : mDataSourceStates'[j] = "DISCONNECTED"
      /\ mDataSourceStates' # NoReports => mNotify'
      /\ mNotify => mNotify'
    BY ReportSound DEF SourceLost, SourceBack
<1>2. /\ At("run") /\ connected' \subseteq connected \cup mIdsToDataSources
      /\ reports' \in 0 .. MaxReports
      /\ UNCHANGED <<maps, subscribed, consuming, binder, mShouldStop, lock, main>>
    BY BoundsAssumption DEF SourceLost, SourceBack, Outside, IInv, TypeOK
<1> QED
    BY <1>1, <1>2 DEF maps, At, Stopping, IInv, TypeOK, ReportsSound, ConsumersKnown, SourcesKnown,
                      SignalSet

\* Every step keeps the invariant.
LEMMA StepIInv == IInv /\ [Next]_vars => IInv'
<1> SUFFICES ASSUME IInv, [Next]_vars PROVE IInv'
    OBVIOUS
<1>1. CASE UNCHANGED vars
    BY <1>1 DEF vars, At, Stopping, IInv, TypeOK, ReportsSound, ConsumersKnown, SourcesKnown,
                SignalSet
<1> QED
    BY <1>1, WorkKeeps, ClientKeeps, SourcesKeep DEF Next

-----------------------------------------------------------------------------
(* Theorems *)

\* What the binder relies on holds however its thread, the client and the sources interleave.
THEOREM BinderInvariance == Spec => []IInv
<1> QED
    BY InitIInv, StepIInv, PTL DEF Spec

\* The thread never waits while a report is there or while it is to stop.
THEOREM ReportsSafe == Spec => []ReportNotLost
<1>1. IInv => ReportNotLost
    BY DEF IInv, SignalSet, ReportNotLost
<1> QED
    BY <1>1, BinderInvariance, PTL

\* disconnect() leaves no thread behind, but the consumers of sources that come back; also
\* the type invariant.
THEOREM DisconnectSafe == Spec => []NoneLeftRunning
<1>1. IInv => NoneLeftRunning
    BY DEF IInv, ConsumersKnown, SourcesKnown, SignalSet, NoneLeftRunning, At, Stopping
<1> QED
    BY <1>1, BinderInvariance, PTL
=============================================================================
