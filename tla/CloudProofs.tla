----------------------------- MODULE CloudProofs ----------------------------
(***************************************************************************)
(* The safety of the way to the cloud: of the connection, and of the       *)
(* uploads of collected data that wait for one. The two machines share no  *)
(* variable, and each half of this module is about one of them.            *)
(*                                                                         *)
(* The connectivity module, for any number of channels, of failing         *)
(* attempts and of losses: the promises are used once, nothing is left     *)
(* open, and subscriptions are answered to valid channels. What sdk and    *)
(* the promises are follows from where the retry thread and the destructor *)
(* are. Three phases say how: no connection, a connection that was         *)
(* accepted, and a disconnection somebody waits for.                       *)
(*                                                                         *)
(* Uploads of collected data are accounted for, whatever the payloads, the *)
(* sizes and the number of crashes, drops and failures: memory is reserved *)
(* for what is under way, nothing is repeated without a failed retry or a  *)
(* crash, and a record leaves the file only after it was handed over.      *)
(***************************************************************************)
EXTENDS Connectivity, PersistedUpload, FiniteSetTheorems, SequenceTheorems,
        WellFoundedInduction, TLAPS

(***************************************************************************)
(* The connection.                                                         *)
(***************************************************************************)

\* The SDK has no connection and both promises are fresh.
Idle ==
    /\ sdk = "idle"
    /\ mConnectionCompletedPromise = Renewed /\ mConnectionClosedPromise = Renewed

\* An attempt is under way, or the SDK has answered it.
Attempted(states, sets) ==
    /\ sdk \in states /\ callback = None /\ mConnectionEstablished
    /\ mConnectionCompletedPromise.sets = sets /\ mConnectionCompletedPromise.gets = 1
    /\ mConnectionClosedPromise = Renewed
Established == Attempted({"up", "interrupted"}, 1)

\* The promise of a disconnection is waited for, before and after onDisconnect set it.
Closing ==
    /\ mConnectionCompletedPromise = Renewed
    /\ mConnectionClosedPromise.gets = 1
    /\ \/ /\ sdk = "closing" /\ callback = None
          /\ mConnectionClosedPromise.sets = 0 /\ mConnectionClosedPromise.value = None
       \/ sdk = "idle" /\ mConnectionClosedPromise.sets = 1

\* The connection seen from the retry thread, ...
RetryPhase ==
    /\ retry \in {"attempt", "backoff"} => Idle
    /\ retry = "attempt" => callback = None \/ fShouldStop
    /\ retry = "connecting" =>
          \/ Attempted({"connecting"}, 0) /\ mConnectionCompletedPromise.value = None
          \/ Established /\ mConnectionCompletedPromise.value = "accepted"
          \/ Attempted({"failed"}, 1) /\ mConnectionCompletedPromise.value = "failed"
    /\ retry \in {"accepted", "subscribe", "subscribing"} => Established
    /\ retry = "reset" => Attempted({"failed"}, 1)
    /\ retry = "closing" => Closing

\* ... and, once that has ended, from the destructor.
MainPhase ==
    retry = "ended" =>
        /\ main \notin {"closing", "done"} => Idle \/ Established
        /\ main = "closing" => Closing
        /\ main = "done" => Idle

\* The destructor goes past the retry thread only when that has ended, and the thread's
\* signal is set only when it is to stop.
StopSeen ==
    /\ main \in {"reset", "closing", "done"} => retry = "ended"
    /\ fWait /\ retry # "ended" => fShouldStop

\* isAlive() needs a connection, or a callback that is about to correct it.
ConnectedPhase ==
    mConnected => sdk \in {"up", "interrupted", "closing"} \/ callback = "onDisconnect"

\* The channel that is being subscribed is one.
SubscribingChannel == retry = "subscribing" => channel \in Channels

IInv ==
    /\ TypeOK
    /\ SubscribingChannel /\ SubscribingValid
    /\ RetryPhase /\ MainPhase /\ StopSeen /\ ConnectedPhase

-----------------------------------------------------------------------------
(* Lemmas about promises *)

\* A fresh promise is one.
LEMMA RenewedPromise == \A values : Renewed \in Promises(values)
    BY DEF Promises, Renewed

\* Setting a promise gives a promise with that value, and counts.
LEMMA SetPromise ==
    ASSUME NEW values, NEW promise \in Promises(values), NEW v \in values
    PROVE  /\ SetTo(promise, v) \in Promises(values)
           /\ SetTo(promise, v).value = v
           /\ SetTo(promise, v).sets = promise.sets + 1
           /\ SetTo(promise, v).gets = promise.gets
    BY DEF Promises, SetTo

\* Fetching its future leaves the value alone and counts.
LEMMA FetchedPromise ==
    ASSUME NEW values, NEW promise \in Promises(values)
    PROVE  /\ Fetched(promise) \in Promises(values)
           /\ Fetched(promise).value = promise.value
           /\ Fetched(promise).sets = promise.sets
           /\ Fetched(promise).gets = promise.gets + 1
    BY DEF Promises, Fetched

\* A fresh promise has no value and was neither set nor fetched.
LEMMA RenewedFields == Renewed.value = None /\ Renewed.sets = 0 /\ Renewed.gets = 0
    BY DEF Renewed

-----------------------------------------------------------------------------
(* One lemma for each part of IInv, and in it one step for each action *)

\* Every step of the retry thread, the event loop and the destructor keeps the types.
LEMMA TypeStep ==
    ASSUME TypeOK, SubscribingChannel, [Next]_vars
    PROVE  TypeOK'
<1> USE CountAssumption DEF TypeOK, Channels, connectionVars, channelVars, bounds
<1>1. CASE ConnectFails
    BY <1>1 DEF ConnectFails
<1>2. CASE Connect
    BY <1>2, FetchedPromise DEF Connect
<1>3. CASE Completed
    BY <1>3 DEF Completed
<1>4. CASE Accepted
    BY <1>4 DEF Accepted
<1>5. CASE ResetAfterFailure
    BY <1>5, RenewedPromise, FetchedPromise DEF ResetAfterFailure, ResetConnection
<1>6. CASE ClosedAfterFailure
    BY <1>6, RenewedPromise DEF ClosedAfterFailure, ConnectionClosed
<1>7. CASE Backoff
    BY <1>7 DEF Backoff
<1>8. CASE Abort
    BY <1>8 DEF Abort
<1>9. CASE Subscribe
    BY <1>9 DEF Subscribe
<1>10. CASE SubscribeRefused
    BY <1>10 DEF SubscribeRefused
<1>11. CASE SubscribeEnds
    BY <1>11 DEF SubscribeEnds, SubscribingChannel
<1>12. CASE SubscribedAll
    BY <1>12 DEF SubscribedAll
<1>13. CASE OnConnectionCompleted
    BY <1>13, SetPromise DEF OnConnectionCompleted
<1>14. CASE OnDisconnect
    BY <1>14, SetPromise DEF OnDisconnect
<1>15. CASE OnDisconnectReturns
    BY <1>15 DEF OnDisconnectReturns
<1>16. CASE OnSubAck
    BY <1>16 DEF OnSubAck
<1>17. CASE OnInterrupted
    <2>1. interrupts' \in 0 .. MaxInterrupts
        BY <1>17 DEF OnInterrupted
    <2>2. sdk' = "interrupted" /\ mConnected' = FALSE
        BY <1>17 DEF OnInterrupted
    <2> QED
        BY <1>17, <2>1, <2>2 DEF OnInterrupted
<1>18. CASE OnResumed
    BY <1>18 DEF OnResumed
<1>19. CASE Destroy
    BY <1>19 DEF Destroy
<1>20. CASE InvalidateConnection
    <2>1. /\ IsFiniteSet(Channels) /\ Cardinality(Channels) = ChannelCount
        BY FS_Interval
    <2>2. Cardinality(invalidated) \in Nat /\ Cardinality(invalidated) < ChannelCount
        <3>1. invalidated \subseteq Channels /\ invalidated # Channels
            BY <1>20 DEF InvalidateConnection
        <3> HIDE DEF TypeOK, Channels
        <3>2. /\ IsFiniteSet(invalidated)
              /\ Cardinality(invalidated) <= Cardinality(Channels)
              /\ Cardinality(invalidated) = Cardinality(Channels) => invalidated = Channels
            BY <3>1, <2>1, FS_Subset
        <3>3. Cardinality(invalidated) \in Nat
            BY <3>2, FS_CardinalityType
        <3> QED
            BY <2>1, <3>1, <3>2, <3>3, CountAssumption
    <2>3. Cardinality(invalidated) + 1 \in Channels
        BY <2>2
    <2>4. invalidated' \subseteq Channels
        BY <1>20, <2>3 DEF InvalidateConnection
    <2> QED
        BY <1>20, <2>4 DEF InvalidateConnection
<1>21. CASE Stop
    BY <1>21 DEF Stop
<1>22. CASE Released
    BY <1>22 DEF Released
<1>23. CASE Disconnect
    BY <1>23, RenewedPromise, FetchedPromise DEF Disconnect, ResetConnection
<1>24. CASE Disconnected
    BY <1>24, RenewedPromise DEF Disconnected, ConnectionClosed
<1>25. CASE UNCHANGED vars
    BY <1>25 DEF vars
<1> QED
    BY <1>1, <1>2, <1>3, <1>4, <1>5, <1>6, <1>7, <1>8, <1>9, <1>10, <1>11, <1>12, <1>13,
       <1>14, <1>15, <1>16, <1>17, <1>18, <1>19, <1>20, <1>21, <1>22, <1>23, <1>24, <1>25
       DEF Next, RetryStep, EventLoopAnswer, MainStep

\* Subscriptions, the destructor's progress and the stop of the retry thread, which do not
\* depend on the connection.
LEMMA ControlStep ==
    ASSUME TypeOK, SubscribingChannel, SubscribingValid, StopSeen, [Next]_vars
    PROVE  SubscribingChannel' /\ SubscribingValid' /\ StopSeen'
<1> USE DEF TypeOK, Channels, SubscribingChannel, SubscribingValid, StopSeen, connectionVars,
           channelVars, bounds
<1>1. CASE ConnectFails
    BY <1>1 DEF ConnectFails
<1>2. CASE Connect
    BY <1>2 DEF Connect
<1>3. CASE Completed
    BY <1>3 DEF Completed
<1>4. CASE Accepted
    BY <1>4 DEF Accepted
<1>5. CASE ResetAfterFailure
    BY <1>5 DEF ResetAfterFailure
<1>6. CASE ClosedAfterFailure
    BY <1>6 DEF ClosedAfterFailure
<1>7. CASE Backoff
    BY <1>7 DEF Backoff
<1>8. CASE Abort
    BY <1>8 DEF Abort
<1>9. CASE Subscribe
    BY <1>9 DEF Subscribe
<1>10. CASE SubscribeRefused
    BY <1>10 DEF SubscribeRefused
<1>11. CASE SubscribeEnds
    BY <1>11 DEF SubscribeEnds
<1>12. CASE SubscribedAll
    BY <1>12 DEF SubscribedAll
<1>13. CASE OnConnectionCompleted
    BY <1>13 DEF OnConnectionCompleted
<1>14. CASE OnDisconnect
    BY <1>14 DEF OnDisconnect
<1>15. CASE OnDisconnectReturns
    BY <1>15 DEF OnDisconnectReturns
<1>16. CASE OnSubAck
    BY <1>16 DEF OnSubAck
<1>17. CASE OnInterrupted
    BY <1>17 DEF OnInterrupted
<1>18. CASE OnResumed
    BY <1>18 DEF OnResumed
<1>19. CASE Destroy
    BY <1>19 DEF Destroy
<1>20. CASE InvalidateConnection
    BY <1>20 DEF InvalidateConnection
<1>21. CASE Stop
    BY <1>21 DEF Stop
<1>22. CASE Released
    BY <1>22 DEF Released
<1>23. CASE Disconnect
    BY <1>23 DEF Disconnect
<1>24. CASE Disconnected
    BY <1>24 DEF Disconnected
<1>25. CASE UNCHANGED vars
    BY <1>25 DEF vars
<1> QED
    BY <1>1, <1>2, <1>3, <1>4, <1>5, <1>6, <1>7, <1>8, <1>9, <1>10, <1>11, <1>12, <1>13,
       <1>14, <1>15, <1>16, <1>17, <1>18, <1>19, <1>20, <1>21, <1>22, <1>23, <1>24, <1>25
       DEF Next, RetryStep, EventLoopAnswer, MainStep

\* mConnected is true only with a connection, or until the callback corrects it.
LEMMA ConnectedStep ==
    ASSUME IInv, [Next]_vars
    PROVE  ConnectedPhase'
<1> USE DEF IInv, TypeOK, ConnectedPhase, RetryPhase, MainPhase, StopSeen, Idle, Attempted,
           Established, Closing, connectionVars, channelVars, bounds
<1>1. CASE ConnectFails
    BY <1>1 DEF ConnectFails
<1>2. CASE Connect
    BY <1>2, RenewedFields DEF Connect
<1>3. CASE Completed
    BY <1>3 DEF Completed
<1>4. CASE Accepted
    BY <1>4 DEF Accepted
<1>5. CASE ResetAfterFailure
    BY <1>5 DEF ResetAfterFailure, ResetConnection
<1>6. CASE ClosedAfterFailure
    BY <1>6 DEF ClosedAfterFailure, ConnectionClosed
<1>7. CASE Backoff
    BY <1>7 DEF Backoff
<1>8. CASE Abort
    BY <1>8 DEF Abort
<1>9. CASE Subscribe
    BY <1>9 DEF Subscribe
<1>10. CASE SubscribeRefused
    BY <1>10 DEF SubscribeRefused
<1>11. CASE SubscribeEnds
    BY <1>11 DEF SubscribeEnds
<1>12. CASE SubscribedAll
    BY <1>12 DEF SubscribedAll
<1>13. CASE OnConnectionCompleted
    BY <1>13 DEF OnConnectionCompleted
<1>14. CASE OnDisconnect
    BY <1>14 DEF OnDisconnect
<1>15. CASE OnDisconnectReturns
    BY <1>15 DEF OnDisconnectReturns
<1>16. CASE OnSubAck
    BY <1>16 DEF OnSubAck
<1>17. CASE OnInterrupted
    BY <1>17 DEF OnInterrupted
<1>18. CASE OnResumed
    BY <1>18 DEF OnResumed
<1>19. CASE Destroy
    BY <1>19 DEF Destroy
<1>20. CASE InvalidateConnection
    BY <1>20 DEF InvalidateConnection
<1>21. CASE Stop
    BY <1>21 DEF Stop
<1>22. CASE Released
    BY <1>22 DEF Released
<1>23. CASE Disconnect
    BY <1>23 DEF Disconnect, ResetConnection
<1>24. CASE Disconnected
    BY <1>24 DEF Disconnected, ConnectionClosed
<1>25. CASE UNCHANGED vars
    BY <1>25 DEF vars
<1> QED
    BY <1>1, <1>2, <1>3, <1>4, <1>5, <1>6, <1>7, <1>8, <1>9, <1>10, <1>11, <1>12, <1>13,
       <1>14, <1>15, <1>16, <1>17, <1>18, <1>19, <1>20, <1>21, <1>22, <1>23, <1>24, <1>25
       DEF Next, RetryStep, EventLoopAnswer, MainStep

\* The state of the SDK and of both promises follows the two threads.
LEMMA PhaseStep ==
    ASSUME IInv, [Next]_vars
    PROVE  RetryPhase' /\ MainPhase'
<1> USE DEF IInv, TypeOK, ConnectedPhase, RetryPhase, MainPhase, StopSeen, Idle, Attempted,
           Established, Closing, connectionVars, channelVars, bounds, None
<1>1. CASE ConnectFails
    BY <1>1 DEF ConnectFails
<1>2. CASE Connect
    BY <1>2, RenewedFields, FetchedPromise DEF Connect
<1>3. CASE Completed
    BY <1>3 DEF Completed
<1>4. CASE Accepted
    BY <1>4 DEF Accepted
<1>5. CASE ResetAfterFailure
    BY <1>5, RenewedFields, FetchedPromise DEF ResetAfterFailure, ResetConnection
<1>6. CASE ClosedAfterFailure
    BY <1>6 DEF ClosedAfterFailure, ConnectionClosed
<1>7. CASE Backoff
    BY <1>7 DEF Backoff
<1>8. CASE Abort
    BY <1>8 DEF Abort
<1>9. CASE Subscribe
    BY <1>9 DEF Subscribe
<1>10. CASE SubscribeRefused
    BY <1>10 DEF SubscribeRefused
<1>11. CASE SubscribeEnds
    BY <1>11 DEF SubscribeEnds
<1>12. CASE SubscribedAll
    BY <1>12 DEF SubscribedAll
<1>13. CASE OnConnectionCompleted
    BY <1>13, SetPromise DEF OnConnectionCompleted
<1>14. CASE OnDisconnect
    BY <1>14, SetPromise DEF OnDisconnect
<1>15. CASE OnDisconnectReturns
    BY <1>15 DEF OnDisconnectReturns
<1>16. CASE OnSubAck
    BY <1>16 DEF OnSubAck
<1>17. CASE OnInterrupted
    BY <1>17 DEF OnInterrupted
<1>18. CASE OnResumed
    BY <1>18 DEF OnResumed
<1>19. CASE Destroy
    BY <1>19 DEF Destroy
<1>20. CASE InvalidateConnection
    BY <1>20 DEF InvalidateConnection
<1>21. CASE Stop
    BY <1>21 DEF Stop
<1>22. CASE Released
    BY <1>22 DEF Released
<1>23. CASE Disconnect
    BY <1>23, RenewedFields, FetchedPromise DEF Disconnect, ResetConnection
<1>24. CASE Disconnected
    BY <1>24 DEF Disconnected, ConnectionClosed
<1>25. CASE UNCHANGED vars
    BY <1>25 DEF vars
<1> QED
    BY <1>1, <1>2, <1>3, <1>4, <1>5, <1>6, <1>7, <1>8, <1>9, <1>10, <1>11, <1>12, <1>13,
       <1>14, <1>15, <1>16, <1>17, <1>18, <1>19, <1>20, <1>21, <1>22, <1>23, <1>24, <1>25
       DEF Next, RetryStep, EventLoopAnswer, MainStep

-----------------------------------------------------------------------------
(* Theorems *)

\* What the module relies on holds whatever is lost, refused or destroyed.
THEOREM ConnectivityInvariance == Spec => []IInv
<1>1. Init => IInv
  <2> SUFFICES ASSUME Init PROVE IInv
      OBVIOUS
  <2>1. TypeOK
    <3>1. channel \in 1 .. ChannelCount + 1 /\ mSubscribed \in [Channels -> BOOLEAN]
        BY CountAssumption DEF Init
    <3>2. refusals \in 0 .. MaxRefusals /\ interrupts \in 0 .. MaxInterrupts
        BY CountAssumption DEF Init
    <3> QED
        BY <3>1, <3>2, RenewedPromise DEF Init, TypeOK
  <2> QED
      BY <2>1 DEF Init, IInv, SubscribingChannel, SubscribingValid, RetryPhase, MainPhase,
         StopSeen, ConnectedPhase, Idle
<1>2. IInv /\ [Next]_vars => IInv'
    BY TypeStep, ControlStep, ConnectedStep, PhaseStep DEF IInv
<1> QED
    BY <1>1, <1>2, PTL DEF Spec

\* No promise is set, and none is asked for its future, a second time: neither the retry
\* thread nor the destructor nor the event loop ever throws for it.
THEOREM PromisesSafe == Spec => []PromisesUsedOnce
<1>1. IInv => PromisesUsedOnce
    BY RenewedFields DEF IInv, TypeOK, PromisesUsedOnce, RetryPhase, MainPhase, Idle, Attempted,
       Established, Closing
<1> QED
    BY <1>1, ConnectivityInvariance, PTL

\* Destruction leaves no connection behind, and the two threads do not meet on it.
THEOREM DestructionSafe == Spec => []NothingLeftOpen
<1>1. IInv => NothingLeftOpen
    BY DEF IInv, NothingLeftOpen, MainPhase, StopSeen, ConnectedPhase, Idle, None
<1> QED
    BY <1>1, ConnectivityInvariance, PTL

\* A subscription is answered to a channel that still has its module.
THEOREM SubscriptionsSafe == Spec => []SubscribingValid
<1>1. IInv => SubscribingValid
    BY DEF IInv
<1> QED
    BY <1>1, ConnectivityInvariance, PTL

\* Both: destruction meets neither a connection nor a subscription under way.
THEOREM DestructionMeetsNothing == Spec => []DestructionClean
<1>1. NothingLeftOpen /\ SubscribingValid => DestructionClean
    BY DEF DestructionClean
<1> QED
    BY <1>1, DestructionSafe, SubscriptionsSafe, PTL

-----------------------------------------------------------------------------
(***************************************************************************)
(* The uploads.                                                            *)
(***************************************************************************)

\* What was not collected yet is nowhere.
OnlyCollected ==
    /\ \A i \in DOMAIN file : file[i].payload \in collected
    /\ \A i \in DOMAIN batch : batch[i] \in Payloads => batch[i] \in collected
    /\ \A p \in Payloads \ collected : sent[p] = 0

\* Neither the file nor what was read from it holds a payload twice.
HeldOnce ==
    /\ \A i, j \in DOMAIN file : file[i].payload = file[j].payload => i = j
    /\ \A i, j \in DOMAIN batch : batch[i] \in Payloads /\ batch[i] = batch[j] => i = j

\* Nothing is handed over twice without a cause between. Outside an upload nothing on file was
\* handed over since the last cause, and during one nothing of what is still to transmit.
Owed ==
    /\ \A p \in Payloads : sent[p] <= 1
    /\ pc = "collect" => batch = <<>> /\ \A i \in DOMAIN file : sent[file[i].payload] = 0
    /\ \A i \in DOMAIN batch : batch[i] \in Payloads => sent[batch[i]] = 0

\* What a retry can read is still to transmit, or was handed over.
Waiting(p) == \E i \in DOMAIN batch : batch[i] = p
Handed == pc = "upload" => \A p \in Retrievable : p \in handed \/ Waiting(p)

UploadInv == MemoryAccounted /\ OnlyCollected /\ HeldOnce /\ Owed /\ Handed

-----------------------------------------------------------------------------
(* Lemmas about the file and what is read from it *)

\* A set of natural numbers has a least element.
LEMMA HasMin ==
    ASSUME NEW S \in SUBSET Nat, S # {}
    PROVE  Min(S) \in S
<1>1. \E x \in S : \A y \in S : ~(<<y, x>> \in OpToRel(<, Nat))
    BY NatLessThanWellFounded, WFMin
<1>2. \A x, y \in S : ~(<<y, x>> \in OpToRel(<, Nat)) => ~(y < x)
  <2> SUFFICES ASSUME NEW x \in S, NEW y \in S, y < x
               PROVE  <<y, x>> \in OpToRel(<, Nat)
      OBVIOUS
  <2>1. <<y, x>> \in Nat \X Nat
      OBVIOUS
  <2> QED
      BY <2>1 DEF OpToRel
<1>3. \E x \in S : \A y \in S : ~(y < x)
    BY <1>1, <1>2
<1>4. \A x, y \in S : ~(y < x) => x <= y
    OBVIOUS
<1>5. \E x \in S : \A y \in S : x <= y
    BY <1>3, <1>4
<1> QED
    BY <1>5 DEF Min

\* A torn record is one of the file's.
LEMMA TornMeans ==
    ASSUME file \in Seq(Records)
    PROVE  Torn \in {0} \cup DOMAIN file
<1> DEFINE I == {i \in 1 .. Len(file) : IsTorn(file[i])}
<1>1. Torn = IF I # {} THEN Min(I) ELSE 0
    BY DEF SelectInSeq, Torn
<1>2. I \subseteq DOMAIN file /\ I \subseteq Nat
    OBVIOUS
<1> QED
    BY <1>1, <1>2, HasMin

\* Lemma.  A file of records holds records of payloads.
LEMMA RecordsOf ==
    ASSUME NEW g \in Seq(Records)
    PROVE  \A i \in DOMAIN g : g[i] \in Records /\ g[i].payload \in Payloads
<1>1. \A i \in DOMAIN g : g[i] \in Records
    OBVIOUS
<1>2. \A r \in Records : r.payload \in Payloads
    BY DEF Records
<1> QED
    BY <1>1, <1>2

\* The payloads of the file's beginning, in their order.
Names(g) == [i \in DOMAIN g |-> g[i].payload]

\* Lemma.  The payloads of a file, in their order.
LEMMA NamesOf ==
    ASSUME NEW g \in Seq(Records)
    PROVE  /\ Names(g) \in Seq(Payloads) /\ Len(Names(g)) = Len(g)
           /\ \A i \in 1 .. Len(g) : Names(g)[i] = g[i].payload
<1>1. \A i \in 1 .. Len(g) : g[i].payload \in Payloads
    BY RecordsOf
<1>2. DOMAIN g = 1 .. Len(g) /\ Len(g) \in Nat
    OBVIOUS
<1>3. Names(g) = [i \in 1 .. Len(g) |-> g[i].payload]
    BY <1>2 DEF Names
<1>4. Names(g) \in [1 .. Len(g) -> Payloads]
    BY <1>1, <1>3
<1>5. Names(g) \in Seq(Payloads)
    BY <1>2, <1>4
<1> QED
    BY <1>2, <1>3, <1>5

\* Lemma.  The file in front of its first torn record.
LEMMA BeforeTorn ==
    ASSUME file \in Seq(Records), Torn \in DOMAIN file
    PROVE  LET g == SubSeq(file, 1, Torn - 1)
           IN  /\ g \in Seq(Records) /\ Len(g) = Torn - 1
               /\ \A i \in 1 .. Len(g) : i \in DOMAIN file /\ g[i] = file[i]
<1> DEFINE n == Torn - 1
           g == SubSeq(file, 1, n)
<1>1. n \in Nat /\ 1 .. n \subseteq DOMAIN file
    OBVIOUS
<1>2. \A i \in 1 .. n : file[i] \in Records
    BY <1>1
<1>3. g \in Seq(Records) /\ Len(g) = IF 1 <= n THEN n - 1 + 1 ELSE 0
    BY <1>1, <1>2, SubSeqProperties
<1>4. \A i \in 1 .. n - 1 + 1 : g[i] = file[1 + i - 1]
    BY <1>1, <1>2, SubSeqProperties
<1> HIDE DEF n, g
<1>5. Len(g) = n /\ \A i \in 1 .. n : g[i] = file[i]
    BY <1>1, <1>3, <1>4
<1>6. g \in Seq(Records) /\ Len(g) = n /\ \A i \in 1 .. Len(g) : i \in DOMAIN file /\ g[i] = file[i]
    BY <1>1, <1>3, <1>5
<1> QED
    BY <1>6 DEF g, n

\* What is read from the file is what is on it, in its order, and perhaps one payload more that
\* the torn record is taken for; all that is retrievable is among it.
LEMMA ParsesMeans ==
    ASSUME file \in Seq(Records), NEW b \in Parses(file)
    PROVE  /\ b \in Seq(Payloads \cup {Garbage, EmptyPayload})
           /\ \A i \in DOMAIN b : b[i] \in Payloads => i \in DOMAIN file /\ b[i] = file[i].payload
           /\ \A p \in Retrievable : \E i \in DOMAIN b : b[i] = p
<1>1. CASE Torn = 0
  <2>1. b = Names(file)
      BY <1>1 DEF Parses, Torn, Names
  <2>2. Retrievable = Stored(file)
      BY <1>1 DEF Retrievable
  <2>3. \A p \in Stored(file) : \E i \in DOMAIN file : p = file[i].payload
      BY DEF Stored, ToSet
  <2> QED
      BY <2>1, <2>2, <2>3, NamesOf
<1>2. CASE Torn \in DOMAIN file
  <2> DEFINE g == SubSeq(file, 1, Torn - 1)
  <2>0. Torn # 0
      BY <1>2
  <2>1. \E x \in {Garbage, EmptyPayload} : b = Append(Names(g), x)
      BY <2>0 DEF Parses, Torn, Names
  <2>2. Retrievable = Stored(g)
      BY <2>0 DEF Retrievable
  <2>3. \A p \in Stored(g) : \E i \in DOMAIN g : p = g[i].payload
      BY DEF Stored, ToSet
  <2>4. /\ g \in Seq(Records)
        /\ \A i \in 1 .. Len(g) : i \in DOMAIN file /\ g[i] = file[i]
      BY <1>2, BeforeTorn
  <2> HIDE DEF g
  <2>5. /\ Names(g) \in Seq(Payloads) /\ Len(Names(g)) = Len(g)
        /\ \A i \in 1 .. Len(g) : Names(g)[i] = g[i].payload
      BY <2>4, NamesOf
  <2> PICK x \in {Garbage, EmptyPayload} : b = Append(Names(g), x)
      BY <2>1
  <2>6. b \in Seq(Payloads \cup {Garbage, EmptyPayload}) /\ DOMAIN b = 1 .. Len(g) + 1
      BY <2>5
  <2>7. (\A i \in 1 .. Len(g) : b[i] = Names(g)[i]) /\ b[Len(g) + 1] = x
      BY <2>5
  <2>8. ASSUME NEW i \in DOMAIN b, b[i] \in Payloads
        PROVE  i \in DOMAIN file /\ b[i] = file[i].payload
    <3>1. i \in 1 .. Len(g)
        BY <2>4, <2>6, <2>7, <2>8, ParsedAssumption
    <3> QED
        BY <2>4, <2>5, <2>7, <3>1
  <2>9. ASSUME NEW p \in Retrievable
        PROVE  \E i \in DOMAIN b : b[i] = p
    <3> PICK i \in DOMAIN g : p = g[i].payload
        BY <2>2, <2>3
    <3>1. i \in 1 .. Len(g) /\ i \in DOMAIN b
        BY <2>4, <2>6
    <3> QED
        BY <2>5, <2>7, <3>1
  <2> QED
      BY <2>6, <2>8, <2>9
<1> QED
    BY <1>1, <1>2, TornMeans

\* Lemma.  What can be retrieved is a payload on file.
LEMMA RetrievableOnFile ==
    ASSUME file \in Seq(Records)
    PROVE  Retrievable \subseteq Stored(file) /\ Stored(file) \subseteq Payloads
<1>1. Stored(file) \subseteq Payloads
    BY RecordsOf DEF Stored, ToSet
<1>2. ASSUME Torn \in DOMAIN file
      PROVE  Stored(SubSeq(file, 1, Torn - 1)) \subseteq Stored(file)
  <2> DEFINE g == SubSeq(file, 1, Torn - 1)
  <2>1. g \in Seq(Records) /\ \A i \in 1 .. Len(g) : i \in DOMAIN file /\ g[i] = file[i]
      BY <1>2, BeforeTorn
  <2> HIDE DEF g
  <2>2. ToSet(g) \subseteq ToSet(file)
      BY <2>1 DEF ToSet
  <2>3. Stored(g) \subseteq Stored(file)
      BY <2>2 DEF Stored
  <2> QED
      BY <2>3 DEF g
<1> QED
    BY <1>1, <1>2, TornMeans DEF Retrievable

\* Appending a record.
LEMMA Appended ==
    ASSUME file \in Seq(Records), NEW p \in Payloads, NEW whole \in BOOLEAN,
           file' = Append(file, Record(p, whole))
    PROVE  /\ file' \in Seq(Records) /\ DOMAIN file' = 1 .. Len(file) + 1
           /\ \A i \in DOMAIN file : i \in DOMAIN file' /\ i # Len(file) + 1 /\ file'[i] = file[i]
           /\ \A i \in DOMAIN file' : i \in DOMAIN file \/ i = Len(file) + 1
           /\ file'[Len(file) + 1].payload = p
           /\ Stored(file) \subseteq Stored(file')
<1>1. Record(p, whole) \in Records /\ Record(p, whole).payload = p
    BY DEF Record, Records
<1>2. /\ file' \in Seq(Records) /\ DOMAIN file' = 1 .. Len(file) + 1
      /\ \A i \in DOMAIN file : i \in DOMAIN file' /\ i # Len(file) + 1 /\ file'[i] = file[i]
      /\ \A i \in DOMAIN file' : i \in DOMAIN file \/ i = Len(file) + 1
      /\ file'[Len(file) + 1] = Record(p, whole)
    BY <1>1
<1>3. ToSet(file) \subseteq ToSet(file')
    BY <1>2 DEF ToSet
<1> QED
    BY <1>1, <1>2, <1>3 DEF Stored

\* What send() does with a payload: it is published, or nothing is, and perhaps it is stored.
LEMMA SendMeans ==
    ASSUME UploadTypeOK, NEW p, NEW persist, Send(p, persist)
    PROVE  \/ /\ Accepts /\ reserved' = reserved + 1 /\ inFlight' = inFlight + 1 /\ UNCHANGED file
              /\ sent' \in [Payloads -> Nat]
              /\ \A q \in Payloads : sent'[q] = IF q = p THEN sent[q] + 1 ELSE sent[q]
              /\ handed' = handed \cup ({p} \cap Payloads)
           \/ /\ UNCHANGED <<reserved, inFlight, sent, handed>>
              /\ \/ UNCHANGED file
                 \/ persist /\ \E whole \in BOOLEAN : file' = Append(file, Record(p, whole))
<1>1. CASE Accepts /\ Publish(p) /\ UNCHANGED file
  <2>1. \A q \in Payloads : sent[q] \in Nat /\ sent[q] + 1 \in Nat
      BY DEF UploadTypeOK
  <2> QED
      BY <1>1, <2>1 DEF Publish
<1>2. CASE Refuse /\ UNCHANGED <<sent, handed>> /\ IF persist THEN Store(p) ELSE UNCHANGED file
    BY <1>2 DEF Refuse, Store
<1> QED
    BY <1>1, <1>2 DEF Send

-----------------------------------------------------------------------------
(* Each step keeps the invariant *)

\* Lemma.  The counts are numbers, also when they start anew.
LEMMA Numbers ==
    /\ UploadTypeOK => \A p \in Payloads : sent[p] \in Nat
    /\ Unsent \in [Payloads -> Nat] /\ \A p \in Payloads : Unsent[p] = 0
    BY DEF UploadTypeOK, Unsent

\* The memory and the types, by what a step does to the memory.
LEMMA MemoryKeeps ==
    ASSUME MemoryAccounted, UploadTypeOK',
           \/ UNCHANGED <<reserved, inFlight>>
           \/ Accepts /\ reserved' = reserved + 1 /\ inFlight' = inFlight + 1
           \/ inFlight > 0 /\ reserved' = reserved - 1 /\ inFlight' = inFlight - 1
           \/ reserved' = 0 /\ inFlight' = 0
    PROVE  MemoryAccounted'
    BY LimitAssumption DEF MemoryAccounted, UploadTypeOK, Accepts

\* A payload that is collected is in one place.
LEMMA CollectKeeps ==
    ASSUME UploadInv, NEW p \in Payloads, Collect(p)
    PROVE  UploadInv'
<1>0. /\ UploadTypeOK /\ OnlyCollected /\ HeldOnce /\ Owed /\ MemoryAccounted
      /\ pc = "collect" /\ UNCHANGED <<pc, batch, uploadedPersistedDataOnce, alive>>
      /\ p \notin collected /\ collected' = collected \cup {p} /\ batch = <<>>
      /\ sent[p] = 0 /\ \A i \in DOMAIN file : file[i].payload # p
    BY DEF UploadInv, MemoryAccounted, Collect, Owed, OnlyCollected
<1>1. /\ file \in Seq(Records) /\ sent \in [Payloads -> Nat] /\ reserved \in Nat /\ inFlight \in Nat
      /\ \A i \in DOMAIN file : file[i] \in Records /\ file[i].payload \in Payloads
      /\ \A q \in Payloads : sent[q] \in Nat
    BY <1>0, Numbers, RecordsOf DEF UploadTypeOK
<1>2. CASE /\ Accepts /\ reserved' = reserved + 1 /\ inFlight' = inFlight + 1 /\ UNCHANGED file
           /\ sent' \in [Payloads -> Nat]
           /\ \A q \in Payloads : sent'[q] = IF q = p THEN sent[q] + 1 ELSE sent[q]
           /\ handed' = handed \cup ({p} \cap Payloads)
  <2>1. UploadTypeOK'
      BY <1>0, <1>1, <1>2 DEF UploadTypeOK
  <2>2. MemoryAccounted'
      BY <1>0, <1>2, <2>1, MemoryKeeps
  <2>3. OnlyCollected' /\ HeldOnce' /\ Handed'
      BY <1>0, <1>1, <1>2 DEF OnlyCollected, HeldOnce, Handed
  <2>4. Owed'
      BY <1>0, <1>1, <1>2 DEF Owed
  <2> QED
      BY <2>2, <2>3, <2>4 DEF UploadInv
<1>3. CASE UNCHANGED <<reserved, inFlight, sent, handed, file>>
  <2>1. UploadTypeOK'
      BY <1>0, <1>1, <1>3 DEF UploadTypeOK
  <2>2. MemoryAccounted'
      BY <1>0, <1>3, <2>1, MemoryKeeps
  <2> QED
      BY <1>0, <1>1, <1>3, <2>2 DEF UploadInv, OnlyCollected, HeldOnce, Owed, Handed
<1>4. CASE /\ UNCHANGED <<reserved, inFlight, sent, handed>>
           /\ \E whole \in BOOLEAN : file' = Append(file, Record(p, whole))
  <2>1. /\ file' \in Seq(Records)
        /\ \A i \in DOMAIN file : i \in DOMAIN file' /\ i # Len(file) + 1 /\ file'[i] = file[i]
        /\ \A i \in DOMAIN file' : i \in DOMAIN file \/ i = Len(file) + 1
        /\ file'[Len(file) + 1].payload = p
      BY <1>1, <1>4, Appended
  <2>2. UploadTypeOK'
      BY <1>0, <1>1, <1>4, <2>1 DEF UploadTypeOK
  <2>3. MemoryAccounted'
      BY <1>0, <1>4, <2>2, MemoryKeeps
  <2>4. OnlyCollected'
      BY <1>0, <1>1, <1>4, <2>1 DEF OnlyCollected
  <2>5. HeldOnce'
      BY <1>0, <1>1, <1>4, <2>1 DEF HeldOnce
  <2>6. Owed'
      BY <1>0, <1>1, <1>4, <2>1 DEF Owed
  <2> QED
      BY <1>0, <2>3, <2>4, <2>5, <2>6 DEF UploadInv, Handed
<1> QED
    BY <1>0, <1>2, <1>3, <1>4, SendMeans DEF Collect

\* What is read from the file was owed, and nothing is read twice.
LEMMA RetrieveKeeps ==
    ASSUME UploadInv, Retrieve
    PROVE  UploadInv'
<1>0. /\ UploadTypeOK /\ OnlyCollected /\ HeldOnce /\ Owed /\ MemoryAccounted
      /\ pc = "collect" /\ pc' = "upload" /\ batch' \in Parses(file) /\ file \in Seq(Records)
      /\ UNCHANGED <<collected, file, uploadedPersistedDataOnce, alive, reserved, inFlight, sent, handed>>
    BY DEF UploadInv, MemoryAccounted, Retrieve, UploadTypeOK
<1>1. /\ batch' \in Seq(Payloads \cup {Garbage, EmptyPayload})
      /\ \A i \in DOMAIN batch' : batch'[i] \in Payloads =>
                                              i \in DOMAIN file /\ batch'[i] = file[i].payload
      /\ \A p \in Retrievable : \E i \in DOMAIN batch' : batch'[i] = p
    BY <1>0, ParsesMeans
<1>2. UploadTypeOK'
    BY <1>0, <1>1 DEF UploadTypeOK
<1>3. MemoryAccounted'
    BY <1>0, <1>2, MemoryKeeps
<1>4. OnlyCollected' /\ HeldOnce'
    BY <1>0, <1>1 DEF OnlyCollected, HeldOnce
<1>5. Owed'
    BY <1>0, <1>1 DEF Owed
<1>6. Handed'
    BY <1>0, <1>1 DEF Handed, Waiting, Retrievable, Torn
<1> QED
    BY <1>3, <1>4, <1>5, <1>6 DEF UploadInv

\* The first of the batch is handed over; the others are not it.
LEMMA TransmitKeeps ==
    ASSUME UploadInv, Transmit
    PROVE  UploadInv'
<1> DEFINE h == Head(batch)
<1>0. /\ UploadTypeOK /\ OnlyCollected /\ HeldOnce /\ Owed /\ MemoryAccounted /\ Handed
      /\ pc = "upload" /\ batch # <<>> /\ batch' = Tail(batch) /\ Accepts /\ Send(h, FALSE)
      /\ UNCHANGED <<pc, collected, uploadedPersistedDataOnce, alive>>
    BY DEF UploadInv, MemoryAccounted, Transmit
<1>1. /\ batch \in Seq(Payloads \cup {Garbage, EmptyPayload}) /\ reserved \in Nat /\ inFlight \in Nat
      /\ file \in Seq(Records) /\ \A i \in DOMAIN file : file[i].payload \in Payloads
      /\ \A q \in Payloads : sent[q] \in Nat
    BY <1>0, Numbers, RecordsOf DEF UploadTypeOK
<1>2. /\ batch' \in Seq(Payloads \cup {Garbage, EmptyPayload}) /\ 1 \in DOMAIN batch /\ h = batch[1]
      /\ \A i \in DOMAIN batch' : i + 1 \in DOMAIN batch /\ batch'[i] = batch[i + 1] /\ i + 1 # 1
      /\ \A i \in DOMAIN batch : i = 1 \/ (i - 1 \in DOMAIN batch' /\ batch'[i - 1] = batch[i])
  <2>1. /\ batch' \in Seq(Payloads \cup {Garbage, EmptyPayload}) /\ Len(batch') = Len(batch) - 1
        /\ \A i \in 1 .. Len(batch') : batch'[i] = batch[i + 1]
      BY <1>0, <1>1, HeadTailProperties
  <2>2. Len(batch) \in Nat \ {0} /\ DOMAIN batch = 1 .. Len(batch) /\ DOMAIN batch' = 1 .. Len(batch')
      BY <1>0, <1>1, <2>1, EmptySeq
  <2>3. h = batch[1]
      BY <1>0, <1>1
  <2> HIDE DEF h
  <2>4. \A i \in 1 .. Len(batch) : i = 1 \/ i - 1 \in 1 .. Len(batch')
      BY <2>1, <2>2
  <2>5. \A i \in 1 .. Len(batch) : i = 1 \/ batch'[i - 1] = batch[i]
    <3> SUFFICES ASSUME NEW i \in 1 .. Len(batch), i # 1
                 PROVE  batch'[i - 1] = batch[i]
        OBVIOUS
    <3>1. batch'[i - 1] = batch[(i - 1) + 1] /\ (i - 1) + 1 = i
        BY <2>1, <2>2, <2>4
    <3> QED
        BY <3>1
  <2>6. \A i \in 1 .. Len(batch') : i + 1 \in 1 .. Len(batch) /\ i + 1 # 1
      BY <2>1, <2>2
  <2>7. 1 \in DOMAIN batch
      BY <2>2
  <2>8. \A i \in DOMAIN batch' : i + 1 \in DOMAIN batch /\ batch'[i] = batch[i + 1] /\ i + 1 # 1
      BY <2>1, <2>2, <2>6
  <2>9. \A i \in DOMAIN batch : i = 1 \/ (i - 1 \in DOMAIN batch' /\ batch'[i - 1] = batch[i])
      BY <2>2, <2>4, <2>5
  <2> QED
      BY <2>1, <2>3, <2>7, <2>8, <2>9
<1>3. /\ reserved' = reserved + 1 /\ inFlight' = inFlight + 1 /\ UNCHANGED file
      /\ sent' \in [Payloads -> Nat]
      /\ \A q \in Payloads : sent'[q] = IF q = h THEN sent[q] + 1 ELSE sent[q]
      /\ handed' = handed \cup ({h} \cap Payloads)
  <2>1. Publish(h) /\ UNCHANGED file
      BY <1>0 DEF Send
  <2> QED
      BY <1>1, <2>1 DEF Publish
<1> HIDE DEF h
<1>4. UploadTypeOK'
    BY <1>0, <1>1, <1>2, <1>3 DEF UploadTypeOK
<1>5. MemoryAccounted'
    BY <1>0, <1>3, <1>4, MemoryKeeps
<1>6. OnlyCollected'
  <2>1. h \in Payloads => h \in collected
      BY <1>0, <1>2 DEF OnlyCollected
  <2> QED
      BY <1>0, <1>2, <1>3, <2>1 DEF OnlyCollected
<1>7. HeldOnce'
    BY <1>0, <1>2, <1>3 DEF HeldOnce
<1>8. Owed'
  <2>1. h \in Payloads => sent[h] = 0
      BY <1>0, <1>2 DEF Owed
  <2>2. \A i \in DOMAIN batch' : batch'[i] \in Payloads => batch'[i] # h
      BY <1>0, <1>2 DEF HeldOnce
  <2> QED
      BY <1>0, <1>1, <1>2, <1>3, <2>1, <2>2 DEF Owed
<1>9. Handed'
  <2> SUFFICES ASSUME NEW p \in Retrievable
               PROVE  p \in handed' \/ \E i \in DOMAIN batch' : batch'[i] = p
      BY <1>0, <1>3 DEF Handed, Waiting, Retrievable, Torn
  <2>1. p \in Payloads
      BY <1>1, RetrievableOnFile
  <2>2. p \in handed \/ \E i \in DOMAIN batch : batch[i] = p
      BY <1>0 DEF Handed, Waiting
  <2>3. CASE p \in handed \/ p = h
      BY <1>1, <1>3, <2>1, <2>3
  <2>4. CASE p # h /\ \E i \in DOMAIN batch : batch[i] = p
    <3> PICK i \in DOMAIN batch : batch[i] = p
        BY <2>4
    <3>1. i - 1 \in DOMAIN batch' /\ batch'[i - 1] = p
        BY <1>2, <2>4
    <3> QED
        BY <3>1
  <2> QED
      BY <2>2, <2>3, <2>4
<1> QED
    BY <1>5, <1>6, <1>7, <1>8, <1>9 DEF UploadInv

\* The loop breaks: this failure is a cause, and what is on file stays owed.
LEMMA TransmitFailsKeeps ==
    ASSUME UploadInv, TransmitFails
    PROVE  UploadInv'
<1>0. /\ UploadTypeOK /\ OnlyCollected /\ HeldOnce /\ Owed /\ MemoryAccounted
      /\ pc' = "collect" /\ batch' = <<>> /\ sent' = Unsent
      /\ UNCHANGED <<collected, file, uploadedPersistedDataOnce, alive, reserved, inFlight, handed>>
    BY DEF UploadInv, MemoryAccounted, TransmitFails, Refuse
<1>1. /\ sent' \in [Payloads -> Nat] /\ \A p \in Payloads : sent'[p] = 0
      /\ \A i \in DOMAIN file : file[i].payload \in Payloads
    BY <1>0, Numbers, RecordsOf DEF UploadTypeOK
<1>2. UploadTypeOK'
    BY <1>0, <1>1 DEF UploadTypeOK
<1>3. MemoryAccounted'
    BY <1>0, <1>2, MemoryKeeps
<1>4. OnlyCollected' /\ HeldOnce' /\ Handed'
    BY <1>0, <1>1 DEF OnlyCollected, HeldOnce, Handed
<1>5. Owed'
    BY <1>0, <1>1 DEF Owed
<1> QED
    BY <1>3, <1>4, <1>5 DEF UploadInv

\* The file is empty, or what stays on it stays owed.
LEMMA EraseKeeps ==
    ASSUME UploadInv, Erase
    PROVE  UploadInv'
<1>0. /\ UploadTypeOK /\ OnlyCollected /\ HeldOnce /\ Owed /\ MemoryAccounted
      /\ pc' = "collect" /\ batch = <<>> /\ uploadedPersistedDataOnce' = TRUE
      /\ \/ file' = <<>> /\ UNCHANGED sent
         \/ UNCHANGED file /\ sent' = Unsent
      /\ UNCHANGED <<collected, batch, alive, reserved, inFlight, handed>>
    BY DEF UploadInv, MemoryAccounted, Erase
<1>1. /\ sent' \in [Payloads -> Nat] /\ \A p \in Payloads : sent'[p] = sent[p] \/ sent'[p] = 0
      /\ file' = <<>> \/ \A p \in Payloads : sent'[p] = 0
      /\ \A i \in DOMAIN file : file[i].payload \in Payloads
    BY <1>0, Numbers, RecordsOf DEF UploadTypeOK
<1>2. UploadTypeOK'
  <2>1. file' \in Seq(Records)
    <3>1. file \in Seq(Records) /\ <<>> \in Seq(Records)
        BY <1>0 DEF UploadTypeOK
    <3> QED
        BY <1>0, <3>1
  <2> QED
      BY <1>0, <1>1, <2>1 DEF UploadTypeOK
<1>3. MemoryAccounted'
    BY <1>0, <1>2, MemoryKeeps
<1>4. OnlyCollected' /\ HeldOnce' /\ Handed'
    BY <1>0, <1>1 DEF OnlyCollected, HeldOnce, Handed
<1>5. Owed'
    BY <1>0, <1>1 DEF Owed
<1> QED
    BY <1>3, <1>4, <1>5 DEF UploadInv

\* A crash is a cause; a record it tears was not handed over.
LEMMA CrashKeeps ==
    ASSUME UploadInv, Crash
    PROVE  UploadInv'
<1>0. /\ UploadTypeOK /\ OnlyCollected /\ HeldOnce /\ Owed /\ MemoryAccounted
      /\ pc' = "collect" /\ batch' = <<>> /\ uploadedPersistedDataOnce' = FALSE /\ alive' = FALSE
      /\ reserved' = 0 /\ inFlight' = 0 /\ sent' = Unsent /\ UNCHANGED handed
    BY DEF UploadInv, MemoryAccounted, Crash
<1>1. /\ sent' \in [Payloads -> Nat] /\ \A p \in Payloads : sent'[p] = 0
      /\ file \in Seq(Records) /\ \A i \in DOMAIN file : file[i].payload \in Payloads
      /\ batch' \in Seq(Payloads \cup {Garbage, EmptyPayload})
    BY <1>0, Numbers, RecordsOf DEF UploadTypeOK
<1>2. CASE UNCHANGED <<file, collected>>
  <2>1. UploadTypeOK'
      BY <1>0, <1>1, <1>2 DEF UploadTypeOK
  <2>2. MemoryAccounted'
      BY <1>0, <2>1, MemoryKeeps
  <2>3. OnlyCollected' /\ HeldOnce' /\ Handed'
      BY <1>0, <1>1, <1>2 DEF OnlyCollected, HeldOnce, Handed
  <2>4. Owed'
      BY <1>0, <1>1, <1>2 DEF Owed
  <2> QED
      BY <2>2, <2>3, <2>4 DEF UploadInv
<1>3. ASSUME NEW p \in Persisted \ collected, file' = Append(file, Record(p, FALSE)),
             collected' = collected \cup {p}
      PROVE  UploadInv'
  <2>0. p \in Payloads /\ \A i \in DOMAIN file : file[i].payload # p
      BY <1>0, <1>3, PersistedAssumption DEF OnlyCollected
  <2>1. /\ file' \in Seq(Records)
        /\ \A i \in DOMAIN file : i \in DOMAIN file' /\ i # Len(file) + 1 /\ file'[i] = file[i]
        /\ \A i \in DOMAIN file' : i \in DOMAIN file \/ i = Len(file) + 1
        /\ file'[Len(file) + 1].payload = p
    <3>1. \E whole \in BOOLEAN : file' = Append(file, Record(p, whole))
        BY <1>3
    <3> QED
        BY <1>1, <2>0, <3>1, Appended
  <2>2. UploadTypeOK'
    <3>1. collected' \subseteq Payloads
        BY <1>0, <1>3, <2>0 DEF UploadTypeOK
    <3> QED
        BY <1>0, <1>1, <2>1, <3>1 DEF UploadTypeOK
  <2>3. MemoryAccounted'
      BY <1>0, <2>2, MemoryKeeps
  <2>4. OnlyCollected'
    <3>1. ASSUME NEW i \in DOMAIN file'
          PROVE  file'[i].payload \in collected'
        BY <1>0, <1>3, <2>1, <3>1 DEF OnlyCollected
    <3>2. \A q \in Payloads \ collected' : sent'[q] = 0
        BY <1>1
    <3> QED
        BY <1>0, <3>1, <3>2 DEF OnlyCollected
  <2>5. HeldOnce'
      BY <1>0, <2>0, <2>1 DEF HeldOnce
  <2>6. Owed'
    <3>1. \A i \in DOMAIN file' : file'[i].payload \in Payloads
        BY <1>1, <2>0, <2>1
    <3> QED
        BY <1>0, <1>1, <3>1 DEF Owed
  <2> QED
      BY <1>0, <2>3, <2>4, <2>5, <2>6 DEF UploadInv, Handed
<1> QED
    BY <1>2, <1>3 DEF Crash

\* The steps that touch neither the file nor what is handed over.
LEMMA OthersKeep ==
    ASSUME UploadInv, RetrieveNothing \/ RetrieveFails \/ PublishComplete
                  \/ ConnectionUp \/ ConnectionLost \/ UNCHANGED uploadVars
    PROVE  UploadInv'
<1>0. /\ UploadTypeOK /\ OnlyCollected /\ HeldOnce /\ Owed /\ MemoryAccounted /\ Handed
      /\ UNCHANGED <<pc, collected, file, batch, sent, handed>>
    BY DEF UploadInv, MemoryAccounted, RetrieveNothing, RetrieveFails, PublishComplete,
        ConnectionUp, ConnectionLost, uploadVars
<1>2. MemoryAccounted'
  <2>1. UploadTypeOK'
    <3>1. CASE PublishComplete
      <4>1. reserved' \in Nat /\ inFlight' \in Nat
          BY <1>0, <3>1 DEF PublishComplete, MemoryAccounted, UploadTypeOK
      <4> QED
          BY <1>0, <3>1, <4>1 DEF PublishComplete, UploadTypeOK
    <3>2. CASE ~PublishComplete
      <4>1. /\ uploadedPersistedDataOnce' \in {uploadedPersistedDataOnce, TRUE}
           /\ alive' \in {alive, TRUE, FALSE}
           /\ UNCHANGED <<reserved, inFlight>>
          BY <3>2 DEF RetrieveNothing, RetrieveFails, ConnectionUp, ConnectionLost, uploadVars
      <4>2. uploadedPersistedDataOnce' \in BOOLEAN /\ alive' \in BOOLEAN
          BY <1>0, <4>1, Zenon DEF UploadTypeOK
      <4> QED
          BY <1>0, <4>1, <4>2 DEF UploadTypeOK
    <3> QED
        BY <3>1, <3>2
  <2> QED
      BY <1>0, <2>1, MemoryKeeps DEF RetrieveNothing, RetrieveFails, PublishComplete,
          ConnectionUp, ConnectionLost, uploadVars
<1>3. OnlyCollected' /\ HeldOnce' /\ Handed'
    BY <1>0 DEF OnlyCollected, HeldOnce, Handed, Waiting, Retrievable, Torn
<1>4. Owed'
    BY <1>0 DEF Owed
<1> QED
    BY <1>2, <1>3, <1>4 DEF UploadInv

-----------------------------------------------------------------------------
(* The theorems *)

\* Lemma.  The process starts with an empty file and nothing collected.
LEMMA UploadInvInit == UploadInit => UploadInv
<1> SUFFICES ASSUME UploadInit
             PROVE  UploadInv
    OBVIOUS
<1>1. file \in Seq(Records) /\ batch \in Seq(Payloads \cup {Garbage, EmptyPayload})
    BY DEF UploadInit
<1>2. UploadTypeOK
    BY <1>1, Numbers DEF UploadInit, UploadTypeOK
<1>3. MemoryAccounted
    BY <1>2, LimitAssumption DEF UploadInit, MemoryAccounted
<1>4. OnlyCollected /\ HeldOnce /\ Owed /\ Handed
    BY Numbers DEF UploadInit, OnlyCollected, HeldOnce, Owed, Handed
<1> QED
    BY <1>3, <1>4 DEF UploadInv

\* Lemma.  Every step of the upload keeps the invariant.
LEMMA UploadInvStep == UploadInv /\ [UploadNext]_uploadVars => UploadInv'
    BY CollectKeeps, RetrieveKeeps, TransmitKeeps, TransmitFailsKeeps, EraseKeeps, CrashKeeps, OthersKeep
       DEF UploadNext, Engine

\* The upload keeps its inductive invariant: what is collected, on file, in the batch and handed
\* over since the last failure or crash.
THEOREM UploadInvariance == UploadSpec => []UploadInv
    BY UploadInvInit, UploadInvStep, PTL DEF UploadSpec

\* The memory reserved is that of the publishes under way and within the limit, the file never
\* holds a payload twice, and none is handed over again before a round or an erase failed or the
\* process crashed, for any number of payloads, losses of the connection, crashes and failures.
THEOREM UploadsAreAccounted == UploadSpec => []UploadsAccounted
<1>1. UploadInv => UploadsAccounted
    BY DEF UploadInv, UploadsAccounted, RepeatsNeedFailure, HeldOnce, Owed
<1> QED
    BY <1>1, UploadInvariance, PTL

\* What a retry can read leaves the file only when it was handed over: the file is erased at the
\* end of an upload whose batch was transmitted to its last payload.
THEOREM ClearedWhenUploaded == UploadSpec => ClearedAfterUpload
<1>1. UploadInv /\ [UploadNext]_uploadVars =>
             [\A p \in Retrievable : p \in Stored(file') \/ p \in handed]_uploadVars
  <2> SUFFICES ASSUME UploadInv, UploadNext, NEW p \in Retrievable
               PROVE  p \in Stored(file') \/ p \in handed
      OBVIOUS
  <2>0. /\ UploadTypeOK /\ file \in Seq(Records) /\ p \in Stored(file)
      BY RetrievableOnFile DEF UploadInv, MemoryAccounted, UploadTypeOK
  <2>1. CASE Erase
    <3>1. p \in handed \/ \E i \in DOMAIN batch : batch[i] = p
        BY <2>1 DEF UploadInv, Handed, Waiting, Erase
    <3> QED
        BY <2>1, <3>1 DEF Erase
  <2>2. ASSUME NEW q \in Payloads, NEW whole \in BOOLEAN, file' = Append(file, Record(q, whole))
        PROVE  p \in Stored(file')
      BY <2>0, <2>2, Appended
  <2>3. CASE UNCHANGED file
      BY <2>0, <2>3
  <2>4. CASE \E q \in Payloads : Collect(q)
    <3> PICK q \in Payloads : Collect(q)
        BY <2>4
    <3>1. UNCHANGED file \/ \E whole \in BOOLEAN : file' = Append(file, Record(q, whole))
        BY <2>0, SendMeans DEF Collect
    <3> QED
        BY <2>2, <2>3, <3>1
  <2>5. CASE Crash
    <3>1. UNCHANGED file \/ \E q \in Payloads : file' = Append(file, Record(q, FALSE))
        BY <2>5, PersistedAssumption DEF Crash
    <3> QED
        BY <2>2, <2>3, <3>1
  <2>6. CASE Transmit \/ TransmitFails
    <3>1. UNCHANGED file
        BY <2>6 DEF Transmit, TransmitFails, Send, Refuse
    <3> QED
        BY <2>3, <3>1
  <2>7. CASE Retrieve \/ RetrieveNothing \/ RetrieveFails \/ PublishComplete
                \/ ConnectionUp \/ ConnectionLost
      BY <2>3, <2>7 DEF Retrieve, RetrieveNothing, RetrieveFails, PublishComplete,
          ConnectionUp, ConnectionLost, uploadVars
  <2> QED
      BY <2>1, <2>4, <2>5, <2>6, <2>7 DEF UploadNext, Engine
<1> QED
    BY <1>1, UploadInvariance, PTL DEF UploadSpec, ClearedAfterUpload

=============================================================================
