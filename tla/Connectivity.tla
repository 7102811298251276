---------------------------- MODULE Connectivity ----------------------------
(***************************************************************************)
(* The connection to the cloud: the AwsIotConnectivityModule, the          *)
(* RetryThread it connects on, the subscriptions of its receiving          *)
(* AwsIotChannels, and its destruction by another thread. The MQTT SDK is  *)
(* external: it answers each call on its one event-loop thread, where the  *)
(* callbacks of setupCallbacks run.                                        *)
(*                                                                         *)
(* A promise is a record: what was set (None before), how often it was set *)
(* and how often its future was fetched; the standard library throws at    *)
(* the second time of either.                                              *)
(***************************************************************************)
EXTENDS Integers, FiniteSets

CONSTANTS
    ChannelCount,   \* channels with subscribeAsynchronously, in the order of mChannels
    AckOutcomes,    \* how the SDK may end a subscription
    MaxRefusals,    \* bound: attempts to connect that fail
    MaxInterrupts   \* bound: losses of the established connection

ASSUME CountAssumption ==
    /\ ChannelCount \in Nat /\ MaxRefusals \in Nat /\ MaxInterrupts \in Nat
    /\ AckOutcomes \subseteq {"granted", "rejected", "error"}

VARIABLES
    sdk,                    \* the state of mConnection inside the SDK
    callback,               \* "onDisconnect" between setting the promise and the flags
    mConnected, mConnectionEstablished,
    mConnectionCompletedPromise, mConnectionClosedPromise,
    retry,                  \* where the retry thread is
    channel,                \* the channel onFinished subscribes next
    ack,                    \* the answer to that subscription
    mSubscribed,
    invalidated,            \* channels whose mConnectivityModule is null
    fShouldStop, fWait,     \* the retry thread's flag and its pending signal
    main,                   \* where the thread is that destroys the module
    refusals, interrupts    \* bounds

connectionVars == <<sdk, callback, mConnected, mConnectionEstablished,
                    mConnectionCompletedPromise, mConnectionClosedPromise>>
channelVars == <<channel, ack, mSubscribed, invalidated>>
bounds == <<refusals, interrupts>>
vars == <<connectionVars, channelVars, retry, fShouldStop, fWait, main, bounds>>

Channels == 1 .. ChannelCount
None == "none"
Renewed == [value |-> None, sets |-> 0, gets |-> 0]
SetTo(promise, v) == [value |-> v, sets |-> promise.sets + 1, gets |-> promise.gets]
Fetched(promise) == [promise EXCEPT !.gets = @ + 1]

\* connect() with asynchronous = TRUE: the connection exists, the retry thread starts.
Init ==
    /\ sdk = "idle" /\ callback = None
    /\ mConnected = FALSE /\ mConnectionEstablished = FALSE
    /\ mConnectionCompletedPromise = Renewed /\ mConnectionClosedPromise = Renewed
    /\ retry = "attempt" /\ channel = 1 /\ ack = None
    /\ mSubscribed = [c \in Channels |-> FALSE] /\ invalidated = {}
    /\ fShouldStop = FALSE /\ fWait = FALSE
    /\ main = "run"
    /\ refusals = 0 /\ interrupts = 0

-----------------------------------------------------------------------------
(* resetConnection, called by the retry thread and by the destructor.      *)

\* The first part, up to the wait; waits says whether the caller has to wait. The SDK
\* refuses to disconnect what is not connected, or it calls back all the same.
ResetConnectionKeeps(waits) ==
    /\ UNCHANGED mConnectionCompletedPromise
    /\ \/ /\ mConnectionEstablished /\ sdk \in {"up", "interrupted", "failed"}
          /\ sdk' = "closing" /\ waits
          /\ mConnectionClosedPromise' = Fetched(mConnectionClosedPromise)
       \/ /\ ~mConnectionEstablished \/ sdk \in {"idle", "failed"}
          /\ sdk' = IF sdk = "failed" THEN "idle" ELSE sdk
          /\ ~waits
          /\ UNCHANGED mConnectionClosedPromise
ResetConnectionWaits(waits) ==
    /\ mConnectionCompletedPromise' = Renewed
    /\ \/ /\ mConnectionEstablished /\ waits
          /\ sdk' = IF sdk \in {"up", "interrupted"} THEN "closing" ELSE "idle"
          /\ mConnectionClosedPromise' = Fetched(mConnectionClosedPromise)
       \/ /\ ~mConnectionEstablished /\ ~waits
          /\ UNCHANGED <<sdk, mConnectionClosedPromise>>
ResetConnection(waits) ==
    /\ mConnectionCompletedPromise' = Renewed
    /\ \/ /\ mConnectionEstablished /\ sdk \in {"up", "interrupted", "failed"}
          /\ sdk' = "closing" /\ waits
          /\ mConnectionClosedPromise' = Fetched(mConnectionClosedPromise)
       \/ /\ ~mConnectionEstablished \/ sdk \in {"idle", "failed"}
          /\ sdk' = IF sdk = "failed" THEN "idle" ELSE sdk
          /\ ~waits
          /\ UNCHANGED mConnectionClosedPromise

\* The second part, once onDisconnect has set the promise.
ConnectionClosed ==
    /\ mConnectionClosedPromise.value # None
    /\ mConnectionClosedPromise' = Renewed
    /\ mConnectionEstablished' = FALSE

-----------------------------------------------------------------------------
(* The retry thread *)

\* Connect() fails at once.
ConnectFails ==
    /\ retry = "attempt" /\ ~fShouldStop
    /\ refusals < MaxRefusals
    /\ refusals' = refusals + 1
    /\ retry' = "backoff"
    /\ UNCHANGED <<connectionVars, channelVars, fShouldStop, fWait, main, interrupts>>

Connect ==
    /\ retry = "attempt" /\ ~fShouldStop
    /\ sdk = "idle"
    /\ sdk' = "connecting"
    /\ mConnectionEstablished' = TRUE
    /\ mConnectionCompletedPromise' = Fetched(mConnectionCompletedPromise)
    /\ retry' = "connecting"
    /\ UNCHANGED <<callback, mConnected, mConnectionClosedPromise, channelVars, fShouldStop,
                   fWait, main, bounds>>

\* The future is ready. Between its value and the next step the connection may change.
Completed ==
    /\ retry = "connecting"
    /\ mConnectionCompletedPromise.value # None
    /\ retry' = IF mConnectionCompletedPromise.value = "accepted" THEN "accepted" ELSE "reset"
    /\ UNCHANGED <<connectionVars, channelVars, fShouldStop, fWait, main, bounds>>

Accepted ==
    /\ retry = "accepted"
    /\ mConnected' = TRUE
    /\ retry' = "subscribe" /\ channel' = 1
    /\ UNCHANGED <<sdk, callback, mConnectionEstablished, mConnectionCompletedPromise,
                   mConnectionClosedPromise, ack, mSubscribed, invalidated, fShouldStop,
                   fWait, main, bounds>>

ResetAfterFailure ==
    /\ retry = "reset"
    /\ \/ ResetConnection(TRUE) /\ retry' = "closing"
       \/ ResetConnection(FALSE) /\ retry' = "backoff"
    /\ UNCHANGED <<callback, mConnected, mConnectionEstablished, channelVars, fShouldStop,
                   fWait, main, bounds>>

ClosedAfterFailure ==
    /\ retry = "closing"
    /\ ConnectionClosed
    /\ retry' = "backoff"
    /\ UNCHANGED <<sdk, callback, mConnected, mConnectionCompletedPromise, channelVars,
                   fShouldStop, fWait, main, bounds>>

\* fWait.wait ends by the signal of stop(), or after a second at least, by which time the
\* event loop has left its callback.
Backoff ==
    /\ retry = "backoff"
    /\ fWait \/ callback = None
    /\ fWait' = FALSE
    /\ retry' = "attempt"
    /\ UNCHANGED <<connectionVars, channelVars, fShouldStop, main, bounds>>

\* onFinished(ABORT) does nothing.
Abort ==
    /\ retry = "attempt" /\ fShouldStop
    /\ retry' = "ended"
    /\ UNCHANGED <<connectionVars, channelVars, fShouldStop, fWait, main, bounds>>

\* onFinished(SUCCESS): subscribe() holds the channel's mutex until it is answered.
Subscribe ==
    /\ retry = "subscribe" /\ channel \in Channels
    /\ channel \notin invalidated /\ mConnected
    /\ retry' = "subscribing" /\ ack' = None
    /\ UNCHANGED <<connectionVars, channel, mSubscribed, invalidated, fShouldStop, fWait,
                   main, bounds>>

\* NoConnection. The loop does not look at what subscribe() returns.
SubscribeRefused ==
    /\ retry = "subscribe" /\ channel \in Channels
    /\ channel \in invalidated \/ ~mConnected
    /\ channel' = channel + 1
    /\ UNCHANGED <<connectionVars, ack, mSubscribed, invalidated, retry, fShouldStop, fWait,
                   main, bounds>>

\* onSubAck sets the promise unless there was an error.
SubscribeEnds ==
    /\ retry = "subscribing"
    /\ ack \in {"granted", "rejected"}
    /\ retry' = "subscribe" /\ channel' = channel + 1
    /\ UNCHANGED <<connectionVars, ack, mSubscribed, invalidated, fShouldStop, fWait, main,
                   bounds>>

SubscribedAll ==
    /\ retry = "subscribe" /\ channel > ChannelCount
    /\ retry' = "ended"
    /\ UNCHANGED <<connectionVars, channelVars, fShouldStop, fWait, main, bounds>>

RetryStep ==
    \/ ConnectFails \/ Connect \/ Completed \/ Accepted \/ ResetAfterFailure
    \/ ClosedAfterFailure \/ Backoff \/ Abort \/ Subscribe \/ SubscribeRefused
    \/ SubscribeEnds \/ SubscribedAll

-----------------------------------------------------------------------------
(* The event loop: one callback after the other *)

OnConnectionCompleted ==
    /\ sdk = "connecting" /\ callback = None
    /\ \/ /\ sdk' = "up"
          /\ mConnectionCompletedPromise' = SetTo(mConnectionCompletedPromise, "accepted")
          /\ UNCHANGED refusals
       \/ /\ refusals < MaxRefusals
          /\ refusals' = refusals + 1
          /\ sdk' = "failed"
          /\ mConnectionCompletedPromise' = SetTo(mConnectionCompletedPromise, "failed")
    /\ UNCHANGED <<callback, mConnected, mConnectionEstablished, mConnectionClosedPromise,
                   channelVars, retry, fShouldStop, fWait, main, interrupts>>

OnInterrupted ==
    /\ sdk = "up" /\ callback = None
    /\ interrupts < MaxInterrupts
    /\ interrupts' = interrupts + 1
    /\ sdk' = "interrupted"
    /\ mConnected' = FALSE
    /\ UNCHANGED <<callback, mConnectionEstablished, mConnectionCompletedPromise,
                   mConnectionClosedPromise, channelVars, retry, fShouldStop, fWait, main,
                   refusals>>

OnResumed ==
    /\ sdk = "interrupted" /\ callback = None
    /\ sdk' = "up"
    /\ mConnected' = TRUE
    /\ UNCHANGED <<callback, mConnectionEstablished, mConnectionCompletedPromise,
                   mConnectionClosedPromise, channelVars, retry, fShouldStop, fWait, main,
                   bounds>>

\* The callback up to the promise, which lets the waiting thread go on ...
OnDisconnect ==
    /\ sdk = "closing" /\ callback = None
    /\ sdk' = "idle"
    /\ callback' = "onDisconnect"
    /\ mConnectionClosedPromise' = SetTo(mConnectionClosedPromise, "closed")
    /\ UNCHANGED <<mConnected, mConnectionEstablished, mConnectionCompletedPromise,
                   channelVars, retry, fShouldStop, fWait, main, bounds>>
\* ... and the rest of it.
OnDisconnectReturns ==
    /\ callback = "onDisconnect"
    /\ callback' = None
    /\ mConnected' = FALSE /\ mConnectionEstablished' = FALSE
    /\ UNCHANGED <<sdk, mConnectionCompletedPromise, mConnectionClosedPromise, channelVars,
                   retry, fShouldStop, fWait, main, bounds>>

OnSubAck ==
    /\ retry = "subscribing" /\ ack = None
    /\ sdk = "up" /\ callback = None
    /\ ack' \in AckOutcomes
    /\ mSubscribed' = [mSubscribed EXCEPT ![channel] = ack' = "granted"]
    /\ UNCHANGED <<connectionVars, channel, invalidated, retry, fShouldStop, fWait, main,
                   bounds>>

EventLoopAnswer ==
    OnConnectionCompleted \/ OnDisconnect \/ OnDisconnectReturns \/ OnSubAck

-----------------------------------------------------------------------------
(* The destructor, on the main thread *)

Destroy ==
    /\ main = "run"
    /\ main' = "invalidate"
    /\ UNCHANGED <<connectionVars, channelVars, retry, fShouldStop, fWait, bounds>>

\* invalidateConnection, channel after channel: it takes the mutex of the channel.
InvalidateWithoutLock ==
    /\ main = "invalidate"
    /\ invalidated # Channels
    /\ invalidated' = invalidated \cup {Cardinality(invalidated) + 1}
    /\ UNCHANGED <<connectionVars, channel, ack, mSubscribed, retry, fShouldStop, fWait,
                   main, bounds>>
InvalidateConnection ==
    /\ main = "invalidate"
    /\ invalidated # Channels
    /\ LET c == Cardinality(invalidated) + 1
       IN  /\ ~(retry = "subscribing" /\ channel = c)
           /\ invalidated' = invalidated \cup {c}
    /\ UNCHANGED <<connectionVars, channel, ack, mSubscribed, retry, fShouldStop, fWait,
                   main, bounds>>

\* RetryThread::stop up to the release of the thread, which waits for its end.
Stop ==
    /\ main = "invalidate" /\ invalidated = Channels
    /\ fShouldStop' = TRUE /\ fWait' = TRUE
    /\ main' = "release"
    /\ UNCHANGED <<connectionVars, channelVars, retry, bounds>>

Released ==
    /\ main = "release" /\ retry = "ended"
    /\ fShouldStop' = FALSE
    /\ main' = "reset"
    /\ UNCHANGED <<connectionVars, channelVars, retry, fWait, bounds>>

Disconnect ==
    /\ main = "reset"
    /\ \/ ResetConnection(TRUE) /\ main' = "closing"
       \/ ResetConnection(FALSE) /\ main' = "done"
    /\ UNCHANGED <<callback, mConnected, mConnectionEstablished, channelVars, retry,
                   fShouldStop, fWait, bounds>>

Disconnected ==
    /\ main = "closing"
    /\ ConnectionClosed
    /\ main' = "done"
    /\ UNCHANGED <<sdk, callback, mConnected, mConnectionCompletedPromise, channelVars, retry,
                   fShouldStop, fWait, bounds>>

MainStep == InvalidateConnection \/ Stop \/ Released \/ Disconnect \/ Disconnected

Next == RetryStep \/ EventLoopAnswer \/ OnInterrupted \/ OnResumed \/ Destroy \/ MainStep

\* The threads run, and the SDK answers each call and reconnects by itself after a loss.
\* Nothing says that a connection is lost or the module destroyed.
Fairness ==
    WF_vars(RetryStep) /\ WF_vars(EventLoopAnswer) /\ WF_vars(OnResumed) /\ WF_vars(MainStep)
Spec == Init /\ [][Next]_vars
FairSpec == Spec /\ Fairness

-----------------------------------------------------------------------------
(* Properties *)

Promises(values) == [value : values \cup {None}, sets : Nat, gets : Nat]

TypeOK ==
    /\ sdk \in {"idle", "connecting", "up", "failed", "interrupted", "closing"}
    /\ callback \in {None, "onDisconnect"}
    /\ mConnected \in BOOLEAN /\ mConnectionEstablished \in BOOLEAN
    /\ mConnectionCompletedPromise \in Promises({"accepted", "failed"})
    /\ mConnectionClosedPromise \in Promises({"closed"})
    /\ retry \in {"attempt", "connecting", "accepted", "reset", "closing", "backoff",
                  "subscribe", "subscribing", "ended"}
    /\ channel \in 1 .. ChannelCount + 1
    /\ ack \in AckOutcomes \cup {None}
    /\ mSubscribed \in [Channels -> BOOLEAN]
    /\ invalidated \subseteq Channels
    /\ fShouldStop \in BOOLEAN /\ fWait \in BOOLEAN
    /\ main \in {"run", "invalidate", "release", "reset", "closing", "done"}
    /\ refusals \in 0 .. MaxRefusals /\ interrupts \in 0 .. MaxInterrupts

\* The retries, the callbacks and the destructor share two promises and renew them: none
\* of them is ever set or asked for its future a second time, which would throw.
PromisesUsedOnce ==
    \A promise \in {mConnectionCompletedPromise, mConnectionClosedPromise} :
        promise.sets <= 1 /\ promise.gets <= 1

\* When the destructor is through there is no connection left in the SDK that would call
\* back into the module, however far the retry thread had come; and it works on the
\* connection only when that thread has ended. Everything has its type.
NothingLeftOpen ==
    /\ TypeOK
    /\ main \in {"reset", "closing", "done"} => retry = "ended"
    /\ main = "done" => sdk = "idle" /\ (callback = None => ~mConnected)

\* A subscription is answered to a channel that still has its module: the destructor
\* waits for the answer before it takes the module away.
SubscribingValid == retry = "subscribing" => channel \notin invalidated

\* Destruction meets neither a connection nor a subscription under way.
DestructionClean == NothingLeftOpen /\ SubscribingValid

\* A destructor that has begun ends, wherever the retry thread is: in an attempt, in the
\* backoff, in a subscription, unless the SDK ends a subscription with an error.
DestructorEnds == [](ack # "error") => (main # "run" ~> main = "done")

\* When the connection comes to stay, isAlive() in the end says so.
ConnectionNoticed == <>[](sdk = "up" /\ main = "run") => <>[]mConnected

\* With no loss of the connection and no refusal every receiving channel is subscribed in
\* the end, after however many attempts.
AllSubscribed ==
    [](ack \notin {"rejected", "error"})
        => []<>(main # "run" \/ interrupts > 0 \/ \A c \in Channels : mSubscribed[c])

\* The three threads get on: the retries to a subscribed connection, the destructor to its end.
ConnectionSettles == DestructorEnds /\ ConnectionNoticed /\ AllSubscribed

-----------------------------------------------------------------------------
(* What the comments say and the code does not do *)

\* "indicates if the connection is established": not so while it is interrupted.
AliveMeansConnected == mConnected => sdk # "interrupted"

\* "blocks until subscribe succeeded or failed"
SubscribeReturns == retry = "subscribing" ~> retry # "subscribing"

\* "the channel will be subscribed to the topic asynchronously", when the connection comes
\* to stay and no subscription is refused.
SubscribedWhenConnected ==
    <>[](sdk = "up" /\ main = "run") => <>(\A c \in Channels : mSubscribed[c])

=============================================================================
