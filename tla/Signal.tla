------------------------------- MODULE Signal -------------------------------
(***************************************************************************)
(* The wrapper on a condition variable that every worker thread of the     *)
(* program waits on (Signal.h).  mNotify is only touched under mMutex, so  *)
(* what is done in one critical section is one action here; notify_one()   *)
(* is called after the unlock and is an action of its own.  A thread that  *)
(* sleeps on the condition variable may be woken by notify_one(), by its   *)
(* timeout, or by nothing at all.                                          *)
(***************************************************************************)
CONSTANTS Waiters,        \* the threads that call wait()
          Notifiers       \* the threads that call notify()

VARIABLES mNotify,        \* the flag the predicate reads
          waitAt,         \* [Waiters -> where the thread is in wait()]
          waitFor,        \* [Waiters -> the wait it asked for]
          expired,        \* the waiters whose timeout has run out
          notifyAt        \* [Notifiers -> where the thread is in notify()]

signalVars == <<mNotify, waitAt, waitFor, expired, notifyAt>>

WaitPlaces == {"out", "enter", "asleep", "woken"}

SignalTypeOK ==
  /\ mNotify \in BOOLEAN
  /\ waitAt \in [Waiters -> WaitPlaces]
  /\ waitFor \in [Waiters -> {"none", "predicate", "timed"}]
  /\ expired \in SUBSET Waiters
  /\ notifyAt \in [Notifiers -> {"out", "lock", "wake"}]

SignalInit ==
  /\ mNotify = FALSE
  /\ waitAt = [w \in Waiters |-> "out"]
  /\ waitFor = [w \in Waiters |-> "none"]
  /\ expired = {}
  /\ notifyAt = [n \in Notifiers |-> "out"]

-----------------------------------------------------------------------------
\* notify(): set the flag under the mutex, unlock, then wake one sleeper.
NotifyCall(n) ==
  /\ notifyAt[n] = "out"
  /\ notifyAt' = [notifyAt EXCEPT ![n] = "lock"]
  /\ UNCHANGED <<mNotify, waitAt, waitFor, expired>>

NotifySet(n) ==
  /\ notifyAt[n] = "lock"
  /\ mNotify' = TRUE
  /\ notifyAt' = [notifyAt EXCEPT ![n] = "wake"]
  /\ UNCHANGED <<waitAt, waitFor, expired>>

\* notify_one() on a condition variable nobody sleeps on is forgotten.
NotifyOne(n) ==
  /\ notifyAt[n] = "wake"
  /\ \/ \E w \in Waiters :
          /\ waitAt[w] = "asleep"
          /\ waitAt' = [waitAt EXCEPT ![w] = "woken"]
     \/ /\ \A w \in Waiters : waitAt[w] # "asleep"
        /\ UNCHANGED waitAt
  /\ notifyAt' = [notifyAt EXCEPT ![n] = "out"]
  /\ UNCHANGED <<mNotify, waitFor, expired>>

-----------------------------------------------------------------------------
\* wait(timeoutMs); timeoutMs = WaitWithPredicate is the wait without a timeout.
WaitCall(w, m) ==
  /\ waitAt[w] = "out"
  /\ waitAt' = [waitAt EXCEPT ![w] = "enter"]
  /\ waitFor' = [waitFor EXCEPT ![w] = m]
  /\ UNCHANGED <<mNotify, expired, notifyAt>>

\* The end of wait(): the flag is taken back whether or not it was awaited.
LeaveWait(w) ==
  /\ mNotify' = FALSE
  /\ waitAt' = [waitAt EXCEPT ![w] = "out"]
  /\ waitFor' = [waitFor EXCEPT ![w] = "none"]
  /\ expired' = expired \ {w}

\* Mutant: a thread goes to sleep without testing the predicate first.
WaitEnterUntested(w) ==
  /\ waitAt[w] = "enter"
  /\ waitAt' = [waitAt EXCEPT ![w] = "asleep"]
  /\ UNCHANGED <<mNotify, waitFor, expired, notifyAt>>

\* The predicate is tested before the condition variable is used at all.
WaitEnter(w) ==
  /\ waitAt[w] = "enter"
  /\ \/ mNotify /\ LeaveWait(w)
     \/ /\ ~mNotify
        /\ waitAt' = [waitAt EXCEPT ![w] = "asleep"]
        /\ UNCHANGED <<mNotify, waitFor, expired>>
  /\ UNCHANGED notifyAt

WaitTimeout(w) ==
  /\ waitAt[w] = "asleep"
  /\ waitFor[w] = "timed"
  /\ waitAt' = [waitAt EXCEPT ![w] = "woken"]
  /\ expired' = expired \cup {w}
  /\ UNCHANGED <<mNotify, waitFor, notifyAt>>

WaitSpurious(w) ==
  /\ waitAt[w] = "asleep"
  /\ waitAt' = [waitAt EXCEPT ![w] = "woken"]
  /\ UNCHANGED <<mNotify, waitFor, expired, notifyAt>>

\* Mutant: a thread that wakes up does not test the predicate again.
WaitRecheckNot(w) ==
  /\ waitAt[w] = "woken"
  /\ LeaveWait(w)
  /\ UNCHANGED notifyAt

\* Awake and holding the mutex again: the predicate decides, then the timeout.
WaitRecheck(w) ==
  /\ waitAt[w] = "woken"
  /\ \/ /\ mNotify \/ w \in expired
        /\ LeaveWait(w)
     \/ /\ ~mNotify /\ w \notin expired
        /\ waitAt' = [waitAt EXCEPT ![w] = "asleep"]
        /\ UNCHANGED <<mNotify, waitFor, expired>>
  /\ UNCHANGED notifyAt

-----------------------------------------------------------------------------
\* A thread goes on in wait() for a reason; a spurious wakeup has none.
WaitStep(w) == WaitEnter(w) \/ WaitTimeout(w) \/ WaitRecheck(w)
NotifyStep(n) == NotifySet(n) \/ NotifyOne(n)

SignalNext ==
  \/ \E n \in Notifiers : NotifyCall(n) \/ NotifyStep(n)
  \/ \E w \in Waiters :
        \/ \E m \in {"predicate", "timed"} : WaitCall(w, m)
        \/ WaitStep(w)
        \/ WaitSpurious(w)

SignalSpec == SignalInit /\ [][SignalNext]_signalVars

\* The latch a Signal implements: its flag, and what each thread waits for.
L == INSTANCE Latch WITH set <- mNotify, waiting <- waitFor

\* Property.  A Signal is a latch (Signal.h:50 "Wakes up the thread from the
\* waiting cycle", :62 "Wait for some time for the signal to be set"): a wait
\* without a timeout ends only by taking a notification, whatever wakes the
\* thread and in whatever order notify() and wait() run.
ImplementsLatch == L!LatchSpec

\* Property.  No notification is slept through: while one is pending and a thread
\* sleeps, a notify() is still about to wake a sleeper, or a thread that is awake
\* has yet to test the flag (Signal.h:51-58 sets it under the mutex and notifies
\* after the unlock).
NoLostWakeup ==
  mNotify /\ (\E w \in Waiters : waitAt[w] = "asleep") =>
     \/ \E n \in Notifiers : notifyAt[n] = "wake"
     \/ \E w \in Waiters : waitAt[w] \in {"enter", "woken"}
=============================================================================
