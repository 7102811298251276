------------------------------- MODULE Latch -------------------------------
(***************************************************************************)
(* What Signal promises to the threads that use it: a latch.  notify()     *)
(* sets it, and it stays set however long nobody is looking; a wait()      *)
(* ends by taking it, or, when the caller gave a timeout, by expiring      *)
(* while it is not set.  A wait never ends for another reason.             *)
(***************************************************************************)
CONSTANT Waiters          \* the threads that call wait()

VARIABLES set,            \* a notification that no wait has taken yet
          waiting         \* [Waiters -> what the thread waits for]

latchVars == <<set, waiting>>

\* The two ways to wait: until notified, or at most for some time.
Waits == {"predicate", "timed"}

LatchInit ==
  /\ set = FALSE
  /\ waiting = [w \in Waiters |-> "none"]

Notify ==
  /\ set' = TRUE
  /\ UNCHANGED waiting

Begin(w) ==
  /\ waiting[w] = "none"
  /\ \E m \in Waits : waiting' = [waiting EXCEPT ![w] = m]
  /\ UNCHANGED set

Take(w) ==
  /\ waiting[w] # "none"
  /\ set
  /\ set' = FALSE
  /\ waiting' = [waiting EXCEPT ![w] = "none"]

Expire(w) ==
  /\ waiting[w] = "timed"
  /\ ~set
  /\ waiting' = [waiting EXCEPT ![w] = "none"]
  /\ UNCHANGED set

LatchNext ==
  \/ Notify
  \/ \E w \in Waiters : Begin(w) \/ Take(w) \/ Expire(w)

LatchSpec == LatchInit /\ [][LatchNext]_latchVars
=============================================================================
