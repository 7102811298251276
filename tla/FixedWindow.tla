---------------------------- MODULE FixedWindow ----------------------------
(***************************************************************************)
(* The fixed time windows of one signal: CollectionInspectionEngine's      *)
(* FixedTimeWindowFunctionData, which keep minimum, maximum and average of *)
(* the last two windows without keeping the samples, and the time at which *)
(* the engine next has to look at them.                                    *)
(*                                                                         *)
(* Values are integers; an average is its sum and its count. The smallest  *)
(* positive double, from which the code computes a maximum, is 0 here.     *)
(* A sample may have waited in a queue for any time before it is added, and*)
(* the engine may not look at the windows for any time.                    *)
(***************************************************************************)
EXTENDS Integers, Sequences, FiniteSets, FiniteSetsExt

CONSTANTS
    WindowSizes,    \* the windows the conditions ask for, in ms
    Values,
    Highest,        \* numeric_limits::max(), above every value
    WindowTime,     \* bound: the clock
    WindowSamples   \* bound: samples that arrive

ASSUME WindowAssumption ==
    /\ WindowSizes \subseteq Nat \ {0} /\ IsFiniteSet(WindowSizes) /\ WindowSizes # {}
    /\ Values \subseteq Int /\ Highest \in Int /\ \A v \in Values : v < Highest
    /\ WindowTime \in Nat \ {0} /\ WindowSamples \in Nat

VARIABLES
    windowNow,
    windows,                        \* mWindowFunctionData, by size
    mNextWindowFunctionTimesOut,
    \* What the properties compare with and the code does not keep:
    history,                        \* every sample: see addValue
    lastCall                        \* when the windows were last evaluated, 0 for never

windowVars == <<windowNow, windows, mNextWindowFunctionTimesOut, history, lastCall>>

Tiny == 0
\* What is being collected, and what was collected over a whole window.
Fresh == [min |-> Highest, max |-> Tiny, sum |-> 0, count |-> 0]
Unavailable == [available |-> FALSE, min |-> 0, max |-> 0, sum |-> 0, count |-> 0]
Completed(c) ==
    IF c.count = 0 THEN Unavailable
    ELSE [available |-> TRUE, min |-> c.min, max |-> c.max, sum |-> c.sum, count |-> c.count]
Later == WindowTime + Max(WindowSizes) + 1     \* the largest timestamp

WindowsInit ==
    /\ windowNow = 1
    /\ windows = [w \in WindowSizes |->
                     [mLastTimeCalculated |-> 0, last |-> Unavailable,
                      previous |-> Unavailable, collecting |-> Fresh]]
    /\ mNextWindowFunctionTimesOut = 0
    /\ history = <<>>
    /\ lastCall = 0

-----------------------------------------------------------------------------
(* updateWindow *)

\* initNewWindow moves the start by whole windows.
Begin(d, w, t) ==
    [d EXCEPT !.collecting = Fresh,
              !.mLastTimeCalculated = @ + ((t - @) \div w) * w]

UpdatedKeepsPrevious(d, w, t) ==
    IF d.mLastTimeCalculated = 0 THEN Begin([d EXCEPT !.mLastTimeCalculated = t], w, t)
    ELSE IF t >= d.mLastTimeCalculated + 2 * w
    THEN Begin([d EXCEPT !.last = Unavailable], w, t)
    ELSE IF t >= d.mLastTimeCalculated + w
    THEN Begin([d EXCEPT !.previous = d.last, !.last = Completed(d.collecting)], w, t)
    ELSE d
Updated(d, w, t) ==
    IF d.mLastTimeCalculated = 0 THEN Begin([d EXCEPT !.mLastTimeCalculated = t], w, t)
    ELSE IF t >= d.mLastTimeCalculated + 2 * w
    THEN Begin([d EXCEPT !.last = Unavailable, !.previous = Completed(d.collecting)], w, t)
    ELSE IF t >= d.mLastTimeCalculated + w
    THEN Begin([d EXCEPT !.previous = d.last, !.last = Completed(d.collecting)], w, t)
    ELSE d

\* In each of its branches it lowers the time of the next look to the end of the window.
EndOf(d, w) == d.mLastTimeCalculated + w
Ends(ws) == {EndOf(ws[w], w) : w \in WindowSizes}

With(c, v) ==
    [min |-> Min({c.min, v}), max |-> Max({c.max, v}), sum |-> c.sum + v, count |-> c.count + 1]

\* addNewSignal: addValue on every window. The history notes when the sample was received, the
\* start of the window it is counted for and when the windows were last looked at before it.
addValue(t, v) ==
    /\ Len(history) < WindowSamples
    /\ windows' = [w \in WindowSizes |->
                      LET d == Updated(windows[w], w, t)
                      IN  [d EXCEPT !.collecting = With(@, v)]]
    /\ mNextWindowFunctionTimesOut' = Min({mNextWindowFunctionTimesOut} \cup Ends(windows'))
    /\ history' = Append(history,
           [time |-> t, value |-> v, seen |-> lastCall,
            counted |-> [w \in WindowSizes |-> Updated(windows[w], w, t).mLastTimeCalculated]])
    /\ UNCHANGED <<windowNow, lastCall>>

\* evaluateConditions looks at the windows when one may be over.
NextTimeOut(ws) == Min({Later} \cup Ends(ws))
updateAllFixedWindowFunctions ==
    /\ lastCall' = windowNow
    /\ IF windowNow >= mNextWindowFunctionTimesOut
       THEN /\ windows' = [w \in WindowSizes |-> Updated(windows[w], w, windowNow)]
            /\ mNextWindowFunctionTimesOut' = NextTimeOut(windows')
       ELSE UNCHANGED <<windows, mNextWindowFunctionTimesOut>>
    /\ UNCHANGED <<windowNow, history>>

WindowTick ==
    /\ windowNow < WindowTime
    /\ windowNow' = windowNow + 1
    /\ UNCHANGED <<windows, mNextWindowFunctionTimesOut, history, lastCall>>

WindowsNext ==
    \/ \E t \in 1 .. windowNow, v \in Values : addValue(t, v)
    \/ updateAllFixedWindowFunctions
    \/ WindowTick
WindowsSpec == WindowsInit /\ [][WindowsNext]_windowVars

-----------------------------------------------------------------------------
(* Properties *)

Summaries == [available : BOOLEAN, min : Int, max : Int, sum : Int, count : Nat]
WindowsTypeOK ==
    /\ windowNow \in 1 .. WindowTime /\ lastCall \in 0 .. windowNow
    /\ windows \in [WindowSizes ->
                       [mLastTimeCalculated : 0 .. windowNow, last : Summaries, previous : Summaries,
                        collecting : [min : Int, max : Int, sum : Int, count : 0 .. WindowSamples]]]
    /\ mNextWindowFunctionTimesOut \in 0 .. Later
    /\ history \in Seq([time : 1 .. windowNow, value : Values, seen : 0 .. windowNow,
                        counted : [WindowSizes -> 1 .. windowNow]])

\* The samples that were counted for the window of size w that started at start, their values and
\* what they come to.
CountedFor(w, start) == {i \in DOMAIN history : history[i].counted[w] = start}
ValuesOf(h, is) == {h[i].value : i \in is}
TotalOf(h, is) ==
    LET counted == [i \in DOMAIN h |-> IF i \in is THEN h[i].value ELSE 0]
        total[i \in 0 .. Len(h)] == IF i = 0 THEN 0 ELSE total[i - 1] + counted[i]
    IN  total[Len(h)]
\* A maximum is compared where a value reaches Tiny (MaximaMatchHistory).
AgreesWith(kept, is) ==
    /\ kept.available = (is # {})
    /\ kept.available =>
          /\ kept.min = Min(ValuesOf(history, is))
          /\ kept.sum = TotalOf(history, is)
          /\ kept.count = Cardinality(is)
          /\ (\E v \in ValuesOf(history, is) : v >= Tiny) => kept.max = Max(ValuesOf(history, is))

\* After two whole windows without a sample and a look, what was collected before them is kept as
\* the previous window (PreviousMatchesHistory): that of s, for which the latest were counted.
KeptSince(w, s) ==
    LET start == windows[w].mLastTimeCalculated
    IN  /\ s < start - 2 * w
        /\ \A i \in DOMAIN history : history[i].counted[w] <= s \/ history[i].counted[w] = start

\* The online algorithm computes what a look at the samples would: minimum, maximum, sum and
\* count of the last window and of the one before. Everything has its type.
WindowsMatchHistory ==
    /\ WindowsTypeOK
    /\ \A w \in WindowSizes :
          LET start == windows[w].mLastTimeCalculated
          IN  /\ AgreesWith(windows[w].last, CountedFor(w, start - w))
              /\ \E s \in {start - 2 * w} \cup {history[i].counted[w] : i \in DOMAIN history} :
                    /\ s # start - 2 * w => KeptSince(w, s)
                    /\ AgreesWith(windows[w].previous, CountedFor(w, s))

\* A sample is counted for the window it was received in, or for a later one that had begun
\* before it was added: at a look of the engine or with a sample that overtook it.
CountedInTime ==
    \A i \in DOMAIN history, w \in WindowSizes :
        LET sample == history[i]
            from == sample.counted[w]
        IN  /\ sample.time < from + w
            /\ \/ from <= sample.time
               \/ from <= sample.seen
               \/ \E j \in 1 .. i - 1 : from <= history[j].time

\* No window is over without being noticed: at the moment of an evaluation, and after the
\* samples that come before time goes on, each window is the present one.
NothingOverdue ==
    lastCall = windowNow => \A w \in WindowSizes : windowNow < EndOf(windows[w], w)

\* However samples of any value, their time in the queue, silences and evaluations alternate: the
\* windows say what was counted for them, a sample is counted late only where the engine was ahead
\* of it, and no window that is over is taken for the present one. Not compared are maxima of
\* values below Tiny, and previous data that are older than the window before the last: there the
\* code differs from its comments (MaximaMatchHistory, PreviousMatchesHistory).
WindowsKept == WindowsMatchHistory /\ CountedInTime /\ NothingOverdue

-----------------------------------------------------------------------------
(* What the comments say and the code does not do *)

\* "maintains values like avg, min or max": the maximum is that of the samples.
MaximaMatchHistory ==
    \A w \in WindowSizes : windows[w].last.available =>
        windows[w].last.max
            = Max(ValuesOf(history, CountedFor(w, windows[w].mLastTimeCalculated - w)))

\* "the value before the newest window": it is of the window before the last one.
PreviousMatchesHistory ==
    \A w \in WindowSizes : windows[w].previous.available =>
        CountedFor(w, windows[w].mLastTimeCalculated - 2 * w) # {}

\* "The window is time based": as many count for the last window as were received in it.
CountsMatchHistory ==
    \A w \in WindowSizes : windows[w].last.available =>
        LET start == windows[w].mLastTimeCalculated
        IN  windows[w].last.count
              = Cardinality({i \in DOMAIN history : history[i].time \in start - w .. start - 1})

=============================================================================
