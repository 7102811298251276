---------------------------- MODULE MCInspection ----------------------------
(***************************************************************************)
(* The two halves of the CollectionInspectionEngine, checked in one run:   *)
(* the ring buffers with their conditions (InspectionEngine), and the      *)
(* fixed windows (FixedWindow). They are members of one object but share   *)
(* no state that either writes, so a behaviour is of one half or the other *)
(* and the run does not multiply their states.                             *)
(***************************************************************************)
EXTENDS InspectionEngine, FixedWindow

CONSTANTS s1, s2, f1

VARIABLE part

allVars == <<part, vars, windowVars>>
BuffersStep(step) == part = "buffers" /\ step /\ UNCHANGED <<part, windowVars>>
WindowsStep == part = "windows" /\ WindowsNext /\ UNCHANGED <<part, vars>>
EitherInit == part \in {"buffers", "windows"} /\ Init /\ WindowsInit
EitherSpec ==
    /\ EitherInit /\ [][BuffersStep(Next) \/ WindowsStep]_allVars
    /\ WF_allVars(BuffersStep(collectNextDataToSend)) /\ WF_allVars(BuffersStep(Tick))

Item(source, interval, size) ==
    [source |-> source, interval |-> interval, size |-> size, conditionOnly |-> FALSE]
Condition(items, reads) ==
    [items |-> items, reads |-> reads, values |-> {1}, triggerOnlyOnRisingEdge |-> FALSE,
     minimumPublishInterval |-> 0, afterDuration |-> 0, probability |-> "always",
     includeActiveDtcs |-> FALSE]

\* Two conditions on one signal with buffers of different sizes, the second delayed.
Shared ==
    <<[Condition(<<Item(s1, 0, 1)>>, {s1}) EXCEPT !.minimumPublishInterval = 2],
      [Condition(<<Item(s1, 0, 2), Item(s2, 2, 1)>>, {s1}) EXCEPT
          !.afterDuration = 1, !.probability = "sometimes",
          !.triggerOnlyOnRisingEdge = TRUE]>>
\* Frames and trouble codes published by a signal's condition, and a condition on nothing. Of the
\* frame no sample is kept at its second interval.
Framed ==
    <<[Condition(<<Item(s2, 0, 1), Item(f1, 0, 2), Item(f1, 2, 0)>>, {s2}) EXCEPT
          !.items[1].conditionOnly = TRUE, !.includeActiveDtcs = TRUE],
      [Condition(<<Item(s1, 0, 1)>>, {}) EXCEPT !.afterDuration = 2, !.probability = "never"]>>
\* One condition too many, and one that ends the method.
Crowded == Shared \o <<Condition(<<Item(s2, 0, 1)>>, {s2})>>
Broken ==
    <<Condition(<<Item(s1, 0, 1)>>, {s1}), Condition(<<Item(s2, 0, 0)>>, {s2})>>

SafetyMatrices == {Shared, Framed, Crowded, Broken}
Eager ==
    <<Condition(<<Item(s1, 0, 1)>>, {s1}),
      [Condition(<<Item(s1, 0, 2)>>, {s1}) EXCEPT !.afterDuration = 1]>>
LivenessMatrices == {Eager, Shared}
FramedMatrix == {Framed}

\* Negative numbers cannot be written in a configuration.
WindowValues == {-2, 1}

=============================================================================
