----------------------------- MODULE MCDocuments -----------------------------
(* Trees with what a condition may hold, one deeper than is supported; signals of two frames of *)
(* a configured interface, of one that is not configured and of a PID; up to three schemes.     *)
EXTENDS Documents

Signal(s) == [is |-> "signal", signal |-> s]
Op(op, left, right) == [is |-> "operator", op |-> op, left |-> left, right |-> right]
One == [is |-> "double", value |-> "1"]

Less == Op("SMALLER", Signal("a"), One)
Tall == Op("AND", Less, Op("NOT", Op("BIGGER", One, Signal("b")), Signal("a")))
Odd == Op("OR", Op("NOT_EQUAL", Signal("a"), One), [is |-> "unset"])
Functions2 ==
    Op("AND", Op("EQUAL", [is |-> "window", signal |-> "a", type |-> "LAST_WINDOW_MIN"],
                          [is |-> "window", signal |-> "b", type |-> "unknown"]),
              [is |-> "geohash", signal |-> "a"])
Orphan == Op("AND", Absent, One)
Trees ==
    {Less, Tall, Odd, Functions2, Orphan, Op("AND", Orphan, Less), [is |-> "boolean", value |-> "true"]}

Plain == [named |-> TRUE, start |-> 1, expiry |-> 2, signals |-> <<"a">>, frames |-> <<>>,
          type |-> "condition", tree |-> Less, interval |-> 1, risingEdge |-> TRUE,
          probability |-> {}, images |-> <<>>, metaData |-> "plain"]

On(frame, interface) == [frame |-> frame, interface |-> interface]
Wants == {<<"a">>, <<"b", "c">>, <<"e", "o", "p">>, <<>>}
RawOf == {<<>>, <<On(1, "can0")>>, <<On(1, "can9"), On(2, "can0"), On(2, "can0")>>}

Conditions2 ==
    {[Plain EXCEPT !.tree = t] : t \in Trees} 
    \cup {[Plain EXCEPT !.type = "time"], [Plain EXCEPT !.type = "unset"]}
Collecting == {[Plain EXCEPT !.signals = s, !.frames = f] : s \in Wants, f \in RawOf}
Others ==
    {[Plain EXCEPT !.named = FALSE], [Plain EXCEPT !.expiry = 0],
     [Plain EXCEPT !.probability = {0}, !.images = <<[method |-> "time"], [method |-> "other"]>>]}

MCLists ==
    {[size |-> "fits", schemes |-> <<x, y, z>>] : x, y \in Conditions2, z \in {Plain}}
    \cup {[size |-> "fits", schemes |-> <<x, y>>] : x \in Others, y \in Conditions2}
    \cup {[size |-> "fits", schemes |-> <<x, y, z>>] : x, y, z \in Collecting}
    \cup {[size |-> "empty", schemes |-> <<>>]}

CAN(s, f, i) == [signal |-> s, frame |-> f, interface |-> i]
MCManifests ==
    {[size |-> "fits", torn |-> FALSE,
      can |-> <<CAN("a", 1, "can0"), CAN("b", 1, "can0"), CAN("c", 2, "can0"),
               CAN("e", 1, "can9"), CAN("o", 3, "can0")>>,
      obd |-> <<[signal |-> "o", pid |-> 5], [signal |-> "p", pid |-> 5]>>],
     [size |-> "fits", torn |-> FALSE,
      can |-> <<>>, 
      obd |->
      <<[signal |-> "a", pid |-> 5], [signal |-> "p", pid |-> 5],
        [signal |-> "a", pid |-> 6]>>],
     [size |-> "fits", torn |-> FALSE, can |-> <<>>, obd |-> <<>>],
     [size |-> "tooLarge", torn |-> FALSE, can |-> <<CAN("a", 2, "can0")>>, obd |-> <<>>]}
MCInterfaces == <<"can0", "can1">>
MCOperators == {"SMALLER", "BIGGER", "SMALLER_EQUAL", "BIGGER_EQUAL", "EQUAL", "AND", "OR", "NOT",
                "PLUS", "MINUS", "MULTIPLY", "DIVIDE"}
MCWindowTypes == {"LAST_WINDOW_MIN", "LAST_WINDOW_MAX", "LAST_WINDOW_AVG",
                  "PREV_LAST_WINDOW_MIN", "PREV_LAST_WINDOW_MAX", "PREV_LAST_WINDOW_AVG"}
=============================================================================
