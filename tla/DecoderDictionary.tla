-------------------------- MODULE DecoderDictionary --------------------------
(***************************************************************************)
(* What the look-ups of DecoderManifestIngestion find in a manifest, and   *)
(* what CollectionSchemeManager::decoderDictionaryExtractor makes of it    *)
(* and of the enabled schemes, one after the other: a dictionary for the   *)
(* consumers of the CAN and one for the OBD. There is no state in it;      *)
(* Documents says when it is called, and with what.                        *)
(***************************************************************************)
EXTENDS Integers, Sequences, FiniteSetsExt

CONSTANT Interfaces     \* the configured CAN interfaces

ASSUME InterfacesAssumption == Interfaces \in Seq(STRING)

-----------------------------------------------------------------------------
(* DecoderManifestIngestion *)

Describing(rows, s) == {i \in DOMAIN rows : rows[i].signal = s}

\* A signal that is both is an OBD signal: those come second and replace.
getNetworkProtocol(m, s) ==
    CASE Describing(m.obd, s) # {} -> "OBD"
      [] Describing(m.obd, s) = {} /\ Describing(m.can, s) # {} -> "RAW_SOCKET"
      [] OTHER -> "INVALID_PROTOCOL"

\* The first description of a signal is inserted, the others are not.
getCANFrameAndInterfaceID(m, s) ==
    LET r == m.can[Min(Describing(m.can, s))]
    IN <<r.frame, r.interface>>

\* The signals to decode from a frame; none in INVALID_CAN_MESSAGE_FORMAT.
getCANMessageFormat(m, frame, interface) ==
    {m.can[i].signal : i \in {j \in DOMAIN m.can : m.can[j].frame = frame /\ m.can[j].interface = interface}}

\* The last description of a signal replaces the others.
getPIDSignalDecoderFormat(m, s) == m.obd[Max(Describing(m.obd, s))].pid

\* CANInterfaceIDTranslator
INVALID_CAN_SOURCE_NUMERIC_ID == -1
getChannelNumericID(interface) ==
    LET places == {i \in DOMAIN Interfaces : Interfaces[i] = interface}
    IN IF places # {} THEN Min(places) - 1 ELSE INVALID_CAN_SOURCE_NUMERIC_ID

\* CollectionSchemeIngestion
getCollectSignals(c) == c.document.signals
getCollectRawCanFrames(c) == c.document.frames

-----------------------------------------------------------------------------
(* CollectionSchemeManager::decoderDictionaryExtractor *)

EmptyDictionary == [signalIDsToCollect |-> {}, canMessageDecoderMethod |-> <<>>]
NoDictionaries == [RAW_SOCKET |-> EmptyDictionary, OBD |-> EmptyDictionary]

\* The place of a frame in the dictionary of the CAN: that of a signal, and one wanted raw.
FrameOf(m, s) ==
    LET f == getCANFrameAndInterfaceID(m, s) IN <<getChannelNumericID(f[2]), f[1]>>
RawFrame(f) == <<getChannelNumericID(f.interface), f.frame>>
FormatOf(m, s) ==
    LET f == getCANFrameAndInterfaceID(m, s) IN getCANMessageFormat(m, f[1], f[2])

With(methods, key, type, format) ==
    [k \in DOMAIN methods \cup {key} |->
        IF k = key THEN [collectType |-> type, format |-> format] ELSE methods[k]]

\* For a signal of the CAN: its frame is to be decoded, and a frame wanted raw is both from now on.
RawStays(methods, key, format) ==
    IF key \notin DOMAIN methods THEN With(methods, key, "DECODE", format) ELSE methods
ToBeDecoded(methods, key, format) ==
    IF key \notin DOMAIN methods THEN With(methods, key, "DECODE", format)
    ELSE IF methods[key].collectType = "RAW" THEN With(methods, key, "RAW_AND_DECODE", format)
    ELSE methods
AddCANSignal(dict, m, s) ==
    IF FrameOf(m, s)[1] = INVALID_CAN_SOURCE_NUMERIC_ID THEN dict
    ELSE [signalIDsToCollect |-> dict.signalIDsToCollect \cup {s},
          canMessageDecoderMethod |->
              ToBeDecoded(dict.canMessageDecoderMethod, FrameOf(m, s), FormatOf(m, s))]

\* For a signal of the OBD: its PID's entry, on a channel of no meaning, gets the signal too.
AddOBDSignal(dict, m, s) ==
    LET key == <<0, getPIDSignalDecoderFormat(m, s)>>
        methods == dict.canMessageDecoderMethod
        signals == IF key \in DOMAIN methods THEN methods[key].format ELSE <<>>
    IN [signalIDsToCollect |-> dict.signalIDsToCollect \cup {s},
        canMessageDecoderMethod |-> With(methods, key, "DECODE", Append(signals, s))]

\* For a frame wanted raw; that a frame is there already is taken for: with signals to decode.
ToBeRaw(methods, key) ==
    IF key \in DOMAIN methods THEN With(methods, key, "RAW_AND_DECODE", methods[key].format)
    ELSE With(methods, key, "RAW", {})
AddRawFrame(dict, f) ==
    IF RawFrame(f)[1] = INVALID_CAN_SOURCE_NUMERIC_ID THEN dict
    ELSE [signalIDsToCollect |-> dict.signalIDsToCollect,
          canMessageDecoderMethod |-> ToBeRaw(dict.canMessageDecoderMethod, RawFrame(f))]

AddSignal(dicts, m, s) ==
    CASE getNetworkProtocol(m, s) = "RAW_SOCKET" ->
            [RAW_SOCKET |-> AddCANSignal(dicts.RAW_SOCKET, m, s), OBD |-> dicts.OBD]
      [] getNetworkProtocol(m, s) = "OBD" ->
            [RAW_SOCKET |-> dicts.RAW_SOCKET, OBD |-> AddOBDSignal(dicts.OBD, m, s)]
      [] OTHER -> dicts

\* Scheme by scheme, the signals first.
AddSignals(dicts, m, signals) ==
    LET after[i \in 0 .. Len(signals)] ==
            IF i = 0 THEN dicts ELSE AddSignal(after[i - 1], m, signals[i])
    IN  after[Len(signals)]
AddRawFrames(dict, wanted) ==
    LET after[i \in 0 .. Len(wanted)] ==
            IF i = 0 THEN dict ELSE AddRawFrame(after[i - 1], wanted[i])
    IN  after[Len(wanted)]
AddScheme(dicts, m, c) ==
    LET signalsDone == AddSignals(dicts, m, getCollectSignals(c))
    IN [RAW_SOCKET |-> AddRawFrames(signalsDone.RAW_SOCKET, getCollectRawCanFrames(c)),
        OBD |-> signalsDone.OBD]

decoderDictionaryExtractor(m, schemes) ==
    LET after[k \in 0 .. Len(schemes)] ==
            IF k = 0 THEN NoDictionaries ELSE AddScheme(after[k - 1], m, schemes[k])
    IN  after[Len(schemes)]

-----------------------------------------------------------------------------
(* What the dictionaries are to be *)

RawWishes(c, key) ==
    {j \in DOMAIN getCollectRawCanFrames(c) : RawFrame(getCollectRawCanFrames(c)[j]) = key}
WantsRaw(c, key) == RawWishes(c, key) # {}
Decodes(m, c, key) ==
    \E j \in DOMAIN getCollectSignals(c) :
        /\ getNetworkProtocol(m, getCollectSignals(c)[j]) = "RAW_SOCKET"
        /\ FrameOf(m, getCollectSignals(c)[j]) = key

\* Wanted raw twice before anything in it is decoded: the entry then claims a format it lacks.
WantedRawTwice(schemes, n, key) ==
    \/ \E i \in 1 .. n : \E x, y \in RawWishes(schemes[i], key) : x # y
    \/ \E i, j \in 1 .. n : i # j /\ WantsRaw(schemes[i], key) /\ WantsRaw(schemes[j], key)
FormatLost(m, schemes, k, key) ==
    \A i \in 1 .. k : Decodes(m, schemes[i], key) => WantedRawTwice(schemes, i - 1, key)

\* A signal of the CAN, the frame of which is on a configured channel, is to be decoded from its
\* frame; a signal of the OBD from the answer to its PID.
CANSignalServed(m, dict, s) ==
    LET methods == dict.canMessageDecoderMethod
    IN /\ s \in dict.signalIDsToCollect
       /\ FrameOf(m, s) \in DOMAIN methods
       /\ methods[FrameOf(m, s)].collectType # "RAW"
       /\ s \in methods[FrameOf(m, s)].format
OBDSignalServed(m, dict, s) ==
    LET methods == dict.canMessageDecoderMethod
        key == <<0, getPIDSignalDecoderFormat(m, s)>>
    IN /\ s \in dict.signalIDsToCollect
       /\ key \in DOMAIN methods
       /\ \E i \in DOMAIN methods[key].format : methods[key].format[i] = s

\* What the dictionaries are for each scheme, whatever the others want and in whatever order they
\* come. Where a frame is wanted raw twice, the code loses the signals a later scheme wants of it.
SignalsServed(m, schemes, dicts) ==
    \A k \in DOMAIN schemes : \A j \in DOMAIN getCollectSignals(schemes[k]) :
        LET s == getCollectSignals(schemes[k])[j]
        IN /\ getNetworkProtocol(m, s) = "RAW_SOCKET" =>
                \/ FrameOf(m, s)[1] = INVALID_CAN_SOURCE_NUMERIC_ID
                \/ FormatLost(m, schemes, k, FrameOf(m, s))
                \/ CANSignalServed(m, dicts.RAW_SOCKET, s)
           /\ getNetworkProtocol(m, s) = "OBD" => OBDSignalServed(m, dicts.OBD, s)
RawAsWanted(schemes, dict) ==
    LET methods == dict.canMessageDecoderMethod
    IN /\ \A key \in DOMAIN methods :
            (methods[key].collectType # "DECODE") <=> \E k \in DOMAIN schemes : WantsRaw(schemes[k], key)
       /\ \A k \in DOMAIN schemes : \A j \in DOMAIN getCollectRawCanFrames(schemes[k]) :
            LET key == RawFrame(getCollectRawCanFrames(schemes[k])[j])
            IN key[1] = INVALID_CAN_SOURCE_NUMERIC_ID \/ key \in DOMAIN methods
Serves(m, schemes, dicts) ==
    SignalsServed(m, schemes, dicts) /\ RawAsWanted(schemes, dicts.RAW_SOCKET)
=============================================================================
