------------------------------ MODULE Documents ------------------------------
(***************************************************************************)
(* What becomes of a document from the cloud: the callbacks of Schema that *)
(* take its bytes, DecoderManifestIngestion and CollectionSchemeIngestion  *)
(* that build it, and the manager's extractors that make of the enabled    *)
(* schemes a decoder dictionary, for the consumers of the networks         *)
(* (DecoderDictionary), and an inspection matrix, for the engine. When     *)
(* which scheme is enabled is CollectionSchemeManager's: here any scheme   *)
(* that built may be.                                                      *)
(*                                                                         *)
(* A condition arrives as a tree, is written node by node into a vector    *)
(* whose elements point at each other, and is copied from there, with the  *)
(* trees of the other schemes, into the vector of the matrix. A pointer is *)
(* an index, 0 the null pointer.                                           *)
(***************************************************************************)
EXTENDS DecoderDictionary, SequencesExt

CONSTANTS
    Manifests,          \* what the cloud may send: sequences of CAN and of OBD signals
    Lists,              \* lists of schemes; the id of a scheme is its position
    Operators,          \* the operators that the engine knows
    WindowTypes,
    MAX_EQUATION_DEPTH,
    MaxManifests, MaxLists  \* bounds: documents received

ASSUME DocumentsAssumption ==
    MAX_EQUATION_DEPTH \in Nat \ {0} /\ MaxManifests \in Nat /\ MaxLists \in Nat

VARIABLES
    mDecoderManifest,
    mCollectionSchemes,     \* by position in the list
    mEnabledCollectionSchemeMap,
    dictionary,             \* what the consumers were told
    matrix,                 \* what the engine was told
    received

vars == <<mDecoderManifest, mCollectionSchemes, mEnabledCollectionSchemeMap, dictionary, matrix,
          received>>

-----------------------------------------------------------------------------
(* DecoderManifestIngestion *)

NotReady == [ready |-> FALSE, can |-> <<>>, obd |-> <<>>]

\* build: neither CAN nor OBD signals is an error.
buildManifest(d) ==
    IF d.torn \/ (d.can = <<>> /\ d.obd = <<>>) THEN NotReady
    ELSE [ready |-> TRUE, can |-> d.can, obd |-> d.obd]

-----------------------------------------------------------------------------
(* CollectionSchemeIngestion: the condition *)

ExpressionNode == [nodeType |-> "FLOAT", data |-> <<>>, left |-> 0, right |-> 0]

\* An operator that the engine does not know, COMPARE_NOT_EQUAL among them, is no operator.
convertOperatorType(op) == IF op \in Operators THEN op ELSE "BOOLEAN"
convertFunctionType(type) == IF type \in WindowTypes THEN type ELSE "NONE"

Absent == [is |-> "absent"]     \* the message has no such child

RootOnly(node, depth) == IF depth <= 0 \/ node = Absent THEN 0 ELSE 1
RECURSIVE getNumberOfNodes(_, _)
getNumberOfNodes(node, depth) ==
    IF depth <= 0 \/ node = Absent THEN 0
    ELSE 1 + (IF node.is = "operator"
              THEN getNumberOfNodes(node.left, depth - 1) + getNumberOfNodes(node.right, depth - 1)
              ELSE 0)

\* A vector that grows beyond its capacity moves its elements; a pointer to one then dangles.
emplace_back(v) ==
    LET full == Len(v.nodes) = v.capacity
    IN [v EXCEPT !.nodes = Append(@, ExpressionNode),
                 !.capacity = IF full THEN 2 * @ ELSE @,
                 !.dangling = @ \/ (full /\ v.nextIndex > 0)]
pop_back(v) == [v EXCEPT !.nodes = Front(@)]

\* Every node adds an element at the end, and is written at nextIndex.
RECURSIVE serializeNode(_, _, _)
serializeNode(node, before, remainingDepth) ==
    IF remainingDepth <= 0 THEN [v |-> before, at |-> 0]
    ELSE
    LET grown == emplace_back(before)
        at == grown.nextIndex + 1
        v == [grown EXCEPT !.nextIndex = at]
        Write(nodeType, data) ==
            [v |-> [v EXCEPT !.nodes[at] = [@ EXCEPT !.nodeType = nodeType, !.data = data]],
             at |-> at]
        Operator(op) ==
            LET typed == [v EXCEPT !.nodes[at].nodeType = op]
                l == serializeNode(node.left, typed, remainingDepth - 1)
                r == IF op # "NOT" /\ node.right # Absent
                     THEN serializeNode(node.right, l.v, remainingDepth - 1)
                     ELSE [v |-> l.v, at |-> 0]
            IN [v |-> [r.v EXCEPT !.nodes[at] = [@ EXCEPT !.left = l.at, !.right = r.at]],
                at |-> at]
    IN CASE node.is = "signal" -> Write("SIGNAL", <<node.signal>>)
         [] node.is = "double" -> Write("FLOAT", <<node.value>>)
         [] node.is = "boolean" -> Write("BOOLEAN", <<node.value>>)
         [] node.is = "window" ->
                Write("WINDOWFUNCTION", <<node.signal, convertFunctionType(node.type)>>)
         [] node.is = "geohash" -> Write("GEOHASHFUNCTION", <<node.signal>>)
         [] node.is = "operator" /\ node.left # Absent ->
                IF convertOperatorType(node.op) = "BOOLEAN" THEN Write("BOOLEAN", <<"false">>)
                ELSE Operator(convertOperatorType(node.op))
         [] OTHER -> [v |-> pop_back(v), at |-> 0]

-----------------------------------------------------------------------------
(* CollectionSchemeIngestion: the scheme *)

\* resize allocates what it needs, and no more.
serializeTree(tree) ==
    LET n == getNumberOfNodes(tree, MAX_EQUATION_DEPTH)
    IN serializeNode(tree,
           [nodes |-> [i \in 1 .. n |-> ExpressionNode], capacity |-> n, nextIndex |-> 0,
            dangling |-> FALSE],
           MAX_EQUATION_DEPTH)

NoNodes == [v |-> [nodes |-> <<>>, capacity |-> 0, nextIndex |-> 0, dangling |-> FALSE], at |-> 0]
TrueNode ==
    LET node == [ExpressionNode EXCEPT !.nodeType = "BOOLEAN", !.data = <<"true">>]
    IN [NoNodes EXCEPT !.v.nodes = <<node>>, !.v.capacity = 1, !.at = 1]

\* build: the condition of a time based scheme always holds; a scheme of neither type has none.
Condition(d) ==
    CASE d.type = "condition" -> serializeTree(d.tree)
      [] d.type = "time" -> TrueNode
      [] d.type = "unset" -> NoNodes

buildScheme(d) ==
    IF ~d.named \/ d.expiry < d.start THEN [ready |-> FALSE]
    ELSE [ready |-> TRUE, document |-> d, expression |-> Condition(d),
          images |-> SelectSeq(d.images, LAMBDA i : i.method = "time")]

\* The getters; only schemes that built are ever asked. What a scheme says of the sending of its
\* data, getCollectionSchemeID to isCompressionNeeded, is passed on as it came.
metaData(c) == c.document.metaData
getImageCaptureData(c) == c.images
getCondition(c) == c.expression.at
INVALID_MINIMUM_PUBLISH_TIME == -1      \* the largest number
getMinimumPublishIntervalMs(c) ==
    IF c.document.type \in {"time", "condition"} THEN c.document.interval
    ELSE INVALID_MINIMUM_PUBLISH_TIME
isTriggerOnlyOnRisingEdge(c) == c.document.type = "condition" /\ c.document.risingEdge
DEFAULT_PROBABILITY_TO_SEND == 1
getProbabilityToSend(c) ==
    IF c.document.probability = {} THEN DEFAULT_PROBABILITY_TO_SEND
    ELSE CHOOSE p \in c.document.probability : TRUE

-----------------------------------------------------------------------------
(* CollectionSchemeManager: what the extractors are given, and inspectionMatrixExtractor *)

\* The enabled schemes in the order of the map.
InOrderOfIds(enabled) ==
    LET ids == SetToSortSeq(DOMAIN enabled, <) IN [i \in DOMAIN ids |-> enabled[ids[i]]]

addConditionData(c) ==
    [minimumPublishInterval |-> getMinimumPublishIntervalMs(c),
     triggerOnlyOnRisingEdge |-> isTriggerOnlyOnRisingEdge(c),
     probabilityToSend |-> getProbabilityToSend(c),
     signals |-> getCollectSignals(c),
     canFrames |-> SelectSeq(getCollectRawCanFrames(c),
         LAMBDA f : getChannelNumericID(f.interface) # INVALID_CAN_SOURCE_NUMERIC_ID),
     images |-> getImageCaptureData(c),
     metaData |-> metaData(c)]

\* The nodes of a tree, left to right, as the stack of the code visits them.
RECURSIVE Visited(_, _)
Visited(nodes, at) ==
    IF at = 0 THEN <<>>
    ELSE Visited(nodes, nodes[at].left) \o <<at>> \o Visited(nodes, nodes[at].right)

\* A node is known by its address: the scheme whose vector it is in, and its place there.
Addresses(schemes) ==
    LET Of(k) == LET e == schemes[k].expression
                     places == Visited(e.v.nodes, getCondition(schemes[k]))
                 IN [i \in DOMAIN places |-> <<k, places[i]>>]
    IN FlattenSeq([k \in DOMAIN schemes |-> Of(k)])

\* nodeToIndexMap[]: what is not in the map, the null pointer, gets the first index.
PerScheme(addresses, address) ==
    LET same == SelectSeq(addresses, LAMBDA a : a[1] = address[1])
    IN IF address \in Range(same) THEN SelectInSeq(same, LAMBDA a : a = address) ELSE 1
nodeToIndexMap(addresses, address) ==
    IF address \in Range(addresses) THEN SelectInSeq(addresses, LAMBDA a : a = address) ELSE 1

inspectionMatrixExtractor(enabled) ==
    LET schemes == InOrderOfIds(enabled)
        addresses == Addresses(schemes)
        Index(k, at) == IF at = 0 THEN 0 ELSE nodeToIndexMap(addresses, <<k, at>>)
        Copy(a) ==
            LET node == schemes[a[1]].expression.v.nodes[a[2]]
            IN [node EXCEPT !.left = Index(a[1], @), !.right = Index(a[1], @)]
    IN [expressionNodeStorage |-> [i \in DOMAIN addresses |-> Copy(addresses[i])],
        conditions |->
            [k \in DOMAIN schemes |->
                [data |-> addConditionData(schemes[k]),
                 condition |-> nodeToIndexMap(addresses, <<k, getCondition(schemes[k])>>)]]]

-----------------------------------------------------------------------------
(* The steps *)

Init ==
    /\ mDecoderManifest = NotReady /\ mCollectionSchemes = <<>>
    /\ mEnabledCollectionSchemeMap = <<>>
    /\ dictionary = NoDictionaries
    /\ matrix = [expressionNodeStorage |-> <<>>, conditions |-> <<>>]
    /\ received = [manifests |-> 0, lists |-> 0]

\* onDataReceived, copyData: nothing, and too much, is not taken.
copyData(d) == d.size = "fits"

ReceiveManifest ==
    /\ received.manifests < MaxManifests
    /\ received' = [received EXCEPT !.manifests = @ + 1]
    /\ \E d \in Manifests :
        mDecoderManifest' = IF copyData(d) THEN buildManifest(d) ELSE mDecoderManifest
    /\ UNCHANGED <<mCollectionSchemes, mEnabledCollectionSchemeMap, dictionary, matrix>>

\* A scheme that does not build is dropped, the others are kept.
ReceiveList ==
    /\ received.lists < MaxLists
    /\ received' = [received EXCEPT !.lists = @ + 1]
    /\ \E l \in Lists :
        mCollectionSchemes' =
            IF l.size = "fits"
            THEN [i \in {j \in DOMAIN l.schemes : buildScheme(l.schemes[j]).ready} |->
                     buildScheme(l.schemes[i])]
            ELSE mCollectionSchemes
    /\ UNCHANGED <<mDecoderManifest, mEnabledCollectionSchemeMap, dictionary, matrix>>

\* doWork: when the enabled schemes changed, both are made anew and given to the listeners.
Extract ==
    /\ received.manifests > 0
    /\ \E S \in SUBSET DOMAIN mCollectionSchemes :
        LET enabled == [i \in S |-> mCollectionSchemes[i]]
        IN /\ enabled # mEnabledCollectionSchemeMap
           /\ mEnabledCollectionSchemeMap' = enabled
           /\ dictionary' = decoderDictionaryExtractor(mDecoderManifest, InOrderOfIds(enabled))
           /\ matrix' = inspectionMatrixExtractor(enabled)
    /\ UNCHANGED <<mDecoderManifest, mCollectionSchemes, received>>

Next == ReceiveManifest \/ ReceiveList \/ Extract

Spec == Init /\ [][Next]_vars

-----------------------------------------------------------------------------
(* Properties *)

Built == {mCollectionSchemes[i] : i \in DOMAIN mCollectionSchemes}

\* The vector of a condition never moves while pointers into it are held, as the comment on
\* CollectionSchemeIngestion::build demands, and every node has a place that was counted for it:
\* the count and the writing stop at the same depth, and an invalid node costs no more than it
\* was counted.
NothingMoved ==
    \A c \in Built :
        /\ ~c.expression.v.dangling
        /\ c.expression.v.nextIndex <= getNumberOfNodes(c.document.tree, MAX_EQUATION_DEPTH)

\* The tree that starts at an index, and the tree that a message means to the depth supported.
NoTree == [nodeType |-> "null"]
RECURSIVE Unfolded(_, _, _)
Unfolded(nodes, at, depth) ==
    IF at = 0 \/ depth = 0 THEN NoTree
    ELSE [nodeType |-> nodes[at].nodeType, data |-> nodes[at].data,
          left |-> Unfolded(nodes, nodes[at].left, depth - 1),
          right |-> Unfolded(nodes, nodes[at].right, depth - 1)]
RECURSIVE Meant(_, _)
Meant(node, depth) ==
    LET Leaf(type, data) == [nodeType |-> type, data |-> data, left |-> NoTree, right |-> NoTree]
    IN CASE depth = 0 \/ node.is \in {"absent", "unset"} -> NoTree
         [] depth > 0 /\ node.is = "operator" ->
                IF node.left = Absent THEN NoTree
                ELSE [Leaf(node.op, <<>>) EXCEPT
                        !.left = Meant(node.left, depth - 1),
                        !.right = IF node.op = "NOT" THEN NoTree ELSE Meant(node.right, depth - 1)]
         [] depth > 0 /\ node.is = "signal" -> Leaf("SIGNAL", <<node.signal>>)
         [] depth > 0 /\ node.is = "double" -> Leaf("FLOAT", <<node.value>>)
         [] depth > 0 /\ node.is = "boolean" -> Leaf("BOOLEAN", <<node.value>>)
         [] depth > 0 /\ node.is = "geohash" -> Leaf("GEOHASHFUNCTION", <<node.signal>>)
         [] depth > 0 /\ node.is = "window" ->
                Leaf("WINDOWFUNCTION",
                     <<node.signal, IF node.type \in WindowTypes THEN node.type ELSE "NONE">>)
MeantBy(d) ==
    IF d.type = "time" THEN Meant([is |-> "boolean", value |-> "true"], 1)
    ELSE Meant(d.tree, MAX_EQUATION_DEPTH)

Extracted == received' = received

\* A tree is the one that is meant, except where an exempt operator is meant: there it may be any.
RECURSIVE Reads(_, _, _)
Reads(tree, meant, exempt) ==
    \/ meant.nodeType \in exempt
    \/ tree = meant
    \/ /\ NoTree \notin {tree, meant}
       /\ tree.nodeType = meant.nodeType /\ tree.data = meant.data
       /\ Reads(tree.left, meant.left, exempt) /\ Reads(tree.right, meant.right, exempt)

\* Where the matrix points for a scheme there is the tree that its document means. A scheme whose
\* document describes no condition is left out: see ConditionsPointInto.
TreesKept(exempt) ==
    LET schemes == InOrderOfIds(mEnabledCollectionSchemeMap)
    IN \A k \in DOMAIN schemes :
        getCondition(schemes[k]) # 0 =>
            Reads(Unfolded(matrix.expressionNodeStorage, matrix.conditions[k].condition,
                           MAX_EQUATION_DEPTH + 1),
                  MeantBy(schemes[k].document), exempt)

\* The condition the engine evaluates for a scheme is the one its document describes, whatever the
\* conditions of the other schemes that are enabled with it: the pointers survive the vector of the
\* scheme, which never moves under them, the traversal and the copy into the vector of the matrix.
\* What is compared with NOT_EQUAL is exempt: the ingestion makes FALSE of it, see NotEqualKept.
ConditionsKept == [][NothingMoved' /\ (Extracted => TreesKept({"NOT_EQUAL"})')]_vars

\* The same of every operator that the messages have, NOT_EQUAL among them: "COMPARE operators return
\* a bool and their children must return a double" (collection_schemes.proto). The code makes the
\* constant FALSE of COMPARE_NOT_EQUAL, whatever its children.
NotEqualKept == [][Extracted => TreesKept({})']_vars

\* The condition of every scheme "points into InspectionMatrix.expressionNodes" (the comment on
\* ConditionWithCollectedData::condition). The code looks a scheme without a condition up in the map
\* of addresses like any other, which makes it the first node of all, of whatever scheme, or of an
\* empty vector.
ConditionsPointInto ==
    \A k \in DOMAIN matrix.conditions :
        matrix.conditions[k].condition \in DOMAIN matrix.expressionNodeStorage

\* The dictionaries let the consumers do what every enabled scheme asks for, whatever the others ask
\* for and in whatever order they come: a frame wanted raw is collected raw, a signal on a
\* configured channel is to be decoded from its frame with the whole format of the frame, a
\* signal of a PID from its answer. Where a frame is wanted raw twice, the code loses the signals
\* that a later scheme wants of it.
DictionaryServes ==
    [][Extracted =>
        Serves(mDecoderManifest, InOrderOfIds(mEnabledCollectionSchemeMap'), dictionary')]_vars
=============================================================================
