------------------------ MODULE InspectionEngineProofs ------------------------
(***************************************************************************)
(* The CollectionInspectionEngine for any matrices, signals, frames and    *)
(* sizes: its rings hold the latest samples, no trigger is missed, and     *)
(* what a triggered condition publishes is what it asks for, once and in   *)
(* time. And its fixed time windows, of any sizes: what they say of the    *)
(* last two windows is what a look at all samples would.                   *)
(***************************************************************************)
EXTENDS InspectionEngine, FixedWindow, FiniteSetTheorems, SequenceTheorems, WellFoundedInduction, TLAPS

Size(k) == SizeOf(conditions, k)
Slots == [n : Nat, value : SignalValues \cup Nat, consumed : SUBSET Nat]
Buffers(N) == [ring : [0 .. N - 1 -> Slots], mCurrentPosition : 0 .. N - 1, mCounter : Nat,
               mLastSample : Nat]

\* How many samples came after the one at a position of a ring.
Age(b, N, p) ==
    IF b.mCurrentPosition >= p THEN b.mCurrentPosition - p ELSE b.mCurrentPosition - p + N

\* Every position of the ring holds the sample of its age, or none when there are not so many.
RingExact(b, N) ==
    /\ b \in Buffers(N)
    /\ \A p \in 0 .. N - 1 :
           b.ring[p].n = IF Age(b, N, p) < b.mCounter THEN b.mCounter - Age(b, N, p) ELSE 0

\* A buffer is there for items of the matrix, and large enough for each of them.
BuffersFit ==
    /\ conditions \in Seq(Conditions)
    /\ \A k \in DOMAIN buffers :
           /\ k \in Keys(conditions) /\ Size(k) \in Nat \ {0}
           /\ \A i \in Loaded : \A item \in ItemsOf(conditions[i]) :
                  Key(item) = k => item.size <= Size(k)

RingsExact ==
    \A k \in DOMAIN buffers :
        /\ RingExact(buffers[k], Size(k))
        /\ buffers[k].mCounter <= MaxRecorded /\ buffers[k].mLastSample <= now

\* A sample marks the conditions that read its source through its buffer.
Wired ==
    /\ evaluating \in [Keys(conditions) -> SUBSET Loaded]
    /\ \A k \in DOMAIN buffers : \A i \in Loaded :
           k[1] \in conditions[i].reads /\ (\E item \in ItemsOf(conditions[i]) : Key(item) = k)
               => i \in evaluating[k]

ControlOK ==
    /\ now \in 1 .. MaxTime
    /\ mConditionsWithInputSignalChanged \subseteq Loaded
    /\ mConditionsWithConditionCurrentlyTrue \subseteq Loaded
    /\ mConditionsNotTriggeredWaitingPublished \subseteq Loaded
    /\ mLastTrigger \in [Loaded -> 0 .. now]
    /\ mNextConditionToCollectedIndex \in Nat \ {0}
    /\ collecting \in BOOLEAN /\ waitTimeMs \in 1 .. Forever
    /\ sent # NoData => sent.condition \in Loaded /\ sent.samples \subseteq SampleNumbers

\* The mark of a condition at a sample says that the condition has collected it.
MarksTrue ==
    /\ delivered \in [Loaded -> SUBSET SampleNumbers]
    /\ \A k \in DOMAIN buffers : \A p \in 0 .. Size(k) - 1 :
           buffers[k].ring[p].consumed = {i \in Loaded : <<k, buffers[k].ring[p].n>> \in delivered[i]}

IInv ==
    /\ BuffersFit /\ RingsExact /\ Wired /\ ControlOK /\ MarksTrue
    /\ UnmarkedDoesNotHold

-----------------------------------------------------------------------------
(* Lemmas about numbers *)

\* Lemma.  A set of natural numbers has a least element.
LEMMA MinIs ==
  ASSUME NEW S \in SUBSET Nat, S # {}
  PROVE  Min(S) \in S /\ \A y \in S : Min(S) <= y
<1>1. \E x \in S : \A y \in S : ~(<<y, x>> \in OpToRel(<, Nat))
  BY NatLessThanWellFounded, WFMin
<1>2. \A x, y \in S : ~(<<y, x>> \in OpToRel(<, Nat)) => ~(y < x)
  <2> SUFFICES ASSUME NEW x \in S, NEW y \in S, y < x
               PROVE  <<y, x>> \in OpToRel(<, Nat)
    OBVIOUS
  <2>1. <<y, x>> \in Nat \X Nat
    OBVIOUS
  <2> QED BY <2>1 DEF OpToRel
<1>3. \A x, y \in S : ~(y < x) => x <= y
  OBVIOUS
<1>4. \E x \in S : \A y \in S : x <= y
  BY <1>1, <1>2, <1>3
<1> QED BY <1>4 DEF Min

\* Lemma.  A finite set of integers has a greatest element: what is above an element shrinks
\* with every larger one.
LEMMA MaxIs ==
  ASSUME NEW S \in SUBSET Int, IsFiniteSet(S), S # {}
  PROVE  Max(S) \in S /\ \A y \in S : y <= Max(S)
<1> DEFINE Above(x) == {y \in S : y > x}
           F == {Above(x) : x \in S}
<1>1. F \subseteq FiniteSubsetsOf(S) /\ F # {}
  <2>1. \A x \in S : Above(x) \in SUBSET S
    OBVIOUS
  <2>2. \A x \in S : Above(x) \in FiniteSubsetsOf(S)
    BY <2>1, FS_FiniteSubsetsOfFinite, Zenon
  <2> HIDE DEF Above
  <2> QED BY <2>2
<1>2. \E T \in F : \A U \in F : ~(<<U, T>> \in StrictSubsetOrdering(S))
  <2> HIDE DEF F
  <2> QED BY <1>1, FS_StrictSubsetOrderingWellFounded, WFMin
<1>3. PICK x \in S : \A y \in S : ~(<<Above(y), Above(x)>> \in StrictSubsetOrdering(S))
  <2> HIDE DEF Above
  <2> QED BY <1>2
<1>4. ASSUME NEW y \in S
      PROVE  y <= x
  <2>0. SUFFICES ASSUME y > x
                 PROVE  FALSE
    OBVIOUS
  <2>1. Above(y) \subseteq Above(x)
    <3>1. \A z \in S : z > y => z > x
      BY <2>0
    <3> QED BY <3>1
  <2>2. y \in Above(x) /\ y \notin Above(y)
    BY <2>0
  <2>3. Above(y) \in SUBSET S /\ Above(x) \in SUBSET S
    OBVIOUS
  <2> HIDE DEF Above
  <2>4. <<Above(y), Above(x)>> \in StrictSubsetOrdering(S)
    BY <2>1, <2>2, <2>3 DEF StrictSubsetOrdering
  <2> QED BY <1>3, <2>4
<1>5. \A y \in S : x >= y
  BY <1>4
<1>6. Max(S) \in S /\ \A y \in S : Max(S) >= y
  BY <1>5 DEF Max
<1> QED BY <1>6

\* Lemma.  The smaller of two numbers.
LEMMA MinOfTwo ==
  ASSUME NEW a \in Nat, NEW b \in Nat
  PROVE  Min({a, b}) = IF a <= b THEN a ELSE b
<1>1. Min({a, b}) \in {a, b} /\ \A y \in {a, b} : Min({a, b}) <= y
  BY MinIs
<1> QED BY <1>1

\* Lemma.  The remainder of a sum of two positions.
LEMMA Remainder ==
  ASSUME NEW N \in Nat \ {0}, NEW a \in 0 .. N + N - 1
  PROVE  a % N = IF a < N THEN a ELSE a - N
<1>1. CASE a < N
  BY <1>1
<1>2. CASE ~(a < N)
  BY <1>2
<1> QED BY <1>1, <1>2

\* Lemma.  The image of a finite set is finite.
LEMMA FiniteImage ==
  ASSUME NEW S, IsFiniteSet(S), NEW f, DOMAIN f = S
  PROVE  IsFiniteSet({f[x] : x \in S})
<1> DEFINE T == {f[x] : x \in S}
           g == [x \in S |-> f[x]]
<1>1. g \in Surjection(S, T)
  BY DEF Surjection
<1> QED BY <1>1, FS_Surjection

-----------------------------------------------------------------------------
(* Lemmas about the rings *)

\* Lemma.  The size of a ring is the number of its positions.
LEMMA RingSizeIs ==
  ASSUME NEW N \in Nat \ {0}, NEW b \in Buffers(N)
  PROVE  RingSize(b) = N
<1>1. DOMAIN b.ring = 0 .. N - 1
  BY DEF Buffers
<1>2. N - 1 \in Int
  OBVIOUS
<1>3. Cardinality(0 .. N - 1) = IF 0 > N - 1 THEN 0 ELSE (N - 1) - 0 + 1
  BY <1>2, FS_Interval
<1> QED BY <1>1, <1>3 DEF RingSize

\* Lemma.  A position of a ring is the one of its age, and of no other.
LEMMA PositionIs ==
  ASSUME NEW N \in Nat \ {0}, NEW b \in Buffers(N), NEW i \in 0 .. N - 1
  PROVE  Position(b, i) \in 0 .. N - 1 /\ Age(b, N, Position(b, i)) = i
<1>1. b.mCurrentPosition \in 0 .. N - 1
  BY DEF Buffers
<1> DEFINE P == b.mCurrentPosition
<1> HIDE DEF P
<1> DEFINE a == P - i + N
<1>2. a \in 0 .. N + N - 1
  BY <1>1 DEF P
<1>3. Position(b, i) = a % N
  BY RingSizeIs DEF Position, P
<1>4. Position(b, i) = IF a < N THEN a ELSE a - N
  <2> HIDE DEF a
  <2> QED BY <1>2, <1>3, Remainder
<1> QED BY <1>1, <1>4 DEF Age, P

\* Lemma.  What RingExact says of the positions, from the latest sample backwards.
LEMMA RingGives ==
  ASSUME NEW N \in Nat \ {0}, NEW b, RingExact(b, N), NEW i \in 0 .. N - 1, i < b.mCounter
  PROVE  b.ring[Position(b, i)].n = b.mCounter - i
<1>1. b \in Buffers(N)
  BY DEF RingExact
<1>2. Position(b, i) \in 0 .. N - 1 /\ Age(b, N, Position(b, i)) = i
  BY <1>1, PositionIs
<1> QED BY <1>2 DEF RingExact

\* Lemma.  No two positions hold the same sample, and none one that was not recorded.
LEMMA SamplesDiffer ==
  ASSUME NEW N \in Nat \ {0}, NEW b, RingExact(b, N), NEW p \in 0 .. N - 1
  PROVE  /\ b.ring[p].n \in 0 .. b.mCounter
         /\ \A q \in 0 .. N - 1 : b.ring[p].n = b.ring[q].n /\ b.ring[p].n # 0 => p = q
<1>1. b.mCurrentPosition \in 0 .. N - 1 /\ b.mCounter \in Nat
  BY DEF RingExact, Buffers
<1>2. \A q \in 0 .. N - 1 : Age(b, N, q) \in 0 .. N - 1
  BY <1>1 DEF Age
<1>3. \A q \in 0 .. N - 1 : Age(b, N, p) = Age(b, N, q) => p = q
  BY <1>1 DEF Age
<1>4. \A q \in 0 .. N - 1 :
         b.ring[q].n = IF Age(b, N, q) < b.mCounter THEN b.mCounter - Age(b, N, q) ELSE 0
  BY DEF RingExact
<1>5. b.ring[p].n \in 0 .. b.mCounter
  BY <1>1, <1>2, <1>4
<1>6. ASSUME NEW q \in 0 .. N - 1, b.ring[p].n = b.ring[q].n, b.ring[p].n # 0
      PROVE  p = q
  <2>1. Age(b, N, p) = Age(b, N, q)
    BY <1>1, <1>2, <1>4, <1>6
  <2> QED BY <1>3, <2>1
<1> QED BY <1>5, <1>6

\* Lemma.  Recording a sample makes every other one a sample older and overwrites the oldest.
LEMMA RecordedIs ==
  ASSUME NEW N \in Nat \ {0}, NEW b, RingExact(b, N),
         NEW value \in SignalValues \cup Nat, NEW t \in Nat
  PROVE  /\ RingExact(Recorded(b, value, t), N)
         /\ Recorded(b, value, t).mCounter = b.mCounter + 1
         /\ Recorded(b, value, t).mLastSample = t
         /\ \A p \in 0 .. N - 1 :
                \/ Recorded(b, value, t).ring[p] = b.ring[p]
                \/ /\ Recorded(b, value, t).ring[p].n = b.mCounter + 1
                   /\ Recorded(b, value, t).ring[p].consumed = {}
<1> DEFINE P == NextPosition(b)
           c == Recorded(b, value, t)
           slot == [n |-> b.mCounter + 1, value |-> value, consumed |-> {}]
<1>1. b \in Buffers(N) /\ b.mCurrentPosition \in 0 .. N - 1 /\ b.mCounter \in Nat
  BY DEF RingExact, Buffers
<1>2. P = IF b.mCurrentPosition + 1 >= N THEN 0 ELSE b.mCurrentPosition + 1
  BY <1>1, RingSizeIs DEF NextPosition
<1>3. P \in 0 .. N - 1
  BY <1>1, <1>2
<1>4. c = [ring |-> [b.ring EXCEPT ![P] = slot], mCurrentPosition |-> P,
           mCounter |-> b.mCounter + 1, mLastSample |-> t]
  <2>1. c = [b EXCEPT !.ring[P] = slot, !.mCurrentPosition = P, !.mCounter = @ + 1, !.mLastSample = t]
    BY DEF Recorded
  <2> HIDE DEF c, P, slot
  <2> QED BY <1>1, <2>1 DEF Buffers
<1>5. slot \in Slots
  BY <1>1 DEF Slots
<1> HIDE DEF c, P, slot
<1>6. c \in Buffers(N)
  BY <1>1, <1>3, <1>4, <1>5 DEF Buffers
<1>7. c.ring[P] = slot /\ \A p \in 0 .. N - 1 : p # P => c.ring[p] = b.ring[p]
  BY <1>1, <1>3, <1>4 DEF Buffers
<1>8. slot.n = b.mCounter + 1 /\ slot.consumed = {}
  BY DEF slot
<1>9. ASSUME NEW p \in 0 .. N - 1
      PROVE  c.ring[p].n = IF Age(c, N, p) < c.mCounter THEN c.mCounter - Age(c, N, p) ELSE 0
  <2>1. c.mCurrentPosition = P /\ c.mCounter = b.mCounter + 1
    BY <1>4
  <2>2. CASE p = P
    <3>1. Age(c, N, p) = 0
      BY <1>3, <2>1, <2>2 DEF Age
    <3> QED BY <1>1, <1>7, <1>8, <2>1, <2>2, <3>1
  <2>3. CASE p # P
    <3>1. Age(c, N, p) = Age(b, N, p) + 1 /\ Age(b, N, p) \in Nat
      BY <1>1, <1>2, <2>1, <2>3 DEF Age
    <3>2. b.ring[p].n = IF Age(b, N, p) < b.mCounter THEN b.mCounter - Age(b, N, p) ELSE 0
      BY DEF RingExact
    <3> QED BY <1>1, <1>7, <2>1, <2>3, <3>1, <3>2
  <2> QED BY <2>2, <2>3
<1>10. RingExact(c, N)
  BY <1>6, <1>9 DEF RingExact
<1>11. c.mCounter = b.mCounter + 1 /\ c.mLastSample = t
  BY <1>4
<1> QED BY <1>7, <1>8, <1>10, <1>11 DEF c

-----------------------------------------------------------------------------
(* Lemmas about conditions and their items *)

\* Lemma.  The parts of a condition, and its finitely many items.
LEMMA ConditionIs ==
  ASSUME NEW c \in Conditions
  PROVE  /\ c.items \in Seq(Items) /\ c.reads \subseteq Signals
         /\ c.minimumPublishInterval \in Nat /\ c.afterDuration \in Nat
         /\ IsFiniteSet(ItemsOf(c)) /\ ItemsOf(c) \subseteq Items
<1>1. c.items \in Seq(Items) /\ c.reads \subseteq Signals /\ c.minimumPublishInterval \in Nat
         /\ c.afterDuration \in Nat
  BY DEF Conditions
<1>2. DOMAIN c.items = 1 .. Len(c.items) /\ Len(c.items) \in Nat
  BY <1>1
<1>3. IsFiniteSet(DOMAIN c.items)
  BY <1>2, FS_Interval
<1>4. IsFiniteSet(ItemsOf(c))
  BY <1>3, FiniteImage DEF ItemsOf
<1>5. ItemsOf(c) \subseteq Items
  BY <1>1 DEF ItemsOf
<1> QED BY <1>1, <1>4, <1>5

\* Lemma.  A buffer is as large as its largest item.
LEMMA SizeIs ==
  ASSUME NEW cs \in Seq(Conditions), NEW k \in Keys(cs)
  PROVE  /\ SizeOf(cs, k) \in Nat
         /\ \E i \in DOMAIN cs : \E item \in ItemsOf(cs[i]) : item.size = SizeOf(cs, k)
         /\ \A i \in DOMAIN cs : \A item \in ItemsOf(cs[i]) :
                Key(item) = k => item.size <= SizeOf(cs, k)
<1> DEFINE All == UNION {ItemsOf(cs[i]) : i \in DOMAIN cs}
           Mine == {it \in All : Key(it) = k}
           S == {item.size : item \in Mine}
           items == [i \in DOMAIN cs |-> ItemsOf(cs[i])]
           size == [item \in Mine |-> item.size]
<1>1. \A i \in DOMAIN cs : cs[i] \in Conditions
  OBVIOUS
<1>2. IsFiniteSet(All)
  <2>1. IsFiniteSet(DOMAIN cs)
    <3>1. DOMAIN cs = 1 .. Len(cs) /\ Len(cs) \in Nat
      OBVIOUS
    <3> QED BY <3>1, FS_Interval
  <2>2. IsFiniteSet({items[i] : i \in DOMAIN cs})
    BY <2>1, FiniteImage
  <2>3. {items[i] : i \in DOMAIN cs} = {ItemsOf(cs[i]) : i \in DOMAIN cs}
    OBVIOUS
  <2>4. \A T \in {ItemsOf(cs[i]) : i \in DOMAIN cs} : IsFiniteSet(T)
    BY <1>1, ConditionIs
  <2> QED BY <2>2, <2>3, <2>4, FS_UNION
<1>3. All \subseteq Items
  BY <1>1, ConditionIs
<1>4. \A item \in Mine : item.size \in Nat
  BY <1>3 DEF Items
<1>5. IsFiniteSet(Mine)
  BY <1>2, FS_Subset
<1>6. IsFiniteSet(S)
  <2>1. IsFiniteSet({size[x] : x \in Mine})
    BY <1>5, FiniteImage
  <2> QED BY <2>1
<1>7. S \subseteq Nat
  BY <1>4
<1>8. S # {}
  BY DEF Keys
<1>9. Max(S) \in S /\ \A y \in S : y <= Max(S)
  <2> HIDE DEF S
  <2> QED BY <1>6, <1>7, <1>8, MaxIs
<1>10. SizeOf(cs, k) = Max(S)
  BY DEF SizeOf
<1> QED BY <1>7, <1>9, <1>10

\* Lemma.  A signal is read from a buffer of its own, which the condition has an item for.
LEMMA ReadFrom ==
  ASSUME NEW c \in Conditions, NEW s, \E item \in ItemsOf(c) : item.source = s
  PROVE  \E item \in ItemsOf(c) : item.source = s /\ Key(item) = EvaluationKey(c, s)
<1> DEFINE S == {i \in DOMAIN c.items : c.items[i].source = s}
<1>1. DOMAIN c.items = 1 .. Len(c.items) /\ Len(c.items) \in Nat
  BY ConditionIs
<1>2. S \subseteq Nat /\ S # {}
  BY <1>1 DEF ItemsOf
<1>3. IsFiniteSet(DOMAIN c.items)
  BY <1>1, FS_Interval
<1>4. IsFiniteSet(S)
  BY <1>3, FS_Subset
<1>5. Max(S) \in S
  <2>1. S \in SUBSET Int
    BY <1>2
  <2> QED BY <1>2, <1>4, <2>1, MaxIs
<1>6. EvaluationKey(c, s) = Key(c.items[Max(S)])
  BY DEF EvaluationKey
<1>7. c.items[Max(S)] \in ItemsOf(c) /\ c.items[Max(S)].source = s
  BY <1>5 DEF ItemsOf
<1> QED BY <1>6, <1>7

-----------------------------------------------------------------------------
(* The steps of the engine *)

\* Lemma.  A sample number is one of a buffer that has recorded as many.
LEMMA InSampleNumbers ==
  ASSUME NEW k, NEW n
  PROVE  <<k, n>> \in SampleNumbers <=> k \in DOMAIN buffers /\ n \in 1 .. buffers[k].mCounter
BY DEF SampleNumbers

\* Lemma.  A condition that holds after a step held before it, if the step added no sample to
\* the buffers it reads.
LEMMA HoldsKept ==
  ASSUME conditions \in Seq(Conditions), UNCHANGED conditions, NEW i \in Loaded,
         Holds(conditions[i])',
         \A k \in DOMAIN buffers' :
             k[1] \in conditions[i].reads /\ (\E item \in ItemsOf(conditions[i]) : Key(item) = k) =>
                 /\ k \in DOMAIN buffers
                 /\ buffers'[k].mCounter = buffers[k].mCounter
                 /\ buffers'[k].ring[buffers'[k].mCurrentPosition].value
                        = buffers[k].ring[buffers[k].mCurrentPosition].value
  PROVE  Holds(conditions[i])
<1>1. PICK c \in Conditions : c = conditions[i] /\ c = conditions'[i]
  <2>1. conditions[i] \in Conditions
    BY DEF Loaded
  <2> QED BY <2>1
<1>2. Holds(c)'
  BY <1>1
<1>3. ASSUME NEW s \in c.reads
      PROVE  /\ \E item \in ItemsOf(c) : item.source = s
             /\ HasValue(EvaluationKey(c, s)) /\ Latest(EvaluationKey(c, s)) \in c.values
  <2> DEFINE k == EvaluationKey(c, s)
  <2>1. /\ \E item \in ItemsOf(c) : item.source = s
        /\ k \in DOMAIN buffers' /\ buffers'[k].mCounter > 0
        /\ buffers'[k].ring[buffers'[k].mCurrentPosition].value \in c.values
    BY <1>2 DEF Holds, HasValue, Latest
  <2>2. PICK item \in ItemsOf(c) : item.source = s /\ Key(item) = k
    BY <2>1, ReadFrom
  <2>3. k[1] = s
    BY <2>2 DEF Key
  <2> HIDE DEF k
  <2>4. /\ k \in DOMAIN buffers /\ buffers'[k].mCounter = buffers[k].mCounter
        /\ buffers'[k].ring[buffers'[k].mCurrentPosition].value
               = buffers[k].ring[buffers[k].mCurrentPosition].value
    BY <1>1, <2>1, <2>2, <2>3
  <2> QED BY <2>1, <2>4 DEF HasValue, Latest, k
<1> QED BY <1>1, <1>3 DEF Holds

\* Lemma.  An engine without a matrix satisfies the invariant.
LEMMA InitIInv == Init => IInv
<1> SUFFICES ASSUME Init PROVE IInv
  OBVIOUS
<1>1. conditions \in Seq(Conditions) /\ Loaded = {} /\ DOMAIN buffers = {} /\ DOMAIN evaluating = {}
  BY DEF Init, Loaded
<1>2. Keys(conditions) = {} /\ evaluating \in [Keys(conditions) -> SUBSET Loaded]
  BY <1>1 DEF Keys, Init, Loaded
<1>3. BuffersFit /\ RingsExact /\ Wired
  BY <1>1, <1>2 DEF BuffersFit, RingsExact, Wired
<1>4. ControlOK
  <2>1. now \in 1 .. MaxTime /\ waitTimeMs \in 1 .. Forever
    BY BoundsAssumption DEF Init, Forever
  <2>2. mLastTrigger \in [Loaded -> 0 .. now]
    BY <1>1 DEF Init
  <2>3. /\ mConditionsWithInputSignalChanged \subseteq Loaded
        /\ mConditionsWithConditionCurrentlyTrue \subseteq Loaded
        /\ mConditionsNotTriggeredWaitingPublished \subseteq Loaded
    BY DEF Init
  <2>4. collecting \in BOOLEAN
    BY DEF Init
  <2>5. sent = NoData /\ mNextConditionToCollectedIndex \in Nat \ {0}
    BY DEF Init
  <2> QED BY <2>1, <2>2, <2>3, <2>4, <2>5 DEF ControlOK
<1>5. MarksTrue /\ UnmarkedDoesNotHold
  BY <1>1 DEF Init, MarksTrue, UnmarkedDoesNotHold
<1> QED BY <1>3, <1>4, <1>5 DEF IInv

\* Lemma.  What the engine takes over from a matrix.
LEMMA TakenIs ==
  ASSUME NEW m \in Matrices
  PROVE  Taken(m) \in Seq(Conditions)
<1> DEFINE n == Min({Len(m), MaxConditions})
<1>1. m \in Seq(Conditions) /\ Len(m) \in Nat /\ MaxConditions \in Nat
  BY MatricesAssumption, BoundsAssumption
<1>2. n \in Nat /\ n <= Len(m)
  BY <1>1, MinOfTwo
<1>3. \A i \in 1 .. n : m[i] \in Conditions
  BY <1>1, <1>2
<1>4. Allowed(m) \in Seq(Conditions)
  <2>1. Allowed(m) = SubSeq(m, 1, n)
    BY DEF Allowed
  <2> HIDE DEF n
  <2> QED BY <1>2, <1>3, <2>1, SubSeqProperties
<1>5. CASE Malformed(Allowed(m)) = {}
  BY <1>4, <1>5 DEF Taken
<1>6. CASE Malformed(Allowed(m)) # {}
  <2> DEFINE cs == Allowed(m)
             k == Min(Malformed(cs))
  <2>1. Malformed(cs) \subseteq DOMAIN cs /\ DOMAIN cs = 1 .. Len(cs) /\ Len(cs) \in Nat
    BY <1>4 DEF Malformed
  <2>2. k \in 1 .. Len(cs)
    <3>1. Malformed(cs) \in SUBSET Nat
      BY <2>1
    <3> QED BY <1>6, <2>1, <3>1, MinIs
  <2>3. \A i \in 1 .. k : cs[i] \in Conditions
    BY <1>4, <2>2
  <2>4. Taken(m) = SubSeq(cs, 1, k)
    BY <1>6 DEF Taken
  <2> HIDE DEF cs, k
  <2> QED BY <1>6, <2>2, <2>3, <2>4, SubSeqProperties DEF cs
<1> QED BY <1>5, <1>6

\* Lemma.  A new matrix: empty rings of the size that is asked for, every condition marked.
LEMMA MatrixStep ==
  ASSUME IInv, NEW m \in Matrices, onChangeInspectionMatrix(m)
  PROVE  IInv'
<1> DEFINE cs == Taken(m)
           complete == Malformed(Allowed(m)) = {}
<1>1. cs \in Seq(Conditions)
  BY TakenIs
<1> HIDE DEF cs, complete
<1>2. PICK allocated :
            /\ allocated \in IF complete THEN Allocations(cs) ELSE {{}}
            /\ buffers' = [k \in {x \in allocated : SizeOf(cs, x) > 0} |-> EmptyBuffer(SizeOf(cs, k))]
  BY DEF onChangeInspectionMatrix, cs, complete
<1> DEFINE ks == {x \in allocated : SizeOf(cs, x) > 0}
<1>3. ks \subseteq Keys(cs) /\ (ks # {} => complete) /\ (\A k \in ks : SizeOf(cs, k) > 0)
  BY <1>2 DEF Allocations
<1>2a. buffers' = [k \in ks |-> EmptyBuffer(SizeOf(cs, k))]
  BY <1>2
<1> HIDE DEF ks
<1>4. conditions' = cs /\ Loaded' = DOMAIN cs /\ DOMAIN buffers' = ks
  BY <1>2a DEF onChangeInspectionMatrix, Loaded, cs
<1>5. ASSUME NEW k \in ks
      PROVE  /\ SizeOf(cs, k) \in Nat \ {0}
             /\ \A i \in DOMAIN cs : \A item \in ItemsOf(cs[i]) :
                    Key(item) = k => item.size <= SizeOf(cs, k)
  <2>1. k \in Keys(cs) /\ complete
    BY <1>3
  <2> QED BY <1>1, <1>3, <2>1, SizeIs
<1>6. BuffersFit'
  BY <1>1, <1>3, <1>4, <1>5 DEF BuffersFit, Size
<1>7. ASSUME NEW N \in Nat \ {0}
      PROVE  /\ RingExact(EmptyBuffer(N), N)
             /\ EmptyBuffer(N).mCounter = 0 /\ EmptyBuffer(N).mLastSample = 0
             /\ \A p \in 0 .. N - 1 : EmptyBuffer(N).ring[p].consumed = {}
                                        /\ EmptyBuffer(N).ring[p].n = 0
  <2>1. EmptyBuffer(N).ring = [i \in 0 .. N - 1 |-> [n |-> 0, value |-> 0, consumed |-> {}]]
    BY DEF EmptyBuffer, EmptyRing
  <2>2. [n |-> 0, value |-> 0, consumed |-> {}] \in Slots
    BY DEF Slots
  <2>3. EmptyBuffer(N).ring \in [0 .. N - 1 -> Slots]
    BY <2>1, <2>2
  <2>4. EmptyBuffer(N) \in Buffers(N)
    BY <2>3 DEF EmptyBuffer, Buffers
  <2>5. EmptyBuffer(N).mCounter = 0 /\ EmptyBuffer(N).mLastSample = 0
          /\ EmptyBuffer(N).mCurrentPosition = N - 1
    BY DEF EmptyBuffer
  <2>6. \A p \in 0 .. N - 1 : EmptyBuffer(N).ring[p].consumed = {} /\ EmptyBuffer(N).ring[p].n = 0
    BY <2>1
  <2>7. \A p \in 0 .. N - 1 : ~(Age(EmptyBuffer(N), N, p) < 0)
    BY <2>5 DEF Age
  <2> DEFINE e == EmptyBuffer(N)
  <2> HIDE DEF e
  <2>8. RingExact(e, N)
    BY <2>4, <2>5, <2>6, <2>7 DEF RingExact, e
  <2> QED BY <2>5, <2>6, <2>8 DEF e
<1>8. \A k \in ks : buffers'[k] = EmptyBuffer(Size(k)') /\ Size(k)' \in Nat \ {0}
  BY <1>2a, <1>4, <1>5 DEF Size
<1>9. now' = now /\ now \in Nat
  BY DEF onChangeInspectionMatrix, IInv, ControlOK
<1>10. RingsExact'
  BY <1>4, <1>7, <1>8, <1>9, BoundsAssumption DEF RingsExact
<1>11. Wired'
  <2>1. evaluating' = [k \in Keys(cs) |->
                         {i \in DOMAIN cs : complete /\ k[1] \in cs[i].reads
                                              /\ k \in {Key(it) : it \in ItemsOf(cs[i])}}]
    BY DEF onChangeInspectionMatrix, cs, complete
  <2>2. evaluating' \in [Keys(cs) -> SUBSET DOMAIN cs]
    BY <2>1
  <2>3. ASSUME NEW k \in ks, NEW i \in DOMAIN cs, k[1] \in cs[i].reads,
               \E item \in ItemsOf(cs[i]) : Key(item) = k
        PROVE  i \in evaluating'[k]
    BY <1>3, <2>1, <2>3
  <2> QED BY <1>4, <2>2, <2>3 DEF Wired
<1>12. ControlOK'
  <2>1. /\ mConditionsWithInputSignalChanged' = {}
        /\ mConditionsWithConditionCurrentlyTrue' \subseteq DOMAIN cs
        /\ mConditionsNotTriggeredWaitingPublished' = DOMAIN cs
        /\ mLastTrigger' = [i \in DOMAIN cs |-> 0]
        /\ mNextConditionToCollectedIndex' = 1
        /\ sent' = NoData
        /\ UNCHANGED <<now, collecting, waitTimeMs>>
    BY DEF onChangeInspectionMatrix, cs
  <2> QED BY <1>4, <2>1 DEF IInv, ControlOK, Forever
<1>13. delivered' = [i \in DOMAIN cs |-> {}]
  BY DEF onChangeInspectionMatrix, cs
<1>14. MarksTrue'
  BY <1>4, <1>7, <1>8, <1>13 DEF MarksTrue
<1>15. UnmarkedDoesNotHold'
  <2>1. CASE complete
    <3>1. mConditionsWithConditionCurrentlyTrue' = DOMAIN cs
      BY <2>1 DEF onChangeInspectionMatrix, cs, complete
    <3> QED BY <1>4, <3>1 DEF UnmarkedDoesNotHold
  <2>2. CASE ~complete
    <3>1. DOMAIN buffers' = {}
      BY <1>3, <1>4, <2>2
    <3> QED BY <3>1 DEF UnmarkedDoesNotHold, Holds, HasValue
  <2> QED BY <2>1, <2>2
<1> QED BY <1>6, <1>10, <1>11, <1>12, <1>14, <1>15 DEF IInv

\* Lemma.  Samples that come in: the rings turn, and a new sample bears no mark.
LEMMA RecordStep ==
  ASSUME IInv, UNCHANGED <<now, conditions, evaluating, delivered>>,
         NEW ks \in SUBSET DOMAIN buffers, \A k \in ks : buffers[k].mCounter < MaxRecorded,
         NEW value, \A k \in ks : value[k] \in SignalValues \cup Nat,
         buffers' = [k \in DOMAIN buffers |->
                        IF k \in ks THEN Recorded(buffers[k], value[k], now) ELSE buffers[k]]
  PROVE  BuffersFit' /\ RingsExact' /\ Wired' /\ MarksTrue'
<1>1. DOMAIN buffers' = DOMAIN buffers /\ Loaded' = Loaded /\ \A k : Size(k)' = Size(k)
  BY DEF Loaded, Size
<1>2. BuffersFit' /\ Wired'
  BY <1>1 DEF IInv, BuffersFit, Wired
<1>3. \A k \in DOMAIN buffers : Size(k) \in Nat \ {0} /\ RingExact(buffers[k], Size(k))
  BY DEF IInv, BuffersFit, RingsExact
<1>4. \A k \in DOMAIN buffers : buffers[k].mCounter \in Nat
  BY <1>3 DEF RingExact, Buffers
<1>5. now \in Nat /\ MaxRecorded \in Nat
  BY BoundsAssumption DEF IInv, ControlOK
<1>6. ASSUME NEW k \in ks
      PROVE  /\ RingExact(buffers'[k], Size(k))
             /\ buffers'[k].mCounter = buffers[k].mCounter + 1 /\ buffers'[k].mLastSample = now
             /\ \A p \in 0 .. Size(k) - 1 :
                   \/ buffers'[k].ring[p] = buffers[k].ring[p]
                   \/ /\ buffers'[k].ring[p].n = buffers[k].mCounter + 1
                      /\ buffers'[k].ring[p].consumed = {}
  <2>1. buffers'[k] = Recorded(buffers[k], value[k], now) /\ value[k] \in SignalValues \cup Nat
    OBVIOUS
  <2> DEFINE b == buffers[k]
             v == value[k]
             N == Size(k)
  <2>2. N \in Nat \ {0} /\ RingExact(b, N)
    BY <1>3
  <2> HIDE DEF b, v, N
  <2>3. /\ RingExact(Recorded(b, v, now), N)
        /\ Recorded(b, v, now).mCounter = b.mCounter + 1
        /\ Recorded(b, v, now).mLastSample = now
        /\ \A p \in 0 .. N - 1 :
              \/ Recorded(b, v, now).ring[p] = b.ring[p]
              \/ /\ Recorded(b, v, now).ring[p].n = b.mCounter + 1
                 /\ Recorded(b, v, now).ring[p].consumed = {}
    BY <1>5, <2>1, <2>2, RecordedIs DEF v
  <2> QED BY <2>1, <2>3 DEF b, v, N
<1>7. \A k \in DOMAIN buffers \ ks : buffers'[k] = buffers[k]
  OBVIOUS
<1>8. RingsExact'
  <2>1. ASSUME NEW k \in DOMAIN buffers
        PROVE  /\ RingExact(buffers'[k], Size(k))
               /\ buffers'[k].mCounter <= MaxRecorded /\ buffers'[k].mLastSample <= now
    <3>1. CASE k \in ks
      <4>1. buffers[k].mCounter + 1 <= MaxRecorded
        BY <1>4, <1>5, <3>1
      <4> QED BY <1>5, <1>6, <3>1, <4>1
    <3>2. CASE k \notin ks
      BY <1>7, <3>2 DEF IInv, RingsExact
    <3> QED BY <3>1, <3>2
  <2> QED BY <1>1, <2>1 DEF RingsExact
<1>9. \A k \in DOMAIN buffers : buffers'[k].mCounter \in Nat /\ buffers'[k].mCounter >= buffers[k].mCounter
  BY <1>4, <1>6, <1>7
<1>10. SampleNumbers \subseteq SampleNumbers'
  BY <1>1, <1>4, <1>9 DEF SampleNumbers
<1>11. ASSUME NEW k \in DOMAIN buffers, NEW p \in 0 .. Size(k) - 1
       PROVE  buffers'[k].ring[p].consumed
                 = {i \in Loaded : <<k, buffers'[k].ring[p].n>> \in delivered[i]}
  <2>1. CASE buffers'[k].ring[p] = buffers[k].ring[p]
    <3>1. buffers[k].ring[p].consumed
            = {i \in Loaded : <<k, buffers[k].ring[p].n>> \in delivered[i]}
      BY DEF IInv, MarksTrue
    <3> QED BY <2>1, <3>1, Zenon
  <2>2. CASE buffers'[k].ring[p].n = buffers[k].mCounter + 1 /\ buffers'[k].ring[p].consumed = {}
    <3>1. <<k, buffers[k].mCounter + 1>> \notin SampleNumbers
      BY <1>4, InSampleNumbers
    <3> QED BY <2>2, <3>1 DEF IInv, MarksTrue
  <2> QED BY <1>6, <1>7, <2>1, <2>2
<1>12. delivered' \in [Loaded -> SUBSET SampleNumbers']
  BY <1>10 DEF IInv, MarksTrue
<1>13. MarksTrue'
  BY <1>1, <1>11, <1>12 DEF MarksTrue
<1> QED BY <1>2, <1>8, <1>13

\* Lemma.  A signal marks the conditions that read it through a buffer that takes it.
LEMMA SignalStep ==
  ASSUME IInv, NEW s \in Signals, NEW v \in SignalValues, addNewSignal(s, now, v)
  PROVE  IInv'
<1> DEFINE ks == Accepting(s, now)
           value == [k \in ks |-> v]
<1>1. ks \subseteq DOMAIN buffers /\ \A k \in ks : k[1] = s
  BY DEF Accepting
<1>2. /\ \A k \in ks : buffers[k].mCounter < MaxRecorded
      /\ UNCHANGED <<now, conditions, evaluating, delivered>>
      /\ mConditionsWithInputSignalChanged'
            = mConditionsWithInputSignalChanged \cup UNION {evaluating[k] : k \in ks}
      /\ UNCHANGED <<mConditionsWithConditionCurrentlyTrue, mConditionsNotTriggeredWaitingPublished,
                     mLastTrigger, mNextConditionToCollectedIndex, collecting, waitTimeMs>>
      /\ sent' = NoData
  BY DEF addNewSignal
<1>3. buffers' = [k \in DOMAIN buffers |->
                    IF k \in ks THEN Recorded(buffers[k], value[k], now) ELSE buffers[k]]
  BY DEF addNewSignal
<1> HIDE DEF ks
<1>4. \A k \in ks : value[k] \in SignalValues \cup Nat
  OBVIOUS
<1>5. BuffersFit' /\ RingsExact' /\ Wired' /\ MarksTrue'
  <2> HIDE DEF value
  <2> QED BY <1>1, <1>2, <1>3, <1>4, RecordStep
<1>6. \A k \in ks : evaluating[k] \subseteq Loaded
  BY <1>1 DEF IInv, Wired, BuffersFit
<1>7. ControlOK'
  BY <1>2, <1>6 DEF IInv, ControlOK, Loaded
<1>8. UnmarkedDoesNotHold'
  <2> SUFFICES ASSUME NEW i \in Loaded,
                      i \notin mConditionsWithInputSignalChanged' \cup mConditionsWithConditionCurrentlyTrue',
                      conditions[i].reads # {}, Holds(conditions[i])'
               PROVE  FALSE
    BY <1>2 DEF UnmarkedDoesNotHold, Loaded
  <2>1. \A k \in ks : i \notin evaluating[k]
    BY <1>2
  <2>2. ASSUME NEW k \in DOMAIN buffers', k[1] \in conditions[i].reads,
               \E item \in ItemsOf(conditions[i]) : Key(item) = k
        PROVE  k \in DOMAIN buffers /\ buffers'[k] = buffers[k]
    <3>1. k \in DOMAIN buffers
      BY <1>3
    <3>2. i \in evaluating[k]
      BY <2>2, <3>1 DEF IInv, Wired
    <3> QED BY <1>3, <2>1, <3>1, <3>2
  <2>3. conditions \in Seq(Conditions)
    BY DEF IInv, BuffersFit
  <2>4. Holds(conditions[i])
    BY <1>2, <2>2, <2>3, HoldsKept
  <2> QED BY <1>2, <2>4 DEF IInv, UnmarkedDoesNotHold
<1> QED BY <1>5, <1>7, <1>8 DEF IInv

\* Lemma.  A raw frame is recorded and marks nothing: no condition reads one.
LEMMA FrameStep ==
  ASSUME IInv, NEW f \in Frames, NEW size \in FrameSizes, addNewRawCanFrame(f, now, size)
  PROVE  IInv'
<1> DEFINE ks == Accepting(f, now)
           value == [k \in ks |-> StoredSize(buffers[k], size)]
<1>1. ks \subseteq DOMAIN buffers /\ \A k \in ks : k[1] = f
  BY DEF Accepting
<1>2. /\ \A k \in ks : buffers[k].mCounter < MaxRecorded
      /\ UNCHANGED <<now, conditions, evaluating, delivered>>
      /\ UNCHANGED <<mConditionsWithInputSignalChanged, mConditionsWithConditionCurrentlyTrue,
                     mConditionsNotTriggeredWaitingPublished,
                     mLastTrigger, mNextConditionToCollectedIndex, collecting, waitTimeMs>>
      /\ sent' = NoData
  BY DEF addNewRawCanFrame, bits
<1>3. buffers' = [k \in DOMAIN buffers |->
                    IF k \in ks THEN Recorded(buffers[k], value[k], now) ELSE buffers[k]]
  BY DEF addNewRawCanFrame
<1> HIDE DEF ks
<1>4. \A k \in ks : value[k] \in SignalValues \cup Nat
  <2> SUFFICES ASSUME NEW k \in ks
               PROVE  StoredSize(buffers[k], size) \in Nat
    OBVIOUS
  <2>1. RingSize(buffers[k]) \in Nat
    <3>1. Size(k) \in Nat \ {0} /\ buffers[k] \in Buffers(Size(k))
      BY <1>1 DEF IInv, BuffersFit, RingsExact, RingExact
    <3> QED BY <3>1, RingSizeIs
  <2>2. RingSize(buffers[k]) % 256 \in Nat /\ size \in Nat
    BY <2>1, BoundsAssumption
  <2> QED BY <2>2, MinOfTwo DEF StoredSize
<1>5. BuffersFit' /\ RingsExact' /\ Wired' /\ MarksTrue'
  <2> HIDE DEF value
  <2> QED BY <1>1, <1>2, <1>3, <1>4, RecordStep
<1>7. ControlOK'
  BY <1>2 DEF IInv, ControlOK, Loaded
<1>8. UnmarkedDoesNotHold'
  <2> SUFFICES ASSUME NEW i \in Loaded,
                      i \notin mConditionsWithInputSignalChanged \cup mConditionsWithConditionCurrentlyTrue,
                      conditions[i].reads # {}, Holds(conditions[i])'
               PROVE  FALSE
    BY <1>2 DEF UnmarkedDoesNotHold, Loaded
  <2>1. conditions \in Seq(Conditions) /\ conditions[i].reads \subseteq Signals
    BY ConditionIs DEF IInv, BuffersFit, Loaded
  <2>2. ASSUME NEW k \in DOMAIN buffers', k[1] \in conditions[i].reads
        PROVE  k \in DOMAIN buffers /\ buffers'[k] = buffers[k]
    <3>1. k \notin ks
      BY <1>1, <2>1, <2>2, BoundsAssumption
    <3> QED BY <1>3, <3>1
  <2>3. Holds(conditions[i])
    BY <1>2, <2>1, <2>2, HoldsKept
  <2> QED BY <2>3 DEF IInv, UnmarkedDoesNotHold
<1> QED BY <1>5, <1>7, <1>8 DEF IInv

\* Lemma.  A step that leaves matrix, buffers and what was collected alone.
LEMMA DataKept ==
  ASSUME IInv, UNCHANGED <<conditions, buffers, evaluating, delivered>>, now' \in {now, now + 1}
  PROVE  BuffersFit' /\ RingsExact' /\ Wired' /\ MarksTrue' /\ UNCHANGED SampleNumbers
<1>1. Loaded' = Loaded /\ SampleNumbers' = SampleNumbers /\ \A k : Size(k)' = Size(k)
  BY DEF Loaded, SampleNumbers, Size
<1>2. now \in Nat /\ \A k \in DOMAIN buffers : buffers[k].mLastSample \in Nat
  BY DEF IInv, ControlOK, RingsExact, RingExact, Buffers
<1>3. RingsExact'
  BY <1>1, <1>2 DEF IInv, RingsExact
<1>4. BuffersFit'
  BY <1>1 DEF IInv, BuffersFit
<1>5. Wired'
  BY <1>1 DEF IInv, Wired
<1>6. MarksTrue'
  BY <1>1 DEF IInv, MarksTrue
<1> QED BY <1>1, <1>3, <1>4, <1>5, <1>6

\* Lemma.  Without a sample or an evaluation nothing that is not marked comes to hold.
LEMMA StillUnmarked ==
  ASSUME IInv, UNCHANGED <<conditions, bits>>, DOMAIN buffers' = DOMAIN buffers,
         \A k \in DOMAIN buffers :
             /\ buffers'[k].mCounter = buffers[k].mCounter
             /\ buffers'[k].ring[buffers'[k].mCurrentPosition].value
                    = buffers[k].ring[buffers[k].mCurrentPosition].value
  PROVE  UnmarkedDoesNotHold'
<1> SUFFICES ASSUME NEW i \in Loaded,
                    i \notin mConditionsWithInputSignalChanged \cup mConditionsWithConditionCurrentlyTrue,
                    conditions[i].reads # {}, Holds(conditions[i])'
             PROVE  FALSE
  BY DEF UnmarkedDoesNotHold, Loaded, bits
<1>1. conditions \in Seq(Conditions)
  BY DEF IInv, BuffersFit
<1>2. Holds(conditions[i])
  BY <1>1, HoldsKept
<1> QED BY <1>2 DEF IInv, UnmarkedDoesNotHold

\* Lemma.  Trouble codes and the passing of time leave the engine's marks alone.
LEMMA QuietStep ==
  ASSUME IInv, setActiveDTCs \/ Tick \/ UNCHANGED vars
  PROVE  IInv'
<1>1. /\ UNCHANGED <<conditions, buffers, evaluating, bits, mConditionsNotTriggeredWaitingPublished,
                     mLastTrigger, mNextConditionToCollectedIndex, collecting, waitTimeMs, delivered>>
      /\ now' \in {now, now + 1} /\ now' <= MaxTime /\ sent' \in {sent, NoData}
  BY BoundsAssumption DEF setActiveDTCs, Tick, vars, IInv, ControlOK
<1>2. BuffersFit' /\ RingsExact' /\ Wired' /\ MarksTrue' /\ SampleNumbers' = SampleNumbers
  BY <1>1, DataKept
<1>3. ControlOK'
  <2>1. Loaded' = Loaded /\ now \in Nat /\ now' \in 1 .. MaxTime
    BY <1>1, BoundsAssumption DEF Loaded, IInv, ControlOK
  <2>2. mLastTrigger' \in [Loaded -> 0 .. now']
    BY <1>1, <2>1 DEF IInv, ControlOK
  <2> QED BY <1>1, <1>2, <2>1, <2>2 DEF IInv, ControlOK, bits
<1>4. UnmarkedDoesNotHold'
  BY <1>1, StillUnmarked
<1> QED BY <1>2, <1>3, <1>4 DEF IInv

\* Lemma.  What is evaluated and does not hold loses its mark; what holds keeps one.
LEMMA EvaluateStep ==
  ASSUME IInv, evaluateConditions
  PROVE  IInv'
<1> DEFINE evaluated == {i \in ConditionsToEvaluate : IntervalOver(i)}
           true == {i \in evaluated : Holds(conditions[i])}
           triggered == {i \in true : ~conditions[i].triggerOnlyOnRisingEdge
                                      \/ i \notin mConditionsWithConditionCurrentlyTrue}
<1>1. evaluated \subseteq Loaded /\ true \subseteq evaluated /\ triggered \subseteq true
  BY DEF ConditionsToEvaluate, IInv, ControlOK
<1>2. \A i \in evaluated \ true : ~Holds(conditions[i])
  OBVIOUS
<1>3. /\ mConditionsWithInputSignalChanged' = mConditionsWithInputSignalChanged \ evaluated
      /\ mConditionsWithConditionCurrentlyTrue' = (mConditionsWithConditionCurrentlyTrue \ evaluated) \cup true
      /\ mConditionsNotTriggeredWaitingPublished' = mConditionsNotTriggeredWaitingPublished \ triggered
      /\ mLastTrigger' = [i \in Loaded |-> IF i \in triggered THEN now ELSE mLastTrigger[i]]
      /\ sent' = NoData
      /\ UNCHANGED <<now, conditions, buffers, evaluating, delivered>>
      /\ UNCHANGED <<mNextConditionToCollectedIndex, collecting, waitTimeMs>>
  BY DEF evaluateConditions
<1> HIDE DEF evaluated, true, triggered
<1>4. BuffersFit' /\ RingsExact' /\ Wired' /\ MarksTrue'
  BY <1>3, DataKept
<1>5. Loaded' = Loaded /\ now \in Nat
  BY <1>3 DEF Loaded, IInv, ControlOK
<1>6. ControlOK'
  <2>1. mLastTrigger' \in [Loaded -> 0 .. now]
    BY <1>3, <1>5 DEF IInv, ControlOK
  <2> QED BY <1>1, <1>3, <1>5, <2>1 DEF IInv, ControlOK
<1>7. UnmarkedDoesNotHold'
  <2> SUFFICES ASSUME NEW i \in Loaded,
                      i \notin mConditionsWithInputSignalChanged' \cup mConditionsWithConditionCurrentlyTrue',
                      conditions[i].reads # {}, Holds(conditions[i])'
               PROVE  FALSE
    BY <1>3, <1>5 DEF UnmarkedDoesNotHold
  <2>1. conditions \in Seq(Conditions)
    BY DEF IInv, BuffersFit
  <2>2. Holds(conditions[i])
    BY <1>3, <2>1, HoldsKept
  <2>3. i \notin true
    BY <1>3
  <2> QED BY <1>2, <1>3, <2>2, <2>3 DEF IInv, UnmarkedDoesNotHold
<1> QED BY <1>4, <1>6, <1>7 DEF IInv

\* Lemma.  The rotation goes through the conditions that are loaded.
LEMMA RotationIs ==
  ASSUME IInv, NEW j \in Loaded
  PROVE  /\ Rotation[j] \in Loaded
         /\ \A y \in 1 .. j - 1 : Rotation[y] \in Loaded
<1>1. Loaded = 1 .. Len(conditions) /\ Len(conditions) \in Nat
        /\ mNextConditionToCollectedIndex \in Nat \ {0}
  BY DEF IInv, BuffersFit, ControlOK, Loaded
<1> DEFINE n == Len(conditions)
           idx == mNextConditionToCollectedIndex
<1>2. ASSUME NEW y \in 1 .. n
      PROVE  Rotation[y] \in 1 .. n
  <2>1. Rotation[y] = ((idx + y - 2) % n) + 1
    BY DEF Rotation
  <2>2. n \in Nat \ {0} /\ idx + y - 2 \in Nat
    BY <1>1, <1>2
  <2>3. \A a \in Nat, c \in Nat \ {0} : a % c \in 0 .. c - 1
    OBVIOUS
  <2> HIDE DEF n, idx
  <2>4. (idx + y - 2) % n \in 0 .. n - 1
    BY <2>2, <2>3
  <2> QED BY <2>1, <2>2, <2>4
<1> QED BY <1>1, <1>2

\* Lemma.  What a condition collects: samples of its buffers, each recorded; of every item it
\* publishes those the item asks for, unless it has collected them before.
LEMMA CollectedIs ==
  ASSUME IInv, NEW i \in Loaded
  PROVE  /\ \A kp \in Collected(i) :
                /\ kp = <<kp[1], kp[2]>> /\ kp[1] \in DOMAIN buffers /\ kp[2] \in 0 .. Size(kp[1]) - 1
                /\ buffers[kp[1]].ring[kp[2]].n \in 1 .. buffers[kp[1]].mCounter
                /\ SendOnce => i \notin buffers[kp[1]].ring[kp[2]].consumed
         /\ \A item \in Published(conditions[i]) : Key(item) \in DOMAIN buffers =>
                LET b == buffers[Key(item)]
                IN  \A a \in 0 .. Min({item.size, b.mCounter}) - 1 :
                       /\ Position(b, a) \in 0 .. Size(Key(item)) - 1
                       /\ b.ring[Position(b, a)].n = b.mCounter - a
                       /\ \/ <<Key(item), Position(b, a)>> \in Collected(i)
                          \/ i \in b.ring[Position(b, a)].consumed
<1>1. conditions[i] \in Conditions
  BY DEF IInv, BuffersFit, Loaded
<1>2. ASSUME NEW item \in Published(conditions[i]), Key(item) \in DOMAIN buffers
      PROVE  LET b == buffers[Key(item)]
             IN  \A a \in 0 .. Min({item.size, b.mCounter}) - 1 :
                    /\ Position(b, a) \in 0 .. Size(Key(item)) - 1
                    /\ b.ring[Position(b, a)].n = b.mCounter - a
                    /\ b.mCounter - a \in 1 .. b.mCounter
  <2> DEFINE k == Key(item)
             b == buffers[k]
             N == Size(k)
  <2>1. item \in ItemsOf(conditions[i]) /\ item.size \in Nat
    BY <1>1, ConditionIs DEF Published, Items
  <2>2. N \in Nat \ {0} /\ item.size <= N /\ RingExact(b, N) /\ b.mCounter \in Nat
    BY <1>2, <2>1 DEF IInv, BuffersFit, RingsExact, RingExact, Buffers
  <2> HIDE DEF k, b, N
  <2>3. b \in Buffers(N)
    BY <2>2 DEF RingExact
  <2>4. ASSUME NEW a \in 0 .. Min({item.size, b.mCounter}) - 1
        PROVE  /\ Position(b, a) \in 0 .. N - 1
               /\ b.ring[Position(b, a)].n = b.mCounter - a
               /\ b.mCounter - a \in 1 .. b.mCounter
    <3>1. a \in 0 .. N - 1 /\ a < b.mCounter
      BY <2>1, <2>2, MinOfTwo
    <3> QED BY <2>2, <2>3, <3>1, PositionIs, RingGives
  <2> QED BY <2>4 DEF k, b, N
<1>3. ASSUME NEW kp \in Collected(i)
      PROVE  /\ kp = <<kp[1], kp[2]>> /\ kp[1] \in DOMAIN buffers /\ kp[2] \in 0 .. Size(kp[1]) - 1
             /\ buffers[kp[1]].ring[kp[2]].n \in 1 .. buffers[kp[1]].mCounter
             /\ SendOnce => i \notin buffers[kp[1]].ring[kp[2]].consumed
  <2>1. PICK k \in DOMAIN buffers : kp \in {k} \X VisitedOf(conditions[i], k)
    BY DEF Collected
  <2>2. kp = <<k, kp[2]>> /\ kp[1] = k /\ kp[2] \in VisitedOf(conditions[i], k)
    BY <2>1
  <2>3. PICK item \in Published(conditions[i]) : Key(item) = k /\ kp[2] \in Visited(item)
    BY <2>2 DEF VisitedOf
  <2>4. PICK a \in 0 .. Min({item.size, buffers[k].mCounter}) - 1 : kp[2] = Position(buffers[k], a)
    BY <2>3 DEF Visited
  <2>5. kp[2] \in 0 .. Size(k) - 1 /\ buffers[k].ring[kp[2]].n \in 1 .. buffers[k].mCounter
    BY <1>2, <2>3, <2>4
  <2>6. SendOnce => i \notin buffers[kp[1]].ring[kp[2]].consumed
    BY DEF Collected
  <2> QED BY <2>2, <2>5, <2>6
<1>4. ASSUME NEW item \in Published(conditions[i]), Key(item) \in DOMAIN buffers,
             NEW a \in 0 .. Min({item.size, buffers[Key(item)].mCounter}) - 1
      PROVE  \/ <<Key(item), Position(buffers[Key(item)], a)>> \in Collected(i)
             \/ i \in buffers[Key(item)].ring[Position(buffers[Key(item)], a)].consumed
  <2> DEFINE k == Key(item)
             p == Position(buffers[k], a)
  <2>1. p \in Visited(item)
    BY <1>4 DEF Visited
  <2>2. p \in VisitedOf(conditions[i], k)
    BY <2>1 DEF VisitedOf
  <2> HIDE DEF k, p
  <2>3. <<k, p>> \in UNION {{x} \X VisitedOf(conditions[i], x) : x \in DOMAIN buffers}
    BY <1>4, <2>2 DEF k
  <2>4. <<k, p>>[1] = k /\ <<k, p>>[2] = p
    OBVIOUS
  <2>5. i \notin buffers[k].ring[p].consumed => <<k, p>> \in Collected(i)
    BY <2>3, <2>4 DEF Collected
  <2> QED BY <2>5 DEF k, p
<1> QED BY <1>2, <1>3, <1>4

\* Lemma.  A condition is sent: the samples it collected bear its mark, and no others.
LEMMA CollectStep ==
  ASSUME IInv, NEW j \in Loaded, Collect(j)
  PROVE  IInv'
<1> DEFINE i == Rotation[j]
           dropped == {Rotation[x] : x \in {y \in 1 .. j - 1 : Due(Rotation[y])}}
           C == Collected(i)
<1>1. i \in Loaded /\ dropped \subseteq Loaded
  BY RotationIs
<1>2. /\ mConditionsNotTriggeredWaitingPublished'
            = mConditionsNotTriggeredWaitingPublished \cup dropped \cup {i}
      /\ sent' = [condition |-> i, samples |-> Samples(C), dtcs |-> IncludesDTCs(i)]
      /\ buffers' = Consumed(i)
      /\ delivered' = [delivered EXCEPT ![i] = @ \cup Samples(C)]
      /\ mNextConditionToCollectedIndex' = i
      /\ collecting' = TRUE
      /\ UNCHANGED <<now, conditions, evaluating, bits, mLastTrigger, waitTimeMs>>
  BY DEF Collect
<1> HIDE DEF i, dropped
<1>3. \A kp \in C :
         /\ kp = <<kp[1], kp[2]>> /\ kp[1] \in DOMAIN buffers /\ kp[2] \in 0 .. Size(kp[1]) - 1
         /\ buffers[kp[1]].ring[kp[2]].n \in 1 .. buffers[kp[1]].mCounter
  BY <1>1, CollectedIs
<1>4. buffers' = [k \in DOMAIN buffers |->
                    [buffers[k] EXCEPT !.ring =
                        [p \in DOMAIN buffers[k].ring |->
                            IF <<k, p>> \in C
                            THEN [buffers[k].ring[p] EXCEPT !.consumed = @ \cup {i}]
                            ELSE buffers[k].ring[p]]]]
  BY <1>2 DEF Consumed
<1> HIDE DEF C
<1>5. i \in Nat /\ DOMAIN buffers' = DOMAIN buffers /\ Loaded' = Loaded /\ \A k : Size(k)' = Size(k)
  BY <1>1, <1>2, <1>4 DEF IInv, BuffersFit, Loaded, Size
<1>6. ASSUME NEW k \in DOMAIN buffers
      PROVE  /\ buffers'[k].mCounter = buffers[k].mCounter
             /\ buffers'[k].mLastSample = buffers[k].mLastSample
             /\ buffers'[k].mCurrentPosition = buffers[k].mCurrentPosition
             /\ \A p \in 0 .. Size(k) - 1 :
                   /\ buffers'[k].ring[p].n = buffers[k].ring[p].n
                   /\ buffers'[k].ring[p].value = buffers[k].ring[p].value
                   /\ buffers'[k].ring[p].consumed
                         = buffers[k].ring[p].consumed \cup (IF <<k, p>> \in C THEN {i} ELSE {})
             /\ RingExact(buffers'[k], Size(k))
  <2> DEFINE b == buffers[k]
             N == Size(k)
             ring == [p \in 0 .. N - 1 |->
                         IF <<k, p>> \in C THEN [b.ring[p] EXCEPT !.consumed = @ \cup {i}] ELSE b.ring[p]]
  <2>1. N \in Nat \ {0} /\ RingExact(b, N) /\ b \in Buffers(N)
    BY DEF IInv, BuffersFit, RingsExact, RingExact
  <2>2. DOMAIN b.ring = 0 .. N - 1
    BY <2>1 DEF Buffers
  <2>3. buffers'[k] = [b EXCEPT !.ring = ring]
    BY <1>4, <2>2
  <2> HIDE DEF b, N, ring
  <2>4. buffers'[k] = [ring |-> ring, mCurrentPosition |-> b.mCurrentPosition,
                       mCounter |-> b.mCounter, mLastSample |-> b.mLastSample]
    BY <2>1, <2>3 DEF Buffers
  <2>5. ASSUME NEW p \in 0 .. N - 1
        PROVE  /\ ring[p] \in Slots
               /\ ring[p].n = b.ring[p].n /\ ring[p].value = b.ring[p].value
               /\ ring[p].consumed = b.ring[p].consumed \cup (IF <<k, p>> \in C THEN {i} ELSE {})
    <3>1. b.ring[p] \in Slots
      BY <2>1 DEF Buffers
    <3>2. ring[p] = IF <<k, p>> \in C THEN [b.ring[p] EXCEPT !.consumed = @ \cup {i}] ELSE b.ring[p]
      BY DEF ring
    <3> QED BY <1>5, <3>1, <3>2 DEF Slots
  <2>6. ring \in [0 .. N - 1 -> Slots]
    BY <2>5 DEF ring
  <2>7. buffers'[k] \in Buffers(N)
    BY <2>1, <2>4, <2>6 DEF Buffers
  <2>8. \A p \in 0 .. N - 1 : Age(buffers'[k], N, p) = Age(b, N, p)
    BY <2>4 DEF Age
  <2>9. RingExact(buffers'[k], N)
    <3> DEFINE c == buffers'[k]
    <3>1. c \in Buffers(N) /\ c.mCounter = b.mCounter
            /\ \A p \in 0 .. N - 1 : Age(c, N, p) = Age(b, N, p) /\ c.ring[p].n = b.ring[p].n
      <4>1. c.ring = ring /\ c.mCounter = b.mCounter
        BY <2>4
      <4>2. \A p \in 0 .. N - 1 : c.ring[p].n = b.ring[p].n
        BY <2>5, <4>1
      <4> QED BY <2>7, <2>8, <4>1, <4>2
    <3> HIDE DEF c
    <3>2. RingExact(c, N)
      BY <2>1, <3>1 DEF RingExact
    <3> QED BY <3>2 DEF c
  <2> QED BY <2>4, <2>5, <2>9 DEF b, N
<1>7. BuffersFit' /\ Wired'
  BY <1>2, <1>5 DEF IInv, BuffersFit, Wired
<1>8. RingsExact'
  BY <1>2, <1>5, <1>6 DEF IInv, RingsExact
<1>9. SampleNumbers' = SampleNumbers
  BY <1>5, <1>6 DEF SampleNumbers
<1>10. Samples(C) \subseteq SampleNumbers
  BY <1>3, InSampleNumbers DEF Samples
<1>11. ControlOK'
  <2>1. sent'.condition = i /\ sent'.samples = Samples(C)
    BY <1>2
  <2>2. collecting' \in BOOLEAN
    BY <1>2
  <2>3. UNCHANGED bits /\ UNCHANGED <<now, mLastTrigger, waitTimeMs>>
    BY <1>2
  <2>4. /\ mConditionsNotTriggeredWaitingPublished' \subseteq Loaded
        /\ mNextConditionToCollectedIndex' \in Nat \ {0}
    <3>1. Loaded \subseteq Nat \ {0}
      BY DEF IInv, BuffersFit, Loaded
    <3> QED BY <1>1, <1>2, <3>1 DEF IInv, ControlOK
  <2>5. /\ now' \in 1 .. MaxTime /\ mLastTrigger' \in [Loaded -> 0 .. now']
        /\ waitTimeMs' \in 1 .. Forever
        /\ mConditionsWithInputSignalChanged' \subseteq Loaded
        /\ mConditionsWithConditionCurrentlyTrue' \subseteq Loaded
    BY <2>3 DEF IInv, ControlOK, bits
  <2>6. sent'.condition \in Loaded /\ sent'.samples \subseteq SampleNumbers
    BY <1>1, <1>10, <2>1
  <2> QED BY <1>5, <1>9, <2>2, <2>4, <2>5, <2>6 DEF ControlOK, Forever
<1>12. delivered' \in [Loaded -> SUBSET SampleNumbers]
  BY <1>1, <1>2, <1>10 DEF IInv, MarksTrue
<1>13. ASSUME NEW k \in DOMAIN buffers, NEW p \in 0 .. Size(k) - 1
       PROVE  buffers'[k].ring[p].consumed
                 = {x \in Loaded : <<k, buffers'[k].ring[p].n>> \in delivered'[x]}
  <2> DEFINE n == buffers[k].ring[p].n
  <2>1. buffers[k].ring[p].consumed = {x \in Loaded : <<k, n>> \in delivered[x]}
    BY DEF IInv, MarksTrue
  <2>2. <<k, n>> \in Samples(C) <=> <<k, p>> \in C
    <3>1. ASSUME <<k, n>> \in Samples(C)
          PROVE  <<k, p>> \in C
      <4>1. PICK kp \in C : <<k, n>> = <<kp[1], buffers[kp[1]].ring[kp[2]].n>>
        BY <3>1 DEF Samples
      <4>2. kp = <<k, kp[2]>> /\ kp[2] \in 0 .. Size(k) - 1 /\ n = buffers[k].ring[kp[2]].n /\ n # 0
        BY <1>3, <4>1
      <4>3. Size(k) \in Nat \ {0} /\ RingExact(buffers[k], Size(k))
        BY DEF IInv, BuffersFit, RingsExact
      <4>4. p = kp[2]
        BY <4>2, <4>3, SamplesDiffer
      <4> QED BY <4>2, <4>4
    <3>2. ASSUME <<k, p>> \in C
          PROVE  <<k, n>> \in Samples(C)
      <4>1. <<k, p>>[1] = k /\ <<k, p>>[2] = p
        OBVIOUS
      <4> QED BY <3>2, <4>1 DEF Samples
    <3> QED BY <3>1, <3>2
  <2>3. \A x \in Loaded : delivered'[x] = delivered[x] \cup (IF x = i THEN Samples(C) ELSE {})
    BY <1>2 DEF IInv, MarksTrue
  <2>4. buffers'[k].ring[p].consumed = buffers[k].ring[p].consumed \cup (IF <<k, p>> \in C THEN {i} ELSE {})
          /\ buffers'[k].ring[p].n = n
    BY <1>6
  <2> HIDE DEF n
  <2> QED BY <1>1, <2>1, <2>2, <2>3, <2>4
<1>14. MarksTrue'
  BY <1>5, <1>9, <1>12, <1>13 DEF MarksTrue
<1>15. UnmarkedDoesNotHold'
  <2>1. \A k \in DOMAIN buffers : buffers[k].mCurrentPosition \in 0 .. Size(k) - 1
    BY DEF IInv, RingsExact, RingExact, Buffers
  <2> QED BY <1>2, <1>5, <1>6, <2>1, StillUnmarked
<1> QED BY <1>7, <1>8, <1>11, <1>14, <1>15 DEF IInv

\* Lemma.  How long the thread is told to wait: until the first condition that is not due yet.
LEMMA WaitIs ==
  ASSUME IInv, NEW is \in SUBSET Loaded, \A i \in is : ~(now >= DueAt(i))
  PROVE  WaitTime(is) \in 1 .. Forever /\ \A i \in is : now + WaitTime(is) <= DueAt(i)
<1>1. now \in Nat /\ Forever \in Nat /\ Forever >= 1
  BY BoundsAssumption DEF IInv, ControlOK, Forever
<1>2. \A i \in Loaded : DueAt(i) \in Nat
  <2> TAKE i \in Loaded
  <2>1. conditions[i] \in Conditions /\ mLastTrigger[i] \in Nat
    BY DEF IInv, BuffersFit, ControlOK, Loaded
  <2> QED BY <2>1, ConditionIs DEF DueAt
<1>3. \A i \in is : Remaining(i) \in Nat /\ Remaining(i) >= 1
  BY <1>1, <1>2 DEF Remaining
<1> DEFINE S == {Forever} \cup {Remaining(i) : i \in is}
<1>4. S \subseteq Nat /\ S # {} /\ Forever \in S
  BY <1>1, <1>3
<1>5. Min(S) \in S /\ \A y \in S : Min(S) <= y
  <2> HIDE DEF S
  <2> QED BY <1>4, MinIs
<1>6. \A y \in S : y >= 1
  BY <1>1, <1>3
<1>7. Min(S) \in 1 .. Forever
  <2>1. Forever \in Int
    BY <1>1
  <2> HIDE DEF S
  <2>2. Min(S) \in Nat /\ Min(S) >= 1 /\ Min(S) <= Forever
    BY <1>4, <1>5, <1>6
  <2> QED BY <2>1, <2>2
<1>8. \A i \in is : Min(S) <= Remaining(i)
  BY <1>5
<1> QED BY <1>1, <1>2, <1>3, <1>7, <1>8 DEF WaitTime, Remaining

\* Lemma.  A collection that finds no condition due empties nothing, and computes the wait.
LEMMA NothingStep ==
  ASSUME IInv, CollectNothing
  PROVE  IInv'
<1> DEFINE due == {i \in Loaded : Due(i)}
           waiting == {i \in Loaded : Waiting(i) /\ ~Due(i)}
<1>1. /\ mConditionsNotTriggeredWaitingPublished' = mConditionsNotTriggeredWaitingPublished \cup due
      /\ collecting' = FALSE
      /\ waitTimeMs' = WaitTime(waiting)
      /\ sent' = NoData
      /\ UNCHANGED <<now, conditions, buffers, evaluating, bits, mLastTrigger,
                     mNextConditionToCollectedIndex, delivered>>
  BY DEF CollectNothing
<1>2. BuffersFit' /\ RingsExact' /\ Wired' /\ MarksTrue'
  BY <1>1, DataKept
<1>3. waitTimeMs' \in 1 .. Forever
  <2>1. waiting \subseteq Loaded /\ \A i \in waiting : ~(now >= DueAt(i))
    BY DEF Due
  <2> HIDE DEF waiting
  <2> QED BY <1>1, <2>1, WaitIs
<1>4. ControlOK'
  <2>1. Loaded' = Loaded
    BY <1>1 DEF Loaded
  <2> QED BY <1>1, <1>3, <2>1 DEF IInv, ControlOK, bits, Forever
<1>5. UnmarkedDoesNotHold'
  BY <1>1, StillUnmarked
<1> QED BY <1>2, <1>4, <1>5 DEF IInv

\* Lemma.  Every step keeps the invariant.
LEMMA StepIInv == IInv /\ [Next]_vars => IInv'
<1> SUFFICES ASSUME IInv, [Next]_vars PROVE IInv'
  OBVIOUS
<1>1. CASE \E m \in Matrices : onChangeInspectionMatrix(m)
  BY <1>1, MatrixStep
<1>2. CASE \E s \in Signals, v \in SignalValues : addNewSignal(s, now, v)
  BY <1>2, SignalStep
<1>3. CASE \E f \in Frames, size \in FrameSizes : addNewRawCanFrame(f, now, size)
  BY <1>3, FrameStep
<1>4. CASE setActiveDTCs \/ Tick \/ UNCHANGED vars
  BY <1>4, QuietStep
<1>5. CASE evaluateConditions
  BY <1>5, EvaluateStep
<1>6. CASE collectNextDataToSend
  BY <1>6, CollectStep, NothingStep DEF collectNextDataToSend
<1> QED BY <1>1, <1>2, <1>3, <1>4, <1>5, <1>6 DEF Next

-----------------------------------------------------------------------------
(* The theorems *)

\* Theorem.  The invariant of the engine, for every sequence of matrices, samples, evaluations
\* and collections (CollectionInspectionEngine.cpp:75, :527, :259, :445).
THEOREM EngineInvariance == Spec => []IInv
<1> QED BY InitIInv, StepIInv, PTL DEF Spec

\* Theorem.  However often it wraps, a ring holds the latest samples in their order, and every
\* variable has its type (CollectionInspectionEngine.cpp:545, :328).
THEOREM RingsHoldLatest == Spec => []RingHoldsLatest
<1>1. ASSUME IInv
      PROVE  TypeOK
  <2>1. ASSUME NEW k \in DOMAIN buffers
        PROVE  /\ k \in Keys(conditions)
               /\ DOMAIN buffers[k].ring = 0 .. SizeOf(conditions, k) - 1
               /\ buffers[k].mCurrentPosition \in DOMAIN buffers[k].ring
               /\ buffers[k].mCounter \in 0 .. MaxRecorded
               /\ buffers[k].mLastSample \in 0 .. now
               /\ \A p \in DOMAIN buffers[k].ring : buffers[k].ring[p].consumed \subseteq Loaded
    <3>1. k \in Keys(conditions) /\ buffers[k] \in Buffers(Size(k))
            /\ buffers[k].mCounter <= MaxRecorded /\ buffers[k].mLastSample <= now
      BY <1>1 DEF IInv, BuffersFit, RingsExact, RingExact
    <3>2. \A p \in 0 .. Size(k) - 1 : buffers[k].ring[p].consumed \subseteq Loaded
      BY <1>1 DEF IInv, MarksTrue
    <3>3. now \in Nat /\ MaxRecorded \in Nat
      BY <1>1, BoundsAssumption DEF IInv, ControlOK
    <3>4. DOMAIN buffers[k].ring = 0 .. Size(k) - 1
      BY <3>1 DEF Buffers
    <3> QED BY <3>1, <3>2, <3>3, <3>4 DEF Buffers, Size
  <2> QED BY <1>1, <2>1 DEF IInv, ControlOK, BuffersFit, Wired, TypeOK
<1>2. ASSUME IInv, NEW k \in DOMAIN buffers,
             NEW i \in 0 .. Min({RingSize(buffers[k]), buffers[k].mCounter}) - 1
      PROVE  LET b == buffers[k]
             IN  b.ring[(b.mCurrentPosition - i + RingSize(b)) % RingSize(b)].n = b.mCounter - i
  <2> DEFINE b == buffers[k]
             N == Size(k)
  <2>1. N \in Nat \ {0} /\ RingExact(b, N) /\ b \in Buffers(N) /\ b.mCounter \in Nat
    BY <1>2 DEF IInv, BuffersFit, RingsExact, RingExact, Buffers
  <2>2. i \in 0 .. Min({RingSize(b), b.mCounter}) - 1
    OBVIOUS
  <2> HIDE DEF b, N
  <2>3. RingSize(b) = N
    BY <2>1, RingSizeIs
  <2>4. i \in 0 .. N - 1 /\ i < b.mCounter
    BY <2>1, <2>2, <2>3, MinOfTwo
  <2>5. b.ring[Position(b, i)].n = b.mCounter - i
    BY <2>1, <2>4, RingGives
  <2> QED BY <2>5 DEF Position, b
<1>3. IInv => RingHoldsLatest
  BY <1>1, <1>2 DEF RingHoldsLatest
<1> QED BY <1>3, EngineInvariance, PTL

\* Theorem.  No trigger is missed: a condition without a mark does not hold, whatever came while
\* its interval ran or while it waited to be published (CollectionInspectionEngine.cpp:268, :558).
THEOREM NoTriggerMissed == Spec => []UnmarkedDoesNotHold
<1>1. IInv => UnmarkedDoesNotHold
  BY DEF IInv
<1> QED BY <1>1, EngineInvariance, PTL

\* Lemma.  Only Collect sends something.
LEMMA OnlyCollectSends ==
  ASSUME [Next]_vars, sent' # NoData, ~UNCHANGED vars
  PROVE  \E j \in Loaded : Collect(j)
BY DEF Next, onChangeInspectionMatrix, addNewSignal, addNewRawCanFrame, setActiveDTCs,
       evaluateConditions, collectNextDataToSend, CollectNothing, Tick

\* Theorem.  A triggered condition publishes what it asks for, the latest samples of each of its
\* items, no sample twice when data is sent only once, and the thread is not told to sleep for
\* longer than until the next condition is due (CollectionInspectionEngine.cpp:328, :402, :485).
THEOREM PublishedAsAsked == Spec => PublishedInFull
<1>1. IInv /\ [Next]_vars =>
        [SendOnce /\ sent' # NoData => sent'.samples \cap delivered[sent'.condition] = {}]_vars
  <2> SUFFICES ASSUME IInv, [Next]_vars, ~UNCHANGED vars, SendOnce, sent' # NoData
               PROVE  sent'.samples \cap delivered[sent'.condition] = {}
    OBVIOUS
  <2> PICK j \in Loaded : Collect(j)
    BY OnlyCollectSends
  <2> DEFINE i == Rotation[j]
  <2>1. i \in Loaded
    BY RotationIs
  <2>2. sent'.condition = i /\ sent'.samples = Samples(Collected(i))
    BY DEF Collect
  <2> HIDE DEF i
  <2>3. ASSUME NEW kp \in Collected(i), <<kp[1], buffers[kp[1]].ring[kp[2]].n>> \in delivered[i]
        PROVE  FALSE
    <3>1. kp[1] \in DOMAIN buffers /\ kp[2] \in 0 .. Size(kp[1]) - 1
            /\ i \notin buffers[kp[1]].ring[kp[2]].consumed
      BY <2>1, CollectedIs
    <3> QED BY <2>1, <2>3, <3>1 DEF IInv, MarksTrue
  <2> QED BY <2>2, <2>3 DEF Samples
<1>2. IInv /\ [Next]_vars =>
        [sent' # NoData =>
            \A item \in Published(conditions[sent'.condition]) :
                Key(item) \in DOMAIN buffers =>
                    LET b == buffers[Key(item)]
                    IN  \A i \in 0 .. Min({item.size, b.mCounter}) - 1 :
                            <<Key(item), b.mCounter - i>> \in delivered'[sent'.condition]]_vars
  <2> SUFFICES ASSUME IInv, [Next]_vars, ~UNCHANGED vars, sent' # NoData,
                      NEW item \in Published(conditions[sent'.condition]),
                      Key(item) \in DOMAIN buffers,
                      NEW a \in 0 .. Min({item.size, buffers[Key(item)].mCounter}) - 1
               PROVE  <<Key(item), buffers[Key(item)].mCounter - a>> \in delivered'[sent'.condition]
    OBVIOUS
  <2> PICK j \in Loaded : Collect(j)
    BY OnlyCollectSends
  <2> DEFINE i == Rotation[j]
             k == Key(item)
             b == buffers[k]
             p == Position(b, a)
  <2>1. i \in Loaded
    BY RotationIs
  <2>2. sent'.condition = i
          /\ delivered' = [delivered EXCEPT ![i] = @ \cup Samples(Collected(i))]
    BY DEF Collect
  <2>3. delivered'[i] = delivered[i] \cup Samples(Collected(i))
    <3> HIDE DEF i
    <3> QED BY <2>1, <2>2 DEF IInv, MarksTrue
  <2>4. /\ p \in 0 .. Size(k) - 1 /\ b.ring[p].n = b.mCounter - a
        /\ <<k, p>> \in Collected(i) \/ i \in b.ring[p].consumed
    <3> HIDE DEF i
    <3> QED BY <2>1, <2>2, CollectedIs
  <2>5. CASE <<k, p>> \in Collected(i)
    <3>1. <<k, p>>[1] = k /\ <<k, p>>[2] = p
      OBVIOUS
    <3> HIDE DEF k, p, i
    <3>2. <<k, b.ring[p].n>> \in Samples(Collected(i))
      BY <2>5, <3>1 DEF Samples
    <3> QED BY <2>2, <2>3, <2>4, <3>2 DEF k
  <2>6. CASE i \in b.ring[p].consumed
    <3> HIDE DEF i, p
    <3>1. <<k, b.ring[p].n>> \in delivered[i]
      BY <2>1, <2>4, <2>6 DEF IInv, MarksTrue
    <3> QED BY <2>2, <2>3, <2>4, <3>1
  <2> QED BY <2>4, <2>5, <2>6
<1>3. IInv /\ [Next]_vars =>
        [CollectNothing =>
            \A i \in Loaded \ mConditionsNotTriggeredWaitingPublished' :
                now + waitTimeMs' <= DueAt(i)]_vars
  <2> SUFFICES ASSUME IInv, CollectNothing,
                      NEW x \in Loaded \ mConditionsNotTriggeredWaitingPublished'
               PROVE  now + waitTimeMs' <= DueAt(x)
    OBVIOUS
  <2> DEFINE waiting == {i \in Loaded : Waiting(i) /\ ~Due(i)}
  <2>1. waitTimeMs' = WaitTime(waiting) /\ x \in waiting
    BY DEF CollectNothing, Waiting
  <2>2. waiting \subseteq Loaded /\ \A i \in waiting : ~(now >= DueAt(i))
    BY DEF Due
  <2> HIDE DEF waiting
  <2> QED BY <2>1, <2>2, WaitIs
<1> QED
  BY <1>1, <1>2, <1>3, EngineInvariance, PTL
     DEF Spec, PublishedInFull, SentOnce, NothingSkipped, WokenInTime

-----------------------------------------------------------------------------
(* The fixed windows *)

Sums == [min : Int, max : Int, sum : Int, count : Nat]
Windows == [mLastTimeCalculated : Nat, last : Summaries, previous : Summaries, collecting : Sums]

\* What holds of a window whatever the samples' times: it counts no more than came in, and
\* the engine looks at it before it is over.
WindowOK(d, w) ==
    /\ d \in Windows
    /\ d.mLastTimeCalculated <= windowNow
    /\ d.collecting.count <= Len(history)
    /\ mNextWindowFunctionTimesOut <= EndOf(d, w)

\* The samples there can be at a time.
SamplesBy(t) ==
    [time : 1 .. t, value : Values, seen : 0 .. t, counted : [WindowSizes -> 1 .. t]]

WindowsOK ==
    /\ windowNow \in 1 .. WindowTime /\ lastCall \in 0 .. windowNow
    /\ mNextWindowFunctionTimesOut \in 0 .. Later
    /\ history \in Seq(SamplesBy(windowNow)) /\ Len(history) <= WindowSamples
    /\ windows = [w \in WindowSizes |-> windows[w]]
    /\ \A w \in WindowSizes : WindowOK(windows[w], w)
    /\ NothingOverdue

\* Lemma.  How many windows have passed since a start.
LEMMA WholeWindows ==
  ASSUME NEW t \in Nat, NEW s \in Nat, s <= t, NEW w \in Nat \ {0}
  PROVE  /\ s + ((t - s) \div w) * w \in s .. t
         /\ t < s + ((t - s) \div w) * w + w
<1> DEFINE a == t - s
           p == (a \div w) * w
<1>1. a \in Nat
  OBVIOUS
<1> HIDE DEF a
<1>2. p \in Nat /\ p <= a /\ a < p + w
  BY <1>1
<1> HIDE DEF p
<1>3. s + p \in s .. t /\ t < s + p + w
  BY <1>1, <1>2 DEF a
<1> QED BY <1>3 DEF p, a

\* Lemma.  The time of the next look is at most the end of any window.
LEMMA LeastEnd ==
  ASSUME NEW ws, \A w \in WindowSizes : EndOf(ws[w], w) \in Nat, NEW extra \in Nat
  PROVE  LET next == Min({extra} \cup Ends(ws))
         IN  next \in Nat /\ next <= extra /\ \A w \in WindowSizes : next <= EndOf(ws[w], w)
<1> DEFINE S == {extra} \cup Ends(ws)
<1>1. S \in SUBSET Nat /\ S # {} /\ extra \in S /\ \A w \in WindowSizes : EndOf(ws[w], w) \in S
  BY DEF Ends
<1> HIDE DEF S
<1>2. Min(S) \in S /\ \A y \in S : Min(S) <= y
  BY <1>1, MinIs
<1> QED BY <1>1, <1>2 DEF S

\* Lemma.  What is kept of a window that is over, and of one that begins (updateWindow).
LEMMA CompletedIs ==
  ASSUME NEW c \in Sums
  PROVE  Completed(c) \in Summaries /\ Unavailable \in Summaries /\ Fresh \in Sums
BY WindowAssumption DEF Completed, Summaries, Unavailable, Fresh, Tiny, Sums

\* Lemma.  A window that begins, begins at the last of its starts, and is not over at that time
\* (initNewWindow).
LEMMA BeginIs ==
  ASSUME NEW w \in WindowSizes, NEW d \in Windows, NEW t \in Nat, d.mLastTimeCalculated <= t
  PROVE  /\ Begin(d, w, t) \in Windows
         /\ Begin(d, w, t).collecting = Fresh
         /\ Begin(d, w, t).last = d.last /\ Begin(d, w, t).previous = d.previous
         /\ Begin(d, w, t).mLastTimeCalculated
              = d.mLastTimeCalculated + ((t - d.mLastTimeCalculated) \div w) * w
         /\ Begin(d, w, t).mLastTimeCalculated \in d.mLastTimeCalculated .. t
         /\ t < EndOf(Begin(d, w, t), w)
<1> DEFINE s == d.mLastTimeCalculated
           b == Begin(d, w, t)
           start == s + ((t - s) \div w) * w
<1>1. s \in Nat /\ s <= t /\ w \in Nat \ {0}
  BY WindowAssumption DEF Windows
<1>2. start \in s .. t /\ t < start + w
  BY <1>1, WholeWindows
<1>3. Fresh \in Sums
  BY WindowAssumption DEF Fresh, Tiny, Sums
<1>4. b = [d EXCEPT !.collecting = Fresh, !.mLastTimeCalculated = start]
  BY DEF Begin
<1> HIDE DEF start, b
<1>5. start \in Nat
  BY <1>1, <1>2
<1>6. /\ b.collecting = Fresh /\ b.last = d.last /\ b.previous = d.previous
      /\ b.mLastTimeCalculated = start
  BY <1>4 DEF Windows
<1>7. b \in Windows
  BY <1>3, <1>4, <1>5 DEF Windows
<1> QED BY <1>2, <1>6, <1>7 DEF EndOf, b, start

\* Lemma.  After updateWindow the window is one that is not over, and no earlier than before.
LEMMA UpdatedIs ==
  ASSUME NEW w \in WindowSizes, NEW d \in Windows, NEW t \in Nat
  PROVE  LET u == Updated(d, w, t)
         IN  /\ u \in Windows /\ u.mLastTimeCalculated >= d.mLastTimeCalculated
             /\ u.mLastTimeCalculated <= d.mLastTimeCalculated \/ u.mLastTimeCalculated <= t
             /\ u.collecting = d.collecting \/ u.collecting = Fresh
             /\ t < EndOf(u, w)
             /\ t # 0 => u.mLastTimeCalculated # 0
<1> DEFINE s == d.mLastTimeCalculated
           u == Updated(d, w, t)
           Good == /\ u \in Windows /\ u.mLastTimeCalculated >= s
                   /\ u.mLastTimeCalculated <= s \/ u.mLastTimeCalculated <= t
                   /\ u.collecting = d.collecting \/ u.collecting = Fresh
                   /\ t < EndOf(u, w)
                   /\ t # 0 => u.mLastTimeCalculated # 0
<1>1. s \in Nat /\ w \in Nat \ {0} /\ d.collecting \in Sums /\ d.last \in Summaries
  BY WindowAssumption DEF Windows
<1>2. ASSUME NEW e \in Windows, e.mLastTimeCalculated >= s, e.mLastTimeCalculated <= t, u = Begin(e, w, t),
             t # 0 => e.mLastTimeCalculated # 0
      PROVE  Good
  <2>1. e.mLastTimeCalculated \in Nat
    BY DEF Windows
  <2>2. /\ u \in Windows /\ u.collecting = Fresh
        /\ u.mLastTimeCalculated \in e.mLastTimeCalculated .. t /\ t < EndOf(u, w)
    BY <1>2, BeginIs
  <2> QED BY <1>1, <1>2, <2>1, <2>2
<1> HIDE DEF u
<1>3. ASSUME s = 0
      PROVE  Good
  <2> DEFINE e == [d EXCEPT !.mLastTimeCalculated = t]
  <2>1. e \in Windows /\ e.mLastTimeCalculated = t
    BY DEF Windows
  <2>2. u = Begin(e, w, t)
    BY <1>3 DEF Updated, u
  <2> HIDE DEF e
  <2> QED BY <1>2, <1>3, <2>1, <2>2
<1>4. ASSUME s # 0 /\ t >= s + 2 * w
      PROVE  Good
  <2> DEFINE e == [d EXCEPT !.last = Unavailable, !.previous = Completed(d.collecting)]
  <2>1. e \in Windows /\ e.mLastTimeCalculated = s
    BY <1>1, CompletedIs DEF Windows
  <2>2. u = Begin(e, w, t)
    BY <1>4 DEF Updated, u
  <2> HIDE DEF e
  <2> QED BY <1>1, <1>2, <1>4, <2>1, <2>2
<1>5. ASSUME s # 0 /\ ~(t >= s + 2 * w) /\ t >= s + w
      PROVE  Good
  <2> DEFINE e == [d EXCEPT !.previous = d.last, !.last = Completed(d.collecting)]
  <2>1. e \in Windows /\ e.mLastTimeCalculated = s
    BY <1>1, CompletedIs DEF Windows
  <2>2. u = Begin(e, w, t)
    BY <1>5 DEF Updated, u
  <2> HIDE DEF e
  <2> QED BY <1>1, <1>2, <1>5, <2>1, <2>2
<1>6. ASSUME s # 0 /\ ~(t >= s + 2 * w) /\ ~(t >= s + w)
      PROVE  Good
  <2>1. u = d
    BY <1>6 DEF Updated, u
  <2> QED BY <1>1, <1>6, <2>1 DEF EndOf
<1>7. Good
  BY <1>3, <1>4, <1>5, <1>6
<1> QED BY <1>7 DEF u

\* Lemma.  A value more is one value more (updateInternalVariables).
LEMMA WithIs ==
  ASSUME NEW c \in Sums, NEW v \in Int
  PROVE  With(c, v) \in Sums /\ With(c, v).count = c.count + 1
<1>1. ASSUME NEW a \in Int, NEW b \in Int
      PROVE  Min({a, b}) \in Int /\ Max({a, b}) \in Int
  <2>1. \E x \in {a, b} : \A y \in {a, b} : x <= y
    BY DEF Min
  <2>2. \E x \in {a, b} : \A y \in {a, b} : x >= y
    BY DEF Max
  <2> QED BY <2>1, <2>2 DEF Min, Max
<1> DEFINE least == Min({c.min, v})
           most == Max({c.max, v})
<1>2. least \in Int /\ most \in Int
  BY <1>1 DEF Sums
<1>3. With(c, v) = [min |-> least, max |-> most, sum |-> c.sum + v, count |-> c.count + 1]
  BY DEF With
<1> HIDE DEF least, most
<1> QED BY <1>2, <1>3 DEF Sums

\* Lemma.  The largest timestamp is one.
LEMMA LaterIs == Later \in Nat
<1>1. WindowSizes \in SUBSET Nat
  BY WindowAssumption
<1>2. Max(WindowSizes) \in WindowSizes
  BY <1>1, WindowAssumption, MaxIs
<1> HIDE DEF Max
<1>3. Max(WindowSizes) \in Nat
  BY <1>1, <1>2
<1> QED BY <1>3, WindowAssumption DEF Later

\* Lemma.  No window is over before the first has begun.
LEMMA WindowsOKInit == WindowsInit => WindowsOK
<1> SUFFICES ASSUME WindowsInit PROVE WindowsOK
  OBVIOUS
<1>1. Fresh \in Sums /\ Unavailable \in Summaries
  BY WindowAssumption DEF Fresh, Tiny, Sums, Unavailable, Summaries
<1>2. Later \in Nat
  BY LaterIs
<1>3. ASSUME NEW w \in WindowSizes
      PROVE  WindowOK(windows[w], w)
  BY <1>1, WindowAssumption DEF WindowsInit, WindowOK, Windows, EndOf, Fresh
<1> QED BY <1>2, <1>3, WindowAssumption DEF WindowsInit, WindowsOK, NothingOverdue

\* What the history notes of a sample.
Noted(t, v) ==
    [time |-> t, value |-> v, seen |-> lastCall,
     counted |-> [w \in WindowSizes |-> Updated(windows[w], w, t).mLastTimeCalculated]]

\* Lemma.  A sample is counted for a window that began by now.
LEMMA NotedIs ==
  ASSUME WindowsOK, NEW t \in 1 .. windowNow, NEW v \in Values
  PROVE  Noted(t, v) \in SamplesBy(windowNow)
<1> DEFINE U(w) == Updated(windows[w], w, t)
<1>1. windowNow \in Nat /\ t \in Nat /\ t # 0 /\ t <= windowNow /\ lastCall \in 0 .. windowNow
  BY DEF WindowsOK
<1>2. ASSUME NEW w \in WindowSizes
      PROVE  U(w).mLastTimeCalculated \in 1 .. windowNow
  <2> DEFINE d == windows[w]
             u == U(w)
  <2>1. d \in Windows /\ d.mLastTimeCalculated <= windowNow
    BY DEF WindowsOK, WindowOK
  <2>2. /\ u \in Windows /\ u.mLastTimeCalculated # 0
        /\ u.mLastTimeCalculated <= d.mLastTimeCalculated \/ u.mLastTimeCalculated <= t
    BY <1>1, <2>1, UpdatedIs
  <2> HIDE DEF d, u
  <2>3. u.mLastTimeCalculated \in Nat /\ d.mLastTimeCalculated \in Nat
    BY <2>1, <2>2 DEF Windows
  <2>4. u.mLastTimeCalculated \in 1 .. windowNow
    BY <1>1, <2>1, <2>2, <2>3
  <2> QED BY <2>4 DEF u, d
<1>3. [w \in WindowSizes |-> U(w).mLastTimeCalculated] \in [WindowSizes -> 1 .. windowNow]
  <2> HIDE DEF U
  <2> QED BY <1>2
<1> QED BY <1>1, <1>3 DEF SamplesBy, Noted

\* Lemma.  A sample updates every window before it is added to it (addValue).
LEMMA AddOK ==
  ASSUME WindowsOK, NEW t \in 1 .. windowNow, NEW v \in Values, addValue(t, v)
  PROVE  WindowsOK'
<1> DEFINE U(w) == Updated(windows[w], w, t)
<1>1. /\ windowNow \in Nat /\ t \in Nat /\ v \in Int /\ mNextWindowFunctionTimesOut \in Nat
      /\ Later \in Nat /\ Len(history) < WindowSamples /\ WindowSamples \in Nat
      /\ history \in Seq(SamplesBy(windowNow)) /\ UNCHANGED <<windowNow, lastCall>>
      /\ history' = Append(history, Noted(t, v)) /\ Noted(t, v) \in SamplesBy(windowNow)
  BY WindowAssumption, LaterIs, NotedIs DEF WindowsOK, addValue, Noted
<1>2. /\ history' \in Seq(SamplesBy(windowNow'))
      /\ Len(history') = Len(history) + 1 /\ Len(history) \in Nat
  BY <1>1
<1>3. windows' = [w \in WindowSizes |-> [U(w) EXCEPT !.collecting = With(@, v)]]
  BY DEF addValue
<1>4. ASSUME NEW w \in WindowSizes
      PROVE  /\ windows'[w] \in Windows
             /\ windows'[w].mLastTimeCalculated <= windowNow
             /\ windows'[w].mLastTimeCalculated >= windows[w].mLastTimeCalculated
             /\ windows'[w].collecting.count <= Len(history')
             /\ EndOf(windows'[w], w) \in Nat
  <2> DEFINE d == windows[w]
             u == U(w)
  <2>1. d \in Windows /\ d.mLastTimeCalculated <= windowNow /\ d.collecting.count <= Len(history)
    BY DEF WindowsOK, WindowOK
  <2>2. /\ u \in Windows /\ u.mLastTimeCalculated >= d.mLastTimeCalculated
        /\ u.mLastTimeCalculated <= d.mLastTimeCalculated \/ u.mLastTimeCalculated <= t
        /\ u.collecting = d.collecting \/ u.collecting = Fresh
    BY <1>1, <2>1, UpdatedIs
  <2>3. windows'[w] = [u EXCEPT !.collecting = With(u.collecting, v)]
    BY <1>3
  <2> HIDE DEF d, u
  <2>4. u.collecting \in Sums /\ u.collecting.count <= Len(history) /\ u.mLastTimeCalculated \in Nat
    BY <1>2, <2>1, <2>2 DEF Windows, Sums, Fresh
  <2>5. With(u.collecting, v) \in Sums /\ With(u.collecting, v).count <= Len(history')
    <3>1. With(u.collecting, v) \in Sums /\ With(u.collecting, v).count = u.collecting.count + 1
      BY <1>1, <2>4, WithIs
    <3> QED BY <1>2, <2>4, <3>1 DEF Sums
  <2>6. /\ windows'[w] \in Windows /\ windows'[w].mLastTimeCalculated = u.mLastTimeCalculated
        /\ windows'[w].collecting = With(u.collecting, v)
    BY <2>2, <2>3, <2>5 DEF Windows
  <2>7. d.mLastTimeCalculated \in Nat /\ w \in Nat
    BY <2>1, WindowAssumption DEF Windows
  <2> QED BY <1>1, <2>1, <2>2, <2>4, <2>5, <2>6, <2>7 DEF d, EndOf
<1>5. /\ mNextWindowFunctionTimesOut' \in 0 .. Later
      /\ \A w \in WindowSizes : mNextWindowFunctionTimesOut' <= EndOf(windows'[w], w)
  <2>1. mNextWindowFunctionTimesOut' = Min({mNextWindowFunctionTimesOut} \cup Ends(windows'))
    BY DEF addValue
  <2>2. /\ mNextWindowFunctionTimesOut' \in Nat
        /\ mNextWindowFunctionTimesOut' <= mNextWindowFunctionTimesOut
        /\ \A w \in WindowSizes : mNextWindowFunctionTimesOut' <= EndOf(windows'[w], w)
    BY <1>1, <1>4, <2>1, LeastEnd
  <2>3. mNextWindowFunctionTimesOut <= Later
    BY <1>1 DEF WindowsOK
  <2> QED BY <1>1, <2>2, <2>3
<1>6. NothingOverdue'
  <2>1. ASSUME lastCall = windowNow, NEW w \in WindowSizes
        PROVE  windowNow < EndOf(windows'[w], w)
    <3>1. windowNow < EndOf(windows[w], w)
      BY <2>1 DEF WindowsOK, NothingOverdue
    <3>2. windows[w].mLastTimeCalculated \in Nat /\ windows'[w].mLastTimeCalculated \in Nat /\ w \in Nat
      BY <1>4, WindowAssumption DEF WindowsOK, WindowOK, Windows
    <3>3. windows'[w].mLastTimeCalculated >= windows[w].mLastTimeCalculated
      BY <1>4
    <3> QED BY <1>1, <3>1, <3>2, <3>3 DEF EndOf
  <2> QED BY <1>1, <2>1 DEF NothingOverdue
<1>7. ASSUME NEW w \in WindowSizes
      PROVE  WindowOK(windows[w], w)'
  BY <1>1, <1>4, <1>5 DEF WindowOK
<1>8. Len(history') <= WindowSamples
  BY <1>1, <1>2
<1>9. windows' = [w \in WindowSizes |-> windows'[w]]
  BY <1>3
<1> QED BY <1>1, <1>2, <1>5, <1>6, <1>7, <1>8, <1>9 DEF WindowsOK

\* Lemma.  A look at the windows leaves none that is over, also when it finds that none can be.
LEMMA EvaluateOK ==
  ASSUME WindowsOK, updateAllFixedWindowFunctions
  PROVE  WindowsOK'
<1>1. /\ windowNow \in Nat /\ lastCall' = windowNow /\ UNCHANGED <<windowNow, history>>
      /\ Later \in Nat
  BY WindowAssumption, LaterIs DEF WindowsOK, updateAllFixedWindowFunctions
<1>2. CASE windowNow >= mNextWindowFunctionTimesOut
  <2>1. /\ windows' = [w \in WindowSizes |-> Updated(windows[w], w, windowNow)]
        /\ mNextWindowFunctionTimesOut' = Min({Later} \cup Ends(windows'))
    BY <1>2 DEF updateAllFixedWindowFunctions, NextTimeOut
  <2>2. ASSUME NEW w \in WindowSizes
        PROVE  /\ windows'[w] \in Windows
               /\ windows'[w].mLastTimeCalculated <= windowNow
               /\ windows'[w].collecting.count <= Len(history)
               /\ EndOf(windows'[w], w) \in Nat
               /\ windowNow < EndOf(windows'[w], w)
    <3> DEFINE d == windows[w]
               u == Updated(windows[w], w, windowNow)
    <3>1. /\ d \in Windows /\ d.mLastTimeCalculated <= windowNow /\ d.collecting.count <= Len(history)
          /\ Len(history) \in Nat
      BY DEF WindowsOK, WindowOK
    <3>2. /\ u \in Windows
          /\ u.mLastTimeCalculated <= d.mLastTimeCalculated \/ u.mLastTimeCalculated <= windowNow
          /\ u.collecting = d.collecting \/ u.collecting = Fresh
          /\ windowNow < EndOf(u, w)
      BY <1>1, <3>1, UpdatedIs
    <3>3. windows'[w] = u
      BY <2>1
    <3> HIDE DEF d, u
    <3>4. u.mLastTimeCalculated \in Nat /\ d.mLastTimeCalculated \in Nat /\ w \in Nat
      BY <3>1, <3>2, WindowAssumption DEF Windows
    <3>5. u.collecting.count <= Len(history)
      BY <3>1, <3>2 DEF Fresh
    <3> QED BY <1>1, <3>1, <3>2, <3>3, <3>4, <3>5 DEF EndOf
  <2>3. /\ mNextWindowFunctionTimesOut' \in 0 .. Later
        /\ \A w \in WindowSizes : mNextWindowFunctionTimesOut' <= EndOf(windows'[w], w)
    <3>1. /\ mNextWindowFunctionTimesOut' \in Nat /\ mNextWindowFunctionTimesOut' <= Later
          /\ \A w \in WindowSizes : mNextWindowFunctionTimesOut' <= EndOf(windows'[w], w)
      BY <1>1, <2>1, <2>2, LeastEnd
    <3> QED BY <1>1, <3>1
  <2>4. NothingOverdue'
    BY <1>1, <2>2 DEF NothingOverdue
  <2>5. ASSUME NEW w \in WindowSizes
        PROVE  WindowOK(windows[w], w)'
    BY <1>1, <2>2, <2>3 DEF WindowOK
  <2>6. windows' = [w \in WindowSizes |-> windows'[w]]
    BY <2>1
  <2>7. lastCall' \in 0 .. windowNow'
    BY <1>1
  <2> QED BY <1>1, <2>3, <2>4, <2>5, <2>6, <2>7 DEF WindowsOK
<1>3. CASE ~(windowNow >= mNextWindowFunctionTimesOut)
  <2>1. UNCHANGED <<windows, mNextWindowFunctionTimesOut>>
    BY <1>3 DEF updateAllFixedWindowFunctions
  <2>2. ASSUME NEW w \in WindowSizes
        PROVE  windowNow < EndOf(windows[w], w)
    <3>1. mNextWindowFunctionTimesOut <= EndOf(windows[w], w) /\ mNextWindowFunctionTimesOut \in Nat
      BY <1>1 DEF WindowsOK, WindowOK
    <3>2. EndOf(windows[w], w) \in Nat
      BY WindowAssumption DEF EndOf, WindowsOK, WindowOK, Windows
    <3> QED BY <1>1, <1>3, <3>1, <3>2
  <2>3. NothingOverdue'
    BY <1>1, <2>1, <2>2 DEF NothingOverdue, EndOf
  <2>4. lastCall' \in 0 .. windowNow'
    BY <1>1
  <2> QED BY <1>1, <2>1, <2>3, <2>4 DEF WindowsOK, WindowOK
<1> QED BY <1>2, <1>3

\* Lemma.  The clock goes on, and nothing is said about windows until the next look at them.
LEMMA TickOK ==
  ASSUME WindowsOK, WindowTick
  PROVE  WindowsOK'
<1>1. /\ windowNow \in Nat /\ windowNow' = windowNow + 1 /\ windowNow < WindowTime
      /\ UNCHANGED <<windows, mNextWindowFunctionTimesOut, history, lastCall>>
      /\ lastCall \in 0 .. windowNow /\ WindowTime \in Nat
  BY WindowAssumption DEF WindowsOK, WindowTick
<1>2. windowNow' \in 1 .. WindowTime /\ lastCall' \in 0 .. windowNow' /\ lastCall' # windowNow'
  BY <1>1
<1>3. history \in Seq(SamplesBy(windowNow'))
  <2>1. history \in Seq(SamplesBy(windowNow))
    BY DEF WindowsOK
  <2>2. 0 .. windowNow \subseteq 0 .. windowNow' /\ 1 .. windowNow \subseteq 1 .. windowNow'
    BY <1>1
  <2>3. [WindowSizes -> 1 .. windowNow] \subseteq [WindowSizes -> 1 .. windowNow']
    BY <2>2, Zenon
  <2>4. SamplesBy(windowNow) \subseteq SamplesBy(windowNow')
    BY <2>2, <2>3 DEF SamplesBy
  <2> QED BY <2>1, <2>4, SeqMonotonic
<1>4. ASSUME NEW w \in WindowSizes
      PROVE  WindowOK(windows[w], w)'
  BY <1>1 DEF WindowsOK, WindowOK, Windows
<1>5. NothingOverdue'
  BY <1>2 DEF NothingOverdue
<1> QED BY <1>1, <1>2, <1>3, <1>4, <1>5 DEF WindowsOK

\* Lemma.  Every step keeps each window one that the engine will look at in time.
LEMMA WindowsInvStep == WindowsOK /\ [WindowsNext]_windowVars => WindowsOK'
<1> SUFFICES ASSUME WindowsOK, [WindowsNext]_windowVars
             PROVE  WindowsOK'
  OBVIOUS
<1>1. ASSUME NEW t \in 1 .. windowNow, NEW v \in Values, addValue(t, v)
      PROVE  WindowsOK'
  BY <1>1, AddOK
<1>2. CASE UNCHANGED windowVars
  BY <1>2 DEF WindowsOK, WindowOK, NothingOverdue, EndOf, windowVars
<1> QED BY <1>1, <1>2, EvaluateOK, TickOK DEF WindowsNext

\* Theorem.  Whatever the values, however late a sample is added and however long the thread does
\* not look: everything has its type and no window that is over is taken for the present one at
\* the moment of an evaluation (CollectionInspectionEngine.cpp:264).
THEOREM WindowsInvariance == WindowsSpec => [](WindowsTypeOK /\ NothingOverdue)
<1>1. WindowsOK => WindowsTypeOK /\ NothingOverdue
  <2> SUFFICES ASSUME WindowsOK PROVE WindowsTypeOK /\ NothingOverdue
    OBVIOUS
  <2> DEFINE T == [mLastTimeCalculated : 0 .. windowNow, last : Summaries, previous : Summaries,
                   collecting : [min : Int, max : Int, sum : Int, count : 0 .. WindowSamples]]
  <2>1. ASSUME NEW w \in WindowSizes
        PROVE  windows[w] \in T
    <3>1. /\ windows[w] \in Windows /\ windows[w].mLastTimeCalculated <= windowNow
          /\ windows[w].collecting.count <= Len(history) /\ Len(history) <= WindowSamples
          /\ Len(history) \in Nat /\ WindowSamples \in Nat /\ windowNow \in Nat
      BY WindowAssumption DEF WindowsOK, WindowOK
    <3> DEFINE c == windows[w].collecting
    <3>2. c \in Sums
      BY <3>1 DEF Windows
    <3>3. c.count \in 0 .. WindowSamples
      BY <3>1, <3>2 DEF Sums
    <3>4. c \in [min : Int, max : Int, sum : Int, count : 0 .. WindowSamples]
      BY <3>2, <3>3 DEF Sums
    <3> HIDE DEF c
    <3>5. windows[w].mLastTimeCalculated \in 0 .. windowNow
      BY <3>1 DEF Windows
    <3> QED BY <3>1, <3>4, <3>5 DEF Windows, c
  <2> HIDE DEF T
  <2>2. windows \in [WindowSizes -> T]
    BY <2>1 DEF WindowsOK
  <2> QED BY <2>2 DEF WindowsOK, WindowsTypeOK, SamplesBy, T
<1>2. WindowsOK /\ [WindowsNext]_windowVars => WindowsOK'
  BY WindowsInvStep
<1> QED BY <1>1, <1>2, WindowsOKInit, PTL DEF WindowsSpec

-----------------------------------------------------------------------------
(* Lemmas about what samples come to *)

\* Lemma.  What holds of 0 and passes from each number up to n to the next holds up to n.
LEMMA UpTo ==
  ASSUME NEW n \in Nat, NEW S, 0 \in S, \A i \in 1 .. n : i - 1 \in S => i \in S
  PROVE  \A i \in 0 .. n : i \in S
<1> SUFFICES ASSUME NEW k \in 0 .. n, k \notin S
             PROVE  FALSE
  OBVIOUS
<1> DEFINE Left == {i \in 0 .. n : i \notin S}
<1>1. Left \in SUBSET Nat /\ Left # {}
  OBVIOUS
<1> HIDE DEF Left
<1>2. Min(Left) \in Left /\ \A y \in Left : Min(Left) <= y
  BY <1>1, MinIs
<1> DEFINE x == Min(Left)
<1> HIDE DEF x
<1>3. x \in 0 .. n /\ x \notin S /\ \A y \in Left : x <= y
  BY <1>2 DEF Left, x
<1>4. x \in 1 .. n /\ x - 1 \in 0 .. n /\ ~(x <= x - 1)
  BY <1>3
<1>5. x - 1 \in S
  BY <1>3, <1>4 DEF Left
<1> QED BY <1>3, <1>4, <1>5

\* The sums of the first values of a sequence, by their number.
SumTo(n, a) == CHOOSE f : f = [i \in 0 .. n |-> IF i = 0 THEN 0 ELSE f[i - 1] + a[i]]

\* Lemma.  The sums of the first values of a sequence of integers exist.
LEMMA PartialSums ==
  ASSUME NEW n \in Nat, NEW a, \A i \in 1 .. n : a[i] \in Int
  PROVE  /\ SumTo(n, a) \in [0 .. n -> Int]
         /\ SumTo(n, a) = [i \in 0 .. n |-> IF i = 0 THEN 0 ELSE SumTo(n, a)[i - 1] + a[i]]
<1> DEFINE Is(f, k) == f = [i \in 0 .. k |-> IF i = 0 THEN 0 ELSE f[i - 1] + a[i]]
           S == {k \in 0 .. n : \E f : Is(f, k)}
           sum == SumTo(n, a)
<1>1. 0 \in S
  <2> DEFINE f == [i \in 0 .. 0 |-> 0]
  <2>1. f = [i \in 0 .. 0 |-> IF i = 0 THEN 0 ELSE f[i - 1] + a[i]]
    OBVIOUS
  <2>2. \E h : Is(h, 0)
    BY <2>1
  <2> QED BY <2>2
<1>2. ASSUME NEW k \in 1 .. n, k - 1 \in S
      PROVE  k \in S
  <2>1. PICK f : Is(f, k - 1)
    BY <1>2
  <2> DEFINE g == [i \in 0 .. k |-> IF i = k THEN f[k - 1] + a[k] ELSE f[i]]
  <2>2. \A i \in 0 .. k - 1 : f[i] = IF i = 0 THEN 0 ELSE f[i - 1] + a[i]
    BY <2>1
  <2>3. \A i \in 0 .. k : g[i] = IF i = 0 THEN 0 ELSE g[i - 1] + a[i]
    BY <2>2
  <2>4. g = [i \in 0 .. k |-> g[i]]
    OBVIOUS
  <2> HIDE DEF g
  <2>5. Is(g, k)
    BY <2>3, <2>4
  <2> QED BY <2>5
<1>3. \E f : Is(f, n)
  <2> HIDE DEF S
  <2>1. n \in S
    BY <1>1, <1>2, UpTo
  <2> QED BY <2>1 DEF S
<1>4. Is(sum, n)
  BY <1>3 DEF SumTo
<1> HIDE DEF sum
<1>5. \A i \in 0 .. n : sum[i] = IF i = 0 THEN 0 ELSE sum[i - 1] + a[i]
  BY <1>4
<1> DEFINE T == {j \in 0 .. n : sum[j] \in Int}
<1>6. 0 \in T
  BY <1>5
<1>7. \A i \in 1 .. n : i - 1 \in T => i \in T
  BY <1>5
<1> HIDE DEF T
<1>8. \A i \in 0 .. n : i \in T
  BY <1>6, <1>7, UpTo
<1>9. sum \in [0 .. n -> Int]
  <2>1. sum = [i \in 0 .. n |-> sum[i]]
    BY <1>4
  <2> QED BY <1>8, <2>1 DEF T
<1> QED BY <1>4, <1>9 DEF sum

\* Samples of a signal, and what was received of it so far.
Sampled == [time : Nat, value : Int, seen : Nat, counted : [WindowSizes -> Nat]]

\* Lemma.  A sample adds its value to the total of those it is counted among.
LEMMA TotalIs ==
  ASSUME NEW h \in Seq(Sampled), NEW is \in SUBSET (1 .. Len(h)), NEW e \in Sampled
  PROVE  LET n == Len(h)
             longer == Append(h, e)
         IN  /\ TotalOf(h, is) \in Int
             /\ TotalOf(longer, is) = TotalOf(h, is)
             /\ TotalOf(longer, is \cup {n + 1}) = TotalOf(h, is) + e.value
<1> DEFINE n == Len(h)
           longer == Append(h, e)
           a == [i \in DOMAIN h |-> IF i \in is THEN h[i].value ELSE 0]
           b(x) == [i \in DOMAIN longer |-> IF i \in x THEN longer[i].value ELSE 0]
           A == SumTo(n, a)
           B(x) == SumTo(Len(longer), b(x))
<1>1. n \in Nat /\ DOMAIN h = 1 .. n /\ \A i \in 1 .. n : h[i] \in Sampled
  OBVIOUS
<1>2. /\ Len(longer) = n + 1 /\ DOMAIN longer = 1 .. n + 1 /\ longer[n + 1] = e
      /\ \A i \in 1 .. n : longer[i] = h[i]
  BY <1>1
<1>3. TotalOf(h, is) = A[n]
  BY DEF TotalOf, SumTo
<1>4. ASSUME NEW x
      PROVE  TotalOf(longer, x) = B(x)[Len(longer)]
  BY DEF TotalOf, SumTo
<1> HIDE DEF n, longer
<1>5. \A i \in 1 .. n : a[i] \in Int
  BY <1>1 DEF Sampled
<1>6. ASSUME NEW x, NEW i \in 1 .. n + 1
      PROVE  b(x)[i] \in Int
  BY <1>1, <1>2 DEF Sampled
<1>7. A \in [0 .. n -> Int] /\ A = [i \in 0 .. n |-> IF i = 0 THEN 0 ELSE A[i - 1] + a[i]]
  <2> HIDE DEF a
  <2> QED BY <1>1, <1>5, PartialSums
<1>8. ASSUME NEW x
      PROVE  B(x) = [i \in 0 .. n + 1 |-> IF i = 0 THEN 0 ELSE B(x)[i - 1] + b(x)[i]]
  <2>1. Len(longer) \in Nat /\ \A i \in 1 .. Len(longer) : b(x)[i] \in Int
    BY <1>1, <1>2, <1>6
  <2> HIDE DEF b
  <2> QED BY <1>2, <2>1, PartialSums
<1> HIDE DEF A
<1>9. ASSUME NEW x, NEW more \in Int, b(x)[n + 1] = more, \A i \in 1 .. n : b(x)[i] = a[i]
      PROVE  TotalOf(longer, x) = TotalOf(h, is) + more
  <2> DEFINE Bx == B(x)
             bx == b(x)
             Same == {i \in 0 .. n : A[i] = Bx[i]}
  <2>1. Bx = [i \in 0 .. n + 1 |-> IF i = 0 THEN 0 ELSE Bx[i - 1] + bx[i]]
    BY <1>8
  <2>2. \A i \in 1 .. n : bx[i] = a[i]
    BY <1>9
  <2>3. bx[n + 1] = more /\ TotalOf(longer, x) = Bx[n + 1]
    BY <1>2, <1>4, <1>9
  <2> HIDE DEF Bx, bx, a
  <2>4. 0 \in Same
    BY <1>1, <1>7, <2>1
  <2>5. \A i \in 1 .. n : i - 1 \in Same => i \in Same
    BY <1>1, <1>7, <2>1, <2>2
  <2> HIDE DEF Same
  <2>6. n \in Same
    BY <1>1, <2>4, <2>5, UpTo
  <2>7. A[n] = Bx[n] /\ A[n] \in Int
    BY <1>1, <1>7, <2>6 DEF Same
  <2>8. Bx[n + 1] = Bx[n] + bx[n + 1]
    BY <1>1, <2>1
  <2> QED BY <1>3, <2>3, <2>7, <2>8
<1>10. ASSUME NEW i \in 1 .. n
       PROVE  b(is)[i] = a[i] /\ b(is \cup {n + 1})[i] = a[i]
  BY <1>1, <1>2
<1>11. b(is)[n + 1] = 0 /\ b(is \cup {n + 1})[n + 1] = e.value /\ e.value \in Int
  BY <1>1, <1>2 DEF n, Sampled
<1>12. TotalOf(h, is) \in Int
  BY <1>1, <1>3, <1>7
<1> HIDE DEF a, b
<1>13. TotalOf(longer, is) = TotalOf(h, is) + 0
  BY <1>9, <1>10, <1>11
<1>14. TotalOf(longer, is \cup {n + 1}) = TotalOf(h, is) + e.value
  BY <1>9, <1>10, <1>11
<1> QED BY <1>12, <1>13, <1>14 DEF n, longer

\* Lemma.  How many whole windows fit in a time.
LEMMA WindowsPassed ==
  ASSUME NEW a \in Nat, NEW w \in Nat \ {0}
  PROVE  /\ w <= a /\ a < 2 * w => (a \div w) * w = w
         /\ 2 * w <= a => 2 * w <= (a \div w) * w
         /\ (a \div w) * w \in Nat
<1> DEFINE q == a \div w
<1>1. q \in Nat /\ q * w <= a /\ a < q * w + w
  OBVIOUS
<1> HIDE DEF q
<1>2. ASSUME NEW k \in Nat, q >= k
      PROVE  k * w <= q * w
  <2>1. PICK j \in Nat : q = k + j
    <3>1. q - k \in Nat /\ q = k + (q - k)
      BY <1>1, <1>2
    <3> QED BY <3>1
  <2>2. q * w = k * w + j * w /\ j * w >= 0
    BY <2>1
  <2>3. q * w \in Nat /\ k * w \in Nat /\ j * w \in Nat
    BY <1>1
  <2> QED BY <2>2, <2>3
<1>3. q >= 2 => 2 * w <= q * w
  BY <1>2
<1>4. q = 0 => a < w
  BY <1>1
<1>5. q = 1 => a < 2 * w /\ q * w = w
  BY <1>1
<1>6. q = 0 \/ q = 1 \/ q >= 2
  BY <1>1
<1>7. w <= a /\ a < 2 * w => q * w = w
  <2>1. q * w \in Nat
    BY <1>1
  <2> QED BY <1>1, <1>3, <1>4, <1>5, <1>6, <2>1
<1>8. 2 * w <= a => 2 * w <= q * w
  BY <1>3, <1>4, <1>5, <1>6
<1>9. q * w \in Nat
  BY <1>1
<1> QED BY <1>7, <1>8, <1>9 DEF q

Logs == Seq([time : Nat, value : Values, seen : Nat, counted : [WindowSizes -> Nat]])

\* Lemma.  What no sample adds to.
LEMMA TotalOfNone ==
  ASSUME NEW h \in Seq(Sampled)
  PROVE  TotalOf(h, {}) = 0
<1> DEFINE n == Len(h)
           a == [i \in DOMAIN h |-> IF i \in {} THEN h[i].value ELSE 0]
           A == SumTo(n, a)
           None == {i \in 0 .. n : A[i] = 0}
<1>1. n \in Nat /\ DOMAIN h = 1 .. n
  OBVIOUS
<1>2. TotalOf(h, {}) = A[n]
  BY DEF TotalOf, SumTo
<1> HIDE DEF n
<1>3. \A i \in 1 .. n : a[i] = 0
  BY <1>1
<1> HIDE DEF a
<1>4. A = [i \in 0 .. n |-> IF i = 0 THEN 0 ELSE A[i - 1] + a[i]]
  BY <1>1, <1>3, PartialSums
<1> HIDE DEF A
<1>5. 0 \in None /\ \A i \in 1 .. n : i - 1 \in None => i \in None
  BY <1>1, <1>3, <1>4
<1> HIDE DEF None
<1>6. n \in None
  BY <1>1, <1>5, UpTo
<1> QED BY <1>2, <1>6 DEF None

\* Lemma.  A finite set of integers has a least element, the opposite of the greatest opposite.
LEMMA LeastIs ==
  ASSUME NEW S \in SUBSET Int, IsFiniteSet(S), S # {}
  PROVE  Min(S) \in S /\ \A y \in S : Min(S) <= y
<1> DEFINE f == [x \in S |-> 0 - x]
           T == {f[x] : x \in S}
<1>1. T \in SUBSET Int /\ T # {}
  <2>1. \A x \in S : f[x] \in Int
    OBVIOUS
  <2> HIDE DEF f
  <2> QED BY <2>1
<1>2. IsFiniteSet(T)
  <2>1. DOMAIN f = S
    OBVIOUS
  <2> HIDE DEF f
  <2> QED BY <2>1, FiniteImage
<1>3. Max(T) \in T /\ \A y \in T : y <= Max(T)
  BY <1>1, <1>2, MaxIs
<1>4. PICK x \in S : \A y \in S : 0 - y <= 0 - x
  <2> HIDE DEF T
  <2>1. PICK x \in S : Max(T) = f[x]
    BY <1>3 DEF T
  <2>2. \A y \in S : f[y] \in T
    BY DEF T
  <2> QED BY <1>3, <2>1, <2>2
<1>5. \A y \in S : x <= y
  BY <1>4
<1> QED BY <1>5 DEF Min

\* Lemma.  The least and the greatest of a set with one more value.
LEMMA ExtremesGrow ==
  ASSUME NEW S \in SUBSET Int, IsFiniteSet(S), S # {}, NEW v \in Int
  PROVE  /\ Min(S \cup {v}) = Min({Min(S), v})
         /\ Max(S \cup {v}) = Max({Max(S), v})
<1>1. /\ Min(S) \in S /\ \A y \in S : Min(S) <= y
      /\ Max(S) \in S /\ \A y \in S : y <= Max(S)
  BY LeastIs, MaxIs
<1>2. S \cup {v} \in SUBSET Int /\ S \cup {v} # {} /\ IsFiniteSet(S \cup {v})
  BY FS_AddElement
<1>3. /\ Min(S \cup {v}) \in S \cup {v} /\ \A y \in S \cup {v} : Min(S \cup {v}) <= y
      /\ Max(S \cup {v}) \in S \cup {v} /\ \A y \in S \cup {v} : y <= Max(S \cup {v})
  BY <1>2, LeastIs, MaxIs
<1> DEFINE lo == Min(S)
           hi == Max(S)
           least == Min(S \cup {v})
           most == Max(S \cup {v})
<1> HIDE DEF lo, hi, least, most
<1>4. ASSUME NEW x \in Int
      PROVE  /\ Min({x, v}) \in {x, v} /\ Min({x, v}) <= x /\ Min({x, v}) <= v
             /\ Max({x, v}) \in {x, v} /\ x <= Max({x, v}) /\ v <= Max({x, v})
  <2>0. IsFiniteSet({x}) /\ {x, v} = {x} \cup {v}
    BY FS_Singleton
  <2>1. {x, v} \in SUBSET Int /\ {x, v} # {} /\ IsFiniteSet({x, v})
    BY <2>0, FS_AddElement
  <2> QED BY <2>1, LeastIs, MaxIs
<1>5. lo \in Int /\ hi \in Int /\ least \in Int /\ most \in Int
  BY <1>1, <1>2, <1>3 DEF lo, hi, least, most
<1>6. least <= lo /\ least <= v /\ (least = v \/ lo <= least)
  BY <1>1, <1>3 DEF lo, least
<1>7. hi <= most /\ v <= most /\ (most = v \/ most <= hi)
  BY <1>1, <1>3 DEF hi, most
<1>8. least = Min({lo, v})
  BY <1>4, <1>5, <1>6
<1>9. most = Max({hi, v})
  BY <1>4, <1>5, <1>7
<1> QED BY <1>8, <1>9 DEF lo, hi, least, most

\* What is collected of some samples, from the values with which a window begins.
CollectedOf(h, is) ==
    [min |-> Min({Highest} \cup ValuesOf(h, is)), max |-> Max({Tiny} \cup ValuesOf(h, is)),
     sum |-> TotalOf(h, is), count |-> Cardinality(is)]

\* Lemma.  Some of the samples, their values and their number are finitely many.
LEMMA SomeSamples ==
  ASSUME NEW h \in Logs, NEW is \in SUBSET DOMAIN h
  PROVE  /\ IsFiniteSet(is) /\ Cardinality(is) \in Nat /\ (is = {} <=> Cardinality(is) = 0)
         /\ ValuesOf(h, is) \in SUBSET Values /\ IsFiniteSet(ValuesOf(h, is))
         /\ ValuesOf(h, is) \in SUBSET Int
         /\ (is = {} <=> ValuesOf(h, is) = {})
         /\ h \in Seq(Sampled) /\ is \in SUBSET (1 .. Len(h))
<1>1. Len(h) \in Nat /\ DOMAIN h = 1 .. Len(h)
  BY DEF Logs
<1>2. IsFiniteSet(is)
  <2>1. IsFiniteSet(1 .. Len(h))
    BY <1>1, FS_Interval
  <2> QED BY <1>1, <2>1, FS_Subset
<1>3. Cardinality(is) \in Nat /\ (is = {} <=> Cardinality(is) = 0)
  BY <1>2, FS_CardinalityType, FS_EmptySet
<1>4. ASSUME NEW i \in is
      PROVE  h[i].value \in Values
  <2>1. h[i] \in [time : Nat, value : Values, seen : Nat, counted : [WindowSizes -> Nat]]
    BY <1>1, ElementOfSeq DEF Logs
  <2> QED BY <2>1
<1>5. ValuesOf(h, is) \in SUBSET Values /\ (is = {} <=> ValuesOf(h, is) = {})
  BY <1>4 DEF ValuesOf
<1> DEFINE f == [i \in is |-> h[i].value]
<1>6. ValuesOf(h, is) = {f[i] : i \in is} /\ DOMAIN f = is
  BY DEF ValuesOf
<1> HIDE DEF f
<1>7. IsFiniteSet(ValuesOf(h, is))
  BY <1>2, <1>6, FiniteImage
<1>8. h \in Seq(Sampled)
  <2>1. [time : Nat, value : Values, seen : Nat, counted : [WindowSizes -> Nat]] \subseteq Sampled
    BY WindowAssumption DEF Sampled
  <2> QED BY <2>1, SeqMonotonic DEF Logs
<1>9. ValuesOf(h, is) \in SUBSET Int
  BY <1>5, WindowAssumption
<1> QED BY <1>1, <1>2, <1>3, <1>5, <1>7, <1>8, <1>9

\* Lemma.  A window begins with what is collected of no samples.
LEMMA CollectedOfNone ==
  ASSUME NEW h \in Logs
  PROVE  CollectedOf(h, {}) = Fresh /\ Completed(CollectedOf(h, {})) = Unavailable
<1>1. h \in Seq(Sampled) /\ Cardinality({}) = 0 /\ ValuesOf(h, {}) = {}
  BY SomeSamples, FS_EmptySet DEF ValuesOf
<1>2. TotalOf(h, {}) = 0
  BY <1>1, TotalOfNone
<1>3. Min({Highest}) = Highest /\ Max({Tiny}) = Tiny
  <2>1. Highest \in Int /\ Tiny \in Int
    BY WindowAssumption DEF Tiny
  <2>2. IsFiniteSet({Highest}) /\ IsFiniteSet({Tiny})
    BY FS_Singleton
  <2>3. {Highest} \in SUBSET Int /\ {Tiny} \in SUBSET Int /\ {Highest} # {} /\ {Tiny} # {}
    BY <2>1
  <2>4. Min({Highest}) \in {Highest} /\ Max({Tiny}) \in {Tiny}
    BY <2>2, <2>3, LeastIs, MaxIs
  <2> QED BY <2>4
<1>4. CollectedOf(h, {}) = Fresh
  <2>1. {Highest} \cup {} = {Highest} /\ {Tiny} \cup {} = {Tiny}
    OBVIOUS
  <2> QED BY <1>1, <1>2, <1>3, <2>1 DEF CollectedOf, Fresh
<1> QED BY <1>4 DEF Completed, Fresh

\* Lemma.  What is kept of a window that is over says what its samples come to.
LEMMA KeptAgrees ==
  ASSUME history \in Logs, NEW is \in SUBSET DOMAIN history
  PROVE  AgreesWith(Completed(CollectedOf(history, is)), is)
<1> DEFINE S == ValuesOf(history, is)
           c == CollectedOf(history, is)
<1>1. /\ Cardinality(is) \in Nat /\ (is = {} <=> Cardinality(is) = 0)
      /\ S \in SUBSET Values /\ S \in SUBSET Int /\ IsFiniteSet(S) /\ (is = {} <=> S = {})
  BY SomeSamples
<1>2. /\ c.min = Min({Highest} \cup S) /\ c.max = Max({Tiny} \cup S)
      /\ c.sum = TotalOf(history, is) /\ c.count = Cardinality(is)
  BY DEF CollectedOf
<1> HIDE DEF c, S
<1>3. CASE is = {}
  BY <1>1, <1>2, <1>3 DEF AgreesWith, Completed, Unavailable, c
<1>4. CASE is # {}
  <2>1. Completed(c) = [available |-> TRUE, min |-> c.min, max |-> c.max, sum |-> c.sum,
                        count |-> c.count]
    BY <1>1, <1>2, <1>4 DEF Completed
  <2>2. S # {} /\ Highest \in Int /\ Tiny \in Int /\ \A v \in S : v < Highest /\ v \in Int
    BY <1>1, <1>4, WindowAssumption DEF Tiny
  <2>3. Min(S) \in S /\ (\A y \in S : Min(S) <= y) /\ Max(S) \in S /\ (\A y \in S : y <= Max(S))
    BY <1>1, <2>2, LeastIs, MaxIs
  <2>4. /\ {Highest} \cup S \in SUBSET Int /\ {Tiny} \cup S \in SUBSET Int
        /\ {Highest} \cup S # {} /\ {Tiny} \cup S # {}
        /\ IsFiniteSet({Highest} \cup S) /\ IsFiniteSet({Tiny} \cup S)
    <3>1. IsFiniteSet(S \cup {Highest}) /\ IsFiniteSet(S \cup {Tiny})
      BY <1>1, FS_AddElement
    <3>2. S \cup {Highest} = {Highest} \cup S /\ S \cup {Tiny} = {Tiny} \cup S
      OBVIOUS
    <3> QED BY <1>1, <2>2, <3>1, <3>2
  <2>5. /\ c.min \in {Highest} \cup S /\ \A y \in {Highest} \cup S : c.min <= y
        /\ c.max \in {Tiny} \cup S /\ \A y \in {Tiny} \cup S : y <= c.max
    BY <1>2, <2>4, LeastIs, MaxIs
  <2>6. c.min = Min(S)
    <3>1. c.min <= Min(S) /\ Min(S) \in Int /\ Min(S) < Highest /\ c.min \in Int
      BY <2>2, <2>3, <2>5
    <3>2. c.min \in S
      BY <2>2, <2>5, <3>1
    <3>3. Min(S) <= c.min
      BY <2>3, <3>2
    <3> QED BY <3>1, <3>3
  <2>7. ASSUME NEW v \in S, v >= Tiny
        PROVE  c.max = Max(S)
    <3>1. Max(S) \in Int /\ v <= Max(S) /\ Max(S) <= c.max /\ c.max \in Int /\ v \in Int
      BY <2>2, <2>3, <2>5
    <3>2. c.max = Tiny \/ c.max <= Max(S)
      BY <2>3, <2>5
    <3> QED BY <2>2, <2>7, <3>1, <3>2
  <2> DEFINE kept == Completed(c)
  <2>8. /\ kept.available = TRUE /\ kept.min = Min(S) /\ kept.sum = TotalOf(history, is)
        /\ kept.count = Cardinality(is) /\ kept.max = c.max
    BY <1>2, <2>1, <2>6
  <2> HIDE DEF kept
  <2>9. AgreesWith(kept, is)
    BY <1>4, <2>7, <2>8 DEF AgreesWith, S
  <2> QED BY <2>9 DEF kept, c
<1> QED BY <1>3, <1>4 DEF c

\* Lemma.  Samples that came before make the same of themselves when another comes.
LEMMA SameValues ==
  ASSUME NEW h \in Logs, NEW is \in SUBSET DOMAIN h, NEW e \in Sampled
  PROVE  /\ ValuesOf(Append(h, e), is) = ValuesOf(h, is)
         /\ ValuesOf(Append(h, e), is \cup {Len(h) + 1}) = ValuesOf(h, is) \cup {e.value}
<1> DEFINE longer == Append(h, e)
           n == Len(h)
<1>1. n \in Nat /\ DOMAIN h = 1 .. n /\ longer[n + 1] = e /\ \A i \in 1 .. n : longer[i] = h[i]
  BY DEF Logs
<1> HIDE DEF longer, n
<1>2. \A i \in is : longer[i] = h[i]
  BY <1>1
<1>3. ValuesOf(longer, is) = ValuesOf(h, is)
  BY <1>2 DEF ValuesOf
<1>4. ValuesOf(longer, is \cup {n + 1}) = ValuesOf(h, is) \cup {e.value}
  BY <1>1, <1>2 DEF ValuesOf
<1> QED BY <1>3, <1>4 DEF longer, n

\* Lemma.  What is collected of the samples does not change when another comes, and collecting it
\* is counting it among them (updateInternalVariables).
LEMMA CollectedGrows ==
  ASSUME NEW h \in Logs, NEW is \in SUBSET DOMAIN h, NEW e \in Sampled
  PROVE  /\ CollectedOf(Append(h, e), is) = CollectedOf(h, is)
         /\ CollectedOf(Append(h, e), is \cup {Len(h) + 1}) = With(CollectedOf(h, is), e.value)
<1> DEFINE longer == Append(h, e)
           n == Len(h)
           v == e.value
           more == is \cup {n + 1}
           S == ValuesOf(h, is)
<1>1. /\ n \in Nat /\ DOMAIN h = 1 .. n /\ v \in Int /\ h \in Seq(Sampled)
      /\ is \in SUBSET (1 .. Len(h)) /\ IsFiniteSet(is) /\ S \in SUBSET Int /\ IsFiniteSet(S)
  <2>1. v \in Int
    BY DEF Sampled
  <2>2. n \in Nat /\ DOMAIN h = 1 .. n
    BY DEF Logs
  <2> QED BY <2>1, <2>2, SomeSamples
<1>2. /\ TotalOf(longer, is) = TotalOf(h, is)
      /\ TotalOf(longer, more) = TotalOf(h, is) + v
  BY <1>1, TotalIs
<1>3. ValuesOf(longer, is) = S /\ ValuesOf(longer, more) = S \cup {v}
  BY SameValues
<1>4. Cardinality(more) = Cardinality(is) + 1
  <2>1. n + 1 \notin is
    BY <1>1
  <2> QED BY <1>1, <2>1, FS_AddElement
<1> HIDE DEF longer, n, v, more, S
<1>5. ASSUME NEW first \in Int
      PROVE  /\ Min({first} \cup (S \cup {v})) = Min({Min({first} \cup S), v})
             /\ Max({first} \cup (S \cup {v})) = Max({Max({first} \cup S), v})
  <2> DEFINE T == S \cup {first}
  <2>1. T \in SUBSET Int /\ IsFiniteSet(T) /\ T # {}
    BY <1>1, FS_AddElement
  <2>2. {first} \cup (S \cup {v}) = T \cup {v} /\ {first} \cup S = T
    OBVIOUS
  <2> HIDE DEF T
  <2> QED BY <1>1, <2>1, <2>2, ExtremesGrow
<1>6. CollectedOf(longer, is) = CollectedOf(h, is)
  BY <1>2, <1>3 DEF CollectedOf, S
<1>7. CollectedOf(longer, more)
        = [min |-> Min({Highest} \cup (S \cup {v})), max |-> Max({Tiny} \cup (S \cup {v})),
           sum |-> TotalOf(h, is) + v, count |-> Cardinality(is) + 1]
  BY <1>2, <1>3, <1>4 DEF CollectedOf
<1>8. With(CollectedOf(h, is), v)
        = [min |-> Min({Min({Highest} \cup S), v}), max |-> Max({Max({Tiny} \cup S), v}),
           sum |-> TotalOf(h, is) + v, count |-> Cardinality(is) + 1]
  BY DEF With, CollectedOf, S
<1>9. Highest \in Int /\ Tiny \in Int
  BY WindowAssumption DEF Tiny
<1>10. CollectedOf(longer, more) = With(CollectedOf(h, is), v)
  BY <1>5, <1>7, <1>8, <1>9, Zenon
<1> QED BY <1>6, <1>10 DEF longer, n, v, more

\* The samples of h that were counted for the window that started at s.
For(h, w, s) == {i \in DOMAIN h : h[i].counted[w] = s}

\* The previous data are those of the window before the last, or of an earlier one after which
\* nothing was counted but for the present one.
PreviousFrom(h, d, w, s) ==
    LET start == d.mLastTimeCalculated
    IN  /\ \/ s = start - 2 * w
           \/ /\ s < start - 2 * w /\ For(h, w, s) # {}
              /\ \A i \in DOMAIN h : h[i].counted[w] <= s \/ h[i].counted[w] = start
        /\ d.previous = Completed(CollectedOf(h, For(h, w, s)))

\* A window says of the samples h what a look at all of them would.
Matches(h, d, w) ==
    LET start == d.mLastTimeCalculated
    IN  /\ d.collecting = CollectedOf(h, For(h, w, start))
        /\ d.last = Completed(CollectedOf(h, For(h, w, start - w)))
        /\ \E s \in Int : PreviousFrom(h, d, w, s)
        /\ \A i \in DOMAIN h : h[i].counted[w] <= start
        /\ start = 0 => h = <<>>

\* Lemma.  A sample is one that can be counted.
LEMMA SampleIs ==
  ASSUME NEW h \in Logs, NEW i \in DOMAIN h, NEW w \in WindowSizes
  PROVE  h[i] \in Sampled /\ h[i].time \in Nat /\ h[i].seen \in Nat /\ h[i].counted[w] \in Nat
<1>1. i \in 1 .. Len(h) /\ h \in Seq(Sampled)
  BY SomeSamples DEF Logs
<1>2. h[i] \in Sampled
  BY <1>1, ElementOfSeq
<1> QED BY <1>2 DEF Sampled

\* Lemma.  Nothing is counted for a window that begins after all for which samples are counted.
LEMMA NoneFor ==
  ASSUME NEW h \in Logs, NEW w \in WindowSizes, NEW s \in Int,
         \A i \in DOMAIN h : h[i].counted[w] < s
  PROVE  For(h, w, s) = {}
<1>1. ASSUME NEW i \in DOMAIN h, h[i].counted[w] = s
      PROVE  FALSE
  <2>1. h[i].counted[w] < s
    OBVIOUS
  <2> QED BY <1>1, <2>1
<1> QED BY <1>1 DEF For

\* Lemma.  updateWindow makes of one, two, more or no windows that passed what a look at all
\* samples would make of them.
LEMMA UpdatedMatches ==
  ASSUME NEW h \in Logs, NEW w \in WindowSizes, NEW d \in Windows, Matches(h, d, w),
         NEW t \in Nat \ {0}
  PROVE  Matches(h, Updated(d, w, t), w)
<1> DEFINE s == d.mLastTimeCalculated
           u == Updated(d, w, t)
           start == u.mLastTimeCalculated
<1>1. s \in Nat /\ w \in Nat \ {0} /\ t \in Nat /\ t # 0
  BY WindowAssumption DEF Windows
<1>2. /\ d.collecting = CollectedOf(h, For(h, w, s))
      /\ d.last = Completed(CollectedOf(h, For(h, w, s - w)))
      /\ \A i \in DOMAIN h : h[i].counted[w] <= s
      /\ s = 0 => h = <<>>
  BY DEF Matches
<1>3. \A i \in DOMAIN h : h[i].counted[w] \in Nat
  BY SampleIs
<1>4. CollectedOf(h, {}) = Fresh /\ Completed(CollectedOf(h, {})) = Unavailable
  BY CollectedOfNone
<1>5. ASSUME NEW e \in Windows, e.mLastTimeCalculated \in Nat, e.mLastTimeCalculated <= t,
             u = Begin(e, w, t)
      PROVE  /\ u.collecting = Fresh /\ u.last = e.last /\ u.previous = e.previous
             /\ start = e.mLastTimeCalculated + ((t - e.mLastTimeCalculated) \div w) * w
             /\ start \in e.mLastTimeCalculated .. t
  BY <1>5, <1>1, BeginIs
<1>6. CASE s = 0
  <2> DEFINE e == [d EXCEPT !.mLastTimeCalculated = t]
  <2>1. e \in Windows /\ e.mLastTimeCalculated = t /\ e.last = d.last /\ e.previous = d.previous
    BY DEF Windows
  <2>2. u = Begin(e, w, t)
    BY <1>6 DEF Updated
  <2> HIDE DEF e, u
  <2>3. u.collecting = Fresh /\ u.last = d.last /\ u.previous = d.previous /\ start = t
    <3>1. /\ u.collecting = Fresh /\ u.last = e.last /\ u.previous = e.previous
          /\ start \in e.mLastTimeCalculated .. t
      <4>1. e.mLastTimeCalculated \in Nat /\ e.mLastTimeCalculated <= t
        BY <1>1, <2>1
      <4> HIDE DEF start
      <4> QED BY <1>5, <2>1, <2>2, <4>1, Zenon
    <3>2. start \in t .. t
      BY <2>1, <3>1
    <3> HIDE DEF start
    <3> QED BY <1>1, <2>1, <3>1, <3>2
  <2>4. h = <<>> /\ DOMAIN h = {} /\ \A x : For(h, w, x) = {}
    BY <1>2, <1>6 DEF For
  <2>5. PICK x \in Int : PreviousFrom(h, d, w, x)
    BY DEF Matches
  <2>6. d.previous = CollectedOf(h, {}) \/ d.previous = Unavailable
    BY <1>4, <2>4, <2>5 DEF PreviousFrom
  <2>7. d.previous = Unavailable /\ d.last = Unavailable
    BY <1>2, <1>4, <2>4, <2>5 DEF PreviousFrom
  <2>8. start - 2 * w \in Int /\ PreviousFrom(h, u, w, start - 2 * w)
    <3>1. start - 2 * w \in Int
      BY <1>1, <2>3
    <3>2. u.previous = Completed(CollectedOf(h, For(h, w, start - 2 * w)))
      BY <1>4, <2>3, <2>4, <2>7
    <3> QED BY <3>1, <3>2 DEF PreviousFrom
  <2>9. start # 0
    BY <1>1, <2>3
  <2> HIDE DEF start
  <2> QED BY <1>4, <2>3, <2>4, <2>7, <2>8, <2>9 DEF Matches, u, start
<1>7. CASE s # 0 /\ t >= s + 2 * w
  <2> DEFINE e == [d EXCEPT !.last = Unavailable, !.previous = Completed(d.collecting)]
  <2>1. /\ e \in Windows /\ e.mLastTimeCalculated = s /\ e.last = Unavailable
        /\ e.previous = Completed(d.collecting)
    BY CompletedIs DEF Windows
  <2>2. u = Begin(e, w, t)
    BY <1>7 DEF Updated
  <2> HIDE DEF e, u
  <2>3. /\ u.collecting = Fresh /\ u.last = Unavailable
        /\ u.previous = Completed(CollectedOf(h, For(h, w, s)))
        /\ start = s + ((t - s) \div w) * w
    <3>1. s <= t
      BY <1>1, <1>7
    <3>2. /\ u.collecting = Fresh /\ u.last = e.last /\ u.previous = e.previous
          /\ start = e.mLastTimeCalculated + ((t - e.mLastTimeCalculated) \div w) * w
      BY <1>1, <1>5, <2>1, <2>2, <3>1
    <3> QED BY <1>2, <2>1, <3>2, Zenon
  <2>4. start \in Nat /\ s + 2 * w <= start
    <3> DEFINE gap == t - s
               passed == (gap \div w) * w
    <3>1. gap \in Nat /\ 2 * w <= gap
      BY <1>1, <1>7
    <3> HIDE DEF gap
    <3>2. 2 * w <= passed /\ passed \in Int
      <4>1. (gap \div w) * w \in Nat /\ (2 * w <= gap => 2 * w <= (gap \div w) * w)
        BY <1>1, <3>1, WindowsPassed, Zenon
      <4> HIDE DEF passed
      <4>2. passed \in Nat /\ (2 * w <= gap => 2 * w <= passed)
        BY <4>1 DEF passed
      <4> QED BY <3>1, <4>2
    <3>3. start = s + passed
      BY <2>3 DEF gap
    <3> HIDE DEF passed, start
    <3> QED BY <1>1, <3>2, <3>3
  <2> HIDE DEF start
  <2> DEFINE last0 == start - w
             previous0 == start - 2 * w
  <2>5. /\ last0 \in Int /\ previous0 \in Int /\ s < start /\ s < last0 /\ s <= previous0
        /\ start # 0
    BY <1>1, <2>4
  <2> HIDE DEF last0, previous0
  <2>6. For(h, w, start) = {} /\ For(h, w, last0) = {}
    <3>1. /\ \A i \in DOMAIN h : h[i].counted[w] < start
          /\ \A i \in DOMAIN h : h[i].counted[w] < last0
      BY <1>1, <1>2, <1>3, <2>4, <2>5
    <3> QED BY <2>4, <2>5, <3>1, NoneFor
  <2>7. \E x \in Int : PreviousFrom(h, u, w, x)
    <3>1. CASE s = previous0
      BY <1>1, <2>3, <3>1 DEF PreviousFrom, previous0, start
    <3>2. CASE s # previous0 /\ For(h, w, s) # {}
      <4>1. s < previous0 /\ s \in Int
        BY <1>1, <2>5, <3>2
      <4>2. PreviousFrom(h, u, w, s)
        BY <1>2, <2>3, <3>2, <4>1 DEF PreviousFrom, previous0, start
      <4> QED BY <4>1, <4>2
    <3>3. CASE s # previous0 /\ For(h, w, s) = {}
      <4>1. \A i \in DOMAIN h : h[i].counted[w] < previous0
        BY <1>1, <1>2, <1>3, <2>5, <3>3
      <4>2. For(h, w, previous0) = {}
        BY <2>5, <4>1, NoneFor
      <4>3. PreviousFrom(h, u, w, previous0)
        BY <2>3, <3>3, <4>2 DEF PreviousFrom, previous0, start
      <4> QED BY <2>5, <4>3
    <3> QED BY <3>1, <3>2, <3>3
  <2>8. \A i \in DOMAIN h : h[i].counted[w] <= start
    BY <1>1, <1>2, <1>3, <2>4, <2>5
  <2> QED BY <1>4, <2>3, <2>5, <2>6, <2>7, <2>8 DEF Matches, last0, start, u
<1>8. CASE s # 0 /\ ~(t >= s + 2 * w) /\ t >= s + w
  <2> DEFINE e == [d EXCEPT !.previous = d.last, !.last = Completed(d.collecting)]
  <2>1. /\ e \in Windows /\ e.mLastTimeCalculated = s /\ e.previous = d.last
        /\ e.last = Completed(d.collecting)
    BY CompletedIs DEF Windows
  <2>2. u = Begin(e, w, t)
    BY <1>8 DEF Updated
  <2> HIDE DEF e, u
  <2>3. /\ u.collecting = Fresh
        /\ u.last = Completed(CollectedOf(h, For(h, w, s)))
        /\ u.previous = Completed(CollectedOf(h, For(h, w, s - w)))
        /\ start = s + ((t - s) \div w) * w
    <3>1. s <= t
      BY <1>1, <1>8
    <3>2. /\ u.collecting = Fresh /\ u.last = e.last /\ u.previous = e.previous
          /\ start = e.mLastTimeCalculated + ((t - e.mLastTimeCalculated) \div w) * w
      BY <1>1, <1>5, <2>1, <2>2, <3>1
    <3> QED BY <1>2, <2>1, <3>2, Zenon
  <2>4. start = s + w
    <3> DEFINE gap == t - s
               passed == (gap \div w) * w
    <3>1. gap \in Nat /\ w <= gap /\ gap < 2 * w
      BY <1>1, <1>8
    <3> HIDE DEF gap
    <3>2. passed = w
      BY <1>1, <3>1, WindowsPassed
    <3>3. start = s + passed
      BY <2>3 DEF gap
    <3> HIDE DEF passed, start
    <3> QED BY <3>2, <3>3
  <2> HIDE DEF start
  <2>5. /\ start \in Nat /\ start - w = s /\ start - 2 * w = s - w /\ s < start /\ start # 0
        /\ s - w \in Int
    BY <1>1, <2>4
  <2>6. For(h, w, start) = {}
    <3>1. \A i \in DOMAIN h : h[i].counted[w] < start
      BY <1>1, <1>2, <1>3, <2>5
    <3> QED BY <2>5, <3>1, NoneFor
  <2>7. \E x \in Int : PreviousFrom(h, u, w, x)
    <3>1. PreviousFrom(h, u, w, s - w)
      BY <2>3, <2>5 DEF PreviousFrom, start
    <3> QED BY <2>5, <3>1
  <2>8. \A i \in DOMAIN h : h[i].counted[w] <= start
    BY <1>1, <1>2, <1>3, <2>5
  <2> QED BY <1>4, <2>3, <2>5, <2>6, <2>7, <2>8 DEF Matches, start, u
<1>9. CASE s # 0 /\ ~(t >= s + 2 * w) /\ ~(t >= s + w)
  BY <1>9 DEF Updated
<1> QED BY <1>6, <1>7, <1>8, <1>9

\* Lemma.  Which samples a further one joins.
LEMMA ForGrows ==
  ASSUME NEW h \in Logs, NEW e \in Sampled, NEW w \in WindowSizes, NEW s
  PROVE  For(Append(h, e), w, s)
           = IF e.counted[w] = s THEN For(h, w, s) \cup {Len(h) + 1} ELSE For(h, w, s)
<1> DEFINE longer == Append(h, e)
           n == Len(h)
<1>1. /\ n \in Nat /\ DOMAIN h = 1 .. n /\ DOMAIN longer = 1 .. n + 1 /\ longer[n + 1] = e
      /\ \A i \in 1 .. n : longer[i] = h[i]
  BY DEF Logs
<1> HIDE DEF longer, n
<1>2. \A i : i \in 1 .. n + 1 <=> i \in 1 .. n \/ i = n + 1
  BY <1>1
<1>3. For(longer, w, s) = IF e.counted[w] = s THEN For(h, w, s) \cup {n + 1} ELSE For(h, w, s)
  BY <1>1, <1>2 DEF For
<1> QED BY <1>3 DEF longer, n

\* Lemma.  A sample is collected in the present window and changes no earlier one.
LEMMA AddedMatches ==
  ASSUME NEW h \in Logs, NEW w \in WindowSizes, NEW d \in Windows, Matches(h, d, w),
         d.mLastTimeCalculated # 0, NEW e \in Sampled, e.counted[w] = d.mLastTimeCalculated
  PROVE  Matches(Append(h, e), [d EXCEPT !.collecting = With(@, e.value)], w)
<1> DEFINE start == d.mLastTimeCalculated
           longer == Append(h, e)
           more == [d EXCEPT !.collecting = With(d.collecting, e.value)]
<1>1. start \in Nat /\ w \in Nat \ {0} /\ start # 0
  BY WindowAssumption DEF Windows
<1>2. /\ more.mLastTimeCalculated = start /\ more.last = d.last /\ more.previous = d.previous
      /\ more.collecting = With(d.collecting, e.value)
  BY DEF Windows
<1>3. /\ Len(h) \in Nat /\ DOMAIN h = 1 .. Len(h) /\ DOMAIN longer = 1 .. Len(h) + 1
      /\ longer[Len(h) + 1] = e /\ \A i \in 1 .. Len(h) : longer[i] = h[i]
  BY DEF Logs
<1>4. For(longer, w, start) = For(h, w, start) \cup {Len(h) + 1}
  BY ForGrows
<1>5. ASSUME NEW s \in Int, s # start
      PROVE  /\ For(longer, w, s) = For(h, w, s)
             /\ CollectedOf(longer, For(longer, w, s)) = CollectedOf(h, For(h, w, s))
  <2> DEFINE is == For(h, w, s)
  <2>1. For(longer, w, s) = is
    BY <1>5, ForGrows
  <2>2. is \in SUBSET DOMAIN h
    BY DEF For
  <2> HIDE DEF is
  <2>3. CollectedOf(longer, is) = CollectedOf(h, is)
    BY <2>2, CollectedGrows
  <2> QED BY <2>1, <2>3 DEF is
<1>6. CollectedOf(longer, For(longer, w, start)) = With(CollectedOf(h, For(h, w, start)), e.value)
  <2> DEFINE is == For(h, w, start)
  <2>1. is \in SUBSET DOMAIN h
    BY DEF For
  <2> HIDE DEF is
  <2>2. CollectedOf(longer, is \cup {Len(h) + 1}) = With(CollectedOf(h, is), e.value)
    BY <2>1, CollectedGrows
  <2> QED BY <1>4, <2>2 DEF is
<1> HIDE DEF more, longer
<1>7. \A i \in DOMAIN longer : longer[i].counted[w] = start \/ (i \in DOMAIN h /\ longer[i] = h[i])
  BY <1>3
<1>8. more.collecting = CollectedOf(longer, For(longer, w, start))
  BY <1>2, <1>6 DEF Matches
<1>9. more.last = Completed(CollectedOf(longer, For(longer, w, start - w)))
  <2> DEFINE s == start - w
  <2>1. s \in Int /\ s # start
    BY <1>1
  <2>2. d.last = Completed(CollectedOf(h, For(h, w, s)))
    BY DEF Matches
  <2> HIDE DEF s
  <2>3. more.last = Completed(CollectedOf(longer, For(longer, w, s)))
    BY <1>2, <1>5, <2>1, <2>2
  <2> QED BY <2>3 DEF s
<1>10. \E s \in Int : PreviousFrom(longer, more, w, s)
  <2>1. PICK s \in Int : PreviousFrom(h, d, w, s)
    BY DEF Matches
  <2> HIDE DEF start
  <2>2. s # start
    BY <1>1, <2>1 DEF PreviousFrom, start
  <2>3. /\ For(longer, w, s) = For(h, w, s)
        /\ CollectedOf(longer, For(longer, w, s)) = CollectedOf(h, For(h, w, s))
    BY <1>5, <2>2
  <2>4. PreviousFrom(longer, more, w, s)
    BY <1>2, <1>7, <2>1, <2>3 DEF PreviousFrom, start
  <2> QED BY <2>4
<1>11. \A i \in DOMAIN longer : longer[i].counted[w] <= start
  <2>1. \A i \in DOMAIN h : h[i].counted[w] <= start
    BY DEF Matches
  <2> QED BY <1>1, <1>7, <2>1
<1>12. Matches(longer, more, w)
  <2> HIDE DEF start
  <2> QED BY <1>1, <1>2, <1>8, <1>9, <1>10, <1>11 DEF Matches
<1> QED BY <1>12 DEF more, longer

WindowsMatch == \A w \in WindowSizes : Matches(history, windows[w], w)

\* Where each sample is counted, and a window is ahead of no look and every sample.
InTime ==
    /\ CountedInTime
    /\ \A w \in WindowSizes :
          \/ windows[w].mLastTimeCalculated <= lastCall
          \/ \E j \in DOMAIN history : windows[w].mLastTimeCalculated <= history[j].time

\* Lemma.  The samples of the history can be counted, and the next one can.
LEMMA HistoryIsLog ==
  ASSUME WindowsOK
  PROVE  /\ history \in Logs /\ \A i \in DOMAIN history : history[i] \in Sampled
         /\ SamplesBy(windowNow) \subseteq Sampled
<1> DEFINE T == [time : Nat, value : Values, seen : Nat, counted : [WindowSizes -> Nat]]
<1>1. history \in Seq(SamplesBy(windowNow)) /\ windowNow \in Nat
  BY DEF WindowsOK
<1>2. [WindowSizes -> 1 .. windowNow] \subseteq [WindowSizes -> Nat]
  OBVIOUS
<1>3. 1 .. windowNow \subseteq Nat /\ 0 .. windowNow \subseteq Nat /\ Values \subseteq Int
  BY WindowAssumption
<1>4. SamplesBy(windowNow) \subseteq T
  BY <1>2, <1>3 DEF SamplesBy
<1>5. T \subseteq Sampled
  BY <1>3 DEF Sampled
<1>6. Logs = Seq(T)
  BY DEF Logs
<1> HIDE DEF T
<1>7. history \in Logs
  BY <1>1, <1>4, <1>6, SeqMonotonic
<1>8. \A i \in DOMAIN history : history[i] \in Sampled
  BY <1>1, <1>4, <1>5, ElementOfSeq
<1> QED BY <1>4, <1>5, <1>7, <1>8

\* Lemma.  Before the first sample there is nothing to say.
LEMMA MatchInit == WindowsInit => WindowsMatch /\ InTime
<1> SUFFICES ASSUME WindowsInit
             PROVE  WindowsMatch /\ InTime
  OBVIOUS
<1>1. history = <<>> /\ DOMAIN history = {} /\ history \in Logs
  BY DEF WindowsInit, Logs
<1>2. ASSUME NEW w \in WindowSizes
      PROVE  Matches(history, windows[w], w) /\ windows[w].mLastTimeCalculated <= lastCall
  <2> DEFINE d == windows[w]
  <2>1. /\ d.mLastTimeCalculated = 0 /\ d.last = Unavailable /\ d.previous = Unavailable
        /\ d.collecting = Fresh /\ lastCall = 0 /\ w \in Nat
    BY WindowAssumption DEF WindowsInit
  <2>2. CollectedOf(history, {}) = Fresh /\ Completed(CollectedOf(history, {})) = Unavailable
    BY <1>1, CollectedOfNone
  <2>3. \A s : For(history, w, s) = {}
    BY <1>1 DEF For
  <2> HIDE DEF d
  <2>4. 0 - 2 * w \in Int /\ PreviousFrom(history, d, w, 0 - 2 * w)
    BY <2>1, <2>2, <2>3 DEF PreviousFrom
  <2>5. Matches(history, d, w)
    BY <1>1, <2>1, <2>2, <2>3, <2>4 DEF Matches
  <2> QED BY <2>1, <2>5 DEF d
<1> QED BY <1>1, <1>2 DEF WindowsMatch, InTime, CountedInTime

\* Lemma.  A sample is counted for the window that is present when it is added, and nothing else of
\* what the windows say changes (addValue).
LEMMA MatchAdd ==
  ASSUME WindowsOK, WindowsMatch, NEW t \in 1 .. windowNow, NEW v \in Values, addValue(t, v)
  PROVE  WindowsMatch'
<1> DEFINE e == Noted(t, v)
<1>1. /\ windows' = [w \in WindowSizes |->
                       [Updated(windows[w], w, t) EXCEPT !.collecting = With(@, v)]]
      /\ history' = Append(history, e) /\ e.value = v
      /\ \A w \in WindowSizes : e.counted[w] = Updated(windows[w], w, t).mLastTimeCalculated
  BY DEF addValue, Noted
<1>2. history \in Logs /\ e \in Sampled /\ t \in Nat \ {0}
  BY HistoryIsLog, NotedIs DEF WindowsOK
<1> HIDE DEF e
<1>3. ASSUME NEW w \in WindowSizes
      PROVE  Matches(history', windows'[w], w)
  <2> DEFINE u == Updated(windows[w], w, t)
  <2>1. windows[w] \in Windows
    BY DEF WindowsOK, WindowOK
  <2>2. u \in Windows /\ u.mLastTimeCalculated # 0
    BY <1>2, <2>1, UpdatedIs
  <2>3. Matches(history, u, w)
    BY <1>2, <2>1, UpdatedMatches DEF WindowsMatch
  <2>4. windows'[w] = [u EXCEPT !.collecting = With(@, e.value)] /\ e.counted[w] = u.mLastTimeCalculated
    BY <1>1
  <2> HIDE DEF u
  <2> QED BY <1>1, <1>2, <2>2, <2>3, <2>4, AddedMatches
<1> QED BY <1>3 DEF WindowsMatch

\* Lemma.  A sample is counted late only when the window it was received in had already gone.
LEMMA InTimeAdd ==
  ASSUME WindowsOK, InTime, NEW t \in 1 .. windowNow, NEW v \in Values, addValue(t, v)
  PROVE  InTime'
<1> DEFINE e == Noted(t, v)
           n == Len(history)
<1>1. /\ windows' = [w \in WindowSizes |->
                       [Updated(windows[w], w, t) EXCEPT !.collecting = With(@, v)]]
      /\ history' = Append(history, e) /\ lastCall' = lastCall
      /\ e.time = t /\ e.seen = lastCall
      /\ \A w \in WindowSizes : e.counted[w] = Updated(windows[w], w, t).mLastTimeCalculated
  BY DEF addValue, Noted
<1>2. /\ n \in Nat /\ DOMAIN history = 1 .. n /\ DOMAIN history' = 1 .. n + 1
      /\ history'[n + 1] = e /\ \A i \in 1 .. n : history'[i] = history[i]
  BY <1>1, HistoryIsLog DEF Logs
<1>3. t \in Nat \ {0} /\ lastCall \in Nat /\ \A i \in 1 .. n : history[i].time \in Nat
  <2>1. windowNow \in Nat /\ lastCall \in 0 .. windowNow
    BY DEF WindowsOK
  <2>2. \A i \in 1 .. n : history[i] \in Sampled
    BY <1>2, HistoryIsLog
  <2> QED BY <2>1, <2>2 DEF Sampled
<1> HIDE DEF e, n
<1>4. ASSUME NEW w \in WindowSizes
      PROVE  LET from == e.counted[w]
             IN  /\ from \in Nat /\ windows'[w].mLastTimeCalculated = from /\ t < from + w
                 /\ from <= t \/ from <= lastCall \/ \E j \in 1 .. n : from <= history[j].time
  <2> DEFINE d == windows[w]
             u == Updated(d, w, t)
  <2>1. d \in Windows /\ w \in Nat
    BY WindowAssumption DEF WindowsOK, WindowOK
  <2>2. /\ u \in Windows
        /\ u.mLastTimeCalculated <= d.mLastTimeCalculated \/ u.mLastTimeCalculated <= t
        /\ t < EndOf(u, w)
    BY <1>3, <2>1, UpdatedIs
  <2>3. windows'[w] = [u EXCEPT !.collecting = With(@, v)] /\ e.counted[w] = u.mLastTimeCalculated
    BY <1>1
  <2>4. \/ d.mLastTimeCalculated <= lastCall
        \/ \E j \in 1 .. n : d.mLastTimeCalculated <= history[j].time
    BY <1>2 DEF InTime
  <2> HIDE DEF d, u
  <2>5. u.mLastTimeCalculated \in Nat /\ d.mLastTimeCalculated \in Nat
    BY <2>1, <2>2 DEF Windows
  <2>6. windows'[w].mLastTimeCalculated = u.mLastTimeCalculated
    BY <2>2, <2>3 DEF Windows
  <2>7. t < u.mLastTimeCalculated + w
    BY <2>2 DEF EndOf
  <2>8. \/ u.mLastTimeCalculated <= t \/ u.mLastTimeCalculated <= lastCall
        \/ \E j \in 1 .. n : u.mLastTimeCalculated <= history[j].time
    BY <1>3, <2>2, <2>4, <2>5
  <2> QED BY <2>3, <2>5, <2>6, <2>7, <2>8
<1>5. ASSUME NEW i \in 1 .. n + 1, NEW w \in WindowSizes
      PROVE  LET from == history'[i].counted[w]
             IN  /\ history'[i].time < from + w
                 /\ \/ from <= history'[i].time \/ from <= history'[i].seen
                    \/ \E j \in 1 .. i - 1 : from <= history'[j].time
  <2>1. CASE i = n + 1
    <3>1. 1 .. i - 1 = 1 .. n
      BY <1>2, <2>1
    <3> QED BY <1>1, <1>2, <1>4, <2>1, <3>1
  <2>2. CASE i \in 1 .. n
    <3>1. /\ history'[i] = history[i] /\ 1 .. i - 1 \subseteq 1 .. n
          /\ \A j \in 1 .. i - 1 : history'[j] = history[j]
      BY <1>2, <2>2
    <3> QED BY <1>2, <2>2, <3>1 DEF InTime, CountedInTime
  <2> QED BY <1>2, <2>1, <2>2
<1>6. CountedInTime'
  BY <1>2, <1>5 DEF CountedInTime
<1>7. ASSUME NEW w \in WindowSizes
      PROVE  \/ windows'[w].mLastTimeCalculated <= lastCall'
             \/ \E j \in DOMAIN history' : windows'[w].mLastTimeCalculated <= history'[j].time
  <2> DEFINE from == e.counted[w]
  <2>1. /\ windows'[w].mLastTimeCalculated = from
        /\ from <= t \/ from <= lastCall \/ \E j \in 1 .. n : from <= history[j].time
    BY <1>4
  <2> HIDE DEF from
  <2>2. CASE from <= t
    BY <1>1, <1>2, <2>1, <2>2
  <2>3. CASE from <= lastCall
    BY <1>1, <2>1, <2>3
  <2>4. CASE \E j \in 1 .. n : from <= history[j].time
    <3>1. PICK j \in 1 .. n : from <= history[j].time
      BY <2>4
    <3>2. j \in DOMAIN history' /\ history'[j] = history[j]
      BY <1>2
    <3> QED BY <2>1, <3>1, <3>2
  <2> QED BY <2>1, <2>2, <2>3, <2>4
<1> QED BY <1>6, <1>7 DEF InTime

\* Lemma.  A look at the windows, also one that finds that none can be over, keeps what they say.
LEMMA MatchEvaluate ==
  ASSUME WindowsOK, WindowsMatch, InTime, updateAllFixedWindowFunctions
  PROVE  (WindowsMatch /\ InTime)'
<1>1. lastCall' = windowNow /\ UNCHANGED <<windowNow, history>> /\ windowNow \in Nat \ {0}
  BY WindowAssumption DEF updateAllFixedWindowFunctions, WindowsOK
<1>2. ASSUME NEW w \in WindowSizes
      PROVE  Matches(history, windows'[w], w)
  <2>1. CASE windowNow >= mNextWindowFunctionTimesOut
    <3>1. windows'[w] = Updated(windows[w], w, windowNow)
      BY <2>1 DEF updateAllFixedWindowFunctions
    <3>2. history \in Logs /\ windows[w] \in Windows /\ Matches(history, windows[w], w)
      BY HistoryIsLog DEF WindowsOK, WindowOK, WindowsMatch
    <3> QED BY <1>1, <3>1, <3>2, UpdatedMatches
  <2>2. CASE ~(windowNow >= mNextWindowFunctionTimesOut)
    BY <2>2 DEF updateAllFixedWindowFunctions, WindowsMatch
  <2> QED BY <2>1, <2>2
<1>3. WindowsMatch'
  BY <1>1, <1>2 DEF WindowsMatch
<1>4. ASSUME NEW w \in WindowSizes
      PROVE  windows'[w].mLastTimeCalculated <= lastCall'
  BY <1>1, EvaluateOK DEF WindowsOK, WindowOK
<1>5. CountedInTime'
  BY <1>1 DEF InTime, CountedInTime
<1> QED BY <1>3, <1>4, <1>5 DEF InTime

\* Lemma.  Every step keeps what the windows say of the samples.
LEMMA MatchStep ==
  WindowsOK /\ WindowsMatch /\ InTime /\ [WindowsNext]_windowVars => (WindowsMatch /\ InTime)'
<1> SUFFICES ASSUME WindowsOK, WindowsMatch, InTime, [WindowsNext]_windowVars
             PROVE  (WindowsMatch /\ InTime)'
  OBVIOUS
<1>1. ASSUME NEW t \in 1 .. windowNow, NEW v \in Values, addValue(t, v)
      PROVE  (WindowsMatch /\ InTime)'
  BY <1>1, MatchAdd, InTimeAdd
<1>2. CASE WindowTick
  BY <1>2 DEF WindowTick, WindowsMatch, InTime, CountedInTime
<1>3. CASE UNCHANGED windowVars
  BY <1>3 DEF windowVars, WindowsMatch, InTime, CountedInTime
<1> QED BY <1>1, <1>2, <1>3, MatchEvaluate DEF WindowsNext

\* Lemma.  What the invariant says in the terms of the property.
LEMMA MatchesSay ==
  ASSUME WindowsOK, WindowsMatch, NEW w \in WindowSizes
  PROVE  LET start == windows[w].mLastTimeCalculated
         IN  /\ AgreesWith(windows[w].last, CountedFor(w, start - w))
             /\ \E s \in {start - 2 * w} \cup {history[i].counted[w] : i \in DOMAIN history} :
                   /\ s # start - 2 * w => KeptSince(w, s)
                   /\ AgreesWith(windows[w].previous, CountedFor(w, s))
<1> DEFINE d == windows[w]
           start == d.mLastTimeCalculated
<1>1. \A s : CountedFor(w, s) = For(history, w, s) /\ For(history, w, s) \in SUBSET DOMAIN history
  BY DEF CountedFor, For
<1>2. history \in Logs /\ Matches(history, d, w)
  BY HistoryIsLog DEF WindowsMatch
<1>3. AgreesWith(d.last, CountedFor(w, start - w))
  <2> DEFINE is == CountedFor(w, start - w)
  <2>1. is \in SUBSET DOMAIN history /\ d.last = Completed(CollectedOf(history, is))
    BY <1>1, <1>2 DEF Matches
  <2> HIDE DEF is
  <2>2. AgreesWith(d.last, is)
    BY <1>2, <2>1, KeptAgrees
  <2> QED BY <2>2 DEF is
<1>4. PICK s \in Int : PreviousFrom(history, d, w, s)
  BY <1>2 DEF Matches
<1>5. AgreesWith(d.previous, CountedFor(w, s))
  <2> DEFINE is == CountedFor(w, s)
  <2>1. is \in SUBSET DOMAIN history /\ d.previous = Completed(CollectedOf(history, is))
    BY <1>1, <1>4 DEF PreviousFrom
  <2> HIDE DEF is
  <2>2. AgreesWith(d.previous, is)
    BY <1>2, <2>1, KeptAgrees
  <2> QED BY <2>2 DEF is
<1>6. s # start - 2 * w =>
          KeptSince(w, s) /\ s \in {history[i].counted[w] : i \in DOMAIN history}
  BY <1>4 DEF PreviousFrom, KeptSince, For
<1> HIDE DEF d
<1> QED BY <1>3, <1>5, <1>6 DEF d

\* Theorem.  For any window sizes and values, however long samples wait in the queue and the thread
\* does not look: the windows say of the last window and of the one before what the samples that
\* were counted for them come to, and a sample is counted for a later window than that it was
\* received in only when that had gone (CollectionInspectionEngine.cpp:802).
THEOREM WindowsAreKept == WindowsSpec => []WindowsKept
<1>1. WindowsTypeOK /\ NothingOverdue /\ WindowsOK /\ WindowsMatch /\ InTime => WindowsKept
  BY MatchesSay DEF WindowsKept, WindowsMatchHistory, InTime
<1>2. WindowsInit => WindowsOK /\ WindowsMatch /\ InTime
  BY WindowsOKInit, MatchInit
<1>3. (WindowsOK /\ WindowsMatch /\ InTime) /\ [WindowsNext]_windowVars
          => (WindowsOK /\ WindowsMatch /\ InTime)'
  BY WindowsInvStep, MatchStep
<1> QED BY <1>1, <1>2, <1>3, WindowsInvariance, PTL DEF WindowsSpec
=============================================================================
