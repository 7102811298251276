--------------------------- MODULE OBDOverCANProofs ---------------------------
(***************************************************************************)
(* What the OBD thread asks for, whatever the dictionaries, the units, the *)
(* PIDs and the size of a request: only what the unit supports and some    *)
(* dictionary wanted, each PID of a list once; and it does not sleep on    *)
(* what it was not told of.                                                *)
(***************************************************************************)
EXTENDS OBDOverCAN, FiniteSetTheorems, SequenceTheorems, WellFoundedInduction, TLAPS

\* The thread and the manager's call as records; what the thread has got is PIDs or reports.
WorkerOf(pc, ecu, list, rest, chunk, got) ==
    [pc |-> pc, ecu |-> ecu, list |-> list, rest |-> rest, chunk |-> chunk, got |-> got]
IsWorker(w) == w = WorkerOf(w.pc, w.ecu, w.list, w.rest, w.chunk, w.got)
ManagerOf(pc, ecu, common, wanted) == [pc |-> pc, ecu |-> ecu, common |-> common, wanted |-> wanted]
IsManager(m) == m = ManagerOf(m.pc, m.ecu, m.common, m.wanted)

\* A list that unit e may be asked for, and an answer of its that may be on the way.
SomeWanted(l) == \E d \in Dictionaries : l \subseteq d.wanted
ForUnit(e, l) == l \subseteq mSupportedPIDs[e] \cap Reported[e] /\ SomeWanted(l)
Answers == [kind : {"vin", "supported", "pids", "dtc"}, pids : SUBSET PIDs]
AnswersOf(e) == {a \in Answers : /\ a.kind = "supported" => a.pids \subseteq Reported[e]
                                 /\ a.kind = "pids" => ForUnit(e, a.pids)}

DictionaryOK ==
    /\ mDecoderDictionaryPtr \subseteq PIDs /\ decoder \subseteq PIDs
    /\ mPIDsRequested = NoList \/ \E d \in Dictionaries : mPIDsRequested = d.wanted
TimersOK ==
    /\ mPIDTimer \in 0 .. PIDInterval /\ mDTCTimer \in 0 .. DTCInterval /\ slept \in 0 .. SleepTime
ListsOK ==
    /\ mSupportedPIDs \in [ECUs -> SUBSET Nat] /\ mPIDsToRequest \in [ECUs -> SUBSET Nat]
    /\ \A e \in ECUs : /\ mSupportedPIDs[e] = NoList \/ mSupportedPIDs[e] \subseteq Reported[e]
                       /\ mPIDsToRequest[e] = NoList \/ ForUnit(e, mPIDsToRequest[e])
Queues == {q \in [ECUs -> Seq(Answers)] : \A e \in ECUs : q[e] \in Seq(AnswersOf(e))}
BusOK == unanswered \in Queues /\ socket \in Queues
ManagerOK ==
    /\ IsManager(manager) /\ manager.ecu \in ECUs
    /\ manager.pc = "fill" => manager.common \subseteq PIDs
    /\ manager.pc \in {"fill", "requested"} => \E d \in Dictionaries : manager.wanted = d.wanted
    /\ manager.pc \in {"common", "assign"} => \E d \in Dictionaries : mPIDsRequested = d.wanted
    /\ manager.pc = "assign" => ForUnit(manager.ecu, manager.common)

\* A unit is asked what it supports at most until it is known, and its list is worked off by
\* whole groups.
Grouped(S, rest) ==
    \A n \in 0 .. FullGroups(S) : Group(S, n) \subseteq rest \/ Group(S, n) \cap rest = {}
WorkerOK ==
    /\ IsWorker(worker) /\ worker.ecu \in ECUs
    /\ worker.pc \in {"check", "asleep", "take", "look", "vin", "support", "resting"} => worker.got = {}
    /\ worker.pc \in {"firstRanges", "moreRanges", "lastRanges", "supported"} =>
           mSupportedPIDs[worker.ecu] = NoList /\ worker.got \subseteq Reported[worker.ecu]
    /\ worker.pc = "assign" => ForUnit(worker.ecu, worker.got)
    /\ worker.pc \in {"ask", "values"} =>
           /\ ForUnit(worker.ecu, worker.list)
           /\ worker.rest \subseteq worker.list /\ asked = worker.list \ worker.rest
           /\ Grouped(worker.list, worker.rest)
    /\ worker.pc \notin {"ask", "values"} => asked = {}

\* A notification stays until the sleeping thread takes it.
Told ==
    /\ mDecoderManifestAvailable => mDataAvailableWait \/ manager.pc = "notify" \/ worker.pc = "take"
    /\ worker.pc = "asleep" /\ mShouldRequestDTCs => mDataAvailableWait \/ manager.pc = "notify"
    /\ worker.pc = "asleep" /\ mShouldStop => mDataAvailableWait \/ main = "notify"

IInv == DictionaryOK /\ TimersOK /\ ListsOK /\ BusOK /\ ManagerOK /\ WorkerOK /\ Told

-----------------------------------------------------------------------------
(* Lemmas about ranks and groups *)

\* Dividing by the size of a group.
LEMMA Dividing ==
    ASSUME NEW M \in Nat \ {0}, NEW r \in Nat, NEW n \in Nat
    PROVE  /\ r \div M \in Nat
           /\ r \div M = n <=> n * M <= r /\ r < n * M + M
OBVIOUS

\* Lemma.  Division by a positive number keeps the order.
LEMMA DividingKeepsOrder ==
    ASSUME NEW M \in Nat \ {0}, NEW r \in Nat, NEW s \in Nat, r <= s
    PROVE  r \div M <= s \div M
<1>1. r \div M \in Nat /\ s \div M \in Nat
    BY Dividing
<1>2. (r \div M) * M <= r /\ s < (s \div M) * M + M
    BY <1>1, Dividing
<1> QED
    BY <1>1, <1>2

\* Lemma.  A function that tells its arguments apart is an injection.
LEMMA Injects ==
    ASSUME NEW S, NEW T, NEW f \in [S -> T], \A p, q \in S : p # q => f[p] # f[q]
    PROVE  f \in Injection(S, T)
<1>1. DOMAIN f = S
    OBVIOUS
<1>2. IsInjective(f)
    BY <1>1 DEF IsInjective
<1> QED
    BY <1>2 DEF Injection

\* The rank of an element is the number of the smaller ones: each rank up to the size is that of
\* exactly one element.
Below(S, p) == {q \in S : q < p}
Rank(S, p) == Cardinality(Below(S, p))

\* Lemma.  The ranks of a finite set of numbers are those below its size, one each.
LEMMA Ranks ==
    ASSUME NEW S \in SUBSET Nat, IsFiniteSet(S)
    PROVE  /\ Cardinality(S) \in Nat
           /\ \A p \in S : Rank(S, p) \in 0 .. Cardinality(S) - 1
           /\ \A p, q \in S : p # q => Rank(S, p) # Rank(S, q)
           /\ \A r \in 0 .. Cardinality(S) - 1 : \E p \in S : Rank(S, p) = r
<1>1. Cardinality(S) \in Nat
    BY FS_CardinalityType
<1>2. ASSUME NEW p \in S, NEW T \in SUBSET S, Below(S, p) \cup {p} \subseteq T
      PROVE  Rank(S, p) \in Nat /\ Rank(S, p) < Cardinality(T) /\ Cardinality(T) \in Nat
  <2>1. IsFiniteSet(Below(S, p)) /\ Rank(S, p) \in Nat
      BY FS_Subset, FS_CardinalityType DEF Below, Rank
  <2>2. p \notin Below(S, p)
      BY DEF Below
  <2>3. Cardinality(Below(S, p) \cup {p}) = Rank(S, p) + 1
      BY <2>1, <2>2, FS_AddElement DEF Rank
  <2>4. IsFiniteSet(T) /\ Cardinality(T) \in Nat
      BY FS_Subset, FS_CardinalityType
  <2>5. Cardinality(Below(S, p) \cup {p}) <= Cardinality(T)
      BY <1>2, <2>4, FS_Subset
  <2> QED
      BY <2>1, <2>3, <2>4, <2>5
<1>3. \A p \in S : Rank(S, p) \in 0 .. Cardinality(S) - 1
  <2> TAKE p \in S
  <2>1. Below(S, p) \cup {p} \subseteq S
      BY DEF Below
  <2> QED
      BY <1>1, <1>2, <2>1
<1>4. ASSUME NEW p \in S, NEW q \in S, p < q
      PROVE  Rank(S, p) < Rank(S, q)
  <2>1. \A x \in S : x < p => x < q
      BY <1>4
  <2>2. Below(S, p) \cup {p} \subseteq Below(S, q) /\ Below(S, q) \in SUBSET S
      BY <1>4, <2>1 DEF Below
  <2> QED
      BY <1>2, <2>2 DEF Rank
<1>5. \A p, q \in S : p # q => Rank(S, p) # Rank(S, q)
  <2> SUFFICES ASSUME NEW p \in S, NEW q \in S, p # q
               PROVE  Rank(S, p) # Rank(S, q)
      OBVIOUS
  <2>1. Rank(S, p) \in Nat /\ Rank(S, q) \in Nat
      BY <1>1, <1>3
  <2>2. p < q \/ q < p
      OBVIOUS
  <2> QED
      BY <1>4, <2>1, <2>2
<1>6. \A r \in 0 .. Cardinality(S) - 1 : \E p \in S : Rank(S, p) = r
  <2> DEFINE T == 0 .. Cardinality(S) - 1
             f == [p \in S |-> Rank(S, p)]
  <2>1. f \in Injection(S, T)
    <3>1. f \in [S -> T]
        BY <1>3
    <3>2. \A p, q \in S : p # q => f[p] # f[q]
        BY <1>5
    <3> HIDE DEF f, T
    <3> QED
        BY <3>1, <3>2, Injects
  <2>2. IsFiniteSet(T) /\ Cardinality(T) = Cardinality(S)
    <3>1. \A b \in Int : IsFiniteSet(0 .. b) /\ Cardinality(0 .. b) = IF 0 > b THEN 0 ELSE b - 0 + 1
        BY FS_Interval
    <3> DEFINE b == Cardinality(S) - 1
    <3>2. b \in Int /\ (IF 0 > b THEN 0 ELSE b - 0 + 1) = Cardinality(S)
        BY <1>1
    <3>3. T = 0 .. b
        OBVIOUS
    <3> HIDE DEF b, T
    <3> QED
        BY <3>1, <3>2, <3>3
  <2>3. f \in Surjection(S, T)
      BY <2>1, <2>2, FS_Injection
  <2> QED
      BY <2>3 DEF Surjection
<1> QED
    BY <1>1, <1>3, <1>5, <1>6

\* Lemma.  A group holds the PIDs of a range of ranks.
LEMMA GroupMeans ==
    ASSUME NEW S, NEW n
    PROVE  Group(S, n) = {p \in S : Rank(S, p) \div MAX_PID_RANGE = n}
    BY DEF Group, Rank, Below

\* A group is no larger than a request; the groups cover the set; a full one is not empty.
LEMMA Groups ==
    ASSUME NEW S \in SUBSET Nat, IsFiniteSet(S)
    PROVE  /\ FullGroups(S) \in Nat
           /\ \A n \in Nat : IsFiniteSet(Group(S, n)) /\ Cardinality(Group(S, n)) <= MAX_PID_RANGE
           /\ \A p \in S : \E n \in 0 .. FullGroups(S) : p \in Group(S, n)
           /\ \A n \in 0 .. FullGroups(S) - 1 : Group(S, n) # {}
<1> DEFINE M == MAX_PID_RANGE
<1>0. M \in Nat \ {0} /\ Cardinality(S) \in Nat
    BY Ranks, OBDAssumption
<1> HIDE DEF M
<1>1. FullGroups(S) \in Nat
    BY <1>0, Dividing DEF FullGroups, M
<1>2. ASSUME NEW n \in Nat
      PROVE  IsFiniteSet(Group(S, n)) /\ Cardinality(Group(S, n)) <= M
  <2> DEFINE T == n * M .. n * M + M - 1
             f == [p \in Group(S, n) |-> Rank(S, p)]
  <2>1. \A p \in Group(S, n) : p \in S /\ Rank(S, p) \in Nat /\ Rank(S, p) \div M = n
    <3>1. \A p \in S : Rank(S, p) \in Nat
        BY <1>0, Ranks
    <3> QED
        BY <3>1, GroupMeans DEF M
  <2>2. \A p \in Group(S, n) : Rank(S, p) \in T
    <3> TAKE p \in Group(S, n)
    <3>1. Rank(S, p) \in Nat /\ n * M <= Rank(S, p) /\ Rank(S, p) < n * M + M
        BY <1>0, <2>1, Dividing
    <3>2. n * M \in Nat
        BY <1>0
    <3> QED
        BY <1>0, <3>1, <3>2
  <2>3. f \in Injection(Group(S, n), T)
    <3>1. f \in [Group(S, n) -> T] /\ \A p, q \in Group(S, n) : p # q => f[p] # f[q]
        BY <2>1, <2>2, Ranks
    <3> HIDE DEF f, T
    <3> QED
        BY <3>1, Injects
  <2>4. IsFiniteSet(T) /\ Cardinality(T) = M
    <3>1. n * M \in Int /\ n * M + M - 1 \in Int
        BY <1>0
    <3>2. \A a, b \in Int :
             IsFiniteSet(a .. b) /\ Cardinality(a .. b) = IF a > b THEN 0 ELSE b - a + 1
        BY FS_Interval
    <3> DEFINE a == n * M
    <3>3. a \in Int /\ a <= a + M - 1 /\ (a + M - 1) - a + 1 = M
        BY <1>0, <3>1
    <3>4. T = a .. a + M - 1
        OBVIOUS
    <3> HIDE DEF a, T
    <3> QED
        BY <1>0, <3>2, <3>3, <3>4
  <2> QED
      BY <2>3, <2>4, FS_Injection
<1>3. ASSUME NEW p \in S
      PROVE  \E n \in 0 .. FullGroups(S) : p \in Group(S, n)
  <2>1. Rank(S, p) \in Nat /\ Rank(S, p) <= Cardinality(S)
      BY <1>0, Ranks
  <2>2. Rank(S, p) \div M \in Nat /\ Rank(S, p) \div M <= Cardinality(S) \div M
      BY <1>0, <2>1, Dividing, DividingKeepsOrder
  <2>3. Rank(S, p) \div M \in 0 .. FullGroups(S)
      BY <1>1, <2>2 DEF FullGroups, M
  <2> QED
      BY <2>3, GroupMeans DEF M
<1>4. ASSUME NEW n \in 0 .. FullGroups(S) - 1
      PROVE  Group(S, n) # {}
  <2>1. n \in Nat /\ n + 1 <= FullGroups(S)
      BY <1>1
  <2>2. FullGroups(S) * M <= Cardinality(S)
      BY <1>0, <1>1, Dividing DEF FullGroups, M
  <2>3. (n + 1) * M <= FullGroups(S) * M
      BY <1>0, <1>1, <2>1
  <2>4. n * M \in 0 .. Cardinality(S) - 1
      BY <1>0, <1>1, <2>1, <2>2, <2>3
  <2> PICK p \in S : Rank(S, p) = n * M
      BY <2>4, Ranks
  <2>5. (n * M) \div M = n
      BY <1>0, <2>1
  <2> QED
      BY <2>5, GroupMeans DEF M
<1> QED
    BY <1>1, <1>2, <1>3, <1>4 DEF M

\* A bounded set of natural numbers has a greatest element.
LEMMA HasMax ==
    ASSUME NEW T \in SUBSET Nat, T # {}, NEW k \in Nat, \A n \in T : n <= k
    PROVE  \E n \in T : \A m \in T : m <= n
<1> DEFINE R == {k - n : n \in T}
<1>0. R \in SUBSET Nat /\ R # {}
  <2>1. \A n \in T : k - n \in Nat
      OBVIOUS
  <2> QED
      BY <2>1
<1>1. \E x \in R : \A y \in R : ~(<<y, x>> \in OpToRel(<, Nat))
    BY <1>0, NatLessThanWellFounded, WFMin
<1>2. \A x, y \in R : ~(<<y, x>> \in OpToRel(<, Nat)) => ~(y < x)
  <2> SUFFICES ASSUME NEW x \in R, NEW y \in R, y < x
               PROVE  <<y, x>> \in OpToRel(<, Nat)
      OBVIOUS
  <2>1. <<y, x>> \in Nat \X Nat
      BY <1>0
  <2> QED
      BY <2>1 DEF OpToRel
<1>3. \E x \in R : \A y \in R : ~(y < x)
    BY <1>1, <1>2
<1> PICK n \in T : \A y \in R : ~(y < k - n)
    BY <1>3
<1>4. ASSUME NEW m \in T
      PROVE  m <= n
  <2>1. k - m \in R /\ k - m \in Nat /\ k - n \in Nat /\ m \in Nat /\ n \in Nat
      BY <1>4
  <2>2. ~(k - m < k - n)
      BY <2>1
  <2> HIDE DEF R
  <2> QED
      BY <2>1, <2>2
<1> QED
    BY <1>4

\* What is asked for next is a whole group of what is left, no larger than a request, and there
\* is one as long as anything is left.
LEMMA ChunkMeans ==
    ASSUME NEW S \in SUBSET Nat, IsFiniteSet(S), NEW rest \in SUBSET S, Grouped(S, rest)
    PROVE  /\ Chunk(S, rest) \subseteq rest
           /\ IsFiniteSet(Chunk(S, rest)) /\ Cardinality(Chunk(S, rest)) <= MAX_PID_RANGE
           /\ rest # {} => Chunk(S, rest) # {}
           /\ Grouped(S, rest \ Chunk(S, rest))
<1> DEFINE F == FullGroups(S)
           full == {n \in 0 .. F - 1 : Group(S, n) \subseteq rest}
<1>0. F \in Nat
    BY Groups
<1>1. \E n \in 0 .. F : /\ Chunk(S, rest) = Group(S, n) \cap rest
                        /\ rest # {} => Chunk(S, rest) # {}
  <2>1. CASE full = {}
    <3>1. Chunk(S, rest) = Group(S, F) \cap rest
        BY <2>1 DEF Chunk, ChunkUpTo
    <3>2. ASSUME NEW p \in rest
          PROVE  p \in Group(S, F)
      <4> PICK n \in 0 .. F : p \in Group(S, n)
          BY Groups
      <4>1. Group(S, n) \subseteq rest
          BY DEF Grouped
      <4>2. n \notin 0 .. F - 1
          BY <2>1, <4>1
      <4> QED
          BY <1>0, <4>2
    <3>3. F \in 0 .. F
        BY <1>0
    <3>4. rest \subseteq Chunk(S, rest)
        BY <3>1, <3>2
    <3> HIDE DEF F
    <3> QED
        BY <3>1, <3>3, <3>4
  <2>2. CASE full # {}
    <3> DEFINE top == CHOOSE n \in full : \A m \in full : m <= n
    <3>1. Chunk(S, rest) = Group(S, top)
        BY <2>2 DEF Chunk, ChunkUpTo
    <3>2. \E n \in full : \A m \in full : m <= n
      <4>1. full \in SUBSET Nat /\ \A n \in full : n <= F
          BY <1>0
      <4> HIDE DEF full
      <4> QED
          BY <1>0, <2>2, <4>1, HasMax
    <3>3. top \in full
        BY <3>2
    <3> HIDE DEF top
    <3>4. top \in 0 .. F - 1 /\ Group(S, top) \subseteq rest
        BY <3>3
    <3>5. Group(S, top) # {}
        BY <3>4, Groups
    <3> QED
        BY <1>0, <3>1, <3>4, <3>5
  <2> QED
      BY <2>1, <2>2
<1> PICK n \in 0 .. F : /\ Chunk(S, rest) = Group(S, n) \cap rest
                        /\ rest # {} => Chunk(S, rest) # {}
    BY <1>1
<1>2. IsFiniteSet(Group(S, n)) /\ Cardinality(Group(S, n)) <= MAX_PID_RANGE /\ Cardinality(Group(S, n)) \in Nat
    BY <1>0, Groups, FS_CardinalityType
<1>3. /\ IsFiniteSet(Chunk(S, rest)) /\ Cardinality(Chunk(S, rest)) <= Cardinality(Group(S, n))
      /\ Cardinality(Chunk(S, rest)) \in Nat
    BY <1>2, FS_Subset, FS_CardinalityType
<1>4. Grouped(S, rest \ Chunk(S, rest))
  <2> SUFFICES ASSUME NEW m \in 0 .. F
               PROVE  \/ Group(S, m) \subseteq rest \ Chunk(S, rest)
                      \/ Group(S, m) \cap (rest \ Chunk(S, rest)) = {}
      BY DEF Grouped
  <2>1. CASE m = n
      BY <2>1
  <2>2. CASE m # n
    <3>1. Group(S, m) \cap Group(S, n) = {}
        BY <2>2, GroupMeans
    <3> QED
        BY <3>1 DEF Grouped
  <2> QED
      BY <2>1, <2>2
<1>5. Cardinality(Chunk(S, rest)) <= MAX_PID_RANGE
    BY <1>2, <1>3, OBDAssumption
<1> QED
    BY <1>3, <1>4, <1>5

-----------------------------------------------------------------------------
(* Lemmas about the lists and what is on the bus *)

\* What a unit supports is written once, so what it may be asked for stays so.
ListsGrow == \A e \in ECUs : mSupportedPIDs'[e] = mSupportedPIDs[e] \/ mSupportedPIDs[e] = NoList

\* Lemma.  A list for a unit stays right while the other thread writes lists of units.
LEMMA ForUnitStays ==
    ASSUME ListsGrow, NEW e \in ECUs, NEW l, ForUnit(e, l)
    PROVE  l \subseteq mSupportedPIDs'[e] \cap Reported[e] /\ SomeWanted(l)
<1>1. Reported[e] \subseteq Nat \ {0}
    BY OBDAssumption
<1>2. CASE mSupportedPIDs[e] = NoList
  <2>1. l = {}
      BY <1>1, <1>2 DEF ForUnit, NoList
  <2> QED
      BY <2>1 DEF ForUnit
<1>3. CASE mSupportedPIDs'[e] = mSupportedPIDs[e]
    BY <1>3 DEF ForUnit
<1> QED
    BY <1>2, <1>3 DEF ListsGrow

\* Lemma.  Sequences over a set are sequences over a larger one.
LEMMA SeqGrows ==
    ASSUME NEW A, NEW B, A \subseteq B
    PROVE  Seq(A) \subseteq Seq(B)
OBVIOUS

\* Lemma.  Answers that are under way stay right while lists are written.
LEMMA QueuesStay ==
    ASSUME ListsGrow
    PROVE  Queues \subseteq Queues'
<1>1. ASSUME NEW e \in ECUs
      PROVE  AnswersOf(e) \subseteq AnswersOf(e)'
  <2> SUFFICES ASSUME NEW a \in AnswersOf(e)
               PROVE  a \in AnswersOf(e)'
      OBVIOUS
  <2>1. ForUnit(e, a.pids) => a.pids \subseteq mSupportedPIDs'[e] \cap Reported[e] /\ SomeWanted(a.pids)
      BY ForUnitStays
  <2>2. /\ a \in Answers /\ a.kind = "supported" => a.pids \subseteq Reported[e]
        /\ a.kind = "pids" => ForUnit(e, a.pids)
      BY DEF AnswersOf
  <2> QED
      BY <2>1, <2>2 DEF AnswersOf, ForUnit
<1> SUFFICES ASSUME NEW q \in Queues, NEW e \in ECUs
             PROVE  q[e] \in Seq(AnswersOf(e)')
    BY DEF Queues
<1> QED
    BY <1>1, SeqGrows DEF Queues

\* Lemma.  Replacing the queue of one unit.
LEMMA QueueMoves ==
    ASSUME NEW q \in Queues, NEW e \in ECUs, NEW s \in Seq(AnswersOf(e))
    PROVE  [q EXCEPT ![e] = s] \in Queues
<1>1. AnswersOf(e) \subseteq Answers
    BY DEF AnswersOf
<1>2. s \in Seq(Answers)
    BY <1>1, SeqGrows
<1> QED
    BY <1>2 DEF Queues

\* Lemma.  The first answer of a unit, and those behind it.
LEMMA HeadAndTail ==
    ASSUME NEW q \in Queues, NEW e \in ECUs, q[e] # <<>>
    PROVE  Head(q[e]) \in AnswersOf(e) /\ Tail(q[e]) \in Seq(AnswersOf(e))
<1>1. q[e] \in Seq(AnswersOf(e))
    BY DEF Queues
<1> QED
    BY <1>1, HeadTailProperties

\* What the worker and a unit do to the bus.
LEMMA SendKeepsBus ==
    ASSUME BusOK, NEW e \in ECUs, NEW kind, NEW pids, NEW next, NEW failed,
           [kind |-> kind, pids |-> pids] \in AnswersOf(e), Send(e, kind, pids, next, failed)
    PROVE  unanswered' \in Queues /\ socket' \in Queues /\ worker' \in {next, failed}
<1> DEFINE a == [kind |-> kind, pids |-> pids]
<1>1. CASE open[e]
  <2>1. unanswered' = [unanswered EXCEPT ![e] = Append(unanswered[e], a)] /\ worker' = next /\ socket' = socket
      BY <1>1 DEF Send
  <2> HIDE DEF a
  <2>2. Append(unanswered[e], a) \in Seq(AnswersOf(e))
      BY AppendProperties DEF a, BusOK, Queues
  <2> QED
      BY <2>1, <2>2, QueueMoves DEF BusOK
<1>2. CASE ~open[e]
    BY <1>2 DEF Send, busVars, BusOK
<1> QED
    BY <1>1, <1>2

Took(e) == /\ socket[e] # <<>> /\ unanswered' = unanswered
           /\ socket' = [socket EXCEPT ![e] = Tail(socket[e])]

\* Lemma.  Reading an answer from the socket.
LEMMA TakeKeepsBus ==
    ASSUME BusOK, NEW e \in ECUs, Took(e)
    PROVE  unanswered' \in Queues /\ socket' \in Queues /\ Head(socket[e]) \in AnswersOf(e)
    BY HeadAndTail, QueueMoves DEF Took, BusOK

\* Lemma.  A unit answers, or its answer is lost.
LEMMA AnswerKeepsBus ==
    ASSUME BusOK, NEW e \in ECUs, Answer(e)
    PROVE  unanswered' \in Queues /\ socket' \in Queues
<1>1. Head(unanswered[e]) \in AnswersOf(e) /\ Tail(unanswered[e]) \in Seq(AnswersOf(e))
    BY HeadAndTail DEF Answer, BusOK
<1>2. unanswered' = [unanswered EXCEPT ![e] = Tail(unanswered[e])]
    BY DEF Answer
<1>3. socket' = [socket EXCEPT ![e] = Append(socket[e], Head(unanswered[e]))] \/ socket' = socket
    BY DEF Answer
<1>4. Append(socket[e], Head(unanswered[e])) \in Seq(AnswersOf(e))
    BY <1>1, AppendProperties DEF BusOK, Queues
<1> QED
    BY <1>1, <1>2, <1>3, <1>4, QueueMoves DEF BusOK

-----------------------------------------------------------------------------
(* Lemmas about the thread's record *)

\* Lemma.  The fields of the thread's record.
LEMMA Fields ==
    ASSUME NEW pc, NEW ecu, NEW list, NEW rest, NEW chunk, NEW got
    PROVE  LET w == WorkerOf(pc, ecu, list, rest, chunk, got) IN
           /\ w.pc = pc /\ w.ecu = ecu /\ w.list = list /\ w.rest = rest /\ w.chunk = chunk
           /\ w.got = got /\ IsWorker(w)
BY DEF WorkerOf, IsWorker

\* Its changes, one field at a time.
LEMMA Moves ==
    ASSUME NEW w, IsWorker(w), NEW v
    PROVE  /\ [w EXCEPT !.pc = v] = WorkerOf(v, w.ecu, w.list, w.rest, w.chunk, w.got)
           /\ [w EXCEPT !.list = v] = WorkerOf(w.pc, w.ecu, v, w.rest, w.chunk, w.got)
           /\ [w EXCEPT !.rest = v] = WorkerOf(w.pc, w.ecu, w.list, v, w.chunk, w.got)
           /\ [w EXCEPT !.chunk = v] = WorkerOf(w.pc, w.ecu, w.list, w.rest, v, w.got)
           /\ [w EXCEPT !.got = v] = WorkerOf(w.pc, w.ecu, w.list, w.rest, w.chunk, v)
<1> DEFINE a == w.pc
           b == w.ecu
           c == w.list
           d == w.rest
           e == w.chunk
           f == w.got
<1>1. w = [pc |-> a, ecu |-> b, list |-> c, rest |-> d, chunk |-> e, got |-> f]
    BY DEF IsWorker, WorkerOf
<1> HIDE DEF a, b, c, d, e, f
<1>2. [w EXCEPT !.pc = v] = WorkerOf(v, b, c, d, e, f)
    BY <1>1 DEF WorkerOf
<1>3. [w EXCEPT !.list = v] = WorkerOf(a, b, v, d, e, f)
    BY <1>1 DEF WorkerOf
<1>4. [w EXCEPT !.rest = v] = WorkerOf(a, b, c, v, e, f)
    BY <1>1 DEF WorkerOf
<1>5. [w EXCEPT !.chunk = v] = WorkerOf(a, b, c, d, v, f)
    BY <1>1 DEF WorkerOf
<1>6. [w EXCEPT !.got = v] = WorkerOf(a, b, c, d, e, v)
    BY <1>1 DEF WorkerOf
<1> QED
    BY <1>2, <1>3, <1>4, <1>5, <1>6 DEF a, b, c, d, e, f

\* Its changes of several fields.
LEMMA GotMoves ==
    ASSUME IsWorker(worker), NEW pc, NEW got, worker' = [worker EXCEPT !.pc = pc, !.got = got]
    PROVE  worker' = WorkerOf(pc, worker.ecu, worker.list, worker.rest, worker.chunk, got)
<1> DEFINE w == [worker EXCEPT !.pc = pc]
<1>1. worker' = [w EXCEPT !.got = got]
    BY Zenon
<1>2. w = WorkerOf(pc, worker.ecu, worker.list, worker.rest, worker.chunk, worker.got)
    BY Moves
<1> HIDE DEF w
<1>3. w.pc = pc /\ w.ecu = worker.ecu /\ w.list = worker.list /\ w.rest = worker.rest
      /\ w.chunk = worker.chunk /\ IsWorker(w)
    BY <1>2, Fields
<1>4. worker' = WorkerOf(w.pc, w.ecu, w.list, w.rest, w.chunk, got)
    BY <1>1, <1>3, Moves, Zenon
<1> QED
    BY <1>3, <1>4

\* Lemma.  The thread starts on a list.
LEMMA ListMoves ==
    ASSUME IsWorker(worker), NEW pc, NEW list, worker' = [worker EXCEPT !.pc = pc, !.list = list, !.rest = list]
    PROVE  worker' = WorkerOf(pc, worker.ecu, list, list, worker.chunk, worker.got)
<1> DEFINE w == [worker EXCEPT !.pc = pc]
           v == [w EXCEPT !.list = list]
<1>1. worker' = [v EXCEPT !.rest = list]
    BY Zenon
<1>2. w = WorkerOf(pc, worker.ecu, worker.list, worker.rest, worker.chunk, worker.got)
    BY Moves
<1> HIDE DEF w
<1>3. w.pc = pc /\ w.ecu = worker.ecu /\ w.rest = worker.rest /\ w.chunk = worker.chunk
      /\ w.got = worker.got /\ IsWorker(w)
    BY <1>2, Fields
<1>4. v = WorkerOf(w.pc, w.ecu, list, w.rest, w.chunk, w.got)
    BY <1>3, Moves, Zenon
<1> HIDE DEF v
<1>5. v.pc = pc /\ v.ecu = worker.ecu /\ v.list = list /\ v.chunk = worker.chunk
      /\ v.got = worker.got /\ IsWorker(v)
    BY <1>3, <1>4, Fields
<1>6. worker' = WorkerOf(v.pc, v.ecu, v.list, list, v.chunk, v.got)
    BY <1>1, <1>5, Moves, Zenon
<1> QED
    BY <1>5, <1>6

\* Lemma.  The thread takes a chunk off the rest of its list.
LEMMA ChunkMoves ==
    ASSUME IsWorker(worker), NEW rest, NEW chunk, NEW w, w = [worker EXCEPT !.rest = rest, !.chunk = chunk]
    PROVE  w = WorkerOf(worker.pc, worker.ecu, worker.list, rest, chunk, worker.got)
<1> DEFINE v == [worker EXCEPT !.rest = rest]
<1>1. w = [v EXCEPT !.chunk = chunk]
    BY Zenon
<1>2. v = WorkerOf(worker.pc, worker.ecu, worker.list, rest, worker.chunk, worker.got)
    BY Moves, Zenon
<1> HIDE DEF v
<1>3. v.pc = worker.pc /\ v.ecu = worker.ecu /\ v.list = worker.list /\ v.rest = rest
      /\ v.got = worker.got /\ IsWorker(v)
    BY <1>2, Fields
<1>4. w = WorkerOf(v.pc, v.ecu, v.list, v.rest, chunk, v.got)
    BY <1>1, <1>3, Moves, Zenon
<1> QED
    BY <1>3, <1>4

\* Lemma.  A loop over the units starts with the engine.
LEMMA AtMeans ==
    ASSUME NEW pc
    PROVE  /\ At(pc) = WorkerOf(pc, "engine", {}, {}, {}, {})
           /\ [At(pc) EXCEPT !.ecu = "transmission"] = WorkerOf(pc, "transmission", {}, {}, {}, {})
BY DEF At, WorkerOf

\* Lemma.  A loop over the units goes on with the other one, or is over.
LEMMA OtherUnitMeans ==
    ASSUME NEW pc, NEW done
    PROVE  LET w == OtherUnit(pc, done) IN
           /\ w.pc \in {pc, done} /\ w.ecu \in ECUs /\ w.got = {} /\ IsWorker(w)
<1>1. CASE worker.ecu = "engine" /\ "transmission" \in ECUs
  <2>1. OtherUnit(pc, done) = WorkerOf(pc, "transmission", {}, {}, {}, {})
      BY <1>1, AtMeans DEF OtherUnit
  <2> QED
      BY <1>1, <2>1, Fields
<1>2. CASE ~(worker.ecu = "engine" /\ "transmission" \in ECUs)
  <2>1. OtherUnit(pc, done) = WorkerOf(done, "engine", {}, {}, {}, {})
      BY <1>2, AtMeans DEF OtherUnit
  <2> QED
      BY <2>1, Fields, OBDAssumption
<1> QED
    BY <1>1, <1>2

-----------------------------------------------------------------------------
(* What stays while nothing it speaks of changes *)

\* Lemma.  Lists that nobody writes stay right.
LEMMA ListsStay ==
    ASSUME ListsOK, UNCHANGED listVars
    PROVE  ListsOK' /\ ListsGrow
<1>1. ListsGrow
    BY DEF ListsGrow, listVars
<1>2. \A e \in ECUs : \A l : ForUnit(e, l) => ForUnit(e, l)'
    BY <1>1, ForUnitStays DEF ForUnit
<1> QED
    BY <1>1, <1>2 DEF ListsOK, listVars

\* Lemma.  A bus that nobody uses stays right while lists are written.
LEMMA BusStays ==
    ASSUME BusOK, ListsGrow, UNCHANGED <<unanswered, socket>>
    PROVE  BusOK'
    BY QueuesStay DEF BusOK

\* Lemma.  A bus is right when both its queues are.
LEMMA BusMoves ==
    ASSUME ListsGrow, unanswered' \in Queues, socket' \in Queues
    PROVE  BusOK'
    BY QueuesStay DEF BusOK

\* Lemma.  The other thread stays right while lists are written.
LEMMA ManagerStays ==
    ASSUME ManagerOK, ListsGrow, UNCHANGED <<manager, mPIDsRequested>>
    PROVE  ManagerOK'
<1>1. manager.pc = "assign" => manager.common \subseteq mSupportedPIDs'[manager.ecu] \cap Reported[manager.ecu]
                               /\ SomeWanted(manager.common)
    BY ForUnitStays DEF ManagerOK
<1> QED
    BY <1>1 DEF ManagerOK, ForUnit

\* Lemma.  The thread stays right when neither it nor the lists of support move.
LEMMA WorkerStays ==
    ASSUME WorkerOK, UNCHANGED <<worker, asked, mSupportedPIDs>>
    PROVE  WorkerOK'
    BY DEF WorkerOK, ForUnit

\* Where the thread is about nothing, no more is to be shown of it.
Busy == {"firstRanges", "moreRanges", "lastRanges", "supported", "assign", "ask", "values"}
Fresh == {"check", "asleep", "take", "look", "vin", "support", "resting"}

\* Lemma.  A thread that works on no list is right.
LEMMA WorkerQuiet ==
    ASSUME IsWorker(worker'), worker'.ecu \in ECUs, worker'.pc \notin Busy, asked' = {},
           worker'.pc \in Fresh => worker'.got = {}
    PROVE  WorkerOK'
    BY DEF WorkerOK, Busy, Fresh

\* What the thread's steps leave alone, but those that take a dictionary or write a list.
Quiet == UNCHANGED <<dictionaryVars, decoder, listVars, signalVars, timerVars, flagVars, otherVars>>

\* Lemma.  A step of the thread that changes the bus and the thread only.
LEMMA QuietStep ==
    ASSUME IInv, Quiet, BusOK', WorkerOK',
           worker.pc # "take", worker'.pc = "asleep" => ~mShouldRequestDTCs /\ ~mShouldStop
    PROVE  IInv'
<1> USE DEF Quiet
<1>1. DictionaryOK'
    BY DEF IInv, DictionaryOK, dictionaryVars
<1>2. TimersOK'
    BY DEF IInv, TimersOK, timerVars
<1>3. ListsOK' /\ ListsGrow
    BY ListsStay DEF IInv
<1>4. ManagerOK'
    BY <1>3, ManagerStays DEF IInv, dictionaryVars, otherVars
<1>5. Told'
    BY DEF IInv, Told, dictionaryVars, otherVars, signalVars, flagVars
<1> QED
    BY <1>1, <1>2, <1>3, <1>4, <1>5 DEF IInv

\* Lemma.  The thread goes on outside a list.
LEMMA GoKeeps ==
    ASSUME WorkerOK, NEW pc, worker' = [worker EXCEPT !.pc = pc], asked' = asked,
           worker.pc \notin Busy, pc \notin Busy, pc \in Fresh => worker.got = {}
    PROVE  WorkerOK' /\ worker'.pc = pc
<1>1. IsWorker(worker) /\ worker.ecu \in ECUs /\ asked = {}
    BY DEF WorkerOK, Busy
<1>2. worker' = WorkerOf(pc, worker.ecu, worker.list, worker.rest, worker.chunk, worker.got)
    BY <1>1, Moves
<1>3. worker'.pc = pc /\ worker'.ecu = worker.ecu /\ worker'.got = worker.got /\ IsWorker(worker')
    BY <1>2, Fields
<1> QED
    BY <1>1, <1>3, WorkerQuiet

\* Lemma.  The thread goes on with the other unit.
LEMMA OtherUnitKeeps ==
    ASSUME NEW pc, NEW done, worker' = OtherUnit(pc, done), asked' = {},
           pc \notin Busy, done \notin Busy
    PROVE  WorkerOK' /\ worker'.pc \in {pc, done}
    BY OtherUnitMeans, WorkerQuiet

\* Lemma.  The thread starts a loop over the units.
LEMMA AtKeeps ==
    ASSUME NEW pc, worker' = At(pc), asked' = {}, pc \notin Busy
    PROVE  WorkerOK' /\ worker'.pc = pc
<1>1. worker' = WorkerOf(pc, "engine", {}, {}, {}, {})
    BY AtMeans
<1>2. /\ worker'.pc = pc /\ worker'.ecu = "engine" /\ worker'.got = {} /\ IsWorker(worker')
    BY <1>1, Fields
<1> QED
    BY <1>2, WorkerQuiet, OBDAssumption

-----------------------------------------------------------------------------
(* The steps of the thread that only ask and hear *)

\* Lemma.  The test of the loop's condition.
LEMMA CheckStep ==
    ASSUME IInv, Check, Quiet
    PROVE  IInv'
<1> DEFINE pc == IF mShouldStop THEN "ended"
                 ELSE IF ~mShouldRequestDTCs /\ Empty THEN "asleep" ELSE "take"
<1>1. worker' = [worker EXCEPT !.pc = pc] /\ asked' = asked /\ worker.pc = "check"
    BY DEF Check, Go
<1>2. pc \notin Busy /\ (pc = "asleep" => ~mShouldRequestDTCs /\ ~mShouldStop)
    BY DEF Busy
<1> HIDE DEF pc
<1>3. WorkerOK /\ worker.got = {} /\ worker.pc \notin Busy
    BY <1>1 DEF IInv, WorkerOK, Busy
<1>4. WorkerOK' /\ worker'.pc = pc
    BY <1>1, <1>2, <1>3, GoKeeps
<1>5. BusOK'
    BY ListsStay, BusStays DEF IInv, Check, busVars, Quiet
<1> QED
    BY <1>1, <1>2, <1>4, <1>5, QuietStep

\* Lemma.  The timers decide between the two rounds.
LEMMA DueMeans == Due \in {"support", "dtcs"}
BY DEF Due

\* Lemma.  What the timers ask for.
LEMMA LookStep ==
    ASSUME IInv, Look, Quiet
    PROVE  IInv'
<1>1. worker.pc = "look" /\ asked' = asked /\ asked = {} /\ WorkerOK /\ worker.got = {}
      /\ ListsGrow /\ BusOK
    BY ListsStay DEF Look, IInv, WorkerOK, Quiet
<1>2. ASSUME NEW pc \in {"support", "dtcs"}, Go(pc), UNCHANGED busVars
      PROVE  IInv'
  <2>1. WorkerOK' /\ worker'.pc = pc
      BY <1>1, <1>2, GoKeeps DEF Go, Busy
  <2>2. BusOK'
      BY <1>1, <1>2, BusStays DEF busVars
  <2> QED
      BY <1>1, <2>1, <2>2, QuietStep
<1>3. ASSUME Send("engine", "vin", {}, At("vin"), At(Due))
      PROVE  IInv'
  <2>1. [kind |-> "vin", pids |-> {}] \in AnswersOf("engine")
      BY DEF AnswersOf, Answers
  <2>2. unanswered' \in Queues /\ socket' \in Queues /\ worker' \in {At("vin"), At(Due)}
      BY <1>1, <1>3, <2>1, SendKeepsBus, OBDAssumption
  <2> PICK pc \in {"vin", "support", "dtcs"} : worker' = At(pc)
      BY <2>2, DueMeans
  <2>3. WorkerOK' /\ worker'.pc = pc
      BY <1>1, AtKeeps DEF Busy
  <2>4. BusOK'
      BY <1>1, <2>2, BusMoves
  <2> QED
      BY <1>1, <2>3, <2>4, QuietStep
<1> QED
    BY <1>2, <1>3, DueMeans DEF Look

\* While the unit is asked what it supports.
Ranges == {"firstRanges", "moreRanges", "lastRanges", "supported"}

\* Lemma.  The thread goes on asking for supported PIDs.
LEMMA RangesKeep ==
    ASSUME NEW pc \in Ranges, NEW list, NEW rest, NEW chunk, NEW got, worker.ecu \in ECUs,
           worker' = WorkerOf(pc, worker.ecu, list, rest, chunk, got), asked' = {},
           got \subseteq Reported[worker.ecu], mSupportedPIDs'[worker.ecu] = NoList
    PROVE  WorkerOK' /\ worker'.pc = pc
<1>1. worker'.pc = pc /\ worker'.ecu = worker.ecu /\ worker'.got = got /\ IsWorker(worker')
    BY Fields
<1>2. pc \notin {"check", "asleep", "take", "look", "vin", "support", "resting", "assign", "ask", "values"}
    BY DEF Ranges
<1> QED
    BY <1>1, <1>2 DEF WorkerOK

\* Lemma.  A request for ranges of supported PIDs is sent, or fails.
LEMMA AskRanges ==
    ASSUME IInv, Quiet, NEW pids \in SUBSET Reported[worker.ecu], NEW next \in Ranges, NEW failed \in Ranges,
           worker.pc # "take", asked = {}, asked' = asked,
           worker.got \subseteq Reported[worker.ecu], mSupportedPIDs[worker.ecu] = NoList,
           Send(worker.ecu, "supported", pids, [worker EXCEPT !.pc = next], [worker EXCEPT !.pc = failed])
    PROVE  IInv'
<1>1. WorkerOK /\ BusOK /\ worker.ecu \in ECUs /\ IsWorker(worker) /\ ListsGrow
    BY ListsStay DEF IInv, WorkerOK, Quiet
<1>2. [kind |-> "supported", pids |-> pids] \in AnswersOf(worker.ecu)
    BY <1>1, OBDAssumption DEF AnswersOf, Answers
<1>3. unanswered' \in Queues /\ socket' \in Queues
      /\ worker' \in {[worker EXCEPT !.pc = next], [worker EXCEPT !.pc = failed]}
    BY <1>1, <1>2, SendKeepsBus
<1> PICK pc \in Ranges : worker' = [worker EXCEPT !.pc = pc]
    BY <1>3
<1>4. worker' = WorkerOf(pc, worker.ecu, worker.list, worker.rest, worker.chunk, worker.got)
    BY <1>1, Moves
<1>5. WorkerOK' /\ worker'.pc = pc
    BY <1>1, <1>4, RangesKeep DEF Quiet, listVars
<1>6. BusOK'
    BY <1>1, <1>3, BusMoves
<1> QED
    BY <1>5, <1>6, QuietStep DEF Ranges

\* Lemma.  The start of a round that asks a unit what it supports.
LEMMA SupportStep ==
    ASSUME IInv, Support, Quiet
    PROVE  IInv'
<1>1. worker.pc = "support" /\ asked' = asked /\ asked = {} /\ worker.got = {} /\ worker.ecu \in ECUs
      /\ ListsGrow /\ BusOK
    BY ListsStay DEF Support, IInv, WorkerOK, Quiet
<1>2. CASE mSupportedPIDs[worker.ecu] = NoList /\ (worker.ecu = "engine" => isAlive("engine"))
  <2>1. Send(worker.ecu, "supported", Reported[worker.ecu] \ SecondRange,
             [worker EXCEPT !.pc = "firstRanges"], [worker EXCEPT !.pc = "moreRanges"])
      BY <1>2 DEF Support
  <2>2. Reported[worker.ecu] \ SecondRange \in SUBSET Reported[worker.ecu]
      OBVIOUS
  <2> QED
      BY <1>1, <1>2, <2>1, <2>2, AskRanges DEF Ranges
<1>3. CASE ~(mSupportedPIDs[worker.ecu] = NoList /\ (worker.ecu = "engine" => isAlive("engine")))
  <2>1. worker' = OtherUnit("support", "list") /\ UNCHANGED busVars
      BY <1>3 DEF Support
  <2>2. WorkerOK' /\ worker'.pc \in {"support", "list"}
      BY <1>1, <2>1, OtherUnitKeeps DEF Busy
  <2>3. BusOK'
      BY <1>1, <2>1, BusStays DEF busVars
  <2> QED
      BY <1>1, <2>2, <2>3, QuietStep
<1> QED
    BY <1>2, <1>3

\* Lemma.  The further ranges of supported PIDs.
LEMMA MoreRangesStep ==
    ASSUME IInv, MoreRanges, Quiet
    PROVE  IInv'
<1>1. worker.pc = "moreRanges" /\ asked' = asked /\ asked = {} /\ mSupportedPIDs[worker.ecu] = NoList
      /\ worker.got \subseteq Reported[worker.ecu]
    BY DEF MoreRanges, IInv, WorkerOK
<1>2. Send(worker.ecu, "supported", Reported[worker.ecu] \cap SecondRange,
           [worker EXCEPT !.pc = "lastRanges"], [worker EXCEPT !.pc = "supported"])
    BY DEF MoreRanges
<1>3. Reported[worker.ecu] \cap SecondRange \in SUBSET Reported[worker.ecu]
    OBVIOUS
<1> QED
    BY <1>1, <1>2, <1>3, AskRanges DEF Ranges

\* Lemma.  The answer to a request for ranges, or none.
LEMMA HearRanges ==
    ASSUME IInv, Quiet, worker.pc \in Ranges, NEW next \in Ranges, receiveSupportedPIDs(next)
    PROVE  IInv'
<1>1. /\ asked' = asked /\ asked = {} /\ mSupportedPIDs[worker.ecu] = NoList
      /\ worker.got \subseteq Reported[worker.ecu] /\ worker.ecu \in ECUs /\ IsWorker(worker)
      /\ ListsGrow /\ BusOK
    BY ListsStay DEF receiveSupportedPIDs, IInv, WorkerOK, Ranges, Quiet
<1>2. ASSUME NEW got, got \subseteq Reported[worker.ecu],
             worker' = WorkerOf(next, worker.ecu, worker.list, worker.rest, worker.chunk, got),
             unanswered' \in Queues, socket' \in Queues
      PROVE  IInv'
  <2>1. WorkerOK' /\ worker'.pc = next
      BY <1>1, <1>2, RangesKeep DEF Quiet, listVars
  <2>2. BusOK'
      BY <1>1, <1>2, BusMoves
  <2> QED
      BY <2>1, <2>2, QuietStep DEF Ranges
<1>3. CASE TimedOut(worker.ecu) /\ Go(next)
  <2>1. worker' = WorkerOf(next, worker.ecu, worker.list, worker.rest, worker.chunk, worker.got)
      BY <1>1, <1>3, Moves DEF Go
  <2>2. unanswered' = unanswered /\ socket' = socket
      BY <1>3 DEF TimedOut
  <2> QED
      BY <1>1, <1>2, <2>1, <2>2 DEF BusOK
<1>4. CASE Received(worker.ecu, LAMBDA a : worker' = [worker EXCEPT !.pc = next,
                                              !.got = @ \cup decodeSupportedPIDs(a)])
  <2> DEFINE a == Head(socket[worker.ecu])
             got == worker.got \cup decodeSupportedPIDs(a)
  <2>1. Took(worker.ecu) /\ worker' = [worker EXCEPT !.pc = next, !.got = got]
      BY <1>4 DEF Received, Took
  <2>2. unanswered' \in Queues /\ socket' \in Queues /\ a \in AnswersOf(worker.ecu)
      BY <1>1, <2>1, TakeKeepsBus
  <2> HIDE DEF a
  <2>3. got \subseteq Reported[worker.ecu]
      BY <1>1, <2>2 DEF decodeSupportedPIDs, AnswersOf
  <2> HIDE DEF got
  <2>4. worker' = WorkerOf(next, worker.ecu, worker.list, worker.rest, worker.chunk, got)
      BY <1>1, <2>1, GotMoves
  <2> QED
      BY <1>2, <2>2, <2>3, <2>4
<1> QED
    BY <1>3, <1>4 DEF receiveSupportedPIDs

\* While a list is worked off.
LEMMA AskKeeps ==
    ASSUME NEW pc \in {"ask", "values"}, NEW list, NEW rest, NEW chunk, NEW got, worker.ecu \in ECUs,
           worker' = WorkerOf(pc, worker.ecu, list, rest, chunk, got), ForUnit(worker.ecu, list),
           mSupportedPIDs' = mSupportedPIDs, rest \subseteq list, asked' = list \ rest, Grouped(list, rest)
    PROVE  WorkerOK' /\ worker'.pc = pc
<1>1. worker'.pc = pc /\ worker'.ecu = worker.ecu /\ worker'.list = list /\ worker'.rest = rest
      /\ IsWorker(worker')
    BY Fields
<1>2. ForUnit(worker.ecu, list)'
    BY <1>1 DEF ForUnit, SomeWanted
<1> QED
    BY <1>1, <1>2 DEF WorkerOK, ForUnit

\* Lemma.  The thread takes the list of a unit.
LEMMA ListStep ==
    ASSUME IInv, List, Quiet
    PROVE  IInv'
<1> DEFINE l == mPIDsToRequest[worker.ecu]
<1>1. worker.pc = "list" /\ asked' = asked /\ asked = {} /\ worker.ecu \in ECUs /\ IsWorker(worker)
    BY DEF List, IInv, WorkerOK
<1>2. BusOK'
    BY ListsStay, BusStays DEF IInv, List, busVars, Quiet
<1>3. CASE l \in {NoList, {}}
  <2>1. worker' = OtherUnit("list", "reschedule")
      BY <1>3 DEF List
  <2>2. WorkerOK' /\ worker'.pc \in {"list", "reschedule"}
      BY <1>1, <2>1, OtherUnitKeeps DEF Busy
  <2> QED
      BY <1>1, <1>2, <2>2, QuietStep
<1>4. CASE l \notin {NoList, {}}
  <2>1. worker' = [worker EXCEPT !.pc = "ask", !.list = l, !.rest = l]
      BY <1>4 DEF List
  <2>2. ForUnit(worker.ecu, l)
      BY <1>1, <1>4 DEF IInv, ListsOK
  <2> HIDE DEF l
  <2>3. worker' = WorkerOf("ask", worker.ecu, l, l, worker.chunk, worker.got)
      BY <1>1, <2>1, ListMoves
  <2>4. Grouped(l, l) /\ l \ l = {}
      BY DEF Grouped, Group
  <2>5. WorkerOK' /\ worker'.pc = "ask"
      BY <1>1, <2>2, <2>3, <2>4, AskKeeps DEF Quiet, listVars
  <2> QED
      BY <1>1, <1>2, <2>5, QuietStep
<1> QED
    BY <1>3, <1>4

\* What is left of a list, and what is asked for next.
LEMMA ListMeans ==
    ASSUME WorkerOK, worker.pc \in {"ask", "values"}
    PROVE  LET c == Chunk(worker.list, worker.rest) IN
           /\ worker.rest \subseteq worker.list /\ asked = worker.list \ worker.rest
           /\ c \subseteq worker.rest /\ Cardinality(c) <= MAX_PID_RANGE
           /\ worker.rest # {} => c # {}
           /\ Grouped(worker.list, worker.rest \ c)
<1>1. /\ worker.ecu \in ECUs /\ ForUnit(worker.ecu, worker.list) /\ worker.rest \subseteq worker.list
      /\ asked = worker.list \ worker.rest /\ Grouped(worker.list, worker.rest)
    BY DEF WorkerOK
<1>2. worker.list \subseteq PIDs
    BY <1>1, OBDAssumption DEF ForUnit
<1>3. worker.list \in SUBSET Nat /\ IsFiniteSet(worker.list)
    BY <1>2, FS_Subset, OBDAssumption
<1> QED
    BY <1>1, <1>3, ChunkMeans

\* Lemma.  A chunk of the list is requested.
LEMMA RequestPIDsStep ==
    ASSUME IInv, requestPIDs, Quiet
    PROVE  IInv'
<1> DEFINE c == Chunk(worker.list, worker.rest)
           w == [worker EXCEPT !.rest = worker.rest \ c, !.chunk = c]
           v == [w EXCEPT !.pc = "values"]
<1>1. worker.pc = "ask" /\ worker.ecu \in ECUs /\ ForUnit(worker.ecu, worker.list) /\ IsWorker(worker)
      /\ ListsGrow /\ BusOK /\ WorkerOK
    BY ListsStay DEF requestPIDs, IInv, WorkerOK, Quiet
<1>2. /\ worker.rest \subseteq worker.list /\ asked = worker.list \ worker.rest
      /\ c \subseteq worker.rest /\ Grouped(worker.list, worker.rest \ c)
    BY <1>1, ListMeans
<1>3. \/ c = {} /\ worker' = OtherUnit("list", "reschedule") /\ asked' = {} /\ UNCHANGED busVars
      \/ Send(worker.ecu, "pids", c, v, w) /\ asked' = asked \cup c
    BY DEF requestPIDs
<1>4. CASE c = {} /\ worker' = OtherUnit("list", "reschedule") /\ asked' = {} /\ UNCHANGED busVars
  <2>1. WorkerOK' /\ worker'.pc \in {"list", "reschedule"}
      BY <1>4, OtherUnitKeeps DEF Busy
  <2>2. BusOK'
      BY <1>1, <1>4, BusStays DEF busVars
  <2> QED
      BY <1>1, <2>1, <2>2, QuietStep
<1>5. CASE Send(worker.ecu, "pids", c, v, w) /\ asked' = asked \cup c
  <2> HIDE DEF c
  <2>1. w = WorkerOf("ask", worker.ecu, worker.list, worker.rest \ c, c, worker.got)
      BY <1>1, ChunkMoves
  <2> HIDE DEF w
  <2>2. w.ecu = worker.ecu /\ w.list = worker.list /\ w.rest = worker.rest \ c /\ w.chunk = c
        /\ w.got = worker.got /\ IsWorker(w)
      BY <2>1, Fields
  <2>3. v = WorkerOf("values", worker.ecu, worker.list, worker.rest \ c, c, worker.got)
    <3>1. v = WorkerOf("values", w.ecu, w.list, w.rest, w.chunk, w.got)
        BY <2>2, Moves, Zenon
    <3> QED
        BY <2>2, <3>1
  <2>4. c \subseteq PIDs /\ ForUnit(worker.ecu, c)
      BY <1>1, <1>2, OBDAssumption DEF ForUnit, SomeWanted
  <2>5. [kind |-> "pids", pids |-> c] \in AnswersOf(worker.ecu)
      BY <2>4 DEF AnswersOf, Answers
  <2> HIDE DEF v
  <2>6. unanswered' \in Queues /\ socket' \in Queues /\ worker' \in {v, w}
      BY <1>1, <1>5, <2>5, SendKeepsBus
  <2> PICK pc \in {"ask", "values"} :
           worker' = WorkerOf(pc, worker.ecu, worker.list, worker.rest \ c, c, worker.got)
      BY <2>1, <2>3, <2>6
  <2>7. worker.rest \ c \subseteq worker.list /\ asked' = worker.list \ (worker.rest \ c)
      BY <1>2, <1>5
  <2>8. WorkerOK' /\ worker'.pc = pc
      BY <1>1, <1>2, <2>7, AskKeeps DEF Quiet, listVars
  <2>9. BusOK'
      BY <1>1, <2>6, BusMoves
  <2> QED
      BY <1>1, <2>8, <2>9, QuietStep
<1> QED
    BY <1>3, <1>4, <1>5

\* Lemma.  The answer to a chunk, or none.
LEMMA ReceivePIDsStep ==
    ASSUME IInv, receivePIDs, Quiet
    PROVE  IInv'
<1>1. /\ worker.pc = "values" /\ worker.ecu \in ECUs /\ ForUnit(worker.ecu, worker.list) /\ IsWorker(worker)
      /\ worker.rest \subseteq worker.list /\ asked' = worker.list \ worker.rest
      /\ Grouped(worker.list, worker.rest) /\ ListsGrow /\ BusOK
    BY ListsStay DEF receivePIDs, IInv, WorkerOK, Quiet
<1>2. ASSUME NEW got, worker' = WorkerOf("ask", worker.ecu, worker.list, worker.rest, worker.chunk, got),
             unanswered' \in Queues, socket' \in Queues
      PROVE  IInv'
  <2>1. WorkerOK' /\ worker'.pc = "ask"
      BY <1>1, <1>2, AskKeeps DEF Quiet, listVars
  <2>2. BusOK'
      BY <1>1, <1>2, BusMoves
  <2> QED
      BY <1>1, <2>1, <2>2, QuietStep
<1>3. CASE TimedOut(worker.ecu) /\ Go("ask")
  <2>1. worker' = WorkerOf("ask", worker.ecu, worker.list, worker.rest, worker.chunk, worker.got)
      BY <1>1, <1>3, Moves DEF Go
  <2>2. unanswered' = unanswered /\ socket' = socket
      BY <1>3 DEF TimedOut
  <2> QED
      BY <1>1, <1>2, <2>1, <2>2 DEF BusOK
<1>4. CASE Received(worker.ecu, LAMBDA a : worker' = [worker EXCEPT !.pc = "ask",
                                    !.got = @ \cup decodeEmissionPIDs(a, worker.chunk)])
  <2> DEFINE got == worker.got \cup decodeEmissionPIDs(Head(socket[worker.ecu]), worker.chunk)
  <2>1. Took(worker.ecu) /\ worker' = [worker EXCEPT !.pc = "ask", !.got = got]
      BY <1>4 DEF Received, Took
  <2> HIDE DEF got
  <2>2. unanswered' \in Queues /\ socket' \in Queues
      BY <1>1, <2>1, TakeKeepsBus
  <2>3. worker' = WorkerOf("ask", worker.ecu, worker.list, worker.rest, worker.chunk, got)
      BY <1>1, <2>1, GotMoves
  <2> QED
      BY <1>2, <2>2, <2>3
<1> QED
    BY <1>3, <1>4 DEF receivePIDs

\* Lemma.  The start of a round of trouble codes.
LEMMA DTCsStep ==
    ASSUME IInv, DTCs, Quiet
    PROVE  IInv'
<1>1. worker.pc = "dtcs" /\ asked' = {}
    BY DEF DTCs, IInv, WorkerOK
<1> PICK pc \in {"askDTCs", "resting"} : worker' = At(pc)
    BY DEF DTCs
<1>2. WorkerOK' /\ worker'.pc = pc
    BY <1>1, AtKeeps DEF Busy
<1>3. BusOK'
    BY ListsStay, BusStays DEF IInv, DTCs, busVars, Quiet
<1> QED
    BY <1>1, <1>2, <1>3, QuietStep

\* On to the next unit, with what was heard so far.
LEMMA ThenMeans ==
    ASSUME NEW got, NEW v, v = [OtherUnit("askDTCs", "pushDTCs") EXCEPT !.got = got]
    PROVE  v.pc \in {"askDTCs", "pushDTCs"} /\ v.ecu \in ECUs /\ IsWorker(v)
<1> DEFINE w == OtherUnit("askDTCs", "pushDTCs")
           u == [w EXCEPT !.got = got]
<1>1. w.pc \in {"askDTCs", "pushDTCs"} /\ w.ecu \in ECUs /\ IsWorker(w)
    BY OtherUnitMeans
<1>2. v = u
    OBVIOUS
<1> HIDE DEF w
<1>3. u = WorkerOf(w.pc, w.ecu, w.list, w.rest, w.chunk, got)
    BY <1>1, Moves, Zenon
<1> HIDE DEF u
<1>4. u.pc = w.pc /\ u.ecu = w.ecu /\ IsWorker(u)
    BY <1>3, Fields
<1> QED
    BY <1>1, <1>2, <1>4

\* Lemma.  The thread keeps the trouble codes and goes on with the other unit.
LEMMA ThenKeeps ==
    ASSUME NEW got, worker' = [OtherUnit("askDTCs", "pushDTCs") EXCEPT !.got = got], asked' = {}
    PROVE  WorkerOK' /\ worker'.pc \in {"askDTCs", "pushDTCs"}
<1>1. worker'.pc \in {"askDTCs", "pushDTCs"} /\ worker'.ecu \in ECUs /\ IsWorker(worker')
    BY ThenMeans
<1> QED
    BY <1>1, WorkerQuiet DEF Busy, Fresh

\* Lemma.  A request for trouble codes.
LEMMA RequestDTCsStep ==
    ASSUME IInv, requestDTCs, Quiet
    PROVE  IInv'
<1> DEFINE w == [worker EXCEPT !.pc = "DTCs"]
           v == [OtherUnit("askDTCs", "pushDTCs") EXCEPT !.got = worker.got]
<1>1. worker.pc = "askDTCs" /\ asked' = asked /\ asked = {} /\ worker.ecu \in ECUs /\ WorkerOK
      /\ ListsGrow /\ BusOK
    BY ListsStay DEF requestDTCs, IInv, WorkerOK, Quiet
<1>2. Send(worker.ecu, "dtc", {}, w, v)
    BY DEF requestDTCs
<1>3. [kind |-> "dtc", pids |-> {}] \in AnswersOf(worker.ecu)
    BY DEF AnswersOf, Answers
<1>4. unanswered' \in Queues /\ socket' \in Queues /\ worker' \in {w, v}
    BY <1>1, <1>2, <1>3, SendKeepsBus
<1>5. BusOK'
    BY <1>1, <1>4, BusMoves
<1>6. CASE worker' = w
  <2>1. WorkerOK' /\ worker'.pc = "DTCs"
      BY <1>1, <1>6, GoKeeps DEF Busy, Fresh
  <2> QED
      BY <1>1, <1>5, <2>1, QuietStep
<1>7. CASE worker' = v
  <2>1. WorkerOK' /\ worker'.pc \in {"askDTCs", "pushDTCs"}
      BY <1>1, <1>7, ThenKeeps
  <2> QED
      BY <1>1, <1>5, <2>1, QuietStep
<1> QED
    BY <1>4, <1>6, <1>7

\* Lemma.  The answer with trouble codes, or none.
LEMMA ReceiveDTCsStep ==
    ASSUME IInv, receiveDTCs, Quiet
    PROVE  IInv'
<1>1. worker.pc = "DTCs" /\ asked' = {} /\ worker.ecu \in ECUs /\ ListsGrow /\ BusOK
    BY ListsStay DEF receiveDTCs, IInv, WorkerOK, Quiet
<1>2. ASSUME NEW got, worker' = [OtherUnit("askDTCs", "pushDTCs") EXCEPT !.got = got],
             unanswered' \in Queues, socket' \in Queues
      PROVE  IInv'
  <2>1. WorkerOK' /\ worker'.pc \in {"askDTCs", "pushDTCs"}
      BY <1>1, <1>2, ThenKeeps
  <2>2. BusOK'
      BY <1>1, <1>2, BusMoves
  <2> QED
      BY <1>1, <2>1, <2>2, QuietStep
<1>3. \/ /\ TimedOut(worker.ecu)
         /\ worker' = [OtherUnit("askDTCs", "pushDTCs") EXCEPT !.got = worker.got]
      \/ \E got : Took(worker.ecu) /\ worker' = [OtherUnit("askDTCs", "pushDTCs") EXCEPT !.got = got]
    BY DEF receiveDTCs, Received, Took
<1>4. CASE /\ TimedOut(worker.ecu)
           /\ worker' = [OtherUnit("askDTCs", "pushDTCs") EXCEPT !.got = worker.got]
  <2>1. unanswered' = unanswered /\ socket' = socket
      BY <1>4 DEF TimedOut
  <2> QED
      BY <1>1, <1>2, <1>4, <2>1 DEF BusOK
<1>5. CASE \E got : Took(worker.ecu) /\ worker' = [OtherUnit("askDTCs", "pushDTCs") EXCEPT !.got = got]
    BY <1>1, <1>2, <1>5, TakeKeepsBus
<1> QED
    BY <1>3, <1>4, <1>5

\* Lemma.  The answer with the vehicle's number, or none.
LEMMA VINStep ==
    ASSUME IInv, requestReceiveVIN, Quiet
    PROVE  IInv'
<1>1. worker.pc = "vin" /\ asked' = asked /\ asked = {} /\ WorkerOK /\ worker.got = {} /\ ListsGrow /\ BusOK
    BY ListsStay DEF requestReceiveVIN, IInv, WorkerOK, Quiet
<1>2. WorkerOK' /\ worker'.pc \in {"support", "dtcs"}
  <2> PICK pc \in {"support", "dtcs"} : worker' = [worker EXCEPT !.pc = pc]
      BY DueMeans DEF requestReceiveVIN, Go
  <2> QED
      BY <1>1, GoKeeps DEF Busy
<1>3. Took("engine") \/ UNCHANGED <<unanswered, socket>>
    BY DEF requestReceiveVIN, Received, TimedOut, Took
<1>4. unanswered' \in Queues /\ socket' \in Queues
    BY <1>1, <1>3, TakeKeepsBus, OBDAssumption DEF BusOK
<1>5. BusOK'
    BY <1>1, <1>4, BusMoves
<1> QED
    BY <1>1, <1>2, <1>5, QuietStep

-----------------------------------------------------------------------------
(* The steps of the thread that take what it was told of, or write *)

\* Lemma.  The thread wakes up.
LEMMA WokenStep ==
    ASSUME IInv, Woken, UNCHANGED <<flagVars, otherVars>>
    PROVE  IInv'
<1>1. /\ worker.pc = "asleep" /\ worker' = [worker EXCEPT !.pc = "take"] /\ asked' = asked
      /\ WorkerOK /\ worker.got = {} /\ BusOK
    BY DEF Woken, Go, IInv, WorkerOK
<1>2. WorkerOK' /\ worker'.pc = "take"
    BY <1>1, GoKeeps DEF Busy
<1>3. ListsOK' /\ ListsGrow
    BY ListsStay DEF IInv, Woken
<1>4. BusOK'
    BY <1>1, <1>3, BusStays DEF Woken, busVars
<1>5. ManagerOK'
    BY <1>3, ManagerStays DEF IInv, Woken, dictionaryVars, otherVars
<1>6. DictionaryOK' /\ TimersOK'
    BY DEF IInv, Woken, DictionaryOK, TimersOK, dictionaryVars, decoderVars, timerVars
<1>7. Told'
    BY <1>2 DEF Told
<1> QED
    BY <1>2, <1>3, <1>4, <1>5, <1>6, <1>7 DEF IInv

\* Lemma.  The thread takes the decoder over under its mutex.
LEMMA TakeStep ==
    ASSUME IInv, Take, UNCHANGED <<flagVars, otherVars>>
    PROVE  IInv'
<1>1. /\ worker.pc = "take" /\ worker' = [worker EXCEPT !.pc = "look"] /\ asked' = asked
      /\ WorkerOK /\ worker.got = {} /\ BusOK
    BY DEF Take, Go, IInv, WorkerOK
<1>2. WorkerOK' /\ worker'.pc = "look"
    BY <1>1, GoKeeps DEF Busy
<1>3. ListsOK' /\ ListsGrow
    BY ListsStay DEF IInv, Take
<1>4. BusOK'
    BY <1>1, <1>3, BusStays DEF Take, busVars
<1>5. ManagerOK'
    BY <1>3, ManagerStays DEF IInv, Take, otherVars
<1>6. DictionaryOK' /\ TimersOK'
    BY DEF IInv, Take, DictionaryOK, TimersOK, timerVars
<1>7. mDecoderManifestAvailable' = FALSE \/ ~mDecoderManifestAvailable'
    BY DEF Take
<1>8. Told'
    BY <1>2, <1>7 DEF Told
<1> QED
    BY <1>2, <1>3, <1>4, <1>5, <1>6, <1>8 DEF IInv

\* Lemma.  The thread writes the list of what a unit supports.
LEMMA SupportedStep ==
    ASSUME IInv, Supported, UNCHANGED <<flagVars, otherVars>>
    PROVE  IInv'
<1> DEFINE e == worker.ecu
           l == IF worker.got = {} THEN mSupportedPIDs[e] ELSE worker.got
<1>1. /\ worker.pc = "supported" /\ asked' = asked /\ asked = {} /\ e \in ECUs /\ IsWorker(worker)
      /\ mSupportedPIDs[e] = NoList /\ worker.got \subseteq Reported[e] /\ BusOK
    BY DEF Supported, IInv, WorkerOK
<1>2. mSupportedPIDs' = [mSupportedPIDs EXCEPT ![e] = l] /\ mPIDsToRequest' = mPIDsToRequest
    BY DEF Supported
<1>3. mSupportedPIDs \in [ECUs -> SUBSET Nat] /\ mPIDsToRequest \in [ECUs -> SUBSET Nat]
    BY DEF IInv, ListsOK
<1>4. l \in SUBSET Nat /\ (l = NoList \/ l \subseteq Reported[e])
    BY <1>1, <1>3, OBDAssumption DEF NoList
<1>5. (worker.got # {} => mSupportedPIDs'[e] = worker.got) /\ mSupportedPIDs' \in [ECUs -> SUBSET Nat]
      /\ \A u \in ECUs : u # e => mSupportedPIDs'[u] = mSupportedPIDs[u]
    BY <1>1, <1>2, <1>3, <1>4
<1>6. mSupportedPIDs'[e] = l
    BY <1>1, <1>2, <1>3
<1> HIDE DEF l
<1>7. ListsGrow
    BY <1>1, <1>5 DEF ListsGrow
<1>8. ListsOK'
  <2>1. ASSUME NEW u \in ECUs
        PROVE  mSupportedPIDs'[u] = NoList \/ mSupportedPIDs'[u] \subseteq Reported[u]
      BY <1>4, <1>5, <1>6 DEF IInv, ListsOK
  <2>2. ASSUME NEW u \in ECUs
        PROVE  mPIDsToRequest[u] = NoList \/ ForUnit(u, mPIDsToRequest[u])'
    <3>1. mPIDsToRequest[u] = NoList \/ ForUnit(u, mPIDsToRequest[u])
        BY DEF IInv, ListsOK
    <3> QED
        BY <1>2, <1>7, <3>1, ForUnitStays DEF ForUnit
  <2> QED
      BY <1>2, <1>3, <1>5, <2>1, <2>2 DEF ListsOK
<1>9. BusOK'
    BY <1>1, <1>7, BusStays DEF Supported, busVars
<1>10. ManagerOK'
    BY <1>7, ManagerStays DEF IInv, Supported, dictionaryVars, otherVars
<1>11. WorkerOK' /\ worker'.pc \in {"support", "list", "assign"}
  <2>1. CASE worker.got = {} \/ mPIDsRequested = NoList
    <3>1. worker' = OtherUnit("support", "list")
        BY <2>1 DEF Supported
    <3> QED
        BY <1>1, <3>1, OtherUnitKeeps DEF Busy
  <2>2. CASE ~(worker.got = {} \/ mPIDsRequested = NoList)
    <3> DEFINE c == Common(worker.got)
    <3>1. worker' = [worker EXCEPT !.pc = "assign", !.got = c]
        BY <2>2 DEF Supported
    <3>2. c \subseteq mSupportedPIDs'[e] /\ c \subseteq Reported[e] /\ SomeWanted(c)
        BY <1>1, <1>5, <2>2 DEF Common, SomeWanted, IInv, DictionaryOK
    <3> HIDE DEF c
    <3>3. worker' = WorkerOf("assign", e, worker.list, worker.rest, worker.chunk, c)
        BY <1>1, <3>1, GotMoves
    <3> HIDE DEF e
    <3>4. worker'.pc = "assign" /\ worker'.ecu = e /\ worker'.got = c /\ IsWorker(worker')
        BY <3>3, Fields
    <3>5. ForUnit(worker.ecu, worker.got)'
        BY <3>2, <3>4 DEF ForUnit
    <3> QED
        BY <1>1, <3>4, <3>5 DEF WorkerOK
  <2> QED
      BY <2>1, <2>2
<1>12. DictionaryOK' /\ TimersOK'
    BY DEF IInv, Supported, DictionaryOK, TimersOK, dictionaryVars, decoderVars, timerVars
<1>13. Told'
    BY <1>1, <1>11 DEF IInv, Told, Supported, dictionaryVars, signalVars, flagVars, otherVars
<1> QED
    BY <1>8, <1>9, <1>10, <1>11, <1>12, <1>13 DEF IInv

\* Either thread writes a list that the unit may be asked for.
LEMMA ListWritten ==
    ASSUME ListsOK, NEW e \in ECUs, NEW l, ForUnit(e, l),
           mPIDsToRequest' = [mPIDsToRequest EXCEPT ![e] = l], mSupportedPIDs' = mSupportedPIDs
    PROVE  ListsOK' /\ ListsGrow
<1>1. l \in SUBSET Nat
    BY OBDAssumption DEF ForUnit
<1>2. /\ mPIDsToRequest' \in [ECUs -> SUBSET Nat] /\ mPIDsToRequest'[e] = l
      /\ \A u \in ECUs : u # e => mPIDsToRequest'[u] = mPIDsToRequest[u]
    BY <1>1 DEF ListsOK
<1>3. \A u \in ECUs : \A m : ForUnit(u, m) => ForUnit(u, m)'
    BY DEF ForUnit
<1>4. \A u \in ECUs : mPIDsToRequest'[u] = NoList \/ ForUnit(u, mPIDsToRequest'[u])
    BY <1>2 DEF ListsOK
<1> QED
    BY <1>2, <1>3, <1>4 DEF ListsOK, ListsGrow

\* Lemma.  The thread writes the list of what to ask a unit for.
LEMMA AssignStep ==
    ASSUME IInv, AssignCommon, UNCHANGED <<flagVars, otherVars>>
    PROVE  IInv'
<1>1. worker.pc = "assign" /\ asked' = asked /\ asked = {} /\ worker.ecu \in ECUs
      /\ ForUnit(worker.ecu, worker.got) /\ BusOK /\ ListsOK
    BY DEF AssignCommon, IInv, WorkerOK
<1>2. ListsOK' /\ ListsGrow
    BY <1>1, ListWritten DEF AssignCommon
<1>3. WorkerOK' /\ worker'.pc \in {"support", "list"}
    BY <1>1, OtherUnitKeeps DEF AssignCommon, Busy
<1>4. BusOK'
    BY <1>1, <1>2, BusStays DEF AssignCommon, busVars
<1>5. ManagerOK'
    BY <1>2, ManagerStays DEF IInv, AssignCommon, dictionaryVars, otherVars
<1>6. DictionaryOK' /\ TimersOK'
    BY DEF IInv, AssignCommon, DictionaryOK, TimersOK, dictionaryVars, decoderVars, timerVars
<1>7. Told'
    BY <1>1, <1>3 DEF IInv, Told, AssignCommon, dictionaryVars, signalVars, flagVars, otherVars
<1> QED
    BY <1>2, <1>3, <1>4, <1>5, <1>6, <1>7 DEF IInv

\* Lemma.  The time to the next timer is a number.
LEMMA SleepTimeType == SleepTime \in Nat
BY OBDAssumption DEF SleepTime, Smaller

\* The ends of a round and of the rest.
LEMMA RoundStep ==
    ASSUME IInv, Reschedule \/ PushDTCs \/ Rested, UNCHANGED <<flagVars, otherVars>>
    PROVE  IInv'
<1>1. asked' = asked /\ asked = {} /\ BusOK /\ WorkerOK /\ worker.pc \in {"reschedule", "pushDTCs", "resting"}
      /\ (worker.pc = "resting" => worker.got = {})
    BY DEF Reschedule, PushDTCs, Rested, IInv, WorkerOK
<1>2. WorkerOK' /\ worker'.pc \in {"dtcs", "resting", "check"}
  <2>1. CASE Reschedule
      BY <1>1, <2>1, GoKeeps DEF Reschedule, Go, Busy, Fresh
  <2>2. CASE PushDTCs
      BY <1>1, <2>2, AtKeeps DEF PushDTCs, Busy
  <2>3. CASE Rested
    <3>1. worker' = [worker EXCEPT !.pc = "check"] /\ worker.pc = "resting"
        BY <2>3 DEF Rested, Go
    <3> QED
        BY <1>1, <3>1, GoKeeps DEF Busy
  <2> QED
      BY <2>1, <2>2, <2>3
<1>3. ListsOK' /\ ListsGrow
    BY ListsStay DEF IInv, Reschedule, PushDTCs, Rested
<1>4. BusOK'
    BY <1>1, <1>3, BusStays DEF Reschedule, PushDTCs, Rested, busVars
<1>5. ManagerOK'
    BY <1>3, ManagerStays DEF IInv, Reschedule, PushDTCs, Rested, dictionaryVars, otherVars
<1>6. DictionaryOK'
    BY DEF IInv, Reschedule, PushDTCs, Rested, DictionaryOK, dictionaryVars, decoderVars
<1>7. TimersOK'
  <2>1. /\ mPIDTimer' \in {0, mPIDTimer} /\ mDTCTimer' \in {0, mDTCTimer} /\ slept' \in {0, slept}
      BY DEF Reschedule, PushDTCs, Rested
  <2>2. 0 \in 0 .. PIDInterval /\ 0 \in 0 .. DTCInterval /\ 0 \in 0 .. SleepTime
      BY OBDAssumption, SleepTimeType
  <2> QED
      BY <2>1, <2>2 DEF IInv, TimersOK
<1>8. Told'
    BY <1>1, <1>2 DEF IInv, Told, Reschedule, PushDTCs, Rested, dictionaryVars, signalVars, flagVars, otherVars
<1> QED
    BY <1>2, <1>3, <1>4, <1>5, <1>6, <1>7, <1>8 DEF IInv

\* Lemma.  Every step of the thread keeps the invariant.
LEMMA WorkerStepIInv ==
    ASSUME IInv, WorkerStep
    PROVE  IInv'
<1>1. CASE /\ \/ Check \/ Look \/ Support \/ FirstRanges \/ MoreRanges \/ LastRanges
              \/ List \/ requestPIDs \/ receivePIDs \/ DTCs \/ requestDTCs \/ receiveDTCs
           /\ UNCHANGED <<decoderVars, dictionaryVars, listVars, signalVars, timerVars>>
  <2>1. Quiet
      BY <1>1 DEF WorkerStep, Quiet, decoderVars
  <2>2. CASE FirstRanges \/ LastRanges
      BY <2>1, <2>2, HearRanges DEF FirstRanges, LastRanges, Ranges
  <2> QED
      BY <1>1, <2>1, <2>2, CheckStep, LookStep, SupportStep, MoreRangesStep, ListStep, RequestPIDsStep,
         ReceivePIDsStep, DTCsStep, RequestDTCsStep, ReceiveDTCsStep
<1>2. CASE requestReceiveVIN
  <2>1. Quiet
      BY <1>2 DEF WorkerStep, requestReceiveVIN, Quiet
  <2> QED
      BY <1>2, <2>1, VINStep
<1>3. CASE Woken \/ Take \/ Supported \/ AssignCommon \/ Reschedule \/ PushDTCs \/ Rested
    BY <1>3, WokenStep, TakeStep, SupportedStep, AssignStep, RoundStep DEF WorkerStep
<1> QED
    BY <1>1, <1>2, <1>3 DEF WorkerStep

-----------------------------------------------------------------------------
(* The steps of the manager *)

\* Lemma.  The fields of the record of the thread that brings a dictionary.
LEMMA ManagerFields ==
    ASSUME NEW pc, NEW ecu, NEW common, NEW wanted
    PROVE  LET m == ManagerOf(pc, ecu, common, wanted) IN
           m.pc = pc /\ m.ecu = ecu /\ m.common = common /\ m.wanted = wanted /\ IsManager(m)
BY DEF ManagerOf, IsManager

\* Lemma.  Changing one field of that record.
LEMMA ManagerMoves ==
    ASSUME NEW m, IsManager(m), NEW v
    PROVE  /\ [m EXCEPT !.pc = v] = ManagerOf(v, m.ecu, m.common, m.wanted)
           /\ [m EXCEPT !.ecu = v] = ManagerOf(m.pc, v, m.common, m.wanted)
           /\ [m EXCEPT !.common = v] = ManagerOf(m.pc, m.ecu, v, m.wanted)
           /\ [m EXCEPT !.wanted = v] = ManagerOf(m.pc, m.ecu, m.common, v)
<1> DEFINE a == m.pc
           b == m.ecu
           c == m.common
           d == m.wanted
<1>1. m = [pc |-> a, ecu |-> b, common |-> c, wanted |-> d]
    BY DEF IsManager, ManagerOf
<1> HIDE DEF a, b, c, d
<1>2. [m EXCEPT !.pc = v] = ManagerOf(v, b, c, d)
    BY <1>1 DEF ManagerOf
<1>3. [m EXCEPT !.ecu = v] = ManagerOf(a, v, c, d)
    BY <1>1 DEF ManagerOf
<1>4. [m EXCEPT !.common = v] = ManagerOf(a, b, v, d)
    BY <1>1 DEF ManagerOf
<1>5. [m EXCEPT !.wanted = v] = ManagerOf(a, b, c, v)
    BY <1>1 DEF ManagerOf
<1> QED
    BY <1>2, <1>3, <1>4, <1>5 DEF a, b, c, d

\* Lemma.  That thread goes to another step.
LEMMA ManagerGoes ==
    ASSUME IsManager(manager), NEW pc, manager' = [manager EXCEPT !.pc = pc]
    PROVE  /\ IsManager(manager') /\ manager'.pc = pc /\ manager'.ecu = manager.ecu
           /\ manager'.common = manager.common /\ manager'.wanted = manager.wanted
<1>1. manager' = ManagerOf(pc, manager.ecu, manager.common, manager.wanted)
    BY ManagerMoves
<1> QED
    BY <1>1, ManagerFields

\* Lemma.  That thread takes over what is wanted.
LEMMA ManagerTakes ==
    ASSUME IsManager(manager), NEW pc, NEW common, NEW wanted,
           manager' = [manager EXCEPT !.pc = pc, !.common = common, !.wanted = wanted]
    PROVE  /\ IsManager(manager') /\ manager'.pc = pc /\ manager'.ecu = manager.ecu
           /\ manager'.common = common /\ manager'.wanted = wanted
<1> DEFINE m == [manager EXCEPT !.pc = pc]
           n == [m EXCEPT !.common = common]
<1>1. manager' = [n EXCEPT !.wanted = wanted]
    BY Zenon
<1>2. m = ManagerOf(pc, manager.ecu, manager.common, manager.wanted)
    BY ManagerMoves, Zenon
<1> HIDE DEF m
<1>3. m.pc = pc /\ m.ecu = manager.ecu /\ m.wanted = manager.wanted /\ IsManager(m)
    BY <1>2, ManagerFields
<1>4. n = ManagerOf(m.pc, m.ecu, common, m.wanted)
    BY <1>3, ManagerMoves, Zenon
<1> HIDE DEF n
<1>5. n.pc = pc /\ n.ecu = manager.ecu /\ n.common = common /\ IsManager(n)
    BY <1>3, <1>4, ManagerFields
<1>6. manager' = ManagerOf(n.pc, n.ecu, n.common, wanted)
    BY <1>1, <1>5, ManagerMoves, Zenon
<1> HIDE DEF n
<1>7. manager' = ManagerOf(pc, manager.ecu, common, wanted)
    BY <1>5, <1>6
<1> QED
    BY <1>7, ManagerFields

\* Lemma.  That thread finds what is wanted and supported.
LEMMA ManagerFinds ==
    ASSUME IsManager(manager), NEW pc, NEW common, manager' = [manager EXCEPT !.pc = pc, !.common = common]
    PROVE  /\ IsManager(manager') /\ manager'.pc = pc /\ manager'.ecu = manager.ecu
           /\ manager'.common = common
<1> DEFINE m == [manager EXCEPT !.pc = pc]
<1>1. manager' = [m EXCEPT !.common = common]
    BY Zenon
<1>2. m = ManagerOf(pc, manager.ecu, manager.common, manager.wanted)
    BY ManagerMoves, Zenon
<1> HIDE DEF m
<1>3. m.pc = pc /\ m.ecu = manager.ecu /\ m.wanted = manager.wanted /\ IsManager(m)
    BY <1>2, ManagerFields
<1>4. manager' = ManagerOf(m.pc, m.ecu, common, m.wanted)
    BY <1>1, <1>3, ManagerMoves, Zenon
<1>5. manager' = ManagerOf(pc, manager.ecu, common, manager.wanted)
    BY <1>3, <1>4
<1> QED
    BY <1>5, ManagerFields

\* What the manager's steps leave alone.
ManagerQuiet == UNCHANGED <<decoderVars, mShouldStop, timerVars, busVars, workerVars, main, mSupportedPIDs>>

\* Lemma.  That thread leaves timers and bus alone, and the worker right.
LEMMA ManagerRest ==
    ASSUME IInv, ManagerQuiet, ListsGrow
    PROVE  TimersOK' /\ BusOK' /\ WorkerOK'
<1>1. TimersOK'
    BY DEF IInv, ManagerQuiet, TimersOK, timerVars
<1>2. BusOK'
    BY BusStays DEF IInv, ManagerQuiet, busVars
<1>3. WorkerOK'
    BY WorkerStays DEF IInv, ManagerQuiet, workerVars
<1> QED
    BY <1>1, <1>2, <1>3

\* A step that leaves the lists alone too.
LEMMA ManagerPlain ==
    ASSUME IInv, ManagerQuiet, mPIDsToRequest' = mPIDsToRequest, DictionaryOK', ManagerOK', Told'
    PROVE  IInv'
<1>1. ListsOK' /\ ListsGrow
    BY ListsStay DEF IInv, ManagerQuiet, listVars
<1> QED
    BY <1>1, ManagerRest DEF IInv

\* Lemma.  A matrix says whether trouble codes are wanted.
LEMMA MatrixStep ==
    ASSUME IInv, ManagerQuiet, NEW b \in BOOLEAN, onChangeInspectionMatrix(b)
    PROVE  IInv'
<1> PICK pc \in {"notify", "idle"} : manager' = [manager EXCEPT !.pc = pc] /\ (b => pc = "notify")
    BY DEF onChangeInspectionMatrix, ManagerAt
<1>1. manager.pc = "idle" /\ IsManager(manager) /\ manager.ecu \in ECUs
    BY DEF onChangeInspectionMatrix, IInv, ManagerOK
<1>2. mShouldRequestDTCs' = b /\ UNCHANGED <<dictionaryVars, listVars, mDataAvailableWait>>
    BY DEF onChangeInspectionMatrix
<1>3. IsManager(manager') /\ manager'.ecu \in ECUs /\ manager'.pc = pc
    BY <1>1, ManagerGoes
<1>4. ManagerOK'
    BY <1>3 DEF ManagerOK
<1>5. DictionaryOK'
    BY <1>2 DEF IInv, DictionaryOK, dictionaryVars, ManagerQuiet, decoderVars
<1>6. Told'
    BY <1>1, <1>2, <1>3 DEF IInv, Told, dictionaryVars, ManagerQuiet, workerVars
<1> QED
    BY <1>2, <1>4, <1>5, <1>6, ManagerPlain DEF listVars

\* Lemma.  The worker is notified.
LEMMA NotifyStep ==
    ASSUME IInv, ManagerQuiet, Notify
    PROVE  IInv'
<1>1. manager' = [manager EXCEPT !.pc = "idle"] /\ IsManager(manager) /\ manager.ecu \in ECUs
    BY DEF Notify, ManagerAt, IInv, ManagerOK
<1>2. mDataAvailableWait' = TRUE /\ UNCHANGED <<dictionaryVars, listVars, mShouldRequestDTCs>>
    BY DEF Notify
<1>3. IsManager(manager') /\ manager'.ecu \in ECUs /\ manager'.pc = "idle"
    BY <1>1, ManagerGoes
<1>4. ManagerOK'
    BY <1>3 DEF ManagerOK
<1>5. DictionaryOK'
    BY <1>2 DEF IInv, DictionaryOK, dictionaryVars, ManagerQuiet, decoderVars
<1>6. Told'
    BY <1>2 DEF Told
<1> QED
    BY <1>2, <1>4, <1>5, <1>6, ManagerPlain DEF listVars

\* Lemma.  A new dictionary arrives: an empty one first.
LEMMA NewDictionaryStep ==
    ASSUME IInv, ManagerQuiet, NewDictionary
    PROVE  IInv'
<1>1. manager.pc = "idle" /\ IsManager(manager) /\ manager.ecu \in ECUs
    BY DEF NewDictionary, IInv, ManagerOK
<1>2. /\ mDecoderDictionaryPtr' = {}
      /\ UNCHANGED <<mDecoderManifestAvailable, mPIDsRequested, listVars, mShouldRequestDTCs, mDataAvailableWait>>
    BY DEF NewDictionary
<1>3. ManagerOK' /\ manager'.pc \in {"idle", "fill"}
  <2>1. CASE UNCHANGED manager
      BY <1>1, <2>1 DEF ManagerOK
  <2>2. ASSUME NEW d \in Dictionaries,
               manager' = [manager EXCEPT !.pc = "fill", !.common = d.pids, !.wanted = d.wanted]
        PROVE  ManagerOK' /\ manager'.pc = "fill"
    <3> DEFINE ps == d.pids
               ws == d.wanted
    <3>1. ps \subseteq PIDs
        BY OBDAssumption
    <3>2. \E x \in Dictionaries : ws = x.wanted
        OBVIOUS
    <3>3. manager' = [manager EXCEPT !.pc = "fill", !.common = ps, !.wanted = ws]
        BY <2>2
    <3> HIDE DEF ps, ws
    <3>4. IsManager(manager') /\ manager'.ecu = manager.ecu
          /\ manager'.pc = "fill" /\ manager'.common = ps /\ manager'.wanted = ws
        BY <1>1, <3>3, ManagerTakes
    <3> QED
        BY <1>1, <3>1, <3>2, <3>4 DEF ManagerOK
  <2> QED
      BY <1>1, <2>1, <2>2 DEF NewDictionary
<1>4. DictionaryOK'
    BY <1>2 DEF IInv, DictionaryOK, ManagerQuiet, decoderVars
<1>5. Told'
    BY <1>1, <1>2, <1>3 DEF IInv, Told, ManagerQuiet, workerVars
<1> QED
    BY <1>2, <1>3, <1>4, <1>5, ManagerPlain DEF listVars

\* Lemma.  The dictionary is filled in, still under the mutex.
LEMMA FillStep ==
    ASSUME IInv, ManagerQuiet, Fill
    PROVE  IInv'
<1>1. manager.pc = "fill" /\ manager' = [manager EXCEPT !.pc = "requested"] /\ IsManager(manager) /\ manager.ecu \in ECUs
      /\ manager.common \subseteq PIDs /\ \E d \in Dictionaries : manager.wanted = d.wanted
    BY DEF Fill, ManagerAt, IInv, ManagerOK
<1>2. /\ mDecoderDictionaryPtr' = manager.common
      /\ UNCHANGED <<mDecoderManifestAvailable, mPIDsRequested, listVars, mShouldRequestDTCs, mDataAvailableWait>>
    BY DEF Fill
<1>3. IsManager(manager') /\ manager'.ecu \in ECUs /\ manager'.pc = "requested" /\ manager'.wanted = manager.wanted
    BY <1>1, ManagerGoes
<1>4. ManagerOK'
    BY <1>1, <1>3 DEF ManagerOK
<1>5. DictionaryOK'
    BY <1>1, <1>2 DEF IInv, DictionaryOK, ManagerQuiet, decoderVars
<1>6. Told'
    BY <1>1, <1>2 DEF IInv, Told, ManagerQuiet, workerVars
<1> QED
    BY <1>2, <1>4, <1>5, <1>6, ManagerPlain DEF listVars

\* Lemma.  What the dictionary wants is kept.
LEMMA RequestedStep ==
    ASSUME IInv, ManagerQuiet, Requested
    PROVE  IInv'
<1>1. manager.pc = "requested" /\ manager' = [manager EXCEPT !.pc = "common"] /\ IsManager(manager) /\ manager.ecu \in ECUs
      /\ \E d \in Dictionaries : manager.wanted = d.wanted
    BY DEF Requested, ManagerAt, IInv, ManagerOK
<1>2. /\ mPIDsRequested' = manager.wanted
      /\ UNCHANGED <<mDecoderDictionaryPtr, mDecoderManifestAvailable, listVars, mShouldRequestDTCs,
                     mDataAvailableWait>>
    BY DEF Requested
<1>3. IsManager(manager') /\ manager'.ecu \in ECUs /\ manager'.pc = "common"
    BY <1>1, ManagerGoes
<1>4. ManagerOK'
    BY <1>1, <1>2, <1>3 DEF ManagerOK
<1>5. DictionaryOK'
    BY <1>1, <1>2 DEF IInv, DictionaryOK, ManagerQuiet, decoderVars
<1>6. Told'
    BY <1>1, <1>2 DEF IInv, Told, ManagerQuiet, workerVars
<1> QED
    BY <1>2, <1>4, <1>5, <1>6, ManagerPlain DEF listVars

\* On to the next unit, or to the flag.
LEMMA ManagerOtherMeans ==
    ASSUME ManagerOK
    PROVE  LET m == ManagerOther IN
           IsManager(m) /\ m.ecu \in ECUs /\ m.pc \in {"common", "available"}
<1>1. IsManager(manager)
    BY DEF ManagerOK
<1>2. CASE manager.ecu = "engine" /\ "transmission" \in ECUs
  <2> DEFINE m == [manager EXCEPT !.ecu = "transmission"]
  <2>1. ManagerOther = [manager EXCEPT !.ecu = "transmission", !.pc = "common"]
      BY <1>2 DEF ManagerOther
  <2>2. ManagerOther = [m EXCEPT !.pc = "common"]
      BY <2>1, Zenon
  <2>3. m = ManagerOf(manager.pc, "transmission", manager.common, manager.wanted)
      BY <1>1, ManagerMoves, Zenon
  <2> HIDE DEF m
  <2>4. m.ecu = "transmission" /\ IsManager(m)
      BY <2>3, ManagerFields
  <2>5. ManagerOther = ManagerOf("common", m.ecu, m.common, m.wanted)
      BY <2>2, <2>4, ManagerMoves, Zenon
  <2> QED
      BY <1>2, <2>4, <2>5, ManagerFields
<1>3. CASE ~(manager.ecu = "engine" /\ "transmission" \in ECUs)
  <2> DEFINE k == [manager EXCEPT !.common = {}]
             m == [k EXCEPT !.wanted = {}]
             n == [m EXCEPT !.ecu = "engine"]
  <2>1. ManagerOther = [manager EXCEPT !.common = {}, !.wanted = {}, !.ecu = "engine", !.pc = "available"]
      BY <1>3 DEF ManagerOther, ManagerDone
  <2>2. ManagerOther = [n EXCEPT !.pc = "available"]
      BY <2>1, Zenon
  <2>3. k = ManagerOf(manager.pc, manager.ecu, {}, manager.wanted)
      BY <1>1, ManagerMoves, Zenon
  <2> HIDE DEF k
  <2>4. IsManager(k)
      BY <2>3, ManagerFields
  <2>5. m = ManagerOf(k.pc, k.ecu, k.common, {})
      BY <2>4, ManagerMoves, Zenon
  <2> HIDE DEF m
  <2>6. IsManager(m)
      BY <2>5, ManagerFields
  <2>7. n = ManagerOf(m.pc, "engine", m.common, m.wanted)
      BY <2>6, ManagerMoves, Zenon
  <2> HIDE DEF n
  <2>8. n.ecu = "engine" /\ IsManager(n)
      BY <2>7, ManagerFields
  <2>9. ManagerOther = ManagerOf("available", n.ecu, n.common, n.wanted)
      BY <2>2, <2>8, ManagerMoves, Zenon
  <2> QED
      BY <2>8, <2>9, ManagerFields, OBDAssumption
<1> QED
    BY <1>2, <1>3

\* Lemma.  That thread goes on with the other unit, or is through with both.
LEMMA ManagerOtherKeeps ==
    ASSUME ManagerOK, manager.pc \in {"common", "assign"}, manager' = ManagerOther, mPIDsRequested' = mPIDsRequested
    PROVE  ManagerOK' /\ manager'.pc \in {"common", "available"}
<1>1. IsManager(manager') /\ manager'.ecu \in ECUs /\ manager'.pc \in {"common", "available"}
    BY ManagerOtherMeans
<1>2. \E d \in Dictionaries : mPIDsRequested' = d.wanted
    BY DEF ManagerOK
<1> QED
    BY <1>1, <1>2 DEF ManagerOK

\* Lemma.  What a unit supports of what is wanted.
LEMMA ManagerCommonStep ==
    ASSUME IInv, ManagerQuiet, ManagerCommon
    PROVE  IInv'
<1> DEFINE e == manager.ecu
           c == Common(mSupportedPIDs[e])
<1>1. /\ manager.pc = "common" /\ IsManager(manager) /\ manager.ecu \in ECUs /\ e \in ECUs /\ ManagerOK
      /\ \E d \in Dictionaries : mPIDsRequested = d.wanted
      /\ UNCHANGED <<dictionaryVars, listVars, mShouldRequestDTCs, mDataAvailableWait>>
    BY DEF ManagerCommon, IInv, ManagerOK
<1>2. ManagerOK' /\ manager'.pc \in {"common", "assign", "available"}
  <2>1. CASE mSupportedPIDs[e] = NoList
    <3>1. manager' = ManagerOther
        BY <2>1 DEF ManagerCommon
    <3> QED
        BY <1>1, <3>1, ManagerOtherKeeps DEF dictionaryVars
  <2>2. CASE mSupportedPIDs[e] # NoList
    <3>1. manager' = [manager EXCEPT !.pc = "assign", !.common = c]
        BY <2>2 DEF ManagerCommon
    <3>2. ForUnit(e, c)
        BY <1>1, <2>2 DEF ForUnit, SomeWanted, Common, IInv, ListsOK
    <3> HIDE DEF c
    <3>3. IsManager(manager') /\ manager'.pc = "assign" /\ manager'.ecu = e /\ manager'.common = c
        BY <1>1, <3>1, ManagerFinds
    <3>4. ForUnit(manager.ecu, manager.common)'
        BY <1>1, <3>2, <3>3 DEF ForUnit, listVars
    <3> QED
        BY <1>1, <3>3, <3>4 DEF ManagerOK, dictionaryVars
  <2> QED
      BY <2>1, <2>2
<1>3. DictionaryOK'
    BY <1>1 DEF IInv, DictionaryOK, ManagerQuiet, decoderVars, dictionaryVars
<1>4. Told'
    BY <1>1 DEF IInv, Told, ManagerQuiet, workerVars, dictionaryVars
<1> QED
    BY <1>1, <1>2, <1>3, <1>4, ManagerPlain DEF listVars

\* Lemma.  That thread writes the list of a unit.
LEMMA ManagerAssignStep ==
    ASSUME IInv, ManagerQuiet, ManagerAssign
    PROVE  IInv'
<1>1. /\ manager.pc = "assign" /\ manager.ecu \in ECUs /\ ManagerOK /\ ListsOK
      /\ ForUnit(manager.ecu, manager.common)
      /\ UNCHANGED <<dictionaryVars, mSupportedPIDs, mShouldRequestDTCs, mDataAvailableWait>>
    BY DEF ManagerAssign, IInv, ManagerOK
<1>2. ListsOK' /\ ListsGrow
    BY <1>1, ListWritten DEF ManagerAssign
<1>3. ManagerOK'
    BY <1>1, ManagerOtherKeeps DEF ManagerAssign, dictionaryVars
<1>4. DictionaryOK'
    BY <1>1 DEF IInv, DictionaryOK, ManagerQuiet, decoderVars, dictionaryVars
<1>5. Told'
    BY <1>1 DEF IInv, Told, ManagerQuiet, workerVars, dictionaryVars
<1> QED
    BY <1>2, <1>3, <1>4, <1>5, ManagerRest DEF IInv

\* Lemma.  The dictionary is declared available.
LEMMA AvailableStep ==
    ASSUME IInv, ManagerQuiet, Available
    PROVE  IInv'
<1> PICK pc \in {"notify", "idle"} : manager' = [manager EXCEPT !.pc = pc] /\ (~Empty => pc = "notify")
    BY DEF Available, ManagerAt
<1>1. manager.pc = "available" /\ IsManager(manager) /\ manager.ecu \in ECUs
    BY DEF Available, IInv, ManagerOK
<1>2. /\ mDecoderManifestAvailable' => mDecoderManifestAvailable \/ ~Empty
      /\ UNCHANGED <<mDecoderDictionaryPtr, mPIDsRequested, listVars, mShouldRequestDTCs, mDataAvailableWait>>
    BY DEF Available
<1>3. IsManager(manager') /\ manager'.ecu \in ECUs /\ manager'.pc = pc
    BY <1>1, ManagerGoes
<1>4. ManagerOK'
    BY <1>3 DEF ManagerOK
<1>5. DictionaryOK'
    BY <1>2 DEF IInv, DictionaryOK, ManagerQuiet, decoderVars
<1>6. Told'
    BY <1>1, <1>2, <1>3 DEF IInv, Told, ManagerQuiet, workerVars
<1> QED
    BY <1>2, <1>4, <1>5, <1>6, ManagerPlain DEF listVars

\* Lemma.  Every step of that thread keeps the invariant.
LEMMA ManagerStepIInv ==
    ASSUME IInv, ManagerStep
    PROVE  IInv'
<1>1. ManagerQuiet
    BY DEF ManagerStep, ManagerQuiet, onChangeInspectionMatrix, Notify, NewDictionary, Fill, Requested,
           ManagerCommon, ManagerAssign, Available, listVars
<1> QED
    BY <1>1, MatrixStep, NotifyStep, NewDictionaryStep, FillStep, RequestedStep, ManagerCommonStep,
       ManagerAssignStep, AvailableStep DEF ManagerStep

-----------------------------------------------------------------------------
(* The main thread, the units, and time *)

\* Lemma.  Empty queues are right.
LEMMA QueuesEmpty == [e \in ECUs |-> <<>>] \in Queues
<1>1. \A S : <<>> \in Seq(S)
    BY EmptySeq
<1> QED
    BY <1>1 DEF Queues

\* Lemma.  Every step of the main thread keeps the invariant.
LEMMA MainStepIInv ==
    ASSUME IInv, MainStep
    PROVE  IInv'
<1>1. ListsOK' /\ ListsGrow
    BY ListsStay DEF IInv, MainStep
<1>2. BusOK'
  <2>1. Closed \/ UNCHANGED <<unanswered, socket>>
      BY DEF MainStep, Disconnect, StopFlag, StopNotify, Join
  <2>2. CASE Closed
    <3>1. unanswered' \in Queues /\ socket' \in Queues
        BY <2>2, QueuesEmpty DEF Closed
    <3> QED
        BY <1>1, <3>1, BusMoves
  <2>3. CASE UNCHANGED <<unanswered, socket>>
      BY <1>1, <2>3, BusStays DEF IInv
  <2> QED
      BY <2>1, <2>2, <2>3
<1>3. DictionaryOK' /\ TimersOK'
    BY DEF IInv, MainStep, DictionaryOK, TimersOK, dictionaryVars, decoderVars, timerVars
<1>4. ManagerOK'
    BY <1>1, ManagerStays DEF IInv, MainStep, dictionaryVars
<1>5. WorkerOK'
    BY WorkerStays DEF IInv, MainStep, workerVars, listVars
<1>6. Told'
  <2>1. UNCHANGED <<mDecoderManifestAvailable, manager, worker, mShouldRequestDTCs>>
      BY DEF MainStep, dictionaryVars, workerVars
  <2>2. \/ main # "notify" /\ mShouldStop' = mShouldStop /\ UNCHANGED mDataAvailableWait
        \/ main' = "notify" /\ UNCHANGED mDataAvailableWait
        \/ mDataAvailableWait' = TRUE
        \/ mShouldStop' = FALSE /\ UNCHANGED mDataAvailableWait
      BY DEF MainStep, Disconnect, StopFlag, StopNotify, Join, signalVars
  <2> QED
      BY <2>1, <2>2 DEF IInv, Told
<1> QED
    BY <1>1, <1>2, <1>3, <1>4, <1>5, <1>6 DEF IInv

\* A step that changes neither thread nor what they share.
Apart == UNCHANGED <<dictionaryVars, decoderVars, listVars, signalVars, flagVars, workerVars, otherVars>>

\* Lemma.  A step that changes timers and bus only.
LEMMA ApartStep ==
    ASSUME IInv, Apart, TimersOK', BusOK'
    PROVE  IInv'
<1>1. ListsOK' /\ ListsGrow
    BY ListsStay DEF IInv, Apart
<1>2. DictionaryOK'
    BY DEF IInv, Apart, DictionaryOK, dictionaryVars, decoderVars
<1>3. ManagerOK'
    BY <1>1, ManagerStays DEF IInv, Apart, dictionaryVars, otherVars
<1>4. WorkerOK'
    BY WorkerStays DEF IInv, Apart, workerVars, listVars
<1>5. Told'
    BY DEF IInv, Told, Apart, dictionaryVars, workerVars, flagVars, signalVars, otherVars
<1> QED
    BY <1>1, <1>2, <1>3, <1>4, <1>5 DEF IInv

\* Lemma.  Time passes.
LEMMA TickIInv ==
    ASSUME IInv, Tick
    PROVE  IInv'
<1>1. Apart
    BY DEF Tick, Apart
<1>2. \A n \in Nat, m \in Nat : Smaller(n + 1, m) \in 0 .. m
    BY DEF Smaller
<1>3. TimersOK'
  <2>1. mPIDTimer \in Nat /\ mDTCTimer \in Nat /\ slept \in Nat /\ slept \in 0 .. SleepTime
      BY OBDAssumption, SleepTimeType DEF IInv, TimersOK
  <2>2. mPIDTimer' \in 0 .. PIDInterval /\ mDTCTimer' \in 0 .. DTCInterval
      BY <1>2, <2>1, OBDAssumption DEF Tick
  <2>3. slept' \in 0 .. SleepTime
      BY <1>2, <2>1, SleepTimeType DEF Tick
  <2> QED
      BY <2>2, <2>3 DEF TimersOK
<1>4. BusOK'
    BY <1>1, ListsStay, BusStays DEF IInv, Tick, Apart, busVars
<1> QED
    BY <1>1, <1>3, <1>4, ApartStep

\* Lemma.  A unit answers, or its answer is lost.
LEMMA AnswerStepIInv ==
    ASSUME IInv, AnswerStep
    PROVE  IInv'
<1>1. Apart
    BY DEF AnswerStep, Apart
<1>2. ListsGrow
    BY <1>1, ListsStay DEF IInv, Apart
<1>3. BusOK'
  <2> PICK e \in ECUs : Answer(e)
      BY DEF AnswerStep
  <2> QED
      BY <1>2, AnswerKeepsBus, BusMoves DEF IInv
<1>4. TimersOK'
    BY DEF IInv, AnswerStep, TimersOK, timerVars
<1> QED
    BY <1>1, <1>3, <1>4, ApartStep

-----------------------------------------------------------------------------
(* The theorems *)

\* Lemma.  The module starts without lists, with an empty bus.
LEMMA InitIInv ==
    ASSUME Init
    PROVE  IInv
<1>1. DictionaryOK
    BY DEF Init, Initialised, DictionaryOK
<1>2. TimersOK
    BY OBDAssumption, SleepTimeType DEF Init, Started, TimersOK
<1>3. ListsOK
  <2>1. NoList \in SUBSET Nat
      BY DEF NoList
  <2> QED
      BY <2>1 DEF Init, Initialised, ListsOK
<1>4. BusOK
    BY QueuesEmpty DEF Init, Connected, BusOK
<1>5. ManagerOK
  <2>1. manager = ManagerOf("idle", "engine", {}, {})
      BY DEF Init, ManagerOf
  <2>2. manager.pc = "idle" /\ manager.ecu = "engine" /\ IsManager(manager)
      BY <2>1, ManagerFields
  <2> QED
      BY <2>2, OBDAssumption DEF ManagerOK
<1>6. worker.pc = "check" /\ WorkerOK
  <2>1. worker = WorkerOf("check", "engine", {}, {}, {}, {}) /\ asked = {}
      BY AtMeans DEF Init, Started
  <2>2. worker.pc = "check" /\ worker.ecu = "engine" /\ worker.got = {} /\ IsWorker(worker)
      BY <2>1, Fields
  <2> QED
      BY <2>1, <2>2, OBDAssumption DEF WorkerOK
<1>7. Told
    BY <1>6 DEF Init, Started, Told
<1> QED
    BY <1>1, <1>2, <1>3, <1>4, <1>5, <1>6, <1>7 DEF IInv

\* Lemma.  Every step keeps the invariant.
LEMMA StepIInv ==
    ASSUME IInv, [Next]_vars
    PROVE  IInv'
<1>1. CASE UNCHANGED vars
  <2>1. Apart
      BY <1>1 DEF vars, Apart
  <2>2. TimersOK'
      BY <1>1 DEF IInv, TimersOK, vars, timerVars
  <2>3. BusOK'
      BY <1>1, <2>1, ListsStay, BusStays DEF IInv, Apart, vars, busVars
  <2> QED
      BY <2>1, <2>2, <2>3, ApartStep
<1>2. CASE Next
    BY <1>2, WorkerStepIInv, ManagerStepIInv, MainStepIInv, TickIInv, AnswerStepIInv DEF Next
<1> QED
    BY <1>1, <1>2

\* The invariant holds of every run: what is on the bus, in the lists and on the way between the
\* thread of OBDOverCANModule and that of the scheme manager.
THEOREM OBDInvariance == Spec => []IInv
<1>1. Init => IInv
    BY InitIInv
<1>2. IInv /\ [Next]_vars => IInv'
    BY StepIInv
<1> QED
    BY <1>1, <1>2, PTL DEF Spec

\* A unit is asked only for PIDs that it reported and that some dictionary wanted, whichever
\* thread wrote the list (updatePIDRequestList) and however late an answer comes.
THEOREM RequestsAreSupported == Spec => []RequestsSupported
<1>1. ASSUME IInv
      PROVE  RequestsSupported
  <2>1. ASSUME NEW e \in ECUs, NEW i \in DOMAIN unanswered[e], unanswered[e][i].kind = "pids"
        PROVE  ForUnit(e, unanswered[e][i].pids)
    <3>1. unanswered[e] \in Seq(AnswersOf(e))
        BY <1>1 DEF IInv, BusOK, Queues
    <3>2. unanswered[e][i] \in AnswersOf(e)
        BY <3>1
    <3> QED
        BY <2>1, <3>2 DEF AnswersOf
  <2>2. ASSUME NEW e \in ECUs
        PROVE  /\ mSupportedPIDs[e] \subseteq PIDs \/ mSupportedPIDs[e] = NoList
               /\ mPIDsToRequest[e] \subseteq PIDs \/ mPIDsToRequest[e] = NoList
      BY <1>1, OBDAssumption DEF IInv, ListsOK, ForUnit
  <2>3. mPIDsRequested \subseteq PIDs \/ mPIDsRequested = NoList
      BY <1>1, OBDAssumption DEF IInv, DictionaryOK
  <2>4. asked \subseteq PIDs
      BY <1>1, OBDAssumption DEF IInv, WorkerOK, ForUnit
  <2>5. worker.ecu \in ECUs /\ manager.ecu \in ECUs
      BY <1>1 DEF IInv, WorkerOK, ManagerOK
  <2>6. TypeOK
      BY <1>1, <2>2, <2>3, <2>4, <2>5 DEF TypeOK, IInv, DictionaryOK, TimersOK
  <2> QED
      BY <2>1, <2>6 DEF RequestsSupported, ForUnit, SomeWanted
<1> QED
    BY <1>1, OBDInvariance, PTL

\* The thread does not sleep on a dictionary, a wish for trouble codes or a stop that it was told
\* of, or is about to be: the signal is set after the flag, and taken before it is looked at.
THEOREM WakesAreNotLost == Spec => []WakeNotLost
<1>1. IInv => WakeNotLost
    BY DEF IInv, Told, WakeNotLost
<1> QED
    BY <1>1, OBDInvariance, PTL

\* When a unit's list is through, each of its PIDs was asked for once, in groups no larger than
\* a request takes (requestReceiveEmissionPIDs), whatever the size of list and request.
THEOREM EachAskedOnce == Spec => AllAsked
<1> DEFINE A == worker.pc = "ask" =>
                   IF worker'.pc \in {"ask", "values"}
                   THEN asked \cap worker'.chunk = {} /\ Cardinality(worker'.chunk) <= MAX_PID_RANGE
                   ELSE asked = worker.list
<1>1. ASSUME IInv, [Next]_vars
      PROVE  [A]_worker
  <2> SUFFICES ASSUME worker.pc = "ask", worker' # worker
               PROVE  A
      OBVIOUS
  <2> DEFINE c == Chunk(worker.list, worker.rest)
             w == [worker EXCEPT !.rest = worker.rest \ c, !.chunk = c]
             v == [w EXCEPT !.pc = "values"]
  <2>1. WorkerStep
      BY <1>1 DEF Next, vars, workerVars, ManagerStep, MainStep, Tick, AnswerStep
  <2>2. requestPIDs
      BY <2>1 DEF WorkerStep, Check, Look, Support, FirstRanges, MoreRanges, LastRanges, List,
         receivePIDs, DTCs, requestDTCs, receiveDTCs, Woken, Take, requestReceiveVIN, Supported,
         AssignCommon, Reschedule, PushDTCs, Rested
  <2>3. WorkerOK /\ BusOK /\ worker.ecu \in ECUs /\ IsWorker(worker)
      BY <1>1 DEF IInv, WorkerOK
  <2>4. /\ worker.rest \subseteq worker.list /\ asked = worker.list \ worker.rest
        /\ c \subseteq worker.rest /\ Cardinality(c) <= MAX_PID_RANGE
        /\ worker.rest # {} => c # {}
      BY <2>3, ListMeans
  <2>5. \/ c = {} /\ worker' = OtherUnit("list", "reschedule")
        \/ worker' \in {v, w}
      BY <2>2 DEF requestPIDs, Send
  <2>6. CASE c = {} /\ worker' = OtherUnit("list", "reschedule")
    <3>1. worker'.pc \in {"list", "reschedule"}
        BY <2>6, OtherUnitMeans
    <3> QED
        BY <2>4, <2>6, <3>1
  <2>7. CASE worker' \in {v, w}
    <3> HIDE DEF c
    <3>1. w = WorkerOf("ask", worker.ecu, worker.list, worker.rest \ c, c, worker.got)
        BY <2>3, ChunkMoves
    <3> HIDE DEF w
    <3>2. w.pc = "ask" /\ w.chunk = c /\ IsWorker(w)
        BY <3>1, Fields
    <3>3. v = WorkerOf("values", w.ecu, w.list, w.rest, w.chunk, w.got)
        BY <3>2, Moves, Zenon
    <3> HIDE DEF v
    <3>4. v.pc = "values" /\ v.chunk = c
        BY <3>2, <3>3, Fields
    <3>5. worker'.pc \in {"ask", "values"} /\ worker'.chunk = c
        BY <2>7, <3>2, <3>4
    <3> QED
        BY <2>4, <3>5
  <2> QED
      BY <2>5, <2>6, <2>7
<1>2. IInv /\ [Next]_vars => [A]_worker
    BY <1>1
<1> QED
    BY <1>2, OBDInvariance, PTL DEF Spec, AllAsked
===============================================================================
