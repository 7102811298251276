------------------- MODULE CollectionSchemeManagerProofs -------------------
(***************************************************************************)
(* The safety of the collection scheme manager, for every set of schemes   *)
(* and manifests, every interval and every bound.                          *)
(*                                                                         *)
(* IInv is shown to be inductive. What the operators on the maps and the   *)
(* timeline preserve comes first, as lemmas about MapsInv, the part of     *)
(* IInv that speaks of nothing but these three variables.                  *)
(***************************************************************************)
EXTENDS CollectionSchemeManager, TLAPS

Loaded == mIdleCollectionSchemeMap \cup mEnabledCollectionSchemeMap
CheckinThere == \E e \in mTimeLine : \A f \in mTimeLine : f.id = CHECKIN <=> f = e

MapsTyped ==
    /\ mIdleCollectionSchemeMap \subseteq Schemes
    /\ mEnabledCollectionSchemeMap \subseteq Schemes
    /\ mTimeLine \subseteq EntryType
MapsInv == MapsTyped /\ OneSchemePerId /\ LoadedWellFormed /\ TimelineCoversSchemes

\* The schemes that rebuild and update are called with.
SchemeList(S) ==
    /\ S \subseteq Schemes
    /\ \A s, t \in S : s.id = t.id => s = t
    /\ \A s \in S : s.start <= s.stop

-----------------------------------------------------------------------------
(* The maps and the timeline *)

\* A scheme's fields are numbers and strings, its id is not the check-in's.
LEMMA SchemeFields ==
    ASSUME NEW s \in Schemes
    PROVE  /\ s.id \in Nat /\ s.id # CHECKIN
           /\ s.dm \in STRING /\ s.dm # NoId
           /\ s.start \in Nat /\ s.stop \in Nat
BY SchemesAssumption DEF SchemeType

\* The entries of the timeline have the fields of an entry, and those of a scheme are
\* not check-ins.
LEMMA SchemeEntries ==
    ASSUME NEW s \in Schemes
    PROVE  /\ StartOf(s) \in EntryType /\ StopOf(s) \in EntryType
           /\ StartOf(s).time = s.start /\ StartOf(s).id = s.id /\ StartOf(s).kind = "start"
           /\ StopOf(s).time = s.stop /\ StopOf(s).id = s.id /\ StopOf(s).kind = "stop"
           /\ StartOf(s).id # CHECKIN /\ StopOf(s).id # CHECKIN
           /\ StartOf(s) # StopOf(s)
BY SchemeFields DEF StartOf, StopOf, Entry, EntryType, Kinds

\* cleanupCollectionSchemes empties the maps and keeps the check-in.
LEMMA CleanupKeeps ==
    ASSUME MapsInv, NEW loaded \in BOOLEAN, Cleanup(loaded)
    PROVE  /\ MapsInv'
           /\ mIdleCollectionSchemeMap' = {} /\ mEnabledCollectionSchemeMap' = {}
           /\ CheckinThere => CheckinThere'
BY DEF MapsInv, MapsTyped, Cleanup, OneSchemePerId, LoadedWellFormed, TimelineCoversSchemes,
       CheckinThere

\* Adding to the timeline the entries of schemes keeps what it covers and its check-in.
LEMMA EntriesAdded ==
    ASSUME MapsInv, NEW A \in SUBSET Schemes, NEW B \in SUBSET Schemes,
           mTimeLine' = mTimeLine \cup {StartOf(s) : s \in A} \cup {StopOf(s) : s \in B}
    PROVE  /\ mTimeLine' \subseteq EntryType
           /\ CheckinThere => CheckinThere'
<1> DEFINE New == {StartOf(s) : s \in A} \cup {StopOf(s) : s \in B}
<1>1. \A e \in New : e \in EntryType /\ e.id # CHECKIN
  BY SchemeEntries
<1>2. mTimeLine' = mTimeLine \cup New
  OBVIOUS
<1> HIDE DEF New
<1>3. mTimeLine' \subseteq EntryType
  BY <1>1, <1>2 DEF MapsInv, MapsTyped
<1>4. ASSUME CheckinThere PROVE CheckinThere'
  <2>1. PICK e \in mTimeLine : \A f \in mTimeLine : f.id = CHECKIN <=> f = e
    BY <1>4 DEF CheckinThere
  <2>2. \A f \in mTimeLine' : f.id = CHECKIN <=> f = e
    BY <1>1, <1>2, <2>1
  <2>3. e \in mTimeLine'
    BY <1>2
  <2> QED BY <2>2, <2>3 DEF CheckinThere
<1> QED BY <1>3, <1>4

\* rebuildMapsandTimeLine: what it loads is well-formed, of one manifest, and timed;
\* when it does not report a change nothing is enabled.
LEMMA RebuildKeeps ==
    ASSUME MapsInv, Loaded = {}, clock \in Nat, NEW S, SchemeList(S), NEW dm, NEW ret \in BOOLEAN,
           Rebuild(S, dm, ret)
    PROVE  /\ MapsInv'
           /\ CheckinThere => CheckinThere'
           /\ Loaded' \subseteq S
           /\ \A s \in Loaded' : s.dm = dm
           /\ ret \/ mEnabledCollectionSchemeMap' = {}
<1>1. CASE Mismatched(S, dm) # {}
  <2>1. PICK seen \in SUBSET (S \ Mismatched(S, dm)) :
            Cleanup(\E s \in seen : Live(s, clock)) /\ ret = FALSE
    BY <1>1 DEF Rebuild
  <2>2. (\E s \in seen : Live(s, clock)) \in BOOLEAN
    OBVIOUS
  <2> QED BY <2>1, <2>2, CleanupKeeps DEF Loaded
<1>2. CASE Mismatched(S, dm) = {}
  <2> DEFINE idle == {s \in S : s.start > clock}
             enabled == {s \in S \ idle : s.stop > clock}
  <2>1. /\ mIdleCollectionSchemeMap' = idle
        /\ mEnabledCollectionSchemeMap' = enabled
        /\ mTimeLine' = mTimeLine \cup {StartOf(s) : s \in idle}
                                  \cup {StopOf(s) : s \in idle \cup enabled}
        /\ ret = (enabled # {})
    BY <1>2 DEF Rebuild, Loaded
  <2>2. idle \subseteq S /\ enabled \subseteq S /\ idle \cap enabled = {}
    OBVIOUS
  <2>3. S \subseteq Schemes /\ \A s \in S : s.dm = dm
    BY <1>2 DEF SchemeList, Mismatched
  <2> HIDE DEF idle, enabled
  <2>4. mTimeLine' \subseteq EntryType /\ (CheckinThere => CheckinThere')
    <3>1. idle \in SUBSET Schemes /\ idle \cup enabled \in SUBSET Schemes
      BY <2>2, <2>3
    <3> DEFINE both == idle \cup enabled
    <3> HIDE DEF both
    <3>2. mTimeLine' = mTimeLine \cup {StartOf(s) : s \in idle} \cup {StopOf(s) : s \in both}
      BY <2>1 DEF both
    <3>3. both \in SUBSET Schemes
      BY <3>1 DEF both
    <3> QED BY <3>1, <3>2, <3>3, EntriesAdded
  <2>5. OneSchemePerId'
    BY <2>1, <2>2 DEF OneSchemePerId, SchemeList
  <2>6. LoadedWellFormed'
    BY <2>1, <2>2 DEF LoadedWellFormed, SchemeList
  <2>7. TimelineCoversSchemes'
    BY <2>1 DEF TimelineCoversSchemes
  <2> QED BY <2>1, <2>2, <2>3, <2>4, <2>5, <2>6, <2>7 DEF MapsInv, MapsTyped, Loaded
<1> QED BY <1>1, <1>2

\* updateMapsandTimeLine keeps the maps consistent, and what it leaves loaded is of the
\* list or was loaded; when it does not report a change the same ids are enabled.
LEMMA UpdateKeeps ==
    ASSUME MapsInv, clock \in Nat, NEW S, SchemeList(S), NEW dm, NEW ret \in BOOLEAN,
           Update(S, dm, ret), \A s \in Loaded : s.dm = dm
    PROVE  /\ MapsInv'
           /\ CheckinThere => CheckinThere'
           /\ Ids(Loaded') \subseteq Ids(S)
           /\ \A s \in Loaded' : s.dm = dm
           /\ \/ ret
              \/ mEnabledCollectionSchemeMap' = {}
              \/ Ids(mEnabledCollectionSchemeMap') = Ids(mEnabledCollectionSchemeMap)
<1>1. CASE Mismatched(S, dm) # {}
  <2>1. PICK seen \in SUBSET (S \ Mismatched(S, dm)) :
            Cleanup(\/ mIdleCollectionSchemeMap # {}
                    \/ \E s \in seen : Live(s, clock)
                    \/ Ids(mEnabledCollectionSchemeMap) \ Ids(StopsNow(seen)) # {})
    BY <1>1 DEF Update
  <2>2. (\/ mIdleCollectionSchemeMap # {}
         \/ \E s \in seen : Live(s, clock)
         \/ Ids(mEnabledCollectionSchemeMap) \ Ids(StopsNow(seen)) # {}) \in BOOLEAN
    OBVIOUS
  <2>3. /\ MapsInv'
        /\ mIdleCollectionSchemeMap' = {} /\ mEnabledCollectionSchemeMap' = {}
        /\ CheckinThere => CheckinThere'
    BY <2>1, <2>2, CleanupKeeps
  <2> QED BY <2>3 DEF Loaded, Ids
<1>2. CASE Mismatched(S, dm) = {}
  <2> DEFINE enabled == mEnabledCollectionSchemeMap
             idle == mIdleCollectionSchemeMap
             kept == {e \in enabled : e.id \in Ids(S) \ Ids(StopsNow(S) \cup StopMoved(S))}
             waiting == {i \in idle : i.id \in Ids(S) \ Ids(StartsNow(S) \cup Deferred(S))}
             timed == StopMoved(S) \cup StartsNow(S) \cup Deferred(S)
  <2>1. /\ enabled' = kept \cup StopMoved(S) \cup StartsNow(S)
        /\ idle' = waiting \cup Deferred(S)
        /\ mTimeLine' = mTimeLine \cup {StartOf(s) : s \in Deferred(S)} \cup {StopOf(s) : s \in timed}
        /\ ret = \/ StopsNow(S) \cup StartsNow(S) # {}
                 \/ \E e \in enabled : e.id \notin Ids(S)
    BY <1>2 DEF Update
  <2>2. S \subseteq Schemes /\ \A s \in S : s.dm = dm
    BY <1>2 DEF SchemeList, Mismatched
  <2>3. /\ StopMoved(S) \subseteq S /\ \A s \in StopMoved(S) : s.id \in Ids(enabled)
        /\ StartsNow(S) \subseteq S /\ \A s \in StartsNow(S) : s.id \notin Ids(enabled)
        /\ Deferred(S) \subseteq S /\ \A s \in Deferred(S) : s.id \notin Ids(enabled)
        /\ StartsNow(S) \cap Deferred(S) = {}
        /\ \A s \in S : s.start \in Nat
    BY <2>2, SchemeFields DEF StopMoved, StartsNow, Deferred, IsEnabled
  <2>4. /\ kept \subseteq enabled /\ waiting \subseteq idle
        /\ \A e \in kept : e.id \in Ids(S) /\ e.id \notin Ids(StopMoved(S))
        /\ \A i \in waiting : /\ i.id \in Ids(S)
                              /\ i.id \notin Ids(StartsNow(S)) /\ i.id \notin Ids(Deferred(S))
    BY DEF Ids
  <2>5. mTimeLine' \subseteq EntryType /\ (CheckinThere => CheckinThere')
    <3>1. timed \in SUBSET Schemes /\ Deferred(S) \in SUBSET Schemes
      BY <2>2, <2>3
    <3> HIDE DEF timed
    <3> QED BY <2>1, <3>1, EntriesAdded
  <2>6. OneSchemePerId'
    <3>1. \A s, t \in S : s.id = t.id => s = t
      BY DEF SchemeList
    <3>2. \A s, t \in idle \cup enabled : s.id = t.id => s = t
      BY DEF MapsInv, OneSchemePerId
    <3>3. \A s \in idle : s.id \notin Ids(enabled)
      BY DEF MapsInv, OneSchemePerId, Ids
    <3> HIDE DEF kept, waiting, timed
    <3>4. \A s \in enabled', t \in idle' : s.id # t.id
      <4>1. \A s \in kept, t \in idle' : s.id # t.id
        BY <2>1, <2>3, <2>4, <3>3 DEF Ids
      <4>2. \A s \in StopMoved(S), t \in idle' : s.id # t.id
        BY <2>1, <2>3, <2>4, <3>3 DEF Ids
      <4>3. \A s \in StartsNow(S), t \in idle' : s.id # t.id
        BY <2>1, <2>3, <2>4, <3>1 DEF Ids
      <4> QED BY <4>1, <4>2, <4>3, <2>1
    <3>5. \A s, t \in enabled' : s.id = t.id => s = t
      BY <2>1, <2>3, <2>4, <3>1, <3>2 DEF Ids
    <3>6. \A s, t \in idle' : s.id = t.id => s = t
      BY <2>1, <2>3, <2>4, <3>1, <3>2 DEF Ids
    <3> QED BY <3>4, <3>5, <3>6 DEF OneSchemePerId
  <2>7. LoadedWellFormed'
    BY <2>1, <2>3, <2>4 DEF LoadedWellFormed, SchemeList, MapsInv
  <2>8. TimelineCoversSchemes'
    BY <2>1, <2>4 DEF TimelineCoversSchemes, MapsInv
  <2>9. Ids(Loaded') \subseteq Ids(S)
    BY <2>1, <2>3, <2>4 DEF Loaded, Ids
  <2>10. \A s \in Loaded' : s.dm = dm
    BY <2>1, <2>2, <2>3, <2>4 DEF Loaded
  <2>11. ret \/ Ids(enabled') = Ids(enabled)
    <3> SUFFICES ASSUME ~ret PROVE Ids(enabled') = Ids(enabled)
      OBVIOUS
    <3>1. StopsNow(S) = {} /\ StartsNow(S) = {} /\ \A e \in enabled : e.id \in Ids(S)
      BY <2>1
    <3>2. Ids(enabled') \subseteq Ids(enabled)
      BY <2>1, <2>3, <2>4, <3>1 DEF Ids
    <3>3. \A e \in enabled : e \in kept \/ e.id \in Ids(StopMoved(S))
      BY <3>1 DEF Ids
    <3> QED BY <2>1, <3>2, <3>3 DEF Ids
  <2>12. enabled' \subseteq Schemes /\ idle' \subseteq Schemes
    BY <2>1, <2>2, <2>3, <2>4 DEF MapsInv, MapsTyped
  <2> QED BY <2>5, <2>6, <2>7, <2>8, <2>9, <2>10, <2>11, <2>12 DEF MapsInv, MapsTyped
<1> QED BY <1>1, <1>2

\* checkTimeLine keeps the maps consistent and loads nothing; what it leaves loaded is
\* not overdue, and when it reports nothing the same schemes are enabled.
LEMMA TimelineKeeps ==
    ASSUME MapsInv, CheckinThere, clock \in Nat, changed \in BOOLEAN, checkTimeLine
    PROVE  /\ MapsInv' /\ CheckinThere' /\ changed' \in BOOLEAN
           /\ Loaded' \subseteq Loaded
           /\ \A s \in mEnabledCollectionSchemeMap' : s.stop > clock
           /\ \A s \in mIdleCollectionSchemeMap' : s.start > clock
           /\ changed => changed'
           /\ changed' \/ mEnabledCollectionSchemeMap' = mEnabledCollectionSchemeMap
<1> DEFINE enabled == mEnabledCollectionSchemeMap
           idle == mIdleCollectionSchemeMap
<1>1. /\ \A s \in enabled \cup idle : /\ StopOf(s) \in mTimeLine /\ StopOf(s).time = s.stop
                                      /\ StopOf(s).id = s.id /\ s.stop \in Nat
      /\ \A s \in idle : /\ StartOf(s) \in mTimeLine /\ StartOf(s).time = s.start
                         /\ StartOf(s).id = s.id /\ s.start \in Nat
                         /\ s.id \in Nat
  BY SchemeEntries, SchemeFields DEF MapsInv, MapsTyped, TimelineCoversSchemes
<1>2. \A e \in mTimeLine : e.time \in Nat /\ e.id \in Nat
  BY DEF MapsInv, MapsTyped, EntryType
<1>3. CASE Due = {}
  <2>1. UNCHANGED <<maps, changed>>
    BY <1>3 DEF checkTimeLine
  <2>2. \A e \in mTimeLine : e.time > clock
    BY <1>2, <1>3 DEF Due
  <2>3. /\ \A s \in enabled' : s.stop > clock
        /\ \A s \in idle' : s.start > clock
    BY <1>1, <2>1, <2>2 DEF maps
  <2> QED BY <2>1, <2>3 DEF maps, MapsInv, MapsTyped, OneSchemePerId, LoadedWellFormed,
                           TimelineCoversSchemes, CheckinThere, Loaded
<1>4. CASE Due # {}
  <2>1. /\ enabled' = (enabled \ ToDisable) \cup (ToEnable \ Ephemeral)
        /\ idle' = idle \ ToEnable
        /\ changed' = (changed \/ ToEnable \cup ToDisable # {})
    BY <1>4 DEF checkTimeLine, Reports
  <2>2. PICK C : /\ \/ NextCheckin = {} /\ C = {}
                    \/ \E t \in NextCheckin : C = {CheckinAt(t)}
                 /\ mTimeLine' = DropObsolete((mTimeLine \ Due) \cup C, enabled', idle')
    <3>1. CASE /\ NextCheckin = {}
               /\ mTimeLine' = DropObsolete(mTimeLine \ Due, enabled', idle')
      <4>1. (mTimeLine \ Due) \cup {} = mTimeLine \ Due
        OBVIOUS
      <4> QED BY <3>1, <4>1
    <3>2. CASE \E t \in NextCheckin :
                  mTimeLine' = DropObsolete((mTimeLine \ Due) \cup {CheckinAt(t)}, enabled', idle')
      BY <3>2
    <3> QED BY <1>4, <3>1, <3>2 DEF checkTimeLine
  <2>3. ToEnable \subseteq idle /\ ToDisable \subseteq enabled
    BY DEF ToEnable, ToDisable
  <2>4. \A s \in enabled' : s.stop > clock
    <3>1. ASSUME NEW s \in enabled, s \notin ToDisable PROVE s.stop > clock
      BY <1>1, <1>2, <3>1 DEF ToDisable, Fires, Due
    <3>2. ASSUME NEW s \in ToEnable, s \notin Ephemeral PROVE s.stop > clock
      <4>1. s \in idle /\ s.start <= s.stop /\ s \in Schemes
        BY <2>3 DEF MapsInv, MapsTyped, LoadedWellFormed
      <4>2. StartOf(s) # StopOf(s)
        BY <4>1, SchemeEntries
      <4>3. SUFFICES ASSUME s.stop <= clock PROVE FALSE
        BY <1>1, <4>1
      <4>4. StartOf(s) \in Due /\ StopOf(s) \in Due
        BY <1>1, <4>1, <4>3 DEF Due
      <4> QED BY <1>1, <3>2, <4>1, <4>2, <4>4 DEF Ephemeral
    <3> QED BY <2>1, <3>1, <3>2
  <2>5. \A s \in idle' : s.start > clock
    BY <1>1, <1>2, <2>1 DEF ToEnable, Fires, Due
  <2>6. enabled' \cup idle' \subseteq enabled \cup idle /\ enabled' \cap idle' = {}
    BY <2>1, <2>3 DEF MapsInv, OneSchemePerId
  <2>7. C \subseteq EntryType /\ \A c \in C : c.id = CHECKIN
    <3>1. NextCheckin \subseteq Nat
      BY IntervalAssumption DEF NextCheckin
    <3> QED BY <2>2, <3>1 DEF CheckinAt, Entry, EntryType, Kinds, CHECKIN
  <2> DEFINE T == (mTimeLine \ Due) \cup C
  <2>8. mTimeLine' \subseteq T /\ T \subseteq EntryType
    BY <2>2, <2>7 DEF DropObsolete, MapsInv, MapsTyped
  <2>9. \A v, e \in T : Valid(v, enabled', idle') /\ Before(v, e) => e \in mTimeLine'
    BY <2>2 DEF DropObsolete
  <2>10. \A e \in T : Before(e, e)
    BY <2>8 DEF Before, EntryType
  <2> HIDE DEF T
  <2>11. TimelineCoversSchemes'
    <3>1. ASSUME NEW s \in enabled' PROVE StopOf(s) \in mTimeLine'
      <4>1. StopOf(s) \in T
        BY <1>1, <2>4, <2>6 DEF T, Due
      <4>2. Valid(StopOf(s), enabled', idle')
        BY DEF Valid, StopOf, Entry
      <4> QED BY <2>9, <2>10, <4>1, <4>2
    <3>2. ASSUME NEW s \in idle' PROVE StartOf(s) \in mTimeLine' /\ StopOf(s) \in mTimeLine'
      <4>1. s \in idle /\ s.start <= s.stop
        BY <2>1 DEF MapsInv, LoadedWellFormed
      <4>2. StartOf(s) \in T /\ StopOf(s) \in T
        BY <1>1, <2>5, <4>1 DEF T, Due
      <4>3. Valid(StartOf(s), enabled', idle')
        BY DEF Valid, StartOf, Entry
      <4>4. Before(StartOf(s), StopOf(s))
        BY <1>1, <4>1 DEF Before
      <4> QED BY <2>9, <2>10, <4>2, <4>3, <4>4
    <3> QED BY <3>1, <3>2 DEF TimelineCoversSchemes
  <2>12. CheckinThere'
    <3>1. PICK e \in mTimeLine : \A f \in mTimeLine : f.id = CHECKIN <=> f = e
      BY DEF CheckinThere
    <3>2. PICK c \in T : \A f \in T : f.id = CHECKIN <=> f = c
      <4>1. CASE e \in Due
        <5>1. PICK t : C = {CheckinAt(t)}
          BY <2>2, <3>1, <4>1 DEF NextCheckin
        <5> QED BY <2>7, <3>1, <4>1, <5>1 DEF T
      <4>2. CASE e \notin Due
        <5>1. \A f \in Due : f.id # CHECKIN
          BY <3>1, <4>2 DEF Due
        <5>2. C = {}
          BY <2>2, <5>1 DEF NextCheckin
        <5> QED BY <3>1, <4>2, <5>2 DEF T
      <4> QED BY <4>1, <4>2
    <3>3. c \in mTimeLine'
      BY <2>9, <2>10, <3>2 DEF Valid
    <3> QED BY <2>8, <3>2, <3>3 DEF CheckinThere
  <2>13. OneSchemePerId' /\ LoadedWellFormed'
    BY <2>6 DEF MapsInv, OneSchemePerId, LoadedWellFormed
  <2>14. MapsTyped'
    BY <2>6, <2>8 DEF MapsInv, MapsTyped
  <2>15. changed' \/ enabled' = enabled
    BY <2>1
  <2> QED BY <2>1, <2>4, <2>5, <2>6, <2>11, <2>12, <2>13, <2>14, <2>15 DEF MapsInv, Loaded
<1> QED BY <1>3, <1>4

-----------------------------------------------------------------------------
(* The invariant *)

\* A process that has just started, whatever is on its disk, satisfies the invariant.
THEOREM InitIInv == Init => IInv
<1> SUFFICES ASSUME Init PROVE IInv
  OBVIOUS
<1>1. TypeOK
  <2>1. NoList \in ListType /\ NoManifest \in ManifestFile
    BY DEF ListType, ManifestFile
  <2>2. mTimeLine \subseteq EntryType
    BY DEF Init
  <2> QED BY <2>1, <2>2 DEF Init, TypeOK
<1>2. BootEmpty /\ OneSchemePerId /\ LoadedSchemesMatchManifest /\ LoadedWellFormed
  BY DEF Init, BootEmpty, OneSchemePerId, LoadedSchemesMatchManifest, LoadedWellFormed
<1>3. TimelineCoversSchemes /\ OneCheckin /\ NothingOverdue
  BY DEF Init, TimelineCoversSchemes, OneCheckin, NothingOverdue
<1>4. DocumentsThere /\ SignalPending /\ MatrixUpToDate /\ ChangedPublished
  BY DEF Init, DocumentsThere, SignalPending, MatrixUpToDate, ChangedPublished
<1> QED BY <1>1, <1>2, <1>3, <1>4 DEF IInv

\* Two records of the invariant in the shape the lemmas above use.
LEMMA InvMaps ==
    ASSUME IInv
    PROVE  /\ MapsInv /\ clock \in Nat /\ changed \in BOOLEAN
           /\ pc # "boot" => CheckinThere
           /\ \A s \in Loaded : s.dm = currentDecoderManifestID
BY DEF IInv, TypeOK, MapsInv, MapsTyped, OneCheckin, CheckinThere, Loaded, LoadedSchemesMatchManifest

\* A list that built, without the schemes that did not, is a scheme list.
LEMMA BuiltIsSchemeList ==
    ASSUME IInv, mCollectionSchemeList \notin {NoList, CorruptList}
    PROVE  SchemeList(Built(mCollectionSchemeList))
BY DEF IInv, TypeOK, ListType, Lists, SchemeList, Built

\* The part of the invariant that an action leaves alone when it changes neither the
\* maps, nor what they are compared with.
Stable == <<maps, currentDecoderManifestID, published, changed, checkTime>>

\* Lemma.  A step that leaves maps, timeline and what was published alone.
LEMMA StableKeeps ==
    ASSUME IInv, UNCHANGED Stable, (pc' = "boot") <=> (pc = "boot"),
           pc = "boot" => UNCHANGED listReady,
           pc' \in {"publish", "wait", "update", "stopped"} => pc \in {"publish", "wait", "update", "stopped"},
           pc' \in {"wait", "update", "stopped"} => pc \in {"wait", "update", "stopped"}
    PROVE  /\ BootEmpty' /\ OneSchemePerId' /\ LoadedSchemesMatchManifest' /\ LoadedWellFormed'
           /\ TimelineCoversSchemes' /\ OneCheckin' /\ NothingOverdue'
           /\ MatrixUpToDate' /\ ChangedPublished'
<1> USE DEF Stable, maps, published
<1>1. BootEmpty' /\ OneSchemePerId' /\ LoadedSchemesMatchManifest' /\ LoadedWellFormed'
  BY DEF IInv, BootEmpty, OneSchemePerId, LoadedSchemesMatchManifest, LoadedWellFormed
<1>2. TimelineCoversSchemes' /\ OneCheckin' /\ NothingOverdue'
  BY DEF IInv, TimelineCoversSchemes, OneCheckin, NothingOverdue
<1>3. MatrixUpToDate' /\ ChangedPublished'
  BY DEF IInv, MatrixUpToDate, ChangedPublished, Ids
<1> QED BY <1>1, <1>2, <1>3

\* The start of the thread puts the one check-in into the timeline.
LEMMA BootKeeps == ASSUME IInv, Boot PROVE IInv'
<1>1. mTimeLine' = {CheckinAt(clock)} /\ CheckinAt(clock) \in EntryType
  <2>1. mTimeLine = {} /\ clock \in Nat
    BY DEF IInv, TypeOK, BootEmpty, Boot
  <2>2. CheckinAt(clock) \in EntryType
    BY <2>1 DEF CheckinAt, Entry, EntryType, Kinds, CHECKIN
  <2> QED BY <2>1, <2>2 DEF Boot
<1>2. TypeOK'
  BY <1>1 DEF IInv, TypeOK, Boot, inputs, control, published, disk, bounds
<1>3. OneCheckin'
  BY <1>1 DEF OneCheckin, CheckinAt, Entry
<1>4. Loaded = {} /\ Loaded' = {} /\ pc' = "manifest"
  BY DEF IInv, BootEmpty, Boot, Loaded
<1>5. BootEmpty' /\ OneSchemePerId' /\ LoadedSchemesMatchManifest' /\ LoadedWellFormed'
  BY <1>4 DEF BootEmpty, OneSchemePerId, LoadedSchemesMatchManifest, LoadedWellFormed, Loaded
<1>6. TimelineCoversSchemes' /\ NothingOverdue' /\ MatrixUpToDate' /\ ChangedPublished'
  BY <1>4 DEF TimelineCoversSchemes, NothingOverdue, MatrixUpToDate, ChangedPublished, Loaded
<1>7. DocumentsThere'
  BY DEF IInv, BootEmpty, Boot, DocumentsThere
<1>8. SignalPending'
  BY DEF IInv, SignalPending, Boot, inputs, control
<1> QED BY <1>2, <1>3, <1>5, <1>6, <1>7, <1>8 DEF IInv

\* processDecoderManifest changes the maps only to drop everything or to rebuild them for
\* the manifest it makes current; what is enabled afterwards was not before.
LEMMA ManifestMaps ==
    ASSUME IInv, ManifestStep
    PROVE  /\ MapsInv' /\ CheckinThere'
           /\ currentDecoderManifestID' \in {NoId} \cup {m.id : m \in Manifests}
           /\ manifestReady' \in BOOLEAN /\ changed' \in BOOLEAN
           /\ \A s \in Loaded' : s.dm = currentDecoderManifestID'
           /\ changed' \/ mEnabledCollectionSchemeMap' = {}
              \/ (~changed /\ mEnabledCollectionSchemeMap' = mEnabledCollectionSchemeMap)
           /\ currentDecoderManifestID' # NoId => mDecoderManifest # NoManifest
           /\ currentDecoderManifestID' # currentDecoderManifestID =>
                 /\ mEnabledCollectionSchemeMap' \cap mEnabledCollectionSchemeMap = {}
                 /\ manifestReady' /\ mDecoderManifest \in Manifests
                 /\ currentDecoderManifestID' = mDecoderManifest.id
           /\ Loaded' \subseteq Loaded \cup Built(mCollectionSchemeList)
           /\ Loaded' \subseteq Loaded \/ listReady
<1> USE InvMaps
<1>0. pc = "manifest" /\ CheckinThere
  BY DEF ManifestStep
<1>1. CASE ~mProcessDecoderManifest
  <2>1. UNCHANGED <<maps, currentDecoderManifestID, manifestReady, changed, mDecoderManifest>>
    BY <1>1 DEF ManifestStep
  <2> QED BY <1>0, <2>1 DEF maps, IInv, TypeOK, DocumentsThere, MapsInv, MapsTyped, OneSchemePerId,
             LoadedWellFormed, TimelineCoversSchemes, CheckinThere, Loaded
<1>2. CASE mProcessDecoderManifest
  <2>1. mDecoderManifest \in Manifests \cup {CorruptManifest}
    BY <1>2 DEF IInv, TypeOK, ManifestFile, DocumentsThere
  <2>2. /\ mDecoderManifest.ok \in BOOLEAN
        /\ mDecoderManifest.ok => mDecoderManifest \in Manifests /\ mDecoderManifest.id # NoId
    BY <2>1, ManifestsAssumption DEF ManifestType
  <2>3. processDecoderManifest /\ manifestReady' = mDecoderManifest.ok
    BY <1>2 DEF ManifestStep, processDecoderManifest, ManifestBuilds
  <2>4. CASE ~NewManifest
    <3>1. UNCHANGED <<maps, currentDecoderManifestID, changed>>
      BY <2>3, <2>4 DEF processDecoderManifest
    <3> QED BY <1>0, <1>2, <2>2, <2>3, <3>1
               DEF maps, IInv, TypeOK, DocumentsThere, MapsInv, MapsTyped, OneSchemePerId,
                   LoadedWellFormed, TimelineCoversSchemes, CheckinThere, Loaded
  <2>5. CASE NewManifest
    <3>1. /\ currentDecoderManifestID' = mDecoderManifest.id
          /\ IF isCollectionSchemeLoaded
             THEN Cleanup(TRUE) /\ UNCHANGED changed
             ELSE \E ret \in BOOLEAN :
                     Rebuild(CurrentSchemes, mDecoderManifest.id, ret) /\ Reports(ret)
      BY <2>3, <2>5 DEF processDecoderManifest
    <3>2. mDecoderManifest.ok /\ mDecoderManifest \in Manifests
      BY <2>2, <2>5 DEF NewManifest, ManifestBuilds
    <3>3. mDecoderManifest # NoManifest /\ manifestReady'
      BY <2>3, <3>2, ManifestsAssumption
    <3>4. CASE isCollectionSchemeLoaded
      <4>1. Cleanup(TRUE) /\ UNCHANGED changed
        BY <3>1, <3>4
      <4>2. /\ MapsInv' /\ CheckinThere'
            /\ mIdleCollectionSchemeMap' = {} /\ mEnabledCollectionSchemeMap' = {}
        BY <1>0, <4>1, CleanupKeeps
      <4> QED BY <3>1, <3>2, <3>3, <4>1, <4>2 DEF Loaded
    <3>5. CASE ~isCollectionSchemeLoaded
      <4>1. PICK ret \in BOOLEAN :
                Rebuild(CurrentSchemes, mDecoderManifest.id, ret) /\ Reports(ret)
        BY <3>1, <3>5
      <4>2. SchemeList(CurrentSchemes)
        BY BuiltIsSchemeList DEF CurrentSchemes, IInv, DocumentsThere, SchemeList
      <4>3. Loaded = {} /\ mEnabledCollectionSchemeMap = {}
        BY <3>5 DEF isCollectionSchemeLoaded, Loaded
      <4>4. /\ MapsInv' /\ CheckinThere'
            /\ Loaded' \subseteq CurrentSchemes
            /\ \A s \in Loaded' : s.dm = mDecoderManifest.id
            /\ ret \/ mEnabledCollectionSchemeMap' = {}
        BY <1>0, <4>1, <4>2, <4>3, RebuildKeeps
      <4>5. changed' = (changed \/ ret)
        BY <4>1 DEF Reports
      <4>6. CurrentSchemes \subseteq Built(mCollectionSchemeList) /\ (CurrentSchemes = {} \/ listReady)
        BY DEF CurrentSchemes
      <4> QED BY <3>1, <3>2, <3>3, <4>3, <4>4, <4>5, <4>6
    <3> QED BY <3>4, <3>5
  <2> QED BY <2>4, <2>5
<1> QED BY <1>1, <1>2

\* Every other part of the invariant follows for that step.
LEMMA ManifestKeeps == ASSUME IInv, ManifestStep PROVE IInv'
<1> USE ManifestMaps
<1>1. TypeOK'
  <2>1. diskManifest' \in ManifestFile /\ UNCHANGED diskList
    BY DEF IInv, TypeOK, ManifestFile, ManifestStep, processDecoderManifest, StoreManifest,
           TornManifest, disk
  <2> QED BY <2>1 DEF MapsInv, MapsTyped, IInv, TypeOK, ManifestStep, inputs, control,
                       published, bounds
<1>2. BootEmpty' /\ NothingOverdue' /\ ChangedPublished' /\ OneCheckin'
  BY DEF ManifestStep, BootEmpty, NothingOverdue, ChangedPublished, OneCheckin, CheckinThere
<1>3. OneSchemePerId' /\ LoadedWellFormed' /\ TimelineCoversSchemes'
  BY DEF MapsInv
<1>4. LoadedSchemesMatchManifest'
  BY DEF Loaded, LoadedSchemesMatchManifest
<1>5. DocumentsThere' /\ SignalPending'
  BY DEF IInv, DocumentsThere, SignalPending, ManifestStep, inputs, control
<1>6. MatrixUpToDate'
  BY DEF IInv, MatrixUpToDate, ManifestStep, published, Ids
<1> QED BY <1>1, <1>2, <1>3, <1>4, <1>5, <1>6 DEF IInv

\* processCollectionScheme leaves loaded only schemes of the list or, when the list does
\* not build, what was loaded.
LEMMA SchemesMaps ==
    ASSUME IInv, SchemesStep
    PROVE  /\ MapsInv' /\ CheckinThere'
           /\ listReady' \in BOOLEAN /\ changed' \in BOOLEAN
           /\ \A s \in Loaded' : s.dm = currentDecoderManifestID
           /\ \/ changed'
              \/ mEnabledCollectionSchemeMap' = {}
              \/ ~changed /\ Ids(mEnabledCollectionSchemeMap') = Ids(mEnabledCollectionSchemeMap)
           /\ \/ UNCHANGED <<maps, listReady, disk>>
              \/ /\ mCollectionSchemeList \notin {NoList, CorruptList}
                 /\ listReady' /\ StoreList
                 /\ Ids(Loaded') \subseteq Ids(Built(mCollectionSchemeList))
<1> USE InvMaps
<1>0. pc = "schemes" /\ CheckinThere
  BY DEF SchemesStep
<1>1. CASE ~mProcessCollectionScheme \/ ~ListBuilds
  <2>1. UNCHANGED <<maps, listReady, disk, changed>>
    BY <1>1 DEF SchemesStep, processCollectionScheme
  <2> QED BY <1>0, <2>1 DEF maps, IInv, TypeOK, MapsInv, MapsTyped, OneSchemePerId,
             LoadedWellFormed, TimelineCoversSchemes, CheckinThere, Loaded, Ids
<1>2. CASE mProcessCollectionScheme /\ ListBuilds
  <2> DEFINE S == Built(mCollectionSchemeList)
             dm == currentDecoderManifestID
  <2>1. mCollectionSchemeList \notin {NoList, CorruptList}
    BY <1>2 DEF IInv, DocumentsThere, ListBuilds
  <2>2. SchemeList(S)
    BY <2>1, BuiltIsSchemeList
  <2>3. listReady' = TRUE /\ StoreList
    BY <1>2 DEF SchemesStep, processCollectionScheme
  <2>4. PICK ret \in BOOLEAN :
            /\ Reports(ret)
            /\ IF isCollectionSchemeLoaded THEN Update(S, dm, ret) ELSE Rebuild(S, dm, ret)
    BY <1>2 DEF SchemesStep, processCollectionScheme
  <2>5. changed' = (changed \/ ret)
    BY <2>4 DEF Reports
  <2> HIDE DEF S, dm
  <2>6. \A s \in Loaded : s.dm = dm
    BY DEF dm
  <2>7. CASE isCollectionSchemeLoaded
    <3>1. Update(S, dm, ret)
      BY <2>4, <2>7
    <3>2. /\ MapsInv' /\ CheckinThere'
          /\ Ids(Loaded') \subseteq Ids(S)
          /\ \A s \in Loaded' : s.dm = dm
          /\ \/ ret
             \/ mEnabledCollectionSchemeMap' = {}
             \/ Ids(mEnabledCollectionSchemeMap') = Ids(mEnabledCollectionSchemeMap)
      BY <1>0, <2>2, <2>6, <3>1, UpdateKeeps
    <3> QED BY <2>1, <2>3, <2>5, <3>2 DEF S, dm
  <2>8. CASE ~isCollectionSchemeLoaded
    <3>1. Rebuild(S, dm, ret) /\ Loaded = {}
      BY <2>4, <2>8 DEF isCollectionSchemeLoaded, Loaded
    <3>2. /\ MapsInv' /\ CheckinThere'
          /\ Loaded' \subseteq S
          /\ \A s \in Loaded' : s.dm = dm
          /\ ret \/ mEnabledCollectionSchemeMap' = {}
      BY <1>0, <2>2, <3>1, RebuildKeeps
    <3>3. Ids(Loaded') \subseteq Ids(S)
      BY <3>2 DEF Ids
    <3> QED BY <2>1, <2>3, <2>5, <3>2, <3>3 DEF S, dm
  <2> QED BY <2>7, <2>8
<1> QED BY <1>1, <1>2

\* Every other part of the invariant follows for that step too.
LEMMA SchemesKeeps == ASSUME IInv, SchemesStep PROVE IInv'
<1> USE SchemesMaps
<1>1. TypeOK'
  <2>1. diskList' \in ListType /\ UNCHANGED diskManifest
    <3>1. CASE UNCHANGED <<maps, listReady, disk>>
      BY <3>1 DEF disk, IInv, TypeOK
    <3>2. CASE StoreList /\ mCollectionSchemeList \notin {NoList, CorruptList}
      <4>1. mCollectionSchemeList \in Lists
        BY <3>2 DEF IInv, TypeOK, ListType
      <4>2. SUBSET mCollectionSchemeList \subseteq Lists
        BY <4>1 DEF Lists
      <4> QED BY <3>2, <4>1, <4>2 DEF StoreList, TornList, ListType, IInv, TypeOK
    <3> QED BY <3>1, <3>2
  <2> QED BY <2>1 DEF MapsInv, MapsTyped, IInv, TypeOK, SchemesStep, inputs, control,
                       published, bounds
<1>2. BootEmpty' /\ NothingOverdue' /\ ChangedPublished' /\ OneCheckin'
  BY DEF SchemesStep, BootEmpty, NothingOverdue, ChangedPublished, OneCheckin, CheckinThere
<1>3. OneSchemePerId' /\ LoadedWellFormed' /\ TimelineCoversSchemes'
  BY DEF MapsInv
<1>4. LoadedSchemesMatchManifest'
  BY DEF Loaded, LoadedSchemesMatchManifest, SchemesStep
<1>5. DocumentsThere'
  BY DEF IInv, DocumentsThere, SchemesStep
<1>6. SignalPending'
  BY DEF IInv, SignalPending, SchemesStep, inputs, control
<1>7. MatrixUpToDate'
  BY DEF IInv, MatrixUpToDate, SchemesStep, published, Ids
<1> QED BY <1>1, <1>2, <1>3, <1>4, <1>5, <1>6, <1>7 DEF IInv

\* checkTimeLine is what makes NothingOverdue true, as of checkTime.
LEMMA TimelineStepKeeps == ASSUME IInv, TimelineStep PROVE IInv'
<1>1. /\ pc = "timeline" /\ pc' = "publish" /\ checkTime' = clock /\ checkTimeLine
      /\ UNCHANGED <<clock, currentDecoderManifestID, documents, flags, inputs, control,
                     published, disk, bounds>>
  BY DEF TimelineStep
<1>2. MapsInv /\ CheckinThere /\ clock \in Nat /\ changed \in BOOLEAN
  BY <1>1, InvMaps
<1>3. /\ MapsInv' /\ CheckinThere' /\ changed' \in BOOLEAN
      /\ Loaded' \subseteq Loaded
      /\ \A s \in mEnabledCollectionSchemeMap' : s.stop > clock
      /\ \A s \in mIdleCollectionSchemeMap' : s.start > clock
      /\ changed => changed'
      /\ changed' \/ mEnabledCollectionSchemeMap' = mEnabledCollectionSchemeMap
  BY <1>1, <1>2, TimelineKeeps
<1>4. TypeOK'
  BY <1>1, <1>2, <1>3 DEF MapsInv, MapsTyped, IInv, TypeOK, documents, flags, inputs, control,
                          published, disk, bounds
<1>5. BootEmpty' /\ NothingOverdue' /\ ChangedPublished' /\ OneCheckin'
  BY <1>1, <1>3 DEF BootEmpty, NothingOverdue, ChangedPublished, OneCheckin, CheckinThere
<1>6. OneSchemePerId' /\ LoadedWellFormed' /\ TimelineCoversSchemes'
  BY <1>3 DEF MapsInv
<1>7. LoadedSchemesMatchManifest'
  BY <1>1, <1>3 DEF Loaded, LoadedSchemesMatchManifest, IInv
<1>8. DocumentsThere' /\ SignalPending'
  BY <1>1 DEF IInv, DocumentsThere, SignalPending, documents, flags, inputs, control
<1>9. MatrixUpToDate'
  BY <1>1, <1>3 DEF IInv, MatrixUpToDate, published, Ids
<1> QED BY <1>4, <1>5, <1>6, <1>7, <1>8, <1>9 DEF IInv

\* What is published is what is enabled.
LEMMA PublishKeeps == ASSUME IInv, PublishStep PROVE IInv'
<1> USE DEF PublishStep, maps, documents, flags, inputs, control, published, disk, bounds
<1>1. TypeOK'
  <2>1. matrix' \subseteq Schemes
    BY DEF IInv, TypeOK
  <2>2. dictionary' \in ManifestFile
    BY DEF IInv, TypeOK, ManifestFile
  <2> QED BY <2>1, <2>2 DEF IInv, TypeOK
<1>2. BootEmpty' /\ OneSchemePerId' /\ LoadedSchemesMatchManifest' /\ LoadedWellFormed'
  BY DEF IInv, BootEmpty, OneSchemePerId, LoadedSchemesMatchManifest, LoadedWellFormed
<1>3. TimelineCoversSchemes' /\ OneCheckin' /\ NothingOverdue'
  BY DEF IInv, TimelineCoversSchemes, OneCheckin, NothingOverdue
<1>4. DocumentsThere' /\ SignalPending' /\ ChangedPublished'
  BY DEF IInv, DocumentsThere, SignalPending, ChangedPublished
<1>5. MatrixUpToDate'
  BY DEF IInv, MatrixUpToDate, Ids
<1> QED BY <1>1, <1>2, <1>3, <1>4, <1>5 DEF IInv

\* The signal is only cleared by the step that goes on to look at the inputs.
LEMMA WakeKeeps == ASSUME IInv, Wake PROVE IInv'
<1>1. TypeOK'
  BY DEF IInv, TypeOK, Wake, maps, documents, flags, inputs, control, published, disk, bounds
<1>2. DocumentsThere' /\ SignalPending'
  BY DEF IInv, DocumentsThere, SignalPending, Wake, documents, flags
<1>3. UNCHANGED Stable /\ pc = "wait" /\ pc' = "update"
  BY DEF Wake, Stable
<1> QED BY <1>1, <1>2, <1>3, StableKeeps DEF IInv

\* updateAvailable takes both inputs, so that none is left without a signal.
LEMMA UpdateAvailableKeeps == ASSUME IInv, UpdateAvailable PROVE IInv'
<1>1. pc = "update" /\ pc' \in {"stopped", "manifest"} /\ UNCHANGED Stable
  BY DEF UpdateAvailable, Stable
<1>2. TypeOK'
  <2>1. NoList \in ListType /\ NoManifest \in ManifestFile
    BY DEF ListType, ManifestFile
  <2> QED BY <1>1, <2>1 DEF IInv, TypeOK, UpdateAvailable, maps, control, published, disk, bounds
<1>3. DocumentsThere'
  BY DEF IInv, DocumentsThere, UpdateAvailable
<1>4. SignalPending'
  BY DEF SignalPending, UpdateAvailable
<1> QED BY <1>1, <1>2, <1>3, <1>4, StableKeeps DEF IInv

\* The other threads: each hand-over sets the signal in the same step.
LEMMA OthersKeep ==
    ASSUME IInv,
           \/ \E list \in Lists \cup {CorruptList} : onCollectionSchemeUpdate(list)
           \/ \E manifest \in Manifests : onDecoderManifestUpdate(manifest)
           \/ Stop
           \/ Tick
    PROVE  IInv'
<1> USE DEF onCollectionSchemeUpdate, onDecoderManifestUpdate, Stop, Tick
<1>1. UNCHANGED <<Stable, pc, documents, flags>>
  BY DEF Stable, control, inputs
<1>2. TypeOK'
  <2> USE DEF IInv, TypeOK, maps, documents, flags, inputs, control, published, disk, bounds
  <2>1. ASSUME NEW list \in Lists \cup {CorruptList}, onCollectionSchemeUpdate(list) PROVE TypeOK'
    <3>1. list \in ListType
      BY DEF ListType
    <3> QED BY <2>1, <3>1
  <2>2. ASSUME NEW manifest \in Manifests, onDecoderManifestUpdate(manifest) PROVE TypeOK'
    <3>1. manifest \in ManifestFile
      BY DEF ManifestFile
    <3> QED BY <2>2, <3>1
  <2>3. ASSUME Stop PROVE TypeOK'
    BY <2>3
  <2>4. ASSUME Tick PROVE TypeOK'
    BY <2>4
  <2> QED BY <2>1, <2>2, <2>3, <2>4
<1>3. DocumentsThere'
  BY <1>1 DEF IInv, DocumentsThere, documents, flags
<1>4. SignalPending'
  BY DEF IInv, SignalPending, inputs, control
<1>5. UNCHANGED Stable /\ UNCHANGED listReady /\ UNCHANGED pc
  BY <1>1 DEF documents
<1> QED BY <1>2, <1>3, <1>4, <1>5, StableKeeps DEF IInv

\* After a crash the process starts from nothing but its disk.
LEMMA CrashKeeps == ASSUME IInv, Crash PROVE IInv'
<1>1. TypeOK'
  <2>1. NoList \in ListType /\ NoManifest \in ManifestFile
    BY DEF ListType, ManifestFile
  <2>2. diskManifest' \in ManifestFile
    BY DEF IInv, TypeOK, Crash, TornManifest, ManifestFile
  <2>3. diskList' \in ListType
    <3>1. CASE mCollectionSchemeList \in Lists
      <4>1. SUBSET mCollectionSchemeList \subseteq Lists
        BY <3>1 DEF Lists
      <4> QED BY <3>1, <4>1 DEF IInv, TypeOK, Crash, TornList, ListType
    <3>2. CASE mCollectionSchemeList \notin Lists
      <4>1. diskList' = diskList
        BY <3>2 DEF IInv, TypeOK, ListType, DocumentsThere, Crash, ListBuilds
      <4> QED BY <4>1 DEF IInv, TypeOK
    <3> QED BY <3>1, <3>2
  <2>4. mTimeLine' \subseteq EntryType /\ matrix' \subseteq Schemes
    BY DEF Crash
  <2>5. /\ mIdleCollectionSchemeMap' \subseteq Schemes
        /\ mEnabledCollectionSchemeMap' \subseteq Schemes
    BY DEF Crash
  <2>6. /\ pc' = "boot" /\ clock' \in Nat /\ checkTime' = 0
        /\ updates' \in Nat /\ crashes' \in Nat
    BY DEF IInv, TypeOK, Crash
  <2>7. /\ currentDecoderManifestID' = NoId
        /\ mCollectionSchemeList' \in ListType /\ mDecoderManifest' \in ManifestFile
        /\ listInput' \in ListType /\ manifestInput' \in ManifestFile
        /\ dictionary' \in ManifestFile
    BY <2>1 DEF Crash
  <2>8. /\ listReady' \in BOOLEAN /\ manifestReady' \in BOOLEAN
        /\ mProcessCollectionScheme' \in BOOLEAN /\ mProcessDecoderManifest' \in BOOLEAN
        /\ mNotify' \in BOOLEAN /\ mShouldStop' \in BOOLEAN /\ changed' \in BOOLEAN
    BY DEF Crash
  <2> QED BY <2>2, <2>3, <2>4, <2>5, <2>6, <2>7, <2>8 DEF TypeOK
<1>2. BootEmpty' /\ OneSchemePerId' /\ LoadedSchemesMatchManifest' /\ LoadedWellFormed'
  BY DEF Crash, BootEmpty, OneSchemePerId, LoadedSchemesMatchManifest, LoadedWellFormed
<1>3. TimelineCoversSchemes' /\ OneCheckin' /\ NothingOverdue'
  BY DEF Crash, TimelineCoversSchemes, OneCheckin, NothingOverdue
<1>4. DocumentsThere' /\ SignalPending' /\ MatrixUpToDate' /\ ChangedPublished'
  BY DEF Crash, DocumentsThere, SignalPending, MatrixUpToDate, ChangedPublished
<1> QED BY <1>1, <1>2, <1>3, <1>4 DEF IInv

\* The invariant is inductive: every step of the thread, of the callbacks, of the clock
\* and of a crash keeps it.
THEOREM StepIInv == IInv /\ [Next]_vars => IInv'
<1> SUFFICES ASSUME IInv, [Next]_vars PROVE IInv'
  OBVIOUS
<1>1. CASE Worker
  BY <1>1, BootKeeps, ManifestKeeps, SchemesKeeps, TimelineStepKeeps, PublishKeeps,
     WakeKeeps, UpdateAvailableKeeps DEF Worker
<1>2. CASE \/ \E list \in Lists \cup {CorruptList} : onCollectionSchemeUpdate(list)
           \/ \E manifest \in Manifests : onDecoderManifestUpdate(manifest)
           \/ Stop
           \/ Tick
  BY <1>2, OthersKeep
<1>3. CASE Crash
  BY <1>3, CrashKeeps
<1>4. CASE UNCHANGED vars
  <2>1. UNCHANGED <<Stable, pc, documents, flags, inputs, control>>
    BY <1>4 DEF vars, Stable
  <2>2. TypeOK'
    BY <1>4 DEF IInv, TypeOK, vars, maps, documents, flags, inputs, control, published, disk, bounds
  <2>3. DocumentsThere' /\ SignalPending'
    <3>1. DocumentsThere'
      BY <2>1 DEF IInv, DocumentsThere, documents, flags, Stable
    <3>2. SignalPending'
      BY <2>1 DEF IInv, SignalPending, inputs, control
    <3> QED BY <3>1, <3>2
  <2>4. UNCHANGED Stable /\ UNCHANGED listReady /\ UNCHANGED pc
    BY <2>1 DEF documents
  <2> QED BY <2>2, <2>3, <2>4, StableKeeps DEF IInv
<1> QED BY <1>1, <1>2, <1>3, <1>4 DEF Next

\* The inductive invariant.
THEOREM Invariance == Spec => []IInv
BY InitIInv, StepIInv, PTL DEF Spec

-----------------------------------------------------------------------------
(* What the invariant gives *)

\* Every variable has its type in every reachable state.
THEOREM TypeCorrect == Spec => []TypeOK
BY Invariance, PTL DEF IInv

\* The two maps agree with each other, with the current manifest and with the timeline,
\* whatever lists, manifests, timer expiries and crashes came before.
THEOREM MapsConsistent ==
    Spec => [](OneSchemePerId /\ LoadedSchemesMatchManifest /\ TimelineCoversSchemes)
<1>1. IInv => OneSchemePerId /\ LoadedSchemesMatchManifest /\ TimelineCoversSchemes
  BY DEF IInv
<1> QED BY <1>1, Invariance, PTL

\* Both in one: the types, and the maps that agree with each other and with the manifest.
THEOREM MapsSafe == Spec => []MapsAgree
<1>1. IInv => MapsAgree
  BY DEF IInv, MapsAgree
<1> QED BY <1>1, Invariance, PTL

\* The timeline agrees with the maps, through clean-ups, obsolete entries and reschedulings.
THEOREM TimelineSafe == Spec => []TimelineKept
<1>1. IInv => TimelineKept
  BY DEF IInv, TimelineKept
<1> QED BY <1>1, Invariance, PTL

\* The timer: one check-in is always due later, and nothing that checkTimeLine should
\* have started or stopped is left behind.
THEOREM TimerSound == Spec => [](OneCheckin /\ NothingOverdue)
<1>1. IInv => OneCheckin /\ NothingOverdue
  BY DEF IInv
<1> QED BY <1>1, Invariance, PTL

\* The hand-over of documents: no update waits while the thread sleeps without a signal.
THEOREM NoUpdateLost == Spec => []NoLostUpdate
<1>1. IInv => NoLostUpdate
  BY DEF IInv, SignalPending, NoLostUpdate
<1> QED BY <1>1, Invariance, PTL

\* The consumers' inspection matrix is of the enabled schemes whenever the thread sleeps.
THEOREM ConsumersInformed == Spec => []ConsumersKnowEnabled
<1>1. IInv => ConsumersKnowEnabled
  BY DEF IInv, MatrixUpToDate, ChangedPublished, ConsumersKnowEnabled
<1> QED BY <1>1, Invariance, PTL

\* Both hand-overs, of documents to the thread and of the matrix to the consumers.
THEOREM HandOversSafe == Spec => []HandOversKept
<1>1. NoLostUpdate /\ ConsumersKnowEnabled => HandOversKept
  BY DEF HandOversKept
<1> QED BY <1>1, NoUpdateLost, ConsumersInformed, PTL

\* The dictionary extractor never dereferences a null manifest: what is enabled has the
\* current manifest's id, and that is not the id of no manifest.
THEOREM ManifestPresent == Spec => []ManifestThere
<1>1. ASSUME IInv PROVE ManifestThere
  <2>1. SUFFICES ASSUME NEW s \in mEnabledCollectionSchemeMap PROVE mDecoderManifest # NoManifest
    BY DEF ManifestThere
  <2>2. s \in Schemes /\ s.dm = currentDecoderManifestID
    BY <1>1 DEF IInv, TypeOK, LoadedSchemesMatchManifest
  <2>3. currentDecoderManifestID # NoId
    BY <2>2, SchemeFields
  <2> QED BY <1>1, <2>3 DEF IInv, DocumentsThere
<1> QED BY <1>1, Invariance, PTL

\* The current manifest changes only together with everything that was enabled under the
\* old one, and only to a manifest that built.
THEOREM ManifestSwitchSafe == Spec => ManifestSwitch
<1> DEFINE Switch == currentDecoderManifestID' \notin {currentDecoderManifestID, NoId} =>
                        /\ mEnabledCollectionSchemeMap' \cap mEnabledCollectionSchemeMap = {}
                        /\ manifestReady'
<1>1. IInv /\ [Next]_vars => [Switch]_vars
  <2> SUFFICES ASSUME IInv, Next PROVE Switch
    OBVIOUS
  <2>1. CASE ManifestStep
    BY <2>1, ManifestMaps
  <2>2. CASE ~ManifestStep
    <3>1. currentDecoderManifestID' \in {currentDecoderManifestID, NoId}
      BY <2>2 DEF Next, Worker, Boot, SchemesStep, TimelineStep, PublishStep, Wake,
         UpdateAvailable, onCollectionSchemeUpdate, onDecoderManifestUpdate, Stop, Tick, Crash
    <3> QED BY <3>1
  <2> QED BY <2>1, <2>2
<1> QED BY <1>1, Invariance, PTL DEF Spec, ManifestSwitch

-----------------------------------------------------------------------------
(* The disk *)

\* When writes do not fail, a step keeps the disk in line with what is in memory.
LEMMA StepDiskFollows ==
    ASSUME StoreMayFail = FALSE, IInv, DiskFollows, [Next]_vars
    PROVE  DiskFollows'
<1> USE DEF DiskFollows, DiskCoversLoaded
<1>1. CASE ManifestStep
  <2>1. diskList' = diskList /\ UNCHANGED <<listReady, mCollectionSchemeList>>
    BY <1>1 DEF ManifestStep, processDecoderManifest, StoreManifest, disk
  <2>2. currentDecoderManifestID' # NoId =>
            diskManifest' \in Manifests /\ diskManifest'.id = currentDecoderManifestID'
    <3>1. CASE diskManifest' = diskManifest /\ currentDecoderManifestID' = currentDecoderManifestID
      BY <3>1
    <3>2. CASE mProcessDecoderManifest /\ NewManifest
      <4>1. diskManifest' = mDecoderManifest /\ currentDecoderManifestID' = mDecoderManifest.id
        BY <1>1, <3>2 DEF ManifestStep, processDecoderManifest, StoreManifest
      <4>2. currentDecoderManifestID' # currentDecoderManifestID
        BY <3>2, <4>1 DEF NewManifest
      <4> QED BY <1>1, <4>1, <4>2, ManifestMaps
    <3> QED BY <1>1, <3>1, <3>2 DEF ManifestStep, processDecoderManifest, disk
  <2>3. isCollectionSchemeLoaded' =>
            /\ diskList' \notin {NoList, CorruptList}
            /\ Ids(mIdleCollectionSchemeMap' \cup mEnabledCollectionSchemeMap') \subseteq Ids(Built(diskList'))
    <3>1. CASE Loaded' \subseteq Loaded
      BY <2>1, <3>1 DEF Loaded, isCollectionSchemeLoaded, Ids
    <3>2. CASE listReady
      <4>1. diskList = mCollectionSchemeList /\ diskList \notin {NoList, CorruptList}
        BY <3>2 DEF IInv, DocumentsThere
      <4>2. Loaded' \subseteq Loaded \cup Built(mCollectionSchemeList)
        BY <1>1, ManifestMaps
      <4> QED BY <2>1, <4>1, <4>2 DEF Loaded, isCollectionSchemeLoaded, Ids
    <3> QED BY <1>1, <3>1, <3>2, ManifestMaps
  <2> QED BY <2>1, <2>2, <2>3
<1>2. CASE SchemesStep
  <2>1. UNCHANGED <<currentDecoderManifestID, mCollectionSchemeList>>
    BY <1>2 DEF SchemesStep
  <2>2. CASE UNCHANGED <<maps, listReady, disk>>
    BY <2>1, <2>2 DEF maps, disk, isCollectionSchemeLoaded, Ids
  <2>3. CASE /\ mCollectionSchemeList \notin {NoList, CorruptList}
             /\ listReady' /\ StoreList
             /\ Ids(Loaded') \subseteq Ids(Built(mCollectionSchemeList))
    <3>1. diskList' = mCollectionSchemeList /\ diskManifest' = diskManifest
      BY <2>3 DEF StoreList
    <3> QED BY <2>1, <2>3, <3>1 DEF Loaded
  <2> QED BY <1>2, <2>2, <2>3, SchemesMaps
<1>3. CASE TimelineStep
  <2>1. UNCHANGED <<currentDecoderManifestID, documents, disk>> /\ Loaded' \subseteq Loaded
    BY <1>3, InvMaps, TimelineKeeps DEF TimelineStep
  <2> QED BY <2>1 DEF documents, disk, Loaded, isCollectionSchemeLoaded, Ids
<1>4. CASE Boot \/ Crash
  <2>1. CASE Boot
    BY <2>1 DEF Boot, IInv, BootEmpty, disk, isCollectionSchemeLoaded
  <2>2. CASE Crash
    BY <2>2 DEF Crash, isCollectionSchemeLoaded
  <2> QED BY <1>4, <2>1, <2>2
<1>5. CASE UpdateAvailable
  BY <1>5 DEF UpdateAvailable, maps, disk, isCollectionSchemeLoaded, Ids
<1>6. CASE UNCHANGED <<maps, currentDecoderManifestID, documents, disk>>
  BY <1>6 DEF maps, documents, disk, isCollectionSchemeLoaded, Ids
<1>7. ASSUME ~(Boot \/ ManifestStep \/ SchemesStep \/ TimelineStep \/ UpdateAvailable \/ Crash)
      PROVE  UNCHANGED <<maps, currentDecoderManifestID, documents, disk>>
  BY <1>7 DEF Next, Worker, PublishStep, Wake, onCollectionSchemeUpdate,
              onDecoderManifestUpdate, Stop, Tick, vars
<1> QED BY <1>1, <1>2, <1>3, <1>4, <1>5, <1>6, <1>7

\* If writes do not fail, a process that dies between two steps finds on its disk the
\* current manifest and every scheme that was loaded.
THEOREM DiskRecovers == ASSUME StoreMayFail = FALSE PROVE Spec => []DiskCoversLoaded
<1>1. Init => DiskFollows
  BY DEF Init, DiskFollows, DiskCoversLoaded, isCollectionSchemeLoaded
<1>2. IInv /\ DiskFollows /\ [Next]_vars => DiskFollows'
  BY StepDiskFollows
<1>3. DiskFollows => DiskCoversLoaded
  BY DEF DiskFollows
<1> QED BY <1>1, <1>2, <1>3, Invariance, PTL DEF Spec
=============================================================================
