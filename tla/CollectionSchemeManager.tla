---------------------- MODULE CollectionSchemeManager ----------------------
(***************************************************************************)
(* The collection scheme manager: the thread that owns the idle and the    *)
(* enabled collection schemes, the timeline of their start and stop times, *)
(* the current decoder manifest and the periodic check-in.                 *)
(*                                                                         *)
(* Two callbacks, run by the MQTT thread under mSchemaUpdateMutex, hand it *)
(* new documents; its own loop (doWork) consumes them, edits the maps and  *)
(* the timeline, publishes the inspection matrix and decoder dictionary to *)
(* the consumers, and sleeps until the top of the timeline or a signal.    *)
(* Documents are written to the persistency partition and read back when   *)
(* the process starts again.                                               *)
(*                                                                         *)
(* A document is abstracted to what the manager's control depends on: a    *)
(* scheme has an id, a manifest id and two times; a manifest has an id, a  *)
(* revision (its content) and whether its build() succeeds.                *)
(***************************************************************************)
EXTENDS Integers, FiniteSets

CONSTANTS
    Schemes,         \* the collection schemes the cloud may put in a list
    Manifests,       \* the decoder manifests the cloud may send
    CheckinInterval, \* mCheckinIntervalInMsec
    RetryInterval,   \* RETRY_CHECKIN_INTERVAL_IN_MILLISECOND
    StoreMayFail,    \* whether CacheAndPersist::write may report an error
    NoList,          \* a null mCollectionSchemeList, an empty list file
    CorruptList,     \* a list whose bytes do not parse
    NoManifest,      \* a null mDecoderManifest, an empty manifest file
    CorruptManifest, \* a manifest file torn by a crash or a failed write
    MaxTime,         \* bound: the clock stops here
    MaxUpdates,      \* bound: documents received from the cloud
    MaxCrashes       \* bound: crashes of the process

\* The empty string, the id of no manifest.
NoId == "none"
\* The id the timeline uses for the check-in; scheme ids sort after it.
CHECKIN == 0

SchemeType == [id : Nat \ {CHECKIN}, dm : STRING \ {NoId}, start : Nat, stop : Nat]
ManifestType == [id : STRING \ {NoId}, rev : Nat, ok : BOOLEAN]

ASSUME SchemesAssumption == Schemes \subseteq SchemeType
ASSUME ManifestsAssumption ==
    /\ Manifests \subseteq ManifestType
    /\ CorruptManifest \in [id : {NoId}, rev : Nat, ok : {FALSE}]
    /\ \A m \in Manifests \cup {CorruptManifest} : m # NoManifest
ASSUME IntervalAssumption ==
    /\ CheckinInterval \in Nat \ {0}
    /\ RetryInterval \in Nat \ {0}
    /\ StoreMayFail \in BOOLEAN
ASSUME ListAssumption ==
    /\ NoList # CorruptList
    /\ \A S \in SUBSET Schemes : S # NoList /\ S # CorruptList
ASSUME BoundAssumption == MaxTime \in Nat /\ MaxUpdates \in Nat /\ MaxCrashes \in Nat

\* The cloud gives every scheme of one list an id of its own.
Lists == {S \in SUBSET Schemes : \A s, t \in S : s.id = t.id => s = t}

VARIABLES
    pc,                          \* where doWork is
    clock,                       \* mClock->timeSinceEpochMs()
    checkTime,                   \* doWork's local of that name
    mIdleCollectionSchemeMap,    \* set of schemes, at most one of an id
    mEnabledCollectionSchemeMap,
    mTimeLine,
    currentDecoderManifestID,
    mCollectionSchemeList, listReady,  \* the list, and its mReady
    mDecoderManifest, manifestReady,   \* the manifest, and its mReady
    mProcessCollectionScheme, mProcessDecoderManifest,
    listInput, manifestInput,    \* the inputs, null when not "available"
    mNotify,                     \* the flag inside mWait
    mShouldStop,
    changed,                     \* enabledCollectionSchemeMapChanged
    matrix,                      \* schemes of the last inspection matrix published
    dictionary,                  \* manifest the last dictionary was extracted from
    diskList, diskManifest,      \* the two files of the persistency partition
    updates, crashes             \* bounds

maps == <<mIdleCollectionSchemeMap, mEnabledCollectionSchemeMap, mTimeLine>>
documents == <<mCollectionSchemeList, listReady, mDecoderManifest, manifestReady>>
flags == <<mProcessCollectionScheme, mProcessDecoderManifest>>
inputs == <<listInput, manifestInput>>
published == <<matrix, dictionary>>
disk == <<diskList, diskManifest>>
control == <<mNotify, mShouldStop>>
bounds == <<updates, crashes>>
vars == <<pc, clock, checkTime, maps, currentDecoderManifestID, documents, flags, inputs,
          control, changed, published, disk, bounds>>

-----------------------------------------------------------------------------
(* Data *)

Ids(S) == {s.id : s \in S}

\* An entry of the heap. The code's pair has no kind: it is carried here only to
\* keep apart the two entries of a scheme that starts and stops at one time.
Entry(time, id, kind) == [time |-> time, id |-> id, kind |-> kind]
Kinds == {"start", "stop", "checkin"}
StartOf(s) == Entry(s.start, s.id, "start")
StopOf(s) == Entry(s.stop, s.id, "stop")
CheckinAt(t) == Entry(t, CHECKIN, "checkin")

\* The heap's order: pairs by time, then by id.
Before(e, f) == e.time < f.time \/ (e.time = f.time /\ e.id <= f.id)

\* CollectionSchemeIngestionList::build drops each scheme whose own build fails.
Built(list) == {s \in list : s.start <= s.stop}
\* getCollectionSchemes() answers an empty list until build() succeeded.
CurrentSchemes == IF listReady THEN Built(mCollectionSchemeList) ELSE {}

isCollectionSchemeLoaded == mEnabledCollectionSchemeMap \cup mIdleCollectionSchemeMap # {}

\* Whether the loop of rebuild or update would, at time now, leave s loaded.
Live(s, now) == s.start > now \/ s.stop > now

-----------------------------------------------------------------------------
(* Start of the process, and of the thread *)

Init ==
    /\ pc = "boot"
    /\ checkTime = 0
    /\ mIdleCollectionSchemeMap = {} /\ mEnabledCollectionSchemeMap = {}
    /\ mTimeLine = {}
    /\ currentDecoderManifestID = NoId
    /\ mCollectionSchemeList = NoList /\ listReady = FALSE
    /\ mDecoderManifest = NoManifest /\ manifestReady = FALSE
    /\ mProcessCollectionScheme = FALSE /\ mProcessDecoderManifest = FALSE
    /\ listInput = NoList /\ manifestInput = NoManifest
    /\ mNotify = FALSE /\ mShouldStop = FALSE
    /\ changed = FALSE
    /\ matrix = {} /\ dictionary = NoManifest
    /\ clock = 1
    /\ diskList = NoList /\ diskManifest = NoManifest
    /\ updates = 0 /\ crashes = 0

\* doWork before its loop: prepareCheckinTimer, and the two retrieve calls, which
\* leave everything alone when the file is empty.
Boot ==
    /\ pc = "boot"
    /\ mTimeLine' = mTimeLine \cup {CheckinAt(clock)}
    /\ mCollectionSchemeList' = diskList
    /\ mProcessCollectionScheme' = (diskList # NoList)
    /\ mDecoderManifest' = diskManifest
    /\ mProcessDecoderManifest' = (diskManifest # NoManifest)
    /\ pc' = "manifest"
    /\ UNCHANGED <<clock, checkTime, mIdleCollectionSchemeMap, mEnabledCollectionSchemeMap,
                   currentDecoderManifestID, listReady, manifestReady, inputs, control,
                   changed, published, disk, bounds>>

-----------------------------------------------------------------------------
(* The maps and the timeline *)

\* enabledCollectionSchemeMapChanged |= ret.
ReportsLast(ret) == changed' = ret
Reports(ret) == changed' = (changed \/ ret)

\* cleanupCollectionSchemes, called when something is loaded or nothing is.
CleanupKeepsEnabled(loaded) ==
    /\ mIdleCollectionSchemeMap' = {} /\ UNCHANGED <<mEnabledCollectionSchemeMap, mTimeLine>>
Cleanup(loaded) ==
    /\ mEnabledCollectionSchemeMap' = {}
    /\ mIdleCollectionSchemeMap' = {}
    /\ mTimeLine' = IF loaded THEN {e \in mTimeLine : e.id = CHECKIN} ELSE mTimeLine

\* The loop stops at the first scheme of another manifest. The list has an order of
\* the cloud's choosing: seen are the schemes before that one.
Mismatched(S, dm) == {s \in S : s.dm # dm}

\* rebuildMapsandTimeLine for the schemes S and the current manifest dm, called with
\* both maps empty; ret is its result.
Rebuild(S, dm, ret) ==
    IF Mismatched(S, dm) # {}
    THEN \E seen \in SUBSET (S \ Mismatched(S, dm)) :
            /\ Cleanup(\E s \in seen : Live(s, clock))
            /\ ret = FALSE
    ELSE LET idle == {s \in S : s.start > clock}
             enabled == {s \in S \ idle : s.stop > clock}
         IN  /\ mIdleCollectionSchemeMap' = mIdleCollectionSchemeMap \cup idle
             /\ mEnabledCollectionSchemeMap' = mEnabledCollectionSchemeMap \cup enabled
             /\ mTimeLine' = mTimeLine \cup {StartOf(s) : s \in idle}
                                       \cup {StopOf(s) : s \in idle \cup enabled}
             /\ ret = (enabled # {})

\* What updateMapsandTimeLine does with each scheme of the list, by case.
IsEnabled(s) == s.id \in Ids(mEnabledCollectionSchemeMap)
StopsNow(S) == {s \in S : IsEnabled(s) /\ s.stop <= clock}
StopMoved(S) == {s \in S : IsEnabled(s) /\ s.stop > clock
                    /\ \A e \in mEnabledCollectionSchemeMap : e.id = s.id => e.stop # s.stop}
StartsNow(S) == {s \in S : ~IsEnabled(s) /\ s.start <= clock /\ s.stop > clock}
DeferredIfEnabled(S) == {s \in S : s.start > clock}
Deferred(S) == {s \in S : ~IsEnabled(s) /\ s.start > clock
                    /\ \A i \in mIdleCollectionSchemeMap :
                          i.id = s.id => (i.start # s.start \/ i.stop # s.stop)}

\* updateMapsandTimeLine, called when something is loaded.
Update(S, dm, ret) ==
    IF Mismatched(S, dm) # {}
    THEN \E seen \in SUBSET (S \ Mismatched(S, dm)) :
            /\ Cleanup(\/ mIdleCollectionSchemeMap # {}
                       \/ \E s \in seen : Live(s, clock)
                       \/ Ids(mEnabledCollectionSchemeMap) \ Ids(StopsNow(seen)) # {})
            /\ ret = FALSE
    ELSE /\ mEnabledCollectionSchemeMap' =
               {e \in mEnabledCollectionSchemeMap :
                   e.id \in Ids(S) \ Ids(StopsNow(S) \cup StopMoved(S))}
               \cup StopMoved(S) \cup StartsNow(S)
         /\ mIdleCollectionSchemeMap' =
               {i \in mIdleCollectionSchemeMap :
                   i.id \in Ids(S) \ Ids(StartsNow(S) \cup Deferred(S))}
               \cup Deferred(S)
         /\ mTimeLine' = mTimeLine \cup {StartOf(s) : s \in Deferred(S)}
               \cup {StopOf(s) : s \in StopMoved(S) \cup StartsNow(S) \cup Deferred(S)}
         /\ ret = \/ StopsNow(S) \cup StartsNow(S) # {}
                  \/ \E e \in mEnabledCollectionSchemeMap : e.id \notin Ids(S)

\* checkTimeLine. Every entry of the past is popped: the one that matches the start of
\* an idle scheme enables it, the one that matches the stop of an enabled scheme, be it
\* enabled in this pass, disables it. Then obsolete entries at the top are dropped.
Due == {e \in mTimeLine : e.time <= clock}
Fires(id, time) == \E e \in Due : e.id = id /\ e.time = time
ToEnable == {i \in mIdleCollectionSchemeMap : Fires(i.id, i.start)}
ToDisable == {s \in mEnabledCollectionSchemeMap : Fires(s.id, s.stop)}
\* Enabled and disabled in one pass: a second entry matches, no earlier than the first.
Ephemeral == {i \in ToEnable : i.start <= i.stop /\ \E e, f \in Due :
                 e # f /\ e.id = i.id /\ f.id = i.id /\ e.time = i.start /\ f.time = i.stop}

\* Whether entry e of the timeline is one to set the timer for.
Valid(e, enabled, idle) ==
    \/ e.id = CHECKIN
    \/ \E s \in enabled : e = Entry(s.stop, s.id, e.kind)
    \/ \E s \in idle : e = Entry(s.start, s.id, e.kind)
DropInvalid(T, enabled, idle) == {e \in T : Valid(e, enabled, idle)}
DropObsolete(T, enabled, idle) ==
    {e \in T : \E v \in T : Valid(v, enabled, idle) /\ Before(v, e)}

\* The check-in is served when it is due; sendCheckin succeeds or not.
NextCheckin ==
    IF \E e \in Due : e.id = CHECKIN
    THEN {clock + CheckinInterval,
          clock + (IF RetryInterval < CheckinInterval THEN RetryInterval ELSE CheckinInterval)}
    ELSE {}

checkTimeLine ==
    IF Due = {}
    THEN UNCHANGED <<maps, changed>>
    ELSE /\ mEnabledCollectionSchemeMap' =
               (mEnabledCollectionSchemeMap \ ToDisable) \cup (ToEnable \ Ephemeral)
         /\ mIdleCollectionSchemeMap' = mIdleCollectionSchemeMap \ ToEnable
         /\ Reports(ToEnable \cup ToDisable # {})
         /\ \/ /\ NextCheckin = {}
               /\ mTimeLine' = DropObsolete(mTimeLine \ Due, mEnabledCollectionSchemeMap',
                                            mIdleCollectionSchemeMap')
            \/ \E t \in NextCheckin :
                  mTimeLine' = DropObsolete((mTimeLine \ Due) \cup {CheckinAt(t)},
                                            mEnabledCollectionSchemeMap',
                                            mIdleCollectionSchemeMap')

-----------------------------------------------------------------------------
(* Persistency: what a file may hold once write() was called on it. A failed or *)
(* interrupted write may leave nothing, bytes that do not parse, or, because    *)
(* the list is a repeated field, a list cut short.                              *)

TornManifest == {diskManifest, NoManifest, CorruptManifest}
TornList == {diskList, NoList, CorruptList} \cup (SUBSET mCollectionSchemeList \ {{}})

StoreManifest ==
    /\ diskManifest' \in {mDecoderManifest} \cup IF StoreMayFail THEN TornManifest ELSE {}
    /\ UNCHANGED diskList
StoreListNever == UNCHANGED disk
StoreList ==
    /\ diskList' \in {mCollectionSchemeList} \cup IF StoreMayFail THEN TornList ELSE {}
    /\ UNCHANGED diskManifest

-----------------------------------------------------------------------------
(* The loop of doWork *)

ManifestBuilds == mDecoderManifest.ok
ListBuilds == mCollectionSchemeList # CorruptList
NewManifest == ManifestBuilds /\ mDecoderManifest.id # currentDecoderManifestID

processDecoderManifest ==
    /\ manifestReady' = ManifestBuilds
    /\ IF ~NewManifest
       THEN UNCHANGED <<maps, currentDecoderManifestID, disk, changed>>
       ELSE /\ currentDecoderManifestID' = mDecoderManifest.id
            /\ StoreManifest
            /\ IF isCollectionSchemeLoaded
               THEN Cleanup(TRUE) /\ UNCHANGED changed
               ELSE \E ret \in BOOLEAN :
                       Rebuild(CurrentSchemes, mDecoderManifest.id, ret) /\ Reports(ret)

processCollectionScheme ==
    IF ~ListBuilds
    THEN UNCHANGED <<maps, listReady, disk, changed>>
    ELSE /\ listReady' = TRUE
         /\ StoreList
         /\ \E ret \in BOOLEAN :
               /\ Reports(ret)
               /\ IF isCollectionSchemeLoaded
                  THEN Update(Built(mCollectionSchemeList), currentDecoderManifestID, ret)
                  ELSE Rebuild(Built(mCollectionSchemeList), currentDecoderManifestID, ret)

ManifestStep ==
    /\ pc = "manifest"
    /\ pc' = "schemes"
    /\ mProcessDecoderManifest' = FALSE
    /\ IF mProcessDecoderManifest
       THEN processDecoderManifest
       ELSE UNCHANGED <<maps, currentDecoderManifestID, manifestReady, disk, changed>>
    /\ UNCHANGED <<clock, checkTime, mCollectionSchemeList, listReady, mDecoderManifest,
                   mProcessCollectionScheme, inputs, control, published, bounds>>

SchemesStep ==
    /\ pc = "schemes"
    /\ pc' = "timeline"
    /\ mProcessCollectionScheme' = FALSE
    /\ IF mProcessCollectionScheme
       THEN processCollectionScheme
       ELSE UNCHANGED <<maps, listReady, disk, changed>>
    /\ UNCHANGED <<clock, checkTime, currentDecoderManifestID, mCollectionSchemeList,
                   mDecoderManifest, manifestReady, mProcessDecoderManifest, inputs,
                   control, published, bounds>>

TimelineStep ==
    /\ pc = "timeline"
    /\ pc' = "publish"
    /\ checkTime' = clock
    /\ checkTimeLine
    /\ UNCHANGED <<clock, currentDecoderManifestID, documents, flags, inputs, control,
                   published, disk, bounds>>

\* inspectionMatrixExtractor and Updater, decoderDictionaryExtractor and Updater.
PublishStep ==
    /\ pc = "publish"
    /\ pc' = "wait"
    /\ changed' = FALSE
    /\ IF changed
       THEN /\ matrix' = mEnabledCollectionSchemeMap
            /\ dictionary' = IF manifestReady THEN mDecoderManifest ELSE NoManifest
       ELSE UNCHANGED published
    /\ UNCHANGED <<clock, checkTime, maps, currentDecoderManifestID, documents, flags,
                   inputs, control, disk, bounds>>

\* Without a wait, when the top of the timeline has passed, the signal stays set.
TimerExpired == \E e \in mTimeLine : e.time <= clock
Wake ==
    /\ pc = "wait"
    /\ \/ mNotify /\ mNotify' = FALSE
       \/ TimerExpired /\ UNCHANGED mNotify
    /\ pc' = "update"
    /\ UNCHANGED <<clock, checkTime, maps, currentDecoderManifestID, documents, flags,
                   inputs, mShouldStop, changed, published, disk, bounds>>

\* updateAvailable, then the condition of the loop.
UpdateAvailable ==
    /\ pc = "update"
    /\ IF listInput # NoList
       THEN /\ mCollectionSchemeList' = listInput
            /\ listReady' = FALSE
            /\ mProcessCollectionScheme' = TRUE
       ELSE UNCHANGED <<mCollectionSchemeList, listReady, mProcessCollectionScheme>>
    /\ IF manifestInput # NoManifest
       THEN /\ mDecoderManifest' = manifestInput
            /\ manifestReady' = FALSE
            /\ mProcessDecoderManifest' = TRUE
       ELSE UNCHANGED <<mDecoderManifest, manifestReady, mProcessDecoderManifest>>
    /\ listInput' = NoList
    /\ manifestInput' = NoManifest
    /\ pc' = IF mShouldStop THEN "stopped" ELSE "manifest"
    /\ UNCHANGED <<clock, checkTime, maps, currentDecoderManifestID, control, changed,
                   published, disk, bounds>>

Worker == \/ Boot \/ ManifestStep \/ SchemesStep \/ TimelineStep \/ PublishStep
          \/ Wake \/ UpdateAvailable

-----------------------------------------------------------------------------
(* The other threads, the clock, and the end of the process *)

CollectionSchemeUpdateSilent(list) ==
    /\ updates < MaxUpdates
    /\ updates' = updates + 1
    /\ listInput' = list
    /\ UNCHANGED <<pc, clock, checkTime, maps, currentDecoderManifestID, documents, flags,
                   manifestInput, control, changed, published, disk, crashes>>
onCollectionSchemeUpdate(list) ==
    /\ updates < MaxUpdates
    /\ updates' = updates + 1
    /\ listInput' = list
    /\ mNotify' = TRUE
    /\ UNCHANGED <<pc, clock, checkTime, maps, currentDecoderManifestID, documents, flags,
                   manifestInput, mShouldStop, changed, published, disk, crashes>>

onDecoderManifestUpdate(manifest) ==
    /\ updates < MaxUpdates
    /\ updates' = updates + 1
    /\ manifestInput' = manifest
    /\ mNotify' = TRUE
    /\ UNCHANGED <<pc, clock, checkTime, maps, currentDecoderManifestID, documents, flags,
                   listInput, mShouldStop, changed, published, disk, crashes>>

Stop ==
    /\ ~mShouldStop
    /\ mShouldStop' = TRUE
    /\ mNotify' = TRUE
    /\ UNCHANGED <<pc, clock, checkTime, maps, currentDecoderManifestID, documents, flags,
                   inputs, changed, published, disk, bounds>>

Tick ==
    /\ clock < MaxTime
    /\ clock' = clock + 1
    /\ UNCHANGED <<pc, checkTime, maps, currentDecoderManifestID, documents, flags, inputs,
                   control, changed, published, disk, bounds>>

\* The process dies and is started again; a write under way is torn.
Crash ==
    /\ crashes < MaxCrashes
    /\ crashes' = crashes + 1
    /\ diskManifest' \in {diskManifest} \cup
          IF pc = "manifest" /\ mProcessDecoderManifest /\ NewManifest
          THEN {mDecoderManifest} \cup TornManifest ELSE {}
    /\ diskList' \in {diskList} \cup
          IF pc = "schemes" /\ mProcessCollectionScheme /\ ListBuilds
          THEN {mCollectionSchemeList} \cup TornList ELSE {}
    /\ pc' = "boot"
    /\ checkTime' = 0
    /\ mIdleCollectionSchemeMap' = {} /\ mEnabledCollectionSchemeMap' = {}
    /\ mTimeLine' = {}
    /\ currentDecoderManifestID' = NoId
    /\ mCollectionSchemeList' = NoList /\ listReady' = FALSE
    /\ mDecoderManifest' = NoManifest /\ manifestReady' = FALSE
    /\ mProcessCollectionScheme' = FALSE /\ mProcessDecoderManifest' = FALSE
    /\ listInput' = NoList /\ manifestInput' = NoManifest
    /\ mNotify' = FALSE /\ mShouldStop' = FALSE
    /\ changed' = FALSE
    /\ matrix' = {} /\ dictionary' = NoManifest
    /\ UNCHANGED <<clock, updates>>

Next ==
    \/ Worker
    \/ \E list \in Lists \cup {CorruptList} : onCollectionSchemeUpdate(list)
    \/ \E manifest \in Manifests : onDecoderManifestUpdate(manifest)
    \/ Stop
    \/ Tick
    \/ Crash

\* The thread keeps being scheduled, and time passes.
Fairness == WF_vars(Worker) /\ WF_vars(Tick)
Spec == Init /\ [][Next]_vars
FairSpec == Spec /\ Fairness

-----------------------------------------------------------------------------
(* Properties *)

ListType == {NoList, CorruptList} \cup Lists
ManifestFile == Manifests \cup {NoManifest, CorruptManifest}
EntryType == [time : Nat, id : Nat, kind : Kinds]

\* Every variable stays within the values the code's types allow.
TypeOK ==
    /\ pc \in {"boot", "manifest", "schemes", "timeline", "publish", "wait", "update", "stopped"}
    /\ clock \in Nat /\ checkTime \in Nat
    /\ mIdleCollectionSchemeMap \subseteq Schemes
    /\ mEnabledCollectionSchemeMap \subseteq Schemes
    /\ mTimeLine \subseteq EntryType
    /\ currentDecoderManifestID \in {NoId} \cup {m.id : m \in Manifests}
    /\ mCollectionSchemeList \in ListType /\ listReady \in BOOLEAN
    /\ mDecoderManifest \in ManifestFile /\ manifestReady \in BOOLEAN
    /\ mProcessCollectionScheme \in BOOLEAN /\ mProcessDecoderManifest \in BOOLEAN
    /\ listInput \in ListType /\ manifestInput \in ManifestFile
    /\ mNotify \in BOOLEAN /\ mShouldStop \in BOOLEAN /\ changed \in BOOLEAN
    /\ matrix \subseteq Schemes /\ dictionary \in ManifestFile
    /\ diskList \in ListType /\ diskManifest \in ManifestFile
    /\ updates \in Nat /\ crashes \in Nat

\* The two maps never hold one id twice, alone or together: a scheme that was in both
\* would be looked up as enabled and its idle copy never started nor dropped.
OneSchemePerId ==
    \A s, t \in mIdleCollectionSchemeMap \cup mEnabledCollectionSchemeMap :
        /\ s.id = t.id => s = t
        /\ ~(s \in mIdleCollectionSchemeMap /\ s \in mEnabledCollectionSchemeMap)

\* Whatever the order lists and manifests arrive in, no scheme of another manifest than
\* the current one stays loaded: its signal ids would be decoded with the wrong rules.
LoadedSchemesMatchManifest ==
    \A s \in mIdleCollectionSchemeMap \cup mEnabledCollectionSchemeMap :
        s.dm = currentDecoderManifestID

\* The timeline holds the timer of everything loaded, whatever updates, clean-ups and
\* obsolete entries went through it: the stop of an enabled scheme, both times of an
\* idle one. Without its entry a scheme would never start or run for ever.
TimelineCoversSchemes ==
    /\ \A s \in mEnabledCollectionSchemeMap : \E e \in mTimeLine : e = StopOf(s)
    /\ \A s \in mIdleCollectionSchemeMap : StartOf(s) \in mTimeLine /\ StopOf(s) \in mTimeLine

\* Once the thread runs there is one check-in in the timeline, never none (the check-in
\* would stop for good) and never two; clean-ups and reschedulings keep it.
OneCheckin ==
    pc # "boot" => \E e \in mTimeLine : \A f \in mTimeLine : f.id = CHECKIN <=> f = e

\* When checkTimeLine has run, no enabled scheme is past its stop time and no idle one
\* past its start time, as of the time it was given.
NothingOverdue ==
    pc \in {"publish", "wait", "update", "stopped"} =>
        /\ \A s \in mEnabledCollectionSchemeMap : s.stop > checkTime
        /\ \A s \in mIdleCollectionSchemeMap : s.start > checkTime

\* While the thread sleeps a document that was handed over has set its signal, however
\* the hand-over interleaved with the previous wake-up.
NoLostUpdate ==
    pc = "wait" /\ (listInput # NoList \/ manifestInput # NoManifest) => mNotify

\* While the thread sleeps the consumers work with the ids that are enabled, except
\* that a clean-up (which is not published) may have emptied the enabled map.
ConsumersKnowEnabled ==
    pc = "wait" => \/ mEnabledCollectionSchemeMap = {}
                   \/ Ids(matrix) = Ids(mEnabledCollectionSchemeMap)

\* Whatever lists, manifests, timers and crashes came before, the two maps hold each id once
\* and only schemes of the current manifest; everything has its type.
MapsAgree == TypeOK /\ OneSchemePerId /\ LoadedSchemesMatchManifest

\* The timeline and the maps agree: everything loaded has its timer, there is one check-in,
\* and what checkTimeLine should have started or stopped is not left behind.
TimelineKept == TimelineCoversSchemes /\ OneCheckin /\ NothingOverdue

\* While the thread sleeps nothing that was handed over to it is overlooked, and what it
\* handed over to the consumers is what is enabled.
HandOversKept == NoLostUpdate /\ ConsumersKnowEnabled

\* The manifest that dictionaries are extracted from is there whenever a scheme is
\* enabled: decoderDictionaryExtractor dereferences it without a test.
ManifestThere == mEnabledCollectionSchemeMap # {} => mDecoderManifest # NoManifest

\* If writes do not fail, a process that dies here finds on its disk the current
\* manifest's id and every id that was loaded, also when an earlier crash tore a file in
\* the middle of a write. (The write that tears truncates first: it may lose both versions.)
DiskCoversLoaded ==
    /\ currentDecoderManifestID # NoId =>
          /\ diskManifest \in Manifests
          /\ diskManifest.id = currentDecoderManifestID
    /\ isCollectionSchemeLoaded =>
          /\ diskList \notin {NoList, CorruptList}
          /\ Ids(mIdleCollectionSchemeMap \cup mEnabledCollectionSchemeMap) \subseteq Ids(Built(diskList))

\* The strengthening under which the properties above are inductive.
BootEmpty ==
    pc = "boot" => /\ mIdleCollectionSchemeMap \cup mEnabledCollectionSchemeMap = {}
                   /\ mTimeLine = {}
                   /\ ~listReady /\ currentDecoderManifestID = NoId
LoadedWellFormed ==
    \A s \in mIdleCollectionSchemeMap \cup mEnabledCollectionSchemeMap : s.start <= s.stop
DocumentsThere ==
    /\ mProcessCollectionScheme \/ listReady => mCollectionSchemeList # NoList
    /\ listReady => mCollectionSchemeList # CorruptList
    /\ mProcessDecoderManifest \/ currentDecoderManifestID # NoId => mDecoderManifest # NoManifest
SignalPending ==
    pc # "update" /\ (listInput # NoList \/ manifestInput # NoManifest) => mNotify
MatrixUpToDate ==
    \/ changed
    \/ mEnabledCollectionSchemeMap = {}
    \/ Ids(matrix) = Ids(mEnabledCollectionSchemeMap)
ChangedPublished == pc \in {"wait", "update", "stopped"} => ~changed
IInv ==
    /\ TypeOK /\ BootEmpty
    /\ OneSchemePerId /\ LoadedSchemesMatchManifest /\ LoadedWellFormed
    /\ TimelineCoversSchemes /\ OneCheckin /\ NothingOverdue
    /\ DocumentsThere /\ SignalPending /\ MatrixUpToDate /\ ChangedPublished
\* With writes that do not fail, what is in memory is on the disk.
DiskFollows ==
    /\ listReady => diskList = mCollectionSchemeList
    /\ DiskCoversLoaded

\* A step changes the current manifest only if it leaves nothing enabled of the old one,
\* and never to a manifest whose build failed.
ManifestSwitch ==
    [][currentDecoderManifestID' \notin {currentDecoderManifestID, NoId} =>
          /\ mEnabledCollectionSchemeMap' \cap mEnabledCollectionSchemeMap = {}
          /\ manifestReady']_vars

\* A document that was handed over is taken up, unless the thread is being stopped.
UpdatesTaken ==
    /\ listInput # NoList ~> listInput = NoList \/ mShouldStop
    /\ manifestInput # NoManifest ~> manifestInput = NoManifest \/ mShouldStop

\* An enabled scheme does not stay enabled past its stop time.
ExpiredDisabled ==
    \A s \in Schemes :
        s \in mEnabledCollectionSchemeMap /\ s.stop <= MaxTime
            ~> s \notin mEnabledCollectionSchemeMap \/ mShouldStop

\* The thread keeps up: documents are taken up and schemes end on time, however updates,
\* retries and timers interleave.
KeepsUp == UpdatesTaken /\ ExpiredDisabled

-----------------------------------------------------------------------------
(* What the comments and messages of the code say and the code does not do *)

\* "returns true when mEnabledCollectionSchemeMap changes", of processDecoderManifest.
ManifestStepReports ==
    [][pc = "manifest" /\ pc' = "schemes" /\ mEnabledCollectionSchemeMap' # mEnabledCollectionSchemeMap
          => changed']_vars

\* "Returns true when mEnabledCollectionSchemeMap changes", of updateMapsandTimeLine.
SchemesStepReports ==
    [][pc = "schemes" /\ pc' = "timeline" /\ mEnabledCollectionSchemeMap' # mEnabledCollectionSchemeMap
          => changed']_vars

\* "If found in idle map, just go ahead update the start or stop time in case of any
\* change": after a list was processed, idle schemes have the times of the list.
IdleTimesUpdated ==
    [][pc = "schemes" /\ pc' = "timeline" /\ mProcessCollectionScheme /\ listReady'
          => \A i \in mIdleCollectionSchemeMap', s \in mCollectionSchemeList :
                i.id = s.id => i.start = s.start /\ i.stop = s.stop]_vars

\* "Ignoring new decoder manifest with same name": dictionaries come from the manifest
\* that was accepted, which is the one persisted.
SameNameIgnored ==
    pc = "wait" /\ matrix # {} /\ matrix = mEnabledCollectionSchemeMap => dictionary = diskManifest

=============================================================================
