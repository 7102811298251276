--------------------------- MODULE PersistedUpload ---------------------------
(***************************************************************************)
(* The upload of collected data: the engine's thread hands each payload to *)
(* the AwsIotChannel, which publishes it or, without a connection or       *)
(* without memory, has the PayloadManager append it to the payload file;   *)
(* from time to time the same thread reads the whole file back, transmits  *)
(* payload after payload and erases the file when none failed.             *)
(*                                                                         *)
(* A payload is a name of size one. The file is a sequence of records; a   *)
(* record that a crash or a failed write cut short is torn, and what the   *)
(* parser makes of the bytes from there on is left open.                   *)
(***************************************************************************)
EXTENDS Integers, Sequences, SequencesExt

CONSTANTS
    Payloads,           \* what the data senders collect, each once
    Persisted,          \* the payloads whose scheme asks for persistency
    Capacity,           \* records that fit into the partition
    MemoryLimit,        \* mMaximumIotSDKHeapMemoryBytes; 0 stands for no limit
    RetryPeriodically,  \* mPersistencyUploadRetryIntervalMs > 0
    WritesTear,         \* whether the disk fails: a write is cut short, or nothing is written,
                        \* read or erased
    Garbage,            \* what is parsed from a torn record
    EmptyPayload        \* a torn record without any payload bytes

ASSUME PersistedAssumption == Persisted \subseteq Payloads
ASSUME ParsedAssumption ==
    Garbage \notin Payloads /\ EmptyPayload \notin Payloads /\ Garbage # EmptyPayload
ASSUME LimitAssumption ==
    /\ Capacity \in Nat /\ MemoryLimit \in Nat
    /\ RetryPeriodically \in BOOLEAN /\ WritesTear \in BOOLEAN

VARIABLES
    pc,                         \* the engine thread: in "collect", or "upload"-ing the file
    collected,                  \* payloads handed to the channel so far
    file,                       \* the payload file: a sequence of records
    batch,                      \* retrieved payloads still to transmit
    uploadedPersistedDataOnce,
    alive,                      \* mConnectivityModule->isAlive()
    reserved,                   \* the memory manager's reserved memory
    inFlight,                   \* publishes the SDK has not completed
    sent,                       \* history: how often each payload was handed to the SDK since
                                \* the last round or erase that failed, and the last crash
    handed                      \* history: the payloads that were ever handed to the SDK

uploadVars == <<pc, collected, file, batch, uploadedPersistedDataOnce, alive, reserved, inFlight,
                sent, handed>>

Record(p, whole) == [payload |-> p, whole |-> whole]
Records == [payload : Payloads, whole : BOOLEAN]
IsTorn(r) == ~r.whole
Unsent == [p \in Payloads |-> 0]
Stored(f) == {r.payload : r \in {q \in ToSet(f) : q.whole}}

UploadInit ==
    /\ pc = "collect"
    /\ collected = {}
    /\ file = <<>> /\ batch = <<>>
    /\ uploadedPersistedDataOnce = FALSE
    /\ alive = FALSE
    /\ reserved = 0 /\ inFlight = 0
    /\ sent = Unsent /\ handed = {}

-----------------------------------------------------------------------------
(* AwsIotChannel::send and PayloadManager::storeData *)

\* The reservation for one payload is given back at once when it exceeds the limit.
Accepts == alive /\ (MemoryLimit = 0 \/ reserved + 1 <= MemoryLimit)

Publish(p) ==
    /\ reserved' = reserved + 1
    /\ inFlight' = inFlight + 1
    /\ sent' = [q \in Payloads |-> IF q = p THEN sent[q] + 1 ELSE sent[q]]
    /\ handed' = handed \cup ({p} \cap Payloads)

\* No connection, or QuotaReached.
RefuseKeepsReserved ==
    /\ reserved' = IF alive THEN reserved + 1 ELSE reserved
    /\ UNCHANGED inFlight
Refuse == UNCHANGED <<reserved, inFlight>>

\* CacheAndPersist::write of a payload appends.
Store(p) ==
    IF Len(file) >= Capacity
    THEN file' = file
    ELSE \/ file' = Append(file, Record(p, TRUE))
         \/ WritesTear /\ file' \in {file, Append(file, Record(p, FALSE))}

\* send() of p; persist is the flag of its parameters.
Send(p, persist) ==
    \/ Accepts /\ Publish(p) /\ UNCHANGED file
    \/ /\ ~Accepts /\ Refuse /\ UNCHANGED <<sent, handed>>
       /\ IF persist THEN Store(p) ELSE UNCHANGED file

\* The SDK's callback onPublishComplete.
PublishComplete ==
    /\ inFlight > 0
    /\ inFlight' = inFlight - 1
    /\ reserved' = reserved - 1
    /\ UNCHANGED <<pc, collected, file, batch, uploadedPersistedDataOnce, alive, sent, handed>>

-----------------------------------------------------------------------------
(* The engine's loop *)

\* consume_all hands the collected data to DataCollectionSender::send.
Collect(p) ==
    /\ pc = "collect"
    /\ p \notin collected
    /\ collected' = collected \cup {p}
    /\ Send(p, p \in Persisted)
    /\ UNCHANGED <<pc, batch, uploadedPersistedDataOnce, alive>>

\* PayloadManager::retrieveData on a file f: payloads in order as far as records are
\* whole. From a torn record on, the header's size reaches beyond the record.
Parses(f) ==
    LET bad == SelectInSeq(f, IsTorn)
        names(g) == [i \in DOMAIN g |-> g[i].payload]
    IN  IF bad = 0
        THEN {names(f)}
        ELSE {Append(names(SubSeq(f, 1, bad - 1)), x) : x \in {Garbage, EmptyPayload}}

\* Until the first upload of the process the retry is fast, then it is as configured.
RetryOnce == ~uploadedPersistedDataOnce
RetryDue == RetryPeriodically \/ ~uploadedPersistedDataOnce

\* checkAndSendRetrievedData up to the first transmission, the timer having expired.
RetrieveNothing ==
    /\ pc = "collect" /\ RetryDue /\ alive
    /\ file = <<>>
    /\ ~uploadedPersistedDataOnce
    /\ uploadedPersistedDataOnce' = TRUE
    /\ UNCHANGED <<pc, collected, file, batch, alive, reserved, inFlight, sent, handed>>

Retrieve ==
    /\ pc = "collect" /\ RetryDue /\ alive
    /\ file # <<>>
    /\ batch' \in Parses(file)
    /\ pc' = "upload"
    /\ UNCHANGED <<collected, file, uploadedPersistedDataOnce, alive, reserved, inFlight, sent,
                   handed>>

\* The file cannot be read, or what follows a torn record cannot be uncompressed
\* (INVALID_DATA): nothing is handed over, and the timer starts anew.
RetrieveFails ==
    /\ pc = "collect" /\ RetryDue /\ alive
    /\ WritesTear /\ file # <<>>
    /\ UNCHANGED uploadVars

\* transmit(payload) sends with default parameters: a payload that is refused is not
\* persisted again. An empty one is WrongInputData.
Transmit ==
    /\ pc = "upload" /\ batch # <<>>
    /\ Head(batch) # EmptyPayload /\ Accepts
    /\ Send(Head(batch), FALSE)
    /\ batch' = Tail(batch)
    /\ UNCHANGED <<pc, collected, uploadedPersistedDataOnce, alive>>

\* The loop breaks at the first failure; the file stays as it is, and the next round begins
\* with its first record, however often that happens.
TransmitFailsGoesOn ==
    /\ pc = "upload" /\ batch # <<>>
    /\ Head(batch) = EmptyPayload \/ ~Accepts
    /\ batch' = <<>>
    /\ UNCHANGED <<pc, collected, file, uploadedPersistedDataOnce, alive, reserved, inFlight,
                   sent, handed>>
TransmitFails ==
    /\ pc = "upload" /\ batch # <<>>
    /\ \/ Head(batch) = EmptyPayload /\ UNCHANGED <<reserved, inFlight>>
       \/ Head(batch) # EmptyPayload /\ ~Accepts /\ Refuse
    /\ batch' = <<>>
    /\ pc' = "collect"
    /\ sent' = Unsent
    /\ UNCHANGED <<collected, file, uploadedPersistedDataOnce, alive, handed>>

\* All were transmitted: the file is truncated. The result of erase is not looked at.
Erase ==
    /\ pc = "upload" /\ batch = <<>>
    /\ pc' = "collect"
    /\ uploadedPersistedDataOnce' = TRUE
    /\ \/ file' = <<>> /\ UNCHANGED sent
       \/ WritesTear /\ UNCHANGED file /\ sent' = Unsent
    /\ UNCHANGED <<collected, batch, alive, reserved, inFlight, handed>>

-----------------------------------------------------------------------------
(* The connection, and the end of the process *)

ConnectionUp ==
    /\ ~alive
    /\ alive' = TRUE
    /\ UNCHANGED <<pc, collected, file, batch, uploadedPersistedDataOnce, reserved, inFlight,
                   sent, handed>>

ConnectionLost ==
    /\ alive
    /\ alive' = FALSE
    /\ UNCHANGED <<pc, collected, file, batch, uploadedPersistedDataOnce, reserved, inFlight,
                   sent, handed>>

\* A crash may cut the record short that was being appended.
Crash ==
    /\ \/ UNCHANGED <<file, collected>>
       \/ /\ WritesTear /\ pc = "collect" /\ ~Accepts /\ Len(file) < Capacity
          /\ \E p \in Persisted \ collected :
                /\ file' = Append(file, Record(p, FALSE))
                /\ collected' = collected \cup {p}
    /\ pc' = "collect"
    /\ batch' = <<>>
    /\ uploadedPersistedDataOnce' = FALSE
    /\ alive' = FALSE
    /\ reserved' = 0 /\ inFlight' = 0
    /\ sent' = Unsent
    /\ UNCHANGED handed

Engine == Retrieve \/ RetrieveNothing \/ RetrieveFails \/ Transmit \/ TransmitFails \/ Erase
UploadNext ==
    \/ \E p \in Payloads : Collect(p)
    \/ Engine
    \/ PublishComplete
    \/ ConnectionUp \/ ConnectionLost
    \/ Crash

\* The engine's timer goes on expiring, and the SDK completes or drops each publish.
UploadFairness == WF_uploadVars(Engine) /\ WF_uploadVars(PublishComplete)
UploadSpec == UploadInit /\ [][UploadNext]_uploadVars
UploadFairSpec == UploadSpec /\ UploadFairness

-----------------------------------------------------------------------------
(* Properties *)

UploadTypeOK ==
    /\ pc \in {"collect", "upload"}
    /\ collected \subseteq Payloads
    /\ file \in Seq(Records)
    /\ batch \in Seq(Payloads \cup {Garbage, EmptyPayload})
    /\ uploadedPersistedDataOnce \in BOOLEAN /\ alive \in BOOLEAN
    /\ reserved \in Nat /\ inFlight \in Nat
    /\ sent \in [Payloads -> Nat] /\ handed \subseteq Payloads

\* Whatever the connection, the quota and the retries do, the memory that is reserved is
\* that of the publishes under way, within the limit: no path forgets or repeats a release.
\* Everything has its type.
MemoryAccounted ==
    /\ UploadTypeOK
    /\ reserved = inFlight
    /\ MemoryLimit # 0 => reserved <= MemoryLimit

\* Nothing is repeated without cause. The file never holds one payload twice: a retry that
\* fails does not store it again; and a payload is handed over again only after a round
\* or an erase that failed, or a crash.
RepeatsNeedFailure ==
    /\ \A i, j \in DOMAIN file : file[i].payload = file[j].payload => i = j
    /\ \A p \in Payloads : sent[p] <= 1

\* Memory and payloads are accounted for together: no error path, quota or retry leaks one or
\* repeats the other.
UploadsAccounted == MemoryAccounted /\ RepeatsNeedFailure

\* What a retry makes of the file: the records before the first torn one.
Torn == SelectInSeq(file, IsTorn)
Retrievable == IF Torn = 0 THEN Stored(file) ELSE Stored(SubSeq(file, 1, Torn - 1))

\* A record goes from the file only after its payload was handed over, whichever payload
\* of its round failed, and whatever the crashes and the failed erasures.
ClearedAfterUpload ==
    [][\A p \in Retrievable : p \in Stored(file') \/ p \in handed]_uploadVars

\* More is on file than the SDK may hold at a time.
Outgrown == MemoryLimit # 0 /\ Len(file) > MemoryLimit

\* Rounds begin, again and again, when all publishes of earlier ones are completed and the
\* file can be read. The timer that starts a round runs for seconds.
QuietRounds ==
    /\ []<>(pc = "collect" /\ inFlight = 0)
    /\ SF_uploadVars(Retrieve /\ inFlight = 0)

\* If the connection comes to stay and such rounds begin, every payload that was stored is
\* handed over, unless a write tears the file meanwhile or the file outgrows the memory: then a
\* round never comes to its last record. Rounds may fail at any place, any number of times.
StoredUploaded ==
    <>[]alive /\ QuietRounds =>
        \A p \in Payloads :
            p \in Stored(file) ~> p \in handed \/ Torn # 0 \/ Outgrown

-----------------------------------------------------------------------------
(* What the documents say and the code does not do *)

\* "After successfully uploading, the persisted signal data will be cleared": so too what
\* lies behind a torn record.
ClearedOnlyAfterUpload ==
    [][\A p \in Stored(file) : p \in Stored(file') \/ p \in handed]_uploadVars

\* "Only signal data that could not be uploaded will be persisted": outside an upload,
\* nothing that is on the disk was handed over before.
OnlyUnsentPersisted ==
    pc = "collect" => \A p \in Stored(file) : p \notin handed

\* "Payload transmission failed, will be retried on the next bootup": with a lasting
\* connection the rounds of one process hand every stored payload over.
StoredAlwaysUploaded ==
    <>[]alive => \A p \in Payloads : p \in Stored(file) ~> p \in handed

=============================================================================
