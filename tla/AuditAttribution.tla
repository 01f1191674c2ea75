-------------------------- MODULE AuditAttribution --------------------------
(***************************************************************************)
(* The audit half of a subscription listener and the SecureD data it waits *)
(* for. A stored datasync gets an audit record; when the request came      *)
(* through SecureD, a notification with trxId = sequenceNo attributes the  *)
(* record to a marketer, who is told of a conversion by a postback. The    *)
(* two webhooks arrive in any order: a listener that finds no notification *)
(* leaves a job that looks again.                                          *)
(*                                                                         *)
(* Listeners run concurrently with one another and with the retry worker.  *)
(* The audit record is inserted and the datasync marked in one READ        *)
(* COMMITTED transaction, which the notification lookup and the retry      *)
(* queue are not part of; flags, re-read and postback come after it.       *)
(*                                                                         *)
(* One delivery of a datasync makes one IcellDatasync row, one listener,   *)
(* at most one audit record and at most one retry job; all four are        *)
(* identified by the delivery here.                                        *)
(***************************************************************************)
EXTENDS Integers, Sequences, FiniteSets

CONSTANTS
  Requests,          \* datasync requests, as the fields findFirst compares
  SecureDRequests,   \* SecureD notifications that may arrive
  Subscribers,       \* msisdns with a User row once the business half is over
  KnownTrx,          \* trxIds whose prefix belongs to a Marketer row
  Deliveries,        \* bound: datasync deliveries
  MaxSecureD,        \* bound: SecureD notifications
  MaxFaults,         \* bound: crashes and rejected calls
  Attempts           \* tries of a retry job, the first included: 3 in queueSecureDRetry

OperationTypes == {"SUBSCRIPTION", "RENEWAL", "UNSUBSCRIPTION", "UNKNOWN"}

ASSUME RequestsAssumption ==
  /\ Requests # {}
  /\ \A q \in Requests :
       /\ q.operationType \in OperationTypes
       /\ q.viaSecureD \in BOOLEAN                  \* bearerId === SECURED_NAME
       /\ q.operationType # "UNKNOWN" => q.msisdn \in Subscribers
  /\ \A s \in SecureDRequests : s.success \in BOOLEAN

None == 0

ASSUME BoundsAssumption ==
  /\ MaxSecureD \in Nat /\ MaxFaults \in Nat /\ Attempts \in Nat \ {0}
  /\ IsFiniteSet(Deliveries) /\ None \notin Deliveries

VARIABLES
  rows,       \* IcellDatasync rows: Deliveries -> [state, req]
  secureD,    \* SecureDDataSync rows in createdAt order
  run,        \* the audit half of each listener
  audits,     \* committed SubscriptionAuditRecord rows
  retry,      \* the SECURE_D_RETRY queue
  postbacks,  \* GET requests made for each audit record
  faults,     \* crashes and rejected calls so far
  overtaken,  \* history: deliveries whose retry ran before their listener ended
  unseen      \* history: deliveries that went on without their user, whose lookup failed

vars == <<rows, secureD, run, audits, retry, postbacks, faults, overtaken, unseen>>

----------------------------------------------------------------------------
(* Matching a request with SecureD notifications                           *)

Req(d) == rows[d].req

\* findSecureDData, findMatchingSecureDNotification and the retry's lookup.
Matching(q) ==
  {i \in DOMAIN secureD :
     /\ secureD[i].trxId = q.sequenceNo
     /\ secureD[i].msisdn = q.msisdn
     /\ secureD[i].product = q.product}

Newest(S) == IF S = {} THEN None ELSE CHOOSE i \in S : \A k \in S : k <= i

\* resolveMarketer: by the prefix of the notification's trxId.
HasMarketer(i) == i # None /\ secureD[i].trxId \in KnownTrx

\* activation === '1' and description is "success". The mutant takes any match.
ConvertedByMatch(i) == i # None
Converted(i) == i # None /\ secureD[i].success

\* isAcquisition, with the marketer the caller resolved. The mutant does without.
AcquiredUnmarketed(q, marketed) ==
  /\ q.operationType = "SUBSCRIPTION"
  /\ \E e \in Deliveries :
       /\ audits[e].exists
       /\ Req(e) = q
       /\ audits[e].secured # None
Acquired(q, marketed) ==
  /\ marketed
  /\ q.operationType = "SUBSCRIPTION"
  /\ \E e \in Deliveries :
       /\ audits[e].exists
       /\ Req(e).msisdn = q.msisdn
       /\ Req(e).operationType = "SUBSCRIPTION"
       /\ Req(audits[e].row).viaSecureD
       /\ Req(audits[e].row).sequenceNo = q.sequenceNo
       /\ audits[e].secured # None
       /\ secureD[audits[e].secured].trxId = q.sequenceNo
Churned(q) == q.operationType = "UNSUBSCRIPTION"

\* icellDatasync.findFirst compares six fields and orders by none: among
\* duplicates, any row. The mutant compares callingParty alone.
SameCaller(q) == {e \in Deliveries : rows[e].state # "none" /\ Req(e).msisdn = q.msisdn}
DatasyncRows(q) == {e \in Deliveries : rows[e].state # "none" /\ Req(e) = q}

----------------------------------------------------------------------------
(* Records and jobs                                                        *)

AnyRequest == CHOOSE q \in Requests : TRUE
NotStarted == [pc |-> "none", context |-> None, match |-> None, row |-> None, comment |-> "none"]

Ended == [NotStarted EXCEPT !.pc = "done"]

NoAudit == [exists |-> FALSE, row |-> None, marketer |-> FALSE, secured |-> None,
            converted |-> FALSE, acquired |-> FALSE, churned |-> FALSE, comment |-> "none"]

MaxStalled == 1
NoJob == [state |-> "none", made |-> 0, stalled |-> 0, seen |-> None]
Completed == [NoJob EXCEPT !.state = "completed"]
Held(job) == job.state \in {"link", "flags", "get", "note"}
RetriedForever(job) == [job EXCEPT !.made = @ + 1, !.state = "waiting", !.seen = None]
Retried(job) ==
  [job EXCEPT !.made = @ + 1, !.seen = None,
              !.state = IF job.made + 1 < Attempts THEN "waiting" ELSE "failed"]
Stalled(job) ==
  IF ~Held(job) THEN job
  ELSE IF job.stalled < MaxStalled
       THEN [job EXCEPT !.stalled = @ + 1, !.state = "waiting", !.seen = None]
       ELSE [job EXCEPT !.state = "failed", !.seen = None]

Init ==
  /\ rows = [d \in Deliveries |-> [state |-> "none", req |-> AnyRequest]]
  /\ secureD = << >>
  /\ run = [d \in Deliveries |-> NotStarted]
  /\ audits = [d \in Deliveries |-> NoAudit]
  /\ retry = [d \in Deliveries |-> NoJob]
  /\ postbacks = [d \in Deliveries |-> 0]
  /\ faults = 0
  /\ overtaken = {}
  /\ unseen = {}

----------------------------------------------------------------------------
(* The two webhooks                                                        *)

\* The datasync is stored and its listener started; the time until the business
\* half is over is the time the listener waits at "context".
StoreDatasync(d, q) ==
  /\ rows[d].state = "none"
  /\ rows' = [rows EXCEPT ![d] = [state |-> "stored", req |-> q]]
  /\ run' = [run EXCEPT ![d].pc = "context"]
  /\ UNCHANGED <<secureD, audits, retry, postbacks, faults, overtaken, unseen>>

\* SecureDService.processNotification stores the row and does nothing else.
ProcessNotification(s) ==
  /\ Len(secureD) < MaxSecureD
  /\ secureD' = Append(secureD, s)
  /\ UNCHANGED <<rows, run, audits, retry, postbacks, faults, overtaken, unseen>>

----------------------------------------------------------------------------
(* The audit transaction of processSubscriptionEvent                       *)

At(d, pc) == run[d].pc = pc
Goto(d, pc) == run' = [run EXCEPT ![d].pc = pc]
End(d) == run' = [run EXCEPT ![d] = Ended]     \* an open transaction rolls back

\* A notification whose prefix is nobody's makes the debug message after
\* resolveMarketer read a name of null: the transaction is rolled back.
BuildContext(d) ==
  LET i == IF Req(d).viaSecureD THEN Newest(Matching(Req(d))) ELSE None IN
  /\ At(d, "context")
  /\ \/ i # None /\ ~HasMarketer(i) /\ End(d)
     \/ /\ i = None \/ HasMarketer(i)
        /\ run' = [run EXCEPT ![d].pc = "match", ![d].context = i,
                     ![d].comment = IF Req(d).viaSecureD /\ i = None THEN "pending" ELSE "complete"]
  /\ UNCHANGED <<rows, secureD, audits, retry, postbacks, faults, overtaken, unseen>>

\* No marketer in the context of a SecureD request. The mutants queue a retry
\* for every SecureD request, and only when the second lookup failed too.
NeedsRetryAlways(d) == Req(d).viaSecureD
NeedsRetryUnmatched(d) == Req(d).viaSecureD /\ run[d].match = None
NeedsRetry(d) == Req(d).viaSecureD /\ ~HasMarketer(run[d].context)

\* The second lookup, outside the transaction and with its errors taken for
\* "not found".
FindMatching(d) ==
  LET i == IF Req(d).viaSecureD THEN Newest(Matching(Req(d))) ELSE None
      Found(j) == run' = [run EXCEPT ![d].match = j, ![d].pc = "user"]
  IN
  /\ At(d, "match")
  /\ \/ Found(i) /\ UNCHANGED faults
     \/ Req(d).viaSecureD /\ faults < MaxFaults /\ Found(None) /\ faults' = faults + 1
  /\ UNCHANGED <<rows, secureD, audits, retry, postbacks, overtaken, unseen>>

\* Without a user there is no record, and queueing the retry reads the id of
\* undefined: the transaction is rolled back. Any other request is marked.
Unrecorded(d) == IF NeedsRetry(d) THEN End(d) ELSE Goto(d, "mark")

\* getUser takes the error of its lookup for "no user".
FindUser(d) ==
  LET subscriber == Req(d).msisdn \in Subscribers IN
  /\ At(d, "user")
  /\ \/ subscriber /\ Goto(d, "create") /\ UNCHANGED <<faults, unseen>>
     \/ ~subscriber /\ Unrecorded(d) /\ UNCHANGED <<faults, unseen>>
     \/ /\ subscriber /\ faults < MaxFaults
        /\ Unrecorded(d)
        /\ faults' = faults + 1
        /\ unseen' = IF NeedsRetry(d) THEN unseen ELSE unseen \cup {d}
  /\ UNCHANGED <<rows, secureD, audits, retry, postbacks, overtaken>>

\* Rows whose unique icellDataSyncId is taken, by a committed record or by one
\* whose transaction is still open.
Committed == {audits[e].row : e \in {x \in Deliveries : audits[x].exists}}
Inserted  == {run[e].row : e \in {x \in Deliveries : run[x].pc \in {"queue", "mark"}}}

\* The insert: it waits for an open transaction on the same row, and fails when
\* that row has a record already.
CreateAuditRecord(d) ==
  /\ At(d, "create")
  /\ \E e \in DatasyncRows(Req(d)) \ (Inserted \ Committed) :
       \/ e \in Committed /\ End(d)
       \/ /\ e \notin Committed
          /\ run' = [run EXCEPT ![d].pc = IF NeedsRetry(d) THEN "queue" ELSE "mark", ![d].row = e]
  /\ UNCHANGED <<rows, secureD, audits, retry, postbacks, faults, overtaken, unseen>>

\* The job is in Redis from here on, whatever becomes of the transaction.
QueueSecureDRetry(d) ==
  /\ At(d, "queue")
  /\ retry' = [retry EXCEPT ![d] = [NoJob EXCEPT !.state = "waiting"]]
  /\ Goto(d, "mark")
  /\ UNCHANGED <<rows, secureD, audits, postbacks, faults, overtaken, unseen>>

NewAudit(d) ==
  [exists |-> TRUE, row |-> run[d].row, marketer |-> HasMarketer(run[d].context),
   secured |-> run[d].match, converted |-> Converted(run[d].match),
   acquired |-> FALSE, churned |-> FALSE, comment |-> run[d].comment]

\* markDatasyncAsProcessed finds its row anew; then the commit.
MarkAndCommit(d) ==
  /\ At(d, "mark")
  /\ \E e \in DatasyncRows(Req(d)) : rows' = [rows EXCEPT ![e].state = "processed"]
  /\ \/ /\ run[d].row # None
        /\ audits' = [audits EXCEPT ![d] = NewAudit(d)]
        /\ run' = [run EXCEPT ![d].pc = "flags", ![d].row = None, ![d].comment = "none"]
     \/ /\ run[d].row = None
        /\ End(d)
        /\ UNCHANGED audits
  /\ UNCHANGED <<secureD, retry, postbacks, faults, overtaken, unseen>>

----------------------------------------------------------------------------
(* After the commit                                                        *)

SetFlags(d, marketed, i) ==
  audits' = [audits EXCEPT ![d].acquired = Acquired(Req(d), marketed),
                           ![d].churned = Churned(Req(d)),
                           ![d].converted = Converted(i)]

\* determineAcquisitionOrChurn and the update, from what the transaction saw.
WriteFlags(d) ==
  /\ At(d, "flags")
  /\ SetFlags(d, HasMarketer(run[d].context), run[d].match)
  /\ run' = [run EXCEPT ![d] = [NotStarted EXCEPT !.pc = "reread"]]
  /\ UNCHANGED <<rows, secureD, retry, postbacks, faults, overtaken, unseen>>

ReRead(d) ==
  /\ At(d, "reread")
  /\ IF Req(d).viaSecureD /\ audits[d].converted /\ audits[d].marketer
     THEN run' = [run EXCEPT ![d] = [NotStarted EXCEPT !.pc = "get", !.comment = audits[d].comment]]
     ELSE End(d)
  /\ UNCHANGED <<rows, secureD, audits, retry, postbacks, faults, overtaken, unseen>>

\* processPostback: the GET, then a comment made from the record as it was read.
GetPostback(d) ==
  /\ At(d, "get")
  /\ postbacks' = [postbacks EXCEPT ![d] = @ + 1]
  /\ Goto(d, "note")
  /\ UNCHANGED <<rows, secureD, audits, retry, faults, overtaken, unseen>>

NotePostback(d) ==
  /\ At(d, "note")
  /\ audits' = [audits EXCEPT ![d].comment = run[d].comment]
  /\ End(d)
  /\ UNCHANGED <<rows, secureD, retry, postbacks, faults, overtaken, unseen>>

\* An awaited call rejects, the business half included: processSubscriptionEvent
\* returns success: false, which nobody reads.
AuditFails(d) ==
  /\ run[d].pc \notin {"none", "done"}
  /\ faults < MaxFaults
  /\ End(d)
  /\ faults' = faults + 1
  /\ UNCHANGED <<rows, secureD, audits, retry, postbacks, overtaken, unseen>>

----------------------------------------------------------------------------
(* SecureDRetryProcessor: one job at a time, any time after it was queued   *)

MayStart(d) == retry[d].state = "waiting" /\ \A e \in Deliveries : ~Held(retry[e])
OvertakenBy(d) == IF At(d, "done") THEN overtaken ELSE overtaken \cup {d}

FindSecureD(d) ==
  /\ MayStart(d)
  /\ Matching(Req(d)) # {}
  /\ retry' = [retry EXCEPT ![d].state = "link", ![d].seen = Newest(Matching(Req(d)))]
  /\ overtaken' = OvertakenBy(d)
  /\ UNCHANGED <<rows, secureD, run, audits, postbacks, faults, unseen>>

\* Nothing found, or the lookup's error taken for that. The last attempt leaves a
\* comment; a record that does not exist makes that fail too, to the same end.
MissSecureD(d) ==
  /\ MayStart(d)
  /\ \/ Matching(Req(d)) = {} /\ UNCHANGED faults
     \/ Matching(Req(d)) # {} /\ faults < MaxFaults /\ faults' = faults + 1
  /\ retry' = [retry EXCEPT ![d] = Retried(retry[d])]
  /\ \/ /\ retry[d].made + 1 >= Attempts /\ audits[d].exists
        /\ audits' = [audits EXCEPT ![d].comment = "missing"]
     \/ /\ retry[d].made + 1 < Attempts \/ ~audits[d].exists
        /\ UNCHANGED audits
  /\ overtaken' = OvertakenBy(d)
  /\ UNCHANGED <<rows, secureD, run, postbacks, unseen>>

\* updateAuditRecordWithSecureD: an unknown marketer leaves marketerId as it is,
\* and a record not (yet) committed makes the attempt fail.
LinkSecureD(d) ==
  LET i == retry[d].seen IN
  /\ retry[d].state = "link"
  /\ \/ /\ audits[d].exists
        /\ audits' = [audits EXCEPT ![d].secured = i, ![d].comment = "attributed",
                         ![d].marketer = @ \/ HasMarketer(i)]
        /\ retry' = [retry EXCEPT ![d].state = "flags"]
     \/ /\ ~audits[d].exists
        /\ retry' = [retry EXCEPT ![d] = Retried(retry[d])]
        /\ UNCHANGED audits
  /\ UNCHANGED <<rows, secureD, run, postbacks, faults, overtaken, unseen>>

\* The retry's test before a postback; the mutant has no test of the outcome.
PostsMarketer(i) == HasMarketer(i)
PostsConversion(i) == HasMarketer(i) /\ Converted(i)

WriteRetryFlags(d) ==
  LET i == retry[d].seen IN
  /\ retry[d].state = "flags"
  /\ SetFlags(d, HasMarketer(i), i)
  /\ retry' = [retry EXCEPT ![d] = IF PostsConversion(i) THEN [@ EXCEPT !.state = "get"] ELSE Completed]
  /\ UNCHANGED <<rows, secureD, run, postbacks, faults, overtaken, unseen>>

GetRetryPostback(d) ==
  /\ retry[d].state = "get"
  /\ postbacks' = [postbacks EXCEPT ![d] = @ + 1]
  /\ retry' = [retry EXCEPT ![d].state = "note"]
  /\ UNCHANGED <<rows, secureD, run, audits, faults, overtaken, unseen>>

NoteRetryPostback(d) ==
  /\ retry[d].state = "note"
  /\ audits' = [audits EXCEPT ![d].comment = "attributed"]
  /\ retry' = [retry EXCEPT ![d] = Completed]
  /\ UNCHANGED <<rows, secureD, run, postbacks, faults, overtaken, unseen>>

\* A database call of the attempt rejects. processPostback catches its own.
RetryFails(d) ==
  /\ retry[d].state \in {"link", "flags"}
  /\ faults < MaxFaults
  /\ retry' = [retry EXCEPT ![d] = Retried(retry[d])]
  /\ faults' = faults + 1
  /\ UNCHANGED <<rows, secureD, run, audits, postbacks, overtaken, unseen>>

\* The process dies and restarts: listeners and open transactions are gone, the
\* held retry stalls.
Crash ==
  /\ faults < MaxFaults
  /\ run' = [d \in Deliveries |-> IF At(d, "none") THEN run[d] ELSE Ended]
  /\ retry' = [d \in Deliveries |-> Stalled(retry[d])]
  /\ faults' = faults + 1
  /\ UNCHANGED <<rows, secureD, audits, postbacks, overtaken, unseen>>

----------------------------------------------------------------------------

ListenerStep(d) ==
  \/ BuildContext(d) \/ FindMatching(d) \/ FindUser(d)
  \/ CreateAuditRecord(d) \/ QueueSecureDRetry(d) \/ MarkAndCommit(d)
  \/ WriteFlags(d) \/ ReRead(d) \/ GetPostback(d) \/ NotePostback(d)

RetryStep(d) ==
  \/ FindSecureD(d) \/ MissSecureD(d) \/ LinkSecureD(d)
  \/ WriteRetryFlags(d) \/ GetRetryPostback(d) \/ NoteRetryPostback(d)

Next ==
  \/ \E d \in Deliveries :
       \/ \E q \in Requests : StoreDatasync(d, q)
       \/ ListenerStep(d) \/ AuditFails(d)
       \/ RetryStep(d) \/ RetryFails(d)
  \/ \E s \in SecureDRequests : ProcessNotification(s)
  \/ Crash

Spec == Init /\ [][Next]_vars

\* The event loop resumes every listener whose call has returned and the retry
\* worker takes the jobs in turn. Webhooks and faults are not fair.
FairSpec ==
  /\ Spec
  /\ \A d \in Deliveries : WF_vars(ListenerStep(d)) /\ WF_vars(RetryStep(d))

----------------------------------------------------------------------------
(* Properties                                                              *)

Pcs == {"none", "context", "match", "user", "create", "queue", "mark", "flags",
        "reread", "get", "note", "done"}
Comments == {"none", "complete", "pending", "attributed", "missing"}
NotificationId == 0 .. Len(secureD)
DeliveryOrNone == Deliveries \cup {None}

Row == [state : {"none", "stored", "processed"}, req : Requests]
AuditRun == [pc : Pcs, context : NotificationId, match : NotificationId,
             row : DeliveryOrNone, comment : Comments]
AuditRecord == [exists : BOOLEAN, row : DeliveryOrNone, marketer : BOOLEAN,
                secured : NotificationId, converted : BOOLEAN, acquired : BOOLEAN,
                churned : BOOLEAN, comment : Comments]
RetryJob == [state : {"none", "waiting", "link", "flags", "get", "note", "completed", "failed"},
             made : 0..Attempts, stalled : 0..MaxStalled, seen : NotificationId]

\* Types; a retry that may still run has an attempt left.
TypeOK ==
  /\ rows \in [Deliveries -> Row]
  /\ secureD \in Seq(SecureDRequests)
  /\ run \in [Deliveries -> AuditRun]
  /\ audits \in [Deliveries -> AuditRecord]
  /\ retry \in [Deliveries -> RetryJob]
  /\ \A d \in Deliveries : retry[d].state # "failed" => retry[d].made < Attempts
  /\ postbacks \in [Deliveries -> Nat]
  /\ faults \in Nat
  /\ overtaken \in SUBSET Deliveries
  /\ unseen \in SUBSET Deliveries

\* A datasync is marked processed only together with an audit record, or by a
\* delivery whose failed lookup of the user passed for a missing one: with
\* duplicates, aborted transactions and crashes, no more rows of a subscriber's
\* request are marked than there are records for it and such deliveries of it.
ProcessedMeansAudited ==
  \A q \in Requests :
    LET Of(S)   == {d \in S : Req(d) = q}
        marked  == {d \in Deliveries : rows[d].state = "processed"}
        audited == {d \in Deliveries : audits[d].exists}
    IN  q.msisdn \in Subscribers =>
          Cardinality(Of(marked)) <= Cardinality(Of(audited)) + Cardinality(Of(unseen))

\* What a record says of SecureD is what a notification for the very request
\* said, however listener and retry interleave: a marketer only from the trxId,
\* a conversion only if some notification reported one, an acquisition only of
\* an attributed subscription.
NoOverclaim ==
  \A d \in Deliveries :
    LET a == audits[d] IN
    /\ a.secured # None => a.secured \in Matching(Req(d))
    /\ a.marketer => Req(d).viaSecureD /\ Req(d).sequenceNo \in KnownTrx
    /\ a.converted => \E i \in Matching(Req(d)) : secureD[i].success
    /\ a.acquired => /\ a.marketer /\ Req(d).operationType = "SUBSCRIPTION"
                     /\ Matching(Req(d)) # {}

\* Once listener and retry are over, the flags agree with the record's links,
\* unless a fault struck or the retry overtook its listener (whose flags, from
\* what its transaction saw, then win).
FlagsAgree ==
  \A d \in Deliveries \ overtaken :
    LET a == audits[d] IN
    /\ faults = 0
    /\ a.exists /\ At(d, "done") /\ ~Held(retry[d])
    => /\ a.converted = (a.secured # None /\ secureD[a.secured].success)
       /\ a.acquired = (Req(d).operationType = "SUBSCRIPTION" /\ a.marketer /\ a.secured # None)
       /\ a.churned = (Req(d).operationType = "UNSUBSCRIPTION")

\* How records and postbacks implement Conversion: what a record says of SecureD, of
\* the requests stored so far.
RecordOf(a) ==
  [kept |-> a.exists, marketer |-> a.marketer, converted |-> a.converted,
   acquired |-> a.acquired, churned |-> a.churned]
RequestOf(row) == IF row.state = "none" THEN {} ELSE {row.req}

Promise == INSTANCE Conversion WITH
  requested <- [d \in Deliveries |-> RequestOf(rows[d])],
  reported  <- {secureD[i] : i \in DOMAIN secureD},
  record    <- [d \in Deliveries |-> RecordOf(audits[d])],
  told      <- postbacks,
  failures  <- faults,
  early     <- overtaken

\* However webhooks, listeners and retries interleave, they keep the promise of
\* Conversion: what is written into a record was reported of its request by then, a
\* marketer once written stays, and only a committed, attributed and confirmed
\* conversion is posted, no more often than failures and an early retry excuse.
ImplementsConversion == Promise!ConversionSpec

\* Per record a marketer is told once; a crash may repeat it once, and so may a
\* retry that overtakes its listener.
PostbackOnce ==
  \A d \in Deliveries :
    postbacks[d] <= (IF d \in overtaken THEN 2 ELSE 1) + faults

\* While its retry has not failed, a committed record of a SecureD request whose
\* notification is there and reports success leads to a postback, unless a fault
\* strikes or the retry overtakes its listener.
ConversionIsPosted ==
  \A d \in Deliveries :
    (/\ audits[d].exists /\ Req(d).viaSecureD
     /\ retry[d].state # "failed"
     /\ Req(d).sequenceNo \in KnownTrx
     /\ Matching(Req(d)) # {} /\ \A i \in Matching(Req(d)) : secureD[i].success)
    ~> (\/ postbacks[d] > 0
        \/ faults > 0 \/ d \in overtaken
        \/ \E i \in Matching(Req(d)) : ~secureD[i].success)

\* "Marketer Not Found: Processing continues without attribution": a listener
\* that ended without a fault leaves an audit record for the request.
AuditedUnlessFault ==
  \A d \in Deliveries :
    At(d, "done") /\ faults = 0 /\ Req(d).msisdn \in Subscribers =>
      \E e \in Deliveries : audits[e].exists /\ Req(e) = Req(d)

\* "First subscription with marketer attribution": of the subscriptions of one
\* msisdn at most one is flagged acquired.
AcquiredOnce ==
  \A d, e \in Deliveries :
    audits[d].acquired /\ audits[e].acquired /\ Req(d).msisdn = Req(e).msisdn
    => Req(d) = Req(e)
=============================================================================
