----------------------- MODULE SubscriptionProcessing -----------------------
(***************************************************************************)
(* From an ICell datasync webhook to the rows it leaves in the database:   *)
(* the ICell queue and its worker, the datasync handler that stores the    *)
(* notification and emits an event, the business half of the subscription  *)
(* orchestrator's listeners (SubscriptionService), and the midnight job    *)
(* that expires lapsed rows.                                               *)
(*                                                                         *)
(* EventEmitter2.emit is not awaited, so listeners run concurrently with   *)
(* one another and outlive the job that started them: a job is finished as *)
(* soon as the event is out, and what a listener throws is only logged.    *)
(* Every awaited database call of a listener is one action here, because   *)
(* another listener may run between any two of them and no step sits in a  *)
(* database transaction.                                                   *)
(***************************************************************************)
EXTENDS Integers, Sequences, FiniteSets, Totals

CONSTANTS
  Msisdns,        \* phone numbers
  Products,       \* product ids of icell-products.json
  Notifications,  \* datasync requests ICell may send
  InitialUsers,   \* msisdns that already have a user and a wallet
  ValidityDays,   \* product -> validityDays (0: on-demand, no end)
  QuizAttempts,   \* product -> price * 0.01
  Jobs,           \* bound: deliveries of webhooks
  Runs,           \* bound: listeners running at the same time
  TicksPerDay,    \* clock resolution
  MaxTime,        \* bound: last clock tick
  MaxFaults       \* bound: crashes and rejected calls

ASSUME RequestsAssumption ==
  /\ Notifications # {}
  /\ \A n \in Notifications :
       /\ n.msisdn \in Msisdns
       /\ n.resultOk \in BOOLEAN      \* resultCode === '0'
       /\ n.charged \in BOOLEAN       \* chargeAmount is not empty
  /\ InitialUsers \subseteq Msisdns

ASSUME CatalogueAssumption ==
  /\ ValidityDays \in [Products -> Nat]
  /\ QuizAttempts \in [Products -> Nat]

ASSUME BoundsAssumption ==
  /\ IsFiniteSet(Runs)
  /\ TicksPerDay \in Nat \ {0} /\ MaxTime \in Nat /\ MaxFaults \in Nat

VARIABLES
  jobs,      \* the ICell queue: Jobs -> BullMQ job
  run,       \* event listeners in flight: Runs -> [pc, req, found]
  users,     \* msisdns with a User row
  wallets,   \* msisdns whose user has a Wallet row
  txns,      \* <<msisdn, product>> -> Transaction rows
  attempts,  \* msisdn -> user.availableQuizAttempts
  subs,      \* Subscription rows in createdAt order; a row's id is its index
  cron,      \* the midnight job
  sweep,     \* ids the running midnight job has read and not yet written
  now,       \* clock
  faults,    \* crashes and rejected calls so far
  collided   \* history: keys for which two lookup-to-create windows overlapped

userVars  == <<users, wallets, txns, attempts>>
cronVars  == <<cron, sweep>>
vars == <<jobs, run, userVars, subs, cronVars, now, faults, collided>>

----------------------------------------------------------------------------
(* Requests, rows and time                                                 *)

\* ICELL_OPERATIONS, with UNKNOWN for every id it lacks.
OperationTypeNoYC(id) ==
  CASE id \in {"SN", "ES"}             -> "SUBSCRIPTION"
    [] id \in {"YR", "RR", "GR", "SR"} -> "RENEWAL"
    [] id \in {"YU", "ER", "YD"}       -> "UNSUBSCRIPTION"
    [] OTHER                           -> "UNKNOWN"
OperationType(id) ==
  CASE id \in {"SN", "ES"} -> "SUBSCRIPTION"
    [] id \in {"YC", "YR", "RR", "GR", "SR"} -> "RENEWAL"
    [] id \in {"YU", "ER", "YD", "PCI", "ACI", "GCI", "SCI", "BCI",
               "PCE", "ACE", "GCE", "SCE", "BCE"} -> "UNSUBSCRIPTION"
    [] OTHER -> "UNKNOWN"

Activates(n)   == OperationType(n.operationId) \in {"SUBSCRIPTION", "RENEWAL"}
Unsubscribes(n) == OperationType(n.operationId) = "UNSUBSCRIPTION"
Key(x) == <<x.msisdn, x.product>>       \* of a request or of a row

NoEndDate == -1
GraceDays == 2
StartOfDay(t) == t - (t % TicksPerDay)

EndDate(p) ==
  IF ValidityDays[p] > 0 THEN now + ValidityDays[p] * TicksPerDay ELSE NoEndDate

\* A row that gives access: what the activation lookup, the access interceptor
\* and the content guards select.
Effective(row) ==
  /\ row.status = "ACTIVE"
  /\ row.endDate > now \/ row.endDate = NoEndDate

\* handleSubscriptionActivation's findFirst; a swapped comparison as the mutant.
ExistingRowsSwapped(n) ==
  {i \in DOMAIN subs :
     /\ Key(subs[i]) = Key(n)
     /\ subs[i].status = "ACTIVE"
     /\ subs[i].endDate < now \/ subs[i].endDate = NoEndDate}
ExistingRows(n) ==
  {i \in DOMAIN subs : Key(subs[i]) = Key(n) /\ Effective(subs[i])}

\* deactivateSubscription's findFirst: no endDate filter and no order.
CancellableAnyStatus(n) == {i \in DOMAIN subs : Key(subs[i]) = Key(n)}
CancellableRows(n) ==
  {i \in DOMAIN subs : Key(subs[i]) = Key(n) /\ subs[i].status = "ACTIVE"}

\* processSubscriptionExpirations' findMany. Mutants: no grace, and the boundary
\* day left out.
LapsedRowsNoGrace ==
  {i \in DOMAIN subs :
     /\ subs[i].status = "ACTIVE"
     /\ subs[i].endDate # NoEndDate
     /\ subs[i].endDate <= StartOfDay(now)}
LapsedRowsStrict ==
  {i \in DOMAIN subs :
     /\ subs[i].status = "ACTIVE"
     /\ subs[i].endDate # NoEndDate
     /\ subs[i].endDate < StartOfDay(now) - GraceDays * TicksPerDay}
LapsedRows ==
  {i \in DOMAIN subs :
     /\ subs[i].status = "ACTIVE"
     /\ subs[i].endDate # NoEndDate
     /\ subs[i].endDate <= StartOfDay(now) - GraceDays * TicksPerDay}

----------------------------------------------------------------------------
(* BullMQ: a job retries twice after a thrown error, and once after the    *)
(* worker that held it died (maxStalledCount 1).                           *)

Attempts == 3
MaxStalled == 1
AnyRequest == CHOOSE n \in Notifications : TRUE
NewJob(n) == [state |-> "waiting", req |-> n, made |-> 0, stalled |-> 0]
NoJob     == [state |-> "none", req |-> AnyRequest, made |-> 0, stalled |-> 0]

Held(job) == job.state \in {"stored", "emitted", "active"}

Retried(job) ==
  [job EXCEPT !.made = @ + 1,
              !.state = IF job.made + 1 < Attempts THEN "waiting" ELSE "failed"]

Stalled(job) ==
  IF ~Held(job) THEN job
  ELSE IF job.stalled < MaxStalled
       THEN [job EXCEPT !.stalled = @ + 1, !.state = "waiting"]
       ELSE [job EXCEPT !.state = "failed"]

Idle == [pc |-> "idle", req |-> AnyRequest, found |-> 0]

Init ==
  /\ jobs = [j \in Jobs |-> NoJob]
  /\ run = [r \in Runs |-> Idle]
  /\ users = InitialUsers
  /\ wallets = InitialUsers
  /\ txns = [k \in Msisdns \X Products |-> 0]
  /\ attempts = [u \in Msisdns |-> 0]
  /\ subs = << >>
  /\ cron = NoJob
  /\ sweep = {}
  /\ now = 0
  /\ faults = 0
  /\ collided = {}

----------------------------------------------------------------------------
(* The webhook and the ICell worker                                        *)

\* IcellController.datasyncNotification: ICell delivers a request, any number
\* of times; every delivery becomes a job.
DatasyncNotification(j, n) ==
  /\ jobs[j].state = "none"
  /\ jobs' = [jobs EXCEPT ![j] = NewJob(n)]
  /\ UNCHANGED <<run, userVars, subs, cronVars, now, faults, collided>>

\* processDatasyncNotification up to the create. The worker takes one job at a
\* time. The IcellDatasync row exists from "stored" on; nothing looks for an
\* earlier row with the same sequenceNo.
StoreDatasync(j) ==
  /\ jobs[j].state = "waiting"
  /\ \A k \in Jobs : ~Held(jobs[k])
  /\ jobs' = [jobs EXCEPT ![j].state = "stored"]
  /\ UNCHANGED <<run, userVars, subs, cronVars, now, faults, collided>>

\* The create rejects: the processor rethrows and BullMQ retries.
StoreFails(j) ==
  /\ jobs[j].state = "waiting"
  /\ \A k \in Jobs : ~Held(jobs[k])
  /\ faults < MaxFaults
  /\ jobs' = [jobs EXCEPT ![j] = Retried(jobs[j])]
  /\ faults' = faults + 1
  /\ UNCHANGED <<run, userVars, subs, cronVars, now, collided>>

\* The listener's synchronous part: product and service are looked up in the
\* catalogue before the first await, and an unknown product throws at once.
HasListenerWorkUnchecked(n) == Activates(n) \/ Unsubscribes(n)
HasListenerWork(n) ==
  (Activates(n) \/ Unsubscribes(n)) /\ n.product \in Products

\* The emit: the listener starts, and the job no longer depends on it.
EmitOperation(j) ==
  LET n == jobs[j].req IN
  /\ jobs[j].state = "stored"
  /\ jobs' = [jobs EXCEPT ![j].state = "emitted"]
  /\ \/ /\ HasListenerWork(n)
        /\ \E r \in Runs :
             /\ run[r].pc = "idle"
             /\ run' = [run EXCEPT ![r] = [pc |-> "getUser", req |-> n, found |-> 0]]
     \/ /\ ~HasListenerWork(n)
        /\ UNCHANGED run
  /\ UNCHANGED <<userVars, subs, cronVars, now, faults, collided>>

\* removeOnComplete: nothing is left of the job.
CompleteJob(j) ==
  /\ jobs[j].state = "emitted"
  /\ jobs' = [jobs EXCEPT ![j] = [NoJob EXCEPT !.state = "completed"]]
  /\ UNCHANGED <<run, userVars, subs, cronVars, now, faults, collided>>

----------------------------------------------------------------------------
(* findOrCreateUserByPhone and signUpWithPhoneNumber                       *)

At(r, pc) == run[r].pc = pc
Goto(r, pc) == run' = [run EXCEPT ![r].pc = pc]
Finish(r) == run' = [run EXCEPT ![r] = Idle]
AfterUser(n) == IF Unsubscribes(n) THEN "findActive" ELSE "createTransaction"
AfterCreateNoWallet(n) == AfterUser(n)
AfterCreate(n) == "createWallet"

GetUser(r) ==
  LET n == run[r].req IN
  /\ At(r, "getUser")
  /\ Goto(r, IF n.msisdn \in users THEN AfterUser(n) ELSE "createUser")
  /\ UNCHANGED <<jobs, userVars, subs, cronVars, now, faults, collided>>

\* User.phone is unique: the loser of two concurrent sign-ups throws, and the
\* emitter swallows what it throws.
CreateUser(r) ==
  LET n == run[r].req IN
  /\ At(r, "createUser")
  /\ \/ n.msisdn \in users /\ Finish(r) /\ UNCHANGED users
     \/ /\ n.msisdn \notin users
        /\ users' = users \cup {n.msisdn}
        /\ Goto(r, AfterCreate(n))
  /\ UNCHANGED <<jobs, wallets, txns, attempts, subs, cronVars, now, faults, collided>>

CreateWallet(r) ==
  /\ At(r, "createWallet")
  /\ wallets' = wallets \cup {run[r].req.msisdn}
  /\ Goto(r, AfterUser(run[r].req))
  /\ UNCHANGED <<jobs, users, txns, attempts, subs, cronVars, now, faults, collided>>

----------------------------------------------------------------------------
(* processUserSubscription and processUserRenewal                          *)

\* validateAndFormatAmount throws on an empty chargeAmount.
CreateTransaction(r) ==
  LET n == run[r].req IN
  /\ At(r, "createTransaction")
  /\ \/ ~n.charged /\ Finish(r) /\ UNCHANGED txns
     \/ /\ n.charged
        /\ txns' = [txns EXCEPT ![Key(n)] = @ + 1]
        /\ Goto(r, "findExisting")
  /\ UNCHANGED <<jobs, users, wallets, attempts, subs, cronVars, now, faults, collided>>

\* A listener between its lookup of the existing row and its create.
InWindow(r) == run[r].pc \in {"replace", "create"}

CollidedBy(r) ==
  IF \E s \in Runs \ {r} : InWindow(s) /\ Key(run[s].req) = Key(run[r].req)
  THEN collided \cup {Key(run[r].req)} ELSE collided

FindExisting(r) ==
  LET found == ExistingRows(run[r].req) IN
  /\ At(r, "findExisting")
  /\ \/ found = {} /\ Goto(r, "create")
     \/ \E i \in found :                       \* orderBy createdAt desc
          /\ \A k \in found : k <= i
          /\ run' = [run EXCEPT ![r].pc = "replace", ![r].found = i]
  /\ collided' = CollidedBy(r)
  /\ UNCHANGED <<jobs, userVars, subs, cronVars, now, faults>>

\* By id, whatever the row's status has become since the lookup.
ReplaceExisting(r) ==
  /\ At(r, "replace")
  /\ subs' = [subs EXCEPT ![run[r].found].status = "REPLACED"]
  /\ run' = [run EXCEPT ![r].pc = "create", ![r].found = 0]
  /\ UNCHANGED <<jobs, userVars, cronVars, now, faults, collided>>

NewRow(n) ==
  [msisdn |-> n.msisdn, product |-> n.product, sequenceNo |-> n.sequenceNo,
   status |-> IF n.resultOk THEN "ACTIVE" ELSE "FAILED",
   endDate |-> EndDate(n.product)]

WithNewRowOnSuccess(n) == IF n.resultOk THEN Append(subs, NewRow(n)) ELSE subs
WithNewRow(n) == Append(subs, NewRow(n))

CreateSubscription(r) ==
  /\ At(r, "create")
  /\ subs' = WithNewRow(run[r].req)
  /\ Goto(r, "credit")
  /\ UNCHANGED <<jobs, userVars, cronVars, now, faults, collided>>

\* An atomic increment, taken whether or not the charge succeeded.
CreditedOverwriting(u, p) == QuizAttempts[p]
Credited(u, p) == attempts[u] + QuizAttempts[p]
AddQuizAttempts(r) ==
  LET n == run[r].req IN
  /\ At(r, "credit")
  /\ attempts' = [attempts EXCEPT ![n.msisdn] = Credited(n.msisdn, n.product)]
  /\ Goto(r, "sms")
  /\ UNCHANGED <<jobs, users, wallets, txns, subs, cronVars, now, faults, collided>>

----------------------------------------------------------------------------
(* processUserUnsubscription                                               *)

FindActive(r) ==
  LET found == CancellableRows(run[r].req) IN
  /\ At(r, "findActive")
  /\ \/ found = {} /\ Goto(r, "unsubscribedSms")
     \/ \E i \in found : run' = [run EXCEPT ![r].pc = "cancel", ![r].found = i]
  /\ UNCHANGED <<jobs, userVars, subs, cronVars, now, faults, collided>>

CancelActive(r) ==
  /\ At(r, "cancel")
  /\ subs' = [subs EXCEPT ![run[r].found].status = "CANCELLED"]
  /\ run' = [run EXCEPT ![r].pc = "unsubscribedSms", ![r].found = 0]
  /\ UNCHANGED <<jobs, userVars, cronVars, now, faults, collided>>

\* sendMagicLink or sendUnsubscriptionSms, after which the listener's business
\* half is over.
SendSms(r) ==
  /\ run[r].pc \in {"sms", "unsubscribedSms"}
  /\ Finish(r)
  /\ UNCHANGED <<jobs, userVars, subs, cronVars, now, faults, collided>>

\* Any awaited call of a listener rejects: the orchestrator logs and rethrows
\* into the emitter, and the listener is gone.
ListenerFails(r) ==
  /\ ~At(r, "idle")
  /\ faults < MaxFaults
  /\ Finish(r)
  /\ faults' = faults + 1
  /\ UNCHANGED <<jobs, userVars, subs, cronVars, now, collided>>

----------------------------------------------------------------------------
(* The midnight job, the clock and the process                             *)

\* Midnight enqueues the job. A sweep is assumed to end within its day.
Tick ==
  /\ now < MaxTime
  /\ now' = now + 1
  /\ \/ /\ (now + 1) % TicksPerDay = 0
        /\ cron.state \in {"none", "completed", "failed"}
        /\ cron' = NewJob(AnyRequest)
     \/ /\ (now + 1) % TicksPerDay # 0
        /\ UNCHANGED cron
  /\ UNCHANGED <<jobs, run, userVars, subs, sweep, faults, collided>>

StartSweep ==
  /\ cron.state = "waiting"
  /\ sweep' = LapsedRows
  /\ cron' = [cron EXCEPT !.state = IF LapsedRows = {} THEN "completed" ELSE "active"]
  /\ UNCHANGED <<jobs, run, userVars, subs, now, faults, collided>>

\* expireSubscription writes by id what the findMany read some time ago.
ExpireSubscription(i) ==
  /\ i \in sweep
  /\ subs' = [subs EXCEPT ![i].status = "EXPIRED"]
  /\ sweep' = sweep \ {i}
  /\ cron' = [cron EXCEPT !.state = IF sweep = {i} THEN "completed" ELSE "active"]
  /\ UNCHANGED <<jobs, run, userVars, now, faults, collided>>

SweepFails ==
  /\ cron.state \in {"waiting", "active"}
  /\ faults < MaxFaults
  /\ cron' = Retried(cron)
  /\ sweep' = {}
  /\ faults' = faults + 1
  /\ UNCHANGED <<jobs, run, userVars, subs, now, collided>>

\* The process dies and restarts: listeners are forgotten, held jobs stall.
Crash ==
  /\ faults < MaxFaults
  /\ run' = [r \in Runs |-> Idle]
  /\ jobs' = [j \in Jobs |-> Stalled(jobs[j])]
  /\ cron' = Stalled(cron)
  /\ sweep' = {}
  /\ faults' = faults + 1
  /\ UNCHANGED <<userVars, subs, now, collided>>

----------------------------------------------------------------------------

WorkerStep(j) == StoreDatasync(j) \/ EmitOperation(j) \/ CompleteJob(j)

ListenerStep(r) ==
  \/ GetUser(r) \/ CreateUser(r) \/ CreateWallet(r)
  \/ CreateTransaction(r) \/ FindExisting(r) \/ ReplaceExisting(r)
  \/ CreateSubscription(r) \/ AddQuizAttempts(r)
  \/ FindActive(r) \/ CancelActive(r) \/ SendSms(r)

SweepStep == StartSweep \/ \E i \in sweep : ExpireSubscription(i)

Next ==
  \/ \E j \in Jobs : \/ \E n \in Notifications : DatasyncNotification(j, n)
                     \/ WorkerStep(j) \/ StoreFails(j)
  \/ \E r \in Runs : ListenerStep(r) \/ ListenerFails(r)
  \/ SweepStep \/ SweepFails \/ Tick \/ Crash

Spec == Init /\ [][Next]_vars

\* The worker takes waiting jobs, the event loop resumes every listener whose
\* call has returned, and the scheduler runs the sweep. Webhooks, faults and
\* time are not fair.
FairSpec ==
  /\ Spec
  /\ \A j \in Jobs : WF_vars(WorkerStep(j))
  /\ \A r \in Runs : WF_vars(ListenerStep(r))
  /\ WF_vars(SweepStep)

----------------------------------------------------------------------------
(* Properties                                                              *)

Pcs == {"idle", "getUser", "createUser", "createWallet", "createTransaction",
        "findExisting", "replace", "create", "credit", "sms",
        "findActive", "cancel", "unsubscribedSms"}
Statuses == {"ACTIVE", "FAILED", "REPLACED", "CANCELLED", "EXPIRED"}
JobStates == {"none", "waiting", "stored", "emitted", "active", "completed", "failed"}

Job == [state : JobStates, req : Notifications, made : 0..Attempts,
        stalled : 0..MaxStalled]
HasAttemptLeft(job) == job.state # "failed" => job.made < Attempts
Row == [msisdn : Msisdns, product : Products, sequenceNo : {n.sequenceNo : n \in Notifications},
        status : Statuses, endDate : Nat \cup {NoEndDate}]

\* Types. A job that has not failed has an attempt left, a listener about to write a row by id holds the id of a row, and a
\* listener past its synchronous part works on a product of the catalogue.
QueueTypeOK ==
  /\ jobs \in [Jobs -> Job]
  /\ \A j \in Jobs : HasAttemptLeft(jobs[j])
  /\ cron \in Job
  /\ HasAttemptLeft(cron)
  /\ sweep # {} => cron.state = "active"
ListenerTypeOK ==
  /\ run \in [Runs -> [pc : Pcs, req : Notifications, found : Nat]]
  /\ \A r \in Runs : ~At(r, "idle") => run[r].req.product \in Products
  /\ \A r \in Runs : run[r].pc \in {"replace", "cancel"} => run[r].found \in DOMAIN subs
TablesTypeOK ==
  /\ users \in SUBSET Msisdns
  /\ wallets \in SUBSET Msisdns
  /\ txns \in [Msisdns \X Products -> Nat]
  /\ attempts \in [Msisdns -> Nat]
  /\ subs \in Seq(Row)
  /\ sweep \in SUBSET DOMAIN subs
  /\ now \in Nat
  /\ faults \in Nat
  /\ collided \in SUBSET (Msisdns \X Products)
TypeOK == QueueTypeOK /\ ListenerTypeOK /\ TablesTypeOK

\* For a user and product whose activations never overlapped between lookup and
\* create, the only row that can give access is the one created last: whatever
\* crashes, duplicate deliveries, unsubscriptions and sweeps happened, an older
\* row never stays or becomes effective beside or after it.
LatestActiveWins ==
  \A i, k \in DOMAIN subs :
    /\ Key(subs[i]) = Key(subs[k])
    /\ Key(subs[i]) \notin collided
    /\ Effective(subs[i])
    => k <= i

\* The sweep works from a list read earlier and writes by id: still, no row is
\* EXPIRED before it has been over for two full days.
NoEarlyExpiry ==
  \A i \in DOMAIN subs :
    subs[i].status = "EXPIRED" =>
      /\ subs[i].endDate # NoEndDate
      /\ subs[i].endDate + GraceDays * TicksPerDay <= now

RowsOf(k) == {i \in DOMAIN subs : Key(subs[i]) = k}
RowsOfUser(u) == {i \in DOMAIN subs : subs[i].msisdn = u}

\* Listeners that have charged for a product and have yet to create its row, and
\* those that have created a row and have yet to add its quiz attempts.
Charging(k) ==
  {r \in Runs : run[r].pc \in {"findExisting", "replace", "create"} /\ Key(run[r].req) = k}
Crediting(u) == {r \in Runs : At(r, "credit") /\ run[r].req.msisdn = u}

\* Without a fault, a user charged for a product has a row for every charge, or
\* a listener is about to create it; in every case rows never outnumber charges.
ChargedMeansSubscribed ==
  \A k \in Msisdns \X Products :
    LET served == Cardinality(RowsOf(k)) + Cardinality(Charging(k)) IN
    /\ served <= txns[k]
    /\ faults = 0 => served = txns[k]

Granted == [i \in DOMAIN subs |-> QuizAttempts[subs[i].product]]
Due     == [r \in Runs |-> QuizAttempts[run[r].req.product]]

\* The quiz attempts a user holds are those of the rows created for the user,
\* minus what listeners still have to add; a fault can only lose attempts.
QuizAttemptsMatchRows ==
  \A u \in Msisdns :
    LET earned == Total(Granted, RowsOfUser(u))
        known  == attempts[u] + Total(Due, Crediting(u))
    IN  /\ known <= earned
        /\ faults = 0 => known = earned

\* Without a fault every user has a wallet or is being given one, however many
\* notifications raced to create the user.
EveryUserHasWallet ==
  /\ wallets \subseteq users
  /\ faults = 0 => \A u \in users \ wallets :
       \E r \in Runs : At(r, "createWallet") /\ run[r].req.msisdn = u

\* How rows and listeners implement Entitlements: a row gives, was refused or has
\* ended, and an unsubscription is under way while its listener is.
EntitlementOf(row) ==
  [of    |-> Key(row),
   state |-> CASE row.status = "ACTIVE" -> "given"
               [] row.status = "FAILED" -> "refused"
               [] OTHER                 -> "ended",
   until |-> row.endDate]
Keys == Msisdns \X Products
Leaving == {Key(run[r].req) : r \in {s \in Runs : ~At(s, "idle") /\ Unsubscribes(run[s].req)}}

Promise == INSTANCE Entitlements WITH
  Validity <- [k \in Keys |-> ValidityDays[k[2]]],
  Day      <- TicksPerDay,
  Grace    <- GraceDays * TicksPerDay,
  Never    <- NoEndDate,
  entries  <- [i \in DOMAIN subs |-> EntitlementOf(subs[i])],
  owed     <- [k \in Keys |-> txns[k] - Cardinality(RowsOf(k))],
  leaving  <- Leaving,
  clock    <- now

\* Listeners and the sweep write rows by ids they read earlier. Still what they do
\* to rows keeps the promise of Entitlements: no row without a charge of its own, a
\* failed charge's left alone, none revived, and none ended for another subscriber,
\* without a charge or an unsubscription to end it, or before its time.
ImplementsEntitlements == Promise!EntitlementsSpec

\* A row that has been over for two days by this midnight stops being ACTIVE,
\* also when the sweep dies or fails half-way.
LapsedRowsAreSwept ==
  \A i \in 1 .. Cardinality(Jobs) + MaxFaults :
    (/\ i \in DOMAIN subs
     /\ subs[i].status = "ACTIVE"
     /\ subs[i].endDate # NoEndDate
     /\ StartOfDay(now) >= subs[i].endDate + GraceDays * TicksPerDay)
    ~> (i \in DOMAIN subs /\ subs[i].status # "ACTIVE")

\* A delivered activation that can be carried out creates a row with its
\* sequence number, unless a fault happened or its user had to be created.
ServedUnlessFault ==
  \A n \in Notifications :
    (/\ \E j \in Jobs : jobs[j].state = "waiting" /\ jobs[j].req = n
     /\ n.operationId \in {"SN", "YC"} /\ n.product \in Products /\ n.charged)
    ~> (\/ faults > 0
        \/ n.msisdn \notin InitialUsers
        \/ \E i \in DOMAIN subs : subs[i].sequenceNo = n.sequenceNo)

\* "Checks for duplicate processing via sequenceNo": no two rows carry the same
\* sequence number.
OneRowPerSequenceNo ==
  \A i, k \in DOMAIN subs : subs[i].sequenceNo = subs[k].sequenceNo => i = k

\* "BullMQ provides job persistence and retry": a stored activation is carried
\* out in the end.
StoredIsServed ==
  \A n \in Notifications :
    (/\ \E j \in Jobs : jobs[j].state = "stored" /\ jobs[j].req = n
     /\ Activates(n) /\ n.product \in Products /\ n.charged)
    ~> (\E i \in DOMAIN subs : subs[i].sequenceNo = n.sequenceNo)

\* "you have successfully unsubscribe from": a listener about to send this SMS
\* leaves no row that still gives access to the product.
UnsubscribedMeansNoAccess ==
  \A r \in Runs : At(r, "unsubscribedSms") => ExistingRows(run[r].req) = {}
=============================================================================
