# Religious Notifications API: a TLA+ model

The system is a NestJS service (one Node process, Postgres through Prisma,
BullMQ on Redis, EventEmitter2, Socket.IO) behind a value-added service of a
mobile operator. The aggregator ICell tells it by webhook of subscriptions,
renewals and unsubscriptions; SecureD tells it which marketer brought a
subscription. Subscribers read content, take quizzes and withdraw winnings.

Paths below are those of the repository; `modules/` is `src/modules/`.

## Parts of the system

| Part | State | Operations | Reaches others by |
|---|---|---|---|
| ICell datasync intake (`modules/icell`, `shared/icell-core/handlers`) | queue ICELL, table IcellDatasync | webhook, worker, store, emit | un-awaited event to the orchestrator |
| Subscription service (`modules/subscription`) | Subscription, Transaction, user.availableQuizAttempts | activate, renew, unsubscribe, expire | calls of user, SMS, catalogue; the audit half after it |
| Scheduling (`modules/subscription/scheduling`) | queue of the midnight job | sweep | calls the service |
| Users and sign-up by phone (`modules/user`, `modules/auth`) | User, Wallet | find or create | called by listeners |
| Audit and attribution (`modules/subscription/audit`) | SubscriptionAuditRecord, IcellDatasync.processed | transaction, flags, postback | queue SECURE_D_RETRY, HTTP to marketers |
| SecureD (`modules/secure-d`) | queues SECURE_D and SECURE_D_RETRY, SecureDDataSync | store, retry | updates audit records |
| Access control (`common/interceptors`, `common/services/guards`) | Subscription.accessCount and status | check, count, exhaust | reads Subscription |
| Payment (`modules/payment`, Onionpay) | Wallet, WalletHistory, WithdrawalRequest, BankAccount | credit, withdraw, webhook, bank accounts | HTTP to the bank and back |
| Quiz (`modules/quiz`), wheel (`modules/wheel-of-fortune`) | QuizAttempt, QuizUserAnswer, WheelSpin | submit, grade, publish, reward, spin | quiz queues; credits wallets |
| Authentication (`modules/auth`) | cache entries, User.refreshToken | OTP, magic link, reset, refresh | cache, SMS |
| Groups and chat (`modules/group`, `modules/chat`) | GroupMember, Message, rooms, socket sessions | create, join, leave, send | events to the gateway |
| Courses (`modules/course`) | CourseEnrollment, CourseLessonProgress | enrol, drop, start and complete a lesson | |
| Music and mindfulness back office (`modules/music-library/admin`, `modules/mindfulness-resource/admin`) | Track, MindfulnessResource, objects in S3 | create, upload, update | S3 |
| Other content, admin, notifications, cache, health | rows without rules across them | CRUD, I/O | |

What makes it hard: `EventEmitter2.emit` is not awaited, so listeners of one
process overlap at every database call and die with the process, while the
queue believes the work is done; hardly any of the multi-step updates is a
transaction; rows are written by ids found earlier; webhooks are delivered
twice, late or in the other order; jobs are retried after a failure half-way.

What makes each part correct:

- **Subscriptions**: of the rows of a user and product only the newest gives
  access; a charge has its row and its quiz attempts, once; nothing expires
  early and everything lapsed expires; an unsubscription ends access.
- **Audit**: a datasync is marked only together with its audit record, unless the
  lookup of its user failed unnoticed; flags and
  marketer agree with the SecureD data; a conversion reaches the marketer, once.
- **Wallets**: the balance is the sum of its history, never negative; a transfer
  is debited once.
- **Quiz**: attempts never negative; a winning attempt is rewarded once, with
  the score of its own set.
- **Access**: no more reads per row than its limit, and EXHAUSTED if and only if
  it is spent. **Authentication**: the code sent last works, a link works once, a
  suspension holds. **Chat**: messages go to members only, a session entry
  names an open socket.
- **Bank accounts**: one default. **Courses**: the progress is what the lessons
  add up to. **Media**: a row names its own files.

## Modules

| Module | Models | Checked through | Proofs |
|---|---|---|---|
| `SubscriptionProcessing` | intake, subscription service, sign-up by phone, midnight sweep | `MCSubscriptionProcessing` | `SubscriptionProcessingProofs` |
| `Entitlements` | abstract: charges, what each bought, what may end it | `SubscriptionProcessing` | `SubscriptionProcessingProofs` |
| `AuditAttribution` | audit half of the listeners, SecureD store, retry worker, postbacks | `MCAuditAttribution` | `AuditAttributionProofs` |
| `Conversion` | abstract: what a record may say of a request, when a marketer may be told | `AuditAttribution` | `AuditAttributionProofs` |
| `Ledger` | abstract: prizes paid or given up, withdrawals and their debits | `Wallet` | `WalletProofs` |
| `Wallet` | wheel prizes, wallet credits, withdrawal requests, bank transfer and webhook | `MCWallet` | `WalletProofs` |
| `QuizRewards` | submissions, grading, publication, rewards, midnight | `MCQuizRewards` | `QuizRewardsProofs` |
| `ContentAccess` | guard and interceptor of content against the subscription service | `UserRequests` | `UserRequestsProofs` |
| `Authentication` | sign-up, codes, sign-in, reset, magic links, suspension | `UserRequests` | `AuthenticationProofs` |
| `BankAccounts` | accounts, the default flag, deletion | `UserRequests` | `UserRequestsProofs` |
| `CourseProgress` | enrolment and lessons | `UserRequests` | `UserRequestsProofs` |
| `GroupChat` | one group, its members, rooms, session entries | `UserRequests` | `GroupChatProofs` |
| `MediaLibrary` | tracks and resources and the files they name | `UserRequests` | `UserRequestsProofs` |
| `UserRequests` | the six above beside each other | `MCUserRequests` | `UserRequestsProofs` |
| `Totals` | sums over a set, as the number of units there are | `SubscriptionProcessing`, `QuizRewards` | `TotalsProofs` |

Several modules keep **history variables**: they change no behaviour and record
that requests overlapped, or that a fault struck at the one place that matters.
A property that names one says that nothing else can break it; the interleaving
the variable records does break it in the code, which is the point of naming it.
They are listed with each module.

### SubscriptionProcessing

`jobs` is the ICELL queue, `run` the listeners in flight (their program counter,
request and the id they found), `subs` the Subscription rows in creation order
(an id is an index), `sweep` the ids the midnight job has read and not written.
Each awaited database call is an action; what lies between two awaits runs
without interruption in Node and is part of it:

| Action | Code |
|---|---|
| `DatasyncNotification`, `StoreDatasync`, `EmitOperation`, `CompleteJob` | controller, worker and handler |
| `GetUser`, `CreateUser`, `CreateWallet` | `findOrCreateUserByPhone`, `signUpWithPhoneNumber` |
| `CreateTransaction`, `FindExisting`, `ReplaceExisting`, `CreateSubscription`, `AddQuizAttempts` | `createTransaction`, `handleSubscriptionActivation` |
| `FindActive`, `CancelActive` | `deactivateSubscription` |
| `SendSms` | end of the business half |
| `Tick`, `StartSweep`, `ExpireSubscription` | `SubscriptionCronService`, `processSubscriptionExpirations` |
| `StoreFails`, `ListenerFails`, `SweepFails`, `Crash` | a rejected call; the end of the process |

`collided` is a history variable: the keys for which two listeners were between
lookup and create at the same time. `LatestActiveWins` is stated for the other
keys, because two overlapping activations do leave two effective rows; the
property says that nothing else does.

`SubscriptionProcessing` implements `Entitlements` (`ImplementsEntitlements`). Its
state is a list of entitlements, given, refused or ended; for each key (number and
product) the charges that have bought nothing yet, here the transactions less the
rows; the keys that are being unsubscribed, here those of listeners serving one; and
the clock.

| `Entitlements` | `SubscriptionProcessing` |
|---|---|
| `Charge` | `CreateTransaction` |
| `Give` | `CreateSubscription`, for a charge of the key that is still owed |
| `End` | `ReplaceExisting` (owed), `CancelActive` (leaving), `ExpireSubscription` (two days after the end) |
| `StartLeaving` | `EmitOperation` of an unsubscription |
| `StopLeaving` | the end of a listener; `Crash`, which ends all |
| `Elapse` | `Tick` |

Every other step stutters. Ids found earlier, overlaps, duplicates and retries are
not visible there: whatever they do, a row is paid for by a charge of its own, and an
entitlement ends once, and for one of these three reasons. Not promised is *which*
entitlement a charge or unsubscription ends: `subscription_unsubscribe` shows the
code ends the wrong one.

### AuditAttribution

A delivery of a datasync has one IcellDatasync row, one listener, at most one
audit record and at most one retry job, and all four carry its identity.
`BuildContext` to `MarkAndCommit` are the transaction of
`processSubscriptionEvent`; its writes appear at `MarkAndCommit`, except the
retry job, which is in Redis from `QueueSecureDRetry` on. `WriteFlags`, `ReRead`,
`GetPostback` and `NotePostback` follow. The retry worker is `FindSecureD` or
`MissSecureD`, `LinkSecureD`, `WriteRetryFlags`, `GetRetryPostback`,
`NoteRetryPostback`. `ProcessNotification` lets a SecureD notification arrive at
any moment and repeatedly. The five seconds a retry is delayed are not
modelled: a retry may run at any time after it was queued, even before its
transaction commits. `overtaken` records when that happened, so that the
properties can say what holds then and what only otherwise.

`createSubscriptionAuditRecord` begins with two lookups that swallow their errors. An
error while looking for the notification (`FindMatching`) passes for "not found". One
while looking for the user (`FindUser`; `UserService.getUser` returns null from its
catch) passes for "no such user": there is no audit record then, and
`markDatasyncAsProcessed` marks the row and commits all the same, unless a retry was
to be queued, which needs the record's id and throws. `unseen` records the deliveries
this happened to. `ProcessedMeansAudited` counts: of each request no more rows are
marked than it has records and deliveries in `unseen`, whatever duplicates, aborted
transactions and faults at every other step do.

`AuditAttribution` implements `Conversion` (`ImplementsConversion`), which knows what
was requested, the *set* of what SecureD reported, what each record says and how often
its marketer was told. `StoreDatasync` is its `Request`, `ProcessNotification` its
`Report`; `MarkAndCommit`, `WriteFlags`, `LinkSecureD` and `WriteRetryFlags` are its
`Write`, `GetPostback` and `GetRetryPostback` its `Tell`; a fault and the start of a
retry are its `Disturb`, and the rest stutters. A `Write` may say anything that is
`Honest`: backed by what was reported of that request *by then*, although it was read
steps before and may have come from either lookup; and it never takes a marketer
back. A `Tell` needs a record that is kept and attributed, a reported success, and no
more postbacks so far than failures and an early retry excuse.

### Wallet

`balance` and the sum of the history rows of each wallet (`ledger`), `requests`
the WithdrawalRequest rows,
`withdraw`, `credits` and `hooks` the handlers in flight, `accepted` the transfers
the bank has taken. Credits and debits are transactions at Postgres' default
isolation, READ COMMITTED: each reads the wallet, writes it later and is seen
when it commits. A written row stays locked until then (`WalletFree`).

| Action | Code |
|---|---|
| `WinSpin` | `spin` of the wheel: the row, then the credit |
| `FindWallet`, `IncrementBalance`, `CommitCredit` | `creditUserWallet` |
| `CheckBalance`, `CreateRequest`, `RecordTransfer` | `createWithdrawalRequest` |
| `MakeBankTransfer` | `OnionPayService.makeBankTransfer`: accepted, refused, or accepted with the answer lost |
| `ReceiveWebhook`, `CompleteRequest`, `ReadWallet`, `WriteBalance`, `CommitDebit` | `handleWebhook` |
| `CreditFails`, `WithdrawFails`, `HookFails`, `Crash` | a rejected call; the end of the process |

The credit increments in the database, the debit writes the difference it
computed from its read. `overlapped` is a history variable: the wallets, and the
kinds of the transactions, where two were between read and commit at the same
time. `HistoryExplainsBalance` says that overlapping credits lose nothing and
that only an overlap with a debit can. Nothing reserves the amount of a request
and the webhook does not look at its status: two reports of one request, or of
two that passed the check together, do take the balance below zero, and
`OverdraftNeedsTwoDebits` says that nothing less does. A user without a wallet
gets none: `creditUserWallet` creates it and reads the id of null afterwards, so
its transaction rolls back. A report is also ignored for good when it comes
before `RecordTransfer`.

A credit that fails after the spin is only logged: the prize is lost, and
`WonIsCredited` says that only a fault loses it.

`Wallet` implements `Ledger` (`ImplementsLedger`), whose state is the sum of the
history, the prizes, the withdrawals and the transfers the bank has taken:
`WinSpin` is its `Win`, `CommitCredit` its `Pay`, `CreateRequest` its `Ask`, an
accepted `MakeBankTransfer` its `Accept`, `RecordTransfer` its `Confirm`,
`CommitDebit` its `Settle`, a failed credit and `Crash` its `GiveUp`; every other
step stutters. Nothing of locks, reads and half-done handlers is visible there:
what it promises is that a prize is paid once or given up for good, that each
debit is one of an accepted transfer, and that statuses are not taken back.

### QuizRewards

`attempts` are the QuizAttempt rows (the set they belong to, graded, passed,
published), `submits` the requests, `queue`, `delayed` and `worker` the BullMQ queue
all quiz jobs share, `available` the users' attempts. "Today's set" is looked up
by each query when it runs, and midnight may pass between any two of them.

| Action | Code |
|---|---|
| `CheckAttempts`, `DecrementAttempts` | `QuizAttemptInterceptor`, the second after the answer and not awaited |
| `SaveAttempt`, `EnqueueGrading`, `SubmitFails` | `submitQuizAttempt` |
| `FindAttempt`, `GradeAttempt` | `processQuizGrading` |
| `FireRewards`, `Midnight` | the schedule of 23:59; the date |
| `FindUnpublished`, `PublishAttempts` | `publishAllTodaysQuizAttempts` |
| `FindWinners`, `CreditWinner`, `NotifyWinners` | `processQuizWinningRewards` |
| `RetryJob`, `JobFails`, `Crash` | BullMQ's retries and stalls; a rejected call; the end of the process |

The decrement is not awaited and nothing catches it: when it is rejected Node
ends the process, which is `Crash`. `sendSmsHttpRequest` catches its errors, so
notifying does not fail. A winner without a wallet makes the job throw, its
retries meet the same winner, and those credited before him are credited again
each time: `RewardsWithinPool` counts the times the pool is shared out (`runs`,
a history variable) and says that each time is within the pool and credits
nobody twice. `overlapped` are the users with two submissions in flight;
`QuotaHeld` says that only those, or a crash that loses a decrement, get more
answers than their attempts. One worker and the quiz of one religion: sets of
different religions share no row.

### ContentAccess

`rows` are the Subscription rows with their accessCount, `reader` the requests of
the user under way, `writes` the status writes the subscription service has decided
on and not made (`FindRow`, `WriteStatus`, `NewRow`, `RowEnds` stand for it and for
the clock).

| Action | Code |
|---|---|
| `GuardRequest` | `SubscriptionGuard` |
| `CheckAccess`, `Serve` | `SubscriptionAccessInterceptor` before the handler; the handler |
| `IncrementCount`, `WriteExhausted` | after its answer |
| `AccessCrash` | the end of the process, also by a rejected count, which nobody awaits |

The count is raised in an un-awaited `tap`, after the answer: a client may send its
next request while the last one is still to be counted. So a reader is a request and
not a connection, from the guard to its count, and nobody waits for anybody. No number
of requests bounds by how much a limit is passed, and `AccessWithinLimit` says instead
what every read beyond it needs: to have been let in beside others that were not yet
counted. `beside` records how many these were, itself included, when the latest was let
in; a read that finds all others counted never passes the limit.
`lost` are the rows whose EXHAUSTED a crash has lost.

### Authentication

`account` is the User row (kind of sign-up, role, status, flags), `otp`,
`resetCode` and `links` the cache entries, `call` the requests. RedisService
swallows the cache's errors, so a write or a deletion that fails goes unnoticed.

| Action | Code (`auth.service.ts` unless named) |
|---|---|
| `SignUp`, `CreateAccount`, `CreateAccountWallet` | the sign-ups by phone and Google |
| `ResendCode`, `SetCode`, `SendCode` | sending a verification code |
| `VerifyAccount`, `DeleteCode`, `MarkVerified` | its verification |
| `SignInByPhone`, `SignInByEmail`, `UpdateAccount`, `Login`, `Logout` | sign-in, and the refresh token it stores |
| `CompleteOnboarding` | names and PIN |
| `RequestReset`, `SetResetCode`, `ResetPassword` | password reset |
| `IssueLink`, `UseLink`, `DeleteLink` | magic links |
| `SetActive`, `SetSuspended`, `UpdateUser`, `CreateAdminUser` | the back office's user service (`users.service.ts`) |
| `Expire`, `CallsFail` | the cache's TTL; a crash or rejected call |

`ResetPassword` deletes the cached *value* instead of its key (line 754): the
code stays valid until it expires, and `RequestReset` is refused while it does.
`UpdateUser` is `PATCH /admin/users/:id`: its body goes to Prisma as it comes, no
whitelist removes a field, so it writes any status, role or flag, the status of a
suspended admin included. A request writes one field here. Not modelled is that it
changes the e-mail, phone or kind of sign-up by which the person is found.

`newest`, `spent` and `crossed` are about the verification code, `uses` and `loose`
about links, `suspended` and `overridden` about suspension. Two requests for a code
that overlap may cache one and send the other last (`crossed`); the next one that is
alone while it caches its code puts that right, and `NewestCodeWorks` holds again. An
e-mail sign-in writes the status it decided on before the suspension, and promotes a
listed admin (`overridden`); the back office's own write of a status settles both.
`SuspensionHolds` says that until it writes another, nothing else ends a suspension.

### BankAccounts

| Action | Code |
|---|---|
| `AddAccount`, `CountAccounts`, `MakeFirstDefault` | `addBankInformation`, three statements |
| `FindAccount`, `SetDefault` | setting the default |
| `FindDoomed`, `CheckPending`, `DeleteAccount` | deletion, which hands the default on |
| `Withdraw` | a withdrawal request comes to keep an account, or is over |
| `RequestFails` | a rejected call between two statements |

`entangled` records that two requests overlapped, or that one adding an account failed
before its last statement: then there may be no default, or two. A request that sets the
default and has no other beside it leaves exactly one, and ends that.

### CourseProgress

| Action | Code |
|---|---|
| `FindCourse`, `EnrollInCourse` | enrolment; a dropped one is refused as "Already enrolled" (`course.service.ts:182`) |
| `FindEnrollment`, `DeleteProgress`, `DropEnrollment` | dropping, with or without the history |
| `FindLesson`, `FindStarted` | the reads of `startLesson` and `completeLesson` |
| `WriteLesson`, `ComputeProgress`, `CommitProgress`, `RollBack` | their transaction |

The progress is kept in half lessons. Each transaction sums up what it sees: of two
that complete different lessons neither sees the other's, and the enrolment shows too
little. Three history variables separate that from all other overlaps:

- `behind` are the requests that have seen all rows and not committed when another
  changes one, `blind` says that one of them wrote the enrolment last.
  `ProgressAgrees` holds in every other state, so also after two requests that met in
  any other order, and again from the next write on.
- `missed` are requests to start a lesson that was completed after they had looked at
  it. `CompletedStays` lets a completed lesson be started again by the commit of one of
  these, on that lesson, and by nothing else but a drop.

### GroupChat

One group, since groups share no row. `member` are the GroupMember rows,
`socket` the connections, `entry` the session entries in Redis and `commands` those
on their way to it, in order; `act` are requests on the group.

| Action | Code |
|---|---|
| `CreateGroup`, `JoinGroup`, `InsertMember` | creating, joining |
| `LeaveGroup`, `RemoveMember`, `DeleteMember` | leaving, being removed |
| `SendMessage`, `MessageCreated` | a message and its event to the gateway |
| `HandleConnection`, `HandleDisconnect`, `HandleJoinGroup`, `EnterRoom` | the gateway |
| `RedisCommand`, `EntryExpires` | the session manager's commands, the TTL of an entry |
| `Restart` | the process ends: sockets close, entries stay |

`heard` is what each message reached and which membership its socket had shown,
`ended` the memberships that are over, `doubled` the users who had two sockets, or
whose entry a restart or its TTL put out of step.

### MediaLibrary

| Action | Code |
|---|---|
| `CreateTrack`, `CreateResource` | a row and the files that come with it |
| `FindTrack`, `FindResource` | the read of an update |
| `UploadAudio`, `UploadImage` | the upload under a generated key |
| `WriteTrack`, `WriteResource` | the row that names the keys |
| `EditFails`, `Tick` | a rejected call; the clock of the keys |

A resource's audio is kept under the name its file came with, although the
comment above that line speaks of a unique name: `reused` are the keys two edits
uploaded to. `stale` are the tracks written while another edit of them was open,
`latest` the edits a row was given its files by.

### UserRequests

These six parts touch no common variable. `UserRequests` puts them beside each
other; `focus` picks the one a behaviour exercises, so that the state space is
their sum and not their product. `PartsStandAlone` proves that each behaviour of
the whole is one of each part, and so what is proved of a part holds of the
whole.

## Runs

| Run | Question | Result |
|---|---|---|
| `subscription_safety` | tables after duplicates, overlaps, three days and one fault; is the promise of `Entitlements` kept | holds |
| `subscription_liveness` | are activations carried out and lapsed rows swept | holds |
| `subscription_duplicate` | is a sequence number carried out once | no |
| `subscription_first_contact` | is a stored activation carried out | no |
| `subscription_unsubscribe` | does an unsubscription end access | no |
| `audit_safety` | records, flags and postbacks in every order of webhooks, one fault; is the promise of `Conversion` kept | holds |
| `audit_liveness` | does a conversion reach the marketer | holds |
| `audit_unknown_marketer` | is a request of an unknown marketer audited | no |
| `audit_acquired` | is only the first subscription an acquisition | no |
| `wallet_payout` | does the wallet keep the ledger's promise, what can part balance and history or overdraw, are wins and reports settled | holds |
| `quiz_rewards` | grades, publication, shares and quotas with midnight, retries and a fault anywhere; is a right answer paid | holds |
| `user_requests` | what overlapping and failing requests on content, accounts, bank accounts, courses, groups and media can and cannot do | holds |

The five negative results are disagreements of the code with its documents or
its own message:

1. `README.md` says duplicates are recognised by `sequenceNo`; nothing looks.
2. Two first notifications of a number race to create the user; the loser's
   unique violation is swallowed by the emitter and the activation is lost,
   although the flow analysis promises persistence and retry.
3. A lapsed row stays ACTIVE for the two days of grace. An unsubscription takes
   *any* ACTIVE row, may cancel that one, and confirms by SMS while the newer
   row goes on giving access. One listener at a time is enough.
4. The flow analysis says processing continues when the marketer is unknown; a
   debug message reads the name of null and the audit transaction rolls back.
5. `acquired` is documented as the first attributed subscription; every
   attributed one gets it.

### Bounds

`subscription_safety`: one number and one product (rows of different keys never
meet in the code), two deliveries and two listeners (every race here is between
two), one fault, half-day ticks and seven of them: a row of one day's validity
lapses, passes its two days of grace and meets a sweep, also off a midnight
boundary. `subscription_unsubscribe` needs three deliveries, with one listener.
`audit_safety`: two deliveries of one request or of two, two notifications of
either outcome, one crash or rejected call, and two tries of a retry job, which
already is a retry; the other audit runs have the code's three, and the theorems
hold for any number. `audit_liveness`: no fault, since a fault excuses every obligation there.
`wallet_payout`: two spins, two requests and two webhooks (each race is between
two transactions of one wallet), one fault, a prize of two on an opening balance
of one and requests of two: no request passes the check before a win, either
does after one, and both together overdraw. A second user has no wallet.
`quiz_rewards`: two submissions (two winners share a pool, one winner may block
the other), the second of the same user or of one without a wallet, so that
quotas overlap or a reward aborts; one attempt each; two tries instead of three,
which already is a retry; a pool of eleven, which two cannot share evenly; two
days, the second for what is late; one fault.
`user_requests`: two requests at once on rows that allow one read; three calls of an
account with two codes (an old and a new one), one link and one failure, for an
account that does not exist, or came by phone or e-mail; two bank accounts and four
requests, enough to add both, move the default and delete it; two lessons and
five requests, enough to enrol, finish the course and drop it; two people, one of
whom makes the group, two sockets, three requests and a restart; one track and
two resources of one folder, three edits, one file name, two milliseconds.
Deliveries, jobs and listeners are interchangeable and are symmetry sets in the
safety runs; liveness runs use no symmetry. Deadlock is not checked: the bounds
on deliveries, time and faults let every behaviour end.

### Fairness

`FairSpec` has weak fairness of each worker step, each listener step, the
sweep, and in `Wallet` each step of a handler, also of one that waits for a lock:
a transaction that holds it ends, or times out, which is a fault. In
`QuizRewards` it is that of each submission's next step, of the worker, of delayed jobs
coming back and of the schedule at 23:59. BullMQ takes a waiting job whenever its
worker is free, and Node resumes each listener whose call has returned; a call that never returns is outside the
model (Prisma and the HTTP client time out, which is a fault here). Webhooks,
users, faults, midnight and the clock are not fair.

### BullMQ

External; modelled from how it is configured. A worker takes one job at a time; a job
that throws is tried again, three attempts in all (`icell.module.ts`,
`bull-config.ts`, `queueSecureDRetry`); a job whose process dies is stalled and
taken again once (the library's default `maxStalledCount`: the value of
`bull-config.ts` is never passed on).

## Proofs

`SubscriptionProcessingProofs` proves, for every set of numbers, products,
requests, listeners and jobs and for any number of faults and days:

- `TypeCorrect`: `TypeOK` is an invariant, including that ids held across an
  await are ids of rows.
- `LatestActiveWinsAlways` and `NoEarlyExpiryAlways`, from the inductive
  invariant `SafeInv`. `LatestActiveWins` is not inductive alone: a create
  breaks it unless the listener's window is known to be clean. `Windows` says
  that of a key that never collided at most one listener is between lookup and
  create, and that a listener about to create faces no effective row, or one
  about to replace faces none but the one it found; `HeldRows` says that what a
  listener or the sweep will write is a row of its key, or lapsed. Steps that
  write no row (`QuietStep`) and steps that only end a row (`StatusStep`) are
  treated once each.
- `FailedRowsAreFinalAlways`: no step changes a FAILED row or makes a row ACTIVE
  again, from the types and `HeldRows`.
- `EveryUserHasWalletAlways`, `ChargedMeansSubscribedAlways` and
  `QuizAttemptsMatchRowsAlways`. Each relates a table to the listeners in one stage of
  their work: those about to create a wallet, those that have charged and not created,
  those that owe a user attempts. A step is `Quiet`, leaving the stage and its table
  alone; or ends a listener in it, which is a fault; or moves one listener into or out
  of it and writes what the stage is about, and then one lemma says what count or sum
  changes by. The wallet's needs `WalletInv` beside it: who is being given one is a user.
- `SubscriptionsImplementEntitlements`: `EntitlementsStart` maps the initial state,
  `EntitlementsStep` every step, from `EntitledInv`. That adds to `SafeInv` and the
  counted charges `HeldKeys`: the row a listener is about to write is of the key it
  serves, and one that cancels serves an unsubscription. A listener that is about to
  replace a row has a charge that is still owed (`ChargeIsOwed`), which is why its write
  is an `End`.

Sums are numbers of units (`Totals`): a prize of two is a set of two pairs, and a sum
over a set is the cardinality of their union. `TotalsProofs` derives from the theorems
on finite sets what the proofs need: adding or removing an element, and monotony.

`AuditAttributionProofs` proves, for every set of requests, notifications,
deliveries and known prefixes and any number of faults:

- `TypeCorrect`, as above. The lookup of the newest matching notification is a
  CHOOSE; that it returns a match is the lemma `Greatest`, from the
  well-foundedness of the naturals.
- `RecordsSayWhatWasReported` (`NoOverclaim`) and `OnlyConversionsArePosted`,
  from `AuditInv`: what listener and retry carry between steps was found for
  their own request (`ListenerOK`, `RetryOK`), each step to a postback implies
  the record is committed and linked, and nothing happens for a delivery that is
  not stored (`Fresh`). It is kept because matches only grow (`Growth`) and a step
  of one delivery touches no other's state (`ListenerKeeps`, `RetryKeeps`), except
  that it may mark a duplicate's row processed.
- `MarketerToldOnce` (`PostbackOnce`), from `CountInv`: a listener queues a retry
  only when it has no marketer of its own, so it cannot post unless the retry
  attributed the record before the listener's re-read, which is `overtaken`.
- `MarkedRowsAreAudited` (`ProcessedMeansAudited`), from `RowsInv`: the row a listener
  inserts for, and the one a record keeps, are of its own request. The count is kept
  because the step that marks a row of a request makes a record of the same request, or
  is that of a delivery in `unseen`, which marks once.
- `FlagsFollowLinks` (`FlagsAgree`), from `FlagsInv`, which says at each point of the
  listener and of the retry which links the flags were or will be computed from; it
  needs the other three invariants: without a fault or an overtaking retry the two
  never write one record at the same time.
- `AuditImplementsConversion`: one lemma per action of `Conversion`. What a
  record says is honest by `AuditInv` and `Backed` (a marketer came with a
  notification, only an unsubscription is a churn); that a postback is excused is
  `CountInv` after the step.

`WalletProofs` proves, for every set of users, prizes, amounts and opening
balances and any number of spins, requests, webhooks and faults:

- `TypeCorrect`, from `WalletInv`.
- `WalletImplementsLedger`: the initial state maps to `Ledger`'s, and every
  step to a step of it or a stutter. One lemma per action; they use `WalletInv`
  for what a handler has found and which statuses a request may have then.
- `HistoryExplainsBalanceAlways`, from `HistoryInv`: as long as a wallet's debits
  met no other transaction, a debit that has read it is alone with it
  (`DebitAlone`) and its read is still the balance.
- `OverdraftNeedsTwoDebitsAlways`, from `CoverInv`: until something is debited
  from a wallet its balance covers each of its requests, and so does what an open
  debit of it has read (`Covered`).

`QuizRewardsProofs` proves, for any number of users, submissions, days, tries and
faults:

- `TypeCorrect`, `GradeIsCorrectAlways` and `PublishedIsFinalAlways`, from `QuizInv`.
  It says of every job, waiting, delayed or taken, that the attempt it grades has a row
  (`GoodJobs`), of every submission that the day it asked for is not after its set and
  neither is after today (`SubmitOK`), and of the worker that an attempt it has found
  ungraded is still so when it writes (`WorkerOK`).
- `QuotaHeldAlways`, from `QuotaInv`: what a user has left and has used are the quota,
  and a user who never overlapped has at most one submission in flight and still an
  attempt for it. `QuotaHeld` needs no hypothesis about faults: the decrements a crash
  loses are in its count.
- `RewardsWithinPoolAlways`, from `PoolInv`: while a round is being paid (`SharedOut`)
  the shares of those paid already are on top of the earlier rounds, each within the
  pool and what rounding up adds (`Ceiling`). It is inductive only with `WonOK`, that the
  winners of a round are published, passed and of one day, and `CreditOK`, that who is
  still to be paid has not been in this round.

`AuthenticationProofs`, for any number of requests, codes, links and failures:
`SuspensionHoldsAlways`, `LinkUsedOnceAlways`, `NewestCodeWorksAlways`, each from
an invariant of its own (`SuspendInv`, `LinkInv`, `CodeInv`) that says what a request
carries between its read and its write, and what the history says of it.

`GroupChatProofs`, for any users, sockets, requests and restarts:
`HeardByMembersAlways` from `ChatInv`; `SessionOfOpenSocketAlways` from
`SessionInv`, which speaks of what an entry *will be* once the commands on their
way are carried out (`WillBe`): that is the open socket also while Redis is behind.

`UserRequestsProofs`, for all parameters:

- `PartsStandAlone`, and from it `TogetherAlways` and `TypesTogether`, which carry the
  theorems on all six parts and their types to the composed specification that the run
  checks.
- of `ContentAccess`: `AccessTypeCorrect`; `SpentMeansExhaustedAlways` from `SpentInv`;
  `AccessWithinLimitAlways` from `LimitInv`, which bounds the count *and* the reads let
  in and still to be counted (`Uncounted`): a read is let in below the limit, with those
  before it noted, and from then on counting one only moves it from one side to the other.
- `OneDefaultAlways`, from `BankInv`: unless entangled at most one request is
  under way (`PendingOK`), and a default exists except for an account that is
  just being added as the first.
- `ProgressAgreesAlways`, `CompletedStaysAlways`, from `CourseInv`: what a request has
  summed up is still so when it commits, or it is in `behind` (`SumOK`, which a drop
  needs too, of the rows it has deleted); one that starts a completed lesson is in
  `missed` (`LookOK`); and two never write one lesson at a time (`WritesAlone`, from the
  row locks).
- `ShowsItsFilesAlways`, from `MediaInv`: what an open edit has uploaded is still
  there under a key nobody reused (`EditOK`), and so is what a row names (`RowShows`).

The proofs rest on the ASSUMEs of the modules: requests name numbers and
operation kinds of the model, the catalogue gives naturals, bounds are naturals, and
the sets of listeners and deliveries that are counted are finite.
TLC evaluates them in every run.

Only model-checked: what must eventually happen, that is `LapsedRowsAreSwept`,
`ServedUnlessFault`, `ConversionIsPosted`, `WonIsCredited`, `ReportIsSettled` and
`WinnerIsPaid`. Liveness under fairness needs ENABLED, which is out of the prover's
reach. Every other property of a run that holds is a theorem. The five disagreements
below the table of runs are counterexamples, which TLC finds.

## Plan

Done: the modules above, and a theorem for each of their safety properties. Left, in
this order:

1. An abstract specification of a prize, from submission to credit, that `QuizRewards`
   refines, and one of a code or link that `Authentication` refines.
2. `QuizRewards` with several workers and with the sets the back office writes.

## Not modelled

The larger part of the implementation's lines states no behaviour a model could
add to: request and response DTOs, controllers that call one service method,
generated entities, Swagger decorations, module wiring and the configuration of
the generated back-office screens. Of the services, these are left out:

- read-only queries, in all services and nearly all of the music library, Bible,
  Quran, devotionals, prayers, quotes, and the statistics of courses and users;
- single rows that no other row depends on: favourites, bookmarks, journals,
  artists, albums, profile fields, the texts of the back office;
- creation of courses, one nested create that happens as a whole or not at all;
  quiz sets, which the generated screens write;
- text, numbers and URLs: messages, click ids, matching of SMS keywords, the
  signatures of the bank; what depends on them is a choice of the model;
- the SMS webhook, whose handler changes no state; the traffic monitor, a time
  stamp in Redis; typing events of the chat;
- re-registration of schedules at start-up, which leaves one schedule each;
- the libraries: BullMQ, Redis, S3 and PostgreSQL appear by what the code relies on.
