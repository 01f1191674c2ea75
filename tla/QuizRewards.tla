---------------------------- MODULE QuizRewards -----------------------------
(***************************************************************************)
(* A day of the quiz of one religion: users submit attempts, a job grades  *)
(* each of them, and at 23:59 one job publishes the day's attempts, shares *)
(* the pool among the winning ones and notifies the winners.               *)
(*                                                                         *)
(* All jobs share a BullMQ queue with one worker; submissions are HTTP     *)
(* requests that run concurrently with it. "The day's set" is looked up by *)
(* each query at the day it runs: midnight may pass between any two steps. *)
(***************************************************************************)
EXTENDS Integers, Sequences, FiniteSets, Totals

CONSTANTS
  Users,
  WalletOwners,    \* those whose sign-up got as far as the wallet
  Quota,           \* user -> availableQuizAttempts at the start
  Tries,           \* attempts per job (3)
  Pool,            \* QUIZ_WINNINGS_POOL_AMOUNT, in the wallet's smallest unit
  MaxSubmissions,  \* bound: submissions
  Submitters,      \* bound: who may make each of them
  MaxDays,         \* bound: days; the last one is only for what is late
  MaxFaults        \* bound: crashes and rejected calls

None == 0
Submissions == 1..MaxSubmissions   \* numbered in the order they begin
Days == 1..MaxDays                 \* also the quiz set of that day

ASSUME QuizAssumption ==
  /\ WalletOwners \subseteq Users /\ None \notin Users
  /\ Quota \in [Users -> Nat]
  /\ Tries \in Nat \ {0} /\ Pool \in Nat
  /\ Submitters \in [Submissions -> SUBSET Users]
  /\ MaxSubmissions \in Nat /\ MaxDays \in Nat \ {0} /\ MaxFaults \in Nat

VARIABLES
  day,        \* the day of the year
  fired,      \* today's reward job has been added
  submits,    \* the request behind each submission
  attempts,   \* QuizAttempt rows; set None: no row
  available,  \* user.availableQuizAttempts
  queue,      \* waiting jobs
  delayed,    \* failed jobs waiting to be retried
  worker,     \* the job being processed
  credits,    \* QUIZ_REWARD history rows of each attempt
  paid,       \* what they add up to
  runs,       \* history: how often the pool of each day was shared out
  faults,     \* crashes and rejected calls so far
  overlapped  \* history: users with two submissions in flight at once

vars == <<day, fired, submits, attempts, available, queue, delayed, worker, credits,
          paid, runs, faults, overlapped>>
jobVars    == <<queue, delayed, worker>>
rewardVars == <<credits, paid, runs>>

NoSubmit  == [pc |-> "none", user |-> None, asked |-> None, right |-> FALSE]
NoAttempt == [set |-> None, graded |-> FALSE, passed |-> FALSE, published |-> FALSE]
NoJob     == [kind |-> "none", of |-> None, made |-> 0, stalled |-> 0]
Idle      == [pc |-> "idle", job |-> NoJob, todo |-> {}, won |-> {}]

Init ==
  /\ day = 1
  /\ fired = FALSE
  /\ submits = [s \in Submissions |-> NoSubmit]
  /\ attempts = [s \in Submissions |-> NoAttempt]
  /\ available = Quota
  /\ queue = <<>>
  /\ delayed = {}
  /\ worker = Idle
  /\ credits = [s \in Submissions |-> 0]
  /\ paid = [s \in Submissions |-> 0]
  /\ runs = [d \in Days |-> 0]
  /\ faults = 0
  /\ overlapped = {}

----------------------------------------------------------------------------
(* Submissions: QuizAttemptInterceptor and submitQuizAttempt               *)

InFlight(s) == submits[s].pc \in {"save", "enqueue", "decrement"}
Move(s, pc) == submits' = [submits EXCEPT ![s].pc = pc]

\* "No quiz attempts available" otherwise. The mutant is off by one.
HasAttemptsOffByOne(u) == available[u] >= 0
HasAttempts(u) == available[u] > 0

\* The request answers the questions of the day it arrives.
CheckAttempts(s, u) ==
  /\ submits[s].pc = "none" /\ \A t \in Submissions : t < s => submits[t].pc # "none"
  /\ day < MaxDays
  /\ HasAttempts(u)
  /\ submits' = [submits EXCEPT ![s].pc = "save", ![s].user = u, ![s].asked = day]
  /\ overlapped' = IF \E t \in Submissions : InFlight(t) /\ submits[t].user = u
                   THEN overlapped \cup {u} ELSE overlapped
  /\ UNCHANGED <<day, fired, attempts, available, jobVars, rewardVars, faults>>

\* One transaction stores the attempt, under today's set, and its answers, all of
\* them right or not. An answer that does not exist rolls it back and leaves nothing.
SaveAttempt(s) ==
  /\ submits[s].pc = "save"
  /\ \/ /\ attempts' = [attempts EXCEPT ![s].set = day]
        /\ \E right \in BOOLEAN :
             submits' = [submits EXCEPT ![s].pc = "enqueue", ![s].right = right]
     \/ /\ submits' = [submits EXCEPT ![s] = NoSubmit]
        /\ UNCHANGED attempts
  /\ UNCHANGED <<day, fired, available, jobVars, rewardVars, faults, overlapped>>

\* The job is added, and the SMS after it never throws.
EnqueueGrading(s) ==
  /\ submits[s].pc = "enqueue"
  /\ queue' = Append(queue, [NoJob EXCEPT !.kind = "grade", !.of = s])
  /\ Move(s, "decrement")
  /\ UNCHANGED <<day, fired, attempts, available, delayed, worker, rewardVars, faults, overlapped>>

\* Once the handler has answered, and not awaited.
DecrementAttempts(s) ==
  /\ submits[s].pc = "decrement"
  /\ available' = [available EXCEPT ![submits[s].user] = @ - 1]
  /\ Move(s, "done")
  /\ UNCHANGED <<day, fired, attempts, jobVars, rewardVars, faults, overlapped>>

\* The job cannot be added: "Failed to save quiz answers", but the row stays.
SubmitFails(s) ==
  /\ submits[s].pc = "enqueue"
  /\ faults < MaxFaults
  /\ faults' = faults + 1
  /\ Move(s, "failed")
  /\ UNCHANGED <<day, fired, attempts, available, jobVars, rewardVars, overlapped>>

----------------------------------------------------------------------------
(* The queue                                                               *)

MaxStalled == 1

Waiting(kind) == worker.pc = "idle" /\ queue # <<>> /\ Head(queue).kind = kind

\* QuizProcessor rethrows: the job waits for its next attempt, or is given up. The
\* mutant gives it one more.
GivenBackOnceMore(job) ==
  LET again == [job EXCEPT !.made = @ + 1] IN
  IF job.made < Tries THEN delayed \cup {again} ELSE delayed
GivenBack(job) ==
  LET again == [job EXCEPT !.made = @ + 1] IN
  IF again.made < Tries THEN delayed \cup {again} ELSE delayed

RetryJob ==
  /\ \E j \in delayed :
       /\ delayed' = delayed \ {j}
       /\ queue' = Append(queue, j)
  /\ UNCHANGED <<day, fired, submits, attempts, available, worker, rewardVars, faults, overlapped>>

JobFails ==
  /\ worker.pc # "idle"
  /\ faults < MaxFaults
  /\ faults' = faults + 1
  /\ delayed' = GivenBack(worker.job)
  /\ worker' = Idle
  /\ UNCHANGED <<day, fired, submits, attempts, available, queue, rewardVars, overlapped>>

\* The repeated job of 23:59, and midnight.
FireRewards ==
  /\ ~fired /\ day < MaxDays
  /\ fired' = TRUE
  /\ queue' = Append(queue, [NoJob EXCEPT !.kind = "reward", !.of = day])
  /\ UNCHANGED <<day, submits, attempts, available, delayed, worker, rewardVars, faults, overlapped>>

Midnight ==
  /\ fired /\ day < MaxDays
  /\ day' = day + 1
  /\ fired' = FALSE
  /\ UNCHANGED <<submits, attempts, available, jobVars, rewardVars, faults, overlapped>>

----------------------------------------------------------------------------
(* processQuizGrading                                                      *)

\* The mutant would grade a published attempt.
UngradedAny(s) == ~attempts[s].graded
Ungraded(s) == ~attempts[s].graded /\ ~attempts[s].published

FindAttempt ==
  /\ Waiting("grade")
  /\ queue' = Tail(queue)
  /\ IF Ungraded(Head(queue).of)
     THEN worker' = [Idle EXCEPT !.pc = "grade", !.job = Head(queue)] /\ UNCHANGED delayed
     ELSE delayed' = GivenBack(Head(queue)) /\ UNCHANGED worker
  /\ UNCHANGED <<day, fired, submits, attempts, available, rewardVars, faults, overlapped>>

\* Answers are looked up in today's set; the questions of another are not there.
\* The mutant skips answers it does not find.
AskedTodayOrSkip(s) == TRUE
AskedToday(s) == submits[s].asked = day

\* A fifth of the passing score for each right answer, from the stored score on,
\* which only this write changes. What the worker reads of the attempt and the
\* set cannot change before it writes.
GradeAttempt ==
  LET s == worker.job.of IN
  /\ worker.pc = "grade"
  /\ worker' = Idle
  /\ IF AskedToday(s)
     THEN /\ attempts' = [attempts EXCEPT
               ![s].graded = TRUE,
               ![s].passed = submits[s].asked = day /\ submits[s].right]
          /\ UNCHANGED delayed
     ELSE delayed' = GivenBack(worker.job) /\ UNCHANGED attempts
  /\ UNCHANGED <<day, fired, submits, available, queue, rewardVars, faults, overlapped>>

----------------------------------------------------------------------------
(* publishAllTodaysQuizAttempts, processQuizWinningRewards                 *)

\* The attempts are found, graded or not, and then published by id.
FindUnpublished ==
  /\ Waiting("reward")
  /\ queue' = Tail(queue)
  /\ worker' = [Idle EXCEPT !.pc = "publish", !.job = Head(queue),
       !.todo = {s \in Submissions : attempts[s].set = day /\ ~attempts[s].published}]
  /\ UNCHANGED <<day, fired, submits, attempts, available, delayed, rewardVars, faults, overlapped>>

PublishAttempts ==
  /\ worker.pc = "publish"
  /\ attempts' = [s \in Submissions |->
       IF s \in worker.todo THEN [attempts[s] EXCEPT !.published = TRUE] ELSE attempts[s]]
  /\ worker' = [worker EXCEPT !.pc = "winners", !.todo = {}]
  /\ UNCHANGED <<day, fired, submits, available, queue, delayed, rewardVars, faults, overlapped>>

\* The mutant looks for winners before they are published.
WinnersUnpublished ==
  {s \in Submissions : attempts[s].set = day /\ ~attempts[s].published /\ attempts[s].passed}
Winners ==
  {s \in Submissions : attempts[s].set = day /\ attempts[s].published /\ attempts[s].passed}

\* pool * (count / n) / count, rounded half up where the wallet stores it. The
\* mutant gives each attempt the share of its user.
ShareOfUser(s, won) ==
  (Pool * Cardinality({t \in won : submits[t].user = submits[s].user})) \div Cardinality(won)
ShareOf(s, won) == (2 * Pool + Cardinality(won)) \div (2 * Cardinality(won))

FindWinners ==
  /\ worker.pc = "winners"
  /\ worker' = IF Winners = {} THEN [worker EXCEPT !.pc = "notify"]
               ELSE [worker EXCEPT !.pc = "credit", !.won = Winners, !.todo = Winners]
  /\ runs' = IF Winners = {} THEN runs ELSE [runs EXCEPT ![day] = @ + 1]
  /\ UNCHANGED <<day, fired, submits, attempts, available, queue, delayed, credits, paid, faults, overlapped>>

\* creditUserWallet for the next winning attempt, whatever was credited before;
\* for a user without a wallet it throws.
CreditWinner(s) ==
  /\ worker.pc = "credit" /\ s \in worker.todo
  /\ IF submits[s].user \in WalletOwners
     THEN /\ credits' = [credits EXCEPT ![s] = @ + 1]
          /\ paid' = [paid EXCEPT ![s] = @ + ShareOf(s, worker.won)]
          /\ worker' = [worker EXCEPT !.todo = @ \ {s},
                                      !.pc = IF worker.todo = {s} THEN "notify" ELSE "credit"]
          /\ UNCHANGED delayed
     ELSE /\ delayed' = GivenBack(worker.job)
          /\ worker' = Idle
          /\ UNCHANGED <<credits, paid>>
  /\ UNCHANGED <<day, fired, submits, attempts, available, queue, runs, faults, overlapped>>

\* The winners are looked up once more; the SMS never throws.
NotifyWinners ==
  /\ worker.pc = "notify"
  /\ worker' = Idle
  /\ UNCHANGED <<day, fired, submits, attempts, available, queue, delayed, rewardVars, faults, overlapped>>

----------------------------------------------------------------------------

\* The process dies: requests are gone, and the worker's job is taken up again
\* unless this is the second time.
Crash ==
  /\ faults < MaxFaults
  /\ faults' = faults + 1
  /\ submits' = [s \in Submissions |->
       IF submits[s].pc = "save" THEN NoSubmit
       ELSE IF InFlight(s) THEN [submits[s] EXCEPT !.pc = "failed"]
       ELSE submits[s]]
  /\ queue' = IF worker.pc # "idle" /\ worker.job.stalled < MaxStalled
              THEN <<[worker.job EXCEPT !.stalled = @ + 1]>> \o queue ELSE queue
  /\ worker' = Idle
  /\ UNCHANGED <<day, fired, attempts, available, delayed, rewardVars, overlapped>>

SubmitStep(s) == SaveAttempt(s) \/ EnqueueGrading(s) \/ DecrementAttempts(s)
WorkerStep ==
  \/ FindAttempt \/ GradeAttempt
  \/ FindUnpublished \/ PublishAttempts \/ FindWinners
  \/ \E s \in Submissions : CreditWinner(s)
  \/ NotifyWinners

Next ==
  \/ \E s \in Submissions :
       \/ \E u \in Submitters[s] : CheckAttempts(s, u)
       \/ SubmitStep(s) \/ SubmitFails(s)
  \/ WorkerStep \/ JobFails \/ RetryJob
  \/ FireRewards \/ Midnight \/ Crash

Spec == Init /\ [][Next]_vars

\* Node resumes requests, BullMQ hands out waiting and delayed jobs, and 23:59
\* comes every day. Users, midnight and faults are not fair.
FairSpec ==
  /\ Spec
  /\ \A s \in Submissions : WF_vars(SubmitStep(s))
  /\ WF_vars(WorkerStep) /\ WF_vars(RetryJob) /\ WF_vars(FireRewards)

----------------------------------------------------------------------------
(* Properties                                                              *)

Job == [kind : {"none", "grade", "reward"}, of : Submissions \cup Days \cup {None},
        made : 0..(Tries - 1), stalled : 0..MaxStalled]
Submit == [pc : {"none", "save", "enqueue", "decrement", "done", "failed"},
           user : Users \cup {None}, asked : Days \cup {None}, right : BOOLEAN]
Attempt == [set : Days \cup {None}, graded : BOOLEAN, passed : BOOLEAN, published : BOOLEAN]
Worker == [pc : {"idle", "grade", "publish", "winners", "credit", "notify"},
           job : Job, todo : SUBSET Submissions, won : SUBSET Submissions]

\* Types: no job is tried more often than it may, and a job to grade is one of an
\* attempt that has a row.
TypeOK ==
  /\ day \in Days
  /\ fired \in BOOLEAN
  /\ submits \in [Submissions -> Submit]
  /\ attempts \in [Submissions -> Attempt]
  /\ available \in [Users -> Int]
  /\ queue \in Seq(Job)
  /\ delayed \subseteq Job
  /\ worker \in Worker
  /\ credits \in [Submissions -> Nat]
  /\ paid \in [Submissions -> Nat]
  /\ runs \in [Days -> Nat]
  /\ faults \in Nat
  /\ overlapped \subseteq Users
  /\ worker.job.kind = "grade" => attempts[worker.job.of].set # None

\* A user whose submissions never overlapped never owes an attempt, whatever fails,
\* and has no more of them answered than availableQuizAttempts allowed, those
\* apart whose decrement a crash lost.
QuotaHeld ==
  \A u \in Users \ overlapped :
    /\ available[u] >= 0
    /\ Cardinality({s \in Submissions :
         submits[s].user = u /\ submits[s].pc \in {"decrement", "done"}}) <= Quota[u]

\* However jobs are delayed, retried and run late: a graded attempt answered the
\* questions of its own set, and passed if and only if it was right.
GradeIsCorrect ==
  \A s \in Submissions :
    attempts[s].graded =>
      /\ submits[s].asked = attempts[s].set
      /\ attempts[s].passed <=> submits[s].right

\* Grade, pass mark and publication of a published attempt are final: the winners
\* of a day do not change while they are rewarded.
PublishedIsFinal ==
  [][\A s \in Submissions : attempts[s].published => attempts'[s] = attempts[s]]_vars

Entered(d) == {s \in Submissions : attempts[s].set = d}

\* Only published, passed attempts are credited, each at most once each time the
\* pool of its day is shared out, and each time the shares add up to the pool, to
\* half a unit per attempt.
RewardsWithinPool ==
  \A d \in Days :
    /\ 2 * Total(paid, Entered(d)) <= runs[d] * (2 * Pool + MaxSubmissions)
    /\ \A s \in Entered(d) :
         /\ credits[s] <= runs[d]
         /\ credits[s] > 0 => attempts[s].passed /\ attempts[s].published

\* A right attempt whose grading is queued before 23:59 of its day is graded,
\* published and paid, unless midnight overtakes the jobs, a fault strikes, or
\* the rewards stop at a winner without a wallet.
WinnerIsPaid ==
  \A s \in Submissions :
    /\ submits[s].pc = "decrement" /\ submits[s].right
    /\ submits[s].asked = day /\ attempts[s].set = day /\ ~fired
    ~> \/ credits[s] > 0
       \/ day > attempts[s].set
       \/ faults > 0
       \/ \E t \in Submissions : attempts[t].passed /\ submits[t].user \notin WalletOwners
=============================================================================
