------------------------- MODULE QuizRewardsProofs --------------------------
(***************************************************************************)
(* Theorems about QuizRewards: its types; that what is graded is what was  *)
(* asked, and what is published final; the quota of submissions; and that  *)
(* rewards stay within the pool. They need to know of every job to grade,  *)
(* wherever it is, that its attempt has a row, of the job in the worker    *)
(* that the attempt it has looked at is still ungraded, and of one that    *)
(* rewards whom it has yet to credit in this round.                        *)
(***************************************************************************)
EXTENDS QuizRewards, TotalsProofs

GoodJobs ==
  {j \in Job : j.kind = "grade" => j.of \in Submissions /\ attempts[j.of].set # None}

\* A row is written by the request behind it, on the day it was asked or later; and
\* what is graded is what was asked.
SubmitOK(s) ==
  /\ submits[s].pc \in {"none", "save"} => attempts[s].set = None
  /\ submits[s].pc = "save" => submits[s].asked <= day
  /\ submits[s].pc = "enqueue" => attempts[s].set # None
  /\ attempts[s].set = None => ~attempts[s].graded /\ ~attempts[s].published
  /\ attempts[s].set # None => submits[s].asked <= attempts[s].set /\ attempts[s].set <= day
  /\ attempts[s].graded =>
       submits[s].asked = attempts[s].set /\ (attempts[s].passed <=> submits[s].right)

WorkerOK ==
  /\ worker.pc = "grade" => worker.job.kind = "grade" /\ Ungraded(worker.job.of)
  /\ worker.pc = "publish" => \A s \in worker.todo : attempts[s].set # None
  /\ worker.pc = "credit" => worker.won # {}

CountersOK ==
  /\ day \in Days /\ fired \in BOOLEAN /\ available \in [Users -> Int]
  /\ credits \in [Submissions -> Nat] /\ paid \in [Submissions -> Nat]
  /\ runs \in [Days -> Nat] /\ faults \in Nat /\ overlapped \subseteq Users

QuizInv ==
  /\ CountersOK
  /\ submits \in [Submissions -> Submit] /\ attempts \in [Submissions -> Attempt]
  /\ queue \in Seq(GoodJobs) /\ delayed \subseteq GoodJobs
  /\ worker \in Worker /\ worker.job \in GoodJobs
  /\ WorkerOK
  /\ \A s \in Submissions : SubmitOK(s)

LEMMA InvIsStronger == QuizInv => TypeOK /\ GradeIsCorrect
<1> SUFFICES ASSUME QuizInv PROVE TypeOK /\ GradeIsCorrect  OBVIOUS
<1>1. GoodJobs \subseteq Job
  BY DEF GoodJobs
<1>2. queue \in Seq(Job)
  BY <1>1 DEF QuizInv
<1>3. worker.job.kind = "grade" => attempts[worker.job.of].set # None
  BY DEF QuizInv, GoodJobs
<1>4. TypeOK
  BY <1>1, <1>2, <1>3 DEF QuizInv, CountersOK, TypeOK
<1>5. GradeIsCorrect
  BY DEF QuizInv, SubmitOK, GradeIsCorrect
<1> QED
  BY <1>4, <1>5

LEMMA Literals ==
  /\ NoSubmit \in Submit /\ NoSubmit.pc = "none"
  /\ NoAttempt \in Attempt /\ NoAttempt.set = None /\ ~NoAttempt.graded /\ ~NoAttempt.published
  /\ NoJob \in GoodJobs /\ NoJob.kind = "none" /\ NoJob.made = 0 /\ NoJob.stalled = 0
  /\ Idle \in Worker /\ Idle.pc = "idle" /\ Idle.job = NoJob
<1>1. NoSubmit \in Submit /\ NoSubmit.pc = "none"
  BY DEF NoSubmit, Submit
<1>2. NoAttempt \in Attempt /\ NoAttempt.set = None /\ ~NoAttempt.graded /\ ~NoAttempt.published
  BY DEF NoAttempt, Attempt
<1>3. NoJob \in Job /\ NoJob.kind = "none" /\ NoJob.made = 0 /\ NoJob.stalled = 0
  BY QuizAssumption DEF QuizAssumption, NoJob, Job, MaxStalled
<1>4. Idle \in Worker /\ Idle.pc = "idle" /\ Idle.job = NoJob
  BY <1>3 DEF Idle, Worker
<1> QED
  BY <1>1, <1>2, <1>3, <1>4 DEF GoodJobs

LEMMA Initially == Init => QuizInv
<1> SUFFICES ASSUME Init PROVE QuizInv  OBVIOUS
<1>1. CountersOK
  <2>1. available \in [Users -> Int] /\ day \in Days
    BY QuizAssumption DEF QuizAssumption, Init, Days
  <2> QED
    BY <2>1 DEF Init, CountersOK
<1>2. \A s \in Submissions : submits[s] = NoSubmit /\ attempts[s] = NoAttempt
  BY DEF Init
<1>3. WorkerOK
  BY Literals DEF Init, WorkerOK
<1>4. \A s \in Submissions : SubmitOK(s)
  BY <1>2, Literals DEF SubmitOK
<1>5. queue \in Seq(GoodJobs) /\ delayed \subseteq GoodJobs
  BY DEF Init
<1>6. worker \in Worker /\ worker.job \in GoodJobs
  BY Literals DEF Init
<1> QED
  BY <1>1, <1>3, <1>4, <1>5, <1>6, Literals DEF Init, QuizInv

(* Rows are never deleted, so a good job stays one.                        *)
LEMMA QuizKept ==
  ASSUME QuizInv, CountersOK',
         submits' \in [Submissions -> Submit], attempts' \in [Submissions -> Attempt],
         \A s \in Submissions : attempts[s].set # None => attempts'[s].set # None,
         queue' \in Seq(GoodJobs), delayed' \subseteq GoodJobs,
         worker' \in Worker, worker'.job \in GoodJobs, WorkerOK',
         \A s \in Submissions : SubmitOK(s)'
  PROVE  QuizInv'
<1>1. GoodJobs \subseteq GoodJobs'
  BY DEF GoodJobs
<1>2. queue' \in Seq(GoodJobs')
  BY <1>1
<1> QED
  BY <1>1, <1>2 DEF QuizInv

LEMMA GivenBackGood ==
  ASSUME QuizInv, NEW j \in GoodJobs
  PROVE  GivenBack(j) \subseteq GoodJobs
<1> DEFINE again == [j EXCEPT !.made = @ + 1]
<1>1. j \in Job /\ j.made \in Nat /\ Tries \in Nat
  BY QuizAssumption DEF QuizAssumption, GoodJobs, Job
<1>2. again.kind = j.kind /\ again.of = j.of /\ again.made = j.made + 1
  BY <1>1 DEF Job
<1>3. j.made + 1 < Tries => again \in Job
  BY <1>1 DEF Job
<1>4. GivenBack(j) = IF again.made < Tries THEN delayed \cup {again} ELSE delayed
  BY DEF GivenBack
<1> HIDE DEF again
<1>5. again.made < Tries => again \in GoodJobs
  BY <1>2, <1>3 DEF GoodJobs
<1> QED
  BY <1>4, <1>5 DEF QuizInv

LEMMA ShareIsNat ==
  ASSUME NEW s, NEW won \in SUBSET Submissions, won # {}
  PROVE  ShareOf(s, won) \in Nat
<1> DEFINE n == Cardinality(won)
<1>1. IsFiniteSet(won)
  <2>1. IsFiniteSet(Submissions)
    BY QuizAssumption, FS_Interval, 1 \in Int, MaxSubmissions \in Int DEF QuizAssumption, Submissions
  <2> QED
    BY <2>1, FS_Subset
<1>2. n \in Nat /\ n # 0
  BY <1>1, FS_CardinalityType, FS_EmptySet
<1> HIDE DEF n
<1>3. \A a \in Nat, b \in Nat : b > 0 => a \div b \in Nat
  BY SMT
<1>4. 2 * Pool + n \in Nat /\ 2 * n \in Nat /\ 2 * n > 0
  BY <1>2, QuizAssumption DEF QuizAssumption
<1> QED
  BY <1>3, <1>4 DEF ShareOf, n

(***************************************************************************)
(* Submissions                                                             *)
(***************************************************************************)

LEMMA WorkerStands ==
  ASSUME QuizInv, worker' = worker, attempts' = attempts
  PROVE  WorkerOK' /\ worker' \in Worker /\ worker'.job \in GoodJobs
BY DEF QuizInv, WorkerOK, Ungraded

\* A request that has its row goes on.
LEMMA SubmitMoves ==
  ASSUME QuizInv, NEW s \in Submissions, NEW pc \in {"decrement", "done", "failed"},
         submits[s].pc \notin {"none", "save"},
         Move(s, pc), UNCHANGED <<day, attempts>>
  PROVE  submits' \in [Submissions -> Submit] /\ \A t \in Submissions : SubmitOK(t)'
<1> DEFINE r == [submits[s] EXCEPT !.pc = pc]
<1>1. submits[s] \in Submit /\ submits \in [Submissions -> Submit]
  BY DEF QuizInv
<1>2. r \in Submit /\ r.pc = pc /\ r.asked = submits[s].asked /\ r.right = submits[s].right
  BY <1>1 DEF Submit
<1>3. submits' = [submits EXCEPT ![s] = r]
  BY DEF Move
<1> HIDE DEF r
<1>4. submits' \in [Submissions -> Submit] /\ submits'[s] = r
      /\ \A t \in Submissions \ {s} : submits'[t] = submits[t]
  BY <1>1, <1>2, <1>3
<1> QED
  BY <1>2, <1>4 DEF QuizInv, SubmitOK

LEMMA RequestStep ==
  ASSUME QuizInv, NEW s \in Submissions,
         (\E u \in Submitters[s] : CheckAttempts(s, u)) \/ SubmitStep(s) \/ SubmitFails(s)
  PROVE  QuizInv'
<1>1. /\ CountersOK /\ submits \in [Submissions -> Submit] /\ submits[s] \in Submit
      /\ attempts \in [Submissions -> Attempt] /\ attempts[s] \in Attempt
      /\ queue \in Seq(GoodJobs) /\ delayed \subseteq GoodJobs /\ day \in Nat
  BY DEF QuizInv, CountersOK, Days
<1>2. ASSUME NEW u \in Submitters[s], CheckAttempts(s, u)
      PROVE  QuizInv'
  <2>1. u \in Users
    BY QuizAssumption DEF QuizAssumption
  <2> DEFINE r == [submits[s] EXCEPT !.pc = "save", !.user = u, !.asked = day]
  <2>2. /\ submits' = [submits EXCEPT ![s] = r] /\ submits[s].pc = "none"
        /\ UNCHANGED <<day, fired, attempts, available, queue, delayed, worker, credits, paid, runs, faults>>
        /\ overlapped' \in {overlapped, overlapped \cup {u}}
    BY <1>1, <1>2 DEF CheckAttempts, Submit, jobVars, rewardVars
  <2>3. r \in Submit /\ r.pc = "save" /\ r.asked = day
    BY <1>1, <2>1 DEF Submit, CountersOK
  <2> HIDE DEF r
  <2>4. submits' \in [Submissions -> Submit] /\ submits'[s] = r
        /\ \A t \in Submissions \ {s} : submits'[t] = submits[t]
    BY <1>1, <2>2, <2>3
  <2>5. CountersOK'
    BY <1>1, <2>1, <2>2 DEF CountersOK
  <2>6. \A t \in Submissions : SubmitOK(t)'
    BY <1>1, <2>2, <2>3, <2>4 DEF QuizInv, SubmitOK
  <2> QED
    BY <1>1, <2>2, <2>4, <2>5, <2>6, WorkerStands, QuizKept
<1>3. ASSUME SaveAttempt(s) PROVE QuizInv'
  <2>1. /\ submits[s].pc = "save" /\ CountersOK'
        /\ UNCHANGED <<day, queue, delayed, worker>>
    BY <1>1, <1>3 DEF SaveAttempt, CountersOK, jobVars, rewardVars
  <2>2. attempts[s].set = None /\ submits[s].asked <= day
    BY <2>1 DEF QuizInv, SubmitOK
  <2>3. CASE submits' = [submits EXCEPT ![s] = NoSubmit] /\ attempts' = attempts
    <3>1. submits' \in [Submissions -> Submit] /\ submits'[s] = NoSubmit
          /\ \A t \in Submissions \ {s} : submits'[t] = submits[t]
      BY <1>1, <2>3, Literals
    <3>2. \A t \in Submissions : SubmitOK(t)'
      BY <2>1, <2>2, <2>3, <3>1, Literals DEF QuizInv, SubmitOK
    <3> QED
      BY <1>1, <2>1, <2>3, <3>1, <3>2, WorkerStands, QuizKept
  <2>4. ASSUME NEW right \in BOOLEAN, attempts' = [attempts EXCEPT ![s].set = day],
               submits' = [submits EXCEPT ![s].pc = "enqueue", ![s].right = right]
        PROVE  QuizInv'
    <3> DEFINE a == [attempts[s] EXCEPT !.set = day]
               r == [submits[s] EXCEPT !.pc = "enqueue", !.right = right]
    <3>1. attempts' = [attempts EXCEPT ![s] = a] /\ submits' = [submits EXCEPT ![s] = r]
      BY <1>1, <2>4 DEF Submit
    <3>2. /\ a \in Attempt /\ a.set = day /\ a.graded = attempts[s].graded
          /\ a.published = attempts[s].published
      BY <1>1 DEF Attempt, CountersOK
    <3>3. r \in Submit /\ r.pc = "enqueue" /\ r.asked = submits[s].asked
      BY <1>1 DEF Submit
    <3> HIDE DEF a, r
    <3>4. /\ attempts' \in [Submissions -> Attempt] /\ attempts'[s] = a
          /\ submits' \in [Submissions -> Submit] /\ submits'[s] = r
          /\ \A t \in Submissions \ {s} : attempts'[t] = attempts[t] /\ submits'[t] = submits[t]
      BY <1>1, <3>1, <3>2, <3>3
    <3>5. day # None /\ ~attempts[s].graded
      BY <1>1, <2>2 DEF CountersOK, Days, None, QuizInv, SubmitOK
    <3>6. \A t \in Submissions : SubmitOK(t)'
      BY <2>1, <2>2, <3>2, <3>3, <3>4, <3>5, <1>1 DEF QuizInv, SubmitOK
    <3>7. \A t \in Submissions : /\ attempts[t].set # None => attempts'[t].set # None
                                 /\ Ungraded(t)' <=> Ungraded(t)
      BY <3>2, <3>4, <3>5 DEF Ungraded
    <3>8. WorkerOK'
      BY <2>1, <3>7 DEF QuizInv, WorkerOK, Worker, GoodJobs
    <3>9. worker' \in Worker /\ worker'.job \in GoodJobs
      BY <2>1 DEF QuizInv
    <3> QED
      BY <1>1, <2>1, <3>4, <3>6, <3>7, <3>8, <3>9, QuizKept
  <2> QED
    BY <1>3, <2>3, <2>4 DEF SaveAttempt
<1>4. ASSUME EnqueueGrading(s) PROVE QuizInv'
  <2> DEFINE j == [NoJob EXCEPT !.kind = "grade", !.of = s]
  <2>1. /\ queue' = Append(queue, j) /\ Move(s, "decrement") /\ submits[s].pc = "enqueue"
        /\ UNCHANGED <<day, attempts, delayed, worker>> /\ CountersOK'
    BY <1>1, <1>4 DEF EnqueueGrading, CountersOK, rewardVars
  <2>2. j \in Job /\ j.kind = "grade" /\ j.of = s
    BY Literals DEF GoodJobs, Job
  <2> HIDE DEF j
  <2>3. j \in GoodJobs
    BY <2>1, <2>2 DEF GoodJobs, QuizInv, SubmitOK
  <2>4. queue' \in Seq(GoodJobs)
    BY <1>1, <2>1, <2>3
  <2> QED
    BY <1>1, <2>1, <2>4, SubmitMoves, WorkerStands, QuizKept
<1>5. ASSUME DecrementAttempts(s) PROVE QuizInv'
  <2>1. /\ Move(s, "done") /\ submits[s].pc = "decrement"
        /\ UNCHANGED <<day, attempts, queue, delayed, worker>> /\ CountersOK'
    <3> DEFINE u == submits[s].user
    <3>1. available' = [available EXCEPT ![u] = available[u] - 1] /\ available \in [Users -> Int]
      BY <1>1, <1>5 DEF DecrementAttempts, CountersOK
    <3> HIDE DEF u
    <3>2. available' \in [Users -> Int]
      <4>1. u \in Users => available[u] - 1 \in Int
        BY <3>1
      <4>2. u \notin Users => available' = available
        BY <3>1
      <4> QED
        BY <3>1, <4>1, <4>2
    <3> QED
      BY <1>1, <1>5, <3>2 DEF DecrementAttempts, CountersOK, jobVars, rewardVars
  <2> QED
    BY <1>1, <2>1, SubmitMoves, WorkerStands, QuizKept
<1>6. ASSUME SubmitFails(s) PROVE QuizInv'
  <2>1. /\ Move(s, "failed") /\ submits[s].pc = "enqueue"
        /\ UNCHANGED <<day, attempts, queue, delayed, worker>> /\ CountersOK'
    BY <1>1, <1>6 DEF SubmitFails, CountersOK, jobVars, rewardVars
  <2> QED
    BY <1>1, <2>1, SubmitMoves, WorkerStands, QuizKept
<1> QED
  BY <1>2, <1>3, <1>4, <1>5, <1>6 DEF SubmitStep

(***************************************************************************)
(* Jobs                                                                    *)
(***************************************************************************)

\* A step of the queue or the worker that writes no attempt.
LEMMA QueueStep ==
  ASSUME QuizInv, UNCHANGED <<day, submits, attempts>>, CountersOK',
         queue' \in Seq(GoodJobs), delayed' \subseteq GoodJobs,
         worker' \in Worker, worker'.job \in GoodJobs, WorkerOK'
  PROVE  QuizInv'
<1>1. \A s \in Submissions : SubmitOK(s)'
  BY DEF QuizInv, SubmitOK
<1>2. submits' \in [Submissions -> Submit] /\ attempts' \in [Submissions -> Attempt]
  BY DEF QuizInv
<1> QED
  BY <1>1, <1>2, QuizKept

LEMMA TakenFromQueue ==
  ASSUME QuizInv, queue # <<>>
  PROVE  Head(queue) \in GoodJobs /\ Tail(queue) \in Seq(GoodJobs)
BY DEF QuizInv

LEMMA IdleAgain == worker' = Idle => WorkerOK' /\ worker' \in Worker /\ worker'.job \in GoodJobs
BY Literals DEF WorkerOK

LEMMA JobStep ==
  ASSUME QuizInv, JobFails \/ RetryJob \/ FireRewards \/ FindAttempt \/ NotifyWinners
  PROVE  QuizInv'
<1>1. /\ CountersOK /\ queue \in Seq(GoodJobs) /\ delayed \subseteq GoodJobs
      /\ worker \in Worker /\ worker.job \in GoodJobs
  BY DEF QuizInv
<1>2. CASE JobFails
  <2>1. UNCHANGED <<day, submits, attempts, queue>> /\ CountersOK' /\ worker' = Idle
        /\ delayed' = GivenBack(worker.job)
    BY <1>1, <1>2 DEF JobFails, CountersOK, rewardVars
  <2> QED
    BY <1>1, <2>1, GivenBackGood, IdleAgain, QueueStep
<1>3. CASE RetryJob
  <2>1. UNCHANGED <<day, submits, attempts, worker>> /\ CountersOK'
    BY <1>1, <1>3 DEF RetryJob, CountersOK, rewardVars
  <2>2. delayed' \subseteq GoodJobs /\ queue' \in Seq(GoodJobs)
    BY <1>1, <1>3 DEF RetryJob
  <2> QED
    BY <2>1, <2>2, WorkerStands, QueueStep
<1>4. CASE FireRewards
  <2> DEFINE j == [NoJob EXCEPT !.kind = "reward", !.of = day]
  <2>1. /\ queue' = Append(queue, j) /\ UNCHANGED <<day, submits, attempts, delayed, worker>>
        /\ CountersOK'
    BY <1>1, <1>4 DEF FireRewards, CountersOK, rewardVars
  <2>2. j \in Job /\ j.kind = "reward"
    BY <1>1, Literals DEF GoodJobs, Job, CountersOK
  <2> HIDE DEF j
  <2>3. j \in GoodJobs
    BY <2>2 DEF GoodJobs
  <2>4. queue' \in Seq(GoodJobs)
    BY <1>1, <2>1, <2>3
  <2> QED
    BY <1>1, <2>1, <2>4, WorkerStands, QueueStep
<1>5. CASE FindAttempt
  <2> DEFINE j == Head(queue)  w == [Idle EXCEPT !.pc = "grade", !.job = j]
  <2>1. /\ queue # <<>> /\ queue' = Tail(queue) /\ j.kind = "grade" /\ worker.pc = "idle"
        /\ UNCHANGED <<day, submits, attempts>> /\ CountersOK'
        /\ \/ Ungraded(j.of) /\ worker' = w /\ delayed' = delayed
           \/ delayed' = GivenBack(j) /\ worker' = worker
    BY <1>1, <1>5 DEF FindAttempt, Waiting, CountersOK, rewardVars
  <2>2. j \in GoodJobs /\ queue' \in Seq(GoodJobs)
    BY <2>1, TakenFromQueue
  <2> HIDE DEF j
  <2>3. w \in Worker /\ w.pc = "grade" /\ w.job = j
    BY <2>2, Literals DEF Worker, GoodJobs
  <2> HIDE DEF w
  <2>4. CASE Ungraded(j.of) /\ worker' = w /\ delayed' = delayed
    <3>1. WorkerOK'
      BY <2>1, <2>3, <2>4 DEF WorkerOK, Ungraded
    <3> QED
      BY <1>1, <2>1, <2>2, <2>3, <2>4, <3>1, QueueStep
  <2>5. CASE delayed' = GivenBack(j) /\ worker' = worker
    BY <2>1, <2>2, <2>5, GivenBackGood, WorkerStands, QueueStep
  <2> QED
    BY <2>1, <2>4, <2>5
<1>6. CASE NotifyWinners
  <2>1. UNCHANGED <<day, submits, attempts, queue, delayed>> /\ CountersOK' /\ worker' = Idle
    BY <1>1, <1>6 DEF NotifyWinners, CountersOK, rewardVars
  <2> QED
    BY <1>1, <2>1, IdleAgain, QueueStep
<1> QED
  BY <1>2, <1>3, <1>4, <1>5, <1>6

LEMMA RewardStep ==
  ASSUME QuizInv, FindUnpublished \/ FindWinners \/ \E s \in Submissions : CreditWinner(s)
  PROVE  QuizInv'
<1>1. /\ CountersOK /\ queue \in Seq(GoodJobs) /\ delayed \subseteq GoodJobs
      /\ worker \in Worker /\ worker.job \in GoodJobs /\ day \in Days /\ Days \subseteq Nat
      /\ attempts \in [Submissions -> Attempt]
  BY DEF QuizInv, CountersOK, Days
<1>2. CASE FindUnpublished
  <2> DEFINE S == {s \in Submissions : attempts[s].set = day /\ ~attempts[s].published}
             w == [Idle EXCEPT !.pc = "publish", !.job = Head(queue), !.todo = S]
  <2>1. /\ queue # <<>> /\ queue' = Tail(queue) /\ worker' = w
        /\ UNCHANGED <<day, submits, attempts, delayed>> /\ CountersOK'
    BY <1>1, <1>2 DEF FindUnpublished, Waiting, CountersOK, rewardVars
  <2>2. \A s \in S : attempts[s].set # None
    BY <1>1 DEF Days, None
  <2>3. S \in SUBSET Submissions
    OBVIOUS
  <2> HIDE DEF S
  <2>4. Head(queue) \in GoodJobs /\ queue' \in Seq(GoodJobs)
    BY <2>1, TakenFromQueue
  <2>5. w \in Worker /\ w.pc = "publish" /\ w.job = Head(queue) /\ w.todo = S
    BY <2>3, <2>4, Literals DEF Worker, GoodJobs
  <2> HIDE DEF w
  <2>6. WorkerOK'
    BY <2>1, <2>2, <2>5 DEF WorkerOK
  <2> QED
    BY <1>1, <2>1, <2>4, <2>5, <2>6, QueueStep
<1>3. CASE FindWinners
  <2> DEFINE v == [worker EXCEPT !.pc = "notify"]
             W == Winners
             w == [worker EXCEPT !.pc = "credit", !.won = W, !.todo = W]
  <2>1. /\ worker' = IF W = {} THEN v ELSE w
        /\ runs' \in {runs, [runs EXCEPT ![day] = @ + 1]}
        /\ UNCHANGED <<day, fired, submits, attempts, queue, delayed, available, credits, paid,
                       faults, overlapped>>
    BY <1>3 DEF FindWinners
  <2>2. CountersOK'
    <3>1. runs \in [Days -> Nat] /\ runs[day] + 1 \in Nat
      BY <1>1 DEF CountersOK
    <3>2. runs' \in [Days -> Nat]
      BY <2>1, <3>1
    <3> QED
      BY <1>1, <2>1, <3>2 DEF CountersOK
  <2>3. W \in SUBSET Submissions
    BY DEF Winners
  <2> HIDE DEF W
  <2>4. v \in Worker /\ v.pc = "notify" /\ v.job = worker.job
    BY <1>1 DEF Worker
  <2>5. w \in Worker /\ w.pc = "credit" /\ w.won = W /\ w.job = worker.job
    BY <1>1, <2>3 DEF Worker
  <2> HIDE DEF v, w
  <2>6. WorkerOK'
    BY <2>1, <2>4, <2>5 DEF WorkerOK
  <2> QED
    BY <1>1, <2>1, <2>2, <2>4, <2>5, <2>6, QueueStep
<1>4. ASSUME NEW s \in Submissions, CreditWinner(s) PROVE QuizInv'
  <2>1. /\ worker.pc = "credit" /\ worker.won # {} /\ worker.won \in SUBSET Submissions
        /\ UNCHANGED <<day, fired, submits, attempts, available, queue, runs, faults, overlapped>>
    BY <1>1, <1>4 DEF CreditWinner, QuizInv, WorkerOK, Worker
  <2>2. CASE submits[s].user \in WalletOwners
    <3> DEFINE n == ShareOf(s, worker.won)  todo == worker.todo \ {s}
               pc == IF worker.todo = {s} THEN "notify" ELSE "credit"
               w == [worker EXCEPT !.todo = todo, !.pc = pc]
    <3>1. n \in Nat
      BY <2>1, ShareIsNat
    <3> HIDE DEF n
    <3>2. /\ credits' = [credits EXCEPT ![s] = @ + 1] /\ paid' = [paid EXCEPT ![s] = @ + n]
          /\ worker' = w /\ delayed' = delayed
      BY <1>4, <2>2 DEF CreditWinner, n
    <3>3. CountersOK'
      <4>1. credits[s] + 1 \in Nat /\ paid[s] + n \in Nat
        BY <1>1, <3>1 DEF CountersOK
      <4>2. credits' \in [Submissions -> Nat]
        BY <1>1, <3>2, <4>1 DEF CountersOK
      <4>3. paid' \in [Submissions -> Nat]
        BY <1>1, <3>2, <4>1 DEF CountersOK
      <4> QED
        BY <1>1, <2>1, <4>2, <4>3 DEF CountersOK
    <3>4. pc \in {"notify", "credit"} /\ todo \in SUBSET Submissions
      BY <1>1 DEF Worker
    <3> HIDE DEF pc, todo
    <3>5. w \in Worker /\ w.pc = pc /\ w.won = worker.won /\ w.job = worker.job
      BY <1>1, <3>4 DEF Worker
    <3> HIDE DEF w
    <3>6. WorkerOK'
      BY <2>1, <3>2, <3>4, <3>5 DEF WorkerOK
    <3> QED
      BY <1>1, <2>1, <3>2, <3>3, <3>5, <3>6, QueueStep
  <2>3. CASE submits[s].user \notin WalletOwners
    <3>1. delayed' = GivenBack(worker.job) /\ worker' = Idle /\ UNCHANGED <<credits, paid>>
      BY <1>4, <2>3 DEF CreditWinner
    <3>2. CountersOK'
      BY <1>1, <2>1, <3>1 DEF CountersOK
    <3> QED
      BY <1>1, <2>1, <3>1, <3>2, GivenBackGood, IdleAgain, QueueStep
  <2> QED
    BY <2>2, <2>3
<1> QED
  BY <1>2, <1>3, <1>4

\* The two writes of the worker.
LEMMA WriteStep ==
  ASSUME QuizInv, GradeAttempt \/ PublishAttempts
  PROVE  QuizInv'
<1>1. /\ CountersOK /\ queue \in Seq(GoodJobs) /\ delayed \subseteq GoodJobs
      /\ worker \in Worker /\ worker.job \in GoodJobs /\ WorkerOK
      /\ attempts \in [Submissions -> Attempt] /\ submits \in [Submissions -> Submit]
      /\ \A s \in Submissions : SubmitOK(s)
  BY DEF QuizInv
<1>2. CASE GradeAttempt
  <2>1. PICK s \in Submissions : s = worker.job.of /\ attempts[s].set # None
    BY <1>1, <1>2 DEF GradeAttempt, WorkerOK, GoodJobs
  <2> DEFINE right == submits[s].asked = day /\ submits[s].right
             a == [attempts[s] EXCEPT !.graded = TRUE, !.passed = right]
  <2>2. /\ UNCHANGED <<day, submits, queue>> /\ CountersOK' /\ worker' = Idle
        /\ \/ submits[s].asked = day /\ delayed' = delayed /\ attempts' = [attempts EXCEPT ![s] = a]
           \/ delayed' = GivenBack(worker.job) /\ attempts' = attempts
    BY <1>1, <1>2, <2>1 DEF GradeAttempt, AskedToday, CountersOK, rewardVars
  <2>3. CASE delayed' = GivenBack(worker.job) /\ attempts' = attempts
    BY <1>1, <2>2, <2>3, GivenBackGood, IdleAgain, QueueStep
  <2>4. CASE submits[s].asked = day /\ delayed' = delayed /\ attempts' = [attempts EXCEPT ![s] = a]
    <3>1. right \in BOOLEAN /\ (right <=> submits[s].right)
      BY <1>1, <2>1, <2>4 DEF Submit
    <3> HIDE DEF right
    <3>2. /\ a \in Attempt /\ a.set = attempts[s].set /\ a.published = attempts[s].published
          /\ a.graded /\ a.passed = right
      BY <1>1, <2>1, <3>1 DEF Attempt
    <3> HIDE DEF a
    <3>3. /\ attempts' \in [Submissions -> Attempt] /\ attempts'[s] = a
          /\ \A t \in Submissions \ {s} : attempts'[t] = attempts[t]
      BY <1>1, <2>1, <2>4, <3>2
    <3>4. submits[s].asked = attempts[s].set
      <4>1. submits[s].asked <= attempts[s].set /\ attempts[s].set <= day
        BY <1>1, <2>1 DEF SubmitOK
      <4>2. attempts[s].set \in Int /\ day \in Int
        BY <1>1, <2>1 DEF CountersOK, Attempt, Days, None
      <4> QED
        BY <2>4, <4>1, <4>2
    <3>5. \A t \in Submissions : SubmitOK(t)'
      <4>1. SubmitOK(s)'
        BY <1>1, <2>1, <2>2, <3>1, <3>2, <3>3, <3>4 DEF SubmitOK
      <4>2. ASSUME NEW t \in Submissions, t # s PROVE SubmitOK(t)'
        BY <1>1, <2>2, <3>3, <4>2 DEF SubmitOK
      <4> QED
        BY <4>1, <4>2
    <3> QED
      BY <1>1, <2>2, <2>4, <3>2, <3>3, <3>5, IdleAgain, QuizKept
  <2> QED
    BY <2>2, <2>3, <2>4
<1>3. CASE PublishAttempts
  <2> DEFINE w == [worker EXCEPT !.pc = "winners", !.todo = {}]
  <2>1. /\ worker.pc = "publish" /\ UNCHANGED <<day, submits, queue, delayed>> /\ CountersOK'
        /\ worker' = w
        /\ attempts' = [s \in Submissions |->
             IF s \in worker.todo THEN [attempts[s] EXCEPT !.published = TRUE] ELSE attempts[s]]
    BY <1>1, <1>3 DEF PublishAttempts, CountersOK, rewardVars
  <2>2. w \in Worker /\ w.pc = "winners" /\ w.job = worker.job
    BY <1>1 DEF Worker
  <2> HIDE DEF w
  <2>3. WorkerOK'
    BY <2>1, <2>2 DEF WorkerOK
  <2>4. ASSUME NEW s \in Submissions
        PROVE  /\ attempts'[s] \in Attempt /\ attempts'[s].set = attempts[s].set
               /\ attempts'[s].graded = attempts[s].graded /\ attempts'[s].passed = attempts[s].passed
               /\ attempts[s].set = None => attempts'[s].published = attempts[s].published
    <3> DEFINE a == [attempts[s] EXCEPT !.published = TRUE]
    <3>1. a \in Attempt /\ a.set = attempts[s].set /\ a.graded = attempts[s].graded
          /\ a.passed = attempts[s].passed
      BY <1>1 DEF Attempt
    <3>2. attempts'[s] = IF s \in worker.todo THEN a ELSE attempts[s]
      BY <2>1
    <3> HIDE DEF a
    <3>3. s \in worker.todo => attempts[s].set # None
      BY <1>1, <2>1 DEF WorkerOK
    <3> QED
      BY <1>1, <3>1, <3>2, <3>3
  <2>5. attempts' \in [Submissions -> Attempt]
    BY <2>1, <2>4
  <2>6. ASSUME NEW s \in Submissions PROVE SubmitOK(s)'
    BY <1>1, <2>1, <2>4 DEF SubmitOK
  <2> QED
    BY <1>1, <2>1, <2>2, <2>3, <2>4, <2>5, <2>6, QuizKept
<1> QED
  BY <1>2, <1>3

LEMMA ClockStep ==
  ASSUME QuizInv, Midnight
  PROVE  QuizInv'
<1>1. /\ day \in Days /\ day' = day + 1 /\ day < MaxDays /\ CountersOK
      /\ UNCHANGED <<submits, attempts, queue, delayed, worker>>
  BY DEF Midnight, QuizInv, CountersOK, jobVars
<1>2. day' \in Days /\ day' \in Int /\ day \in Int
  BY <1>1, QuizAssumption DEF QuizAssumption, Days
<1>3. CountersOK'
  BY <1>1, <1>2 DEF Midnight, CountersOK, rewardVars
<1>4. ASSUME NEW s \in Submissions PROVE SubmitOK(s)'
  <2>1. attempts[s].set \in Int /\ submits[s].asked \in Int
    BY DEF QuizInv, Attempt, Submit, Days, None
  <2> QED
    BY <1>1, <1>2, <2>1 DEF QuizInv, SubmitOK
<1> QED
  BY <1>1, <1>3, <1>4, WorkerStands, QuizKept DEF QuizInv

LEMMA CrashStep ==
  ASSUME QuizInv, Crash
  PROVE  QuizInv'
<1> DEFINE j == [worker.job EXCEPT !.stalled = @ + 1]
<1>1. /\ CountersOK /\ queue \in Seq(GoodJobs) /\ delayed \subseteq GoodJobs
      /\ worker.job \in GoodJobs /\ submits \in [Submissions -> Submit]
      /\ attempts \in [Submissions -> Attempt]
  BY DEF QuizInv
<1>2. /\ UNCHANGED <<day, attempts, delayed>> /\ CountersOK' /\ worker' = Idle
      /\ queue' \in {queue, <<j>> \o queue}
      /\ queue' # queue => worker.job.stalled < MaxStalled
  BY <1>1 DEF Crash, CountersOK, rewardVars
<1>3. worker.job.stalled < MaxStalled => j \in GoodJobs
  <2>1. worker.job \in Job /\ worker.job.stalled \in Nat
    BY <1>1 DEF GoodJobs, Job, MaxStalled
  <2>2. j.kind = worker.job.kind /\ j.of = worker.job.of
    BY <2>1 DEF Job
  <2>3. worker.job.stalled < MaxStalled => j \in Job
    BY <2>1 DEF Job, MaxStalled
  <2> HIDE DEF j
  <2> QED
    BY <1>1, <2>2, <2>3 DEF GoodJobs
<1> HIDE DEF j
<1>4. queue' \in Seq(GoodJobs)
  <2>1. CASE queue' = queue
    BY <1>1, <2>1
  <2>2. CASE queue' # queue
    <3>1. <<j>> \in Seq(GoodJobs)
      BY <1>2, <1>3, <2>2
    <3>2. queue' = <<j>> \o queue
      BY <1>2, <2>2
    <3>3. \A p, q \in Seq(GoodJobs) : p \o q \in Seq(GoodJobs)
      OBVIOUS
    <3> QED
      BY <1>1, <3>1, <3>2, <3>3
  <2> QED
    BY <2>1, <2>2
<1>5. ASSUME NEW s \in Submissions
      PROVE  submits'[s] \in Submit /\ SubmitOK(s)'
  <2> DEFINE r == [submits[s] EXCEPT !.pc = "failed"]
  <2>1. submits'[s] = IF submits[s].pc = "save" THEN NoSubmit
                      ELSE IF InFlight(s) THEN r ELSE submits[s]
    BY DEF Crash
  <2>2. r \in Submit /\ r.pc = "failed" /\ r.asked = submits[s].asked /\ r.right = submits[s].right
    BY <1>1 DEF Submit
  <2> HIDE DEF r
  <2>3. SubmitOK(s)
    BY DEF QuizInv
  <2>4. CASE submits[s].pc = "save"
    BY <1>2, <2>1, <2>3, <2>4, Literals DEF SubmitOK
  <2>5. CASE submits[s].pc # "save" /\ InFlight(s)
    BY <1>2, <2>1, <2>2, <2>3, <2>5 DEF SubmitOK, InFlight
  <2>6. CASE submits[s].pc # "save" /\ ~InFlight(s)
    BY <1>1, <1>2, <2>1, <2>3, <2>6 DEF SubmitOK
  <2> QED
    BY <2>4, <2>5, <2>6
<1>6. submits' \in [Submissions -> Submit]
  BY <1>5 DEF Crash
<1> QED
  BY <1>1, <1>2, <1>4, <1>5, <1>6, IdleAgain, QuizKept

LEMMA Invariance == QuizInv /\ [Next]_vars => QuizInv'
<1> SUFFICES ASSUME QuizInv, [Next]_vars PROVE QuizInv'  OBVIOUS
<1>1. CASE UNCHANGED vars
  <2>1. UNCHANGED <<day, fired, submits, attempts, available, queue, delayed, worker, credits, paid,
                    runs, faults, overlapped>>
    BY <1>1 DEF vars
  <2>2. CountersOK'
    BY <2>1 DEF QuizInv, CountersOK
  <2> QED
    BY <2>1, <2>2, WorkerStands, QueueStep DEF QuizInv
<1> QED
  BY <1>1, RequestStep, JobStep, RewardStep, WriteStep, ClockStep, CrashStep, Zenon
     DEF Next, WorkerStep

\* Types, and that no job to grade is without its attempt, in the queue, the worker
\* or waiting for a retry (quiz.processor.ts, quiz-jobs.service.ts).
THEOREM TypeCorrect == Spec => []TypeOK
BY Initially, Invariance, InvIsStronger, PTL DEF Spec

\* Whenever a grading job runs, what it grades answers the questions of its own set,
\* and passed if it was right (quiz-jobs.service.ts: processQuizGrading).
THEOREM GradeIsCorrectAlways == Spec => []GradeIsCorrect
BY Initially, Invariance, InvIsStronger, PTL DEF Spec

\* No step changes an attempt once it is published (quiz-jobs.service.ts:
\* publishAllTodaysQuizAttempts).
THEOREM PublishedIsFinalAlways == Spec => PublishedIsFinal
<1> DEFINE Final == \A s \in Submissions : attempts[s].published => attempts'[s] = attempts[s]
<1>1. ASSUME QuizInv, Next PROVE Final
  <2> SUFFICES ASSUME NEW s \in Submissions, attempts[s].published, attempts' # attempts
               PROVE  attempts'[s] = attempts[s]
    OBVIOUS
  <2>1. (\E t \in Submissions : SaveAttempt(t)) \/ GradeAttempt \/ PublishAttempts
    BY <1>1, Zenon
       DEF Next, CheckAttempts, SubmitStep, EnqueueGrading, DecrementAttempts, SubmitFails, WorkerStep,
           FindAttempt, FindUnpublished, FindWinners, CreditWinner, NotifyWinners, JobFails, RetryJob,
           FireRewards, Midnight, Crash
  <2>2. attempts \in [Submissions -> Attempt] /\ SubmitOK(s)
    BY <1>1 DEF QuizInv
  <2>3. ASSUME NEW t \in Submissions, SaveAttempt(t) PROVE attempts'[s] = attempts[s]
    <3>1. submits[t].pc = "save" /\ (attempts' = attempts \/ attempts' = [attempts EXCEPT ![t].set = day])
      BY <2>3 DEF SaveAttempt
    <3>2. t # s
      BY <2>2, <3>1 DEF SubmitOK
    <3> QED
      BY <2>2, <3>1, <3>2
  <2>4. CASE GradeAttempt
    <3>1. Ungraded(worker.job.of)
      BY <1>1, <2>4 DEF GradeAttempt, QuizInv, WorkerOK
    <3>2. worker.job.of # s
      BY <3>1 DEF Ungraded
    <3> QED
      BY <2>2, <2>4, <3>2 DEF GradeAttempt
  <2>5. CASE PublishAttempts
    <3>1. \A a \in Attempt : a.published => [a EXCEPT !.published = TRUE] = a
      BY DEF Attempt
    <3> QED
      BY <2>2, <2>5, <3>1 DEF PublishAttempts
  <2> QED
    BY <2>1, <2>3, <2>4, <2>5
<1>2. QuizInv /\ [Next]_vars => [Final]_vars
  BY <1>1
<1> QED
  BY <1>2, Initially, Invariance, PTL DEF Spec, PublishedIsFinal

(***************************************************************************)
(* The quota. What a user has left and what the user has used add up to    *)
(* the quota; a user who never overlapped two submissions has at most one  *)
(* in flight, and still has the attempt it will use.                       *)
(***************************************************************************)

Used(u) == {s \in Submissions : submits[s].user = u /\ submits[s].pc = "done"}
Of(s, u) == submits[s].user = u

QuotaInv ==
  \A u \in Users :
    /\ available[u] + Cardinality(Used(u)) = Quota[u]
    /\ u \notin overlapped =>
         /\ available[u] >= 0
         /\ \A s \in Submissions : InFlight(s) /\ Of(s, u) =>
              /\ available[u] > 0
              /\ \A t \in Submissions : InFlight(t) /\ Of(t, u) => t = s

LEMMA FiniteSubmissions ==
  /\ IsFiniteSet(Submissions) /\ Cardinality(Submissions) = MaxSubmissions
  /\ MaxSubmissions \in Nat
  /\ \A S \in SUBSET Submissions : /\ IsFiniteSet(S) /\ Cardinality(S) \in Nat
                                   /\ Cardinality(S) <= MaxSubmissions
<1>1. MaxSubmissions \in Nat
  BY QuizAssumption DEF QuizAssumption
<1>2. IsFiniteSet(Submissions) /\ Cardinality(Submissions) = MaxSubmissions
  BY <1>1, FS_Interval DEF Submissions
<1> QED
  BY <1>1, <1>2, FS_Subset, FS_CardinalityType

\* A step that neither lets a request in nor charges for one.
SubmitsQuiet ==
  /\ UNCHANGED <<available, overlapped>>
  /\ \A s \in Submissions :
       /\ submits'[s].pc = "done" <=> submits[s].pc = "done"
       /\ InFlight(s)' => InFlight(s)
       /\ InFlight(s)' \/ submits'[s].pc = "done" => submits'[s].user = submits[s].user

LEMMA QuotaQuiet ==
  ASSUME QuotaInv, SubmitsQuiet
  PROVE  QuotaInv'
<1>1. \A u : Used(u)' = Used(u)
  BY DEF SubmitsQuiet, Used
<1>2. \A s \in Submissions : InFlight(s)' => InFlight(s) /\ \A u : Of(s, u)' <=> Of(s, u)
  BY DEF SubmitsQuiet, Of
<1>3. available' = available /\ overlapped' = overlapped
  BY DEF SubmitsQuiet
<1> QED
  BY <1>1, <1>2, <1>3 DEF QuotaInv

LEMMA QuietSubmits ==
  ASSUME QuizInv, [Next]_vars
  PROVE  \/ SubmitsQuiet
         \/ \E s \in Submissions :
              \/ \E u \in Submitters[s] : CheckAttempts(s, u)
              \/ DecrementAttempts(s)
<1>0. submits \in [Submissions -> Submit]
  BY DEF QuizInv
<1>1. UNCHANGED <<submits, available, overlapped>> => SubmitsQuiet
  BY DEF SubmitsQuiet, InFlight
<1>2. ASSUME NEW s \in Submissions, SaveAttempt(s) PROVE SubmitsQuiet
  <2>1. /\ UNCHANGED <<available, overlapped>> /\ submits[s].pc = "save"
        /\ \A t \in Submissions \ {s} : submits'[t] = submits[t]
        /\ \/ submits'[s].pc = "enqueue" /\ submits'[s].user = submits[s].user
           \/ submits'[s] = NoSubmit
    BY <1>0, <1>2 DEF SaveAttempt, Submit
  <2> QED
    BY <2>1, Literals DEF SubmitsQuiet, InFlight
<1>3. ASSUME NEW s \in Submissions, EnqueueGrading(s) \/ SubmitFails(s) PROVE SubmitsQuiet
  <2>1. /\ UNCHANGED <<available, overlapped>> /\ submits[s].pc = "enqueue"
        /\ \A t \in Submissions \ {s} : submits'[t] = submits[t]
        /\ submits'[s].pc \in {"decrement", "failed"} /\ submits'[s].user = submits[s].user
    BY <1>0, <1>3 DEF EnqueueGrading, SubmitFails, Move, Submit
  <2> QED
    BY <2>1 DEF SubmitsQuiet, InFlight
<1>4. CASE Crash
  <2>1. UNCHANGED <<available, overlapped>>
    BY <1>4 DEF Crash
  <2>2. ASSUME NEW s \in Submissions
        PROVE  \/ submits'[s] = submits[s] \/ submits'[s].pc = "none"
               \/ submits'[s].pc = "failed"
    BY <1>0, <1>4, Literals DEF Crash, Submit
  <2>3. ASSUME NEW s \in Submissions, submits[s].pc = "done"
        PROVE  submits'[s] = submits[s]
    BY <1>4, <2>3 DEF Crash, InFlight
  <2> QED
    BY <2>1, <2>2, <2>3 DEF SubmitsQuiet, InFlight
<1>5. UNCHANGED vars => SubmitsQuiet
  BY <1>1 DEF vars
<1>6. JobFails \/ RetryJob \/ FireRewards \/ Midnight \/ WorkerStep => SubmitsQuiet
  BY <1>1 DEF JobFails, RetryJob, FireRewards, Midnight, WorkerStep, FindAttempt, GradeAttempt,
              FindUnpublished, PublishAttempts, FindWinners, CreditWinner, NotifyWinners
<1> QED
  BY <1>2, <1>3, <1>4, <1>5, <1>6, Zenon DEF Next, SubmitStep

LEMMA QuotaStep ==
  ASSUME QuizInv, QuotaInv, [Next]_vars
  PROVE  QuotaInv'
<1>0. submits \in [Submissions -> Submit] /\ available \in [Users -> Int]
  BY DEF QuizInv, CountersOK
<1>1. ASSUME NEW s \in Submissions, NEW v \in Submitters[s], CheckAttempts(s, v)
      PROVE  QuotaInv'
  <2>1. /\ available' = available /\ v \in Users /\ available[v] > 0
        /\ submits[s].pc = "none" /\ submits'[s].pc = "save" /\ submits'[s].user = v
        /\ \A t \in Submissions \ {s} : submits'[t] = submits[t]
    BY <1>0, <1>1, QuizAssumption DEF CheckAttempts, HasAttempts, Submit, QuizAssumption
  <2>2. /\ overlapped \subseteq overlapped'
        /\ (\E t \in Submissions : InFlight(t) /\ submits[t].user = v) => v \in overlapped'
    BY <1>1 DEF CheckAttempts
  <2>3. /\ ~InFlight(s) /\ InFlight(s)'
        /\ \A t \in Submissions \ {s} : InFlight(t)' <=> InFlight(t)
    BY <2>1 DEF InFlight
  <2>4. \A u : /\ Of(s, u)' <=> u = v
               /\ \A t \in Submissions \ {s} : Of(t, u)' <=> Of(t, u)
    BY <2>1 DEF Of
  <2>5. \A u : Used(u)' = Used(u)
    BY <2>1 DEF Used
  <2>6. ASSUME NEW u \in Users, u \notin overlapped',
               NEW t \in Submissions, InFlight(t)', Of(t, u)',
               NEW x \in Submissions, InFlight(x)', Of(x, u)'
        PROVE  available[u] > 0 /\ x = t
    <3>1. CASE u = v
      <4>1. \A y \in Submissions : ~(InFlight(y) /\ Of(y, u))
        BY <2>2, <2>6, <3>1 DEF Of
      <4>2. x = s /\ t = s
        BY <2>3, <2>4, <2>6, <4>1
      <4> QED
        BY <2>1, <3>1, <4>2
    <3>2. CASE u # v
      <4>1. /\ u \notin overlapped
            /\ InFlight(t) /\ Of(t, u) /\ InFlight(x) /\ Of(x, u)
        BY <2>2, <2>3, <2>4, <2>6, <3>2
      <4> QED
        BY <4>1 DEF QuotaInv
    <3> QED
      BY <3>1, <3>2
  <2>7. \A u \in Users : /\ available[u] + Cardinality(Used(u)) = Quota[u]
                         /\ u \notin overlapped' => available[u] >= 0
    BY <2>2 DEF QuotaInv
  <2> QED
    BY <2>1, <2>5, <2>6, <2>7 DEF QuotaInv
<1>2. ASSUME NEW s \in Submissions, DecrementAttempts(s) PROVE QuotaInv'
  <2> DEFINE v == submits[s].user
  <2>1. /\ submits[s].pc = "decrement" /\ submits'[s].pc = "done" /\ submits'[s].user = v
        /\ \A t \in Submissions \ {s} : submits'[t] = submits[t]
        /\ overlapped' = overlapped
        /\ \A u \in Users : available'[u] = IF u = v THEN available[u] - 1 ELSE available[u]
    BY <1>0, <1>2 DEF DecrementAttempts, Move, Submit
  <2> HIDE DEF v
  <2>2. /\ InFlight(s) /\ ~InFlight(s)'
        /\ \A t \in Submissions \ {s} : InFlight(t)' <=> InFlight(t)
    BY <2>1 DEF InFlight
  <2>3. \A u : /\ Of(s, u) <=> u = v
               /\ \A t \in Submissions \ {s} : Of(t, u)' <=> Of(t, u)
    BY <2>1 DEF Of, v
  <2>4. ASSUME NEW u \in Users
        PROVE  available'[u] + Cardinality(Used(u)') = Quota[u]
    <3>1. available[u] + Cardinality(Used(u)) = Quota[u] /\ available[u] \in Int
      BY <1>0 DEF QuotaInv
    <3>2. IsFiniteSet(Used(u)) /\ Cardinality(Used(u)) \in Nat
      BY FiniteSubmissions DEF Used
    <3>3. CASE u = v
      <4>1. s \notin Used(u) /\ Used(u)' = Used(u) \cup {s}
        BY <2>1, <3>3 DEF Used
      <4>2. Cardinality(Used(u)') = Cardinality(Used(u)) + 1
        BY <3>2, <4>1, FS_AddElement
      <4> QED
        BY <2>1, <3>1, <3>2, <3>3, <4>2
    <3>4. CASE u # v
      <4>1. Used(u)' = Used(u)
        BY <2>1, <3>4 DEF Used
      <4> QED
        BY <2>1, <3>1, <3>4, <4>1
    <3> QED
      BY <3>3, <3>4
  <2>5. ASSUME NEW u \in Users, u \notin overlapped
        PROVE  /\ available'[u] >= 0
               /\ \A t \in Submissions : InFlight(t)' /\ Of(t, u)' =>
                    /\ available'[u] > 0
                    /\ \A x \in Submissions : InFlight(x)' /\ Of(x, u)' => x = t
    <3>1. CASE u = v
      <4>1. /\ available[u] > 0
            /\ \A t \in Submissions : InFlight(t) /\ Of(t, u) => t = s
        BY <2>2, <2>3, <2>5, <3>1 DEF QuotaInv
      <4>2. \A t \in Submissions : ~(InFlight(t)' /\ Of(t, u)')
        BY <2>2, <2>3, <4>1
      <4> QED
        BY <1>0, <2>1, <3>1, <4>1, <4>2
    <3>2. CASE u # v
      <4>1. \A t \in Submissions : InFlight(t)' /\ Of(t, u)' => InFlight(t) /\ Of(t, u)
        BY <2>2, <2>3
      <4> QED
        BY <2>1, <2>5, <3>2, <4>1 DEF QuotaInv
    <3> QED
      BY <3>1, <3>2
  <2> QED
    BY <2>1, <2>4, <2>5 DEF QuotaInv
<1> QED
  BY <1>1, <1>2, QuietSubmits, QuotaQuiet

LEMMA QuotaFollows ==
  ASSUME QuizInv, QuotaInv
  PROVE  QuotaHeld
<1> SUFFICES ASSUME NEW u \in Users \ overlapped
             PROVE  /\ available[u] >= 0
                    /\ Cardinality({s \in Submissions :
                         submits[s].user = u /\ submits[s].pc \in {"decrement", "done"}}) <= Quota[u]
  BY DEF QuotaHeld
<1> DEFINE Answered == {s \in Submissions :
                          submits[s].user = u /\ submits[s].pc \in {"decrement", "done"}}
<1>1. /\ available[u] + Cardinality(Used(u)) = Quota[u] /\ available[u] >= 0
      /\ available[u] \in Int
  BY DEF QuotaInv, QuizInv, CountersOK
<1>2. IsFiniteSet(Used(u)) /\ Cardinality(Used(u)) \in Nat
  BY FiniteSubmissions DEF Used
<1>3. CASE \E s \in Submissions : submits[s].user = u /\ submits[s].pc = "decrement"
  <2>1. PICK s \in Submissions : submits[s].user = u /\ submits[s].pc = "decrement"
    BY <1>3
  <2>2. /\ available[u] > 0
        /\ \A t \in Submissions : submits[t].user = u /\ submits[t].pc = "decrement" => t = s
    BY <2>1 DEF QuotaInv, InFlight, Of
  <2>3. Answered = Used(u) \cup {s} /\ s \notin Used(u)
    BY <2>1, <2>2 DEF Used
  <2>4. Cardinality(Answered) = Cardinality(Used(u)) + 1
    BY <1>2, <2>3, FS_AddElement
  <2> QED
    BY <1>1, <1>2, <2>2, <2>4
<1>4. CASE ~ \E s \in Submissions : submits[s].user = u /\ submits[s].pc = "decrement"
  <2>1. Answered = Used(u)
    BY <1>4 DEF Used
  <2> QED
    BY <1>1, <1>2, <2>1
<1> QED
  BY <1>3, <1>4

\* Whatever jobs, crashes and other users do: a user who never overlapped two
\* submissions is never let in without an attempt left (quiz-attempt.interceptor.ts,
\* quiz.service.ts: submitQuizAttempt).
THEOREM QuotaHeldAlways == Spec => []QuotaHeld
<1>1. Init => QuotaInv
  <2>1. Init => \A s \in Submissions : submits[s].pc = "none"
    BY Literals DEF Init
  <2>2. Init => \A u \in Users : Used(u) = {} /\ available[u] = Quota[u] /\ available[u] \in Nat
    BY <2>1, QuizAssumption DEF Init, Used, QuizAssumption
  <2>3. Init => \A s \in Submissions : ~InFlight(s)
    BY <2>1 DEF InFlight
  <2> QED
    BY <2>2, <2>3, FS_EmptySet DEF QuotaInv
<1>2. QuizInv /\ QuotaInv /\ [Next]_vars => QuotaInv'
  BY QuotaStep
<1>3. QuizInv /\ QuotaInv => QuotaHeld
  BY QuotaFollows
<1> QED
  BY <1>1, <1>2, <1>3, Initially, Invariance, PTL DEF Spec

(***************************************************************************)
(* The pool. While the worker credits winners, the day they entered has    *)
(* been counted as shared out once more, but only those credited so far    *)
(* have had their share of it.                                             *)
(***************************************************************************)

Ceiling == 2 * Pool + MaxSubmissions
Share == ShareOf(None, worker.won)
SharedOut(d) == worker.pc = "credit" /\ \E s \in worker.won : attempts[s].set = d

Spent(d) ==
  IF SharedOut(d)
  THEN /\ runs[d] > 0
       /\ 2 * Total(paid, Entered(d))
            <= (runs[d] - 1) * Ceiling + 2 * Share * Cardinality(worker.won \ worker.todo)
  ELSE 2 * Total(paid, Entered(d)) <= runs[d] * Ceiling

WonOK ==
  worker.pc = "credit" =>
    /\ worker.todo \subseteq worker.won
    /\ \A s \in worker.won : attempts[s].published /\ attempts[s].passed
    /\ \A s, t \in worker.won : attempts[s].set = attempts[t].set

CreditOK(s) ==
  /\ credits[s] > 0 => attempts[s].passed /\ attempts[s].published
  /\ attempts[s].set = None => credits[s] = 0 /\ paid[s] = 0
  /\ \A d \in Days : attempts[s].set = d =>
       /\ credits[s] <= runs[d]
       /\ worker.pc = "credit" /\ s \in worker.todo => credits[s] < runs[d]

PoolInv ==
  /\ WonOK
  /\ \A s \in Submissions : CreditOK(s)
  /\ \A d \in Days : Spent(d)

LEMMA SharesFit ==
  ASSUME NEW won \in SUBSET Submissions, won # {}, NEW part \in SUBSET won
  PROVE  /\ ShareOf(None, won) \in Nat /\ Ceiling \in Nat
         /\ IsFiniteSet(part) /\ Cardinality(part) \in Nat
         /\ 2 * ShareOf(None, won) * Cardinality(part) \in Nat
         /\ 2 * ShareOf(None, won) * Cardinality(part) <= Ceiling
<1> DEFINE n == Cardinality(won)
           k == Cardinality(part)
           q == ShareOf(None, won)
<1>1. /\ IsFiniteSet(won) /\ n \in Nat /\ n <= MaxSubmissions /\ n # 0
      /\ IsFiniteSet(part) /\ k \in Nat /\ k <= n /\ MaxSubmissions \in Nat /\ Pool \in Nat
  BY FiniteSubmissions, FS_Subset, FS_EmptySet, FS_CardinalityType, QuizAssumption
     DEF QuizAssumption
<1>2. q \in Nat
  BY ShareIsNat
<1>3. q * (2 * n) <= 2 * Pool + n
  <2>1. \A a \in Nat, b \in Nat : b > 0 => (a \div b) * b <= a
    BY SMT
  <2>2. 2 * Pool + n \in Nat /\ 2 * n \in Nat /\ 2 * n > 0
    BY <1>1
  <2>3. q = (2 * Pool + n) \div (2 * n)
    BY DEF ShareOf
  <2> HIDE DEF n, q
  <2> QED BY <2>1, <2>2, <2>3
<1> HIDE DEF n, k, q
<1>4. \A a, b, c \in Nat : b <= c => 2 * a * b <= a * (2 * c) /\ 2 * a * b \in Nat
  BY SMT
<1>5. 2 * q * k <= q * (2 * n) /\ 2 * q * k \in Nat /\ q * (2 * n) \in Nat
  <2>1. 2 * q * k <= q * (2 * n) /\ 2 * q * k \in Nat
    BY <1>1, <1>2, <1>4
  <2>2. q * (2 * n) \in Nat
    BY <1>1, <1>2
  <2> QED BY <2>1, <2>2
<1>6. 2 * Pool + n <= Ceiling /\ Ceiling \in Nat
  BY <1>1 DEF Ceiling
<1>7. \A a, b, c \in Nat : a <= b /\ b <= c => a <= c
  OBVIOUS
<1> QED
  BY <1>1, <1>2, <1>3, <1>5, <1>6 DEF k, q

LEMMA OnceMore ==
  ASSUME NEW r \in Nat, r > 0, NEW c \in Nat, NEW x \in Nat, NEW y \in Nat,
         x <= (r - 1) * c + y, y <= c
  PROVE  x <= r * c
<1>1. (r - 1) * c + c = r * c
  BY SMT
<1>2. (r - 1) * c \in Nat
  <2>1. r - 1 \in Nat
    OBVIOUS
  <2> QED BY <2>1
<1> QED
  BY <1>1, <1>2

LEMMA PoolTypes ==
  ASSUME QuizInv, PoolInv
  PROVE  /\ \A d : /\ Entered(d) \in SUBSET Submissions /\ IsFiniteSet(Entered(d))
                   /\ \A s \in Entered(d) : paid[s] \in Nat
                   /\ Total(paid, Entered(d)) \in Nat
         /\ \A d \in Days : runs[d] \in Nat
         /\ \A s \in Submissions : /\ attempts[s].set # None => attempts[s].set \in Days
                                   /\ attempts[s].published => attempts[s].set # None
         /\ worker.pc = "credit" =>
              /\ worker.won # {} /\ worker.won \in SUBSET Submissions
              /\ worker.todo \in SUBSET worker.won
<1>1. \A d : Entered(d) \in SUBSET Submissions
  BY DEF Entered
<1>2. paid \in [Submissions -> Nat] /\ runs \in [Days -> Nat]
      /\ attempts \in [Submissions -> Attempt] /\ worker \in Worker
  BY DEF QuizInv, CountersOK
<1>3. \A d : IsFiniteSet(Entered(d)) /\ \A s \in Entered(d) : paid[s] \in Nat
  BY <1>1, <1>2, FiniteSubmissions
<1>4. \A d : Total(paid, Entered(d)) \in Nat
  BY <1>3, TotalType
<1>5. \A s \in Submissions : /\ attempts[s].set # None => attempts[s].set \in Days
                             /\ attempts[s].published => attempts[s].set # None
  BY <1>2 DEF Attempt, QuizInv, SubmitOK
<1>6. worker.pc = "credit" =>
        /\ worker.won # {} /\ worker.won \in SUBSET Submissions
        /\ worker.todo \in SUBSET worker.won
  BY <1>2 DEF QuizInv, WorkerOK, Worker, PoolInv, WonOK
<1> QED
  BY <1>1, <1>2, <1>3, <1>4, <1>5, <1>6

\* Whether or not its shares have all been given out.
LEMMA WithinCeiling ==
  ASSUME QuizInv, PoolInv, NEW d \in Days
  PROVE  2 * Total(paid, Entered(d)) <= runs[d] * Ceiling
<1>1. Spent(d)
  BY DEF PoolInv
<1>2. CASE SharedOut(d)
  <2> DEFINE won == worker.won
             given == worker.won \ worker.todo
  <2>1. won \in SUBSET Submissions /\ won # {} /\ given \in SUBSET won
    BY <1>2, PoolTypes DEF SharedOut
  <2> HIDE DEF won, given
  <2>2. /\ 2 * ShareOf(None, won) * Cardinality(given) \in Nat
        /\ 2 * ShareOf(None, won) * Cardinality(given) <= Ceiling
        /\ Ceiling \in Nat
    BY <2>1, SharesFit
  <2>3. /\ runs[d] \in Nat /\ runs[d] > 0 /\ 2 * Total(paid, Entered(d)) \in Nat
    <3>1. runs[d] \in Nat /\ Total(paid, Entered(d)) \in Nat
      BY PoolTypes
    <3> QED BY <1>1, <1>2, <3>1 DEF Spent
  <2>4. 2 * Total(paid, Entered(d))
          <= (runs[d] - 1) * Ceiling + 2 * ShareOf(None, won) * Cardinality(given)
    BY <1>1, <1>2 DEF Spent, Share, won, given
  <2> QED BY <2>2, <2>3, <2>4, OnceMore
<1>3. CASE ~SharedOut(d)
  BY <1>1, <1>3 DEF Spent
<1> QED BY <1>2, <1>3

LEMMA PoolFollows ==
  ASSUME QuizInv, PoolInv
  PROVE  RewardsWithinPool
<1>1. \A d \in Days : 2 * Total(paid, Entered(d)) <= runs[d] * (2 * Pool + MaxSubmissions)
  BY WithinCeiling DEF Ceiling
<1>2. \A d \in Days : \A s \in Entered(d) :
         /\ credits[s] <= runs[d]
         /\ credits[s] > 0 => attempts[s].passed /\ attempts[s].published
  BY DEF PoolInv, CreditOK, Entered
<1> QED
  BY <1>1, <1>2 DEF RewardsWithinPool

\* A step that pays nobody and shares nothing out, whether the worker goes on or
\* stops half-way.
LEMMA PoolKept ==
  ASSUME QuizInv, PoolInv, UNCHANGED <<credits, paid, runs>>,
         \A s \in Submissions :
           /\ attempts'[s].set = attempts[s].set
           /\ attempts[s].published => attempts'[s].published
           /\ attempts[s].published /\ attempts[s].passed => attempts'[s].passed,
         worker' = worker \/ worker'.pc # "credit"
  PROVE  PoolInv'
<1>1. \A d : Entered(d)' = Entered(d)
  BY DEF Entered
<1>2. WonOK'
  BY PoolTypes DEF PoolInv, WonOK
<1>3. \A s \in Submissions : CreditOK(s)'
  BY DEF PoolInv, CreditOK
<1>4. ASSUME NEW d \in Days PROVE Spent(d)'
  <2>1. SharedOut(d)' => SharedOut(d) /\ worker' = worker
    BY PoolTypes DEF SharedOut
  <2>2. CASE SharedOut(d)'
    BY <1>1, <2>1, <2>2 DEF PoolInv, Spent, Share, Total, Units
  <2>3. CASE ~SharedOut(d)'
    <3>1. 2 * Total(paid, Entered(d)) <= runs[d] * Ceiling
      BY WithinCeiling
    <3>2. 2 * Total(paid', Entered(d)') <= runs'[d] * Ceiling
      BY <1>1, <3>1
    <3> QED
      BY <2>3, <3>2 DEF Spent, Total, Units, Ceiling
  <2> QED BY <2>2, <2>3
<1> QED
  BY <1>2, <1>3, <1>4 DEF PoolInv

\* The steps that matter to the pool.
LEMMA PoolQuiet ==
  ASSUME QuizInv, PoolInv, [Next]_vars
  PROVE  \/ PoolInv'
         \/ \E s \in Submissions :
              \/ /\ SaveAttempt(s)
                 /\ attempts' = [attempts EXCEPT ![s].set = day]
              \/ CreditWinner(s) /\ submits[s].user \in WalletOwners
         \/ FindWinners /\ Winners # {}
<1>0. attempts \in [Submissions -> Attempt]
  BY DEF QuizInv
<1>1. UNCHANGED <<credits, paid, runs, attempts>> /\ (worker' = worker \/ worker'.pc # "credit")
        => PoolInv'
  BY PoolKept
<1>2. ASSUME NEW s \in Submissions,
             \/ \E u \in Submitters[s] : CheckAttempts(s, u)
             \/ EnqueueGrading(s) \/ DecrementAttempts(s) \/ SubmitFails(s)
      PROVE  PoolInv'
  BY <1>1, <1>2 DEF CheckAttempts, EnqueueGrading, DecrementAttempts, SubmitFails,
                    rewardVars, jobVars
<1>3. ASSUME NEW s \in Submissions, SaveAttempt(s), attempts' = attempts PROVE PoolInv'
  BY <1>1, <1>3 DEF SaveAttempt, rewardVars, jobVars
<1>4. RetryJob \/ FireRewards \/ Midnight \/ JobFails \/ Crash \/ NotifyWinners => PoolInv'
  BY <1>1, Literals DEF RetryJob, FireRewards, Midnight, JobFails, Crash, NotifyWinners,
                        rewardVars, jobVars
<1>5. FindAttempt => PoolInv'
  <2>1. FindAttempt => UNCHANGED <<credits, paid, runs, attempts>>
    BY DEF FindAttempt, rewardVars
  <2>2. FindAttempt => worker' = worker \/ worker'.pc = "grade"
    BY Literals DEF FindAttempt, Worker
  <2> QED BY <1>1, <2>1, <2>2
<1>6. FindUnpublished => PoolInv'
  <2>1. FindUnpublished => UNCHANGED <<credits, paid, runs, attempts>>
    BY DEF FindUnpublished, rewardVars
  <2>2. FindUnpublished => worker'.pc = "publish"
    BY Literals DEF FindUnpublished, Worker
  <2> QED BY <1>1, <2>1, <2>2
<1>7. CASE GradeAttempt
  <2> DEFINE s == worker.job.of
  <2>1. /\ UNCHANGED <<credits, paid, runs>> /\ worker'.pc # "credit"
        /\ ~attempts[s].published
    BY <1>7, Literals DEF GradeAttempt, QuizInv, WorkerOK, Ungraded, rewardVars
  <2>2. \A t \in Submissions : /\ attempts'[t].set = attempts[t].set
                               /\ t # s => attempts'[t] = attempts[t]
    BY <1>0, <1>7 DEF GradeAttempt, Attempt
  <2> QED BY <2>1, <2>2, PoolKept
<1>8. CASE PublishAttempts
  <2>1. UNCHANGED <<credits, paid, runs>> /\ worker'.pc # "credit"
    BY <1>8 DEF PublishAttempts, rewardVars, QuizInv, Worker
  <2>2. \A t \in Submissions : /\ attempts'[t].set = attempts[t].set
                               /\ attempts'[t].passed = attempts[t].passed
                               /\ attempts[t].published => attempts'[t].published
    BY <1>0, <1>8 DEF PublishAttempts, Attempt
  <2> QED BY <2>1, <2>2, PoolKept
<1>9. CASE FindWinners /\ Winners = {}
  <2>1. UNCHANGED <<credits, paid, runs, attempts>> /\ worker'.pc # "credit"
    BY <1>9 DEF FindWinners, QuizInv, Worker
  <2> QED BY <1>1, <2>1
<1>10. ASSUME NEW s \in Submissions, CreditWinner(s), submits[s].user \notin WalletOwners
       PROVE  PoolInv'
  BY <1>1, <1>10, Literals DEF CreditWinner
<1>11. UNCHANGED vars => PoolInv'
  BY <1>1 DEF vars
<1>12. ASSUME NEW s \in Submissions, SaveAttempt(s)
       PROVE  attempts' = attempts \/ attempts' = [attempts EXCEPT ![s].set = day]
  BY <1>12 DEF SaveAttempt
<1> QED
  BY <1>2, <1>3, <1>4, <1>5, <1>6, <1>7, <1>8, <1>9, <1>10, <1>11, <1>12, Zenon
     DEF Next, SubmitStep, WorkerStep

\* A new row has been paid nothing.
LEMMA PoolSaves ==
  ASSUME QuizInv, PoolInv, NEW s \in Submissions, SaveAttempt(s),
         attempts' = [attempts EXCEPT ![s].set = day]
  PROVE  PoolInv'
<1>1. /\ UNCHANGED <<credits, paid, runs, worker>>
      /\ attempts[s].set = None /\ ~attempts[s].published
  BY DEF SaveAttempt, rewardVars, jobVars, QuizInv, SubmitOK
<1>2. day \in Days /\ day # None /\ paid[s] = 0 /\ credits[s] = 0
  BY <1>1 DEF QuizInv, CountersOK, Days, None, PoolInv, CreditOK
<1>3. /\ attempts'[s].set = day /\ attempts'[s].published = attempts[s].published
      /\ attempts'[s].passed = attempts[s].passed
      /\ \A t \in Submissions \ {s} : attempts'[t] = attempts[t]
  BY DEF QuizInv, Attempt
<1>4. worker.pc = "credit" => s \notin worker.won /\ s \notin worker.todo
  BY <1>1, PoolTypes DEF PoolInv, WonOK
<1>5. WonOK'
  BY <1>1, <1>3, <1>4, PoolTypes DEF PoolInv, WonOK
<1>6. ASSUME NEW t \in Submissions PROVE CreditOK(t)'
  <2>1. CASE t # s
    BY <1>1, <1>3, <2>1 DEF PoolInv, CreditOK
  <2>2. CASE t = s
    BY <1>1, <1>2, <1>3, <1>4, <2>2, PoolTypes DEF CreditOK
  <2> QED BY <2>1, <2>2
<1>7. ASSUME NEW d \in Days PROVE Spent(d)'
  <2>1. SharedOut(d)' <=> SharedOut(d)
    BY <1>1, <1>3, <1>4, PoolTypes DEF SharedOut
  <2>2. Total(paid', Entered(d)') = Total(paid, Entered(d))
    <3>1. CASE d = day
      <4>1. Entered(d)' = Entered(d) \cup {s} /\ s \notin Entered(d)
        BY <1>1, <1>2, <1>3, <3>1 DEF Entered
      <4>2. Total(paid, Entered(d) \cup {s}) = Total(paid, Entered(d)) + 0
        BY <1>2, <4>1, PoolTypes, TotalAdd
      <4> QED BY <1>1, <4>1, <4>2, PoolTypes
    <3>2. CASE d # day
      <4>1. Entered(d)' = Entered(d)
        BY <1>1, <1>2, <1>3, <3>2, PoolTypes DEF Entered, Days, None
      <4> QED BY <1>1, <4>1
    <3> QED BY <3>1, <3>2
  <2>3. IF SharedOut(d)'
        THEN /\ runs'[d] > 0
             /\ 2 * Total(paid', Entered(d)')
                  <= (runs'[d] - 1) * Ceiling + 2 * Share' * Cardinality(worker'.won \ worker'.todo)
        ELSE 2 * Total(paid', Entered(d)') <= runs'[d] * Ceiling
    BY <1>1, <2>1, <2>2 DEF PoolInv, Spent, Share
  <2> QED BY <2>3 DEF Spent, Total, Units, Ceiling
<1> QED BY <1>5, <1>6, <1>7 DEF PoolInv

\* The pool of the day is counted as shared out before the first credit.
LEMMA PoolOpens ==
  ASSUME QuizInv, PoolInv, FindWinners, Winners # {}
  PROVE  PoolInv'
<1> DEFINE W == Winners
<1>1. /\ UNCHANGED <<credits, paid, attempts>> /\ worker.pc # "credit"
      /\ runs' = [runs EXCEPT ![day] = @ + 1]
      /\ worker'.pc = "credit" /\ worker'.won = W /\ worker'.todo = W
  BY DEF FindWinners, QuizInv, Worker
<1>2. /\ W \in SUBSET Submissions
      /\ \A s \in W : attempts[s].set = day /\ attempts[s].published /\ attempts[s].passed
  BY DEF Winners
<1>3. W # {}
  OBVIOUS
<1> HIDE DEF W
<1>4. /\ day \in Days /\ \A d \in Days : runs[d] \in Nat
      /\ \A d \in Days : runs'[d] = IF d = day THEN runs[d] + 1 ELSE runs[d]
  BY <1>1 DEF QuizInv, CountersOK
<1>5. WonOK'
  BY <1>1, <1>2 DEF WonOK
<1>6. ASSUME NEW s \in Submissions PROVE CreditOK(s)'
  <2>1. CreditOK(s) /\ credits[s] \in Nat
    BY DEF PoolInv, QuizInv, CountersOK
  <2> QED BY <1>1, <1>2, <1>4, <2>1 DEF CreditOK
<1>7. ASSUME NEW d \in Days PROVE Spent(d)'
  <2>1. SharedOut(d)' <=> d = day
    BY <1>1, <1>2, <1>3 DEF SharedOut
  <2>2. 2 * Total(paid, Entered(d)) <= runs[d] * Ceiling
    BY WithinCeiling
  <2>3. Entered(d)' = Entered(d)
    BY <1>1 DEF Entered
  <2>4. W \ W = {} /\ {} \in SUBSET W
    OBVIOUS
  <2>5. 2 * Share' * Cardinality({}) = 0 /\ Ceiling \in Nat
    <3>1. Share' = ShareOf(None, W)
      BY <1>1 DEF Share, ShareOf
    <3>2. Share' \in Nat /\ Ceiling \in Nat
      BY <1>2, <1>3, <2>4, <3>1, SharesFit
    <3> QED BY <3>2, FS_EmptySet
  <2>6. CASE d = day
    <3>1. runs'[d] > 0 /\ runs'[d] - 1 = runs[d]
      BY <1>4, <2>6
    <3>2. worker'.won \ worker'.todo = {}
      BY <1>1
    <3>3. Total(paid, Entered(d)) \in Nat /\ runs[d] * Ceiling \in Nat
      BY <1>4, <2>5, PoolTypes
    <3>4. 2 * Total(paid, Entered(d))
            <= (runs'[d] - 1) * Ceiling + 2 * Share' * Cardinality(worker'.won \ worker'.todo)
      BY <2>2, <2>5, <3>1, <3>2, <3>3
    <3>5. 2 * Total(paid', Entered(d)')
            <= (runs'[d] - 1) * Ceiling + 2 * Share' * Cardinality(worker'.won \ worker'.todo)
      BY <1>1, <2>3, <3>4
    <3> QED BY <2>1, <2>6, <3>1, <3>5 DEF Spent, Total, Units, Ceiling
  <2>7. CASE d # day
    <3>1. 2 * Total(paid', Entered(d)') <= runs'[d] * Ceiling
      BY <1>1, <1>4, <2>2, <2>3, <2>7
    <3> QED BY <2>1, <2>7, <3>1 DEF Spent, Total, Units, Ceiling
  <2> QED BY <2>6, <2>7
<1> QED BY <1>5, <1>6, <1>7 DEF PoolInv

\* Each credit gives one of the winners its share, and there are as many shares
\* to give as there are winners.
LEMMA PoolPays ==
  ASSUME QuizInv, PoolInv, NEW s \in Submissions, CreditWinner(s),
         submits[s].user \in WalletOwners
  PROVE  PoolInv'
<1> DEFINE W == worker.won
           T == worker.todo
           q == ShareOf(None, W)
           given == W \ T
           d0 == attempts[s].set
<1>1. /\ worker.pc = "credit" /\ s \in T /\ UNCHANGED <<attempts, runs>>
      /\ credits' = [credits EXCEPT ![s] = @ + 1]
      /\ paid' = [paid EXCEPT ![s] = @ + q]
      /\ worker'.won = W /\ worker'.todo = T \ {s}
      /\ worker'.pc = IF T = {s} THEN "notify" ELSE "credit"
  BY DEF CreditWinner, ShareOf, QuizInv, Worker
<1>2. /\ W # {} /\ W \in SUBSET Submissions /\ T \in SUBSET W
      /\ \A t \in W : attempts[t].published /\ attempts[t].passed /\ attempts[t].set = d0
  BY <1>1, PoolTypes DEF PoolInv, WonOK
<1>3. d0 \in Days
  BY <1>1, <1>2, PoolTypes
<1>4. /\ given \in SUBSET W /\ given \cup {s} \in SUBSET W /\ s \notin given
      /\ W \ (T \ {s}) = given \cup {s}
  BY <1>1, <1>2
<1> HIDE DEF W, T, q, given, d0
<1>5. /\ q \in Nat /\ Ceiling \in Nat
      /\ IsFiniteSet(given) /\ Cardinality(given) \in Nat
      /\ 2 * q * Cardinality(given) \in Nat
      /\ 2 * q * Cardinality(given \cup {s}) \in Nat
      /\ 2 * q * Cardinality(given \cup {s}) <= Ceiling
  BY <1>2, <1>4, SharesFit DEF q
<1>6. Cardinality(given \cup {s}) = Cardinality(given) + 1
  BY <1>4, <1>5, FS_AddElement
<1>7. /\ credits \in [Submissions -> Nat] /\ paid \in [Submissions -> Nat]
      /\ credits'[s] = credits[s] + 1 /\ paid'[s] = paid[s] + q
      /\ \A t \in Submissions \ {s} : credits'[t] = credits[t] /\ paid'[t] = paid[t]
  BY <1>1 DEF QuizInv, CountersOK
<1>8. WonOK'
  BY <1>1, <1>2 DEF WonOK
<1>9. ASSUME NEW t \in Submissions PROVE CreditOK(t)'
  <2>1. CreditOK(t) /\ credits[t] \in Nat
    BY <1>7 DEF PoolInv
  <2>2. \A d \in Days : runs[d] \in Nat
    BY PoolTypes
  <2>3. CASE t # s
    <3>1. worker'.pc = "credit" /\ t \in worker'.todo => worker.pc = "credit" /\ t \in worker.todo
      BY <1>1 DEF T
    <3> QED BY <1>1, <1>7, <2>1, <2>3, <3>1 DEF CreditOK
  <2>4. CASE t = s
    <3>1. attempts[s].passed /\ attempts[s].published /\ d0 # None /\ s \notin worker'.todo
      BY <1>1, <1>2, <1>3 DEF Days, None
    <3>2. credits[s] < runs[d0]
      BY <1>1, <1>3, <2>1, <2>4 DEF CreditOK, T, d0
    <3>3. credits'[s] <= runs[d0]
      BY <1>3, <1>7, <2>1, <2>2, <2>4, <3>2
    <3> QED BY <1>1, <2>4, <3>1, <3>3 DEF CreditOK, d0
  <2> QED BY <2>3, <2>4
<1>10. ASSUME NEW d \in Days PROVE Spent(d)'
  <2>1. Entered(d)' = Entered(d) /\ runs'[d] = runs[d] /\ runs[d] \in Nat
    BY <1>1, PoolTypes DEF Entered
  <2>2. SharedOut(d) <=> d = d0
    BY <1>1, <1>2 DEF SharedOut, W
  <2>3. SharedOut(d)' => d = d0 /\ worker'.pc = "credit"
    BY <1>1, <1>2 DEF SharedOut
  <2>4. CASE d # d0
    <3>1. s \notin Entered(d)
      BY <2>4 DEF Entered, d0
    <3>2. \A t \in Entered(d) : paid'[t] = paid[t]
      BY <1>7, <3>1 DEF Entered
    <3>3. Total(paid', Entered(d)') = Total(paid, Entered(d))
      BY <2>1, <3>2, TotalSame
    <3>4. 2 * Total(paid', Entered(d)') <= runs'[d] * Ceiling
      BY <2>1, <2>2, <2>4, <3>3 DEF PoolInv, Spent
    <3> QED BY <2>3, <2>4, <3>4 DEF Spent, Total, Units, Ceiling
  <2>5. CASE d = d0
    <3>1. s \in Entered(d)
      BY <2>5 DEF Entered, d0
    <3>2. Total(paid', Entered(d)) = Total(paid, Entered(d)) + q
      <4>1. \A t \in Entered(d) \ {s} : paid'[t] = paid[t]
        BY <1>7 DEF Entered
      <4>2. IsFiniteSet(Entered(d)) /\ \A t \in Entered(d) : paid[t] \in Nat
        BY PoolTypes
      <4> QED BY <1>5, <1>7, <3>1, <4>1, <4>2, TotalGrows
    <3>3. /\ runs[d] > 0
          /\ 2 * Total(paid, Entered(d)) <= (runs[d] - 1) * Ceiling + 2 * q * Cardinality(given)
      BY <2>2, <2>5 DEF PoolInv, Spent, Share, q, W, T, given
    <3>4. Total(paid, Entered(d)) \in Nat
      BY PoolTypes
    <3>5. 2 * q * Cardinality(given \cup {s}) = 2 * q * Cardinality(given) + 2 * q
      <4>1. \A a, b \in Nat : 2 * a * (b + 1) = 2 * a * b + 2 * a
        BY SMT
      <4> QED BY <1>5, <1>6, <4>1
    <3>6. (runs[d] - 1) * Ceiling \in Nat
      <4>1. runs[d] - 1 \in Nat
        BY <2>1, <3>3
      <4> QED BY <1>5, <4>1
    <3>7. 2 * Total(paid', Entered(d))
            <= (runs[d] - 1) * Ceiling + 2 * q * Cardinality(given \cup {s})
      BY <1>5, <3>2, <3>3, <3>4, <3>5, <3>6
    <3>8. CASE SharedOut(d)'
      <4>1. Share' = q /\ worker'.won \ worker'.todo = given \cup {s}
        BY <1>1, <1>4 DEF Share, q, ShareOf
      <4>2. /\ runs'[d] > 0
            /\ 2 * Total(paid', Entered(d)')
                 <= (runs'[d] - 1) * Ceiling
                      + 2 * Share' * Cardinality(worker'.won \ worker'.todo)
        BY <2>1, <3>3, <3>7, <4>1
      <4> QED BY <3>8, <4>2 DEF Spent, Total, Units, Ceiling
    <3>9. CASE ~SharedOut(d)'
      <4>1. 2 * Total(paid', Entered(d)) \in Nat
        BY <1>5, <3>2, <3>4
      <4>2. 2 * Total(paid', Entered(d)) <= runs[d] * Ceiling
        BY <1>5, <2>1, <3>3, <3>7, <4>1, OnceMore
      <4>3. 2 * Total(paid', Entered(d)') <= runs'[d] * Ceiling
        BY <2>1, <4>2
      <4> QED BY <3>9, <4>3 DEF Spent, Total, Units, Ceiling
    <3> QED BY <3>8, <3>9
  <2> QED BY <2>4, <2>5
<1> QED BY <1>8, <1>9, <1>10 DEF PoolInv

\* However the reward job is retried, runs late or dies between two credits: only
\* published, passed attempts are paid, each at most once each time the pool of
\* its day is shared out, and never more than that many pools together
\* (quiz-jobs.service.ts: processQuizWinningRewards).
THEOREM RewardsWithinPoolAlways == Spec => []RewardsWithinPool
<1>1. Init => PoolInv
  <2> SUFFICES ASSUME Init PROVE PoolInv
    OBVIOUS
  <2>1. /\ worker.pc # "credit"
        /\ \A s \in Submissions : attempts[s].set = None /\ credits[s] = 0 /\ paid[s] = 0
        /\ \A d \in Days : runs[d] = 0
    BY Literals DEF Init
  <2>2. \A d \in Days : Entered(d) = {}
    BY <2>1 DEF Entered, Days, None
  <2>3. Ceiling \in Nat
    BY QuizAssumption DEF QuizAssumption, Ceiling
  <2>4. \A d \in Days : Spent(d)
    <3> TAKE d \in Days
    <3>1. Total(paid, Entered(d)) = 0
      BY <2>2, TotalEmpty
    <3>2. runs[d] = 0 /\ 0 * Ceiling = 0
      BY <2>1, <2>3
    <3> QED BY <2>1, <3>1, <3>2 DEF Spent, SharedOut
  <2>5. \A s \in Submissions : CreditOK(s)
    BY <2>1 DEF CreditOK, Days, None
  <2> QED BY <2>1, <2>4, <2>5 DEF PoolInv, WonOK
<1>2. QuizInv /\ PoolInv /\ [Next]_vars => PoolInv'
  BY PoolQuiet, PoolSaves, PoolOpens, PoolPays
<1>3. QuizInv /\ PoolInv => RewardsWithinPool
  BY PoolFollows
<1> QED
  BY <1>1, <1>2, <1>3, Initially, Invariance, PTL DEF Spec
=============================================================================
