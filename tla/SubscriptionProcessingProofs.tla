-------------------- MODULE SubscriptionProcessingProofs --------------------
(* Theorems about SubscriptionProcessing, for every value of its constants. *)
EXTENDS SubscriptionProcessing, TotalsProofs

LEMMA AnyRequestType == AnyRequest \in Notifications
  BY RequestsAssumption DEF AnyRequest

LEMMA RecordTypes ==
  /\ NoJob \in Job
  /\ Idle \in [pc : Pcs, req : Notifications, found : Nat]
  /\ Idle.pc = "idle"
  /\ \A n \in Notifications : NewJob(n) \in Job
  BY AnyRequestType
     DEF NoJob, NewJob, Job, JobStates, Attempts, MaxStalled, Idle, Pcs

LEMMA RetriedType ==
  ASSUME NEW job \in Job, HasAttemptLeft(job), job.state # "failed"
  PROVE  Retried(job) \in Job /\ HasAttemptLeft(Retried(job))
<1>1. job.made + 1 \in 0 .. Attempts
  BY DEF HasAttemptLeft, Job, Attempts
<1>2. CASE job.made + 1 < Attempts
  <2>1. Retried(job) = [job EXCEPT !.made = job.made + 1, !.state = "waiting"]
    BY <1>2 DEF Retried
  <2>2. Retried(job) \in Job
    BY <1>1, <2>1 DEF Job, JobStates
  <2>3. Retried(job).made = job.made + 1
    BY <2>1 DEF Job
  <2> QED BY <1>2, <2>2, <2>3 DEF HasAttemptLeft
<1>3. CASE ~(job.made + 1 < Attempts)
  <2>1. Retried(job) = [job EXCEPT !.made = job.made + 1, !.state = "failed"]
    BY <1>3 DEF Retried
  <2>2. Retried(job) \in Job /\ Retried(job).state = "failed"
    BY <1>1, <2>1 DEF Job, JobStates
  <2> QED BY <2>2 DEF HasAttemptLeft
<1> QED BY <1>2, <1>3

LEMMA StalledType ==
  ASSUME NEW job \in Job, HasAttemptLeft(job)
  PROVE  Stalled(job) \in Job /\ HasAttemptLeft(Stalled(job))
<1>1. CASE ~Held(job)
  BY <1>1 DEF Stalled
<1>2. CASE Held(job) /\ job.stalled < MaxStalled
  <2>1. Stalled(job) = [job EXCEPT !.stalled = job.stalled + 1, !.state = "waiting"]
    BY <1>2 DEF Stalled
  <2>2. job.state # "failed" /\ job.stalled + 1 \in 0 .. MaxStalled
    BY <1>2 DEF Held, Job, MaxStalled
  <2> QED BY <2>1, <2>2 DEF Job, JobStates, HasAttemptLeft
<1>3. CASE Held(job) /\ ~(job.stalled < MaxStalled)
  <2>1. Stalled(job) = [job EXCEPT !.state = "failed"]
    BY <1>3 DEF Stalled
  <2> QED BY <2>1 DEF Job, JobStates, HasAttemptLeft
<1> QED BY <1>1, <1>2, <1>3

LEMMA RowType ==
  ASSUME TablesTypeOK, NEW n \in Notifications, n.product \in Products
  PROVE  NewRow(n) \in Row
<1>1. EndDate(n.product) \in Nat \cup {NoEndDate}
  <2>1. ValidityDays[n.product] \in Nat /\ TicksPerDay \in Nat /\ now \in Nat
    BY CatalogueAssumption, BoundsAssumption DEF TablesTypeOK
  <2>2. ValidityDays[n.product] * TicksPerDay \in Nat
    BY <2>1
  <2> QED BY <2>1, <2>2 DEF EndDate
<1>2. n.msisdn \in Msisdns /\ n.resultOk \in BOOLEAN
  BY RequestsAssumption
<1> QED BY <1>1, <1>2 DEF NewRow, Row, Statuses

\* The ways a step changes the listeners and the rows.

LEMMA ListenerMoves ==
  ASSUME ListenerTypeOK, NEW r \in Runs, NEW pc \in Pcs \ {"replace", "cancel"},
         Goto(r, pc), ~At(r, "idle"), DOMAIN subs \subseteq DOMAIN subs'
  PROVE  ListenerTypeOK'
  BY DEF ListenerTypeOK, Goto, At

LEMMA ListenerHolds ==
  ASSUME ListenerTypeOK, NEW r \in Runs, NEW pc \in Pcs, NEW i \in Nat,
         run' = [run EXCEPT ![r].pc = pc, ![r].found = i],
         ~At(r, "idle"), DOMAIN subs' = DOMAIN subs,
         pc \in {"replace", "cancel"} => i \in DOMAIN subs
  PROVE  ListenerTypeOK'
  BY DEF ListenerTypeOK, At

LEMMA ListenerEnds ==
  ASSUME ListenerTypeOK, NEW r \in Runs, Finish(r), DOMAIN subs' = DOMAIN subs
  PROVE  ListenerTypeOK'
  BY RecordTypes DEF ListenerTypeOK, Finish, At

LEMMA StatusWritten ==
  ASSUME subs \in Seq(Row), NEW i \in DOMAIN subs, NEW st \in Statuses,
         subs' = [subs EXCEPT ![i].status = st]
  PROVE  /\ subs' \in Seq(Row)
         /\ DOMAIN subs' = DOMAIN subs
         /\ \A k \in DOMAIN subs : /\ Key(subs'[k]) = Key(subs[k])
                                   /\ subs'[k].endDate = subs[k].endDate
                                   /\ k # i => subs'[k] = subs[k]
         /\ subs'[i].status = st
<1>1. /\ DOMAIN subs' = DOMAIN subs
      /\ \A k \in DOMAIN subs : subs[k] \in Row
      /\ \A k \in DOMAIN subs : k # i => subs'[k] = subs[k]
      /\ subs'[i] = [subs[i] EXCEPT !.status = st]
  OBVIOUS
<1>2. subs'[i] \in Row /\ subs'[i].status = st /\ Key(subs'[i]) = Key(subs[i])
      /\ subs'[i].endDate = subs[i].endDate
  BY <1>1 DEF Row, Key
<1>3. subs' \in Seq(Row)
  BY <1>1, <1>2
<1> QED BY <1>1, <1>2, <1>3

LEMMA Incremented ==
  ASSUME NEW D, NEW f \in [D -> Nat], NEW k \in D
  PROVE  [f EXCEPT ![k] = @ + 1] \in [D -> Nat]
  OBVIOUS

LEMMA RowIds == ASSUME TablesTypeOK PROVE DOMAIN subs \subseteq Nat
  BY DEF TablesTypeOK

LEMMA TypeStep == ASSUME TypeOK, [Next]_vars PROVE TypeOK'
<1> USE RequestsAssumption, CatalogueAssumption DEF TypeOK
<1>0. /\ UNCHANGED <<jobs, cronVars>> => QueueTypeOK'
      /\ UNCHANGED <<run, subs>> => ListenerTypeOK'
  BY DEF QueueTypeOK, ListenerTypeOK, HasAttemptLeft, At, cronVars
<1>1. ASSUME NEW j \in Jobs, NEW n \in Notifications, DatasyncNotification(j, n)
      PROVE  TypeOK'
  <2>1. QueueTypeOK'
    BY <1>1, RecordTypes
       DEF QueueTypeOK, DatasyncNotification, cronVars, NewJob, HasAttemptLeft, Attempts
  <2> QED BY <1>0, <1>1, <2>1 DEF TablesTypeOK, DatasyncNotification, userVars, cronVars
<1>2. ASSUME NEW j \in Jobs, StoreDatasync(j) PROVE TypeOK'
  <2>1. QueueTypeOK'
    BY <1>2 DEF QueueTypeOK, StoreDatasync, cronVars, Job, JobStates, HasAttemptLeft
  <2> QED BY <1>0, <1>2, <2>1 DEF TablesTypeOK, StoreDatasync, userVars, cronVars
<1>3. ASSUME NEW j \in Jobs, StoreFails(j) PROVE TypeOK'
  <2>1. QueueTypeOK'
    BY <1>3, RetriedType DEF QueueTypeOK, StoreFails, cronVars
  <2> QED BY <1>0, <1>3, <2>1 DEF TablesTypeOK, StoreFails, userVars, cronVars
<1>4. ASSUME NEW j \in Jobs, EmitOperation(j) PROVE TypeOK'
  <2>1. QueueTypeOK'
    BY <1>4 DEF QueueTypeOK, EmitOperation, cronVars, Job, JobStates, HasAttemptLeft
  <2>2. jobs[j].req \in Notifications
    BY DEF QueueTypeOK, Job
  <2>3. ListenerTypeOK'
    <3>1. CASE UNCHANGED run
      BY <1>0, <1>4, <3>1 DEF EmitOperation
    <3>2. ASSUME HasListenerWork(jobs[j].req), NEW r \in Runs,
                 run' = [run EXCEPT ![r] = [pc |-> "getUser", req |-> jobs[j].req, found |-> 0]]
          PROVE  ListenerTypeOK'
      BY <1>4, <2>2, <3>2 DEF EmitOperation, HasListenerWork, ListenerTypeOK, Pcs, At
    <3> QED BY <1>4, <3>1, <3>2 DEF EmitOperation
  <2> QED BY <1>4, <2>1, <2>3 DEF TablesTypeOK, EmitOperation, userVars, cronVars
<1>5. ASSUME NEW j \in Jobs, CompleteJob(j) PROVE TypeOK'
  <2>1. QueueTypeOK'
    BY <1>5, RecordTypes
       DEF QueueTypeOK, CompleteJob, cronVars, NoJob, Job, JobStates, HasAttemptLeft, Attempts
  <2> QED BY <1>0, <1>5, <2>1 DEF TablesTypeOK, CompleteJob, userVars, cronVars
<1>6. ASSUME NEW r \in Runs, GetUser(r) PROVE TypeOK'
  BY <1>0, <1>6, ListenerMoves
     DEF GetUser, AfterUser, TablesTypeOK, userVars, cronVars, At, Pcs
<1>7. ASSUME NEW r \in Runs, CreateUser(r) PROVE TypeOK'
  <2>1. run[r].req.msisdn \in Msisdns
    BY DEF ListenerTypeOK
  <2>2. ListenerTypeOK'
    BY <1>7, ListenerMoves, ListenerEnds DEF CreateUser, AfterCreate, At, Pcs
  <2> QED BY <1>0, <1>7, <2>1, <2>2 DEF CreateUser, TablesTypeOK, cronVars
<1>8. ASSUME NEW r \in Runs, CreateWallet(r) PROVE TypeOK'
  <2>1. run[r].req.msisdn \in Msisdns
    BY DEF ListenerTypeOK
  <2>2. ListenerTypeOK'
    BY <1>8, ListenerMoves DEF CreateWallet, AfterUser, At, Pcs
  <2> QED BY <1>0, <1>8, <2>1, <2>2 DEF CreateWallet, TablesTypeOK, cronVars
<1>9. ASSUME NEW r \in Runs, CreateTransaction(r) PROVE TypeOK'
  <2>1. ListenerTypeOK'
    BY <1>9, ListenerMoves, ListenerEnds DEF CreateTransaction, At, Pcs
  <2>2. Key(run[r].req) \in Msisdns \X Products
    BY <1>9 DEF CreateTransaction, ListenerTypeOK, At, Key
  <2>3. txns' \in [Keys -> Nat]
    <3>1. txns \in [Keys -> Nat] /\ Key(run[r].req) \in Keys
      BY <2>2 DEF TablesTypeOK, Keys
    <3>2. txns' = txns \/ txns' = [txns EXCEPT ![Key(run[r].req)] = @ + 1]
      BY <1>9 DEF CreateTransaction
    <3> QED BY <3>1, <3>2, Incremented
  <2> QED BY <1>0, <1>9, <2>1, <2>3 DEF CreateTransaction, TablesTypeOK, Keys, cronVars
<1>10. ASSUME NEW r \in Runs, FindExisting(r) PROVE TypeOK'
  <2>1. ListenerTypeOK'
    <3>1. CASE Goto(r, "create")
      BY <1>10, <3>1, ListenerMoves DEF FindExisting, At, Pcs
    <3>2. ASSUME NEW i \in ExistingRows(run[r].req),
                 run' = [run EXCEPT ![r].pc = "replace", ![r].found = i]
          PROVE  ListenerTypeOK'
      BY <1>10, <3>2, ListenerHolds, RowIds DEF FindExisting, ExistingRows, At, Pcs
    <3> QED BY <1>10, <3>1, <3>2 DEF FindExisting
  <2>2. Key(run[r].req) \in Msisdns \X Products
    BY <1>10 DEF FindExisting, ListenerTypeOK, At, Key
  <2>3. collided' \in SUBSET (Msisdns \X Products)
    BY <1>10, <2>2 DEF FindExisting, CollidedBy, TablesTypeOK
  <2> QED BY <1>0, <1>10, <2>1, <2>3 DEF FindExisting, TablesTypeOK, userVars, cronVars
<1>11. ASSUME NEW r \in Runs, ReplaceExisting(r) PROVE TypeOK'
  <2>1. subs' \in Seq(Row) /\ DOMAIN subs' = DOMAIN subs
    BY <1>11, StatusWritten
       DEF ReplaceExisting, ListenerTypeOK, TablesTypeOK, At, Statuses
  <2>2. ListenerTypeOK'
    BY <1>11, <2>1, ListenerHolds DEF ReplaceExisting, At, Pcs
  <2> QED BY <1>0, <1>11, <2>1, <2>2 DEF ReplaceExisting, TablesTypeOK, userVars, cronVars
<1>12. ASSUME NEW r \in Runs, CreateSubscription(r) PROVE TypeOK'
  <2>1. NewRow(run[r].req) \in Row
    BY <1>12, RowType DEF CreateSubscription, ListenerTypeOK, At
  <2>2. subs' \in Seq(Row) /\ DOMAIN subs \subseteq DOMAIN subs'
    BY <1>12, <2>1 DEF CreateSubscription, WithNewRow, TablesTypeOK
  <2>3. ListenerTypeOK'
    BY <1>12, <2>2, ListenerMoves DEF CreateSubscription, At, Pcs
  <2> QED BY <1>0, <1>12, <2>2, <2>3 DEF CreateSubscription, TablesTypeOK, userVars, cronVars
<1>13. ASSUME NEW r \in Runs, AddQuizAttempts(r) PROVE TypeOK'
  <2>1. /\ run[r].req.msisdn \in Msisdns
        /\ QuizAttempts[run[r].req.product] \in Nat
    BY <1>13 DEF AddQuizAttempts, ListenerTypeOK, At
  <2>2. attempts' \in [Msisdns -> Nat]
    BY <1>13, <2>1 DEF AddQuizAttempts, Credited, TablesTypeOK
  <2>3. ListenerTypeOK'
    BY <1>13, ListenerMoves DEF AddQuizAttempts, At, Pcs
  <2> QED BY <1>0, <1>13, <2>2, <2>3 DEF AddQuizAttempts, TablesTypeOK, cronVars
<1>14. ASSUME NEW r \in Runs, FindActive(r) PROVE TypeOK'
  <2>1. ListenerTypeOK'
    <3>1. CASE Goto(r, "unsubscribedSms")
      BY <1>14, <3>1, ListenerMoves DEF FindActive, At, Pcs
    <3>2. ASSUME NEW i \in CancellableRows(run[r].req),
                 run' = [run EXCEPT ![r].pc = "cancel", ![r].found = i]
          PROVE  ListenerTypeOK'
      BY <1>14, <3>2, ListenerHolds, RowIds DEF FindActive, CancellableRows, At, Pcs
    <3> QED BY <1>14, <3>1, <3>2 DEF FindActive
  <2> QED BY <1>0, <1>14, <2>1 DEF FindActive, TablesTypeOK, userVars, cronVars
<1>15. ASSUME NEW r \in Runs, CancelActive(r) PROVE TypeOK'
  <2>1. subs' \in Seq(Row) /\ DOMAIN subs' = DOMAIN subs
    BY <1>15, StatusWritten DEF CancelActive, ListenerTypeOK, TablesTypeOK, At, Statuses
  <2>2. ListenerTypeOK'
    BY <1>15, <2>1, ListenerHolds DEF CancelActive, At, Pcs
  <2> QED BY <1>0, <1>15, <2>1, <2>2 DEF CancelActive, TablesTypeOK, userVars, cronVars
<1>16. ASSUME NEW r \in Runs, SendSms(r) PROVE TypeOK'
  BY <1>0, <1>16, ListenerEnds DEF SendSms, TablesTypeOK, userVars, cronVars
<1>17. ASSUME NEW r \in Runs, ListenerFails(r) PROVE TypeOK'
  BY <1>0, <1>17, ListenerEnds DEF ListenerFails, TablesTypeOK, userVars, cronVars
<1>18. CASE StartSweep
  <2>1. QueueTypeOK'
    BY <1>18 DEF StartSweep, QueueTypeOK, Job, JobStates, HasAttemptLeft
  <2> QED BY <1>0, <1>18, <2>1 DEF StartSweep, LapsedRows, TablesTypeOK, userVars
<1>19. ASSUME NEW i \in sweep, ExpireSubscription(i) PROVE TypeOK'
  <2>0. subs \in Seq(Row) /\ i \in DOMAIN subs /\ "EXPIRED" \in Statuses
    BY DEF TablesTypeOK, Statuses
  <2>1. subs' \in Seq(Row) /\ DOMAIN subs' = DOMAIN subs
    BY <1>19, <2>0, StatusWritten DEF ExpireSubscription
  <2>2. cron.state = "active" /\ cron' \in Job /\ HasAttemptLeft(cron')
    BY <1>19 DEF ExpireSubscription, QueueTypeOK, Job, JobStates, HasAttemptLeft
  <2>4. sweep' # {} => cron'.state = "active"
    BY <1>19 DEF ExpireSubscription, QueueTypeOK, Job
  <2>5. QueueTypeOK'
    BY <1>19, <2>2, <2>4 DEF ExpireSubscription, QueueTypeOK
  <2>3. ListenerTypeOK'
    BY <1>19, <2>1 DEF ExpireSubscription, ListenerTypeOK, At
  <2> QED BY <1>19, <2>1, <2>3, <2>5 DEF ExpireSubscription, TablesTypeOK, userVars
<1>20. CASE SweepFails
  <2>1. QueueTypeOK'
    BY <1>20, RetriedType DEF SweepFails, QueueTypeOK
  <2> QED BY <1>0, <1>20, <2>1 DEF SweepFails, TablesTypeOK, userVars
<1>21. CASE Tick
  <2>1. QueueTypeOK'
    BY <1>21, RecordTypes, AnyRequestType
       DEF Tick, QueueTypeOK, NewJob, HasAttemptLeft, Attempts
  <2> QED BY <1>0, <1>21, <2>1 DEF Tick, TablesTypeOK, userVars
<1>22. CASE Crash
  <2>1. QueueTypeOK'
    BY <1>22, StalledType DEF Crash, QueueTypeOK
  <2>2. ListenerTypeOK'
    BY <1>22, RecordTypes DEF Crash, ListenerTypeOK, At
  <2> QED BY <1>22, <2>1, <2>2 DEF Crash, TablesTypeOK, userVars
<1>23. CASE UNCHANGED vars
  BY <1>0, <1>23 DEF TablesTypeOK, vars, userVars, cronVars
<1> QED
  BY <1>1, <1>2, <1>3, <1>4, <1>5, <1>6, <1>7, <1>8, <1>9, <1>10, <1>11, <1>12,
     <1>13, <1>14, <1>15, <1>16, <1>17, <1>18, <1>19, <1>20, <1>21, <1>22, <1>23
     DEF Next, WorkerStep, ListenerStep, SweepStep

\* Every reachable state is well-typed: in particular no listener ever writes a
\* row by an id that is not a row's.
THEOREM TypeCorrect == Spec => []TypeOK
<1>1. Init => TypeOK
  BY AnyRequestType, RecordTypes, RequestsAssumption
     DEF Init, TypeOK, QueueTypeOK, ListenerTypeOK, TablesTypeOK, At, Idle, NoJob,
         HasAttemptLeft, Attempts
<1>2. TypeOK /\ [Next]_vars => TypeOK'
  BY TypeStep
<1> QED BY <1>1, <1>2, PTL DEF Spec

----------------------------------------------------------------------------
(* The inductive invariant behind the safety properties.                   *)

\* What a listener or the sweep holds between a read and the write by id: the
\* row is not one of a failed charge, and the sweep's rows are long over.
HeldRows ==
  /\ \A r \in Runs :
       run[r].pc \in {"replace", "cancel"} => subs[run[r].found].status # "FAILED"
  /\ \A i \in sweep :
       /\ subs[i].status # "FAILED"
       /\ subs[i].endDate # NoEndDate
       /\ subs[i].endDate + GraceDays * TicksPerDay <= now

\* For a key without a collision one listener at most is between lookup and
\* create, and while it is there the only row that can be effective is the one
\* it is about to replace.
Windows ==
  /\ \A r, s \in Runs :
       (/\ InWindow(r) /\ InWindow(s)
        /\ Key(run[r].req) = Key(run[s].req)
        /\ Key(run[r].req) \notin collided) => r = s
  /\ \A r \in Runs : \A i \in DOMAIN subs :
       (/\ InWindow(r)
        /\ Key(subs[i]) = Key(run[r].req)
        /\ Key(subs[i]) \notin collided
        /\ Effective(subs[i])) => run[r].pc = "replace" /\ run[r].found = i

SafeInv == HeldRows /\ Windows /\ LatestActiveWins /\ NoEarlyExpiry

LEMMA EndDates ==
  ASSUME TablesTypeOK
  PROVE  \A i \in DOMAIN subs : subs[i].endDate \in Int
<1>1. \A i \in DOMAIN subs : subs[i] \in Row
  BY DEF TablesTypeOK
<1>2. \A row \in Row : row.endDate \in Int
  BY DEF Row, NoEndDate
<1> QED BY <1>1, <1>2

\* A step that writes no row, reads none into a listener, and lets time pass.
LEMMA QuietStep ==
  ASSUME TypeOK, SafeInv, TypeOK',
         UNCHANGED <<subs, collided>>, sweep' \subseteq sweep, now <= now',
         \A r \in Runs : \/ run'[r].pc \notin {"replace", "create", "cancel"}
                         \/ run'[r] = run[r]
  PROVE  SafeInv'
<1> USE DEF SafeInv
<1>1. now \in Nat /\ now' \in Nat /\ TicksPerDay \in Nat
  BY BoundsAssumption DEF TypeOK, TablesTypeOK
<1>2. \A i \in DOMAIN subs : subs[i].endDate \in Int
  BY EndDates DEF TypeOK
<1>3. \A i \in DOMAIN subs : Effective(subs[i])' => Effective(subs[i])
  BY <1>1, <1>2 DEF Effective
<1>4. \A r \in Runs : InWindow(r)' => InWindow(r) /\ run'[r] = run[r]
  BY DEF InWindow
<1>5. HeldRows'
  <2>1. \A i \in sweep' : i \in sweep /\ subs[i].endDate \in Int
    BY <1>2 DEF TypeOK, TablesTypeOK
  <2>2. \A r \in Runs : run'[r].pc \in {"replace", "cancel"} => run'[r] = run[r]
    OBVIOUS
  <2>3. \A i \in sweep' : subs[i].endDate + GraceDays * TicksPerDay <= now'
    BY <1>1, <2>1 DEF HeldRows, GraceDays
  <2> QED BY <2>1, <2>2, <2>3 DEF HeldRows
<1>6. Windows'
  BY <1>3, <1>4 DEF Windows, Key
<1>7. LatestActiveWins'
  BY <1>3 DEF LatestActiveWins, Key
<1>8. NoEarlyExpiry'
  BY <1>1, <1>2 DEF NoEarlyExpiry, GraceDays
<1> QED BY <1>5, <1>6, <1>7, <1>8

LEMMA GraceMeansOver ==
  ASSUME TypeOK, NEW i \in LapsedRows
  PROVE  subs[i].endDate + GraceDays * TicksPerDay <= now
<1>1. now \in Nat /\ TicksPerDay \in Nat \ {0} /\ subs[i].endDate \in Int
  BY BoundsAssumption, EndDates DEF TypeOK, TablesTypeOK, LapsedRows
<1>2. StartOfDay(now) <= now /\ StartOfDay(now) \in Int
  BY <1>1 DEF StartOfDay
<1> QED BY <1>1, <1>2 DEF LapsedRows, GraceDays

\* A step that writes the status of one row, by an id held since an earlier read,
\* and moves no listener into its window.
LEMMA StatusStep ==
  ASSUME TypeOK, SafeInv, TypeOK', NEW i \in DOMAIN subs,
         NEW st \in {"REPLACED", "CANCELLED", "EXPIRED"},
         subs' = [subs EXCEPT ![i].status = st],
         UNCHANGED <<collided, now>>, sweep' \subseteq sweep,
         st = "EXPIRED" => i \in sweep,
         \A r \in Runs : \/ run'[r] = run[r]
                         \/ run'[r].pc \notin {"replace", "create", "cancel"}
                         \/ /\ run[r].pc = "replace" /\ run[r].found = i
                            /\ run'[r].pc = "create" /\ run'[r].req = run[r].req
  PROVE  SafeInv'
<1> USE DEF SafeInv
<1>1. /\ DOMAIN subs' = DOMAIN subs
      /\ \A k \in DOMAIN subs : /\ Key(subs'[k]) = Key(subs[k])
                                /\ subs'[k].endDate = subs[k].endDate
                                /\ k # i => subs'[k] = subs[k]
      /\ subs'[i].status = st
  BY StatusWritten DEF TypeOK, TablesTypeOK, Statuses
<1>2. ~Effective(subs[i])'
  BY <1>1 DEF Effective
<1>3. \A k \in DOMAIN subs : Effective(subs[k])' => k # i /\ Effective(subs[k])
  BY <1>1, <1>2 DEF Effective
<1>4. \A r \in Runs : InWindow(r)' =>
        InWindow(r) /\ run'[r].req = run[r].req
        /\ (run'[r] = run[r] \/ run[r].found = i)
  BY DEF InWindow
<1>5. HeldRows'
  <2>1. \A k \in DOMAIN subs : subs[k].status # "FAILED" => subs'[k].status # "FAILED"
    BY <1>1
  <2>2. \A r \in Runs : run'[r].pc \in {"replace", "cancel"} =>
          run'[r] = run[r] /\ run[r].found \in DOMAIN subs
    BY DEF TypeOK, ListenerTypeOK
  <2>3. sweep' \subseteq DOMAIN subs
    BY DEF TypeOK, TablesTypeOK
  <2> QED BY <1>1, <2>1, <2>2, <2>3 DEF HeldRows
<1>6. Windows'
  <2>1. ASSUME NEW r \in Runs, NEW s \in Runs, InWindow(r)', InWindow(s)',
               Key(run'[r].req) = Key(run'[s].req), Key(run'[r].req) \notin collided'
        PROVE  r = s
    BY <1>4, <2>1 DEF Windows
  <2>2. ASSUME NEW r \in Runs, NEW k \in DOMAIN subs', InWindow(r)',
               Key(subs'[k]) = Key(run'[r].req), Key(subs'[k]) \notin collided',
               Effective(subs[k])'
        PROVE  run'[r].pc = "replace" /\ run'[r].found = k
    <3>1. InWindow(r) /\ run'[r].req = run[r].req
          /\ k \in DOMAIN subs /\ k # i /\ Effective(subs[k])
          /\ Key(subs[k]) = Key(run[r].req) /\ Key(subs[k]) \notin collided
      BY <1>1, <1>3, <1>4, <2>2
    <3>2. run[r].pc = "replace" /\ run[r].found = k
      BY <3>1 DEF Windows
    <3> QED BY <1>4, <2>2, <3>1, <3>2
  <2> QED BY <2>1, <2>2 DEF Windows
<1>7. LatestActiveWins'
  BY <1>1, <1>3 DEF LatestActiveWins
<1>8. NoEarlyExpiry'
  BY <1>1 DEF NoEarlyExpiry, HeldRows
<1> QED BY <1>5, <1>6, <1>7, <1>8

LEMMA SafeStep == ASSUME TypeOK, SafeInv, [Next]_vars PROVE SafeInv'
<1> USE DEF SafeInv
<1>0. TypeOK'
  BY TypeStep
<1>1. now \in Nat /\ now' \in Nat
  BY <1>0 DEF TypeOK, TablesTypeOK
<1>2. run \in [Runs -> [pc : Pcs, req : Notifications, found : Nat]]
  BY DEF TypeOK, ListenerTypeOK
<1>3. ASSUME NEW j \in Jobs, NEW n \in Notifications, DatasyncNotification(j, n)
      PROVE  SafeInv'
  BY <1>0, <1>1, <1>3, QuietStep DEF DatasyncNotification, cronVars
<1>4. ASSUME NEW j \in Jobs, WorkerStep(j) PROVE SafeInv'
  <2>1. \A r \in Runs : run'[r] = run[r] \/ run'[r].pc = "getUser"
    BY <1>2, <1>4 DEF WorkerStep, StoreDatasync, EmitOperation, CompleteJob
  <2> QED BY <1>0, <1>1, <1>4, <2>1, QuietStep
          DEF WorkerStep, StoreDatasync, EmitOperation, CompleteJob, cronVars
<1>5. ASSUME NEW j \in Jobs, StoreFails(j) PROVE SafeInv'
  BY <1>0, <1>1, <1>5, QuietStep DEF StoreFails, cronVars
<1>6. ASSUME NEW r \in Runs,
             \/ GetUser(r) \/ CreateUser(r) \/ CreateWallet(r) \/ CreateTransaction(r)
             \/ AddQuizAttempts(r) \/ SendSms(r) \/ ListenerFails(r)
      PROVE  SafeInv'
  <2>1. \A s \in Runs : run'[s] = run[s] \/ run'[s].pc \notin {"replace", "create", "cancel"}
    BY <1>2, <1>6, RecordTypes
       DEF GetUser, CreateUser, CreateWallet, CreateTransaction, AddQuizAttempts, SendSms,
           ListenerFails, Goto, Finish, AfterUser, AfterCreate
  <2>2. UNCHANGED <<subs, collided, sweep, now>>
    BY <1>6 DEF GetUser, CreateUser, CreateWallet, CreateTransaction, AddQuizAttempts,
                SendSms, ListenerFails, cronVars
  <2> QED BY <1>0, <1>1, <2>1, <2>2, QuietStep
<1>7. CASE SweepFails
  BY <1>0, <1>1, <1>7, QuietStep DEF SweepFails
<1>8. CASE Tick
  BY <1>0, <1>1, <1>8, QuietStep DEF Tick
<1>9. CASE Crash
  <2>1. \A r \in Runs : run'[r].pc \notin {"replace", "create", "cancel"}
    BY <1>9, RecordTypes DEF Crash
  <2> QED BY <1>0, <1>1, <1>9, <2>1, QuietStep DEF Crash
<1>10. CASE UNCHANGED vars
  BY <1>0, <1>1, <1>10, QuietStep DEF vars, cronVars
<1>11. ASSUME NEW r \in Runs, FindExisting(r) PROVE SafeInv'
  <2> DEFINE n == run[r].req
  <2>1. UNCHANGED <<subs, sweep, now>> /\ collided' = CollidedBy(r)
    BY <1>11 DEF FindExisting, cronVars
  <2>2. /\ \A s \in Runs \ {r} : run'[s] = run[s]
        /\ run'[r].req = n
        /\ \/ run'[r].pc = "create" /\ ExistingRows(n) = {}
           \/ /\ run'[r].pc = "replace" /\ run'[r].found \in ExistingRows(n)
              /\ \A k \in ExistingRows(n) : k <= run'[r].found
    BY <1>2, <1>11 DEF FindExisting, Goto
  <2>3. collided \subseteq collided'
        /\ (Key(n) \notin collided' =>
              \A s \in Runs \ {r} : InWindow(s) => Key(run[s].req) # Key(n))
    BY <2>1 DEF CollidedBy
  <2>4. \A i \in DOMAIN subs : Effective(subs[i])' <=> Effective(subs[i])
    BY <2>1 DEF Effective
  <2>5. HeldRows'
    BY <2>1, <2>2 DEF HeldRows, ExistingRows, Effective
  <2>6. \A s \in Runs \ {r} : InWindow(s)' <=> InWindow(s)
    BY <2>2 DEF InWindow
  <2>7. Windows'
    <3>1. ASSUME NEW s \in Runs, NEW t \in Runs, InWindow(s)', InWindow(t)',
                 Key(run'[s].req) = Key(run'[t].req), Key(run'[s].req) \notin collided'
          PROVE  s = t
      <4>1. CASE s # r /\ t # r
        BY <2>2, <2>3, <2>6, <3>1, <4>1 DEF Windows
      <4>2. CASE s = r \/ t = r
        BY <2>2, <2>3, <2>6, <3>1, <4>2
      <4> QED BY <4>1, <4>2
    <3>2. ASSUME NEW s \in Runs, NEW i \in DOMAIN subs', InWindow(s)',
                 Key(subs'[i]) = Key(run'[s].req), Key(subs'[i]) \notin collided',
                 Effective(subs[i])'
          PROVE  run'[s].pc = "replace" /\ run'[s].found = i
      <4>1. CASE s # r
        BY <2>1, <2>2, <2>3, <2>4, <2>6, <3>2, <4>1 DEF Windows
      <4>2. CASE s = r
        <5>1. i \in ExistingRows(n) /\ Key(subs[i]) \notin collided /\ i \in DOMAIN subs
          BY <2>1, <2>2, <2>3, <2>4, <3>2, <4>2 DEF ExistingRows
        <5>2. run'[r].pc = "replace" /\ run'[r].found \in ExistingRows(n) /\ i <= run'[r].found
          BY <2>2, <5>1
        <5>3. run'[r].found <= i
          BY <5>1, <5>2 DEF LatestActiveWins, ExistingRows
        <5>4. i \in Nat /\ run'[r].found \in Nat
          BY <5>1, <5>2, RowIds DEF ExistingRows, TypeOK
        <5> QED BY <4>2, <5>2, <5>3, <5>4
      <4> QED BY <4>1, <4>2
    <3> QED BY <3>1, <3>2 DEF Windows
  <2>8. LatestActiveWins'
    BY <2>1, <2>3, <2>4 DEF LatestActiveWins
  <2>9. NoEarlyExpiry'
    BY <2>1 DEF NoEarlyExpiry
  <2> QED BY <2>5, <2>7, <2>8, <2>9
<1>12. ASSUME NEW r \in Runs, ReplaceExisting(r) PROVE SafeInv'
  <2>1. run[r].found \in DOMAIN subs
    BY <1>12 DEF ReplaceExisting, TypeOK, ListenerTypeOK, At
  <2>2. \A s \in Runs : \/ run'[s] = run[s]
                         \/ /\ run[s].pc = "replace" /\ run[s].found = run[r].found
                            /\ run'[s].pc = "create" /\ run'[s].req = run[s].req
    BY <1>2, <1>12 DEF ReplaceExisting, At
  <2> QED BY <1>0, <1>12, <2>1, <2>2, StatusStep DEF ReplaceExisting, cronVars
<1>13. ASSUME NEW r \in Runs, CancelActive(r) PROVE SafeInv'
  <2>1. run[r].found \in DOMAIN subs
    BY <1>13 DEF CancelActive, TypeOK, ListenerTypeOK, At
  <2>2. \A s \in Runs : run'[s] = run[s] \/ run'[s].pc = "unsubscribedSms"
    BY <1>2, <1>13 DEF CancelActive
  <2> QED BY <1>0, <1>13, <2>1, <2>2, StatusStep DEF CancelActive, cronVars
<1>14. ASSUME NEW i \in sweep, ExpireSubscription(i) PROVE SafeInv'
  <2>1. i \in DOMAIN subs
    BY DEF TypeOK, TablesTypeOK
  <2> QED BY <1>0, <1>14, <2>1, StatusStep DEF ExpireSubscription
<1>15. ASSUME NEW r \in Runs, FindActive(r) PROVE SafeInv'
  <2>1. UNCHANGED <<subs, sweep, now, collided>>
    BY <1>15 DEF FindActive, cronVars
  <2>2. \A s \in Runs : \/ run'[s] = run[s]
                         \/ run'[s].pc = "unsubscribedSms"
                         \/ /\ run'[s].pc = "cancel"
                            /\ subs[run'[s].found].status = "ACTIVE"
    BY <1>2, <1>15 DEF FindActive, Goto, CancellableRows
  <2>3. \A s \in Runs : InWindow(s)' => InWindow(s) /\ run'[s] = run[s]
    BY <2>2 DEF InWindow
  <2>4. \A i \in DOMAIN subs : Effective(subs[i])' <=> Effective(subs[i])
    BY <2>1 DEF Effective
  <2>5. HeldRows'
    BY <2>1, <2>2 DEF HeldRows
  <2>6. Windows'
    BY <2>1, <2>3, <2>4 DEF Windows
  <2>7. LatestActiveWins' /\ NoEarlyExpiry'
    BY <2>1, <2>4 DEF LatestActiveWins, NoEarlyExpiry
  <2> QED BY <2>5, <2>6, <2>7
<1>16. CASE StartSweep
  <2>1. UNCHANGED <<run, subs, now, collided>> /\ sweep' = LapsedRows
    BY <1>16 DEF StartSweep
  <2>2. HeldRows'
    BY <2>1, GraceMeansOver DEF HeldRows, LapsedRows
  <2>3. Windows' /\ LatestActiveWins' /\ NoEarlyExpiry'
    BY <2>1 DEF Windows, LatestActiveWins, NoEarlyExpiry, Effective, InWindow
  <2> QED BY <2>2, <2>3
<1>17. ASSUME NEW r \in Runs, CreateSubscription(r) PROVE SafeInv'
  <2> DEFINE n == run[r].req
             new == Len(subs) + 1
  <2>1. UNCHANGED <<sweep, now, collided>> /\ subs' = Append(subs, NewRow(n)) /\ InWindow(r)
    BY <1>17 DEF CreateSubscription, WithNewRow, cronVars, At, InWindow
  <2>2. /\ DOMAIN subs = 1 .. Len(subs) /\ Len(subs) \in Nat
        /\ DOMAIN subs' = 1 .. new
        /\ \A i \in DOMAIN subs : subs'[i] = subs[i] /\ i < new
        /\ subs'[new] = NewRow(n)
    BY <2>1 DEF TypeOK, TablesTypeOK
  <2>3. Key(subs'[new]) = Key(n) /\ subs'[new].status \in {"ACTIVE", "FAILED"}
    BY <2>2 DEF NewRow, Key
  <2>4. \A i \in DOMAIN subs : Effective(subs[i])' <=> Effective(subs[i])
    BY <2>1, <2>2 DEF Effective
  <2>5. \A s \in Runs : run'[s] = run[s] \/ (s = r /\ run'[s].pc = "credit")
    BY <1>2, <1>17 DEF CreateSubscription, Goto
  <2>6. run[r].pc = "create"
    BY <1>17 DEF CreateSubscription, At
  <2>7. Key(n) \notin collided =>
          \A i \in DOMAIN subs : Key(subs[i]) = Key(n) => ~Effective(subs[i])
    BY <2>1, <2>6 DEF Windows
  <2>8. HeldRows'
    <3>1. sweep \subseteq DOMAIN subs
      BY DEF TypeOK, TablesTypeOK
    <3>2. \A s \in Runs : run'[s].pc \in {"replace", "cancel"} =>
            run'[s] = run[s] /\ run[s].found \in DOMAIN subs
      BY <2>5 DEF TypeOK, ListenerTypeOK
    <3> QED BY <2>1, <2>2, <3>1, <3>2 DEF HeldRows
  <2>9. \A s \in Runs : InWindow(s)' => InWindow(s) /\ run'[s] = run[s] /\ s # r
    BY <1>2, <1>17, <2>5 DEF InWindow, CreateSubscription, Goto
  <2>10. Windows'
    <3>1. ASSUME NEW s \in Runs, NEW i \in DOMAIN subs', InWindow(s)',
                 Key(subs'[i]) = Key(run'[s].req), Key(subs'[i]) \notin collided',
                 Effective(subs[i])'
          PROVE  run'[s].pc = "replace" /\ run'[s].found = i
      <4>1. i # new
        BY <2>1, <2>3, <2>9, <3>1 DEF Windows
      <4> QED BY <2>1, <2>2, <2>4, <2>9, <3>1, <4>1 DEF Windows
    <3> QED BY <2>1, <2>9, <3>1 DEF Windows
  <2>11. LatestActiveWins'
    <3>1. ASSUME NEW i \in DOMAIN subs', NEW k \in DOMAIN subs',
                 Key(subs'[i]) = Key(subs'[k]), Key(subs'[i]) \notin collided',
                 Effective(subs[i])'
          PROVE  k <= i
      <4>1. CASE i = new
        BY <2>2, <4>1
      <4>2. CASE i # new /\ k # new
        BY <2>1, <2>2, <2>4, <3>1, <4>2 DEF LatestActiveWins
      <4>3. CASE i # new /\ k = new
        BY <2>1, <2>2, <2>3, <2>4, <2>7, <3>1, <4>3
      <4> QED BY <4>1, <4>2, <4>3
    <3> QED BY <3>1 DEF LatestActiveWins
  <2>12. NoEarlyExpiry'
    BY <2>1, <2>2, <2>3 DEF NoEarlyExpiry
  <2> QED BY <2>8, <2>10, <2>11, <2>12
<1> QED
  BY <1>3, <1>4, <1>5, <1>6, <1>7, <1>8, <1>9, <1>10, <1>11, <1>12, <1>13, <1>14,
     <1>15, <1>16, <1>17
     DEF Next, ListenerStep, SweepStep

LEMMA SafeInvariant == Spec => [](TypeOK /\ SafeInv)
<1>1. Init => SafeInv
  BY DEF Init, SafeInv, HeldRows, Windows, LatestActiveWins, NoEarlyExpiry, Idle, InWindow
<1>2. TypeOK /\ SafeInv /\ [Next]_vars => SafeInv'
  BY SafeStep
<1> QED BY <1>1, <1>2, TypeCorrect, PTL DEF Spec

\* Whatever is delivered, duplicated, crashed or swept, and for any number of
\* users, products and listeners: as long as activations of a user and product
\* do not overlap between lookup and create, only the last row created for them
\* can give access.
THEOREM LatestActiveWinsAlways == Spec => []LatestActiveWins
<1>1. TypeOK /\ SafeInv => LatestActiveWins
  BY DEF SafeInv
<1> QED BY <1>1, SafeInvariant, PTL

\* No row is EXPIRED before it has been over for two full days, although the
\* sweep writes by ids it read before.
THEOREM NoEarlyExpiryAlways == Spec => []NoEarlyExpiry
<1>1. TypeOK /\ SafeInv => NoEarlyExpiry
  BY DEF SafeInv
<1> QED BY <1>1, SafeInvariant, PTL

\* Rows are written by ids that listeners and the sweep read earlier. A row of a
\* failed charge is never among them, and no write revives a row.
FailedRowsAreFinal ==
  [][\A i \in DOMAIN subs :
       /\ subs[i].status = "FAILED" => subs'[i] = subs[i]
       /\ subs[i].status # "ACTIVE" => subs'[i].status # "ACTIVE"]_vars

\* Every write by id leaves the rows of failed charges alone and revives no row,
\* however late it lands after the read it is based on.
THEOREM FailedRowsAreFinalAlways == Spec => FailedRowsAreFinal
<1> DEFINE Final == \A i \in DOMAIN subs :
      /\ subs[i].status = "FAILED" => subs'[i] = subs[i]
      /\ subs[i].status # "ACTIVE" => subs'[i].status # "ACTIVE"
<1>1. ASSUME TypeOK, SafeInv, [Next]_vars PROVE [Final]_vars
  <2>1. CASE UNCHANGED subs
    BY <2>1
  <2>2. ASSUME NEW k \in DOMAIN subs, NEW st \in {"REPLACED", "CANCELLED", "EXPIRED"},
               subs[k].status # "FAILED", subs' = [subs EXCEPT ![k].status = st]
        PROVE  Final
    BY <1>1, <2>2, StatusWritten DEF TypeOK, TablesTypeOK, Statuses
  <2>3. ASSUME NEW row, subs' = Append(subs, row) PROVE Final
    BY <1>1, <2>3 DEF TypeOK, TablesTypeOK
  <2>4. ASSUME NEW r \in Runs, ReplaceExisting(r) \/ CancelActive(r) PROVE Final
    <3>1. run[r].found \in DOMAIN subs /\ subs[run[r].found].status # "FAILED"
      BY <1>1, <2>4 DEF ReplaceExisting, CancelActive, At, TypeOK, ListenerTypeOK,
                        SafeInv, HeldRows
    <3> HIDE DEF Final
    <3> QED BY <2>2, <2>4, <3>1 DEF ReplaceExisting, CancelActive
  <2>5. ASSUME NEW i \in sweep, ExpireSubscription(i) PROVE Final
    <3>1. i \in DOMAIN subs /\ subs[i].status # "FAILED"
      BY <1>1 DEF TypeOK, TablesTypeOK, SafeInv, HeldRows
    <3> HIDE DEF Final
    <3> QED BY <2>2, <2>5, <3>1 DEF ExpireSubscription
  <2>6. ASSUME NEW r \in Runs, CreateSubscription(r) PROVE Final
    BY <2>3, <2>6 DEF CreateSubscription, WithNewRow
  <2> HIDE DEF Final
  <2>7. UNCHANGED subs \/ Final
    BY <1>1, <2>4, <2>5, <2>6
       DEF Next, ListenerStep, SweepStep, WorkerStep, vars, DatasyncNotification,
           StoreDatasync, EmitOperation, CompleteJob, StoreFails, GetUser, CreateUser,
           CreateWallet, CreateTransaction, FindExisting, AddQuizAttempts, FindActive,
           SendSms, ListenerFails, StartSweep, SweepFails, Tick, Crash
  <2>8. UNCHANGED subs => Final
    BY <2>1 DEF Final
  <2> QED BY <2>7, <2>8
<1>2. TypeOK /\ SafeInv /\ [Next]_vars => [Final]_vars
  BY <1>1
<1> QED BY <1>2, SafeInvariant, PTL DEF Spec, FailedRowsAreFinal

----------------------------------------------------------------------------
(* Charges, quiz attempts and wallets. Each relates a table to the         *)
(* listeners in one stage of their work: a step either keeps every         *)
(* listener in its stage, or ends one at the price of a fault, or moves    *)
(* one listener and writes what the stage is about.                        *)

Charged == {"findExisting", "replace", "create"}
InStage(pc) ==
  IF pc \in Charged THEN "charged"
  ELSE IF pc \in {"credit", "createWallet"} THEN pc ELSE "none"

SameStage(r) ==
  run'[r].req = run[r].req /\ InStage(run'[r].pc) = InStage(run[r].pc)
LeavesStages(r) ==
  InStage(run'[r].pc) = "none" /\ (faults' # 0 \/ InStage(run[r].pc) = "none")
SameRows ==
  /\ DOMAIN subs' = DOMAIN subs
  /\ \A i \in DOMAIN subs : Key(subs'[i]) = Key(subs[i])

Stays == \A r \in Runs : SameStage(r) \/ LeavesStages(r)
Quiet ==
  /\ UNCHANGED userVars
  /\ SameRows
  /\ faults' = 0 => faults = 0
  /\ Stays

LEMMA OneMoves ==
  ASSUME TypeOK, NEW r \in Runs, NEW pc, Goto(r, pc)
  PROVE  /\ run'[r].pc = pc /\ run'[r].req = run[r].req
         /\ \A s \in Runs \ {r} : run'[s] = run[s]
  BY DEF TypeOK, ListenerTypeOK, Goto

LEMMA QuietSteps ==
  ASSUME TypeOK, [Next]_vars
  PROVE  \/ Quiet
         \/ \E r \in Runs : \/ CreateUser(r) \/ CreateWallet(r) \/ CreateTransaction(r)
                            \/ CreateSubscription(r) \/ AddQuizAttempts(r)
<1>0. /\ run \in [Runs -> [pc : Pcs, req : Notifications, found : Nat]]
      /\ faults \in Nat /\ subs \in Seq(Row)
  BY DEF TypeOK, ListenerTypeOK, TablesTypeOK
<1>1. UNCHANGED subs => SameRows
  BY DEF SameRows
<1>2. ASSUME NEW j \in Jobs, NEW n \in Notifications, DatasyncNotification(j, n)
      PROVE  Quiet
  BY <1>1, <1>2 DEF DatasyncNotification, Quiet, Stays, SameStage
<1>3. ASSUME NEW j \in Jobs, StoreDatasync(j) \/ CompleteJob(j) PROVE Quiet
  BY <1>1, <1>3 DEF StoreDatasync, CompleteJob, Quiet, Stays, SameStage
<1>4. ASSUME NEW j \in Jobs, EmitOperation(j) PROVE Quiet
  <2>1. \A r \in Runs :
          run'[r] = run[r] \/ (run[r].pc = "idle" /\ run'[r].pc = "getUser")
    BY <1>0, <1>4 DEF EmitOperation
  <2>2. Stays
    BY <2>1 DEF Stays, SameStage, LeavesStages, InStage, Charged
  <2> QED BY <1>1, <1>4, <2>2 DEF EmitOperation, Quiet
<1>5. ASSUME NEW j \in Jobs, StoreFails(j) PROVE Quiet
  BY <1>0, <1>1, <1>5 DEF StoreFails, Quiet, Stays, SameStage
<1>6. ASSUME NEW r \in Runs, GetUser(r) PROVE Quiet
  <2>1. run[r].pc = "getUser" /\ run'[r].pc \in {"findActive", "createTransaction", "createUser"}
        /\ \A s \in Runs \ {r} : run'[s] = run[s]
    BY <1>6, OneMoves DEF GetUser, At, AfterUser
  <2>2. Stays
    BY <2>1 DEF Stays, SameStage, LeavesStages, InStage, Charged
  <2> QED BY <1>1, <1>6, <2>2 DEF GetUser, Quiet
<1>7. ASSUME NEW r \in Runs, FindExisting(r) PROVE Quiet
  <2>1. run[r].pc = "findExisting" /\ run'[r].pc \in {"create", "replace"}
        /\ run'[r].req = run[r].req /\ \A s \in Runs \ {r} : run'[s] = run[s]
    BY <1>0, <1>7 DEF FindExisting, At, Goto
  <2>2. Stays
    BY <2>1 DEF Stays, SameStage, InStage, Charged
  <2> QED BY <1>1, <1>7, <2>2 DEF FindExisting, Quiet
<1>8. ASSUME NEW r \in Runs, ReplaceExisting(r) PROVE Quiet
  <2>1. run[r].pc = "replace" /\ run'[r].pc = "create"
        /\ run'[r].req = run[r].req /\ \A s \in Runs \ {r} : run'[s] = run[s]
    BY <1>0, <1>8 DEF ReplaceExisting, At
  <2>2. Stays
    BY <2>1 DEF Stays, SameStage, InStage, Charged
  <2>3. run[r].found \in DOMAIN subs /\ "REPLACED" \in Statuses
    BY <2>1 DEF TypeOK, ListenerTypeOK, Statuses
  <2>4. SameRows
    BY <1>0, <1>8, <2>3, StatusWritten DEF ReplaceExisting, SameRows
  <2> QED BY <1>8, <2>2, <2>4 DEF ReplaceExisting, Quiet
<1>9. ASSUME NEW r \in Runs, FindActive(r) PROVE Quiet
  <2>1. run[r].pc = "findActive" /\ run'[r].pc \in {"unsubscribedSms", "cancel"}
        /\ \A s \in Runs \ {r} : run'[s] = run[s]
    BY <1>0, <1>9 DEF FindActive, At, Goto
  <2>2. Stays
    BY <2>1 DEF Stays, SameStage, LeavesStages, InStage, Charged
  <2> QED BY <1>1, <1>9, <2>2 DEF FindActive, Quiet
<1>10. ASSUME NEW r \in Runs, CancelActive(r) PROVE Quiet
  <2>1. run[r].pc = "cancel" /\ run'[r].pc = "unsubscribedSms"
        /\ \A s \in Runs \ {r} : run'[s] = run[s]
    BY <1>0, <1>10 DEF CancelActive, At
  <2>2. Stays
    BY <2>1 DEF Stays, SameStage, LeavesStages, InStage, Charged
  <2>3. run[r].found \in DOMAIN subs /\ "CANCELLED" \in Statuses
    BY <2>1 DEF TypeOK, ListenerTypeOK, Statuses
  <2>4. SameRows
    BY <1>0, <1>10, <2>3, StatusWritten DEF CancelActive, SameRows
  <2> QED BY <1>10, <2>2, <2>4 DEF CancelActive, Quiet
<1>11. ASSUME NEW r \in Runs, SendSms(r) PROVE Quiet
  <2>1. run[r].pc \in {"sms", "unsubscribedSms"} /\ run'[r].pc = "idle"
        /\ \A s \in Runs \ {r} : run'[s] = run[s]
    BY <1>0, <1>11, RecordTypes DEF SendSms, Finish
  <2>2. Stays
    BY <2>1 DEF Stays, SameStage, LeavesStages, InStage, Charged
  <2> QED BY <1>1, <1>11, <2>2 DEF SendSms, Quiet
<1>12. ASSUME NEW r \in Runs, ListenerFails(r) PROVE Quiet
  <2>1. run'[r].pc = "idle" /\ faults' # 0 /\ \A s \in Runs \ {r} : run'[s] = run[s]
    BY <1>0, <1>12, RecordTypes DEF ListenerFails, Finish
  <2>2. Stays
    BY <2>1 DEF Stays, SameStage, LeavesStages, InStage, Charged
  <2> QED BY <1>1, <1>12, <2>1, <2>2 DEF ListenerFails, Quiet
<1>13. ASSUME NEW i \in sweep, ExpireSubscription(i) PROVE Quiet
  <2>1. i \in DOMAIN subs /\ "EXPIRED" \in Statuses
    BY DEF TypeOK, TablesTypeOK, Statuses
  <2>2. SameRows
    BY <1>0, <1>13, <2>1, StatusWritten DEF ExpireSubscription, SameRows
  <2> QED BY <1>13, <2>2 DEF ExpireSubscription, Quiet, Stays, SameStage
<1>14. CASE StartSweep \/ Tick
  BY <1>1, <1>14 DEF StartSweep, Tick, Quiet, Stays, SameStage
<1>15. CASE SweepFails
  BY <1>0, <1>1, <1>15 DEF SweepFails, Quiet, Stays, SameStage
<1>16. CASE Crash
  <2>1. faults' # 0 /\ \A r \in Runs : run'[r].pc = "idle"
    BY <1>0, <1>16, RecordTypes DEF Crash
  <2>2. Stays
    BY <2>1 DEF Stays, LeavesStages, InStage, Charged
  <2> QED BY <1>1, <1>16, <2>1, <2>2 DEF Crash, Quiet
<1>17. CASE UNCHANGED vars
  BY <1>1, <1>17 DEF vars, userVars, Quiet, Stays, SameStage
<1> QED
  BY <1>2, <1>3, <1>4, <1>5, <1>6, <1>7, <1>8, <1>9, <1>10, <1>11, <1>12, <1>13,
     <1>14, <1>15, <1>16, <1>17
     DEF Next, WorkerStep, ListenerStep, SweepStep

\* Who is being given a wallet has a user.
WalletInv ==
  /\ EveryUserHasWallet
  /\ \A r \in Runs : At(r, "createWallet") => run[r].req.msisdn \in users

LEMMA WalletKept ==
  ASSUME WalletInv, users \subseteq users', wallets' = wallets,
         \A r \in Runs : At(r, "createWallet")' =>
           run'[r].req.msisdn \in users' /\ (At(r, "createWallet") \/ run'[r].req.msisdn \notin users),
         faults' = 0 =>
           /\ faults = 0
           /\ \A u \in users' \ users :
                \E r \in Runs : At(r, "createWallet")' /\ run'[r].req.msisdn = u
           /\ \A r \in Runs : At(r, "createWallet") =>
                At(r, "createWallet")' /\ run'[r].req = run[r].req
  PROVE  WalletInv'
<1>1. ASSUME faults' = 0, NEW u \in users' \ wallets'
      PROVE  \E r \in Runs : At(r, "createWallet")' /\ run'[r].req.msisdn = u
  <2>1. CASE u \in users
    <3>1. PICK r \in Runs : At(r, "createWallet") /\ run[r].req.msisdn = u
      BY <1>1, <2>1 DEF WalletInv, EveryUserHasWallet
    <3> QED BY <1>1, <3>1
  <2> QED BY <1>1, <2>1
<1> QED BY <1>1 DEF WalletInv, EveryUserHasWallet, At

LEMMA WalletStep ==
  ASSUME TypeOK, WalletInv, [Next]_vars
  PROVE  WalletInv'
<1>1. \A r \in Runs : At(r, "createWallet") <=> InStage(run[r].pc) = "createWallet"
  BY DEF At, InStage, Charged
<1>2. \A r \in Runs : At(r, "createWallet")' <=> InStage(run'[r].pc) = "createWallet"
  BY DEF At, InStage, Charged
<1>3. CASE Quiet
  <2>1. wallets' = wallets /\ users' = users
    BY <1>3 DEF Quiet, userVars
  <2>2. \A r \in Runs : At(r, "createWallet")' =>
          At(r, "createWallet") /\ run'[r].req = run[r].req
    BY <1>1, <1>2, <1>3 DEF Quiet, Stays, SameStage, LeavesStages
  <2>3. faults' = 0 => faults = 0 /\
          \A r \in Runs : At(r, "createWallet") => At(r, "createWallet")' /\ run'[r].req = run[r].req
    BY <1>1, <1>2, <1>3 DEF Quiet, Stays, SameStage, LeavesStages
  <2>4. \A r \in Runs : At(r, "createWallet") => run[r].req.msisdn \in users
    BY DEF WalletInv
  <2> QED BY <2>1, <2>2, <2>3, <2>4, WalletKept
<1>4. ASSUME NEW r \in Runs,
             CreateTransaction(r) \/ CreateSubscription(r) \/ AddQuizAttempts(r)
      PROVE  WalletInv'
  <2>1. /\ UNCHANGED <<users, wallets, faults>>
        /\ \A s \in Runs \ {r} : run'[s] = run[s]
        /\ run[r].pc # "createWallet"
    BY <1>4, OneMoves DEF CreateTransaction, CreateSubscription, AddQuizAttempts, At, Finish,
                          userVars, TypeOK, ListenerTypeOK
  <2>2. run'[r].pc # "createWallet"
    BY <1>4, OneMoves, RecordTypes
       DEF CreateTransaction, CreateSubscription, AddQuizAttempts, Finish, TypeOK, ListenerTypeOK
  <2> QED BY <2>1, <2>2, WalletKept DEF At, WalletInv
<1>5. ASSUME NEW r \in Runs, CreateUser(r) PROVE WalletInv'
  <2> DEFINE u == run[r].req.msisdn
  <2>1. UNCHANGED <<wallets, faults>> /\ run[r].pc = "createUser"
    BY <1>5 DEF CreateUser, At
  <2>2. CASE u \in users /\ Finish(r) /\ UNCHANGED users
    <3>1. run'[r].pc = "idle" /\ \A s \in Runs \ {r} : run'[s] = run[s]
      BY <2>2, RecordTypes DEF Finish, TypeOK, ListenerTypeOK
    <3> QED BY <2>1, <2>2, <3>1, WalletKept DEF At, WalletInv
  <2>3. CASE u \notin users /\ users' = users \cup {u} /\ Goto(r, "createWallet")
    <3>1. /\ At(r, "createWallet")' /\ run'[r].req = run[r].req
          /\ \A s \in Runs \ {r} : run'[s] = run[s]
      BY <2>3, OneMoves DEF At
    <3>2. \A s \in Runs : At(s, "createWallet")' =>
            s = r \/ (At(s, "createWallet") /\ run'[s].req.msisdn \in users)
      BY <3>1 DEF At, WalletInv
    <3>3. \A v \in users' \ users : v = run'[r].req.msisdn
      BY <2>3, <3>1
    <3> QED BY <2>1, <2>3, <3>1, <3>2, <3>3, WalletKept DEF At
  <2> QED BY <1>5, <2>2, <2>3 DEF CreateUser, AfterCreate
<1>6. ASSUME NEW r \in Runs, CreateWallet(r) PROVE WalletInv'
  <2>1. /\ run[r].pc = "createWallet" /\ UNCHANGED <<users, faults>>
        /\ wallets' = wallets \cup {run[r].req.msisdn}
        /\ \A s \in Runs \ {r} : run'[s] = run[s]
        /\ run'[r].pc # "createWallet"
    BY <1>6, OneMoves DEF CreateWallet, At, AfterUser
  <2>2. ASSUME faults' = 0, NEW u \in users' \ wallets'
        PROVE  \E s \in Runs : At(s, "createWallet")' /\ run'[s].req.msisdn = u
    <3>1. PICK s \in Runs : At(s, "createWallet") /\ run[s].req.msisdn = u
      BY <2>1, <2>2 DEF WalletInv, EveryUserHasWallet
    <3>2. s # r
      BY <2>1, <2>2, <3>1
    <3> QED BY <2>1, <3>1, <3>2 DEF At
  <2>3. run[r].req.msisdn \in users
    BY <2>1 DEF WalletInv, At
  <2>4. \A s \in Runs : At(s, "createWallet")' => run'[s].req.msisdn \in users'
    BY <2>1 DEF WalletInv, At
  <2> QED BY <2>1, <2>2, <2>3, <2>4 DEF WalletInv, EveryUserHasWallet, At
<1> QED
  BY <1>3, <1>4, <1>5, <1>6, QuietSteps

\* Of any number of notifications that race to create users, and without a fault:
\* every user has a wallet or a listener that is about to create it.
THEOREM EveryUserHasWalletAlways == Spec => []EveryUserHasWallet
<1>1. Init => WalletInv
  BY DEF Init, WalletInv, EveryUserHasWallet, At, Idle
<1>2. TypeOK /\ WalletInv /\ [Next]_vars => WalletInv'
  BY WalletStep
<1>3. WalletInv => EveryUserHasWallet
  BY DEF WalletInv
<1> QED BY <1>1, <1>2, <1>3, TypeCorrect, PTL DEF Spec

\* Charges and rows.

LEMMA FiniteSets ==
  ASSUME TypeOK
  PROVE  /\ \A k : IsFiniteSet(RowsOf(k)) /\ IsFiniteSet(Charging(k))
         /\ \A u : IsFiniteSet(RowsOfUser(u)) /\ IsFiniteSet(Crediting(u))
         /\ \A k : Cardinality(RowsOf(k)) \in Nat /\ Cardinality(Charging(k)) \in Nat
<1>1. DOMAIN subs = 1 .. Len(subs) /\ Len(subs) \in Nat
  BY DEF TypeOK, TablesTypeOK
<1>2. IsFiniteSet(DOMAIN subs)
  BY <1>1, FS_Interval
<1>3. IsFiniteSet(Runs)
  BY BoundsAssumption
<1>4. /\ \A k : RowsOf(k) \in SUBSET DOMAIN subs /\ Charging(k) \in SUBSET Runs
      /\ \A u : RowsOfUser(u) \in SUBSET DOMAIN subs /\ Crediting(u) \in SUBSET Runs
  BY DEF RowsOf, Charging, RowsOfUser, Crediting
<1>5. \A T \in SUBSET DOMAIN subs : IsFiniteSet(T)
  BY <1>2, FS_Subset
<1>6. \A T \in SUBSET Runs : IsFiniteSet(T)
  BY <1>3, FS_Subset
<1> QED
  BY <1>4, <1>5, <1>6, FS_CardinalityType

LEMMA RowAppended ==
  ASSUME TypeOK, NEW row \in Row, subs' = Append(subs, row)
  PROVE  LET new == Len(subs) + 1 IN
         /\ new \notin DOMAIN subs /\ DOMAIN subs' = DOMAIN subs \cup {new}
         /\ subs'[new] = row /\ \A i \in DOMAIN subs : subs'[i] = subs[i]
         /\ \A k : RowsOf(k)' = IF Key(row) = k THEN RowsOf(k) \cup {new} ELSE RowsOf(k)
         /\ \A u : RowsOfUser(u)' =
                     IF row.msisdn = u THEN RowsOfUser(u) \cup {new} ELSE RowsOfUser(u)
<1> DEFINE new == Len(subs) + 1
<1>1. /\ new \notin DOMAIN subs /\ DOMAIN subs' = DOMAIN subs \cup {new}
      /\ subs'[new] = row /\ \A i \in DOMAIN subs : subs'[i] = subs[i]
  BY DEF TypeOK, TablesTypeOK
<1> HIDE DEF new
<1>2. \A k : RowsOf(k)' = IF Key(row) = k THEN RowsOf(k) \cup {new} ELSE RowsOf(k)
  BY <1>1 DEF RowsOf
<1>3. \A u : RowsOfUser(u)' =
              IF row.msisdn = u THEN RowsOfUser(u) \cup {new} ELSE RowsOfUser(u)
  BY <1>1 DEF RowsOfUser
<1> QED BY <1>1, <1>2, <1>3 DEF new

LEMMA QuietKeeps ==
  ASSUME TypeOK, Quiet
  PROVE  /\ \A k : /\ RowsOf(k)' = RowsOf(k)
                   /\ Charging(k)' \in SUBSET Charging(k)
                   /\ faults' = 0 => Charging(k)' = Charging(k)
         /\ \A u : /\ RowsOfUser(u)' = RowsOfUser(u)
                   /\ Crediting(u)' \in SUBSET Crediting(u)
                   /\ faults' = 0 => Crediting(u)' = Crediting(u)
         /\ \A u : \A r \in Crediting(u)' : run'[r].req = run[r].req
         /\ \A i \in DOMAIN subs : subs'[i].product = subs[i].product
<1>1. \A i \in DOMAIN subs : /\ subs'[i].msisdn = subs[i].msisdn
                             /\ subs'[i].product = subs[i].product
  BY DEF Quiet, SameRows, Key
<1>2. \A k : RowsOf(k)' = RowsOf(k)
  BY DEF Quiet, SameRows, RowsOf
<1>3. \A u : RowsOfUser(u)' = RowsOfUser(u)
  BY <1>1 DEF Quiet, SameRows, RowsOfUser
<1>4. \A r \in Runs : /\ run[r].pc \in Charged <=> InStage(run[r].pc) = "charged"
                      /\ run'[r].pc \in Charged <=> InStage(run'[r].pc) = "charged"
                      /\ run[r].pc = "credit" <=> InStage(run[r].pc) = "credit"
                      /\ run'[r].pc = "credit" <=> InStage(run'[r].pc) = "credit"
  BY DEF InStage, Charged
<1>5. \A r \in Runs :
        /\ run'[r].pc \in Charged => run[r].pc \in Charged /\ run'[r].req = run[r].req
        /\ run'[r].pc = "credit" => run[r].pc = "credit" /\ run'[r].req = run[r].req
        /\ faults' = 0 /\ run[r].pc \in Charged =>
             run'[r].pc \in Charged /\ run'[r].req = run[r].req
        /\ faults' = 0 /\ run[r].pc = "credit" =>
             run'[r].pc = "credit" /\ run'[r].req = run[r].req
  BY <1>4 DEF Quiet, Stays, SameStage, LeavesStages
<1>6. \A k : /\ Charging(k)' \in SUBSET Charging(k)
             /\ faults' = 0 => Charging(k)' = Charging(k)
  BY <1>5 DEF Charging, Charged
<1>7. \A u : /\ Crediting(u)' \in SUBSET Crediting(u)
             /\ faults' = 0 => Crediting(u)' = Crediting(u)
             /\ \A r \in Crediting(u)' : run'[r].req = run[r].req
  BY <1>5 DEF Crediting, At
<1> QED BY <1>1, <1>2, <1>3, <1>6, <1>7

\* A step of a listener that neither charges nor creates a row.
LEMMA ChargesKept ==
  ASSUME ChargedMeansSubscribed, UNCHANGED txns, faults' = 0 => faults = 0,
         \A k : /\ RowsOf(k)' = RowsOf(k)
                /\ IsFiniteSet(Charging(k)) /\ Charging(k)' \in SUBSET Charging(k)
                /\ faults' = 0 => Charging(k)' = Charging(k),
         TypeOK
  PROVE  ChargedMeansSubscribed'
<1> SUFFICES ASSUME NEW k \in Msisdns \X Products
             PROVE  LET served == Cardinality(RowsOf(k)') + Cardinality(Charging(k)') IN
                    /\ served <= txns'[k]
                    /\ faults' = 0 => served = txns'[k]
  BY DEF ChargedMeansSubscribed
<1>1. /\ Cardinality(Charging(k)') <= Cardinality(Charging(k))
      /\ Cardinality(Charging(k)') \in Nat /\ Cardinality(Charging(k)) \in Nat
  BY FS_Subset, FS_CardinalityType
<1>2. Cardinality(RowsOf(k)) \in Nat /\ txns[k] \in Nat
  BY FiniteSets DEF TypeOK, TablesTypeOK
<1> QED BY <1>1, <1>2 DEF ChargedMeansSubscribed

LEMMA ChargedStep ==
  ASSUME TypeOK, ChargedMeansSubscribed, [Next]_vars
  PROVE  ChargedMeansSubscribed'
<1>0. \A k : /\ IsFiniteSet(Charging(k)) /\ IsFiniteSet(RowsOf(k))
             /\ Cardinality(Charging(k)) \in Nat /\ Cardinality(RowsOf(k)) \in Nat
  BY FiniteSets
<1>1. CASE Quiet
  <2>1. UNCHANGED txns /\ (faults' = 0 => faults = 0)
    BY <1>1 DEF Quiet, userVars
  <2>2. \A k : /\ RowsOf(k)' = RowsOf(k) /\ Charging(k)' \in SUBSET Charging(k)
               /\ faults' = 0 => Charging(k)' = Charging(k)
    BY <1>1, QuietKeeps
  <2> QED BY <1>0, <2>1, <2>2, ChargesKept
<1>2. ASSUME NEW r \in Runs, CreateUser(r) \/ CreateWallet(r) \/ AddQuizAttempts(r)
      PROVE  ChargedMeansSubscribed'
  <2>1. /\ UNCHANGED <<txns, subs, faults>>
        /\ \A s \in Runs \ {r} : run'[s] = run[s]
        /\ run[r].pc \notin Charged
    BY <1>2, OneMoves DEF CreateUser, CreateWallet, AddQuizAttempts, At, Finish, Charged,
                          TypeOK, ListenerTypeOK
  <2>2. run'[r].pc \notin Charged
    BY <1>2, OneMoves, RecordTypes
       DEF CreateUser, CreateWallet, AddQuizAttempts, AfterUser, AfterCreate, Finish, Charged,
           TypeOK, ListenerTypeOK
  <2>3. \A k : RowsOf(k)' = RowsOf(k)
    BY <2>1 DEF RowsOf
  <2>4. \A k : Charging(k)' = Charging(k)
    BY <2>1, <2>2 DEF Charging, Charged
  <2> QED BY <1>0, <2>1, <2>3, <2>4, ChargesKept
<1>3. ASSUME NEW r \in Runs, CreateTransaction(r) PROVE ChargedMeansSubscribed'
  <2> DEFINE n == run[r].req
  <2>1. UNCHANGED <<subs, faults>> /\ run[r].pc = "createTransaction"
    BY <1>3 DEF CreateTransaction, At
  <2>2. \A k : RowsOf(k)' = RowsOf(k)
    BY <2>1 DEF RowsOf
  <2>3. CASE Finish(r) /\ UNCHANGED txns
    <3>1. run'[r].pc = "idle" /\ \A s \in Runs \ {r} : run'[s] = run[s]
      BY <2>3, RecordTypes DEF Finish, TypeOK, ListenerTypeOK
    <3>2. \A k : Charging(k)' = Charging(k)
      BY <2>1, <3>1 DEF Charging
    <3> QED BY <1>0, <2>1, <2>2, <2>3, <3>2, ChargesKept
  <2>4. CASE txns' = [txns EXCEPT ![Key(n)] = @ + 1] /\ Goto(r, "findExisting")
    <3>1. /\ run'[r].pc = "findExisting" /\ run'[r].req = n
          /\ \A s \in Runs \ {r} : run'[s] = run[s]
      BY <2>4, OneMoves
    <3> SUFFICES ASSUME NEW k \in Msisdns \X Products
                 PROVE  LET served == Cardinality(RowsOf(k)') + Cardinality(Charging(k)') IN
                        /\ served <= txns'[k]
                        /\ faults' = 0 => served = txns'[k]
      BY DEF ChargedMeansSubscribed
    <3>2. txns[k] \in Nat /\ txns'[k] = IF k = Key(n) THEN txns[k] + 1 ELSE txns[k]
      BY <2>4 DEF TypeOK, TablesTypeOK
    <3>3. r \notin Charging(k)
      BY <2>1 DEF Charging
    <3>4. CASE k = Key(n)
      <4>1. Charging(k)' = Charging(k) \cup {r}
        BY <2>1, <3>1, <3>4 DEF Charging
      <4>2. Cardinality(Charging(k)') = Cardinality(Charging(k)) + 1
        BY <1>0, <3>3, <4>1, FS_AddElement
      <4> QED BY <1>0, <2>1, <2>2, <3>2, <3>4, <4>2 DEF ChargedMeansSubscribed
    <3>5. CASE k # Key(n)
      <4>1. Charging(k)' = Charging(k)
        BY <2>1, <3>1, <3>5 DEF Charging
      <4> QED BY <1>0, <2>1, <2>2, <3>2, <3>5, <4>1 DEF ChargedMeansSubscribed
    <3> QED BY <3>4, <3>5
  <2> QED BY <1>3, <2>3, <2>4 DEF CreateTransaction
<1>4. ASSUME NEW r \in Runs, CreateSubscription(r) PROVE ChargedMeansSubscribed'
  <2> DEFINE n == run[r].req
             row == NewRow(n)
             new == Len(subs) + 1
  <2>1. /\ run[r].pc = "create" /\ run'[r].pc = "credit"
        /\ \A s \in Runs \ {r} : run'[s] = run[s]
        /\ UNCHANGED <<txns, faults>> /\ subs' = Append(subs, row)
    BY <1>4, OneMoves DEF CreateSubscription, At, WithNewRow, userVars
  <2>2. row \in Row /\ Key(row) = Key(n)
    BY <2>1, RowType DEF TypeOK, ListenerTypeOK, At, Key, NewRow
  <2> HIDE DEF row
  <2> SUFFICES ASSUME NEW k \in Msisdns \X Products
               PROVE  LET served == Cardinality(RowsOf(k)') + Cardinality(Charging(k)') IN
                      /\ served <= txns'[k]
                      /\ faults' = 0 => served = txns'[k]
    BY DEF ChargedMeansSubscribed
  <2>3. RowsOf(k)' = IF Key(n) = k THEN RowsOf(k) \cup {new} ELSE RowsOf(k)
    BY <2>1, <2>2, RowAppended
  <2>4. new \notin RowsOf(k)
    BY <2>1, <2>2, RowAppended DEF RowsOf
  <2>5. txns[k] \in Nat
    BY DEF TypeOK, TablesTypeOK
  <2> HIDE DEF new
  <2>6. CASE Key(n) = k
    <3>1. r \in Charging(k) /\ Charging(k)' = Charging(k) \ {r}
      BY <2>1, <2>6 DEF Charging
    <3>2. Cardinality(Charging(k)') = Cardinality(Charging(k)) - 1
      BY <1>0, <3>1, FS_RemoveElement
    <3>3. Cardinality(RowsOf(k)') = Cardinality(RowsOf(k)) + 1
      BY <1>0, <2>3, <2>4, <2>6, FS_AddElement
    <3> QED BY <1>0, <2>1, <2>5, <3>2, <3>3 DEF ChargedMeansSubscribed
  <2>7. CASE Key(n) # k
    <3>1. Charging(k)' = Charging(k)
      BY <2>1, <2>7 DEF Charging
    <3> QED BY <2>1, <2>3, <2>7, <3>1 DEF ChargedMeansSubscribed
  <2> QED BY <2>6, <2>7
<1> QED BY <1>1, <1>2, <1>3, <1>4, QuietSteps

\* Rows never outnumber charges, and without a fault every charge has its row or
\* a listener about to create it, whatever the listeners' interleaving.
THEOREM ChargedMeansSubscribedAlways == Spec => []ChargedMeansSubscribed
<1>1. Init => ChargedMeansSubscribed
  <2> SUFFICES ASSUME Init, NEW k \in Msisdns \X Products
               PROVE  Cardinality(RowsOf(k)) + Cardinality(Charging(k)) = txns[k]
    BY DEF ChargedMeansSubscribed, Init
  <2>1. RowsOf(k) = {} /\ Charging(k) = {} /\ txns[k] = 0
    BY DEF Init, RowsOf, Charging, Idle
  <2> QED BY <2>1, FS_EmptySet
<1>2. TypeOK /\ ChargedMeansSubscribed /\ [Next]_vars => ChargedMeansSubscribed'
  BY ChargedStep
<1> QED BY <1>1, <1>2, TypeCorrect, PTL DEF Spec

\* Rows and quiz attempts.

LEMMA Amounts ==
  ASSUME TypeOK, NEW u
  PROVE  /\ \A i \in RowsOfUser(u) : Granted[i] \in Nat
         /\ \A r \in Crediting(u) : Due[r] \in Nat
         /\ Total(Granted, RowsOfUser(u)) \in Nat
         /\ Total(Due, Crediting(u)) \in Nat
<1>1. \A i \in RowsOfUser(u) : Granted[i] \in Nat
  <2>1. \A i \in DOMAIN subs : subs[i] \in Row
    BY DEF TypeOK, TablesTypeOK
  <2>2. \A i \in DOMAIN subs : subs[i].product \in Products
    BY <2>1 DEF Row
  <2> QED BY <2>2, CatalogueAssumption DEF RowsOfUser, Granted
<1>2. \A r \in Crediting(u) : Due[r] \in Nat
  <2>1. \A r \in Crediting(u) : r \in Runs /\ run[r].req.product \in Products
    BY DEF TypeOK, ListenerTypeOK, Crediting, At
  <2> QED BY <2>1, CatalogueAssumption DEF Due
<1>3. IsFiniteSet(RowsOfUser(u)) /\ IsFiniteSet(Crediting(u))
  BY FiniteSets
<1> QED BY <1>1, <1>2, <1>3, TotalType

LEMMA QuizStep ==
  ASSUME TypeOK, QuizAttemptsMatchRows, [Next]_vars
  PROVE  QuizAttemptsMatchRows'
<1> SUFFICES ASSUME NEW u \in Msisdns
             PROVE  LET earned == Total(Granted', RowsOfUser(u)')
                        known  == attempts'[u] + Total(Due', Crediting(u)')
                    IN  /\ known <= earned
                        /\ faults' = 0 => known = earned
  BY DEF QuizAttemptsMatchRows, Total, Units
<1>0. /\ attempts[u] \in Nat
      /\ IsFiniteSet(Crediting(u)) /\ IsFiniteSet(RowsOfUser(u))
      /\ \A i \in RowsOfUser(u) : i \in DOMAIN subs /\ Granted[i] \in Nat
      /\ \A r \in Crediting(u) : r \in Runs /\ Due[r] \in Nat
      /\ Total(Granted, RowsOfUser(u)) \in Nat /\ Total(Due, Crediting(u)) \in Nat
  BY Amounts, FiniteSets DEF TypeOK, TablesTypeOK, RowsOfUser, Crediting
<1>1. ASSUME RowsOfUser(u)' = RowsOfUser(u), DOMAIN subs' = DOMAIN subs,
             \A i \in DOMAIN subs : subs'[i].product = subs[i].product
      PROVE  Total(Granted', RowsOfUser(u)') = Total(Granted, RowsOfUser(u))
  <2>1. \A i \in RowsOfUser(u) : Granted'[i] = Granted[i]
    BY <1>0, <1>1 DEF Granted
  <2> QED BY <1>1, <2>1, TotalSame
<1>2. ASSUME Crediting(u)' \in SUBSET Crediting(u),
             \A r \in Crediting(u)' : run'[r].req = run[r].req
      PROVE  Total(Due', Crediting(u)') = Total(Due, Crediting(u)')
  <2>1. \A r \in Crediting(u)' : Due'[r] = Due[r]
    BY <1>0, <1>2 DEF Due
  <2> QED BY <2>1, TotalSame
<1>3. CASE Quiet
  <2>1. /\ UNCHANGED attempts /\ (faults' = 0 => faults = 0)
        /\ DOMAIN subs' = DOMAIN subs
    BY <1>3 DEF Quiet, userVars, SameRows
  <2>2. /\ RowsOfUser(u)' = RowsOfUser(u)
        /\ Crediting(u)' \in SUBSET Crediting(u)
        /\ faults' = 0 => Crediting(u)' = Crediting(u)
        /\ \A r \in Crediting(u)' : run'[r].req = run[r].req
        /\ \A i \in DOMAIN subs : subs'[i].product = subs[i].product
    BY <1>3, QuietKeeps
  <2>3. Total(Granted', RowsOfUser(u)') = Total(Granted, RowsOfUser(u))
    BY <1>1, <2>1, <2>2
  <2>4. Total(Due', Crediting(u)') = Total(Due, Crediting(u)')
    BY <1>2, <2>2
  <2>5. /\ Total(Due, Crediting(u)') <= Total(Due, Crediting(u))
        /\ Total(Due, Crediting(u)') \in Nat
    <3>1. IsFiniteSet(Crediting(u)')
      BY <1>0, <2>2, FS_Subset
    <3> QED BY <1>0, <2>2, <3>1, TotalSubset, TotalType
  <2> QED BY <1>0, <2>1, <2>2, <2>3, <2>4, <2>5 DEF QuizAttemptsMatchRows
<1>4. ASSUME NEW r \in Runs, CreateUser(r) \/ CreateWallet(r) \/ CreateTransaction(r)
      PROVE  QuizAttemptsMatchRows'
  <2>1. /\ UNCHANGED <<attempts, subs, faults>>
        /\ \A s \in Runs \ {r} : run'[s] = run[s]
        /\ run[r].pc # "credit"
    BY <1>4, OneMoves DEF CreateUser, CreateWallet, CreateTransaction, At, Finish,
                          TypeOK, ListenerTypeOK
  <2>2. run'[r].pc # "credit"
    BY <1>4, OneMoves, RecordTypes
       DEF CreateUser, CreateWallet, CreateTransaction, AfterUser, AfterCreate, Finish,
           TypeOK, ListenerTypeOK
  <2>3. \A v \in Msisdns : RowsOfUser(v)' = RowsOfUser(v) /\ Crediting(v)' = Crediting(v)
    BY <2>1, <2>2 DEF RowsOfUser, Crediting, At
  <2>4. Granted' = Granted
    BY <2>1 DEF Granted
  <2>5. \A v \in Msisdns : Total(Due', Crediting(v)') = Total(Due, Crediting(v))
    <3> TAKE v \in Msisdns
    <3>1. \A s \in Crediting(v) : Due'[s] = Due[s]
      BY <2>1, <2>2 DEF Due, Crediting, At
    <3> QED BY <2>3, <3>1, TotalSame
  <2>6. \A v \in Msisdns :
          LET earned == Total(Granted', RowsOfUser(v)')
              known  == attempts'[v] + Total(Due', Crediting(v)')
          IN  /\ known <= earned
              /\ faults' = 0 => known = earned
    BY <2>1, <2>3, <2>4, <2>5 DEF QuizAttemptsMatchRows
  <2> QED BY <2>6 DEF QuizAttemptsMatchRows, Total, Units
<1>5. ASSUME NEW r \in Runs, CreateSubscription(r)
      PROVE  LET earned == Total(Granted', RowsOfUser(u)')
                 known  == attempts'[u] + Total(Due', Crediting(u)')
             IN  /\ known <= earned
                 /\ faults' = 0 => known = earned
  <2> DEFINE n == run[r].req
             row == NewRow(n)
             new == Len(subs) + 1
  <2>1. /\ run[r].pc = "create" /\ run'[r].pc = "credit" /\ run'[r].req = n
        /\ \A s \in Runs \ {r} : run'[s] = run[s]
        /\ UNCHANGED <<attempts, faults>> /\ subs' = Append(subs, row)
    BY <1>5, OneMoves DEF CreateSubscription, At, WithNewRow, userVars
  <2>2. /\ row \in Row /\ row.msisdn = n.msisdn /\ row.product = n.product
        /\ n.product \in Products
    BY <2>1, RowType DEF TypeOK, ListenerTypeOK, At, NewRow
  <2>3. QuizAttempts[n.product] \in Nat
    BY <2>2, CatalogueAssumption
  <2> HIDE DEF row
  <2>4. /\ new \notin DOMAIN subs /\ DOMAIN subs' = DOMAIN subs \cup {new}
        /\ subs'[new] = row /\ \A i \in DOMAIN subs : subs'[i] = subs[i]
        /\ RowsOfUser(u)' = IF n.msisdn = u THEN RowsOfUser(u) \cup {new} ELSE RowsOfUser(u)
    BY <2>1, <2>2, RowAppended
  <2> HIDE DEF new
  <2>5. /\ \A i \in RowsOfUser(u) : Granted'[i] = Granted[i]
        /\ Granted'[new] = QuizAttempts[n.product]
    BY <1>0, <2>2, <2>4 DEF Granted
  <2>6. /\ \A s \in Crediting(u) : Due'[s] = Due[s]
        /\ Due'[r] = QuizAttempts[n.product]
    BY <1>0, <2>1 DEF Due, Crediting, At
  <2>7. Total(Granted', RowsOfUser(u)) = Total(Granted, RowsOfUser(u))
    BY <2>5, TotalSame
  <2>8. Total(Due', Crediting(u)) = Total(Due, Crediting(u))
    BY <2>6, TotalSame
  <2>9. CASE n.msisdn = u
    <3>1. r \notin Crediting(u) /\ Crediting(u)' = Crediting(u) \cup {r}
      BY <2>1, <2>9 DEF Crediting, At
    <3>2. Total(Due', Crediting(u) \cup {r}) = Total(Due', Crediting(u)) + Due'[r]
      BY <1>0, <2>3, <2>6, <3>1, TotalAdd
    <3>3. new \notin RowsOfUser(u)
      BY <1>0, <2>4
    <3>4. Total(Granted', RowsOfUser(u) \cup {new})
            = Total(Granted', RowsOfUser(u)) + Granted'[new]
      BY <1>0, <2>3, <2>5, <3>3, TotalAdd
    <3> QED
      BY <1>0, <2>1, <2>3, <2>4, <2>5, <2>6, <2>7, <2>8, <2>9, <3>1, <3>2, <3>4
         DEF QuizAttemptsMatchRows
  <2>10. CASE n.msisdn # u
    <3>1. Crediting(u)' = Crediting(u)
      BY <2>1, <2>10 DEF Crediting, At
    <3> QED
      BY <2>1, <2>4, <2>7, <2>8, <2>10, <3>1 DEF QuizAttemptsMatchRows
  <2> QED BY <2>9, <2>10
<1>6. ASSUME NEW r \in Runs, AddQuizAttempts(r)
      PROVE  LET earned == Total(Granted', RowsOfUser(u)')
                 known  == attempts'[u] + Total(Due', Crediting(u)')
             IN  /\ known <= earned
                 /\ faults' = 0 => known = earned
  <2> DEFINE n == run[r].req
             q == QuizAttempts[n.product]
  <2>1. /\ run[r].pc = "credit" /\ run'[r].pc = "sms"
        /\ \A s \in Runs \ {r} : run'[s] = run[s]
        /\ UNCHANGED <<subs, faults>>
        /\ attempts' = [attempts EXCEPT ![n.msisdn] = attempts[n.msisdn] + q]
    BY <1>6, OneMoves DEF AddQuizAttempts, At, Credited
  <2>2. q \in Nat /\ n.msisdn \in Msisdns
    BY <2>1, CatalogueAssumption, RequestsAssumption DEF TypeOK, ListenerTypeOK, At
  <2>3. RowsOfUser(u)' = RowsOfUser(u) /\ Granted' = Granted
    BY <2>1 DEF RowsOfUser, Granted
  <2>4. Crediting(u)' = Crediting(u) \ {r}
    BY <2>1 DEF Crediting, At
  <2>5. \A s \in Crediting(u)' : run'[s].req = run[s].req
    BY <2>1, <2>4 DEF Crediting
  <2>6. Total(Due', Crediting(u)') = Total(Due, Crediting(u) \ {r})
    BY <1>2, <2>4, <2>5
  <2>7. attempts'[u] = IF n.msisdn = u THEN attempts[u] + q ELSE attempts[u]
    BY <2>1, <2>2 DEF TypeOK, TablesTypeOK
  <2>8. IsFiniteSet(Crediting(u) \ {r})
    BY <1>0, FS_Subset
  <2>9. Total(Due, Crediting(u) \ {r}) \in Nat
    BY <1>0, <2>8, TotalType
  <2>10. CASE n.msisdn = u
    <3>1. r \in Crediting(u)
      BY <2>1, <2>10 DEF Crediting, At
    <3>2. Total(Due, Crediting(u)) = Total(Due, Crediting(u) \ {r}) + Due[r]
      BY <1>0, <3>1, TotalRemove
    <3>3. Due[r] = q
      BY DEF Due
    <3> HIDE DEF q
    <3> QED
      BY <1>0, <2>1, <2>2, <2>3, <2>6, <2>7, <2>9, <2>10, <3>2, <3>3 DEF QuizAttemptsMatchRows
  <2>11. CASE n.msisdn # u
    <3>1. Crediting(u) \ {r} = Crediting(u)
      BY <2>11 DEF Crediting
    <3> QED
      BY <1>0, <2>1, <2>3, <2>6, <2>7, <2>11, <3>1 DEF QuizAttemptsMatchRows
  <2> QED BY <2>10, <2>11
<1>7. ASSUME QuizAttemptsMatchRows'
      PROVE  LET earned == Total(Granted', RowsOfUser(u)')
                 known  == attempts'[u] + Total(Due', Crediting(u)')
             IN  /\ known <= earned
                 /\ faults' = 0 => known = earned
  BY <1>7 DEF QuizAttemptsMatchRows, Total, Units
<1> QED BY <1>3, <1>4, <1>5, <1>6, <1>7, QuietSteps

\* A user's quiz attempts are those of the user's rows less what listeners still
\* have to add, and a fault can only lose attempts: no interleaving of listeners
\* adds any twice or loses one.
THEOREM QuizAttemptsMatchRowsAlways == Spec => []QuizAttemptsMatchRows
<1>1. Init => QuizAttemptsMatchRows
  <2>1. ASSUME Init, NEW u \in Msisdns
        PROVE  RowsOfUser(u) = {} /\ Crediting(u) = {} /\ attempts[u] = 0
    BY <2>1 DEF Init, RowsOfUser, Crediting, At, Idle
  <2> QED BY <2>1, TotalEmpty DEF QuizAttemptsMatchRows
<1>2. TypeOK /\ QuizAttemptsMatchRows /\ [Next]_vars => QuizAttemptsMatchRows'
  BY QuizStep
<1> QED BY <1>1, <1>2, TypeCorrect, PTL DEF Spec
----------------------------------------------------------------------------
(* SubscriptionProcessing implements Entitlements. A listener that writes  *)
(* a row by id has found it under its own key, and one that cancels serves *)
(* an unsubscription; with the charges counted above and the end dates of  *)
(* HeldRows each write of a status is an End, and each other step one of   *)
(* Charge, Give, StartLeaving, StopLeaving and Elapse.                     *)

Holding == {"replace", "findActive", "cancel", "unsubscribedSms"}

HeldKeys ==
  \A r \in Runs :
    /\ run[r].pc \in {"replace", "cancel"} => Key(subs[run[r].found]) = Key(run[r].req)
    /\ run[r].pc \in {"findActive", "cancel", "unsubscribedSms"} => Unsubscribes(run[r].req)

\* What a step does to a listener that holds something afterwards.
Finds(r) ==
  /\ run'[r].req = run[r].req
  /\ \/ run'[r].pc = "replace" /\ run'[r].found \in ExistingRows(run[r].req)
     \/ /\ run[r].pc = "findActive"
        /\ \/ run'[r].pc = "unsubscribedSms"
           \/ run'[r].pc = "cancel" /\ run'[r].found \in CancellableRows(run[r].req)
     \/ run[r].pc = "cancel" /\ run'[r].pc = "unsubscribedSms"
     \/ run'[r].pc = "findActive" /\ Unsubscribes(run[r].req)

LEMMA ListenerFinds ==
  ASSUME TypeOK, [Next]_vars, NEW r \in Runs
  PROVE  run'[r] = run[r] \/ run'[r].pc \notin Holding \/ Finds(r)
<1> DEFINE Goal == run'[r] = run[r] \/ run'[r].pc \notin Holding \/ Finds(r)
<1>0. run \in [Runs -> [pc : Pcs, req : Notifications, found : Nat]]
  BY DEF TypeOK, ListenerTypeOK
<1>1. ASSUME UNCHANGED run PROVE Goal
  BY <1>1
<1>2. ASSUME NEW j \in Jobs, EmitOperation(j) PROVE Goal
  BY <1>0, <1>2 DEF EmitOperation, Holding
<1>3. ASSUME NEW s \in Runs, GetUser(s) \/ CreateWallet(s) PROVE Goal
  <2>1. run'[s].req = run[s].req /\ \A t \in Runs \ {s} : run'[t] = run[t]
    BY <1>3, OneMoves DEF GetUser, CreateWallet
  <2>2. run'[s].pc \in {"createUser", AfterUser(run[s].req)}
    BY <1>3, OneMoves DEF GetUser, CreateWallet
  <2> QED BY <2>1, <2>2 DEF AfterUser, Finds, Holding
<1>4. ASSUME NEW s \in Runs,
             \/ CreateUser(s) \/ CreateTransaction(s) \/ CreateSubscription(s)
             \/ AddQuizAttempts(s) \/ SendSms(s) \/ ListenerFails(s)
      PROVE  Goal
  BY <1>0, <1>4, OneMoves, RecordTypes
     DEF CreateUser, CreateTransaction, CreateSubscription, AddQuizAttempts, SendSms,
         ListenerFails, Finish, AfterCreate, Holding
<1>5. ASSUME NEW s \in Runs, FindExisting(s) PROVE Goal
  <2>1. \A t \in Runs \ {s} : run'[t] = run[t]
    BY <1>0, <1>5 DEF FindExisting, Goto
  <2>2. run'[s].pc = "create" \/ Finds(s)
    BY <1>0, <1>5 DEF FindExisting, Goto, Finds
  <2> QED BY <2>1, <2>2 DEF Holding
<1>6. ASSUME NEW s \in Runs, ReplaceExisting(s) PROVE Goal
  BY <1>0, <1>6 DEF ReplaceExisting, Holding
<1>7. ASSUME NEW s \in Runs, FindActive(s) PROVE Goal
  <2>1. \A t \in Runs \ {s} : run'[t] = run[t]
    BY <1>0, <1>7 DEF FindActive, Goto
  <2>2. Finds(s)
    BY <1>0, <1>7 DEF FindActive, Goto, Finds, At
  <2> QED BY <2>1, <2>2
<1>8. ASSUME NEW s \in Runs, CancelActive(s) PROVE Goal
  BY <1>0, <1>8 DEF CancelActive, At, Finds
<1>9. ASSUME Crash PROVE Goal
  BY <1>9, RecordTypes DEF Crash, Holding
<1> HIDE DEF Goal
<1>10. ASSUME NEW s \in Runs, ListenerStep(s) \/ ListenerFails(s) PROVE Goal
  BY <1>3, <1>4, <1>5, <1>6, <1>7, <1>8, <1>10 DEF ListenerStep
<1>11. ASSUME NEW j \in Jobs, WorkerStep(j) PROVE Goal
  BY <1>1, <1>2, <1>11 DEF WorkerStep, StoreDatasync, CompleteJob
<1>12. ASSUME \/ \E j \in Jobs, n \in Notifications : DatasyncNotification(j, n)
              \/ \E j \in Jobs : StoreFails(j)
              \/ SweepStep \/ SweepFails \/ Tick
       PROVE  Goal
  BY <1>1, <1>12 DEF DatasyncNotification, StoreFails, SweepStep, StartSweep,
                     ExpireSubscription, SweepFails, Tick
<1>13. ASSUME UNCHANGED vars PROVE Goal
  BY <1>1, <1>13 DEF vars
<1>14. Goal
  BY <1>9, <1>10, <1>11, <1>12, <1>13 DEF Next
<1> QED BY <1>14 DEF Goal

\* No step moves a row to another key.
LEMMA KeysStay ==
  ASSUME TypeOK, [Next]_vars
  PROVE  \A i \in DOMAIN subs : i \in DOMAIN subs' /\ Key(subs'[i]) = Key(subs[i])
<1>1. CASE Quiet
  BY <1>1 DEF Quiet, SameRows
<1>2. ASSUME NEW r \in Runs,
             \/ CreateUser(r) \/ CreateWallet(r) \/ CreateTransaction(r) \/ AddQuizAttempts(r)
      PROVE  UNCHANGED subs
  BY <1>2 DEF CreateUser, CreateWallet, CreateTransaction, AddQuizAttempts
<1>3. ASSUME NEW r \in Runs, CreateSubscription(r)
      PROVE  \A i \in DOMAIN subs : i \in DOMAIN subs' /\ subs'[i] = subs[i]
  <2>1. run[r].req \in Notifications /\ run[r].req.product \in Products
    BY <1>3 DEF CreateSubscription, At, TypeOK, ListenerTypeOK
  <2>2. NewRow(run[r].req) \in Row
    BY <2>1, RowType DEF TypeOK
  <2> QED BY <1>3, <2>2, RowAppended DEF CreateSubscription, WithNewRow
<1> QED
  BY <1>1, <1>2, <1>3, QuietSteps

LEMMA HeldKeysStep ==
  ASSUME TypeOK, HeldKeys, [Next]_vars
  PROVE  HeldKeys'
<1> SUFFICES ASSUME NEW r \in Runs
             PROVE  /\ run'[r].pc \in {"replace", "cancel"} =>
                         Key(subs'[run'[r].found]) = Key(run'[r].req)
                    /\ run'[r].pc \in {"findActive", "cancel", "unsubscribedSms"} =>
                         Unsubscribes(run'[r].req)
  BY DEF HeldKeys
<1>1. \A i \in DOMAIN subs : Key(subs'[i]) = Key(subs[i])
  BY KeysStay
<1>2. CASE run'[r] = run[r]
  <2>1. run[r].pc \in {"replace", "cancel"} => run[r].found \in DOMAIN subs
    BY DEF TypeOK, ListenerTypeOK
  <2> QED BY <1>1, <1>2, <2>1 DEF HeldKeys
<1>3. CASE run'[r].pc \notin Holding
  BY <1>3 DEF Holding
<1>4. CASE Finds(r)
  <2>1. /\ \A i \in ExistingRows(run[r].req) : i \in DOMAIN subs /\ Key(subs[i]) = Key(run[r].req)
        /\ \A i \in CancellableRows(run[r].req) : i \in DOMAIN subs /\ Key(subs[i]) = Key(run[r].req)
    BY DEF ExistingRows, CancellableRows
  <2> QED BY <1>1, <1>4, <2>1 DEF Finds, HeldKeys
<1> QED
  BY <1>2, <1>3, <1>4, ListenerFinds

EntitledInv == TypeOK /\ SafeInv /\ ChargedMeansSubscribed /\ HeldKeys

LEMMA EntitledInvariant == Spec => []EntitledInv
<1>1. Init => HeldKeys
  BY DEF Init, HeldKeys, Idle
<1>2. TypeOK /\ HeldKeys /\ [Next]_vars => HeldKeys'
  BY HeldKeysStep
<1> QED
  BY <1>1, <1>2, SafeInvariant, ChargedMeansSubscribedAlways, TypeCorrect, PTL
     DEF Spec, EntitledInv

(* What Entitlements sees of rows, charges and listeners.                  *)

entriesBar == [i \in DOMAIN subs |-> EntitlementOf(subs[i])]
owedBar    == [k \in Keys |-> txns[k] - Cardinality(RowsOf(k))]

Asks(r) == ~At(r, "idle") /\ Unsubscribes(run[r].req)

LEMMA LeavingKept ==
  ASSUME \A r \in Runs : Asks(r)' <=> Asks(r),
         \A r \in Runs : Asks(r) => run'[r].req = run[r].req
  PROVE  Leaving' = Leaving
  BY DEF Leaving, Asks, At

LEMMA LeavingShrinks ==
  ASSUME \A r \in Runs : Asks(r)' => Asks(r) /\ run'[r].req = run[r].req
  PROVE  Leaving' \subseteq Leaving
  BY DEF Leaving, Asks, At

LEMMA OwedKept ==
  ASSUME TypeOK, UNCHANGED txns, SameRows
  PROVE  owedBar' = owedBar
<1>1. \A k : RowsOf(k)' = RowsOf(k)
  BY DEF SameRows, RowsOf
<1> QED BY <1>1 DEF owedBar
\* A status is written: the entitlement ends, or had ended before.
LEMMA Ends ==
  ASSUME EntitledInv, NEW i \in DOMAIN subs, subs[i].status # "FAILED",
         NEW st \in {"REPLACED", "CANCELLED", "EXPIRED"},
         subs' = [subs EXCEPT ![i].status = st],
         UNCHANGED <<txns, now>>, Leaving' = Leaving,
         \/ owedBar[Key(subs[i])] > 0
         \/ Key(subs[i]) \in Leaving
         \/ subs[i].endDate # NoEndDate /\ subs[i].endDate + GraceDays * TicksPerDay <= now
  PROVE  Promise!EntitlementsNext
<1>1. st \in Statuses /\ subs \in Seq(Row)
  BY DEF Statuses, EntitledInv, TypeOK, TablesTypeOK
<1>2. /\ DOMAIN subs' = DOMAIN subs
      /\ \A k \in DOMAIN subs : /\ Key(subs'[k]) = Key(subs[k])
                                /\ subs'[k].endDate = subs[k].endDate
                                /\ k # i => subs'[k] = subs[k]
      /\ subs'[i].status = st
  BY <1>1, StatusWritten
<1>3. owedBar' = owedBar
  BY <1>2, OwedKept DEF EntitledInv, SameRows
<1>4. /\ entriesBar' = [k \in DOMAIN subs |-> EntitlementOf(subs'[k])]
      /\ \A k \in DOMAIN subs : k # i => EntitlementOf(subs'[k]) = EntitlementOf(subs[k])
      /\ EntitlementOf(subs'[i]) = [of |-> Key(subs[i]), state |-> "ended", until |-> subs[i].endDate]
  BY <1>2 DEF entriesBar, EntitlementOf
<1>5. CASE subs[i].status = "ACTIVE"
  <2>1. entriesBar[i] = [of |-> Key(subs[i]), state |-> "given", until |-> subs[i].endDate]
    BY <1>5 DEF entriesBar, EntitlementOf
  <2>2. entriesBar' = [entriesBar EXCEPT ![i].state = "ended"]
    <3>1. [entriesBar[i] EXCEPT !.state = "ended"] = EntitlementOf(subs'[i])
      BY <1>4, <2>1
    <3>2. entriesBar' = [entriesBar EXCEPT ![i] = EntitlementOf(subs'[i])]
      BY <1>4 DEF entriesBar
    <3> QED BY <3>1, <3>2, Zenon
  <2>3. /\ entriesBar[i].state = "given"
        /\ entriesBar[i].of = Key(subs[i]) /\ entriesBar[i].until = subs[i].endDate
    BY <2>1
  <2>4. /\ entriesBar[i].state = "given"
        /\ \/ owedBar[entriesBar[i].of] > 0
           \/ entriesBar[i].of \in Leaving
           \/ entriesBar[i].until # NoEndDate /\ entriesBar[i].until + GraceDays * TicksPerDay <= now
    BY <2>3
  <2>5. Promise!End(i)
    BY <1>3, <2>2, <2>4, Zenon DEF Promise!End, Promise!MayEnd, entriesBar, owedBar
  <2>6. i \in DOMAIN entriesBar
    BY DEF entriesBar
  <2> QED BY <2>5, <2>6, Zenon DEF Promise!EntitlementsNext, entriesBar
<1>6. CASE subs[i].status # "ACTIVE"
  <2>1. EntitlementOf(subs[i]) = [of |-> Key(subs[i]), state |-> "ended", until |-> subs[i].endDate]
    BY <1>6 DEF EntitlementOf
  <2>2. entriesBar' = entriesBar
    BY <1>4, <2>1 DEF entriesBar
  <2>3. Promise!StopLeaving
    BY <1>3, <2>2, Zenon DEF Promise!StopLeaving, entriesBar, owedBar
  <2> QED BY <2>3, Zenon DEF Promise!EntitlementsNext
<1> QED BY <1>5, <1>6

\* Nothing but a listener's end is seen.
LEMMA Passes ==
  ASSUME TypeOK, UNCHANGED <<subs, txns, now>>, Leaving' \subseteq Leaving
  PROVE  Promise!EntitlementsNext
<1>1. owedBar' = owedBar
  BY OwedKept DEF SameRows
<1>2. entriesBar' = entriesBar
  BY DEF entriesBar
<1>3. Promise!StopLeaving
  BY <1>1, <1>2, Zenon DEF Promise!StopLeaving, entriesBar, owedBar
<1> QED BY <1>3, Zenon DEF Promise!EntitlementsNext

\* Who has charged and not yet created is owed what it charged for.
LEMMA ChargeIsOwed ==
  ASSUME TypeOK, ChargedMeansSubscribed, NEW k \in Keys, NEW r \in Charging(k)
  PROVE  owedBar[k] > 0
<1>1. /\ IsFiniteSet(Charging(k)) /\ Cardinality(Charging(k)) \in Nat
      /\ Cardinality(RowsOf(k)) \in Nat
  BY FiniteSets
<1>2. Cardinality(Charging(k)) # 0
  BY <1>1, FS_EmptySet
<1>3. Cardinality(RowsOf(k)) + Cardinality(Charging(k)) <= txns[k] /\ txns[k] \in Nat
  BY DEF ChargedMeansSubscribed, TypeOK, TablesTypeOK, Keys
<1> QED BY <1>1, <1>2, <1>3 DEF owedBar

LEMMA KeySteps ==
  ASSUME NEW k \in Keys, Promise!Charge(k) \/ Promise!Give(k) \/ Promise!StartLeaving(k)
  PROVE  Promise!EntitlementsNext
  BY Zenon DEF Promise!EntitlementsNext

LEMMA SequenceAsFunction ==
  ASSUME NEW S, NEW s \in Seq(S)
  PROVE  s = [i \in 1 .. Len(s) |-> s[i]]
  OBVIOUS

LEMMA Appended ==
  ASSUME NEW S, NEW s \in Seq(S), NEW e \in S
  PROVE  Append(s, e) = [i \in 1 .. Len(s) + 1 |-> IF i = Len(s) + 1 THEN e ELSE s[i]]
<1>1. Append(s, e) \in Seq(S) /\ Len(Append(s, e)) = Len(s) + 1 /\ Len(s) \in Nat
  OBVIOUS
<1>2. Append(s, e) = [i \in 1 .. Len(s) + 1 |-> Append(s, e)[i]]
  BY <1>1, SequenceAsFunction
<1>3. \A i \in 1 .. Len(s) + 1 : Append(s, e)[i] = IF i = Len(s) + 1 THEN e ELSE s[i]
  BY <1>1
<1> QED BY <1>2, <1>3

LEMMA LeavingAtMove ==
  ASSUME NEW r \in Runs, run[r].pc # "idle", run'[r].pc # "idle", run'[r].req = run[r].req,
         \A s \in Runs \ {r} : run'[s] = run[s]
  PROVE  Leaving' = Leaving
<1>1. \A s \in Runs : run'[s].req = run[s].req /\ (At(s, "idle")' <=> At(s, "idle"))
  BY DEF At
<1> QED BY <1>1, LeavingKept DEF Asks

LEMMA KeyOfListener ==
  ASSUME TypeOK, NEW r \in Runs, run[r].pc # "idle"
  PROVE  /\ run[r].req \in Notifications /\ run[r].req.product \in Products
         /\ Key(run[r].req) \in Keys
<1>1. run[r].req \in Notifications /\ run[r].req.product \in Products
  BY DEF TypeOK, ListenerTypeOK, At
<1>2. run[r].req.msisdn \in Msisdns
  BY <1>1, RequestsAssumption
<1> QED BY <1>1, <1>2 DEF Key, Keys

LEMMA TransactionCharges ==
  ASSUME TypeOK, NEW r \in Runs, CreateTransaction(r)
  PROVE  Promise!EntitlementsNext
<1> DEFINE n == run[r].req
<1>0. run[r].pc = "createTransaction"
  BY DEF CreateTransaction, At
<1> PICK k \in Keys : k = Key(n)
  BY <1>0, KeyOfListener
<1>1. UNCHANGED <<subs, now>> /\ run[r].pc = "createTransaction"
  BY DEF CreateTransaction, At
<1>2. CASE Finish(r) /\ UNCHANGED txns
  <2>1. run'[r].pc = "idle" /\ \A s \in Runs \ {r} : run'[s] = run[s]
    BY <1>2, RecordTypes DEF Finish, TypeOK, ListenerTypeOK
  <2>2. Leaving' \subseteq Leaving
    BY <2>1, LeavingShrinks DEF Asks, At
  <2> QED BY <1>1, <1>2, <2>2, Passes
<1>3. CASE txns' = [txns EXCEPT ![k] = @ + 1] /\ Goto(r, "findExisting")
  <2>1. /\ run'[r].pc = "findExisting" /\ run'[r].req = n
        /\ \A s \in Runs \ {r} : run'[s] = run[s]
    BY <1>3, OneMoves
  <2>2. Leaving' = Leaving
    BY <1>1, <2>1, LeavingAtMove
  <2>4. \A l : RowsOf(l)' = RowsOf(l)
    BY <1>1 DEF RowsOf
  <2>5. \A l \in Keys : txns[l] \in Nat /\ Cardinality(RowsOf(l)) \in Nat
    BY FiniteSets DEF TypeOK, TablesTypeOK, Keys
  <2>6. \A l \in Keys : txns'[l] = IF l = k THEN txns[l] + 1 ELSE txns[l]
    BY <1>3 DEF TypeOK, TablesTypeOK, Keys
  <2>7. \A l \in Keys : txns'[l] - Cardinality(RowsOf(l)') =
          IF l = k THEN owedBar[k] + 1 ELSE owedBar[l]
    BY <2>4, <2>5, <2>6 DEF owedBar
  <2>8. owedBar' = [owedBar EXCEPT ![k] = @ + 1]
    BY <2>7 DEF owedBar
  <2>9. entriesBar' = entriesBar
    BY <1>1 DEF entriesBar
  <2>10. Promise!Charge(k)
    BY <1>1, <2>2, <2>8, <2>9, Zenon DEF Promise!Charge, entriesBar, owedBar
  <2> QED BY <2>10, KeySteps
<1> QED BY <1>2, <1>3 DEF CreateTransaction

LEMMA RowGives ==
  ASSUME EntitledInv, NEW r \in Runs, CreateSubscription(r)
  PROVE  Promise!EntitlementsNext
<1> DEFINE n == run[r].req
           row == NewRow(n)
           new == Len(subs) + 1
           state == IF n.resultOk THEN "given" ELSE "refused"
<1> USE DEF EntitledInv
<1>0. run[r].pc = "create"
  BY DEF CreateSubscription, At
<1> PICK k \in Keys : k = Key(n)
  BY <1>0, KeyOfListener
<1>1. /\ run[r].pc = "create" /\ run'[r].pc = "credit" /\ run'[r].req = n
      /\ \A s \in Runs \ {r} : run'[s] = run[s]
      /\ UNCHANGED <<txns, now>> /\ subs' = Append(subs, row)
  BY OneMoves DEF CreateSubscription, At, WithNewRow, userVars
<1>2. Leaving' = Leaving
  BY <1>1, LeavingAtMove
<1>3. n \in Notifications /\ n.product \in Products
  BY <1>1, KeyOfListener
<1>4. row \in Row
  BY <1>3, RowType DEF TypeOK
<1>5. Key(row) = k /\ k[2] = n.product
  BY DEF NewRow, Key
<1> HIDE DEF row
<1>6. /\ new \notin DOMAIN subs /\ DOMAIN subs' = DOMAIN subs \cup {new}
      /\ subs'[new] = row /\ \A i \in DOMAIN subs : subs'[i] = subs[i]
      /\ \A l : RowsOf(l)' = IF k = l THEN RowsOf(l) \cup {new} ELSE RowsOf(l)
  BY <1>1, <1>4, <1>5, RowAppended
<1>7. EntitlementOf(row) = [of |-> k, state |-> state, until |-> EndDate(n.product)]
  <2>1. row.status = (IF n.resultOk THEN "ACTIVE" ELSE "FAILED") /\ row.endDate = EndDate(n.product)
    BY DEF row, NewRow
  <2> QED BY <1>5, <2>1 DEF EntitlementOf
<1>8. [l \in Keys |-> ValidityDays[l[2]]][k] = ValidityDays[n.product]
  BY <1>3, <1>5
<1>9. EntitlementOf(row) = [of |-> k, state |-> state, until |-> Promise!Until(k)]
  BY <1>7, <1>8, Zenon DEF Promise!Until, EndDate
<1>10. entriesBar' = Append(entriesBar, EntitlementOf(row))
  <2>1. DOMAIN subs = 1 .. Len(subs) /\ Len(subs) \in Nat
    BY DEF TypeOK, TablesTypeOK
  <2>2. DOMAIN subs' = 1 .. new
    BY <1>6, <2>1
  <2>3. \A i \in 1 .. Len(subs) : EntitlementOf(subs'[i]) = EntitlementOf(subs[i])
    BY <1>6, <2>1
  <2> DEFINE E == {EntitlementOf(x) : x \in Row}
  <2>4. /\ entriesBar \in Seq(E) /\ Len(entriesBar) = Len(subs)
        /\ EntitlementOf(row) \in E
    <3>1. \A i \in 1 .. Len(subs) : EntitlementOf(subs[i]) \in E
      BY <2>1 DEF TypeOK, TablesTypeOK
    <3>2. EntitlementOf(row) \in E
      BY <1>4
    <3> HIDE DEF E
    <3> QED BY <2>1, <3>1, <3>2 DEF entriesBar
  <2> HIDE DEF E
  <2>5. Append(entriesBar, EntitlementOf(row)) =
          [i \in 1 .. new |-> IF i = new THEN EntitlementOf(row) ELSE entriesBar[i]]
    BY <2>4, Appended
  <2>6. \A i \in 1 .. new : i # new => i \in 1 .. Len(subs)
    BY <2>1
  <2>7. \A i \in 1 .. new :
          EntitlementOf(subs'[i]) = IF i = new THEN EntitlementOf(row) ELSE entriesBar[i]
    BY <1>6, <2>1, <2>3, <2>6 DEF entriesBar
  <2>8. entriesBar' = [i \in 1 .. new |-> EntitlementOf(subs'[i])]
    BY <2>2 DEF entriesBar
  <2> QED BY <2>5, <2>7, <2>8
<1>11. \A l \in Keys : /\ txns[l] \in Nat /\ IsFiniteSet(RowsOf(l)) /\ Cardinality(RowsOf(l)) \in Nat
                       /\ IsFiniteSet(Charging(l)) /\ Cardinality(Charging(l)) \in Nat
  BY FiniteSets DEF TypeOK, TablesTypeOK, Keys
<1>12. Cardinality(RowsOf(k)') = Cardinality(RowsOf(k)) + 1
  <2>1. new \notin RowsOf(k)
    BY <1>6 DEF RowsOf
  <2>2. RowsOf(k)' = RowsOf(k) \cup {new} /\ IsFiniteSet(RowsOf(k))
    BY <1>6, <1>11
  <2> HIDE DEF new
  <2> QED BY <2>1, <2>2, FS_AddElement
<1>13. owedBar[k] > 0
  <2>1. r \in Charging(k)
    BY <1>1 DEF Charging
  <2> QED BY <1>3, <2>1, ChargeIsOwed
<1> HIDE DEF new
<1>14. owedBar' = [owedBar EXCEPT ![k] = @ - 1]
  <2>1. \A l \in Keys : txns'[l] - Cardinality(RowsOf(l)') =
          IF l = k THEN owedBar[k] - 1 ELSE owedBar[l]
    <3> TAKE l \in Keys
    <3>1. txns'[l] = txns[l] /\ txns[l] \in Nat /\ Cardinality(RowsOf(l)) \in Nat
      BY <1>1, <1>11
    <3>2. owedBar[l] = txns[l] - Cardinality(RowsOf(l))
      BY DEF owedBar
    <3>3. l # k => RowsOf(l)' = RowsOf(l)
      BY <1>6
    <3> QED BY <1>12, <3>1, <3>2, <3>3
  <2> QED BY <1>3, <2>1 DEF owedBar
<1>15. state \in {"given", "refused"}
  OBVIOUS
<1> HIDE DEF state
<1>16. Promise!Give(k)
  BY <1>1, <1>2, <1>9, <1>10, <1>13, <1>14, <1>15, Zenon DEF Promise!Give, entriesBar, owedBar
<1> QED BY <1>3, <1>16, KeySteps

LEMMA EntitlementsStep ==
  ASSUME EntitledInv, [Next]_vars
  PROVE  Promise!EntitlementsNext
<1> USE DEF EntitledInv
<1>0. run \in [Runs -> [pc : Pcs, req : Notifications, found : Nat]]
  BY DEF TypeOK, ListenerTypeOK
<1>1. ASSUME UNCHANGED <<run, subs, txns, now>> PROVE Promise!EntitlementsNext
  <2>1. Leaving' = Leaving
    BY <1>1 DEF Leaving, At
  <2> QED BY <1>1, <2>1, Passes
<1>2. ASSUME NEW j \in Jobs, EmitOperation(j) PROVE Promise!EntitlementsNext
  <2>1. UNCHANGED <<subs, txns, now>>
    BY <1>2 DEF EmitOperation, userVars
  <2>2. CASE UNCHANGED run
    BY <1>1, <2>1, <2>2
  <2> DEFINE n == jobs[j].req
  <2>3. ASSUME HasListenerWork(n), NEW r \in Runs, run[r].pc = "idle",
               run' = [run EXCEPT ![r] = [pc |-> "getUser", req |-> n, found |-> 0]]
        PROVE  Promise!EntitlementsNext
    <3>1. /\ run'[r].pc = "getUser" /\ run'[r].req = n
          /\ \A s \in Runs \ {r} : run'[s] = run[s]
      BY <1>0, <2>3
    <3>2. CASE Unsubscribes(n)
      <4>1. Key(n) \in Keys
        BY <2>3, RequestsAssumption DEF HasListenerWork, TypeOK, QueueTypeOK, Job, Key, Keys
      <4>2. Leaving' = Leaving \cup {Key(n)}
        BY <2>3, <3>1, <3>2 DEF Leaving, At
      <4>3. owedBar' = owedBar /\ entriesBar' = entriesBar
        BY <2>1, OwedKept DEF SameRows, entriesBar
      <4>4. Promise!StartLeaving(Key(n))
        BY <2>1, <4>2, <4>3, Zenon DEF Promise!StartLeaving, entriesBar, owedBar
      <4> QED BY <4>1, <4>4, KeySteps
    <3>3. CASE ~Unsubscribes(n)
      <4>1. Leaving' = Leaving
        BY <2>3, <3>1, <3>3, LeavingKept DEF Asks, At
      <4> QED BY <2>1, <4>1, Passes
    <3> QED BY <3>2, <3>3
  <2> QED BY <1>2, <2>2, <2>3 DEF EmitOperation, At
<1>3. ASSUME NEW r \in Runs,
             \/ GetUser(r) \/ CreateUser(r) \/ CreateWallet(r) \/ FindExisting(r)
             \/ AddQuizAttempts(r) \/ FindActive(r) \/ SendSms(r) \/ ListenerFails(r)
      PROVE  Promise!EntitlementsNext
  <2>1. UNCHANGED <<subs, txns, now>> /\ run[r].pc # "idle"
    BY <1>3 DEF GetUser, CreateUser, CreateWallet, FindExisting, AddQuizAttempts, FindActive,
                SendSms, ListenerFails, At, userVars
  <2>2. /\ \A s \in Runs \ {r} : run'[s] = run[s]
        /\ run'[r].pc = "idle" \/ run'[r].req = run[r].req
    BY <1>0, <1>3, OneMoves, RecordTypes
       DEF GetUser, CreateUser, CreateWallet, FindExisting, AddQuizAttempts, FindActive,
           SendSms, ListenerFails, Finish, Goto
  <2>3. Leaving' \subseteq Leaving
    BY <2>1, <2>2, LeavingShrinks DEF Asks, At
  <2> QED BY <2>1, <2>3, Passes
<1>4. ASSUME NEW r \in Runs, ReplaceExisting(r) PROVE Promise!EntitlementsNext
  <2> DEFINE i == run[r].found
  <2>1. /\ run[r].pc = "replace" /\ UNCHANGED <<txns, now>>
        /\ subs' = [subs EXCEPT ![i].status = "REPLACED"]
    BY <1>4 DEF ReplaceExisting, At, userVars
  <2>2. /\ run'[r].pc = "create" /\ run'[r].req = run[r].req
        /\ \A s \in Runs \ {r} : run'[s] = run[s]
    BY <1>0, <1>4 DEF ReplaceExisting
  <2>3. Leaving' = Leaving
    BY <2>1, <2>2, LeavingAtMove
  <2>4. i \in DOMAIN subs /\ subs[i].status # "FAILED" /\ Key(subs[i]) = Key(run[r].req)
    BY <2>1 DEF TypeOK, ListenerTypeOK, SafeInv, HeldRows, HeldKeys
  <2>5. Key(subs[i]) \in Keys /\ r \in Charging(Key(subs[i]))
    BY <2>1, <2>4, KeyOfListener DEF Charging
  <2>6. owedBar[Key(subs[i])] > 0
    BY <2>5, ChargeIsOwed
  <2> QED BY <2>1, <2>3, <2>4, <2>6, Ends
<1>5. ASSUME NEW r \in Runs, CancelActive(r) PROVE Promise!EntitlementsNext
  <2> DEFINE i == run[r].found
  <2>1. /\ run[r].pc = "cancel" /\ UNCHANGED <<txns, now>>
        /\ subs' = [subs EXCEPT ![i].status = "CANCELLED"]
    BY <1>5 DEF CancelActive, At, userVars
  <2>2. /\ run'[r].pc = "unsubscribedSms" /\ run'[r].req = run[r].req
        /\ \A s \in Runs \ {r} : run'[s] = run[s]
    BY <1>0, <1>5 DEF CancelActive
  <2>3. Leaving' = Leaving
    BY <2>1, <2>2, LeavingAtMove
  <2>4. i \in DOMAIN subs /\ subs[i].status # "FAILED" /\ Key(subs[i]) = Key(run[r].req)
    BY <2>1 DEF TypeOK, ListenerTypeOK, SafeInv, HeldRows, HeldKeys
  <2>5. Key(subs[i]) \in Leaving
    BY <2>1, <2>4 DEF Leaving, HeldKeys, At
  <2> QED BY <2>1, <2>3, <2>4, <2>5, Ends
<1>6. ASSUME NEW i \in sweep, ExpireSubscription(i) PROVE Promise!EntitlementsNext
  <2>1. i \in DOMAIN subs /\ subs[i].status # "FAILED"
        /\ subs[i].endDate # NoEndDate /\ subs[i].endDate + GraceDays * TicksPerDay <= now
    BY DEF TypeOK, TablesTypeOK, SafeInv, HeldRows
  <2>2. UNCHANGED <<run, txns, now>> /\ subs' = [subs EXCEPT ![i].status = "EXPIRED"]
    BY <1>6 DEF ExpireSubscription, userVars
  <2>3. Leaving' = Leaving
    BY <2>2 DEF Leaving, At
  <2> QED BY <2>1, <2>2, <2>3, Ends
<1>7. ASSUME Tick PROVE Promise!EntitlementsNext
  <2>1. UNCHANGED <<run, subs, txns>> /\ now' = now + 1
    BY <1>7 DEF Tick, userVars
  <2>2. Leaving' = Leaving
    BY <2>1 DEF Leaving, At
  <2>3. owedBar' = owedBar /\ entriesBar' = entriesBar
    BY <2>1, OwedKept DEF SameRows, entriesBar
  <2>4. Promise!Elapse
    BY <2>1, <2>2, <2>3, Zenon DEF Promise!Elapse, entriesBar, owedBar
  <2> QED BY <2>4, Zenon DEF Promise!EntitlementsNext
<1>8. ASSUME Crash PROVE Promise!EntitlementsNext
  <2>1. UNCHANGED <<subs, txns, now>> /\ \A r \in Runs : run'[r].pc = "idle"
    BY <1>8, RecordTypes DEF Crash, userVars
  <2>2. Leaving' \subseteq Leaving
    BY <2>1, LeavingShrinks DEF Asks, At
  <2> QED BY <2>1, <2>2, Passes
<1>9. ASSUME NEW j \in Jobs,
             \/ \E n \in Notifications : DatasyncNotification(j, n)
             \/ StoreDatasync(j) \/ CompleteJob(j) \/ StoreFails(j)
      PROVE  Promise!EntitlementsNext
  BY <1>1, <1>9 DEF DatasyncNotification, StoreDatasync, CompleteJob, StoreFails, userVars
<1>10. ASSUME StartSweep \/ SweepFails PROVE Promise!EntitlementsNext
  BY <1>1, <1>10 DEF StartSweep, SweepFails, userVars
<1>11. ASSUME UNCHANGED vars PROVE Promise!EntitlementsNext
  BY <1>1, <1>11 DEF vars, userVars
<1> QED
  BY <1>2, <1>3, <1>4, <1>5, <1>6, <1>7, <1>8, <1>9, <1>10, <1>11,
     TransactionCharges, RowGives, Zenon
     DEF Next, ListenerStep, WorkerStep, SweepStep

LEMMA EntitlementsStart == Init => Promise!EntitlementsInit
<1> SUFFICES ASSUME Init PROVE Promise!EntitlementsInit
  OBVIOUS
<1>1. subs = << >> /\ now = 0 /\ \A r \in Runs : run[r].pc = "idle"
  BY DEF Init, Idle
<1>2. Leaving = {}
  BY <1>1 DEF Leaving, At
<1>3. entriesBar = << >>
  BY <1>1 DEF entriesBar
<1>4. \A k \in Keys : txns[k] - Cardinality(RowsOf(k)) = 0
  <2>1. \A k \in Keys : RowsOf(k) = {} /\ txns[k] = 0
    BY <1>1 DEF Init, RowsOf, Keys
  <2> QED BY <2>1, FS_EmptySet
<1>5. owedBar = [k \in Keys |-> 0]
  BY <1>4 DEF owedBar
<1> QED BY <1>1, <1>2, <1>3, <1>5, Zenon DEF Promise!EntitlementsInit, entriesBar, owedBar

\* Whatever is delivered twice, overlaps, fails or is swept late: a row is created
\* for a charge of its own, and ended only by a charge that is about to replace it,
\* an unsubscription of its number and product, or two days after its end; a FAILED
\* row stays as it is and none comes back. That is what Entitlements promises.
THEOREM SubscriptionsImplementEntitlements == Spec => ImplementsEntitlements
<1>1. Init => Promise!EntitlementsInit
  BY EntitlementsStart
<1>2. EntitledInv /\ [Next]_vars => [Promise!EntitlementsNext]_(Promise!entitlementVars)
  BY EntitlementsStep
<1> QED
  BY <1>1, <1>2, EntitledInvariant, PTL DEF Spec, ImplementsEntitlements, Promise!EntitlementsSpec
=============================================================================
