----------------------- MODULE AuditAttributionProofs -----------------------
(* Theorems about AuditAttribution, for every value of its constants. *)
EXTENDS AuditAttribution, FiniteSetTheorems, TLAPS

----------------------------------------------------------------------------
(* The newest of the matching notifications is one of them.                *)

Less == {p \in Nat \X Nat : p[1] < p[2]}

LEMMA LessIsWellFounded == IsWellFoundedOn(Less, Nat)
<1>1. OpToRel(<, Nat) = Less
  BY DEF OpToRel, Less
<1> QED BY <1>1, NatLessThanWellFounded

\* A nonempty set of naturals with an upper bound has a greatest element.
LEMMA Greatest ==
  ASSUME NEW n \in Nat, NEW S \in SUBSET (0 .. n), S # {}
  PROVE  \E i \in S : \A k \in S : k <= i
<1> DEFINE T == {n - i : i \in S}
<1>1. \A i \in S : i \in Int /\ n - i \in Nat
  OBVIOUS
<1>2. T \subseteq Nat
  BY <1>1
<1>3. T # {}
  <2>1. PICK i \in S : TRUE
    OBVIOUS
  <2> QED BY <2>1
<1>4. PICK x \in T : \A y \in T : <<y, x>> \notin Less
  <2> HIDE DEF T
  <2> QED BY <1>2, <1>3, LessIsWellFounded, WFMin
<1>5. PICK i \in S : x = n - i
  BY <1>4
<1>6. ASSUME NEW k \in S PROVE k <= i
  <2>1. n - k \in T /\ n - k \in Nat /\ x \in Nat
    BY <1>1, <1>2
  <2>2. ~(n - k < x)
    BY <1>4, <2>1 DEF Less
  <2> QED BY <1>1, <1>5, <2>2
<1> QED BY <1>6

LEMMA NewestMatch ==
  ASSUME secureD \in Seq(SecureDRequests), NEW q
  PROVE  Newest(Matching(q)) \in Matching(q) \cup {None}
<1>1. CASE Matching(q) = {}
  BY <1>1 DEF Newest
<1>2. CASE Matching(q) # {}
  <2>1. Len(secureD) \in Nat /\ Matching(q) \in SUBSET (0 .. Len(secureD))
    BY DEF Matching
  <2>2. \E i \in Matching(q) : \A k \in Matching(q) : k <= i
    BY <1>2, <2>1, Greatest
  <2> QED BY <1>2, <2>2 DEF Newest
<1> QED BY <1>1, <1>2

----------------------------------------------------------------------------
(* Types                                                                   *)

LEMMA MatchIsId ==
  ASSUME secureD \in Seq(SecureDRequests), NEW q, NEW i \in Matching(q) \cup {None}
  PROVE  i \in NotificationId
  BY DEF Matching, None, NotificationId

LEMMA RecordTypes ==
  /\ AnyRequest \in Requests
  /\ NotStarted \in AuditRun /\ Ended \in AuditRun
  /\ NotStarted.pc = "none" /\ Ended.pc = "done"
  /\ NoAudit \in AuditRecord
  /\ NoJob \in RetryJob /\ NoJob.state = "none" /\ NoJob.made = 0
  /\ Completed \in RetryJob /\ Completed.state = "completed"
<1>1. AnyRequest \in Requests
  BY RequestsAssumption DEF AnyRequest
<1> QED
  BY <1>1, BoundsAssumption DEF NotStarted, Ended, AuditRun, NoAudit, AuditRecord, NoJob, Completed,
       RetryJob, Pcs, Comments, NotificationId, DeliveryOrNone, None, MaxStalled

\* TypeOK, in two parts: the queue and the rest.
JobsOK ==
  /\ retry \in [Deliveries -> RetryJob]
  /\ \A d \in Deliveries : retry[d].state # "failed" => retry[d].made < Attempts

TablesTypeOK ==
  /\ rows \in [Deliveries -> Row]
  /\ secureD \in Seq(SecureDRequests)
  /\ run \in [Deliveries -> AuditRun]
  /\ audits \in [Deliveries -> AuditRecord]
  /\ postbacks \in [Deliveries -> Nat]
  /\ faults \in Nat
  /\ overtaken \in SUBSET Deliveries
  /\ unseen \in SUBSET Deliveries

\* The ways a step changes a listener, a job or the notifications.

LEMMA RetriedType ==
  ASSUME NEW job \in RetryJob, job.state # "failed" => job.made < Attempts,
         job.state # "failed"
  PROVE  /\ Retried(job) \in RetryJob
         /\ Retried(job).state # "failed" => Retried(job).made < Attempts
<1>1. job.made + 1 \in 0 .. Attempts /\ None \in NotificationId
  BY BoundsAssumption DEF RetryJob, None, NotificationId
<1>2. PICK st \in {"waiting", "failed"} :
        /\ Retried(job) = [job EXCEPT !.made = job.made + 1, !.seen = None, !.state = st]
        /\ st = "waiting" => job.made + 1 < Attempts
  BY DEF Retried
<1> QED BY <1>1, <1>2 DEF RetryJob

LEMMA StalledType ==
  ASSUME NEW job \in RetryJob, job.state # "failed" => job.made < Attempts
  PROVE  /\ Stalled(job) \in RetryJob
         /\ Stalled(job).state # "failed" => Stalled(job).made < Attempts
<1>1. None \in NotificationId
  BY DEF None, NotificationId
<1>2. CASE ~Held(job)
  BY <1>2 DEF Stalled
<1>3. CASE Held(job) /\ job.stalled < MaxStalled
  <2>1. Stalled(job) = [job EXCEPT !.stalled = job.stalled + 1, !.state = "waiting", !.seen = None]
    BY <1>3 DEF Stalled
  <2>2. job.stalled + 1 \in 0 .. MaxStalled /\ job.state # "failed"
    BY <1>3 DEF RetryJob, MaxStalled, Held
  <2> QED BY <1>1, <2>1, <2>2 DEF RetryJob
<1>4. CASE Held(job) /\ ~(job.stalled < MaxStalled)
  <2>1. Stalled(job) = [job EXCEPT !.state = "failed", !.seen = None]
    BY <1>4 DEF Stalled
  <2> QED BY <1>1, <2>1 DEF RetryJob
<1> QED BY <1>2, <1>3, <1>4

LEMMA ListenerEnds ==
  ASSUME run \in [Deliveries -> AuditRun], NEW d \in Deliveries, End(d), UNCHANGED secureD
  PROVE  (run \in [Deliveries -> AuditRun])'
  BY RecordTypes DEF End, AuditRun, NotificationId

LEMMA ListenerGoes ==
  ASSUME run \in [Deliveries -> AuditRun], NEW d \in Deliveries, NEW pc \in Pcs,
         Goto(d, pc), UNCHANGED secureD
  PROVE  (run \in [Deliveries -> AuditRun])'
  BY DEF Goto, AuditRun, NotificationId

LEMMA ListenerReplaced ==
  ASSUME run \in [Deliveries -> AuditRun], NEW d \in Deliveries, NEW l \in AuditRun,
         run' = [run EXCEPT ![d] = l], UNCHANGED secureD
  PROVE  (run \in [Deliveries -> AuditRun])'
  BY DEF AuditRun, NotificationId

LEMMA RecordReplaced ==
  ASSUME audits \in [Deliveries -> AuditRecord], NEW d \in Deliveries,
         NEW a \in AuditRecord, audits' = [audits EXCEPT ![d] = a], UNCHANGED secureD
  PROVE  (audits \in [Deliveries -> AuditRecord])'
  BY DEF AuditRecord, NotificationId

LEMMA ListenerInserts ==
  ASSUME run \in [Deliveries -> AuditRun], NEW d \in Deliveries, NEW pc \in Pcs,
         NEW e \in Deliveries, run' = [run EXCEPT ![d].pc = pc, ![d].row = e],
         UNCHANGED secureD
  PROVE  (run \in [Deliveries -> AuditRun])'
<1>1. [run[d] EXCEPT !.pc = pc, !.row = e] \in AuditRun
  BY DEF AuditRun, DeliveryOrNone
<1>2. run' = [run EXCEPT ![d] = [run[d] EXCEPT !.pc = pc, !.row = e]]
  OBVIOUS
<1> QED BY <1>1, <1>2, ListenerReplaced

LEMMA ListenerHasContext ==
  ASSUME run \in [Deliveries -> AuditRun], NEW d \in Deliveries, NEW i \in NotificationId,
         NEW c \in Comments, UNCHANGED secureD,
         run' = [run EXCEPT ![d].pc = "match", ![d].context = i, ![d].comment = c]
  PROVE  (run \in [Deliveries -> AuditRun])'
<1>1. [run[d] EXCEPT !.pc = "match", !.context = i, !.comment = c] \in AuditRun
  BY DEF AuditRun, Pcs
<1>2. run' = [run EXCEPT ![d] = [run[d] EXCEPT !.pc = "match", !.context = i, !.comment = c]]
  OBVIOUS
<1> QED BY <1>1, <1>2, ListenerReplaced

LEMMA JobReplaced ==
  ASSUME JobsOK, NEW d \in Deliveries, NEW job \in RetryJob,
         job.state # "failed" => job.made < Attempts,
         retry' = [retry EXCEPT ![d] = job],
         UNCHANGED secureD
  PROVE  JobsOK'
  BY DEF JobsOK, RetryJob, NotificationId

LEMMA JobGoes ==
  ASSUME JobsOK, NEW d \in Deliveries, retry[d].state # "failed",
         NEW st \in {"link", "flags", "get", "note"}, NEW i \in NotificationId,
         retry' = [retry EXCEPT ![d].state = st, ![d].seen = i],
         UNCHANGED secureD
  PROVE  JobsOK'
<1>1. retry[d] \in RetryJob /\ retry[d].made < Attempts
  BY DEF JobsOK
<1>2. /\ [retry[d] EXCEPT !.state = st, !.seen = i] \in RetryJob
      /\ [retry[d] EXCEPT !.state = st, !.seen = i].made = retry[d].made
  BY <1>1 DEF RetryJob
<1>3. retry' = [retry EXCEPT ![d] = [retry[d] EXCEPT !.state = st, !.seen = i]]
  BY DEF JobsOK
<1> QED BY <1>1, <1>2, <1>3, JobReplaced

LEMMA TypeStep == ASSUME TypeOK, [Next]_vars PROVE TypeOK'
<1> USE RequestsAssumption, BoundsAssumption
<1>0. JobsOK /\ TablesTypeOK
  BY DEF TypeOK, JobsOK, TablesTypeOK
<1> SUFFICES JobsOK' /\ TablesTypeOK'
  BY DEF TypeOK, JobsOK, TablesTypeOK
<1>a. /\ UNCHANGED <<secureD, run>> => (run \in [Deliveries -> AuditRun])'
      /\ UNCHANGED <<secureD, audits>> => (audits \in [Deliveries -> AuditRecord])'
      /\ UNCHANGED <<secureD, retry>> => JobsOK'
  BY <1>0 DEF JobsOK, TablesTypeOK, AuditRun, AuditRecord, RetryJob, NotificationId
<1>1. ASSUME NEW d \in Deliveries, NEW q \in Requests, StoreDatasync(d, q)
      PROVE  JobsOK' /\ TablesTypeOK'
  <2>1. (rows \in [Deliveries -> Row])'
    BY <1>0, <1>1 DEF StoreDatasync, TablesTypeOK, Row
  <2>2. (run \in [Deliveries -> AuditRun])'
    BY <1>0, <1>1, ListenerGoes DEF StoreDatasync, TablesTypeOK, Goto, Pcs
  <2> QED BY <1>0, <1>1, <1>a, <2>1, <2>2 DEF StoreDatasync, TablesTypeOK
<1>2. ASSUME NEW d \in Deliveries, BuildContext(d) PROVE JobsOK' /\ TablesTypeOK'
  <2>1. CASE End(d)
    BY <1>0, <1>2, <1>a, <2>1, ListenerEnds DEF BuildContext, TablesTypeOK
  <2>2. CASE ~End(d)
    <3>1. PICK i \in NotificationId, c \in Comments :
            run' = [run EXCEPT ![d].pc = "match", ![d].context = i, ![d].comment = c]
      BY <1>0, <1>2, <2>2, NewestMatch, MatchIsId DEF BuildContext, TablesTypeOK, Comments
    <3>2. UNCHANGED secureD
      BY <1>2 DEF BuildContext
    <3>3. run \in [Deliveries -> AuditRun]
      BY <1>0 DEF TablesTypeOK
    <3>4. (run \in [Deliveries -> AuditRun])'
      BY <3>1, <3>2, <3>3, ListenerHasContext
    <3> QED BY <1>0, <1>2, <1>a, <3>4 DEF BuildContext, TablesTypeOK
  <2> QED BY <2>1, <2>2
<1>3. ASSUME NEW d \in Deliveries, FindMatching(d) PROVE JobsOK' /\ TablesTypeOK'
  <2>1. (run \in [Deliveries -> AuditRun])'
    <3>1. CASE End(d)
      BY <1>0, <1>3, <3>1, ListenerEnds DEF FindMatching, TablesTypeOK
    <3>2. CASE ~End(d)
      <4>1. PICK i \in NotificationId, pc \in Pcs :
              run' = [run EXCEPT ![d].match = i, ![d].pc = pc]
        BY <1>0, <1>3, <3>2, NewestMatch, MatchIsId DEF FindMatching, TablesTypeOK, Pcs
      <4>2. UNCHANGED secureD
        BY <1>3 DEF FindMatching
      <4>3. run \in [Deliveries -> AuditRun]
        BY <1>0 DEF TablesTypeOK
      <4>4. [run[d] EXCEPT !.match = i, !.pc = pc] \in AuditRun
        BY <4>3 DEF AuditRun
      <4>5. run' = [run EXCEPT ![d] = [run[d] EXCEPT !.match = i, !.pc = pc]]
        BY <4>1, <4>3
      <4> QED BY <4>2, <4>3, <4>4, <4>5, ListenerReplaced
    <3> QED BY <3>1, <3>2
  <2>2. faults' \in Nat
    BY <1>0, <1>3 DEF FindMatching, TablesTypeOK
  <2> QED BY <1>0, <1>3, <1>a, <2>1, <2>2 DEF FindMatching, TablesTypeOK
<1>26. ASSUME NEW d \in Deliveries, FindUser(d) PROVE JobsOK' /\ TablesTypeOK'
  <2>1. (run \in [Deliveries -> AuditRun])'
    <3>1. CASE End(d)
      BY <1>0, <1>26, <3>1, ListenerEnds DEF FindUser, TablesTypeOK
    <3>2. CASE ~End(d)
      BY <1>0, <1>26, <3>2, ListenerGoes DEF FindUser, Unrecorded, TablesTypeOK, Pcs
    <3> QED BY <3>1, <3>2
  <2>2. faults' \in Nat /\ unseen' \in SUBSET Deliveries
    BY <1>0, <1>26 DEF FindUser, TablesTypeOK
  <2> QED BY <1>0, <1>26, <1>a, <2>1, <2>2 DEF FindUser, TablesTypeOK
<1>4. ASSUME NEW d \in Deliveries, CreateAuditRecord(d) PROVE JobsOK' /\ TablesTypeOK'
  <2>1. (run \in [Deliveries -> AuditRun])'
    <3>1. CASE End(d)
      BY <1>0, <1>4, <3>1, ListenerEnds DEF CreateAuditRecord, TablesTypeOK
    <3>2. CASE ~End(d)
      <4>1. PICK e \in Deliveries, pc \in Pcs :
              run' = [run EXCEPT ![d].pc = pc, ![d].row = e]
        BY <1>4, <3>2 DEF CreateAuditRecord, DatasyncRows, Pcs
      <4>2. UNCHANGED secureD
        BY <1>4 DEF CreateAuditRecord
      <4>3. run \in [Deliveries -> AuditRun]
        BY <1>0 DEF TablesTypeOK
      <4> QED BY <4>1, <4>2, <4>3, ListenerInserts
    <3> QED BY <3>1, <3>2
  <2> QED BY <1>0, <1>4, <1>a, <2>1 DEF CreateAuditRecord, TablesTypeOK
<1>5. ASSUME NEW d \in Deliveries, QueueSecureDRetry(d) PROVE JobsOK' /\ TablesTypeOK'
  <2>1. (run \in [Deliveries -> AuditRun])'
    BY <1>0, <1>5, ListenerGoes DEF QueueSecureDRetry, TablesTypeOK, Pcs
  <2>2. JobsOK'
    <3> DEFINE job == [NoJob EXCEPT !.state = "waiting"]
    <3>1. job \in RetryJob /\ job.made < Attempts
      BY RecordTypes, BoundsAssumption DEF RetryJob
    <3>2. retry' = [retry EXCEPT ![d] = job] /\ UNCHANGED secureD
      BY <1>5 DEF QueueSecureDRetry
    <3> HIDE DEF job
    <3> QED BY <1>0, <3>1, <3>2, JobReplaced
  <2> QED BY <1>0, <1>5, <2>1, <2>2, <1>a DEF QueueSecureDRetry, TablesTypeOK
<1>6. ASSUME NEW d \in Deliveries, MarkAndCommit(d) PROVE JobsOK' /\ TablesTypeOK'
  <2>1. (rows \in [Deliveries -> Row])'
    <3>1. PICK e \in Deliveries : rows' = [rows EXCEPT ![e].state = "processed"]
      BY <1>6 DEF MarkAndCommit, DatasyncRows
    <3>2. rows \in [Deliveries -> Row]
      BY <1>0 DEF TablesTypeOK
    <3>3. [rows[e] EXCEPT !.state = "processed"] \in Row
      BY <3>2 DEF Row
    <3>4. rows' \in [Deliveries -> Row]
      BY <3>1, <3>2, <3>3
    <3> QED BY <3>4 DEF Row
  <2>2. (run \in [Deliveries -> AuditRun])'
    <3>1. CASE End(d)
      BY <1>0, <1>6, <3>1, ListenerEnds DEF MarkAndCommit, TablesTypeOK
    <3>2. CASE ~End(d)
      BY <1>0, <1>6, <3>2
         DEF MarkAndCommit, TablesTypeOK, AuditRun, NotificationId, DeliveryOrNone, Comments, Pcs
    <3> QED BY <3>1, <3>2
  <2>3. NewAudit(d) \in AuditRecord
    BY <1>0 DEF NewAudit, HasMarketer, Converted, TablesTypeOK, AuditRun, AuditRecord,
                NotificationId, None
  <2>4. (audits \in [Deliveries -> AuditRecord])'
    BY <1>0, <1>6, <1>a, <2>3, RecordReplaced DEF MarkAndCommit, TablesTypeOK
  <2> QED BY <1>0, <1>6, <1>a, <2>1, <2>2, <2>4 DEF MarkAndCommit, TablesTypeOK
<1>7. ASSUME NEW d \in Deliveries, NEW marketed \in BOOLEAN, NEW i \in NotificationId,
             SetFlags(d, marketed, i), UNCHANGED secureD
      PROVE  (audits \in [Deliveries -> AuditRecord])'
  <2>1. Acquired(Req(d), marketed) \in BOOLEAN /\ Churned(Req(d)) \in BOOLEAN
        /\ Converted(i) \in BOOLEAN
    <3>1. i # None => secureD[i].success \in BOOLEAN
      BY <1>0 DEF TablesTypeOK, NotificationId, None
    <3> QED BY <3>1 DEF Acquired, Churned, Converted
  <2> DEFINE a == [audits[d] EXCEPT !.acquired = Acquired(Req(d), marketed),
                                    !.churned = Churned(Req(d)), !.converted = Converted(i)]
  <2>2. a \in AuditRecord
    <3>1. audits[d] \in AuditRecord
      BY <1>0 DEF TablesTypeOK
    <3> QED BY <2>1, <3>1 DEF AuditRecord
  <2>3. audits' = [audits EXCEPT ![d] = a]
    BY <1>0, <1>7 DEF SetFlags, TablesTypeOK
  <2> HIDE DEF a
  <2> QED BY <1>0, <1>7, <2>2, <2>3, RecordReplaced DEF TablesTypeOK
<1>8. ASSUME NEW d \in Deliveries, WriteFlags(d) PROVE JobsOK' /\ TablesTypeOK'
  <2>1. run[d].match \in NotificationId /\ run[d].context \in NotificationId
    BY <1>0 DEF TablesTypeOK, AuditRun
  <2>2. HasMarketer(run[d].context) \in BOOLEAN
    BY DEF HasMarketer
  <2>3. (audits \in [Deliveries -> AuditRecord])'
    BY <1>7, <1>8, <2>1, <2>2 DEF WriteFlags
  <2>4. [NotStarted EXCEPT !.pc = "reread"] \in AuditRun
    BY RecordTypes DEF AuditRun, Pcs
  <2>5. (run \in [Deliveries -> AuditRun])'
    BY <1>0, <1>8, <2>4, ListenerReplaced DEF WriteFlags, TablesTypeOK
  <2> QED BY <1>0, <1>8, <1>a, <2>3, <2>5 DEF WriteFlags, TablesTypeOK
<1>9. ASSUME NEW d \in Deliveries, ReRead(d) PROVE JobsOK' /\ TablesTypeOK'
  <2>1. (run \in [Deliveries -> AuditRun])'
    <3>1. CASE End(d)
      BY <1>0, <1>9, <3>1, ListenerEnds DEF ReRead, TablesTypeOK
    <3>2. CASE ~End(d)
      <4>1. [NotStarted EXCEPT !.pc = "get", !.comment = audits[d].comment] \in AuditRun
        BY <1>0, RecordTypes DEF TablesTypeOK, AuditRecord, AuditRun, Pcs
      <4> QED BY <1>0, <1>9, <3>2, <4>1, ListenerReplaced DEF ReRead, TablesTypeOK
    <3> QED BY <3>1, <3>2
  <2> QED BY <1>0, <1>9, <1>a, <2>1 DEF ReRead, TablesTypeOK
<1>10. ASSUME NEW d \in Deliveries, GetPostback(d) PROVE JobsOK' /\ TablesTypeOK'
  BY <1>0, <1>10, <1>a, ListenerGoes DEF GetPostback, TablesTypeOK, Pcs
<1>11. ASSUME NEW d \in Deliveries, NotePostback(d) PROVE JobsOK' /\ TablesTypeOK'
  <2>1. [audits[d] EXCEPT !.comment = run[d].comment] \in AuditRecord
    <3>1. audits[d] \in AuditRecord /\ run[d] \in AuditRun
      BY <1>0 DEF TablesTypeOK
    <3>2. run[d].comment \in Comments
      BY <3>1 DEF AuditRun
    <3> QED BY <3>1, <3>2 DEF AuditRecord
  <2>2. (audits \in [Deliveries -> AuditRecord])'
    BY <1>0, <1>11, <2>1, RecordReplaced DEF NotePostback, TablesTypeOK
  <2> QED BY <1>0, <1>11, <1>a, <2>2, ListenerEnds DEF NotePostback, TablesTypeOK
<1>12. ASSUME NEW d \in Deliveries, AuditFails(d) PROVE JobsOK' /\ TablesTypeOK'
  BY <1>0, <1>12, <1>a, ListenerEnds DEF AuditFails, TablesTypeOK
<1>13. ASSUME NEW d \in Deliveries PROVE OvertakenBy(d) \in SUBSET Deliveries
  BY <1>0 DEF OvertakenBy, TablesTypeOK
<1>14. ASSUME NEW d \in Deliveries, FindSecureD(d) PROVE JobsOK' /\ TablesTypeOK'
  <2>1. Newest(Matching(Req(d))) \in NotificationId
    BY <1>0, NewestMatch, MatchIsId DEF TablesTypeOK
  <2>2. JobsOK'
    BY <1>0, <1>14, <2>1, JobGoes DEF FindSecureD, MayStart
  <2> QED BY <1>0, <1>13, <1>14, <1>a, <2>2 DEF FindSecureD, TablesTypeOK
<1>15. ASSUME NEW d \in Deliveries, retry[d].state # "failed", UNCHANGED secureD,
              retry' = [retry EXCEPT ![d] = Retried(retry[d])]
       PROVE  JobsOK'
  BY <1>0, <1>15, RetriedType, JobReplaced DEF JobsOK
<1>16. ASSUME NEW d \in Deliveries, NEW c \in Comments, UNCHANGED secureD,
              audits' = [audits EXCEPT ![d].comment = c]
       PROVE  (audits \in [Deliveries -> AuditRecord])'
  <2>1. audits \in [Deliveries -> AuditRecord]
    BY <1>0 DEF TablesTypeOK
  <2>2. [audits[d] EXCEPT !.comment = c] \in AuditRecord
    BY <2>1 DEF AuditRecord
  <2> QED BY <1>16, <2>1, <2>2, RecordReplaced
<1>17. ASSUME NEW d \in Deliveries, MissSecureD(d) PROVE JobsOK' /\ TablesTypeOK'
  <2>1. JobsOK'
    BY <1>15, <1>17 DEF MissSecureD, MayStart
  <2>2. (audits \in [Deliveries -> AuditRecord])'
    BY <1>0, <1>16, <1>17, <1>a DEF MissSecureD, TablesTypeOK, Comments
  <2> QED BY <1>0, <1>13, <1>17, <1>a, <2>1, <2>2 DEF MissSecureD, TablesTypeOK
<1>18. ASSUME NEW d \in Deliveries, LinkSecureD(d) PROVE JobsOK' /\ TablesTypeOK'
  <2>1. CASE audits[d].exists
    <3> DEFINE a == [audits[d] EXCEPT !.secured = retry[d].seen, !.comment = "attributed",
                               !.marketer = audits[d].marketer \/ HasMarketer(retry[d].seen)]
    <3>0. /\ audits[d] \in AuditRecord
          /\ retry[d].seen \in NotificationId
          /\ (audits[d].marketer \/ HasMarketer(retry[d].seen)) \in BOOLEAN
      BY <1>0 DEF JobsOK, RetryJob, TablesTypeOK
    <3>1. a \in AuditRecord
      BY <3>0 DEF AuditRecord, Comments
    <3>2. audits' = [audits EXCEPT ![d] = a] /\ UNCHANGED secureD
      BY <1>0, <1>18, <2>1 DEF LinkSecureD, TablesTypeOK
    <3>3. (audits \in [Deliveries -> AuditRecord])'
      <4> HIDE DEF a
      <4> QED BY <1>0, <3>1, <3>2, RecordReplaced DEF TablesTypeOK
    <3>4. JobsOK'
      <4>1. [retry[d] EXCEPT !.state = "flags"] \in RetryJob /\ retry[d].made < Attempts
        BY <1>0, <1>18 DEF LinkSecureD, JobsOK, RetryJob
      <4>2. retry' = [retry EXCEPT ![d] = [retry[d] EXCEPT !.state = "flags"]]
        BY <1>0, <1>18, <2>1 DEF LinkSecureD, JobsOK
      <4>3. [retry[d] EXCEPT !.state = "flags"].made = retry[d].made
        BY <1>0 DEF JobsOK, RetryJob
      <4> QED BY <1>0, <3>2, <4>1, <4>2, <4>3, JobReplaced
    <3> QED BY <1>0, <1>18, <1>a, <3>3, <3>4 DEF LinkSecureD, TablesTypeOK
  <2>2. CASE ~audits[d].exists
    BY <1>0, <1>15, <1>18, <1>a, <2>2 DEF LinkSecureD, TablesTypeOK
  <2> QED BY <2>1, <2>2
<1>19. ASSUME NEW d \in Deliveries, WriteRetryFlags(d) PROVE JobsOK' /\ TablesTypeOK'
  <2>1. retry[d].seen \in NotificationId
    BY <1>0 DEF JobsOK, RetryJob
  <2>2. HasMarketer(retry[d].seen) \in BOOLEAN
    BY DEF HasMarketer
  <2>3. (audits \in [Deliveries -> AuditRecord])'
    BY <1>7, <1>19, <2>1, <2>2 DEF WriteRetryFlags
  <2>4. PICK job \in {[retry[d] EXCEPT !.state = "get"], Completed} :
          retry' = [retry EXCEPT ![d] = job]
    BY <1>0, <1>19 DEF WriteRetryFlags, JobsOK
  <2>5. job \in RetryJob /\ (job.state # "failed" => job.made < Attempts)
    BY <1>0, <1>19, <2>4, RecordTypes, BoundsAssumption
       DEF WriteRetryFlags, JobsOK, RetryJob, Completed, NoJob
  <2>6. JobsOK'
    BY <1>0, <1>19, <2>4, <2>5, JobReplaced DEF WriteRetryFlags
  <2> QED BY <1>0, <1>19, <1>a, <2>3, <2>6 DEF WriteRetryFlags, TablesTypeOK
<1>20. ASSUME NEW d \in Deliveries, GetRetryPostback(d) PROVE JobsOK' /\ TablesTypeOK'
  <2>1. JobsOK'
    BY <1>0, <1>20 DEF GetRetryPostback, JobsOK, RetryJob, NotificationId
  <2> QED BY <1>0, <1>20, <1>a, <2>1 DEF GetRetryPostback, TablesTypeOK
<1>21. ASSUME NEW d \in Deliveries, NoteRetryPostback(d) PROVE JobsOK' /\ TablesTypeOK'
  <2>1. JobsOK'
    <3>1. Completed.made < Attempts
      BY BoundsAssumption DEF Completed, NoJob
    <3> QED BY <1>0, <1>21, <3>1, RecordTypes, JobReplaced DEF NoteRetryPostback
  <2>2. (audits \in [Deliveries -> AuditRecord])'
    BY <1>16, <1>21 DEF NoteRetryPostback, Comments
  <2> QED BY <1>0, <1>21, <1>a, <2>1, <2>2 DEF NoteRetryPostback, TablesTypeOK
<1>22. ASSUME NEW d \in Deliveries, RetryFails(d) PROVE JobsOK' /\ TablesTypeOK'
  <2>1. JobsOK'
    BY <1>15, <1>22 DEF RetryFails
  <2> QED BY <1>0, <1>22, <1>a, <2>1 DEF RetryFails, TablesTypeOK
<1>23. ASSUME NEW s \in SecureDRequests, ProcessNotification(s) PROVE JobsOK' /\ TablesTypeOK'
  <2>1. secureD' \in Seq(SecureDRequests) /\ NotificationId \subseteq NotificationId'
    BY <1>0, <1>23 DEF ProcessNotification, TablesTypeOK, NotificationId
  <2>2. AuditRun \subseteq AuditRun' /\ AuditRecord \subseteq AuditRecord'
        /\ RetryJob \subseteq RetryJob'
    BY <2>1 DEF AuditRun, AuditRecord, RetryJob
  <2>3. JobsOK'
    BY <1>0, <1>23, <2>2 DEF ProcessNotification, JobsOK
  <2> QED BY <1>0, <1>23, <2>1, <2>2, <2>3 DEF ProcessNotification, TablesTypeOK
<1>24. CASE Crash
  <2>1. UNCHANGED secureD
    BY <1>24 DEF Crash
  <2>2. JobsOK'
    BY <1>0, <1>24, <2>1, StalledType DEF Crash, JobsOK, RetryJob, NotificationId
  <2>3. (run \in [Deliveries -> AuditRun])'
    BY <1>0, <1>24, <2>1, RecordTypes DEF Crash, TablesTypeOK, AuditRun, NotificationId
  <2> QED BY <1>0, <1>24, <1>a, <2>2, <2>3 DEF Crash, TablesTypeOK
<1>25. CASE UNCHANGED vars
  BY <1>0, <1>25, <1>a DEF vars, TablesTypeOK
<1> QED
  BY <1>1, <1>2, <1>3, <1>4, <1>5, <1>6, <1>8, <1>9, <1>10, <1>11, <1>12, <1>14,
     <1>17, <1>18, <1>19, <1>20, <1>21, <1>22, <1>23, <1>24, <1>25, <1>26
     DEF Next, ListenerStep, RetryStep

\* Every reachable state is well-typed: records and jobs only name notifications
\* there are, and a job that may still run has an attempt left.
THEOREM TypeCorrect == Spec => []TypeOK
<1>1. Init => TypeOK
  BY RecordTypes, BoundsAssumption DEF Init, TypeOK, Row
<1>2. TypeOK /\ [Next]_vars => TypeOK'
  BY TypeStep
<1> QED BY <1>1, <1>2, PTL DEF Spec

----------------------------------------------------------------------------
(* The inductive invariant behind NoOverclaim and PostbackOnlyForConversion. *)

Reports(d)    == Matching(Req(d))
Successes(d)  == {i \in Reports(d) : secureD[i].success}
Marketable(d) == Req(d).sequenceNo \in KnownTrx

\* Nothing happens for a delivery before its datasync is stored.
Fresh(d) ==
  rows[d].state = "none" =>
    run[d] = NotStarted /\ audits[d] = NoAudit /\ retry[d] = NoJob /\ postbacks[d] = 0

\* What a listener carries from step to step is true of its request, and it tells
\* the marketer only of a record that is committed, attributed and converted.
ListenerOK(d) ==
  LET l == run[d] IN
  /\ l.context \in Reports(d) \cup {None}
  /\ l.context # None => Req(d).viaSecureD /\ Marketable(d)
  /\ l.match \in Reports(d) \cup {None}
  /\ l.pc = "queue" => Req(d).viaSecureD
  /\ l.pc \in {"context", "match", "user", "create", "queue", "mark"} => ~audits[d].exists
  /\ l.pc \in {"flags", "reread", "get", "note"} => audits[d].exists
  /\ l.pc = "flags" /\ l.context # None => audits[d].marketer
  /\ l.pc \in {"get", "note"} => audits[d].marketer /\ Successes(d) # {}

RecordOK(d) ==
  LET a == audits[d] IN
  /\ a.secured \in Reports(d) \cup {None}
  /\ a.marketer => a.exists /\ Req(d).viaSecureD /\ Marketable(d)
  /\ a.converted => Successes(d) # {}
  /\ a.acquired => a.marketer /\ Req(d).operationType = "SUBSCRIPTION" /\ Reports(d) # {}

\* The same of the retry, which only SecureD requests have.
RetryOK(d) ==
  LET job == retry[d] IN
  /\ job.state # "none" => Req(d).viaSecureD
  /\ job.seen \in Reports(d) \cup {None}
  /\ Held(job) => job.seen # None
  /\ job.state \in {"flags", "get", "note"} =>
       audits[d].exists /\ (Marketable(d) => audits[d].marketer)
  /\ job.state \in {"get", "note"} => Marketable(d) /\ Successes(d) # {}

PostbackOK(d) ==
  postbacks[d] > 0 => audits[d].exists /\ audits[d].marketer /\ Successes(d) # {}

DeliveryOK(d) == Fresh(d) /\ ListenerOK(d) /\ RecordOK(d) /\ RetryOK(d) /\ PostbackOK(d)

AuditInv == \A d \in Deliveries : DeliveryOK(d)

----------------------------------------------------------------------------
(* The inductive invariant behind PostbackOnce.                            *)

Told(d)      == IF run[d].pc \in {"note", "done"} THEN 1 ELSE 0
RetryTold(d) == IF retry[d].state \in {"note", "completed", "failed"} THEN 1 ELSE 0

\* A listener leaves a retry only without an attribution of its own, so both can
\* tell the marketer only if the retry overtook the listener; beyond the postback
\* of each, one more takes a crash.
CountOK(d) ==
  /\ run[d].pc \in {"none", "context", "match", "user", "create", "queue"} => retry[d].state = "none"
  /\ run[d].pc = "queue" => run[d].context = None
  /\ retry[d].state = "none" => d \notin overtaken /\ postbacks[d] <= Told(d)
  /\ retry[d].state # "none" =>
       /\ run[d].pc = "mark" => run[d].context = None
       /\ d \notin overtaken => /\ postbacks[d] <= RetryTold(d) + faults
                                /\ ~At(d, "done") => retry[d].state = "waiting"
                                                     /\ ~audits[d].marketer
                                                     /\ postbacks[d] = 0
       /\ d \in overtaken => postbacks[d] <= Told(d) + RetryTold(d) + faults

CountInv == \A d \in Deliveries : CountOK(d)

\* What a lookup for a stored request returned says of its marketer and outcome.
LEMMA MatchSays ==
  ASSUME TypeOK, NEW d \in Deliveries, NEW i \in Reports(d) \cup {None}
  PROVE  /\ HasMarketer(i) <=> i # None /\ Marketable(d)
         /\ HasMarketer(i) \in BOOLEAN
         /\ Converted(i) => Successes(d) # {}
         /\ i # None => i \in Reports(d)
  BY DEF Reports, Successes, Marketable, Matching, HasMarketer, Converted, None

LEMMA Lookup ==
  ASSUME TypeOK, NEW d \in Deliveries
  PROVE  /\ Newest(Matching(Req(d))) \in Reports(d) \cup {None}
         /\ Reports(d) # {} => Newest(Matching(Req(d))) # None
<1>1. Newest(Matching(Req(d))) \in Matching(Req(d)) \cup {None}
  BY NewestMatch DEF TypeOK
<1>2. ASSUME Matching(Req(d)) # {} PROVE Newest(Matching(Req(d))) # None
  <2>1. Len(secureD) \in Nat /\ Matching(Req(d)) \in SUBSET (0 .. Len(secureD))
        /\ None \notin Matching(Req(d))
    BY DEF TypeOK, Matching, None
  <2>2. \E i \in Matching(Req(d)) : \A k \in Matching(Req(d)) : k <= i
    BY <1>2, <2>1, Greatest
  <2> QED BY <1>2, <2>1, <2>2 DEF Newest
<1> QED BY <1>1, <1>2 DEF Reports

\* A delivery whose request is kept while notifications may be added.
Kept(d) ==
  /\ rows'[d].req = rows[d].req
  /\ rows'[d].state = "none" <=> rows[d].state = "none"
  /\ \A i \in DOMAIN secureD : i \in DOMAIN secureD' /\ secureD'[i] = secureD[i]

LEMMA Growth ==
  ASSUME TypeOK, TypeOK', NEW d \in Deliveries, Kept(d)
  PROVE  /\ Req(d)' = Req(d)
         /\ Marketable(d)' <=> Marketable(d)
         /\ Reports(d) \subseteq Reports(d)'
         /\ Successes(d) \subseteq Successes(d)'
<1>1. Req(d)' = Req(d) /\ (Marketable(d)' <=> Marketable(d))
  BY DEF Kept, Req, Marketable
<1>2. Reports(d) \subseteq Reports(d)'
  BY <1>1 DEF Kept, Reports, Matching
<1>3. Successes(d) \subseteq Successes(d)'
  <2>1. \A i \in Reports(d) : secureD'[i] = secureD[i]
    BY DEF Reports, Matching, Kept
  <2> QED BY <1>2, <2>1 DEF Successes
<1> QED BY <1>1, <1>2, <1>3

\* A step of another delivery.
LEMMA OtherDelivery ==
  ASSUME TypeOK, TypeOK', NEW d \in Deliveries, DeliveryOK(d), Kept(d),
         run'[d] = run[d], audits'[d] = audits[d], retry'[d] = retry[d],
         postbacks'[d] = postbacks[d]
  PROVE  DeliveryOK(d)'
<1> USE Growth
<1>1. Fresh(d)'
  BY DEF DeliveryOK, Fresh, Kept, NotStarted, NoAudit, NoJob, None
<1>2. ListenerOK(d)'
  BY DEF DeliveryOK, ListenerOK
<1>3. RecordOK(d)'
  BY DEF DeliveryOK, RecordOK
<1>4. RetryOK(d)'
  BY DEF DeliveryOK, RetryOK, Held
<1>5. PostbackOK(d)'
  BY DEF DeliveryOK, PostbackOK
<1> QED BY <1>1, <1>2, <1>3, <1>4, <1>5 DEF DeliveryOK

\* Flags computed from a lookup of the request, for a record the same marketer is
\* linked to.
LEMMA FlagsWritten ==
  ASSUME TypeOK, NEW d \in Deliveries, RecordOK(d), UNCHANGED secureD,
         Req(d)' = Req(d), audits[d].exists,
         NEW i \in Reports(d) \cup {None}, NEW k \in Reports(d) \cup {None},
         k # None => audits[d].marketer, SetFlags(d, HasMarketer(k), i)
  PROVE  /\ RecordOK(d)'
         /\ audits'[d].exists = audits[d].exists
         /\ audits'[d].marketer = audits[d].marketer
<1>1. /\ audits'[d].acquired = Acquired(Req(d), HasMarketer(k))
      /\ audits'[d].converted = Converted(i)
      /\ audits'[d].exists = audits[d].exists
      /\ audits'[d].marketer = audits[d].marketer
      /\ audits'[d].secured = audits[d].secured
  BY DEF TypeOK, SetFlags, AuditRecord
<1>2. Reports(d)' = Reports(d) /\ Successes(d)' = Successes(d) /\ Marketable(d)' = Marketable(d)
  BY DEF Reports, Matching, Successes, Marketable
<1>3. Acquired(Req(d), HasMarketer(k)) =>
        k # None /\ k \in Reports(d) /\ Req(d).operationType = "SUBSCRIPTION"
  BY MatchSays DEF Acquired
<1>4. Converted(i) => Successes(d) # {}
  BY MatchSays
<1> QED BY <1>1, <1>2, <1>3, <1>4 DEF RecordOK

\* A listener that ends or dies, whatever happens to the retry's turn.
LEMMA ListenerOver ==
  ASSUME TypeOK, NEW d \in Deliveries, run'[d] = Ended
  PROVE  ListenerOK(d)'
  BY DEF ListenerOK, Ended, NotStarted, None

\* A step of the delivery's own listener: Fresh holds because the listener has
\* started, and the retry's part because the step leaves the retry alone or
\* queues it.
LEMMA ListenerDelivery ==
  ASSUME TypeOK, TypeOK', NEW d \in Deliveries, DeliveryOK(d),
         ListenerStep(d) \/ AuditFails(d)
  PROVE  DeliveryOK(d)'
<1> USE DEF At, Goto, End
<1>a. Ended.pc = "done" /\ NotStarted.pc = "none"
  BY DEF Ended, NotStarted
<1>b. rows[d].state # "none" /\ run[d].pc # "none"
  <2>1. run[d].pc # "none"
    BY DEF ListenerStep, AuditFails, BuildContext, FindMatching, FindUser, CreateAuditRecord,
           QueueSecureDRetry, MarkAndCommit, WriteFlags, ReRead, GetPostback, NotePostback
  <2> QED BY <1>a, <2>1 DEF DeliveryOK, Fresh
<1>c. UNCHANGED secureD /\ Kept(d)
  <2>1. CASE UNCHANGED <<rows, secureD>>
    BY <2>1 DEF Kept
  <2>2. CASE MarkAndCommit(d)
    <3>1. PICK e \in Deliveries : rows' = [rows EXCEPT ![e].state = "processed"]
                                  /\ rows[e].state # "none"
      BY <2>2 DEF MarkAndCommit, DatasyncRows
    <3>2. rows \in [Deliveries -> Row]
      BY DEF TypeOK
    <3>3. rows'[d].req = rows[d].req /\ (rows'[d].state = "none" <=> rows[d].state = "none")
      BY <3>1, <3>2 DEF Row
    <3> QED BY <2>2, <3>3 DEF MarkAndCommit, Kept
  <2> QED BY <2>1, <2>2
       DEF ListenerStep, AuditFails, BuildContext, FindMatching, FindUser, CreateAuditRecord,
           QueueSecureDRetry, WriteFlags, ReRead, GetPostback, NotePostback
<1>d. /\ Req(d)' = Req(d) /\ Reports(d)' = Reports(d)
      /\ Successes(d)' = Successes(d) /\ (Marketable(d)' <=> Marketable(d))
      /\ Fresh(d)'
  BY <1>b, <1>c, Growth DEF Kept, Req, Reports, Matching, Successes, Marketable, Fresh
<1>e. run \in [Deliveries -> AuditRun] /\ audits \in [Deliveries -> AuditRecord]
      /\ retry \in [Deliveries -> RetryJob] /\ postbacks \in [Deliveries -> Nat]
  BY DEF TypeOK
<1>f. UNCHANGED audits => RecordOK(d)'
  BY <1>d DEF DeliveryOK, RecordOK
<1>g. UNCHANGED <<audits, retry>> => RetryOK(d)'
  BY <1>d DEF DeliveryOK, RetryOK, Held
<1>h. UNCHANGED <<audits, postbacks>> => PostbackOK(d)'
  BY <1>d DEF DeliveryOK, PostbackOK
<1>i. run'[d] = Ended => ListenerOK(d)'
  BY ListenerOver
<1>1. CASE BuildContext(d)
  <2>1. CASE End(d)
    BY <1>1, <1>d, <1>e, <1>f, <1>g, <1>h, <1>i, <2>1 DEF BuildContext, DeliveryOK
  <2>2. CASE ~End(d)
    <3>1. PICK i \in Reports(d) \cup {None}, c \in Comments :
            /\ run' = [run EXCEPT ![d].pc = "match", ![d].context = i, ![d].comment = c]
            /\ i # None => Req(d).viaSecureD /\ HasMarketer(i)
      BY <1>1, <2>2, Lookup DEF BuildContext, Comments
    <3>2. run'[d].pc = "match" /\ run'[d].context = i /\ run'[d].match = run[d].match
      BY <1>e, <3>1 DEF AuditRun
    <3>3. i # None => Marketable(d)
      BY <3>1, MatchSays
    <3>4. ListenerOK(d)'
      BY <1>1, <1>d, <3>1, <3>2, <3>3 DEF BuildContext, DeliveryOK, ListenerOK
    <3> QED BY <1>1, <1>d, <1>f, <1>g, <1>h, <3>4 DEF BuildContext, DeliveryOK
  <2> QED BY <2>1, <2>2
<1>2. CASE FindMatching(d)
  <2>1. CASE End(d)
    BY <1>2, <1>d, <1>e, <1>f, <1>g, <1>h, <1>i, <2>1 DEF FindMatching, DeliveryOK
  <2>2. CASE ~End(d)
    <3>1. PICK i \in Reports(d) \cup {None} :
            run' = [run EXCEPT ![d].match = i, ![d].pc = "user"]
      BY <1>2, <2>2, Lookup DEF FindMatching
    <3>2. run'[d].pc = "user" /\ run'[d].match = i /\ run'[d].context = run[d].context
      BY <1>e, <3>1 DEF AuditRun
    <3>3. ListenerOK(d)'
      BY <1>2, <1>d, <3>2 DEF FindMatching, DeliveryOK, ListenerOK
    <3> QED BY <1>2, <1>d, <1>f, <1>g, <1>h, <3>3 DEF FindMatching, DeliveryOK
  <2> QED BY <2>1, <2>2
<1>11. CASE FindUser(d)
  <2>1. CASE End(d)
    BY <1>11, <1>d, <1>e, <1>f, <1>g, <1>h, <1>i, <2>1 DEF FindUser, DeliveryOK
  <2>2. CASE ~End(d)
    <3>1. PICK pc \in {"create", "mark"} : run' = [run EXCEPT ![d].pc = pc]
      BY <1>11, <2>2 DEF FindUser, Unrecorded
    <3>2. run'[d].pc = pc /\ run'[d].match = run[d].match /\ run'[d].context = run[d].context
      BY <1>e, <3>1 DEF AuditRun
    <3>3. ListenerOK(d)'
      BY <1>11, <1>d, <3>2 DEF FindUser, DeliveryOK, ListenerOK
    <3> QED BY <1>11, <1>d, <1>f, <1>g, <1>h, <3>3 DEF FindUser, DeliveryOK
  <2> QED BY <2>1, <2>2
<1>3. CASE CreateAuditRecord(d)
  <2>1. CASE End(d)
    BY <1>3, <1>d, <1>e, <1>f, <1>g, <1>h, <1>i, <2>1 DEF CreateAuditRecord, DeliveryOK
  <2>2. CASE ~End(d)
    <3>1. PICK e \in Deliveries, pc \in {"queue", "mark"} :
            /\ run' = [run EXCEPT ![d].pc = pc, ![d].row = e]
            /\ pc = "queue" => Req(d).viaSecureD
      BY <1>3, <2>2 DEF CreateAuditRecord, DatasyncRows, NeedsRetry
    <3>2. /\ run'[d].pc = pc /\ run'[d].match = run[d].match
          /\ run'[d].context = run[d].context
      BY <1>e, <3>1 DEF AuditRun
    <3>3. ListenerOK(d)'
      BY <1>3, <1>d, <3>1, <3>2 DEF CreateAuditRecord, DeliveryOK, ListenerOK
    <3> QED BY <1>3, <1>d, <1>f, <1>g, <1>h, <3>3 DEF CreateAuditRecord, DeliveryOK
  <2> QED BY <2>1, <2>2
<1>4. CASE QueueSecureDRetry(d)
  <2>1. /\ run'[d].pc = "mark" /\ run'[d].match = run[d].match
        /\ run'[d].context = run[d].context
        /\ retry'[d].state = "waiting" /\ retry'[d].seen = None
    BY <1>4, <1>e DEF QueueSecureDRetry, AuditRun, NoJob
  <2>2. ListenerOK(d)'
    BY <1>4, <1>d, <2>1 DEF QueueSecureDRetry, DeliveryOK, ListenerOK
  <2>3. RetryOK(d)'
    BY <1>4, <1>d, <2>1 DEF QueueSecureDRetry, DeliveryOK, ListenerOK, RetryOK, Held
  <2> QED BY <1>4, <1>d, <1>f, <1>h, <2>2, <2>3 DEF QueueSecureDRetry, DeliveryOK
<1>5. CASE MarkAndCommit(d)
  <2>1. CASE run[d].row = None
    BY <1>5, <1>d, <1>e, <1>f, <1>g, <1>h, <1>i, <2>1 DEF MarkAndCommit, DeliveryOK
  <2>2. CASE run[d].row # None
    <3>1. /\ audits'[d] = NewAudit(d)
          /\ run'[d].pc = "flags" /\ run'[d].context = run[d].context
          /\ run'[d].match = run[d].match
      BY <1>5, <1>e, <2>2 DEF MarkAndCommit, AuditRun
    <3>2. /\ ~audits[d].exists
          /\ run[d].context \in Reports(d) \cup {None}
          /\ run[d].match \in Reports(d) \cup {None}
          /\ run[d].context # None => Req(d).viaSecureD /\ Marketable(d)
      BY <1>5 DEF MarkAndCommit, DeliveryOK, ListenerOK
    <3>3. /\ audits'[d].exists /\ ~audits'[d].acquired
          /\ audits'[d].marketer <=> run[d].context # None
          /\ audits'[d].secured = run[d].match
          /\ audits'[d].converted => Successes(d) # {}
      BY <3>1, <3>2, MatchSays DEF NewAudit
    <3>4. ListenerOK(d)'
      BY <1>d, <3>1, <3>2, <3>3 DEF ListenerOK
    <3>5. RecordOK(d)'
      BY <1>d, <3>2, <3>3 DEF RecordOK
    <3>6. RetryOK(d)'
      BY <1>5, <1>d, <3>2 DEF MarkAndCommit, DeliveryOK, RetryOK, Held
    <3>7. PostbackOK(d)'
      BY <1>5, <3>2 DEF MarkAndCommit, DeliveryOK, PostbackOK
    <3> QED BY <1>d, <3>4, <3>5, <3>6, <3>7 DEF DeliveryOK
  <2> QED BY <2>1, <2>2
<1>6. CASE WriteFlags(d)
  <2>1. /\ run[d].context \in Reports(d) \cup {None}
        /\ run[d].match \in Reports(d) \cup {None}
        /\ audits[d].exists
        /\ run[d].context # None => audits[d].marketer
    BY <1>6 DEF WriteFlags, DeliveryOK, ListenerOK
  <2>2. RecordOK(d)' /\ audits'[d].exists = audits[d].exists
        /\ audits'[d].marketer = audits[d].marketer
    BY <1>6, <1>d, <2>1, FlagsWritten DEF WriteFlags, DeliveryOK
  <2>3. run'[d].pc = "reread" /\ run'[d].context = None /\ run'[d].match = None
    BY <1>6, <1>e DEF WriteFlags, NotStarted
  <2>4. ListenerOK(d)'
    BY <2>1, <2>2, <2>3 DEF ListenerOK
  <2>5. RetryOK(d)' /\ PostbackOK(d)'
    BY <1>6, <1>d, <2>2 DEF WriteFlags, DeliveryOK, RetryOK, PostbackOK, Held
  <2> QED BY <1>d, <2>2, <2>4, <2>5 DEF DeliveryOK
<1>7. CASE ReRead(d)
  <2>1. CASE run'[d] = Ended
    BY <1>7, <1>d, <1>f, <1>g, <1>h, <1>i, <2>1 DEF ReRead, DeliveryOK
  <2>2. CASE run'[d] # Ended
    <3>1. /\ run'[d] = [NotStarted EXCEPT !.pc = "get", !.comment = audits[d].comment]
          /\ audits[d].marketer /\ audits[d].converted
      BY <1>7, <1>e, <2>2 DEF ReRead
    <3>2. run'[d].pc = "get" /\ run'[d].context = None /\ run'[d].match = None
      BY <3>1 DEF NotStarted
    <3>3. audits[d].exists
      BY <1>7 DEF ReRead, DeliveryOK, ListenerOK
    <3>4. ListenerOK(d)'
      BY <1>7, <1>d, <3>1, <3>2, <3>3 DEF ReRead, DeliveryOK, RecordOK, ListenerOK
    <3> QED BY <1>7, <1>d, <1>f, <1>g, <1>h, <3>4 DEF ReRead, DeliveryOK
  <2> QED BY <2>1, <2>2
<1>8. CASE GetPostback(d)
  <2>1. /\ run'[d].pc = "note" /\ run'[d].match = run[d].match
        /\ run'[d].context = run[d].context
    BY <1>8, <1>e DEF GetPostback, AuditRun
  <2>2. ListenerOK(d)' /\ PostbackOK(d)'
    BY <1>8, <1>d, <2>1 DEF GetPostback, DeliveryOK, ListenerOK, PostbackOK
  <2> QED BY <1>8, <1>d, <1>f, <1>g, <2>2 DEF GetPostback, DeliveryOK
<1>9. CASE NotePostback(d)
  <2>1. run'[d] = Ended /\ UNCHANGED <<retry, postbacks>>
        /\ \A f \in {"exists", "marketer", "converted", "acquired", "secured"} :
             audits'[d][f] = audits[d][f]
    BY <1>9, <1>e DEF NotePostback, AuditRecord
  <2>2. RecordOK(d)' /\ RetryOK(d)' /\ PostbackOK(d)'
    BY <1>d, <2>1 DEF DeliveryOK, RecordOK, RetryOK, PostbackOK, Held
  <2> QED BY <1>d, <1>i, <2>1, <2>2 DEF DeliveryOK
<1>10. CASE AuditFails(d)
  BY <1>10, <1>d, <1>e, <1>f, <1>g, <1>h, <1>i DEF AuditFails, DeliveryOK
<1> QED
  BY <1>1, <1>2, <1>3, <1>4, <1>5, <1>6, <1>7, <1>8, <1>9, <1>10, <1>11 DEF ListenerStep

\* A turn of the delivery's own retry, which leaves the listener alone.
LEMMA RetryDelivery ==
  ASSUME TypeOK, TypeOK', NEW d \in Deliveries, DeliveryOK(d),
         RetryStep(d) \/ RetryFails(d)
  PROVE  DeliveryOK(d)'
<1>a. rows[d].state # "none" /\ retry[d].state \notin {"none", "completed", "failed"}
  <2>1. retry[d].state \notin {"none", "completed", "failed"}
    BY DEF RetryStep, RetryFails, MayStart, FindSecureD, MissSecureD, LinkSecureD,
           WriteRetryFlags, GetRetryPostback, NoteRetryPostback
  <2> QED BY <2>1 DEF DeliveryOK, Fresh, NoJob
<1>b. UNCHANGED <<rows, secureD, run>>
  BY DEF RetryStep, RetryFails, FindSecureD, MissSecureD, LinkSecureD,
         WriteRetryFlags, GetRetryPostback, NoteRetryPostback
<1>c. /\ Req(d)' = Req(d) /\ Reports(d)' = Reports(d)
      /\ Successes(d)' = Successes(d) /\ (Marketable(d)' <=> Marketable(d))
      /\ Fresh(d)'
  BY <1>a, <1>b DEF Req, Reports, Matching, Successes, Marketable, Fresh
<1>d. audits \in [Deliveries -> AuditRecord] /\ retry \in [Deliveries -> RetryJob]
      /\ postbacks \in [Deliveries -> Nat]
  BY DEF TypeOK
\* The record keeps its existence and its marketer unless the step says otherwise.
<1>e. ASSUME audits'[d].exists = audits[d].exists, audits[d].marketer => audits'[d].marketer
      PROVE  ListenerOK(d)'
  BY <1>b, <1>c, <1>e DEF DeliveryOK, ListenerOK
<1>f. ASSUME audits'[d].exists = audits[d].exists, audits[d].marketer => audits'[d].marketer,
             UNCHANGED postbacks
      PROVE  PostbackOK(d)'
  BY <1>c, <1>f DEF DeliveryOK, PostbackOK
<1>g. ASSUME NEW c, audits' = [audits EXCEPT ![d].comment = c]
      PROVE  RecordOK(d)' /\ audits'[d].exists = audits[d].exists
             /\ audits'[d].marketer = audits[d].marketer
  <2>1. \A f \in {"exists", "marketer", "converted", "acquired", "secured"} :
          audits'[d][f] = audits[d][f]
    BY <1>d, <1>g DEF AuditRecord
  <2> QED BY <1>c, <2>1 DEF DeliveryOK, RecordOK
<1>h. UNCHANGED audits => RecordOK(d)'
  BY <1>c DEF DeliveryOK, RecordOK
<1>i. ASSUME retry' = [retry EXCEPT ![d] = Retried(retry[d])] PROVE RetryOK(d)'
  <2>1. retry'[d].state \in {"waiting", "failed"} /\ retry'[d].seen = None
    BY <1>d, <1>i DEF Retried, RetryJob
  <2> QED BY <1>a, <1>c, <2>1 DEF DeliveryOK, RetryOK, Held
<1>1. CASE FindSecureD(d)
  <2>1. retry'[d].state = "link" /\ retry'[d].seen \in Reports(d) /\ retry'[d].seen # None
    BY <1>1, <1>d, Lookup DEF FindSecureD, Reports, RetryJob
  <2>2. RetryOK(d)'
    BY <1>a, <1>c, <2>1 DEF DeliveryOK, RetryOK, Held
  <2> QED BY <1>1, <1>c, <1>e, <1>f, <1>h, <2>2 DEF FindSecureD, DeliveryOK
<1>2. CASE MissSecureD(d)
  <2>1. CASE UNCHANGED audits
    BY <1>2, <1>c, <1>e, <1>f, <1>h, <1>i, <2>1 DEF MissSecureD, DeliveryOK
  <2>2. CASE audits' = [audits EXCEPT ![d].comment = "missing"]
    BY <1>2, <1>c, <1>e, <1>f, <1>g, <1>i, <2>2 DEF MissSecureD, DeliveryOK
  <2> QED BY <1>2, <2>1, <2>2 DEF MissSecureD
<1>3. CASE LinkSecureD(d)
  <2>1. CASE ~audits[d].exists
    BY <1>3, <1>c, <1>e, <1>f, <1>h, <1>i, <2>1 DEF LinkSecureD, DeliveryOK
  <2>2. CASE audits[d].exists
    <3>1. /\ retry[d].seen \in Reports(d) /\ retry[d].seen # None /\ Req(d).viaSecureD
      BY <1>3 DEF LinkSecureD, DeliveryOK, RetryOK, Held
    <3>2. /\ audits'[d].exists
          /\ audits'[d].marketer <=> audits[d].marketer \/ Marketable(d)
          /\ audits'[d].secured = retry[d].seen
          /\ audits'[d].converted = audits[d].converted
          /\ audits'[d].acquired = audits[d].acquired
          /\ retry'[d].state = "flags" /\ retry'[d].seen = retry[d].seen
      <4>1. HasMarketer(retry[d].seen) <=> Marketable(d)
        BY <3>1, MatchSays
      <4>2. HasMarketer(retry[d].seen) \in BOOLEAN /\ audits[d].marketer \in BOOLEAN
        BY <1>d, <3>1, MatchSays DEF AuditRecord
      <4>3. audits'[d] = [audits[d] EXCEPT !.secured = retry[d].seen, !.comment = "attributed",
                            !.marketer = audits[d].marketer \/ HasMarketer(retry[d].seen)]
        BY <1>3, <1>d, <2>2 DEF LinkSecureD
      <4>4. retry'[d] = [retry[d] EXCEPT !.state = "flags"]
        BY <1>3, <1>d, <2>2 DEF LinkSecureD
      <4> QED BY <1>d, <2>2, <4>1, <4>2, <4>3, <4>4 DEF AuditRecord, RetryJob
    <3>3. RecordOK(d)'
      BY <1>c, <3>1, <3>2 DEF DeliveryOK, RecordOK
    <3>4. RetryOK(d)'
      BY <1>c, <3>1, <3>2 DEF RetryOK, Held
    <3> QED BY <1>3, <1>c, <1>e, <1>f, <2>2, <3>2, <3>3, <3>4 DEF LinkSecureD, DeliveryOK
  <2> QED BY <2>1, <2>2
<1>4. CASE WriteRetryFlags(d)
  <2>1. /\ retry[d].seen \in Reports(d) /\ retry[d].seen # None /\ audits[d].exists
        /\ Marketable(d) => audits[d].marketer
        /\ RecordOK(d)
    BY <1>4 DEF WriteRetryFlags, DeliveryOK, RetryOK, Held
  <2>2. HasMarketer(retry[d].seen) <=> Marketable(d)
    BY <2>1, MatchSays
  <2>3. RecordOK(d)' /\ audits'[d].exists = audits[d].exists
        /\ audits'[d].marketer = audits[d].marketer
    <3>1. CASE Marketable(d)
      BY <1>4, <1>b, <1>c, <2>1, <3>1, FlagsWritten DEF WriteRetryFlags
    <3>2. CASE ~Marketable(d)
      <4>1. HasMarketer(retry[d].seen) = HasMarketer(None)
        BY <2>2, <3>2, MatchSays, <2>1
      <4> QED BY <1>4, <1>b, <1>c, <2>1, <4>1, FlagsWritten DEF WriteRetryFlags
    <3> QED BY <3>1, <3>2
  <2>4. RetryOK(d)'
    <3>1. CASE PostsConversion(retry[d].seen)
      <4>1. retry'[d].state = "get" /\ retry'[d].seen = retry[d].seen
        BY <1>4, <1>d, <3>1 DEF WriteRetryFlags, RetryJob
      <4>2. Marketable(d) /\ Successes(d) # {}
        BY <2>1, <2>2, <3>1, MatchSays DEF PostsConversion
      <4> QED BY <1>4, <1>c, <2>1, <2>3, <4>1, <4>2 DEF WriteRetryFlags, DeliveryOK, RetryOK, Held
    <3>2. CASE ~PostsConversion(retry[d].seen)
      <4>1. retry'[d].state = "completed" /\ retry'[d].seen = None
        BY <1>4, <1>d, <3>2 DEF WriteRetryFlags, Completed, NoJob
      <4> QED BY <1>a, <1>c, <4>1 DEF DeliveryOK, RetryOK, Held
    <3> QED BY <3>1, <3>2
  <2> QED BY <1>4, <1>c, <1>e, <1>f, <2>3, <2>4 DEF WriteRetryFlags, DeliveryOK
<1>5. CASE GetRetryPostback(d)
  <2>1. retry'[d].state = "note" /\ retry'[d].seen = retry[d].seen
    BY <1>5, <1>d DEF GetRetryPostback, RetryJob
  <2>2. RetryOK(d)' /\ PostbackOK(d)'
    BY <1>5, <1>c, <2>1 DEF GetRetryPostback, DeliveryOK, RetryOK, PostbackOK, Held
  <2> QED BY <1>5, <1>c, <1>e, <1>h, <2>2 DEF GetRetryPostback, DeliveryOK
<1>6. CASE NoteRetryPostback(d)
  <2>1. retry'[d].state = "completed" /\ retry'[d].seen = None
    BY <1>6, <1>d DEF NoteRetryPostback, Completed, NoJob
  <2>2. RetryOK(d)'
    BY <1>a, <1>c, <2>1 DEF DeliveryOK, RetryOK, Held
  <2> QED BY <1>6, <1>c, <1>e, <1>f, <1>g, <2>2 DEF NoteRetryPostback, DeliveryOK
<1>7. CASE RetryFails(d)
  BY <1>7, <1>c, <1>e, <1>f, <1>h, <1>i DEF RetryFails, DeliveryOK
<1> QED BY <1>1, <1>2, <1>3, <1>4, <1>5, <1>6, <1>7 DEF RetryStep

\* A crash ends the started listeners and turns held jobs back.
LEMMA CrashDelivery ==
  ASSUME TypeOK, TypeOK', NEW d \in Deliveries, DeliveryOK(d), Crash
  PROVE  DeliveryOK(d)'
<1>a. Kept(d) /\ UNCHANGED <<audits, postbacks>>
      /\ Req(d)' = Req(d) /\ Reports(d)' = Reports(d)
      /\ Successes(d)' = Successes(d) /\ (Marketable(d)' <=> Marketable(d))
  BY DEF Crash, Kept, Req, Reports, Matching, Successes, Marketable
<1>b. /\ run'[d] = IF At(d, "none") THEN run[d] ELSE Ended
      /\ retry'[d] = Stalled(retry[d])
      /\ retry[d] \in RetryJob
  BY DEF Crash, TypeOK
<1>1. Fresh(d)'
  <2>1. ~Held(NoJob) /\ NotStarted.pc = "none"
    BY DEF Held, NoJob, NotStarted
  <2> QED BY <1>a, <1>b, <2>1 DEF Kept, DeliveryOK, Fresh, Stalled, At, NotStarted, NoJob, NoAudit, None
<1>2. ListenerOK(d)'
  <2>1. CASE run'[d] = run[d]
    BY <1>a, <2>1 DEF DeliveryOK, ListenerOK
  <2> QED BY <1>b, <2>1, ListenerOver
<1>3. RetryOK(d)'
  <2>1. CASE Held(retry[d])
    <3>1. retry'[d].state \in {"waiting", "failed"} /\ retry'[d].seen = None
      BY <1>b, <2>1 DEF Stalled, RetryJob
    <3> QED BY <1>a, <2>1, <3>1 DEF DeliveryOK, RetryOK, Held
  <2>2. CASE ~Held(retry[d])
    BY <1>a, <1>b, <2>2 DEF Stalled, DeliveryOK, RetryOK, Held
  <2> QED BY <2>1, <2>2
<1>4. RecordOK(d)' /\ PostbackOK(d)'
  BY <1>a DEF DeliveryOK, RecordOK, PostbackOK
<1> QED BY <1>1, <1>2, <1>3, <1>4 DEF DeliveryOK

\* A request that is stored now: nothing has happened for it.
LEMMA StoredDelivery ==
  ASSUME TypeOK, TypeOK', NEW d \in Deliveries, DeliveryOK(d),
         NEW q \in Requests, StoreDatasync(d, q)
  PROVE  DeliveryOK(d)'
<1>1. run[d] = NotStarted /\ audits[d] = NoAudit /\ retry[d] = NoJob /\ postbacks[d] = 0
  BY DEF StoreDatasync, DeliveryOK, Fresh
<1>2. rows'[d].state = "stored" /\ run'[d] = [NotStarted EXCEPT !.pc = "context"]
      /\ UNCHANGED <<audits, retry, postbacks>>
  BY <1>1 DEF StoreDatasync, TypeOK
<1> QED BY <1>1, <1>2
     DEF DeliveryOK, Fresh, ListenerOK, RecordOK, RetryOK, PostbackOK, NotStarted, NoAudit,
         NoJob, Held, None

\* What a listener does leaves the other deliveries alone, except that it may mark
\* another row of the same request.
LEMMA ListenerKeeps ==
  ASSUME TypeOK, NEW x \in Deliveries, NEW d \in Deliveries, x # d,
         ListenerStep(x) \/ AuditFails(x)
  PROVE  /\ Kept(d)
         /\ run'[d] = run[d] /\ audits'[d] = audits[d] /\ retry'[d] = retry[d]
         /\ postbacks'[d] = postbacks[d]
<1>1. /\ run'[d] = run[d] /\ audits'[d] = audits[d] /\ retry'[d] = retry[d]
      /\ postbacks'[d] = postbacks[d] /\ secureD' = secureD
  <2> USE DEF TypeOK, End, Goto, SetFlags
  <2>1. CASE BuildContext(x) \/ FindMatching(x) \/ FindUser(x) \/ CreateAuditRecord(x)
    BY <2>1 DEF BuildContext, FindMatching, FindUser, Unrecorded, CreateAuditRecord
  <2>2. CASE QueueSecureDRetry(x) \/ MarkAndCommit(x) \/ WriteFlags(x)
    BY <2>2 DEF QueueSecureDRetry, MarkAndCommit, WriteFlags
  <2>3. CASE ReRead(x) \/ GetPostback(x) \/ NotePostback(x) \/ AuditFails(x)
    BY <2>3 DEF ReRead, GetPostback, NotePostback, AuditFails
  <2> QED BY <2>1, <2>2, <2>3 DEF ListenerStep
<1>2. rows'[d].req = rows[d].req /\ (rows'[d].state = "none" <=> rows[d].state = "none")
  <2>1. CASE rows' = rows
    BY <2>1
  <2>2. CASE MarkAndCommit(x)
    <3>1. PICK e \in Deliveries : rows' = [rows EXCEPT ![e].state = "processed"]
                                  /\ rows[e].state # "none"
      BY <2>2 DEF MarkAndCommit, DatasyncRows
    <3>2. rows \in [Deliveries -> Row]
      BY DEF TypeOK
    <3> QED BY <3>1, <3>2 DEF Row
  <2> QED BY <2>1, <2>2
       DEF ListenerStep, AuditFails, BuildContext, FindMatching, FindUser, CreateAuditRecord,
           QueueSecureDRetry, WriteFlags, ReRead, GetPostback, NotePostback
<1> QED BY <1>1, <1>2 DEF Kept

LEMMA RetryKeeps ==
  ASSUME TypeOK, NEW x \in Deliveries, NEW d \in Deliveries, x # d,
         RetryStep(x) \/ RetryFails(x)
  PROVE  /\ Kept(d)
         /\ run'[d] = run[d] /\ audits'[d] = audits[d] /\ retry'[d] = retry[d]
         /\ postbacks'[d] = postbacks[d]
<1> USE DEF TypeOK, SetFlags, Kept
<1>1. CASE FindSecureD(x) \/ MissSecureD(x) \/ LinkSecureD(x)
  BY <1>1 DEF FindSecureD, MissSecureD, LinkSecureD
<1>2. CASE WriteRetryFlags(x) \/ GetRetryPostback(x) \/ NoteRetryPostback(x) \/ RetryFails(x)
  BY <1>2 DEF WriteRetryFlags, GetRetryPostback, NoteRetryPostback, RetryFails
<1> QED BY <1>1, <1>2 DEF RetryStep

LEMMA AuditStep ==
  ASSUME TypeOK, TypeOK', AuditInv, [Next]_vars
  PROVE  AuditInv'
<1> SUFFICES ASSUME NEW d \in Deliveries PROVE DeliveryOK(d)'
  BY DEF AuditInv
<1>a. DeliveryOK(d)
  BY DEF AuditInv
<1>b. /\ rows \in [Deliveries -> Row] /\ run \in [Deliveries -> AuditRun]
      /\ audits \in [Deliveries -> AuditRecord] /\ retry \in [Deliveries -> RetryJob]
      /\ postbacks \in [Deliveries -> Nat] /\ secureD \in Seq(SecureDRequests)
  BY DEF TypeOK
<1>1. ASSUME NEW x \in Deliveries, NEW q \in Requests, StoreDatasync(x, q)
      PROVE  DeliveryOK(d)'
  <2>1. CASE x = d
    BY <1>1, <1>a, <2>1, StoredDelivery
  <2>2. CASE x # d
    BY <1>1, <1>a, <1>b, <2>2, OtherDelivery DEF StoreDatasync, Kept
  <2> QED BY <2>1, <2>2
<1>2. ASSUME NEW x \in Deliveries, ListenerStep(x) \/ AuditFails(x)
      PROVE  DeliveryOK(d)'
  <2>1. CASE x = d
    BY <1>2, <1>a, <2>1, ListenerDelivery
  <2>2. CASE x # d
    BY <1>2, <1>a, <1>b, <2>2, OtherDelivery, ListenerKeeps
  <2> QED BY <2>1, <2>2
<1>3. ASSUME NEW x \in Deliveries, RetryStep(x) \/ RetryFails(x)
      PROVE  DeliveryOK(d)'
  <2>1. CASE x = d
    BY <1>3, <1>a, <2>1, RetryDelivery
  <2>2. CASE x # d
    BY <1>3, <1>a, <1>b, <2>2, OtherDelivery, RetryKeeps
  <2> QED BY <2>1, <2>2
<1>4. ASSUME NEW s \in SecureDRequests, ProcessNotification(s) PROVE DeliveryOK(d)'
  <2>1. \A i \in DOMAIN secureD : i \in DOMAIN secureD' /\ secureD'[i] = secureD[i]
    BY <1>4, <1>b DEF ProcessNotification
  <2>2. Kept(d) /\ UNCHANGED <<run, audits, retry, postbacks>>
    BY <1>4, <2>1 DEF ProcessNotification, Kept
  <2> QED BY <1>a, <2>2, OtherDelivery
<1>5. CASE Crash
  BY <1>5, <1>a, CrashDelivery
<1>6. CASE UNCHANGED vars
  BY <1>6, <1>a, OtherDelivery DEF vars, Kept
<1> QED BY <1>1, <1>2, <1>3, <1>4, <1>5, <1>6 DEF Next

LEMMA AuditInvariant == Spec => [](TypeOK /\ AuditInv)
<1>1. Init => TypeOK /\ AuditInv
  <2>1. Init => TypeOK
    BY RecordTypes, BoundsAssumption DEF Init, TypeOK, Row
  <2>2. Init => AuditInv
    BY DEF Init, AuditInv, DeliveryOK, Fresh, ListenerOK, RecordOK, RetryOK, PostbackOK,
           NotStarted, NoAudit, NoJob, Held, None
  <2> QED BY <2>1, <2>2
<1>2. TypeOK /\ AuditInv /\ [Next]_vars => (TypeOK /\ AuditInv)'
  BY TypeStep, AuditStep
<1> QED BY <1>1, <1>2, PTL DEF Spec

\* However listeners, retries, notifications and crashes interleave, a record says
\* of SecureD only what a notification for the very request said.
THEOREM RecordsSayWhatWasReported == Spec => []NoOverclaim
<1>1. AuditInv => NoOverclaim
  BY DEF AuditInv, DeliveryOK, RecordOK, NoOverclaim, Reports, Successes, Marketable, None
<1> QED BY <1>1, AuditInvariant, PTL

\* A marketer is told of a conversion only once the record is committed and
\* attributed, and only if a notification for that request reported success.
PostbackOnlyForConversion ==
  \A d \in Deliveries :
    postbacks[d] > 0 =>
      /\ audits[d].exists /\ audits[d].marketer
      /\ \E i \in Matching(Req(d)) : secureD[i].success

\* A marketer is never told of a conversion that no notification reported.
THEOREM OnlyConversionsArePosted == Spec => []PostbackOnlyForConversion
<1>1. AuditInv => PostbackOnlyForConversion
  BY DEF AuditInv, DeliveryOK, PostbackOK, PostbackOnlyForConversion, Reports, Successes
<1> QED BY <1>1, AuditInvariant, PTL

----------------------------------------------------------------------------
(* At most one postback by each of listener and retry.                     *)

LEMMA CountOther ==
  ASSUME TypeOK, NEW d \in Deliveries, CountOK(d),
         run'[d] = run[d], retry'[d] = retry[d], postbacks'[d] = postbacks[d],
         audits'[d].marketer = audits[d].marketer,
         d \in overtaken' <=> d \in overtaken, faults' \in Nat, faults <= faults'
  PROVE  CountOK(d)'
<1>1. faults \in Nat /\ postbacks[d] \in Nat
  BY DEF TypeOK
<1> QED BY <1>1 DEF CountOK, Told, RetryTold, At

LEMMA CountListener ==
  ASSUME TypeOK, TypeOK', NEW d \in Deliveries, DeliveryOK(d), CountOK(d),
         ListenerStep(d) \/ AuditFails(d)
  PROVE  CountOK(d)'
<1> USE DEF At, Goto, End
<1>a. /\ run \in [Deliveries -> AuditRun] /\ retry \in [Deliveries -> RetryJob]
      /\ audits \in [Deliveries -> AuditRecord]
      /\ postbacks \in [Deliveries -> Nat] /\ faults \in Nat
      /\ faults' \in Nat /\ postbacks'[d] \in Nat
  BY DEF TypeOK
<1>b. /\ UNCHANGED overtaken /\ faults <= faults'
  BY <1>a DEF ListenerStep, AuditFails, BuildContext, FindMatching, FindUser, CreateAuditRecord,
       QueueSecureDRetry, MarkAndCommit, WriteFlags, ReRead, GetPostback, NotePostback
<1>c. Ended.pc = "done"
  BY DEF Ended, NotStarted
\* The listener ends: what is still to come is the retry's.
<1>1. ASSUME run'[d].pc = "done", UNCHANGED <<retry, postbacks>>, run[d].pc # "none"
      PROVE  CountOK(d)'
  BY <1>a, <1>b, <1>1 DEF CountOK, Told, RetryTold
\* The listener goes on before its commit.
<1>2. ASSUME UNCHANGED <<retry, postbacks, audits, faults>>,
             run[d].pc \in {"context", "match", "user", "create"},
             run'[d].pc \in {"match", "user", "create", "queue", "mark"},
             run'[d].pc = "queue" => run'[d].context = None
      PROVE  CountOK(d)'
  BY <1>a, <1>b, <1>2 DEF CountOK, Told, RetryTold
<1>3. CASE BuildContext(d) \/ FindMatching(d) \/ FindUser(d) \/ CreateAuditRecord(d)
  <2>1. CASE End(d)
    BY <1>1, <1>3, <1>a, <1>c, <2>1 DEF BuildContext, FindMatching, FindUser, CreateAuditRecord
  <2>2. CASE BuildContext(d) /\ ~End(d)
    <3>1. run'[d].pc = "match"
      BY <1>a, <2>2 DEF BuildContext, AuditRun
    <3> QED BY <1>2, <2>2, <3>1 DEF BuildContext
  <2>3. CASE FindMatching(d) /\ ~End(d)
    <3>1. run[d].pc = "match" /\ run'[d].pc = "user"
          /\ UNCHANGED <<retry, postbacks, audits, overtaken>>
      BY <1>a, <2>3 DEF FindMatching, AuditRun
    <3> QED BY <1>a, <1>b, <3>1 DEF CountOK, Told, RetryTold
  <2>5. CASE FindUser(d) /\ ~End(d)
    <3>1. run[d].pc = "user" /\ run'[d].pc \in {"create", "mark"}
          /\ UNCHANGED <<retry, postbacks, audits, overtaken>>
      BY <1>a, <2>5 DEF FindUser, Unrecorded, AuditRun
    <3> QED BY <1>a, <1>b, <3>1 DEF CountOK, Told, RetryTold
  <2>4. CASE CreateAuditRecord(d) /\ ~End(d)
    <3>1. PICK e \in Deliveries, pc \in {"queue", "mark"} :
            /\ run' = [run EXCEPT ![d].pc = pc, ![d].row = e]
            /\ pc = "queue" => NeedsRetry(d)
      BY <2>4 DEF CreateAuditRecord, DatasyncRows
    <3>2. run'[d].pc = pc /\ run'[d].context = run[d].context
      BY <1>a, <3>1 DEF AuditRun
    <3>3. NeedsRetry(d) => run[d].context = None
      BY MatchSays DEF NeedsRetry, DeliveryOK, ListenerOK
    <3> QED BY <1>2, <2>4, <3>1, <3>2, <3>3 DEF CreateAuditRecord
  <2> QED BY <1>3, <2>1, <2>2, <2>3, <2>4, <2>5
<1>4. CASE QueueSecureDRetry(d)
  <2>1. /\ run'[d].pc = "mark" /\ run'[d].context = run[d].context
        /\ retry'[d].state = "waiting" /\ UNCHANGED <<postbacks, audits>>
    BY <1>4, <1>a DEF QueueSecureDRetry, AuditRun, NoJob
  <2>2. ~audits[d].marketer /\ postbacks[d] = 0
    <3>1. ~audits[d].exists
      BY <1>4 DEF QueueSecureDRetry, DeliveryOK, ListenerOK
    <3>2. postbacks[d] = 0
      BY <1>a, <3>1 DEF DeliveryOK, PostbackOK
    <3> QED BY <3>1, <3>2 DEF DeliveryOK, RecordOK
  <2> QED BY <1>4, <1>a, <1>b, <2>1, <2>2 DEF QueueSecureDRetry, CountOK, Told, RetryTold
<1>5. CASE MarkAndCommit(d)
  <2>1. CASE run[d].row = None
    BY <1>1, <1>5, <1>a, <1>c, <2>1 DEF MarkAndCommit
  <2>2. CASE run[d].row # None
    <3>1. /\ audits'[d] = NewAudit(d) /\ run'[d].pc = "flags"
          /\ UNCHANGED <<retry, postbacks, faults>>
      BY <1>5, <1>a, <2>2 DEF MarkAndCommit, AuditRun
    <3>2. retry[d].state # "none" => ~audits'[d].marketer
      <4>1. audits'[d].marketer = HasMarketer(run[d].context)
        BY <3>1 DEF NewAudit
      <4>2. retry[d].state # "none" => run[d].context = None
        BY <1>5 DEF MarkAndCommit, CountOK
      <4> QED BY <4>1, <4>2 DEF HasMarketer
    <3> QED BY <1>5, <1>a, <1>b, <3>1, <3>2 DEF MarkAndCommit, CountOK, Told, RetryTold
  <2> QED BY <2>1, <2>2
<1>6. CASE WriteFlags(d)
  <2>1. run'[d].pc = "reread" /\ audits'[d].marketer = audits[d].marketer
        /\ UNCHANGED <<retry, postbacks, faults>>
    BY <1>6, <1>a DEF WriteFlags, NotStarted, SetFlags, AuditRecord
  <2> QED BY <1>6, <1>a, <1>b, <2>1 DEF WriteFlags, CountOK, Told, RetryTold
<1>7. CASE ReRead(d)
  <2>1. CASE run'[d] = Ended
    BY <1>1, <1>7, <1>c, <2>1 DEF ReRead
  <2>2. CASE run'[d] # Ended
    <3>1. run' = [run EXCEPT ![d] = [NotStarted EXCEPT !.pc = "get", !.comment = audits[d].comment]]
      BY <1>7, <1>a, <2>2 DEF ReRead
    <3>2. run'[d].pc = "get"
      BY <1>a, <3>1 DEF NotStarted
    <3> QED BY <1>7, <1>a, <1>b, <3>2 DEF ReRead, CountOK, Told, RetryTold
  <2> QED BY <2>1, <2>2
<1>8. CASE GetPostback(d)
  <2>1. /\ run'[d].pc = "note" /\ postbacks'[d] = postbacks[d] + 1
        /\ UNCHANGED <<audits, retry, faults>>
    BY <1>8, <1>a DEF GetPostback, AuditRun
  <2>2. audits[d].marketer
    BY <1>8 DEF GetPostback, DeliveryOK, ListenerOK
  <2> QED BY <1>8, <1>a, <1>b, <2>1, <2>2 DEF GetPostback, CountOK, Told, RetryTold
<1>9. CASE NotePostback(d) \/ AuditFails(d)
  BY <1>1, <1>9, <1>a, <1>c DEF NotePostback, AuditFails
<1> QED BY <1>3, <1>4, <1>5, <1>6, <1>7, <1>8, <1>9 DEF ListenerStep

LEMMA CountRetry ==
  ASSUME TypeOK, TypeOK', NEW d \in Deliveries, DeliveryOK(d), CountOK(d),
         RetryStep(d) \/ RetryFails(d)
  PROVE  CountOK(d)'
<1> USE DEF At
<1>a. /\ retry \in [Deliveries -> RetryJob]
      /\ audits \in [Deliveries -> AuditRecord]
      /\ postbacks \in [Deliveries -> Nat] /\ faults \in Nat
      /\ faults' \in Nat /\ postbacks'[d] \in Nat
  BY DEF TypeOK
\* From its first turn on, either the listener is over or the retry overtook it.
<1>b. /\ UNCHANGED run /\ faults <= faults'
      /\ d \in overtaken => d \in overtaken'
      /\ run[d].pc = "done" \/ d \in overtaken'
      /\ retry[d].state \notin {"none", "completed", "failed"}
  <2>1. UNCHANGED run /\ faults <= faults'
    BY <1>a DEF RetryStep, RetryFails, FindSecureD, MissSecureD, LinkSecureD, WriteRetryFlags,
         GetRetryPostback, NoteRetryPostback
  <2>2. CASE FindSecureD(d) \/ MissSecureD(d)
    BY <2>1, <2>2 DEF FindSecureD, MissSecureD, OvertakenBy, MayStart
  <2>3. CASE ~(FindSecureD(d) \/ MissSecureD(d))
    <3>1. UNCHANGED overtaken /\ retry[d].state \in {"link", "flags", "get", "note"}
      BY <2>3 DEF RetryStep, RetryFails, LinkSecureD, WriteRetryFlags, GetRetryPostback,
           NoteRetryPostback
    <3> QED BY <2>1, <3>1 DEF CountOK
  <2> QED BY <2>2, <2>3
<1>1. /\ retry'[d].state # "none"
      /\ postbacks'[d] - postbacks[d] <= RetryTold(d)' - RetryTold(d)
  <2>1. CASE FindSecureD(d) \/ MissSecureD(d) \/ RetryFails(d) \/ LinkSecureD(d)
    <3>1. postbacks'[d] = postbacks[d] /\ retry'[d].state # "none"
          /\ retry[d].state \in {"waiting", "link", "flags"}
      <4>1. Retried(retry[d]).state \in {"waiting", "failed"}
        BY <1>a DEF Retried, RetryJob
      <4> QED BY <1>a, <2>1, <4>1
           DEF FindSecureD, MissSecureD, RetryFails, LinkSecureD, MayStart, RetryJob
    <3> QED BY <1>a, <3>1 DEF RetryTold
  <2>2. CASE WriteRetryFlags(d)
    BY <1>a, <2>2 DEF WriteRetryFlags, RetryTold, RetryJob, Completed, NoJob
  <2>3. CASE GetRetryPostback(d)
    BY <1>a, <2>3 DEF GetRetryPostback, RetryTold, RetryJob
  <2>4. CASE NoteRetryPostback(d)
    BY <1>a, <2>4 DEF NoteRetryPostback, RetryTold, Completed, NoJob
  <2> QED BY <2>1, <2>2, <2>3, <2>4 DEF RetryStep
<1>2. RetryTold(d) \in {0, 1} /\ RetryTold(d)' \in {0, 1} /\ Told(d) \in {0, 1}
      /\ Told(d)' = Told(d)
  BY <1>b DEF RetryTold, Told
<1>3. postbacks[d] <= Told(d) + RetryTold(d) + faults
  BY <1>a, <1>2, <1>b DEF CountOK
<1>4. ASSUME d \notin overtaken' PROVE postbacks[d] <= RetryTold(d) + faults
  BY <1>4, <1>b DEF CountOK
<1>5. /\ run[d].pc \notin {"none", "context", "match", "create", "queue"}
      /\ run[d].pc = "mark" => run[d].context = None
  BY <1>b DEF CountOK
<1>6. postbacks'[d] <= Told(d)' + RetryTold(d)' + faults'
  BY <1>a, <1>b, <1>1, <1>2, <1>3
<1>7. d \notin overtaken' => postbacks'[d] <= RetryTold(d)' + faults' /\ run'[d].pc = "done"
  BY <1>a, <1>b, <1>1, <1>2, <1>4
<1> QED BY <1>b, <1>1, <1>5, <1>6, <1>7 DEF CountOK

LEMMA CountCrash ==
  ASSUME TypeOK, NEW d \in Deliveries, CountOK(d), Crash
  PROVE  CountOK(d)'
<1>a. /\ retry[d] \in RetryJob /\ postbacks[d] \in Nat /\ faults \in Nat
      /\ faults' = faults + 1 /\ UNCHANGED <<audits, postbacks, overtaken>>
      /\ retry'[d] = Stalled(retry[d])
      /\ run'[d] = IF run[d].pc = "none" THEN run[d] ELSE Ended
  BY DEF Crash, TypeOK, At
<1>1. Ended.pc = "done"
  BY DEF Ended, NotStarted
<1>2. /\ retry'[d].state = "none" <=> retry[d].state = "none"
      /\ RetryTold(d) <= RetryTold(d)' + 1
      /\ Told(d) <= Told(d)'
      /\ RetryTold(d) \in {0, 1} /\ RetryTold(d)' \in {0, 1}
      /\ Told(d) \in {0, 1} /\ Told(d)' \in {0, 1}
  <2>1. retry[d].state = "none" <=> Stalled(retry[d]).state = "none"
    BY <1>a DEF Stalled, Held, RetryJob
  <2> QED BY <1>a, <1>1, <2>1 DEF RetryTold, Told
<1>3. CASE run[d].pc = "none"
  BY <1>3, <1>a, <1>2 DEF CountOK, At, Told
<1>4. CASE run[d].pc # "none"
  BY <1>4, <1>a, <1>1, <1>2 DEF CountOK, At
<1> QED BY <1>3, <1>4

LEMMA CountStep ==
  ASSUME TypeOK, TypeOK', AuditInv, CountInv, [Next]_vars
  PROVE  CountInv'
<1> SUFFICES ASSUME NEW d \in Deliveries PROVE CountOK(d)'
  BY DEF CountInv
<1>a. DeliveryOK(d) /\ CountOK(d)
  BY DEF AuditInv, CountInv
<1>b. faults \in Nat /\ faults' \in Nat
  BY DEF TypeOK
<1>1. ASSUME NEW x \in Deliveries, NEW q \in Requests, StoreDatasync(x, q)
      PROVE  CountOK(d)'
  <2>1. CASE x = d
    <3>1. /\ retry[d].state = "none" /\ run[d].pc = "none"
          /\ run'[d].pc = "context" /\ run'[d].context = run[d].context
      BY <1>1, <1>a, <2>1 DEF StoreDatasync, DeliveryOK, Fresh, NoJob, NotStarted, TypeOK, AuditRun
    <3>2. UNCHANGED <<retry, postbacks, overtaken>>
      BY <1>1 DEF StoreDatasync
    <3> QED BY <1>a, <3>1, <3>2 DEF CountOK, Told
  <2>2. CASE x # d
    BY <1>1, <1>a, <1>b, <2>2, CountOther DEF StoreDatasync, TypeOK
  <2> QED BY <2>1, <2>2
<1>2. ASSUME NEW x \in Deliveries, ListenerStep(x) \/ AuditFails(x)
      PROVE  CountOK(d)'
  <2>1. CASE x = d
    BY <1>2, <1>a, <2>1, CountListener
  <2>2. CASE x # d
    <3>1. UNCHANGED overtaken /\ faults <= faults'
      BY <1>2, <1>b DEF ListenerStep, AuditFails, BuildContext, FindMatching, FindUser, CreateAuditRecord,
           QueueSecureDRetry, MarkAndCommit, WriteFlags, ReRead, GetPostback, NotePostback
    <3> QED BY <1>2, <1>a, <1>b, <2>2, <3>1, CountOther, ListenerKeeps
  <2> QED BY <2>1, <2>2
<1>3. ASSUME NEW x \in Deliveries, RetryStep(x) \/ RetryFails(x)
      PROVE  CountOK(d)'
  <2>1. CASE x = d
    BY <1>3, <1>a, <2>1, CountRetry
  <2>2. CASE x # d
    <3>1. (d \in overtaken' <=> d \in overtaken) /\ faults <= faults'
      BY <1>3, <1>b, <2>2 DEF RetryStep, RetryFails, FindSecureD, MissSecureD, LinkSecureD,
           WriteRetryFlags, GetRetryPostback, NoteRetryPostback, OvertakenBy
    <3> QED BY <1>3, <1>a, <1>b, <2>2, <3>1, CountOther, RetryKeeps
  <2> QED BY <2>1, <2>2
<1>4. ASSUME NEW s \in SecureDRequests, ProcessNotification(s) PROVE CountOK(d)'
  BY <1>4, <1>a, <1>b, CountOther DEF ProcessNotification
<1>5. CASE Crash
  BY <1>5, <1>a, CountCrash
<1>6. CASE UNCHANGED vars
  BY <1>6, <1>a, <1>b, CountOther DEF vars
<1> QED BY <1>1, <1>2, <1>3, <1>4, <1>5, <1>6 DEF Next

\* Per record a marketer is told once; each crash may repeat it once, and so may a
\* retry that overtakes its listener.
THEOREM MarketerToldOnce == Spec => []PostbackOnce
<1>1. Init => CountInv
  BY DEF Init, CountInv, CountOK, Told, NotStarted, NoJob
<1>2. TypeOK /\ TypeOK' /\ AuditInv /\ CountInv /\ [Next]_vars => CountInv'
  BY CountStep
<1>3. TypeOK /\ CountInv => PostbackOnce
  <2> SUFFICES ASSUME TypeOK, CountInv, NEW d \in Deliveries
               PROVE  postbacks[d] <= (IF d \in overtaken THEN 2 ELSE 1) + faults
    BY DEF PostbackOnce
  <2>1. CountOK(d) /\ postbacks[d] \in Nat /\ faults \in Nat
    BY DEF CountInv, TypeOK
  <2> QED BY <2>1 DEF CountOK, Told, RetryTold
<1> QED BY <1>1, <1>2, <1>3, AuditInvariant, PTL DEF Spec

----------------------------------------------------------------------------
(* Records and rows: the row a listener inserts for, and later marks, is   *)
(* one of its request.                                                     *)

SameRequest(e, d) == e \in Deliveries /\ rows[e].state # "none" /\ Req(e) = Req(d)

\* A listener that went on without its user has only the marking before it.
Passing(l) == l.pc = "done" \/ (l.pc = "mark" /\ l.row = None)

RowsOK(d) ==
  /\ run[d].pc \in {"context", "match", "user"} => run[d].row = None
  /\ run[d].pc = "queue" => SameRequest(run[d].row, d)
  /\ /\ run[d].pc = "mark"
     /\ run[d].row # None \/ (Req(d).msisdn \in Subscribers /\ d \notin unseen)
     => SameRequest(run[d].row, d)
  /\ d \in unseen => Passing(run[d])
  /\ audits[d].exists => SameRequest(audits[d].row, d)

RowsInv == \A d \in Deliveries : RowsOK(d)

\* A stored row keeps its request.
Lasting ==
  \A e \in Deliveries :
    rows[e].state # "none" => rows'[e].state # "none" /\ Req(e)' = Req(e)

LEMMA RowsLast == ASSUME TypeOK, [Next]_vars PROVE Lasting
<1>a. rows \in [Deliveries -> Row]
  BY DEF TypeOK
<1>1. ASSUME NEW x \in Deliveries, NEW q \in Requests, StoreDatasync(x, q)
      PROVE  Lasting
  BY <1>1, <1>a DEF StoreDatasync, Lasting, Req
<1>2. ASSUME NEW x \in Deliveries, MarkAndCommit(x) PROVE Lasting
  <2>1. PICK e \in Deliveries : rows' = [rows EXCEPT ![e].state = "processed"]
    BY <1>2 DEF MarkAndCommit, DatasyncRows
  <2> QED BY <1>a, <2>1 DEF Lasting, Req, Row
<1>3. CASE UNCHANGED rows
  BY <1>3 DEF Lasting, Req
<1> QED
  BY <1>1, <1>2, <1>3
     DEF Next, vars, ListenerStep, RetryStep, BuildContext, FindMatching, FindUser, CreateAuditRecord,
         QueueSecureDRetry, WriteFlags, ReRead, GetPostback, NotePostback, AuditFails,
         FindSecureD, MissSecureD, LinkSecureD, WriteRetryFlags, GetRetryPostback,
         NoteRetryPostback, RetryFails, ProcessNotification, Crash

LEMMA SameRequestLasts ==
  ASSUME Lasting, NEW d \in Deliveries, rows[d].state # "none", NEW e, SameRequest(e, d)
  PROVE  SameRequest(e, d)'
  BY DEF Lasting, SameRequest

\* A record stays, and keeps its row; the commit alone makes one.
RecordsStay(d) ==
  \/ audits'[d].exists = audits[d].exists /\ audits'[d].row = audits[d].row
  \/ /\ MarkAndCommit(d) /\ run[d].row # None
     /\ audits'[d].exists /\ audits'[d].row = run[d].row

LEMMA RecordsLast ==
  ASSUME TypeOK, [Next]_vars, NEW d \in Deliveries
  PROVE  RecordsStay(d)
<1> USE DEF RecordsStay
<1>a. audits \in [Deliveries -> AuditRecord]
  BY DEF TypeOK
<1>1. CASE UNCHANGED audits
  BY <1>1
<1>2. ASSUME NEW x \in Deliveries, MarkAndCommit(x) PROVE RecordsStay(d)
  <2>1. CASE x = d /\ run[d].row # None
    <3>1. audits'[d] = NewAudit(d) /\ MarkAndCommit(d)
      BY <1>2, <1>a, <2>1 DEF MarkAndCommit
    <3>2. audits'[d].exists /\ audits'[d].row = run[d].row
      BY <3>1 DEF NewAudit
    <3> QED BY <2>1, <3>1, <3>2
  <2>2. CASE ~(x = d /\ run[d].row # None)
    BY <1>2, <1>a, <2>2 DEF MarkAndCommit
  <2> QED BY <2>1, <2>2
<1>3. ASSUME NEW x \in Deliveries, NEW m, NEW i, SetFlags(x, m, i) PROVE RecordsStay(d)
  BY <1>3, <1>a DEF SetFlags, AuditRecord
<1>4. ASSUME NEW x \in Deliveries, NEW c, audits' = [audits EXCEPT ![x].comment = c]
      PROVE  RecordsStay(d)
  BY <1>4, <1>a DEF AuditRecord
<1>5. ASSUME NEW x \in Deliveries, LinkSecureD(x) PROVE RecordsStay(d)
  BY <1>1, <1>5, <1>a DEF LinkSecureD, AuditRecord
<1> QED
  BY <1>1, <1>2, <1>3, <1>4, <1>5
     DEF Next, vars, ListenerStep, RetryStep, StoreDatasync, BuildContext, FindMatching, FindUser,
         CreateAuditRecord, QueueSecureDRetry, WriteFlags, ReRead, GetPostback,
         NotePostback, AuditFails, FindSecureD, MissSecureD, WriteRetryFlags,
         GetRetryPostback, NoteRetryPostback, RetryFails, ProcessNotification, Crash

\* The listener's row through a step.
RowCarried(d) ==
  \/ run'[d] = run[d]
  \/ run'[d].pc \notin {"context", "match", "user", "queue", "mark"}
  \/ /\ run'[d].pc \in {"context", "match", "user"}
     /\ run'[d].row = None
  \/ /\ run[d].pc = "queue" /\ run'[d].pc = "mark"
     /\ run'[d].row = run[d].row
  \/ /\ run[d].pc = "user" /\ run'[d].pc = "mark"
     /\ run'[d].row = None /\ (Req(d).msisdn \notin Subscribers \/ d \in unseen')
  \/ /\ run[d].pc = "create" /\ run'[d].pc \in {"queue", "mark"}
     /\ run'[d].row \in DatasyncRows(Req(d))

LEMMA ListenerRow ==
  ASSUME TypeOK, [Next]_vars, AuditInv, RowsInv, NEW d \in Deliveries
  PROVE  RowCarried(d)
<1> USE DEF RowCarried
<1>a. /\ run \in [Deliveries -> AuditRun]
      /\ RowsOK(d) /\ Fresh(d)
      /\ Ended.pc = "done" /\ NotStarted.pc = "none" /\ NotStarted.row = None
  BY DEF TypeOK, RowsInv, AuditInv, DeliveryOK, Ended, NotStarted
<1>1. CASE run'[d] = run[d]
  BY <1>1
<1>2. ASSUME NEW x \in Deliveries, End(x) PROVE RowCarried(d)
  BY <1>2, <1>a DEF End
<1>3. ASSUME NEW x \in Deliveries, NEW q \in Requests, StoreDatasync(x, q) PROVE RowCarried(d)
  BY <1>3, <1>a DEF StoreDatasync, Fresh, AuditRun
<1>4. ASSUME NEW x \in Deliveries, BuildContext(x), ~End(x) PROVE RowCarried(d)
  <2>1. PICK i, c : run' = [run EXCEPT ![x].pc = "match", ![x].context = i, ![x].comment = c]
    BY <1>4 DEF BuildContext
  <2>2. CASE x = d
    <3>1. run'[d].pc = "match" /\ run'[d].row = run[d].row
      BY <1>a, <2>1, <2>2 DEF AuditRun
    <3> QED BY <1>4, <1>a, <2>2, <3>1 DEF BuildContext, At, RowsOK
  <2> QED BY <1>a, <2>1, <2>2
<1>5. ASSUME NEW x \in Deliveries, FindMatching(x) PROVE RowCarried(d)
  <2>1. PICK i \in {None, Newest(Matching(Req(x)))} :
          run' = [run EXCEPT ![x].match = i, ![x].pc = "user"]
    BY <1>5 DEF FindMatching
  <2>2. CASE x = d
    <3>1. run'[d].pc = "user" /\ run'[d].row = run[d].row
      BY <1>a, <2>1, <2>2 DEF AuditRun
    <3> QED BY <1>5, <1>a, <2>2, <3>1 DEF FindMatching, At, RowsOK
  <2> QED BY <1>a, <2>1, <2>2
<1>12. ASSUME NEW x \in Deliveries, FindUser(x), ~End(x) PROVE RowCarried(d)
  <2>1. PICK pc \in {"create", "mark"} :
          /\ run' = [run EXCEPT ![x].pc = pc]
          /\ pc = "mark" => Req(x).msisdn \notin Subscribers \/ x \in unseen'
    BY <1>12 DEF FindUser, Unrecorded, Goto
  <2>2. CASE x = d
    <3>1. run'[d].pc = pc /\ run'[d].row = run[d].row
      BY <1>a, <2>1, <2>2 DEF AuditRun
    <3> QED BY <1>12, <1>a, <2>1, <2>2, <3>1 DEF FindUser, At, RowsOK
  <2> QED BY <1>a, <2>1, <2>2
<1>6. ASSUME NEW x \in Deliveries, CreateAuditRecord(x), ~End(x) PROVE RowCarried(d)
  <2>1. PICK e \in DatasyncRows(Req(x)), pc \in {"queue", "mark"} :
          run' = [run EXCEPT ![x].pc = pc, ![x].row = e]
    BY <1>6 DEF CreateAuditRecord
  <2>2. CASE x = d
    <3>1. run'[d].pc = pc /\ run'[d].row = e
      BY <1>a, <2>1, <2>2 DEF AuditRun
    <3> QED BY <1>6, <1>a, <2>1, <2>2, <3>1 DEF CreateAuditRecord, At
  <2> QED BY <1>a, <2>1, <2>2
<1>7. ASSUME NEW x \in Deliveries, QueueSecureDRetry(x) PROVE RowCarried(d)
  BY <1>7, <1>a DEF QueueSecureDRetry, At, Goto, AuditRun
<1>8. ASSUME NEW x \in Deliveries, MarkAndCommit(x), ~End(x) PROVE RowCarried(d)
  BY <1>8, <1>a DEF MarkAndCommit, AuditRun
<1>9. ASSUME NEW x \in Deliveries, WriteFlags(x) \/ (ReRead(x) /\ ~End(x)) \/ GetPostback(x)
      PROVE  RowCarried(d)
  BY <1>9, <1>a DEF WriteFlags, ReRead, GetPostback, Goto, NotStarted, AuditRun
<1>10. CASE Crash
  BY <1>10, <1>a DEF Crash
<1>11. CASE UNCHANGED run
  BY <1>1, <1>11
<1> QED
  BY <1>2, <1>3, <1>4, <1>5, <1>6, <1>7, <1>8, <1>9, <1>10, <1>11, <1>12
     DEF Next, vars, ListenerStep, RetryStep, NotePostback, AuditFails, FindSecureD,
         MissSecureD, LinkSecureD, WriteRetryFlags, GetRetryPostback, NoteRetryPostback,
         RetryFails, ProcessNotification

\* The listeners whose user's lookup failed: only that makes one, and only the
\* marking or a failure is still to come.
UnseenCarried(d) ==
  \/ d \in unseen /\ d \in unseen' /\ (run'[d] = run[d] \/ run'[d].pc = "done")
  \/ d \notin unseen /\ d \notin unseen'
  \/ /\ d \notin unseen /\ d \in unseen'
     /\ run[d].pc = "user" /\ run'[d].pc = "mark" /\ run'[d].row = None

LEMMA UnseenLast ==
  ASSUME TypeOK, [Next]_vars, AuditInv, RowsInv, NEW d \in Deliveries
  PROVE  UnseenCarried(d)
<1> USE DEF UnseenCarried
<1>a. /\ run \in [Deliveries -> AuditRun]
      /\ RowsOK(d) /\ Fresh(d)
      /\ Ended.pc = "done" /\ NotStarted.pc = "none"
  BY DEF TypeOK, RowsInv, AuditInv, DeliveryOK, Ended, NotStarted
<1>1. ASSUME NEW x \in Deliveries, FindUser(x) PROVE UnseenCarried(d)
  <2>1. CASE x = d
    <3>1. d \notin unseen /\ run[d].row = None /\ run[d].pc = "user"
      BY <1>1, <1>a, <2>1 DEF FindUser, At, RowsOK, Passing
    <3>2. CASE d \in unseen'
      <4>1. Goto(d, "mark")
        BY <1>1, <2>1, <3>1, <3>2 DEF FindUser, Unrecorded
      <4> QED BY <1>a, <3>1, <3>2, <4>1 DEF Goto, AuditRun
    <3> QED BY <3>1, <3>2
  <2>2. CASE x # d
    BY <1>1, <1>a, <2>2 DEF FindUser, Unrecorded, End, Goto
  <2> QED BY <2>1, <2>2
<1>2. ASSUME UNCHANGED unseen,
             d \in unseen => run'[d] = run[d] \/ run'[d].pc = "done"
      PROVE  UnseenCarried(d)
  BY <1>2
<1>3. ASSUME d \in unseen PROVE run[d].pc \in {"mark", "done"} /\ rows[d].state # "none"
  BY <1>3, <1>a DEF RowsOK, Passing, Fresh
<1>4. ASSUME NEW x \in Deliveries, NEW l, run' = [run EXCEPT ![x] = l],
             run[x].pc \notin {"mark", "done"} \/ l.pc = "done"
      PROVE  d \in unseen => run'[d] = run[d] \/ run'[d].pc = "done"
  BY <1>3, <1>4, <1>a
<1>5. ASSUME NEW x \in Deliveries, NEW q \in Requests, StoreDatasync(x, q)
      PROVE  UnseenCarried(d)
  BY <1>2, <1>3, <1>5, <1>a DEF StoreDatasync
<1>6. ASSUME NEW x \in Deliveries,
             \/ BuildContext(x) \/ FindMatching(x) \/ CreateAuditRecord(x)
             \/ QueueSecureDRetry(x) \/ WriteFlags(x) \/ ReRead(x) \/ GetPostback(x)
      PROVE  UnseenCarried(d)
  <2>1. run[x].pc \notin {"mark", "done"} /\ UNCHANGED unseen
    BY <1>6 DEF BuildContext, FindMatching, CreateAuditRecord, QueueSecureDRetry, WriteFlags,
                ReRead, GetPostback, At
  <2>2. CASE x = d
    BY <1>2, <1>3, <2>1, <2>2
  <2>3. CASE x # d
    <3>1. run'[d] = run[d]
      BY <1>6, <1>a, <2>3 DEF BuildContext, FindMatching, CreateAuditRecord, QueueSecureDRetry,
                WriteFlags, ReRead, GetPostback, End, Goto
    <3> QED BY <1>2, <2>1, <3>1
  <2> QED BY <2>2, <2>3
<1>7. ASSUME NEW x \in Deliveries, MarkAndCommit(x) PROVE UnseenCarried(d)
  <2>1. CASE x = d /\ d \in unseen
    <3>1. run[d].row = None
      BY <1>7, <1>a, <2>1 DEF RowsOK, Passing, MarkAndCommit, At
    <3>2. run'[d].pc = "done" /\ UNCHANGED unseen
      BY <1>7, <1>a, <2>1, <3>1 DEF MarkAndCommit, End
    <3> QED BY <1>2, <3>2
  <2>2. CASE x # d \/ d \notin unseen
    BY <1>2, <1>7, <1>a, <2>2 DEF MarkAndCommit, End
  <2> QED BY <2>1, <2>2
<1>8. ASSUME NEW x \in Deliveries, NotePostback(x) \/ AuditFails(x) PROVE UnseenCarried(d)
  BY <1>2, <1>8, <1>a DEF NotePostback, AuditFails, End
<1>9. CASE Crash
  BY <1>2, <1>9, <1>a DEF Crash
<1>10. CASE UNCHANGED <<run, unseen>>
  BY <1>2, <1>10
<1> QED
  BY <1>1, <1>5, <1>6, <1>7, <1>8, <1>9, <1>10
     DEF Next, vars, ListenerStep, RetryStep, FindSecureD, MissSecureD, LinkSecureD,
         WriteRetryFlags, GetRetryPostback, NoteRetryPostback, RetryFails,
         ProcessNotification

LEMMA RowsStep ==
  ASSUME TypeOK, TypeOK', AuditInv, RowsInv, [Next]_vars
  PROVE  RowsInv'
<1> SUFFICES ASSUME NEW d \in Deliveries PROVE RowsOK(d)'
  BY DEF RowsInv
<1>a. RowsOK(d) /\ Fresh(d) /\ Lasting
  BY RowsLast DEF RowsInv, AuditInv, DeliveryOK
<1>b. rows[d].state = "none" =>
        run[d].pc = "none" /\ ~audits[d].exists
  BY <1>a DEF Fresh, NotStarted, NoAudit
<1>c. ASSUME NEW e, rows[d].state # "none", SameRequest(e, d) PROVE SameRequest(e, d)'
  BY <1>a, <1>c, SameRequestLasts
<1>1. ASSUME audits'[d].exists PROVE SameRequest(audits[d].row, d)'
  <2>1. PICK e : e = audits'[d].row
    OBVIOUS
  <2>2. rows[d].state # "none" /\ SameRequest(e, d)
    <3>1. CASE audits[d].exists /\ audits'[d].row = audits[d].row
      BY <1>a, <1>b, <2>1, <3>1 DEF RowsOK
    <3>2. CASE MarkAndCommit(d) /\ run[d].row # None /\ audits'[d].row = run[d].row
      BY <1>a, <1>b, <2>1, <3>2 DEF RowsOK, MarkAndCommit, At
    <3> QED BY <1>1, <3>1, <3>2, RecordsLast DEF RecordsStay
  <2>3. SameRequest(e, d)'
    BY <1>c, <2>2
  <2> QED BY <2>1, <2>3 DEF SameRequest
<1>2. run'[d].pc \in {"context", "match", "user"} => run'[d].row = None
  BY <1>a, ListenerRow DEF RowCarried, RowsOK
<1>3. ASSUME \/ run'[d].pc = "queue"
             \/ /\ run'[d].pc = "mark"
                /\ run'[d].row # None \/ (Req(d)'.msisdn \in Subscribers /\ d \notin unseen')
      PROVE  SameRequest(run[d].row, d)'
  <2>1. rows[d].state # "none" /\ Req(d)' = Req(d)
    <3>1. run[d].pc # "none"
      BY <1>3, ListenerRow DEF RowCarried
    <3> QED BY <1>a, <1>b, <3>1 DEF Lasting
  <2>2. PICK e : e = run'[d].row
    OBVIOUS
  <2>3. SameRequest(e, d)
    BY <1>3, <1>a, <2>1, <2>2, ListenerRow, UnseenLast
       DEF RowCarried, UnseenCarried, RowsOK, DatasyncRows, SameRequest
  <2>4. SameRequest(e, d)'
    BY <1>c, <2>1, <2>3
  <2> QED BY <2>2, <2>4 DEF SameRequest
<1>4. d \in unseen' => Passing(run[d])'
  BY <1>a, UnseenLast DEF UnseenCarried, RowsOK, Passing
<1> QED BY <1>1, <1>2, <1>3, <1>4 DEF RowsOK

LEMMA RowsInvariant == Spec => []RowsInv
<1>1. Init => RowsInv
  BY DEF Init, RowsInv, RowsOK, NotStarted, NoAudit
<1>2. TypeOK /\ TypeOK' /\ AuditInv /\ RowsInv /\ [Next]_vars => RowsInv'
  BY RowsStep
<1> QED BY <1>1, <1>2, AuditInvariant, PTL DEF Spec

MarkedRows(q)  == {d \in Deliveries : rows[d].state = "processed" /\ Req(d) = q}
AuditedRows(q) == {d \in Deliveries : audits[d].exists /\ Req(d) = q}
UnseenRows(q)  == {d \in unseen : Req(d) = q}

\* The deliveries that account for a marked row: by a record, or because their
\* listener has gone on without its user and is past the marking.
Accounts(d) == audits[d].exists \/ (d \in unseen /\ run[d].pc # "mark")
Accounted(q) == {d \in Deliveries : Accounts(d) /\ Req(d) = q}

LEMMA FiniteRows ==
  ASSUME NEW q
  PROVE  /\ IsFiniteSet(MarkedRows(q)) /\ IsFiniteSet(Accounted(q))
         /\ Cardinality(MarkedRows(q)) \in Nat /\ Cardinality(Accounted(q)) \in Nat
<1>1. MarkedRows(q) \subseteq Deliveries /\ Accounted(q) \subseteq Deliveries
  BY DEF MarkedRows, Accounted
<1>2. IsFiniteSet(MarkedRows(q)) /\ IsFiniteSet(Accounted(q))
  BY <1>1, BoundsAssumption, FS_Subset
<1> QED BY <1>2, FS_CardinalityType

LEMMA AccountedOnce ==
  ASSUME TypeOK, NEW q
  PROVE  Cardinality(Accounted(q)) <= Cardinality(AuditedRows(q)) + Cardinality(UnseenRows(q))
<1>1. /\ AuditedRows(q) \subseteq Deliveries /\ UnseenRows(q) \subseteq Deliveries
      /\ Accounted(q) \subseteq AuditedRows(q) \cup UnseenRows(q)
  BY DEF TypeOK, AuditedRows, UnseenRows, Accounted, Accounts
<1>2. IsFiniteSet(AuditedRows(q)) /\ IsFiniteSet(UnseenRows(q))
  BY <1>1, BoundsAssumption, FS_Subset
<1>3. /\ IsFiniteSet(AuditedRows(q) \cup UnseenRows(q))
      /\ IsFiniteSet(AuditedRows(q) \cap UnseenRows(q))
      /\ Cardinality(AuditedRows(q) \cup UnseenRows(q)) =
           Cardinality(AuditedRows(q)) + Cardinality(UnseenRows(q))
             - Cardinality(AuditedRows(q) \cap UnseenRows(q))
  BY <1>2, FS_Union, FS_Intersection
<1>4. Cardinality(Accounted(q)) <= Cardinality(AuditedRows(q) \cup UnseenRows(q))
  BY <1>1, <1>3, FS_Subset
<1>5. /\ Cardinality(AuditedRows(q)) \in Nat /\ Cardinality(UnseenRows(q)) \in Nat
      /\ Cardinality(AuditedRows(q) \cap UnseenRows(q)) \in Nat
      /\ Cardinality(Accounted(q)) \in Nat
  BY <1>2, <1>3, FiniteRows, FS_CardinalityType
<1> QED BY <1>3, <1>4, <1>5

LEMMA AccountedLast ==
  ASSUME TypeOK, AuditInv, RowsInv, [Next]_vars, NEW q
  PROVE  Accounted(q) \subseteq Accounted(q)'
<1> SUFFICES ASSUME NEW d \in Accounted(q) PROVE d \in Accounted(q)'
  OBVIOUS
<1>1. d \in Deliveries /\ Accounts(d) /\ Req(d) = q
  BY DEF Accounted
<1>2. rows[d].state # "none"
  BY <1>1 DEF Accounts, AuditInv, DeliveryOK, RowsInv, RowsOK, Passing, Fresh, NoAudit, NotStarted
<1>3. Accounts(d)'
  <2>1. CASE audits[d].exists
    BY <1>1, <2>1, RecordsLast DEF RecordsStay, Accounts
  <2>2. CASE d \in unseen /\ run[d].pc # "mark"
    BY <1>1, <2>2, UnseenLast DEF UnseenCarried, Accounts
  <2> QED BY <1>1, <2>1, <2>2 DEF Accounts
<1>4. Req(d)' = Req(d)
  BY <1>1, <1>2, RowsLast DEF Lasting
<1> QED BY <1>1, <1>3, <1>4 DEF Accounted

LEMMA NothingMarked ==
  ASSUME TypeOK, [Next]_vars, NEW q, \A x \in Deliveries : ~MarkAndCommit(x)
  PROVE  MarkedRows(q)' = MarkedRows(q)
<1>1. ASSUME NEW x \in Deliveries, NEW r \in Requests, StoreDatasync(x, r)
      PROVE  MarkedRows(q)' = MarkedRows(q)
  BY <1>1 DEF StoreDatasync, MarkedRows, Req, TypeOK, Row
<1>2. CASE UNCHANGED rows
  BY <1>2 DEF MarkedRows, Req
<1> QED
  BY <1>1, <1>2
     DEF Next, vars, ListenerStep, RetryStep, BuildContext, FindMatching, FindUser, CreateAuditRecord,
         QueueSecureDRetry, WriteFlags, ReRead, GetPostback, NotePostback, AuditFails,
         FindSecureD, MissSecureD, LinkSecureD, WriteRetryFlags, GetRetryPostback,
         NoteRetryPostback, RetryFails, ProcessNotification, Crash

\* With duplicates, aborted transactions and crashes, no more rows of a subscriber's
\* request are marked than there are records for it and deliveries of it whose failed
\* lookup of the user passed for a missing one.
THEOREM MarkedRowsAreAudited == Spec => []ProcessedMeansAudited
<1> DEFINE Enough == \A q \in Requests : q.msisdn \in Subscribers =>
                       Cardinality(MarkedRows(q)) <= Cardinality(Accounted(q))
<1>1. Init => Enough
  <2> SUFFICES ASSUME Init, NEW q \in Requests
               PROVE  Cardinality(MarkedRows(q)) <= Cardinality(Accounted(q))
    OBVIOUS
  <2>1. MarkedRows(q) = {} /\ Accounted(q) = {}
    BY DEF Init, MarkedRows, Accounted, Accounts, NoAudit
  <2> QED BY <2>1, FS_EmptySet
<1>2. TypeOK /\ AuditInv /\ RowsInv /\ Enough /\ [Next]_vars => Enough'
  <2> SUFFICES ASSUME TypeOK, AuditInv, RowsInv, Enough, [Next]_vars,
                      NEW q \in Requests, q.msisdn \in Subscribers
               PROVE  Cardinality(MarkedRows(q)') <= Cardinality(Accounted(q)')
    OBVIOUS
  <2>a. /\ Cardinality(MarkedRows(q)) <= Cardinality(Accounted(q))
        /\ IsFiniteSet(MarkedRows(q)) /\ IsFiniteSet(Accounted(q))
        /\ Cardinality(MarkedRows(q)) \in Nat /\ Cardinality(Accounted(q)) \in Nat
    BY FiniteRows
  <2>b. IsFiniteSet(MarkedRows(q)') /\ IsFiniteSet(Accounted(q)')
        /\ Cardinality(MarkedRows(q)') \in Nat /\ Cardinality(Accounted(q)') \in Nat
    <3>1. MarkedRows(q)' \subseteq Deliveries /\ Accounted(q)' \subseteq Deliveries
      BY DEF MarkedRows, Accounted
    <3>2. IsFiniteSet(MarkedRows(q)') /\ IsFiniteSet(Accounted(q)')
      BY <3>1, BoundsAssumption, FS_Subset
    <3> QED BY <3>2, FS_CardinalityType
  <2>c. Accounted(q) \subseteq Accounted(q)'
        /\ Cardinality(Accounted(q)) <= Cardinality(Accounted(q)')
    BY <2>b, AccountedLast, FS_Subset
  <2>1. CASE \A x \in Deliveries : ~MarkAndCommit(x)
    <3>1. MarkedRows(q)' = MarkedRows(q)
      BY <2>1, NothingMarked
    <3> QED BY <2>a, <2>b, <2>c, <3>1
  <2>2. ASSUME NEW x \in Deliveries, MarkAndCommit(x)
        PROVE  Cardinality(MarkedRows(q)') <= Cardinality(Accounted(q)')
    <3>1. PICK e \in Deliveries : /\ rows' = [rows EXCEPT ![e].state = "processed"]
                                  /\ Req(e) = Req(x)
      BY <2>2 DEF MarkAndCommit, DatasyncRows
    <3>2. \A d \in Deliveries : /\ Req(d)' = Req(d)
                                /\ d # e => rows'[d].state = rows[d].state
      BY <3>1 DEF Req, TypeOK, Row
    <3>3. CASE Req(x) # q
      <4>1. MarkedRows(q)' \subseteq MarkedRows(q)
        BY <3>1, <3>2, <3>3 DEF MarkedRows
      <4>2. Cardinality(MarkedRows(q)') <= Cardinality(MarkedRows(q))
        BY <2>a, <4>1, FS_Subset
      <4> QED BY <2>a, <2>b, <2>c, <4>2
    <3>4. CASE Req(x) = q
      <4>1. /\ At(x, "mark") /\ ~audits[x].exists
            /\ run[x].row # None \/ x \in unseen
        BY <2>2, <3>4, BoundsAssumption
           DEF MarkAndCommit, At, RowsInv, RowsOK, SameRequest, AuditInv, DeliveryOK, ListenerOK
      <4>2. Accounts(x)'
        <5>1. CASE run[x].row # None
          BY <2>2, <5>1 DEF MarkAndCommit, NewAudit, TypeOK, Accounts
        <5>2. CASE run[x].row = None
          BY <2>2, <4>1, <5>2, RecordTypes DEF MarkAndCommit, End, TypeOK, Accounts
        <5> QED BY <5>1, <5>2
      <4>3. x \notin Accounted(q) /\ x \in Accounted(q)'
        BY <3>2, <3>4, <4>1, <4>2 DEF Accounted, Accounts, At
      <4>4. MarkedRows(q)' \subseteq MarkedRows(q) \cup {e}
        BY <3>2 DEF MarkedRows
      <4>5. /\ IsFiniteSet(MarkedRows(q) \cup {e})
            /\ Cardinality(MarkedRows(q) \cup {e}) <= Cardinality(MarkedRows(q)) + 1
        <5>1. /\ IsFiniteSet(MarkedRows(q) \cup {e})
              /\ \/ Cardinality(MarkedRows(q) \cup {e}) = Cardinality(MarkedRows(q))
                 \/ Cardinality(MarkedRows(q) \cup {e}) = Cardinality(MarkedRows(q)) + 1
          BY <2>a, FS_AddElement, ZenonT(20)
        <5> QED BY <2>a, <5>1
      <4>6. Cardinality(MarkedRows(q)') <= Cardinality(MarkedRows(q)) + 1
        <5>1. Cardinality(MarkedRows(q)') <= Cardinality(MarkedRows(q) \cup {e})
          BY <4>4, <4>5, FS_Subset
        <5>2. Cardinality(MarkedRows(q) \cup {e}) \in Nat
          BY <4>5, FS_CardinalityType
        <5> QED BY <2>a, <2>b, <4>5, <5>1, <5>2
      <4>7. Cardinality(Accounted(q) \cup {x}) = Cardinality(Accounted(q)) + 1
        BY <2>a, <4>3, FS_AddElement
      <4>8. Cardinality(Accounted(q) \cup {x}) <= Cardinality(Accounted(q)')
        <5>1. Accounted(q) \cup {x} \subseteq Accounted(q)'
          BY <2>c, <4>3
        <5> QED BY <2>b, <5>1, FS_Subset
      <4> QED BY <2>a, <2>b, <4>6, <4>7, <4>8
    <3> QED BY <3>3, <3>4
  <2> QED BY <2>1, <2>2
<1>3. TypeOK /\ Enough => ProcessedMeansAudited
  <2> SUFFICES ASSUME TypeOK, Enough, NEW q \in Requests, q.msisdn \in Subscribers
               PROVE  Cardinality(MarkedRows(q))
                        <= Cardinality(AuditedRows(q)) + Cardinality(UnseenRows(q))
    <3>1. \A q \in Requests :
            /\ MarkedRows(q) =
                 {d \in {e \in Deliveries : rows[e].state = "processed"} : Req(d) = q}
            /\ AuditedRows(q) = {d \in {e \in Deliveries : audits[e].exists} : Req(d) = q}
            /\ UnseenRows(q) = {d \in unseen : Req(d) = q}
      BY DEF MarkedRows, AuditedRows, UnseenRows
    <3> QED BY <3>1 DEF ProcessedMeansAudited
  <2>1. Cardinality(MarkedRows(q)) <= Cardinality(Accounted(q))
    OBVIOUS
  <2>2. /\ AuditedRows(q) \subseteq Deliveries /\ UnseenRows(q) \subseteq Deliveries
    BY DEF AuditedRows, UnseenRows, TypeOK
  <2>3. Cardinality(AuditedRows(q)) \in Nat /\ Cardinality(UnseenRows(q)) \in Nat
    BY <2>2, BoundsAssumption, FS_Subset, FS_CardinalityType
  <2> HIDE DEF Enough
  <2> QED BY <2>1, <2>3, AccountedOnce, FiniteRows
<1> HIDE DEF Enough
<1> QED BY <1>1, <1>2, <1>3, AuditInvariant, RowsInvariant, PTL DEF Spec

----------------------------------------------------------------------------
(***************************************************************************)
(* Flags. As long as no fault struck and the retry did not overtake the    *)
(* listener, the flags agree with the links, but between the commit and    *)
(* the listener's update and between the retry's two updates; there the    *)
(* links are those the flags are about to be computed from.                *)
(***************************************************************************)

Agrees(d) ==
  LET a == audits[d] IN
  /\ a.converted = (a.secured # None /\ secureD[a.secured].success)
  /\ a.acquired = (Req(d).operationType = "SUBSCRIPTION" /\ a.marketer /\ a.secured # None)
  /\ a.churned = (Req(d).operationType = "UNSUBSCRIPTION")

FlagsOK(d) ==
  faults = 0 =>
    /\ run[d].pc \in {"user", "create", "queue", "mark", "flags"} /\ run[d].context # None
         => run[d].match # None
    /\ d \notin overtaken /\ audits[d].exists =>
         /\ run[d].pc = "flags" => /\ audits[d].marketer = HasMarketer(run[d].context)
                                   /\ audits[d].secured = run[d].match
         /\ run[d].pc # "flags" /\ retry[d].state # "flags" => Agrees(d)
         /\ retry[d].state = "flags" => audits[d].secured = retry[d].seen

FlagsInv == \A d \in Deliveries : FlagsOK(d)

\* A step of another delivery.
LEMMA FlagsOther ==
  ASSUME TypeOK, TypeOK', NEW d \in Deliveries, DeliveryOK(d), FlagsOK(d), Kept(d),
         run'[d] = run[d], audits'[d] = audits[d], retry'[d] = retry[d],
         d \in overtaken' <=> d \in overtaken, faults <= faults'
  PROVE  FlagsOK(d)'
<1>1. faults' = 0 => faults = 0
  BY DEF TypeOK
<1>2. Req(d)' = Req(d)
  BY Growth
<1>3. /\ audits[d].secured # None => secureD'[audits[d].secured] = secureD[audits[d].secured]
      /\ run[d].context # None => secureD'[run[d].context] = secureD[run[d].context]
  <2>1. \A i \in Reports(d) : secureD'[i] = secureD[i]
    BY DEF Reports, Matching, Kept
  <2> QED BY <2>1 DEF DeliveryOK, ListenerOK, RecordOK
<1>4. Agrees(d) => Agrees(d)'
  BY <1>2, <1>3 DEF Agrees
<1>5. HasMarketer(run[d].context) = HasMarketer(run[d].context)'
  BY <1>3 DEF HasMarketer
<1> QED BY <1>1, <1>4, <1>5 DEF FlagsOK

\* The record of an attributed subscription is found by the search for one.
LEMMA AcquiredHere ==
  ASSUME TypeOK, NEW d \in Deliveries, DeliveryOK(d), RowsOK(d), audits[d].exists,
         audits[d].marketer => Req(d).viaSecureD, NEW marketed \in BOOLEAN,
         marketed <=> audits[d].marketer
  PROVE  marketed /\ audits[d].secured # None /\ Req(d).operationType = "SUBSCRIPTION"
           => Acquired(Req(d), marketed)
<1>1. SameRequest(audits[d].row, d) /\ audits[d].secured \in Reports(d) \cup {None}
  BY DEF RowsOK, DeliveryOK, RecordOK
<1> QED BY <1>1 DEF Acquired, SameRequest, Reports, Matching

\* Flags computed from the notification the record is linked to agree with it.
LEMMA FlagsComputed ==
  ASSUME TypeOK, NEW d \in Deliveries, DeliveryOK(d), RowsOK(d), audits[d].exists,
         UNCHANGED secureD, Req(d)' = Req(d),
         NEW m \in BOOLEAN, SetFlags(d, m, audits[d].secured),
         m => audits[d].marketer,
         audits[d].marketer /\ audits[d].secured # None => m,
         m => audits[d].secured # None
  PROVE  Agrees(d)'
<1>1. /\ audits'[d].acquired = Acquired(Req(d), m)
      /\ audits'[d].churned = Churned(Req(d))
      /\ audits'[d].converted = Converted(audits[d].secured)
      /\ audits'[d].marketer = audits[d].marketer
      /\ audits'[d].secured = audits[d].secured
  BY DEF TypeOK, SetFlags, AuditRecord
<1>2. audits[d].marketer => Req(d).viaSecureD
  BY DEF DeliveryOK, RecordOK
<1>3. Acquired(Req(d), m) \in BOOLEAN /\ audits[d].marketer \in BOOLEAN
      /\ Converted(audits[d].secured) \in BOOLEAN
  <2>1. audits[d].secured # None => secureD[audits[d].secured].success \in BOOLEAN
    BY RequestsAssumption DEF DeliveryOK, RecordOK, Reports, Matching, TypeOK
  <2> QED BY <2>1 DEF Acquired, Converted, TypeOK, AuditRecord
<1>4. Acquired(Req(d), m) <=> /\ Req(d).operationType = "SUBSCRIPTION"
                              /\ audits[d].marketer /\ audits[d].secured # None
  <2>1. CASE m
    <3>1. m /\ audits[d].secured # None /\ Req(d).operationType = "SUBSCRIPTION"
            => Acquired(Req(d), m)
      BY <1>2, <2>1, AcquiredHere
    <3> QED BY <2>1, <3>1 DEF Acquired
  <2>2. CASE ~m
    BY <2>2 DEF Acquired
  <2> QED BY <2>1, <2>2
<1>5. Agrees(d)' <=>
        /\ audits'[d].converted = (audits[d].secured # None /\ secureD[audits[d].secured].success)
        /\ audits'[d].acquired = (/\ Req(d).operationType = "SUBSCRIPTION"
                                  /\ audits[d].marketer /\ audits[d].secured # None)
        /\ audits'[d].churned = (Req(d).operationType = "UNSUBSCRIPTION")
  BY <1>1 DEF Agrees
<1> QED BY <1>1, <1>3, <1>4, <1>5 DEF Converted, Churned

LEMMA FlagsListener ==
  ASSUME TypeOK, TypeOK', NEW d \in Deliveries, DeliveryOK(d), CountOK(d), RowsOK(d),
         FlagsOK(d), ListenerStep(d) \/ AuditFails(d)
  PROVE  FlagsOK(d)'
<1> USE DEF At, Goto, End
<1>a. /\ run \in [Deliveries -> AuditRun] /\ retry \in [Deliveries -> RetryJob]
      /\ audits \in [Deliveries -> AuditRecord] /\ faults \in Nat /\ faults' \in Nat
      /\ Ended.pc = "done"
  BY DEF TypeOK, Ended, NotStarted
<1>b. SUFFICES ASSUME faults' = 0 PROVE FlagsOK(d)'
  BY DEF FlagsOK
<1>c. /\ faults = 0 /\ UNCHANGED <<secureD, overtaken>> /\ ~AuditFails(d)
  BY <1>a, <1>b DEF ListenerStep, AuditFails, BuildContext, FindMatching, FindUser, CreateAuditRecord,
       QueueSecureDRetry, MarkAndCommit, WriteFlags, ReRead, GetPostback, NotePostback
<1>d. Req(d)' = Req(d)
  <2>1. CASE UNCHANGED rows
    BY <2>1 DEF Req
  <2>2. CASE MarkAndCommit(d)
    <3>1. PICK e \in Deliveries : rows' = [rows EXCEPT ![e].state = "processed"]
      BY <2>2 DEF MarkAndCommit, DatasyncRows
    <3> QED BY <3>1 DEF Req, TypeOK, Row
  <2> QED BY <1>c, <2>1, <2>2
       DEF ListenerStep, BuildContext, FindMatching, FindUser, CreateAuditRecord,
           QueueSecureDRetry, WriteFlags, ReRead, GetPostback, NotePostback
<1>e. d \notin overtaken /\ run[d].pc # "done" => retry[d].state # "flags"
  BY DEF CountOK
\* Before the commit there is no record.
<1>1. ASSUME ~audits[d].exists, UNCHANGED audits,
             run'[d].pc \in {"user", "create", "queue", "mark", "flags"} /\ run'[d].context # None
               => run'[d].match # None
      PROVE  FlagsOK(d)'
  BY <1>1 DEF FlagsOK
\* A step that leaves the flags and the links as they are.
<1>2. ASSUME run[d].pc # "flags", run'[d].pc \notin {"user", "create", "queue", "mark", "flags"},
             UNCHANGED retry,
             \A f \in {"exists", "marketer", "secured", "converted", "acquired", "churned"} :
               audits'[d][f] = audits[d][f]
      PROVE  FlagsOK(d)'
  <2>1. Agrees(d)' <=> Agrees(d)
    BY <1>2, <1>c, <1>d DEF Agrees
  <2> QED BY <1>2, <1>c, <2>1 DEF FlagsOK
<1>3. CASE BuildContext(d)
  <2>1. ~audits[d].exists /\ UNCHANGED audits
    BY <1>3 DEF BuildContext, DeliveryOK, ListenerOK
  <2>2. run'[d].pc \in {"match", "done"}
    BY <1>3, <1>a DEF BuildContext, AuditRun
  <2> QED BY <1>1, <2>1, <2>2
<1>4. CASE FindMatching(d)
  <2>1. ~audits[d].exists /\ UNCHANGED audits
    BY <1>4 DEF FindMatching, DeliveryOK, ListenerOK
  <2>2. CASE End(d)
    BY <1>1, <1>a, <2>1, <2>2
  <2>3. CASE ~End(d)
    <3>1. PICK i \in {None, Newest(Matching(Req(d)))} :
            /\ run' = [run EXCEPT ![d].match = i, ![d].pc = "user"]
            /\ Req(d).viaSecureD => i = Newest(Matching(Req(d)))
      BY <1>4, <1>b, <1>c, <2>3 DEF FindMatching
    <3>2. run'[d].match = i /\ run'[d].context = run[d].context
      BY <1>a, <3>1 DEF AuditRun
    <3>3. run[d].context # None => i # None
      BY <3>1, Lookup DEF DeliveryOK, ListenerOK
    <3> QED BY <1>1, <2>1, <3>2, <3>3
  <2> QED BY <2>2, <2>3
<1>12. CASE FindUser(d)
  <2>1. ~audits[d].exists /\ UNCHANGED audits
    BY <1>12 DEF FindUser, DeliveryOK, ListenerOK
  <2>2. CASE End(d)
    BY <1>1, <1>a, <2>1, <2>2
  <2>3. CASE ~End(d)
    <3>1. PICK pc \in {"create", "mark"} : run' = [run EXCEPT ![d].pc = pc]
      BY <1>12, <2>3 DEF FindUser, Unrecorded
    <3>2. run'[d].match = run[d].match /\ run'[d].context = run[d].context
      BY <1>a, <3>1 DEF AuditRun
    <3>3. run[d].context # None => run[d].match # None
      BY <1>12, <1>c DEF FindUser, FlagsOK
    <3> QED BY <1>1, <2>1, <3>2, <3>3
  <2> QED BY <2>2, <2>3
<1>5. CASE CreateAuditRecord(d)
  <2>1. ~audits[d].exists /\ UNCHANGED audits
    BY <1>5 DEF CreateAuditRecord, DeliveryOK, ListenerOK
  <2>2. CASE End(d)
    BY <1>1, <1>a, <2>1, <2>2
  <2>3. CASE ~End(d)
    <3>1. PICK e \in Deliveries, pc \in {"queue", "mark"} :
            run' = [run EXCEPT ![d].pc = pc, ![d].row = e]
      BY <1>5, <2>3 DEF CreateAuditRecord, DatasyncRows
    <3>2. run'[d].match = run[d].match /\ run'[d].context = run[d].context
      BY <1>a, <3>1 DEF AuditRun
    <3> QED BY <1>1, <1>5, <1>c, <2>1, <3>2 DEF CreateAuditRecord, FlagsOK
  <2> QED BY <2>2, <2>3
<1>6. CASE QueueSecureDRetry(d)
  <2>1. ~audits[d].exists /\ UNCHANGED audits
    BY <1>6 DEF QueueSecureDRetry, DeliveryOK, ListenerOK
  <2>2. run'[d].match = run[d].match /\ run'[d].context = run[d].context
    BY <1>6, <1>a DEF QueueSecureDRetry, AuditRun
  <2> QED BY <1>1, <1>6, <1>c, <2>1, <2>2 DEF QueueSecureDRetry, FlagsOK
<1>7. CASE MarkAndCommit(d)
  <2>1. CASE run[d].row = None
    BY <1>1, <1>7, <1>a, <2>1 DEF MarkAndCommit, DeliveryOK, ListenerOK
  <2>2. CASE run[d].row # None
    <3>1. /\ audits'[d] = NewAudit(d) /\ run'[d].pc = "flags"
          /\ run'[d].context = run[d].context /\ run'[d].match = run[d].match
          /\ UNCHANGED retry
      BY <1>7, <1>a, <2>2 DEF MarkAndCommit, AuditRun
    <3>2. audits'[d].marketer = HasMarketer(run[d].context) /\ audits'[d].secured = run[d].match
      BY <3>1 DEF NewAudit
    <3>3. HasMarketer(run[d].context)' = HasMarketer(run[d].context)
      BY <1>c, <3>1 DEF HasMarketer
    <3>4. run[d].context # None => run[d].match # None
      BY <1>7, <1>c DEF MarkAndCommit, FlagsOK
    <3>5. d \notin overtaken => retry[d].state # "flags"
      BY <1>7, <1>e DEF MarkAndCommit
    <3> QED BY <1>c, <3>1, <3>2, <3>3, <3>4, <3>5 DEF FlagsOK
  <2> QED BY <2>1, <2>2
<1>8. CASE WriteFlags(d)
  <2>1. run'[d].pc = "reread" /\ UNCHANGED retry
    BY <1>8, <1>a DEF WriteFlags, NotStarted
  <2>2. CASE d \in overtaken
    BY <1>c, <2>1, <2>2 DEF FlagsOK
  <2>3. CASE d \notin overtaken
    <3>1. /\ audits[d].exists
          /\ audits[d].marketer = HasMarketer(run[d].context)
          /\ audits[d].secured = run[d].match
          /\ run[d].context # None => run[d].match # None
      BY <1>8, <1>c, <2>3 DEF WriteFlags, FlagsOK, DeliveryOK, ListenerOK
    <3>2. HasMarketer(run[d].context) \in BOOLEAN
          /\ (HasMarketer(run[d].context) => run[d].context # None)
      BY DEF HasMarketer
    <3>3. SetFlags(d, HasMarketer(run[d].context), audits[d].secured)
      BY <1>8, <3>1 DEF WriteFlags
    <3>4. Agrees(d)'
      BY <1>c, <1>d, <3>1, <3>2, <3>3, FlagsComputed
    <3>5. retry[d].state # "flags"
      BY <1>8, <1>e, <2>3 DEF WriteFlags
    <3> QED BY <2>1, <3>4, <3>5 DEF FlagsOK
  <2> QED BY <2>2, <2>3
<1>9. CASE ReRead(d)
  <2>1. run'[d].pc \in {"get", "done"}
    BY <1>9, <1>a DEF ReRead, NotStarted
  <2> QED BY <1>2, <1>9, <2>1 DEF ReRead
<1>10. CASE GetPostback(d)
  <2>1. run'[d].pc = "note"
    BY <1>10, <1>a DEF GetPostback, AuditRun
  <2> QED BY <1>2, <1>10, <2>1 DEF GetPostback
<1>11. CASE NotePostback(d)
  <2>1. \A f \in {"exists", "marketer", "secured", "converted", "acquired", "churned"} :
          audits'[d][f] = audits[d][f]
    BY <1>11, <1>a DEF NotePostback, AuditRecord
  <2> QED BY <1>2, <1>11, <1>a, <2>1 DEF NotePostback
<1> QED
  BY <1>c, <1>3, <1>4, <1>5, <1>6, <1>7, <1>8, <1>9, <1>10, <1>11, <1>12 DEF ListenerStep

LEMMA FlagsRetry ==
  ASSUME TypeOK, TypeOK', NEW d \in Deliveries, DeliveryOK(d), CountOK(d), RowsOK(d),
         FlagsOK(d), RetryStep(d) \/ RetryFails(d)
  PROVE  FlagsOK(d)'
<1> USE DEF At
<1>a. /\ retry \in [Deliveries -> RetryJob] /\ audits \in [Deliveries -> AuditRecord]
      /\ faults \in Nat /\ faults' \in Nat
  BY DEF TypeOK
<1>b. SUFFICES ASSUME faults' = 0 PROVE FlagsOK(d)'
  BY DEF FlagsOK
<1>c. /\ faults = 0 /\ UNCHANGED <<rows, secureD, run>> /\ ~RetryFails(d)
  BY <1>a, <1>b DEF RetryStep, RetryFails, FindSecureD, MissSecureD, LinkSecureD,
       WriteRetryFlags, GetRetryPostback, NoteRetryPostback
<1>d. Req(d)' = Req(d)
  BY <1>c DEF Req
<1>e. CASE d \in overtaken'
  BY <1>c, <1>e DEF FlagsOK
<1>f. SUFFICES ASSUME d \notin overtaken' PROVE FlagsOK(d)'
  BY <1>e
\* The listener is over: the retry has not overtaken it.
<1>g. d \notin overtaken /\ run[d].pc = "done"
  <2>1. CASE FindSecureD(d) \/ MissSecureD(d)
    BY <1>f, <2>1 DEF FindSecureD, MissSecureD, OvertakenBy
  <2>2. CASE ~(FindSecureD(d) \/ MissSecureD(d))
    <3>1. UNCHANGED overtaken /\ retry[d].state \in {"link", "flags", "get", "note"}
      BY <1>c, <2>2 DEF RetryStep, LinkSecureD, WriteRetryFlags, GetRetryPostback,
           NoteRetryPostback
    <3> QED BY <1>f, <3>1 DEF CountOK
  <2> QED BY <2>1, <2>2
<1>1. ASSUME retry[d].state # "flags", retry'[d].state # "flags",
             \A f \in {"exists", "marketer", "secured", "converted", "acquired", "churned"} :
               audits'[d][f] = audits[d][f]
      PROVE  FlagsOK(d)'
  <2>1. Agrees(d)' <=> Agrees(d)
    BY <1>1, <1>c, <1>d DEF Agrees
  <2> QED BY <1>1, <1>c, <1>g, <2>1 DEF FlagsOK
<1>2. ASSUME NEW c, audits' = [audits EXCEPT ![d].comment = c]
      PROVE  \A f \in {"exists", "marketer", "secured", "converted", "acquired", "churned"} :
               audits'[d][f] = audits[d][f]
  BY <1>2, <1>a DEF AuditRecord
<1>3. Retried(retry[d]).state \in {"waiting", "failed"}
  BY <1>a DEF Retried, RetryJob
<1>4. CASE FindSecureD(d)
  BY <1>1, <1>4, <1>a DEF FindSecureD, MayStart, RetryJob
<1>5. CASE MissSecureD(d)
  <2>1. retry[d].state # "flags" /\ retry'[d].state # "flags"
    BY <1>3, <1>5, <1>a DEF MissSecureD, MayStart
  <2>2. CASE UNCHANGED audits
    BY <1>1, <2>1, <2>2
  <2>3. CASE audits' = [audits EXCEPT ![d].comment = "missing"]
    BY <1>1, <1>2, <2>1, <2>3
  <2> QED BY <1>5, <2>2, <2>3 DEF MissSecureD
<1>6. CASE LinkSecureD(d)
  <2>1. CASE audits[d].exists
    <3>1. /\ audits'[d].secured = retry[d].seen
          /\ retry'[d].state = "flags" /\ retry'[d].seen = retry[d].seen
      BY <1>6, <1>a, <2>1 DEF LinkSecureD, AuditRecord, RetryJob
    <3> QED BY <1>c, <1>g, <3>1 DEF FlagsOK
  <2>2. CASE ~audits[d].exists
    BY <1>1, <1>3, <1>6, <1>a, <2>2 DEF LinkSecureD
  <2> QED BY <2>1, <2>2
<1>7. CASE WriteRetryFlags(d)
  <2>1. /\ audits[d].exists /\ audits[d].secured = retry[d].seen
        /\ retry[d].seen \in Reports(d) /\ retry[d].seen # None
        /\ audits[d].marketer <=> Marketable(d)
    BY <1>7, <1>c, <1>g DEF WriteRetryFlags, FlagsOK, DeliveryOK, RetryOK, RecordOK, Held
  <2>2. HasMarketer(retry[d].seen) <=> Marketable(d)
    BY <2>1, MatchSays
  <2>3. HasMarketer(retry[d].seen) \in BOOLEAN
    BY DEF HasMarketer
  <2>4. SetFlags(d, HasMarketer(retry[d].seen), audits[d].secured)
    BY <1>7, <2>1 DEF WriteRetryFlags
  <2>5. Agrees(d)'
    BY <1>c, <1>d, <2>1, <2>2, <2>3, <2>4, FlagsComputed
  <2>6. retry'[d].state # "flags"
    BY <1>7, <1>a DEF WriteRetryFlags, RetryJob, Completed, NoJob
  <2> QED BY <1>c, <1>g, <2>5, <2>6 DEF FlagsOK
<1>8. CASE GetRetryPostback(d)
  BY <1>1, <1>8, <1>a DEF GetRetryPostback, RetryJob
<1>9. CASE NoteRetryPostback(d)
  <2>1. retry[d].state # "flags" /\ retry'[d].state # "flags"
    BY <1>9, <1>a DEF NoteRetryPostback, Completed, NoJob
  <2> QED BY <1>1, <1>2, <1>9, <2>1 DEF NoteRetryPostback
<1> QED BY <1>c, <1>4, <1>5, <1>6, <1>7, <1>8, <1>9 DEF RetryStep

LEMMA FlagsStep ==
  ASSUME TypeOK, TypeOK', AuditInv, CountInv, RowsInv, FlagsInv, [Next]_vars
  PROVE  FlagsInv'
<1> SUFFICES ASSUME NEW d \in Deliveries PROVE FlagsOK(d)'
  BY DEF FlagsInv
<1>a. DeliveryOK(d) /\ CountOK(d) /\ RowsOK(d) /\ FlagsOK(d)
  BY DEF AuditInv, CountInv, RowsInv, FlagsInv
<1>b. faults \in Nat /\ faults' \in Nat
  BY DEF TypeOK
<1>1. ASSUME NEW x \in Deliveries, NEW q \in Requests, StoreDatasync(x, q)
      PROVE  FlagsOK(d)'
  <2>1. CASE x = d
    <3>1. run'[d].pc = "context" /\ audits'[d].exists = FALSE
      BY <1>1, <1>a, <2>1 DEF StoreDatasync, DeliveryOK, Fresh, NoAudit, TypeOK, AuditRun
    <3> QED BY <3>1 DEF FlagsOK
  <2>2. CASE x # d
    BY <1>1, <1>a, <1>b, <2>2, FlagsOther DEF StoreDatasync, TypeOK, Kept
  <2> QED BY <2>1, <2>2
<1>2. ASSUME NEW x \in Deliveries, ListenerStep(x) \/ AuditFails(x)
      PROVE  FlagsOK(d)'
  <2>1. CASE x = d
    BY <1>2, <1>a, <2>1, FlagsListener
  <2>2. CASE x # d
    <3>1. UNCHANGED overtaken /\ faults <= faults'
      BY <1>2, <1>b DEF ListenerStep, AuditFails, BuildContext, FindMatching, FindUser, CreateAuditRecord,
           QueueSecureDRetry, MarkAndCommit, WriteFlags, ReRead, GetPostback, NotePostback
    <3> QED BY <1>2, <1>a, <2>2, <3>1, FlagsOther, ListenerKeeps
  <2> QED BY <2>1, <2>2
<1>3. ASSUME NEW x \in Deliveries, RetryStep(x) \/ RetryFails(x)
      PROVE  FlagsOK(d)'
  <2>1. CASE x = d
    BY <1>3, <1>a, <2>1, FlagsRetry
  <2>2. CASE x # d
    <3>1. (d \in overtaken' <=> d \in overtaken) /\ faults <= faults'
      BY <1>3, <1>b, <2>2 DEF RetryStep, RetryFails, FindSecureD, MissSecureD, LinkSecureD,
           WriteRetryFlags, GetRetryPostback, NoteRetryPostback, OvertakenBy
    <3> QED BY <1>3, <1>a, <2>2, <3>1, FlagsOther, RetryKeeps
  <2> QED BY <2>1, <2>2
<1>4. ASSUME NEW s \in SecureDRequests, ProcessNotification(s) PROVE FlagsOK(d)'
  <2>1. \A i \in DOMAIN secureD : i \in DOMAIN secureD' /\ secureD'[i] = secureD[i]
    BY <1>4 DEF ProcessNotification, TypeOK
  <2>2. Kept(d) /\ UNCHANGED <<run, audits, retry, overtaken, faults>>
    BY <1>4, <2>1 DEF ProcessNotification, Kept
  <2> QED BY <1>a, <1>b, <2>2, FlagsOther
<1>5. CASE Crash
  BY <1>5, <1>b DEF Crash, FlagsOK
<1>6. CASE UNCHANGED vars
  BY <1>6, <1>a, <1>b, FlagsOther DEF vars, Kept
<1> QED BY <1>1, <1>2, <1>3, <1>4, <1>5, <1>6 DEF Next

\* Once listener and retry are over, the flags agree with the record's links, unless
\* a fault struck or the retry overtook its listener.
THEOREM FlagsFollowLinks == Spec => []FlagsAgree
<1>1. Init => CountInv /\ FlagsInv
  BY DEF Init, CountInv, CountOK, Told, NotStarted, NoJob, FlagsInv, FlagsOK, NoAudit
<1>2. TypeOK /\ TypeOK' /\ AuditInv /\ CountInv /\ [Next]_vars => CountInv'
  BY CountStep
<1>3. TypeOK /\ TypeOK' /\ AuditInv /\ CountInv /\ RowsInv /\ FlagsInv /\ [Next]_vars
        => FlagsInv'
  BY FlagsStep
<1>4. FlagsInv => FlagsAgree
  <2> SUFFICES ASSUME FlagsInv, NEW d \in Deliveries \ overtaken, faults = 0,
                      audits[d].exists, At(d, "done"), ~Held(retry[d])
               PROVE  Agrees(d)
    BY DEF FlagsAgree, Agrees
  <2> QED BY DEF FlagsInv, FlagsOK, At, Held
<1> QED BY <1>1, <1>2, <1>3, <1>4, AuditInvariant, RowsInvariant, PTL DEF Spec
----------------------------------------------------------------------------
(* AuditAttribution implements Conversion.                                 *)

\* Conversion's variables, as Promise substitutes them.
requestedBar == [d \in Deliveries |-> RequestOf(rows[d])]
reportedBar  == {secureD[i] : i \in DOMAIN secureD}
recordBar    == [d \in Deliveries |-> RecordOf(audits[d])]

\* What a record says of its request beyond NoOverclaim: its marketer came with a
\* notification, and only an unsubscription is a churn.
BackedOK(d) ==
  /\ audits[d].marketer => Reports(d) # {}
  /\ audits[d].churned => Churned(Req(d))

Backed == \A d \in Deliveries : BackedOK(d)

\* The steps that write what a record says.
Writes(d) == MarkAndCommit(d) \/ WriteFlags(d) \/ LinkSecureD(d) \/ WriteRetryFlags(d)

\* What a written record may newly say.
Rewritten(d) ==
  /\ audits[d].marketer => audits'[d].marketer
  /\ audits'[d].marketer => audits[d].marketer \/ Reports(d) # {}
  /\ audits'[d].churned => audits[d].churned \/ Churned(Req(d))
  /\ RecordOf(audits'[d]) = RecordOf(audits[d]) \/ audits'[d].exists

LEMMA RewrittenBySetFlags ==
  ASSUME TypeOK, NEW d \in Deliveries, NEW m, NEW i, SetFlags(d, m, i), audits[d].exists
  PROVE  Rewritten(d)
<1>1. /\ audits'[d].churned = Churned(Req(d))
      /\ audits'[d].exists = audits[d].exists
      /\ audits'[d].marketer = audits[d].marketer
  BY DEF TypeOK, SetFlags, AuditRecord
<1> QED BY <1>1 DEF Rewritten

LEMMA WritesRewrite ==
  ASSUME TypeOK, AuditInv, NEW d \in Deliveries, Writes(d)
  PROVE  /\ Rewritten(d)
         /\ audits' = [audits EXCEPT ![d] = audits'[d]]
         /\ UNCHANGED <<secureD, postbacks, faults, overtaken>>
<1>a. /\ audits \in [Deliveries -> AuditRecord] /\ DeliveryOK(d)
      /\ run \in [Deliveries -> AuditRun]
  BY DEF TypeOK, AuditInv
<1>1. UNCHANGED <<secureD, postbacks, faults, overtaken>>
  BY DEF Writes, MarkAndCommit, WriteFlags, LinkSecureD, WriteRetryFlags
<1>2. audits' = [audits EXCEPT ![d] = audits'[d]]
  <2>1. ASSUME NEW a, audits' = [audits EXCEPT ![d] = a] PROVE audits'[d] = a
    BY <1>a, <2>1
  <2>2. \/ UNCHANGED audits
        \/ \E a : audits' = [audits EXCEPT ![d] = a]
    BY DEF Writes, MarkAndCommit, WriteFlags, LinkSecureD, WriteRetryFlags, SetFlags
  <2> QED BY <1>a, <2>1, <2>2
<1>3. ASSUME UNCHANGED audits PROVE Rewritten(d)
  BY <1>3 DEF Rewritten
<1>4. ASSUME MarkAndCommit(d) /\ audits' = [audits EXCEPT ![d] = NewAudit(d)]
      PROVE  Rewritten(d)
  <2>1. /\ audits'[d].exists /\ audits'[d].marketer = HasMarketer(run[d].context)
        /\ audits'[d].churned = FALSE
    BY <1>a, <1>4 DEF NewAudit
  <2>2. ~audits[d].exists /\ ~audits[d].marketer
    BY <1>a, <1>4 DEF MarkAndCommit, At, DeliveryOK, ListenerOK, RecordOK
  <2>3. HasMarketer(run[d].context) => Reports(d) # {}
    BY <1>a DEF DeliveryOK, ListenerOK, HasMarketer
  <2> QED BY <2>1, <2>2, <2>3 DEF Rewritten
<1>5. ASSUME WriteFlags(d) \/ WriteRetryFlags(d) PROVE Rewritten(d)
  <2>1. audits[d].exists
    BY <1>a, <1>5 DEF WriteFlags, WriteRetryFlags, At, DeliveryOK, ListenerOK, RetryOK
  <2> QED BY <1>5, <2>1, RewrittenBySetFlags DEF WriteFlags, WriteRetryFlags
<1>6. ASSUME LinkSecureD(d) /\ audits[d].exists PROVE Rewritten(d)
  <2>1. /\ audits'[d].exists /\ audits'[d].churned = audits[d].churned
        /\ audits'[d].marketer = (audits[d].marketer \/ HasMarketer(retry[d].seen))
    BY <1>a, <1>6 DEF LinkSecureD, AuditRecord
  <2>2. retry[d].seen \in Reports(d)
    BY <1>a, <1>6 DEF LinkSecureD, DeliveryOK, RetryOK, Held
  <2> QED BY <2>1, <2>2 DEF Rewritten
<1> QED BY <1>1, <1>2, <1>3, <1>4, <1>5, <1>6 DEF Writes, MarkAndCommit, LinkSecureD

\* Every other step leaves what the records say as it is.
LEMMA OthersLeaveRecords ==
  ASSUME TypeOK, [Next]_vars, \A d \in Deliveries : ~Writes(d)
  PROVE  recordBar' = recordBar
<1>a. audits \in [Deliveries -> AuditRecord]
  BY DEF TypeOK
<1>1. CASE UNCHANGED audits
  BY <1>1 DEF recordBar
<1>2. ASSUME NEW x \in Deliveries, NEW c, audits' = [audits EXCEPT ![x].comment = c]
      PROVE  recordBar' = recordBar
  <2>1. \A d \in Deliveries : RecordOf(audits'[d]) = RecordOf(audits[d])
    BY <1>2, <1>a DEF RecordOf, AuditRecord
  <2> QED BY <2>1 DEF recordBar
<1> QED
  BY <1>1, <1>2
     DEF Writes, Next, vars, ListenerStep, RetryStep, StoreDatasync, BuildContext,
         FindMatching, FindUser, CreateAuditRecord, QueueSecureDRetry, ReRead, GetPostback,
         NotePostback, AuditFails, FindSecureD, MissSecureD, GetRetryPostback,
         NoteRetryPostback, RetryFails, ProcessNotification, Crash

\* A step keeps every stored request and the notifications that have come.
LEMMA RequestsKept ==
  ASSUME TypeOK, [Next]_vars, NEW d \in Deliveries, rows[d].state # "none"
  PROVE  Kept(d)
<1>1. rows'[d].state # "none" /\ Req(d)' = Req(d)
  BY RowsLast DEF Lasting
<1>2. \A i \in DOMAIN secureD : i \in DOMAIN secureD' /\ secureD'[i] = secureD[i]
  <2>1. CASE UNCHANGED secureD
    BY <2>1
  <2>2. ASSUME NEW s \in SecureDRequests, ProcessNotification(s)
        PROVE  \A i \in DOMAIN secureD : i \in DOMAIN secureD' /\ secureD'[i] = secureD[i]
    BY <2>2 DEF TypeOK, ProcessNotification
  <2> QED
    BY <2>1, <2>2
       DEF Next, vars, ListenerStep, RetryStep, StoreDatasync, BuildContext, FindMatching, FindUser,
           CreateAuditRecord, QueueSecureDRetry, MarkAndCommit, WriteFlags, ReRead,
           GetPostback, NotePostback, AuditFails, FindSecureD, MissSecureD, LinkSecureD,
           WriteRetryFlags, GetRetryPostback, NoteRetryPostback, RetryFails, Crash
<1> QED BY <1>1, <1>2 DEF Kept, Req

LEMMA BackedStep ==
  ASSUME TypeOK, TypeOK', AuditInv, AuditInv', Backed, [Next]_vars
  PROVE  Backed'
<1> SUFFICES ASSUME NEW d \in Deliveries PROVE BackedOK(d)'
  BY DEF Backed
<1>a. audits \in [Deliveries -> AuditRecord] /\ Fresh(d) /\ BackedOK(d) /\ Fresh(d)'
  BY DEF TypeOK, AuditInv, Backed, DeliveryOK
<1>1. \/ RecordOf(audits'[d]) = RecordOf(audits[d])
      \/ Rewritten(d)
  <2>1. CASE \A x \in Deliveries : ~Writes(x)
    <3>1. recordBar'[d] = recordBar[d]
      BY <2>1, OthersLeaveRecords
    <3> QED BY <3>1 DEF recordBar
  <2>2. ASSUME NEW x \in Deliveries, Writes(x)
        PROVE  RecordOf(audits'[d]) = RecordOf(audits[d]) \/ Rewritten(d)
    <3>1. CASE x = d
      BY <2>2, <3>1, WritesRewrite
    <3>2. CASE x # d
      <4>1. audits'[d] = audits[d]
        BY <1>a, <2>2, <3>2, WritesRewrite
      <4> QED BY <4>1
    <3> QED BY <3>1, <3>2
  <2> QED BY <2>1, <2>2
<1>2. /\ audits'[d].marketer => audits[d].marketer \/ Reports(d) # {}
      /\ audits'[d].churned => audits[d].churned \/ Churned(Req(d))
  BY <1>1 DEF RecordOf, Rewritten
<1>3. CASE rows[d].state # "none"
  <2>1. Kept(d)
    BY <1>3, RequestsKept
  <2>2. Req(d)' = Req(d) /\ Reports(d) \subseteq Reports(d)'
    BY <2>1, Growth
  <2> QED BY <1>a, <1>2, <2>2 DEF BackedOK, Churned
<1>4. CASE rows[d].state = "none"
  <2>1. ~Writes(d)
    BY <1>a, <1>4 DEF Fresh, Writes, MarkAndCommit, WriteFlags, LinkSecureD, WriteRetryFlags,
                      At, NotStarted, NoJob
  <2>2. audits[d] = NoAudit /\ RecordOf(audits'[d]) = RecordOf(audits[d])
    <3>1. CASE \A x \in Deliveries : ~Writes(x)
      <4>1. recordBar'[d] = recordBar[d]
        BY <3>1, OthersLeaveRecords
      <4> QED BY <1>a, <1>4, <4>1 DEF recordBar, Fresh
    <3>2. ASSUME NEW x \in Deliveries, Writes(x) PROVE audits'[d] = audits[d]
      BY <1>a, <2>1, <3>2, WritesRewrite
    <3> QED BY <1>a, <1>4, <3>1, <3>2 DEF Fresh
  <2>3. ~audits'[d].marketer /\ ~audits'[d].churned
    BY <2>2 DEF RecordOf, NoAudit
  <2> QED BY <2>3 DEF BackedOK
<1> QED BY <1>3, <1>4

LEMMA BackedInvariant == Spec => []Backed
<1>1. Init => Backed
  BY DEF Init, Backed, BackedOK, NoAudit
<1>2. TypeOK /\ TypeOK' /\ AuditInv /\ AuditInv' /\ Backed /\ [Next]_vars => Backed'
  BY BackedStep
<1> QED BY <1>1, <1>2, AuditInvariant, PTL DEF Spec

\* Matching, by what was reported instead of where it is in the table.
LEMMA ReportedAbout ==
  ASSUME NEW d \in Deliveries
  PROVE  /\ Reports(d) # {} => Promise!About(Req(d)) # {}
         /\ Successes(d) # {} => Promise!Confirmed(Req(d))
<1>1. ASSUME NEW i \in Reports(d) PROVE secureD[i] \in Promise!About(Req(d))
  BY <1>1 DEF Reports, Matching, Promise!About
<1> QED BY <1>1 DEF Successes, Promise!Confirmed

LEMMA HonestRecord ==
  ASSUME TypeOK, NEW d \in Deliveries, NEW a, a.exists,
         a.marketer => Req(d).viaSecureD /\ Marketable(d) /\ Reports(d) # {},
         a.converted => Successes(d) # {},
         a.acquired => a.marketer /\ Req(d).operationType = "SUBSCRIPTION",
         a.churned => Churned(Req(d))
  PROVE  Promise!Honest(RecordOf(a), Req(d))
  BY ReportedAbout DEF Promise!Honest, RecordOf, Marketable, Churned

\* The steps of Conversion.
LEMMA NothingPromised ==
  ASSUME requestedBar' = requestedBar, reportedBar' = reportedBar, recordBar' = recordBar,
         postbacks' = postbacks, faults' \in {faults, faults + 1},
         overtaken \subseteq overtaken'
  PROVE  Promise!ConversionNext
<1>1. Promise!Disturb
  BY Zenon DEF Promise!Disturb, requestedBar, reportedBar, recordBar
<1> QED BY <1>1, Zenon DEF Promise!ConversionNext

\* Marking a datasync processed changes no request.
LEMMA MarkingKeepsRequests ==
  ASSUME TypeOK, \/ UNCHANGED rows
                 \/ \E d \in Deliveries : MarkAndCommit(d)
  PROVE  requestedBar' = requestedBar
<1>1. CASE UNCHANGED rows
  BY <1>1 DEF requestedBar
<1>2. ASSUME NEW d \in Deliveries, MarkAndCommit(d) PROVE requestedBar' = requestedBar
  <2>1. PICK e \in Deliveries : rows' = [rows EXCEPT ![e].state = "processed"]
                                /\ rows[e].state # "none"
    BY <1>2 DEF MarkAndCommit, DatasyncRows
  <2>2. \A c \in Deliveries : RequestOf(rows'[c]) = RequestOf(rows[c])
    BY <2>1 DEF TypeOK, Row, RequestOf
  <2> QED BY <2>2 DEF requestedBar
<1> QED BY <1>1, <1>2

LEMMA RecordIsWritten ==
  ASSUME TypeOK, TypeOK', AuditInv, AuditInv', Backed', [Next]_vars,
         NEW d \in Deliveries, Writes(d)
  PROVE  Promise!ConversionNext
<1>a. /\ UNCHANGED <<secureD, postbacks, faults, overtaken>>
      /\ audits' = [audits EXCEPT ![d] = audits'[d]]
      /\ Rewritten(d)
  BY WritesRewrite
<1>b. audits \in [Deliveries -> AuditRecord] /\ faults \in Nat
  BY DEF TypeOK
<1>1. requestedBar' = requestedBar
  BY MarkingKeepsRequests DEF Writes, WriteFlags, LinkSecureD, WriteRetryFlags
<1>2. reportedBar' = reportedBar
  BY <1>a DEF reportedBar
<1>3. recordBar' = [recordBar EXCEPT ![d] = recordBar'[d]]
  BY <1>a, <1>b DEF recordBar
<1>4. CASE RecordOf(audits'[d]) = RecordOf(audits[d])
  <2>1. recordBar' = recordBar
    BY <1>3, <1>4 DEF recordBar
  <2> QED BY <1>a, <1>b, <1>1, <1>2, <2>1, NothingPromised
<1>5. CASE audits'[d].exists
  <2>1. rows[d].state # "none"
    <3>1. run[d].pc # "none" \/ retry[d].state # "none"
      BY DEF Writes, MarkAndCommit, WriteFlags, LinkSecureD, WriteRetryFlags, At
    <3> QED BY <3>1 DEF AuditInv, DeliveryOK, Fresh, NotStarted, NoJob
  <2>2. Kept(d)
    BY <2>1, RequestsKept
  <2>3. Req(d)' = Req(d) /\ (Marketable(d)' <=> Marketable(d))
    BY <2>2, Growth
  <2>4. Reports(d)' = Reports(d) /\ Successes(d)' = Successes(d)
    BY <1>a, <2>3 DEF Reports, Successes, Matching
  <2>5. Promise!Honest(RecordOf(audits'[d]), Req(d))
    BY <1>5, <2>3, <2>4, HonestRecord
       DEF AuditInv, Backed, DeliveryOK, RecordOK, BackedOK, Churned
  <2>6. requestedBar[d] = {Req(d)}
    BY <2>1 DEF requestedBar, RequestOf, Req
  <2>7. recordBar'[d] = RecordOf(audits'[d])
    BY DEF recordBar
  <2>8. recordBar[d].marketer => recordBar'[d].marketer
    BY <1>a, <2>7 DEF Rewritten, recordBar, RecordOf
  <2>9. Promise!Write(d)
    <3>1. \E q \in requestedBar[d] : Promise!Honest(recordBar'[d], q)
      BY <2>5, <2>6, <2>7
    <3> QED BY <1>a, <1>1, <1>2, <1>3, <2>8, <3>1, Zenon
            DEF Promise!Write, requestedBar, reportedBar, recordBar
  <2> QED BY <2>9, Zenon DEF Promise!ConversionNext
<1> QED BY <1>a, <1>4, <1>5 DEF Rewritten

LEMMA MarketerIsTold ==
  ASSUME TypeOK, TypeOK', AuditInv, CountInv', [Next]_vars,
         NEW d \in Deliveries, GetPostback(d) \/ GetRetryPostback(d)
  PROVE  Promise!ConversionNext
<1>1. /\ UNCHANGED <<rows, secureD, audits, faults, overtaken>>
      /\ postbacks' = [postbacks EXCEPT ![d] = @ + 1]
  BY DEF GetPostback, GetRetryPostback
<1>2. audits[d].exists /\ audits[d].marketer /\ Successes(d) # {}
      /\ rows[d].state # "none"
  BY DEF GetPostback, GetRetryPostback, At, AuditInv, DeliveryOK, ListenerOK, RecordOK,
         RetryOK, Fresh, NotStarted, NoJob
<1>3. requestedBar' = requestedBar /\ reportedBar' = reportedBar /\ recordBar' = recordBar
  BY <1>1 DEF requestedBar, reportedBar, recordBar
<1>4. recordBar[d].kept /\ recordBar[d].marketer
  BY <1>2 DEF recordBar, RecordOf
<1>5. \E q \in requestedBar[d] : Promise!Confirmed(q)
  <2>1. requestedBar[d] = {Req(d)}
    BY <1>2 DEF requestedBar, RequestOf, Req
  <2> QED BY <1>2, <2>1, ReportedAbout
<1>6. postbacks[d] <= Promise!Excused(d)
  <2>1. postbacks'[d] = postbacks[d] + 1 /\ postbacks[d] \in Nat /\ faults \in Nat
    BY <1>1 DEF TypeOK
  <2>2. CountOK(d)' /\ faults' = faults /\ overtaken' = overtaken
    BY <1>1 DEF CountInv
  <2>3. postbacks'[d] <= (IF d \in overtaken THEN 2 ELSE 1) + faults
    BY <2>1, <2>2 DEF CountOK, Told, RetryTold
  <2> QED BY <2>1, <2>3 DEF Promise!Excused
<1>7. Promise!Tell(d)
  BY <1>1, <1>3, <1>4, <1>5, <1>6, Zenon
     DEF Promise!Tell, requestedBar, reportedBar, recordBar
<1> QED BY <1>7, Zenon DEF Promise!ConversionNext

LEMMA RequestIsStored ==
  ASSUME TypeOK, NEW d \in Deliveries, NEW q \in Requests, StoreDatasync(d, q)
  PROVE  Promise!ConversionNext
<1>1. /\ UNCHANGED <<secureD, audits, postbacks, faults, overtaken>>
      /\ rows' = [rows EXCEPT ![d] = [state |-> "stored", req |-> q]]
      /\ rows \in [Deliveries -> Row] /\ rows[d].state = "none"
  BY DEF StoreDatasync, TypeOK
<1>2. requestedBar[d] = {} /\ requestedBar' = [requestedBar EXCEPT ![d] = {q}]
  BY <1>1 DEF requestedBar, RequestOf
<1>3. reportedBar' = reportedBar /\ recordBar' = recordBar
  BY <1>1 DEF reportedBar, recordBar
<1>4. Promise!Request(d, q)
  BY <1>1, <1>2, <1>3, Zenon DEF Promise!Request, requestedBar, reportedBar, recordBar
<1> QED BY <1>4, Zenon DEF Promise!ConversionNext

LEMMA ReportIsStored ==
  ASSUME TypeOK, NEW s \in SecureDRequests, ProcessNotification(s)
  PROVE  Promise!ConversionNext
<1>1. /\ UNCHANGED <<rows, audits, postbacks, faults, overtaken>>
      /\ secureD' = Append(secureD, s)
      /\ secureD \in Seq(SecureDRequests)
  BY DEF ProcessNotification, TypeOK
<1>2. reportedBar' = reportedBar \cup {s}
  <2>1. /\ DOMAIN secureD' = DOMAIN secureD \cup {Len(secureD) + 1}
        /\ Len(secureD) + 1 \notin DOMAIN secureD
        /\ secureD'[Len(secureD) + 1] = s
        /\ \A i \in DOMAIN secureD : secureD'[i] = secureD[i]
    BY <1>1
  <2> QED BY <2>1 DEF reportedBar
<1>3. requestedBar' = requestedBar /\ recordBar' = recordBar
  BY <1>1 DEF requestedBar, recordBar
<1>4. Promise!Report(s)
  BY <1>1, <1>2, <1>3, Zenon DEF Promise!Report, requestedBar, reportedBar, recordBar
<1> QED BY <1>4, Zenon DEF Promise!ConversionNext

LEMMA ConversionStep ==
  ASSUME TypeOK, TypeOK', AuditInv, AuditInv', CountInv', Backed', [Next]_vars
  PROVE  Promise!ConversionNext
<1>a. faults \in Nat
  BY DEF TypeOK
<1>1. CASE \E d \in Deliveries : Writes(d)
  BY <1>1, RecordIsWritten
<1>2. CASE \E d \in Deliveries : GetPostback(d) \/ GetRetryPostback(d)
  BY <1>2, MarketerIsTold
<1>3. CASE \E d \in Deliveries, q \in Requests : StoreDatasync(d, q)
  BY <1>3, RequestIsStored
<1>4. CASE \E s \in SecureDRequests : ProcessNotification(s)
  BY <1>4, ReportIsStored
<1>5. ASSUME \A d \in Deliveries : ~Writes(d),
             UNCHANGED <<rows, secureD, postbacks>>,
             faults' \in {faults, faults + 1}, overtaken \subseteq overtaken'
      PROVE  Promise!ConversionNext
  <2>1. recordBar' = recordBar
    BY <1>5, OthersLeaveRecords
  <2>2. requestedBar' = requestedBar /\ reportedBar' = reportedBar
    BY <1>5 DEF requestedBar, reportedBar
  <2> QED BY <1>5, <2>1, <2>2, NothingPromised
<1> QED
  BY <1>a, <1>1, <1>2, <1>3, <1>4, <1>5
     DEF Writes, Next, vars, ListenerStep, RetryStep, BuildContext, FindMatching, FindUser,
         CreateAuditRecord, QueueSecureDRetry, ReRead, NotePostback, AuditFails,
         FindSecureD, MissSecureD, NoteRetryPostback, RetryFails, Crash, OvertakenBy

LEMMA ConversionStart == Init => Promise!ConversionInit
<1> SUFFICES ASSUME Init PROVE Promise!ConversionInit
  OBVIOUS
<1>1. requestedBar = [d \in Deliveries |-> {}]
  BY DEF Init, requestedBar, RequestOf
<1>2. reportedBar = {}
  BY DEF Init, reportedBar
<1>3. recordBar = [d \in Deliveries |-> Promise!NoRecord]
  BY DEF Init, recordBar, RecordOf, NoAudit, Promise!NoRecord
<1> QED
  BY <1>1, <1>2, <1>3, Zenon
     DEF Init, Promise!ConversionInit, requestedBar, reportedBar, recordBar

\* However webhooks, listeners and retries interleave, what is written into a record
\* was reported of its request by then, a marketer once written stays, and only a
\* conversion of record and confirmed is posted, no more often than a failure or an
\* early retry excuses. That is what Conversion promises.
THEOREM AuditImplementsConversion == Spec => ImplementsConversion
<1>1. Init => Promise!ConversionInit /\ CountInv
  <2>1. Init => CountInv
    BY DEF Init, CountInv, CountOK, Told, NotStarted, NoJob
  <2> QED BY <2>1, ConversionStart
<1>2. TypeOK /\ TypeOK' /\ AuditInv /\ CountInv /\ [Next]_vars => CountInv'
  BY CountStep
<1>3. TypeOK /\ TypeOK' /\ AuditInv /\ AuditInv' /\ CountInv' /\ Backed' /\ [Next]_vars
        => [Promise!ConversionNext]_(Promise!conversionVars)
  BY ConversionStep
<1> QED
  BY <1>1, <1>2, <1>3, AuditInvariant, BackedInvariant, PTL
     DEF Spec, ImplementsConversion, Promise!ConversionSpec
=============================================================================
