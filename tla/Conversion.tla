----------------------------- MODULE Conversion -----------------------------
(***************************************************************************)
(* What a marketer is promised, in whatever order the webhooks of ICell    *)
(* and SecureD come and however listener and retry race: a record of a     *)
(* subscription is made once, says no more than what SecureD reported of   *)
(* that very request by then, keeps the marketer it was given, and leads   *)
(* to one postback of a confirmed conversion, but for what a failure or a  *)
(* retry that runs too early excuses. AuditAttribution implements it.      *)
(***************************************************************************)
EXTENDS Naturals

CONSTANTS
  Deliveries, Requests, SecureDRequests,
  KnownTrx   \* identifiers that name a marketer

VARIABLES
  requested,  \* delivery -> its request, once it has come
  reported,   \* what SecureD has reported
  record,     \* delivery -> what its audit record says
  told,       \* delivery -> postbacks
  failures,   \* crashes and rejected calls
  early       \* deliveries whose retry ran before their listener was over

conversionVars == <<requested, reported, record, told, failures, early>>

NoRecord ==
  [kept |-> FALSE, marketer |-> FALSE, converted |-> FALSE, acquired |-> FALSE, churned |-> FALSE]

ConversionInit ==
  /\ requested = [d \in Deliveries |-> {}]
  /\ reported = {}
  /\ record = [d \in Deliveries |-> NoRecord]
  /\ told = [d \in Deliveries |-> 0]
  /\ failures = 0
  /\ early = {}

About(q) ==
  {s \in reported : s.trxId = q.sequenceNo /\ s.msisdn = q.msisdn /\ s.product = q.product}
Confirmed(q) == \E s \in About(q) : s.success

\* A record that claims nothing that was not reported of its request.
Honest(r, q) ==
  /\ r.kept
  /\ r.marketer => q.viaSecureD /\ q.sequenceNo \in KnownTrx /\ About(q) # {}
  /\ r.converted => Confirmed(q)
  /\ r.acquired => r.marketer /\ q.operationType = "SUBSCRIPTION"
  /\ r.churned => q.operationType = "UNSUBSCRIPTION"

Request(d, q) ==
  /\ requested[d] = {}
  /\ requested' = [requested EXCEPT ![d] = {q}]
  /\ UNCHANGED <<reported, record, told, failures, early>>

Report(s) ==
  /\ reported' = reported \cup {s}
  /\ UNCHANGED <<requested, record, told, failures, early>>

\* The record is made, or what it says revised: a marketer is never taken back.
Write(d) ==
  /\ record' = [record EXCEPT ![d] = record'[d]]
  /\ record[d].marketer => record'[d].marketer
  /\ \E q \in requested[d] : Honest(record'[d], q)
  /\ UNCHANGED <<told, failures, early, requested, reported>>

Excused(d) == failures + (IF d \in early THEN 1 ELSE 0)

Tell(d) ==
  /\ record[d].kept /\ record[d].marketer
  /\ \E q \in requested[d] : Confirmed(q)
  /\ told[d] <= Excused(d)
  /\ told' = [told EXCEPT ![d] = @ + 1]
  /\ UNCHANGED <<requested, reported, record, failures, early>>

Disturb ==
  /\ UNCHANGED <<told, requested, record, reported>>
  /\ failures' \in {failures, failures + 1}
  /\ early \subseteq early'

ConversionNext ==
  \/ Disturb
  \/ \E d \in Deliveries : \/ Write(d) \/ Tell(d)
                           \/ \E q \in Requests : Request(d, q)
  \/ \E s \in SecureDRequests : Report(s)

ConversionSpec == ConversionInit /\ [][ConversionNext]_conversionVars
=============================================================================
