---------------------- MODULE MCSubscriptionProcessing ----------------------
(* Instances of SubscriptionProcessing for TLC. *)
EXTENDS SubscriptionProcessing, TLC

CONSTANTS u1, u2, daily, retired

Request(seq, u, p, op, ok) ==
  [sequenceNo |-> seq, msisdn |-> u, product |-> p, operationId |-> op,
   resultOk |-> ok, charged |-> TRUE]
Subscribe(seq, u)   == Request(seq, u, daily, "SN", TRUE)
Renew(seq, u)       == Request(seq, u, daily, "YC", TRUE)
RenewFailed(seq, u) == Request(seq, u, daily, "YC", FALSE)
Unsubscribe(seq, u) == Request(seq, u, daily, "YU", TRUE)

\* One daily product; "retired" is an id the catalogue no longer has.
MCProducts == {daily}
MCValidityDays == [p \in MCProducts |-> 1]
MCQuizAttempts == [p \in MCProducts |-> 2]

\* Every kind of request for one user: a paid and a failed activation, a request
\* without a charge amount, an unsubscription, and one whose product is unknown.
MCSafetyRequests ==
  { Subscribe("s1", u1), RenewFailed("s2", u1),
    [Renew("s3", u1) EXCEPT !.charged = FALSE],
    Unsubscribe("s4", u1),
    [Subscribe("s5", u1) EXCEPT !.product = retired] }

MCLivenessRequests == { Renew("s1", u1) }
MCTwoFirstRequests == { Subscribe("s1", u1), Renew("s2", u1) }
MCOneRequest       == { Subscribe("s1", u1) }
MCSerialRequests   == { Subscribe("s1", u1), Unsubscribe("s2", u1) }

Symmetry == Permutations(Jobs) \cup Permutations(Runs)
=============================================================================
