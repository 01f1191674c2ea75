------------------------- MODULE MCAuditAttribution -------------------------
(* Instances of AuditAttribution for TLC. *)
EXTENDS AuditAttribution, TLC

CONSTANTS u1, u2, daily

Datasync(seq, u, op, viaSecureD) ==
  [sequenceNo |-> seq, msisdn |-> u, product |-> daily, operationType |-> op,
   viaSecureD |-> viaSecureD]
Notification(trx, u, ok) ==
  [trxId |-> trx, msisdn |-> u, product |-> daily, success |-> ok]

MCKnownTrx == {"m-1", "m-2"}

Subscription == Datasync("m-1", u1, "SUBSCRIPTION", TRUE)
Reported(ok) == Notification("m-1", u1, ok)

\* An attributable subscription and a direct unsubscription.
MCRequests == { Subscription, Datasync("m-2", u1, "UNSUBSCRIPTION", FALSE) }
MCNotifications == { Reported(TRUE), Reported(FALSE) }

\* The subscription, one with a trxId of an unknown marketer, and a stranger's
\* direct request of a kind ICELL_OPERATIONS lacks.
MCLivenessRequests ==
  { Subscription, Datasync("x-9", u1, "SUBSCRIPTION", TRUE),
    Datasync("m-1", u2, "UNKNOWN", FALSE) }
MCLivenessNotifications == MCNotifications \cup { Notification("x-9", u1, TRUE) }

MCUnknownMarketer == { Datasync("x-9", u1, "SUBSCRIPTION", TRUE) }
MCTwoSubscriptions ==
  { Subscription, Datasync("m-2", u1, "SUBSCRIPTION", TRUE) }
MCConversions ==
  { Reported(TRUE), Notification("m-2", u1, TRUE), Notification("x-9", u1, TRUE) }

Symmetry == Permutations(Deliveries)
=============================================================================
