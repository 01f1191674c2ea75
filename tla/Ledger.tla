------------------------------- MODULE Ledger -------------------------------
(***************************************************************************)
(* What the wallets promise, whatever handlers, locks, transactions and    *)
(* webhooks do underneath: each prize is paid into the history once or     *)
(* given up, and each withdrawal goes one way through its statuses, with   *)
(* every debit of the history one of a transfer the bank has accepted.     *)
(* Wallet implements it.                                                   *)
(***************************************************************************)
EXTENDS Integers

CONSTANTS
  Users, Opening, Spins, Requests,
  Prizes, Amounts  \* amounts that are won, and that are asked for

VARIABLES
  sum,      \* of each user's history rows
  prizes,   \* the prizes won
  payouts,  \* the withdrawals asked for
  sent,     \* those the bank has accepted
  faulty    \* something has failed

ledgerVars == <<sum, prizes, payouts, sent, faulty>>

NoPrize  == [state |-> "none"]
NoPayout == [state |-> "none"]

LedgerInit ==
  /\ sum = Opening
  /\ prizes = [c \in Spins |-> NoPrize]
  /\ payouts = [r \in Requests |-> NoPayout]
  /\ sent = {}
  /\ faulty = FALSE

Fails == faulty' \in {faulty, TRUE}

Win(c) ==
  /\ prizes[c].state = "none"
  /\ \E u \in Users, a \in Prizes :
       prizes' = [prizes EXCEPT ![c] = [state |-> "won", user |-> u, amount |-> a]]
  /\ UNCHANGED <<sum, payouts, sent, faulty>>

Pay(c) ==
  /\ prizes[c].state = "won"
  /\ prizes' = [prizes EXCEPT ![c].state = "paid"]
  /\ sum' = [sum EXCEPT ![prizes[c].user] = @ + prizes[c].amount]
  /\ UNCHANGED <<payouts, sent, faulty>>

\* Any prizes at once that are not paid yet, or none.
GiveUp ==
  /\ \E C \in SUBSET {c \in Spins : prizes[c].state = "won"} :
       prizes' = [c \in Spins |-> IF c \in C THEN [prizes[c] EXCEPT !.state = "unpaid"] ELSE prizes[c]]
  /\ Fails
  /\ UNCHANGED <<sum, payouts, sent>>

Ask(r) ==
  /\ payouts[r].state = "none"
  /\ \E u \in Users, a \in Amounts :
       payouts' = [payouts EXCEPT ![r] = [state |-> "PENDING", user |-> u, amount |-> a]]
  /\ UNCHANGED <<sum, prizes, sent, faulty>>

Accept(r) ==
  /\ payouts[r].state = "PENDING" /\ r \notin sent
  /\ sent' = sent \cup {r}
  /\ Fails
  /\ UNCHANGED <<sum, prizes, payouts>>

\* A withdrawal that has FAILED stays so: one that was accepted does only if
\* something has failed.
Confirm(r) ==
  /\ payouts[r].state = "PENDING"
  /\ \/ /\ r \in sent
        /\ payouts' = [payouts EXCEPT ![r].state = "PROCESSING"]
     \/ /\ r \notin sent \/ faulty
        /\ payouts' = [payouts EXCEPT ![r].state = "FAILED"]
  /\ UNCHANGED <<sum, prizes, sent, faulty>>

\* Once for every report of the bank.
Settle(r) ==
  /\ payouts[r].state \in {"PROCESSING", "COMPLETED"}
  /\ payouts' = [payouts EXCEPT ![r].state = "COMPLETED"]
  /\ sum' = [sum EXCEPT ![payouts[r].user] = @ - payouts[r].amount]
  /\ UNCHANGED <<prizes, sent, faulty>>

LedgerNext ==
  \/ \E c \in Spins : Win(c) \/ Pay(c)
  \/ \E r \in Requests : Ask(r) \/ Accept(r) \/ Confirm(r) \/ Settle(r)
  \/ GiveUp

LedgerSpec == LedgerInit /\ [][LedgerNext]_ledgerVars
=============================================================================
