---------------------------- MODULE BankAccounts ----------------------------
(***************************************************************************)
(* The bank accounts of one user, one of which is the default of the next  *)
(* withdrawal. Adding one takes three statements, each committed by        *)
(* itself; the other two operations look the account up and then run a     *)
(* transaction, which PostgreSQL's row locks make one step: it happens as  *)
(* a whole, or not at all.                                                 *)
(***************************************************************************)
EXTENDS Integers, FiniteSets

CONSTANTS
  Accounts,     \* account numbers
  MaxRequests,  \* bound: requests
  MaxBankFaults \* bound: requests that fail between two statements

Requests == 1..MaxRequests   \* in the order they begin
NoAccountNo == "none"

ASSUME BankAssumption ==
  /\ IsFiniteSet(Accounts) /\ NoAccountNo \notin Accounts
  /\ MaxRequests \in Nat /\ MaxBankFaults \in Nat

VARIABLES
  bank,        \* the BankAccount rows
  withdrawals, \* what there is of WithdrawalRequest rows for each of them
  request,     \* the requests
  bankFaults,  \* requests that failed half-way so far
  entangled    \* history: two requests overlapped, or one that adds an account failed half-way,
               \* and no request to set the default was alone since

bankVars == <<bank, withdrawals, request, bankFaults, entangled>>

NoBank == [there |-> FALSE, default |-> FALSE]
NoBankRequest == [pc |-> "none", account |-> NoAccountNo, default |-> FALSE]

BankInit ==
  /\ bank = [a \in Accounts |-> NoBank]
  /\ withdrawals = [a \in Accounts |-> "none"]
  /\ request = [q \in Requests |-> NoBankRequest]
  /\ bankFaults = 0
  /\ entangled = FALSE

There == {a \in Accounts : bank[a].there}
Defaults == {a \in There : bank[a].default}
Pending == {q \in Requests : request[q].pc \notin {"none", "done"}}

\* Request q begins, about account a, and goes on at pc.
Ask(q, a, pc) ==
  /\ request[q].pc = "none" /\ \A p \in Requests : p < q => request[p].pc # "none"
  /\ request' = [request EXCEPT ![q] =
       [pc |-> pc, account |-> a, default |-> a \in There /\ bank[a].default]]
  /\ entangled' = (entangled \/ Pending # {})
Answer(q) == request' = [request EXCEPT ![q].pc = "done"]

----------------------------------------------------------------------------
(* addBankInformation                                                      *)

\* The unique index refuses an account number the user has.
AddAccount(q, a) ==
  /\ a \notin There
  /\ Ask(q, a, "count")
  /\ bank' = [bank EXCEPT ![a].there = TRUE]
  /\ UNCHANGED <<withdrawals, bankFaults>>

\* The mutant makes every account the default.
IsFirstAlways == There # {}
IsFirst == Cardinality(There) = 1
CountAccounts(q) ==
  /\ request[q].pc = "count"
  /\ request' = [request EXCEPT ![q].pc = IF IsFirst THEN "default" ELSE "done"]
  /\ UNCHANGED <<bank, withdrawals, bankFaults, entangled>>

\* One that is gone by now cannot be updated.
MakeFirstDefault(q) ==
  /\ request[q].pc = "default"
  /\ bank' = IF request[q].account \in There
             THEN [bank EXCEPT ![request[q].account].default = TRUE] ELSE bank
  /\ Answer(q)
  /\ UNCHANGED <<withdrawals, bankFaults, entangled>>

----------------------------------------------------------------------------
(* setDefaultBankAccount                                                   *)

FindAccount(q, a) ==
  /\ a \in There
  /\ Ask(q, a, "set default")
  /\ UNCHANGED <<bank, withdrawals, bankFaults>>

SetDefault(q) ==
  LET a == request[q].account IN
  /\ request[q].pc = "set default"
  /\ bank' = IF a \in There THEN [b \in Accounts |-> [bank[b] EXCEPT !.default = b = a]] ELSE bank
  /\ entangled' = (entangled /\ ~(a \in There /\ Pending = {q}))
  /\ Answer(q)
  /\ UNCHANGED <<withdrawals, bankFaults>>

----------------------------------------------------------------------------
(* deleteBankAccount                                                       *)

\* Refused while a withdrawal to it is PENDING or PROCESSING.
FindDoomed(q, a) ==
  /\ a \in There
  /\ Ask(q, a, "check")
  /\ UNCHANGED <<bank, withdrawals, bankFaults>>
CheckPending(q) ==
  /\ request[q].pc = "check"
  /\ request' = [request EXCEPT ![q].pc =
       IF withdrawals[request[q].account] = "open" THEN "done" ELSE "delete"]
  /\ UNCHANGED <<bank, withdrawals, bankFaults, entangled>>

\* The foreign key keeps an account with any withdrawal. If it was the default when
\* it was found, another one becomes it.
DeleteAccount(q) ==
  LET a == request[q].account  rest == There \ {a} IN
  /\ request[q].pc = "delete"
  /\ IF a \notin There \/ withdrawals[a] # "none"
     THEN UNCHANGED bank
     ELSE IF request[q].default /\ rest # {}
     THEN \E b \in rest : bank' = [bank EXCEPT ![a] = NoBank, ![b].default = TRUE]
     ELSE bank' = [bank EXCEPT ![a] = NoBank]
  /\ Answer(q)
  /\ UNCHANGED <<withdrawals, bankFaults, entangled>>

----------------------------------------------------------------------------

\* Withdrawals, modelled in Wallet: one is requested, and is paid or fails.
Withdraw(a) ==
  /\ a \in There
  /\ \/ withdrawals[a] # "open" /\ withdrawals' = [withdrawals EXCEPT ![a] = "open"]
     \/ withdrawals[a] = "open" /\ withdrawals' = [withdrawals EXCEPT ![a] = "closed"]
  /\ UNCHANGED <<bank, request, bankFaults, entangled>>

\* A request dies, or its transaction is aborted as a deadlock or for a row that
\* another has deleted.
RequestFails(q) ==
  /\ bankFaults < MaxBankFaults /\ q \in Pending
  /\ bankFaults' = bankFaults + 1
  /\ Answer(q)
  /\ entangled' = (entangled \/ request[q].pc \in {"count", "default"})
  /\ UNCHANGED <<bank, withdrawals>>

BankNext ==
  \/ \E q \in Requests :
       \/ \E a \in Accounts : AddAccount(q, a) \/ FindAccount(q, a) \/ FindDoomed(q, a)
       \/ CountAccounts(q) \/ MakeFirstDefault(q)
       \/ SetDefault(q) \/ CheckPending(q) \/ DeleteAccount(q)
       \/ RequestFails(q)
  \/ \E a \in Accounts : Withdraw(a)

BankSpec == BankInit /\ [][BankNext]_bankVars

----------------------------------------------------------------------------
(* Properties                                                              *)

\* Types, and that no withdrawal loses its account.
BankTypeOK ==
  /\ bank \in [Accounts -> [there : BOOLEAN, default : BOOLEAN]]
  /\ withdrawals \in [Accounts -> {"none", "open", "closed"}]
  /\ request \in [Requests -> [pc : {"none", "count", "default", "set default", "check",
                                     "delete", "done"},
                               account : Accounts \cup {NoAccountNo}, default : BOOLEAN]]
  /\ bankFaults \in Nat /\ entangled \in BOOLEAN
  /\ \A a \in Accounts : withdrawals[a] # "none" => a \in There
  /\ \A q \in Pending : request[q].account \in Accounts

\* Whatever was added, made the default and deleted in whatever order: between
\* requests, a user with bank accounts has exactly one default, also when a deletion
\* or a change of the default fails; of requests that overlap, and of an account that
\* was added by half, nothing is said until the default is set by a request alone.
OneDefault ==
  ~entangled /\ Pending = {} /\ There # {} => Cardinality(Defaults) = 1
=============================================================================
