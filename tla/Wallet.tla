------------------------------- MODULE Wallet -------------------------------
(***************************************************************************)
(* Money in and out of the wallets: prizes of the wheel (and of quizzes)   *)
(* are credited, withdrawal requests are handed to the bank, Onionpay, and *)
(* debited when the bank's webhook reports the transfer.                   *)
(*                                                                         *)
(* Request handlers run concurrently. Credits and debits are READ COMMITTED*)
(* transactions, each of which reads the wallet and writes it later; a row *)
(* a transaction has written is locked until it ends. What a transaction   *)
(* writes appears when it commits.                                         *)
(***************************************************************************)
EXTENDS Integers

CONSTANTS
  Users,
  WalletOwners,   \* those whose sign-up got as far as the wallet
  Opening,        \* balances at the start
  Prizes,         \* amounts a spin may win
  Amounts,        \* amounts a user may ask for
  MaxSpins,       \* bound: won spins
  MaxRequests,    \* bound: withdrawal requests
  MaxHooks,       \* bound: webhook deliveries
  MaxFaults       \* bound: crashes, rejected calls and lost answers

None == 0

\* Each is numbered in the order it begins.
Spins    == 1..MaxSpins
Requests == 1..MaxRequests
Hooks    == 1..MaxHooks

ASSUME WalletAssumption ==
  /\ WalletOwners \subseteq Users
  /\ Opening \in [Users -> Nat]
  /\ Prizes \subseteq Nat /\ Amounts \subseteq Nat
  /\ MaxSpins \in Nat /\ MaxRequests \in Nat /\ MaxHooks \in Nat /\ MaxFaults \in Nat
  /\ None \notin Users

VARIABLES
  balance,     \* Wallet.balance
  ledger,      \* sum of the wallet's WalletHistory rows, openings included
  requests,    \* WithdrawalRequest rows
  withdraw,    \* the handler that made each request
  accepted,    \* the bank: transfers it has accepted
  credits,     \* WheelSpin rows won, with the credit that follows
  hooks,       \* webhook deliveries
  debits,      \* WITHDRAWAL history rows of each request
  faults,      \* crashes, rejected calls and lost answers so far
  overlapped   \* history: <<u, k>>, a transaction of kind k read u's wallet
               \* while another had read it and not ended, or the reverse

vars == <<balance, ledger, requests, withdraw, accepted, credits, hooks,
          debits, faults, overlapped>>
tables == <<balance, ledger, debits>>

NoRequest == [status |-> "none", user |-> None, amount |-> 0, session |-> FALSE]
NoSpin    == [pc |-> "none", user |-> None, amount |-> 0, found |-> 0]
NoHook    == [pc |-> "none", req |-> None, event |-> "none", found |-> 0]

Init ==
  /\ balance = Opening
  /\ ledger = Opening
  /\ requests = [r \in Requests |-> NoRequest]
  /\ withdraw = [r \in Requests |-> "none"]
  /\ accepted = {}
  /\ credits = [c \in Spins |-> NoSpin]
  /\ hooks = [h \in Hooks |-> NoHook]
  /\ debits = [r \in Requests |-> 0]
  /\ faults = 0
  /\ overlapped = {}

----------------------------------------------------------------------------
(* Transactions on a wallet                                                *)

CreditReads(c, u) == credits[c].pc \in {"increment", "commit"} /\ credits[c].user = u
DebitReads(h, u) ==
  hooks[h].pc \in {"write", "commit"} /\ requests[hooks[h].req].user = u

\* No transaction holds the wallet's row.
WalletFree(u) ==
  /\ \A c \in Spins : ~(CreditReads(c, u) /\ credits[c].pc = "commit")
  /\ \A h \in Hooks : ~(DebitReads(h, u) /\ hooks[h].pc = "commit")

OpenKinds(u) ==
  {k \in {"credit", "debit"} :
     \/ k = "credit" /\ \E c \in Spins : CreditReads(c, u)
     \/ k = "debit" /\ \E h \in Hooks : DebitReads(h, u)}

\* A transaction of kind k reads the wallet.
Overlap(u, k) ==
  overlapped' = IF OpenKinds(u) = {} THEN overlapped
                ELSE overlapped \cup ({u} \X (OpenKinds(u) \cup {k}))

----------------------------------------------------------------------------
(* Credits: spin and creditUserWallet                                      *)

\* The spin is recorded as won; the credit follows.
WinSpin(c, u, a) ==
  /\ credits[c].pc = "none" /\ \A d \in Spins : d < c => credits[d].pc # "none"
  /\ credits' = [credits EXCEPT ![c] = [pc |-> "find", user |-> u, amount |-> a, found |-> 0]]
  /\ UNCHANGED <<tables, requests, withdraw, accepted, hooks, faults, overlapped>>

\* Without a wallet one is created, and the id of null read after that: the
\* transaction is rolled back and the wallet with it. The mutant has the test
\* the wrong way round.
AfterFindInverted(u) == IF u \in WalletOwners THEN "unpaid" ELSE "increment"
AfterFind(u) == IF u \in WalletOwners THEN "increment" ELSE "unpaid"

FindWallet(c) ==
  LET u == credits[c].user IN
  /\ credits[c].pc = "find"
  /\ credits' = [credits EXCEPT ![c].pc = AfterFind(u), ![c].found = balance[u]]
  /\ Overlap(u, "credit")
  /\ UNCHANGED <<tables, requests, withdraw, accepted, hooks, faults>>

IncrementBalance(c) ==
  /\ credits[c].pc = "increment"
  /\ WalletFree(credits[c].user)
  /\ credits' = [credits EXCEPT ![c].pc = "commit"]
  /\ UNCHANGED <<tables, requests, withdraw, accepted, hooks, faults, overlapped>>

\* balance: { increment: amount }. The mutant writes the sum it computed itself.
IncrementedByRead(c) == credits[c].found + credits[c].amount
Incremented(c) == balance[credits[c].user] + credits[c].amount

CommitCredit(c) ==
  LET u == credits[c].user IN
  /\ credits[c].pc = "commit"
  /\ balance' = [balance EXCEPT ![u] = Incremented(c)]
  /\ ledger' = [ledger EXCEPT ![u] = @ + credits[c].amount]
  /\ credits' = [credits EXCEPT ![c].pc = "paid", ![c].found = 0]
  /\ UNCHANGED <<requests, withdraw, accepted, hooks, debits, faults, overlapped>>

\* The transaction fails; the spin logs the error and still answers that it won.
CreditFails(c) ==
  /\ credits[c].pc \in {"find", "increment", "commit"}
  /\ faults < MaxFaults
  /\ credits' = [credits EXCEPT ![c].pc = "unpaid", ![c].found = 0]
  /\ faults' = faults + 1
  /\ UNCHANGED <<tables, requests, withdraw, accepted, hooks, overlapped>>

----------------------------------------------------------------------------
(* createWithdrawalRequest                                                 *)

\* "Insufficient balance" otherwise. The mutant compares the other way round.
SufficientSwapped(u, a) == balance[u] <= a
Sufficient(u, a) == balance[u] > a

\* The balance is looked at outside the transaction, and nothing is reserved.
CheckBalance(r, u, a) ==
  /\ withdraw[r] = "none" /\ \A q \in Requests : q < r => withdraw[q] # "none"
  /\ u \in WalletOwners /\ Sufficient(u, a)
  /\ requests' = [requests EXCEPT ![r].user = u, ![r].amount = a]
  /\ withdraw' = [withdraw EXCEPT ![r] = "create"]
  /\ UNCHANGED <<tables, accepted, credits, hooks, faults, overlapped>>

\* Without a bank account there is no request.
CreateRequest(r) ==
  /\ withdraw[r] = "create"
  /\ \/ /\ requests' = [requests EXCEPT ![r].status = "PENDING"]
        /\ withdraw' = [withdraw EXCEPT ![r] = "transfer"]
     \/ /\ withdraw' = [withdraw EXCEPT ![r] = "done"]
        /\ UNCHANGED requests
  /\ UNCHANGED <<tables, accepted, credits, hooks, faults, overlapped>>

\* makeBankTransfer takes an error of any kind for a refusal, a lost answer too.
MakeBankTransfer(r) ==
  /\ withdraw[r] = "transfer"
  /\ \/ /\ accepted' = accepted \cup {r}
        /\ withdraw' = [withdraw EXCEPT ![r] = "accepted"]
        /\ UNCHANGED faults
     \/ /\ withdraw' = [withdraw EXCEPT ![r] = "refused"]
        /\ UNCHANGED <<accepted, faults>>
     \/ /\ faults < MaxFaults
        /\ accepted' = accepted \cup {r}
        /\ withdraw' = [withdraw EXCEPT ![r] = "refused"]
        /\ faults' = faults + 1
  /\ UNCHANGED <<tables, requests, credits, hooks, overlapped>>

\* The status, and the session id by which the webhook will find the request.
RecordTransfer(r) ==
  /\ \/ /\ withdraw[r] = "accepted"
        /\ requests' = [requests EXCEPT ![r].status = "PROCESSING", ![r].session = TRUE]
     \/ /\ withdraw[r] = "refused"
        /\ requests' = [requests EXCEPT ![r].status = "FAILED"]
  /\ withdraw' = [withdraw EXCEPT ![r] = "done"]
  /\ UNCHANGED <<tables, accepted, credits, hooks, faults, overlapped>>

WithdrawFails(r) ==
  /\ withdraw[r] \in {"create", "transfer", "accepted", "refused"}
  /\ faults < MaxFaults
  /\ withdraw' = [withdraw EXCEPT ![r] = "done"]
  /\ faults' = faults + 1
  /\ UNCHANGED <<tables, requests, accepted, credits, hooks, overlapped>>

----------------------------------------------------------------------------
(* handleWebhook                                                           *)

Events == {"transfer-completed", "payment-received"}

\* findFirst by session id and reference: not before RecordTransfer. The mutants
\* do without the test of null, and without the session id.
FoundUnchecked(r) == TRUE
FoundByReference(r) == r # None /\ requests[r].status # "none"
Found(r) == r # None /\ requests[r].session

\* The mutant takes the event of an incoming payment.
SettlesOnPayment(e) == e = "payment-received"
Settles(e) == e = "transfer-completed"

\* The bank reports a transfer it accepted, as often as it likes and as early as
\* it likes, or one that is not ours. Every report is answered with 200.
ReceiveWebhook(h, r, e) ==
  /\ hooks[h].pc = "none" /\ \A g \in Hooks : g < h => hooks[g].pc # "none"
  /\ hooks' = [hooks EXCEPT ![h] =
       IF Found(r)
       THEN [pc |-> IF Settles(e) THEN "complete" ELSE "done", req |-> r, event |-> e, found |-> 0]
       ELSE [NoHook EXCEPT !.pc = "unknown"]]
  /\ UNCHANGED <<tables, requests, withdraw, accepted, credits, faults, overlapped>>

\* The request's row is updated first, whatever its status was: transactions of
\* the same request wait here for one another.
CompleteRequest(h) ==
  /\ hooks[h].pc = "complete"
  /\ \A g \in Hooks : hooks[g].req = hooks[h].req => hooks[g].pc \notin {"read", "write", "commit"}
  /\ hooks' = [hooks EXCEPT ![h].pc = "read"]
  /\ UNCHANGED <<tables, requests, withdraw, accepted, credits, faults, overlapped>>

ReadWallet(h) ==
  LET u == requests[hooks[h].req].user IN
  /\ hooks[h].pc = "read"
  /\ hooks' = [hooks EXCEPT ![h].pc = "write", ![h].found = balance[u]]
  /\ Overlap(u, "debit")
  /\ UNCHANGED <<tables, requests, withdraw, accepted, credits, faults>>

WriteBalance(h) ==
  /\ hooks[h].pc = "write"
  /\ WalletFree(requests[hooks[h].req].user)
  /\ hooks' = [hooks EXCEPT ![h].pc = "commit"]
  /\ UNCHANGED <<tables, requests, withdraw, accepted, credits, faults, overlapped>>

\* The balance is set to the difference computed from the read.
BalanceAfter(h) == hooks[h].found - requests[hooks[h].req].amount

CommitDebit(h) ==
  LET r == hooks[h].req
      u == requests[r].user
  IN
  /\ hooks[h].pc = "commit"
  /\ requests' = [requests EXCEPT ![r].status = "COMPLETED"]
  /\ balance' = [balance EXCEPT ![u] = BalanceAfter(h)]
  /\ ledger' = [ledger EXCEPT ![u] = @ - requests[r].amount]
  /\ debits' = [debits EXCEPT ![r] = @ + 1]
  /\ hooks' = [hooks EXCEPT ![h].pc = "done", ![h].found = 0]
  /\ UNCHANGED <<withdraw, accepted, credits, faults, overlapped>>

HookFails(h) ==
  /\ hooks[h].pc \in {"complete", "read", "write", "commit"}
  /\ faults < MaxFaults
  /\ hooks' = [hooks EXCEPT ![h].pc = "failed", ![h].found = 0]
  /\ faults' = faults + 1
  /\ UNCHANGED <<tables, requests, withdraw, accepted, credits, overlapped>>

\* The process dies: handlers and their open transactions are gone.
Crash ==
  /\ faults < MaxFaults
  /\ faults' = faults + 1
  /\ withdraw' = [r \in Requests |-> IF withdraw[r] = "none" THEN "none" ELSE "done"]
  /\ credits' = [c \in Spins |->
       IF credits[c].pc \in {"none", "paid"} THEN credits[c]
       ELSE [credits[c] EXCEPT !.pc = "unpaid", !.found = 0]]
  /\ hooks' = [h \in Hooks |->
       IF hooks[h].pc \in {"none", "unknown", "done"} THEN hooks[h]
       ELSE [hooks[h] EXCEPT !.pc = "failed", !.found = 0]]
  /\ UNCHANGED <<tables, requests, accepted, overlapped>>

----------------------------------------------------------------------------

CreditStep(c)   == FindWallet(c) \/ IncrementBalance(c) \/ CommitCredit(c)
WithdrawStep(r) == CreateRequest(r) \/ MakeBankTransfer(r) \/ RecordTransfer(r)
HookStep(h)     == CompleteRequest(h) \/ ReadWallet(h) \/ WriteBalance(h) \/ CommitDebit(h)

Next ==
  \/ \E c \in Spins :
       \/ \E u \in Users, a \in Prizes : WinSpin(c, u, a)
       \/ CreditStep(c) \/ CreditFails(c)
  \/ \E r \in Requests :
       \/ \E u \in Users, a \in Amounts : CheckBalance(r, u, a)
       \/ WithdrawStep(r) \/ WithdrawFails(r)
  \/ \E h \in Hooks :
       \/ \E r \in accepted \cup {None}, e \in Events : ReceiveWebhook(h, r, e)
       \/ HookStep(h) \/ HookFails(h)
  \/ Crash

Spec == Init /\ [][Next]_vars

\* Node resumes every handler whose call has returned, and the database grants a
\* lock once it is free. Users, the bank and faults are not fair.
FairSpec ==
  /\ Spec
  /\ \A c \in Spins : WF_vars(CreditStep(c))
  /\ \A r \in Requests : WF_vars(WithdrawStep(r))
  /\ \A h \in Hooks : WF_vars(HookStep(h))

----------------------------------------------------------------------------
(* Properties                                                              *)

Statuses == {"none", "PENDING", "PROCESSING", "COMPLETED", "FAILED"}
Withdrawal == [status : Statuses, user : Users \cup {None}, amount : Amounts \cup {0},
               session : BOOLEAN]
Spin == [pc : {"none", "find", "increment", "commit", "paid", "unpaid"},
         user : Users \cup {None}, amount : Prizes \cup {0}, found : Int]
Hook == [pc : {"none", "unknown", "complete", "read", "write", "commit", "done", "failed"},
         req : Requests \cup {None}, event : Events \cup {"none"}, found : Int]

\* Types; a handler that acts on a request or a wallet has found one.
TypeOK ==
  /\ balance \in [Users -> Int]
  /\ ledger \in [Users -> Int]
  /\ requests \in [Requests -> Withdrawal]
  /\ withdraw \in [Requests -> {"none", "create", "transfer", "accepted", "refused", "done"}]
  /\ accepted \subseteq Requests
  /\ credits \in [Spins -> Spin]
  /\ hooks \in [Hooks -> Hook]
  /\ debits \in [Requests -> Nat]
  /\ faults \in Nat
  /\ overlapped \subseteq Users \X {"credit", "debit"}
  /\ \A c \in Spins : credits[c].pc # "none" => credits[c].user \in Users
  /\ \A r \in Requests : withdraw[r] # "none" <=> requests[r].user # None
  /\ \A h \in Hooks :
       hooks[h].pc \in {"complete", "read", "write", "commit"} =>
         hooks[h].req # None /\ requests[hooks[h].req].user # None

\* A wallet's balance is the sum of its history, with any number of concurrent
\* credits, unless a debit overlapped another transaction of that wallet.
HistoryExplainsBalance ==
  \A u \in Users : <<u, "debit">> \notin overlapped => balance[u] = ledger[u]

\* How Wallet implements Ledger: a prize is open while its credit is under way, and
\* a withdrawal exists once its row does.
PrizeOf(c) ==
  IF credits[c].pc = "none" THEN [state |-> "none"]
  ELSE [state  |-> IF credits[c].pc \in {"paid", "unpaid"} THEN credits[c].pc ELSE "won",
        user   |-> credits[c].user,
        amount |-> credits[c].amount]
PayoutOf(r) ==
  IF requests[r].status = "none" THEN [state |-> "none"]
  ELSE [state |-> requests[r].status, user |-> requests[r].user, amount |-> requests[r].amount]

Abstract == INSTANCE Ledger WITH
  sum     <- ledger,
  prizes  <- [c \in Spins |-> PrizeOf(c)],
  payouts <- [r \in Requests |-> PayoutOf(r)],
  sent    <- accepted,
  faulty  <- faults > 0

\* Credits, withdrawals and webhooks keep Ledger's promise: no prize is paid twice or
\* after it was given up, only transfers the bank accepted are debited, and neither
\* COMPLETED nor FAILED is ever taken back.
ImplementsLedger == Abstract!LedgerSpec

\* One debit never overdraws a wallet, credits and lost updates included: that
\* takes two of them, of one request or of two that both passed the check.
OverdraftNeedsTwoDebits ==
  \A u \in Users :
    balance[u] < 0 =>
      \/ \E r \in Requests : requests[r].user = u /\ debits[r] >= 2
      \/ \E r, s \in Requests :
           /\ r # s /\ requests[r].user = u /\ requests[s].user = u
           /\ debits[r] > 0 /\ debits[s] > 0

\* A won spin of a user who has a wallet is credited, unless a fault strikes.
WonIsCredited ==
  \A c \in Spins :
    credits[c].pc = "find" /\ credits[c].user \in WalletOwners
    ~> credits[c].pc = "paid" \/ faults > 0

\* A report of a completed transfer that finds its request completes and debits
\* it, whatever locks it meets, unless a fault strikes.
ReportIsSettled ==
  \A h \in Hooks :
    hooks[h].event = "transfer-completed"
    ~> (hooks[h].req # None /\ debits[hooks[h].req] > 0) \/ faults > 0
=============================================================================
