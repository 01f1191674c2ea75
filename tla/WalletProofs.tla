---------------------------- MODULE WalletProofs ----------------------------
(* Theorems about Wallet, for every value of its constants. *)
EXTENDS Wallet, TLAPS

LEMMA Bounds ==
  /\ Spins \subseteq Nat \ {0} /\ Requests \subseteq Nat \ {0} /\ Hooks \subseteq Nat \ {0}
  /\ None \notin Spins /\ None \notin Requests /\ None \notin Users
  /\ Prizes \subseteq Int /\ Amounts \subseteq Int
  /\ Opening \in [Users -> Int]
  BY WalletAssumption DEF Spins, Requests, Hooks, None

LEMMA NoneTypes ==
  /\ NoRequest \in Withdrawal /\ NoSpin \in Spin /\ NoHook \in Hook
  /\ NoHook.pc = "none" /\ NoSpin.pc = "none" /\ NoRequest.user = None
  /\ NoRequest.status = "none" /\ ~NoRequest.session /\ NoHook.req = None
  BY DEF NoRequest, NoSpin, NoHook, Withdrawal, Spin, Hook, Statuses

----------------------------------------------------------------------------
(* What the actions do to the rows and handlers, field by field            *)

\* Row or handler i becomes q, and the others stay.
RequestIs(r, q) ==
  /\ requests' \in [Requests -> Withdrawal] /\ requests'[r] = q
  /\ \A s \in Requests \ {r} : requests'[s] = requests[s]
SpinIs(c, q) ==
  /\ credits' \in [Spins -> Spin] /\ credits'[c] = q
  /\ \A d \in Spins \ {c} : credits'[d] = credits[d]
HookIs(h, q) ==
  /\ hooks' \in [Hooks -> Hook] /\ hooks'[h] = q
  /\ \A g \in Hooks \ {h} : hooks'[g] = hooks[g]
Handled(r, pc) ==
  /\ withdraw' \in [Requests -> {"none", "create", "transfer", "accepted", "refused", "done"}]
  /\ withdraw'[r] = pc
  /\ \A s \in Requests \ {r} : withdraw'[s] = withdraw[s]

LEMMA RequestWritten ==
  ASSUME TypeOK, NEW r \in Requests, NEW q \in Withdrawal, requests' = [requests EXCEPT ![r] = q]
  PROVE  RequestIs(r, q)
  BY DEF TypeOK, RequestIs

LEMMA SpinWritten ==
  ASSUME TypeOK, NEW c \in Spins, NEW q \in Spin, credits' = [credits EXCEPT ![c] = q]
  PROVE  SpinIs(c, q)
  BY DEF TypeOK, SpinIs

LEMMA HookWritten ==
  ASSUME TypeOK, NEW h \in Hooks, NEW q \in Hook, hooks' = [hooks EXCEPT ![h] = q]
  PROVE  HookIs(h, q)
  BY DEF TypeOK, HookIs

LEMMA HandlerMoves ==
  ASSUME TypeOK, NEW r \in Requests,
         NEW pc \in {"none", "create", "transfer", "accepted", "refused", "done"},
         withdraw' = [withdraw EXCEPT ![r] = pc]
  PROVE  Handled(r, pc)
  BY DEF TypeOK, Handled

\* A step of a credit after the first keeps its user and amount.
CreditMoves(c, pc, n) ==
  /\ credits' \in [Spins -> Spin]
  /\ credits'[c].pc = pc /\ credits'[c].found = n
  /\ credits'[c].user = credits[c].user /\ credits'[c].amount = credits[c].amount
  /\ \A d \in Spins \ {c} : credits'[d] = credits[d]
\* A step of a webhook after the first, its request and event.
HookMoves(h, pc, n) ==
  /\ hooks' \in [Hooks -> Hook]
  /\ hooks'[h].pc = pc /\ hooks'[h].found = n
  /\ hooks'[h].req = hooks[h].req /\ hooks'[h].event = hooks[h].event
  /\ \A g \in Hooks \ {h} : hooks'[g] = hooks[g]
\* A write of a request's row after the first, its user and amount.
StatusMoves(r, st, b) ==
  /\ requests' \in [Requests -> Withdrawal]
  /\ requests'[r].status = st /\ requests'[r].session = b
  /\ requests'[r].user = requests[r].user /\ requests'[r].amount = requests[r].amount
  /\ \A s \in Requests \ {r} : requests'[s] = requests[s]

LEMMA WinSpinDoes ==
  ASSUME TypeOK, NEW c \in Spins, NEW u \in Users, NEW a \in Prizes, WinSpin(c, u, a)
  PROVE  /\ credits[c].pc = "none"
         /\ SpinIs(c, [pc |-> "find", user |-> u, amount |-> a, found |-> 0])
<1>1. [pc |-> "find", user |-> u, amount |-> a, found |-> 0] \in Spin
  BY DEF Spin
<1> QED BY <1>1, SpinWritten DEF WinSpin

FindWalletEffect(c) ==
  /\ credits[c].pc = "find" /\ credits[c].user \in Users
  /\ CreditMoves(c, AfterFind(credits[c].user), balance[credits[c].user])
LEMMA FindWalletDoes ==
  ASSUME TypeOK, NEW c \in Spins, FindWallet(c) PROVE FindWalletEffect(c)
<1> DEFINE u == credits[c].user
           q == [credits[c] EXCEPT !.pc = AfterFind(u), !.found = balance[u]]
<1>1. credits[c] \in Spin /\ u \in Users /\ balance[u] \in Int /\ credits[c].pc = "find"
  BY DEF TypeOK, FindWallet
<1>2. AfterFind(u) \in {"increment", "unpaid"}
  BY DEF AfterFind
<1>3. q \in Spin /\ q.pc = AfterFind(u) /\ q.found = balance[u]
      /\ q.user = credits[c].user /\ q.amount = credits[c].amount
  BY <1>1, <1>2 DEF Spin
<1>4. credits' = [credits EXCEPT ![c] = q]
  BY DEF FindWallet
<1> HIDE DEF q
<1>5. SpinIs(c, q)
  BY <1>3, <1>4, SpinWritten
<1> QED BY <1>1, <1>3, <1>5 DEF SpinIs, CreditMoves, FindWalletEffect

LEMMA SpinAdvanced ==
  ASSUME NEW p \in Spin, NEW pc \in {"commit"}, NEW q, q = [p EXCEPT !.pc = pc]
  PROVE  q \in Spin /\ q.pc = pc /\ q.user = p.user /\ q.amount = p.amount /\ q.found = p.found
<1>1. [p EXCEPT !.pc = pc] = [pc |-> pc, user |-> p.user, amount |-> p.amount, found |-> p.found]
  BY DEF Spin
<1>2. [p EXCEPT !.pc = pc] \in Spin
  BY DEF Spin
<1> QED BY <1>1, <1>2

LEMMA CreditAdvances ==
  ASSUME TypeOK, NEW c \in Spins, NEW pc \in {"commit"}, credits' = [credits EXCEPT ![c].pc = pc]
  PROVE  CreditMoves(c, pc, credits[c].found)
<1> DEFINE p == credits[c]
           q == [p EXCEPT !.pc = pc]
<1>1. p \in Spin
  BY DEF TypeOK
<1>2. credits' = [credits EXCEPT ![c] = q]
  OBVIOUS
<1>3. q = [p EXCEPT !.pc = pc]
  OBVIOUS
<1> HIDE DEF q, p
<1>4. q \in Spin /\ q.pc = pc /\ q.user = p.user /\ q.amount = p.amount /\ q.found = p.found
  BY <1>1, <1>3, SpinAdvanced
<1>5. SpinIs(c, q)
  BY <1>2, <1>4, SpinWritten
<1> QED BY <1>4, <1>5 DEF SpinIs, CreditMoves, p

LEMMA IncrementBalanceDoes ==
  ASSUME TypeOK, NEW c \in Spins, IncrementBalance(c)
  PROVE  credits[c].pc = "increment" /\ CreditMoves(c, "commit", credits[c].found)
  BY CreditAdvances DEF IncrementBalance

\* Both ends of a credit's transaction.
LEMMA CreditEnds ==
  ASSUME TypeOK, NEW c \in Spins, NEW pc \in {"paid", "unpaid"}, NEW n \in Int,
         credits' = [credits EXCEPT ![c] = [credits[c] EXCEPT !.pc = pc, !.found = n]]
  PROVE  CreditMoves(c, pc, n)
<1> DEFINE q == [credits[c] EXCEPT !.pc = pc, !.found = n]
<1>1. credits[c] \in Spin
  BY DEF TypeOK
<1>2. q \in Spin /\ q.pc = pc /\ q.found = n
      /\ q.user = credits[c].user /\ q.amount = credits[c].amount
  BY <1>1 DEF Spin
<1>3. credits' = [credits EXCEPT ![c] = q]
  OBVIOUS
<1> HIDE DEF q
<1>4. SpinIs(c, q)
  BY <1>2, <1>3, SpinWritten
<1> QED BY <1>2, <1>4 DEF SpinIs, CreditMoves

CommitCreditEffect(c) ==
  LET u == credits[c].user  a == credits[c].amount IN
  /\ credits[c].pc = "commit" /\ u \in Users /\ a \in Int
  /\ CreditMoves(c, "paid", 0)
  /\ balance' \in [Users -> Int] /\ ledger' \in [Users -> Int]
  /\ balance'[u] = balance[u] + a /\ ledger'[u] = ledger[u] + a
  /\ \A v \in Users \ {u} : balance'[v] = balance[v] /\ ledger'[v] = ledger[v]
LEMMA CommitCreditDoes ==
  ASSUME TypeOK, NEW c \in Spins, CommitCredit(c) PROVE CommitCreditEffect(c)
<1> DEFINE u == credits[c].user
           a == credits[c].amount
<1>1. /\ u \in Users /\ a \in Int
      /\ balance \in [Users -> Int] /\ ledger \in [Users -> Int]
  BY Bounds DEF TypeOK, CommitCredit, Spin
<1>2. balance' = [balance EXCEPT ![u] = balance[u] + a]
  BY DEF CommitCredit, Incremented
<1>3. ledger' = [ledger EXCEPT ![u] = ledger[u] + a]
  BY <1>1 DEF CommitCredit
<1>4. CreditMoves(c, "paid", 0)
  <2>1. credits' = [credits EXCEPT ![c] = [credits[c] EXCEPT !.pc = "paid", !.found = 0]]
    BY DEF CommitCredit
  <2>2. 0 \in Int
    OBVIOUS
  <2> QED BY <2>1, <2>2, CreditEnds, Zenon
<1>5. credits[c].pc = "commit"
  BY DEF CommitCredit
<1> QED BY <1>1, <1>2, <1>3, <1>4, <1>5 DEF CommitCreditEffect

LEMMA CreditFailsDoes ==
  ASSUME TypeOK, NEW c \in Spins, CreditFails(c)
  PROVE  credits[c].pc \in {"find", "increment", "commit"} /\ CreditMoves(c, "unpaid", 0)
<1>1. credits' = [credits EXCEPT ![c] = [credits[c] EXCEPT !.pc = "unpaid", !.found = 0]]
  BY DEF CreditFails
<1>2. 0 \in Int
  OBVIOUS
<1>3. CreditMoves(c, "unpaid", 0)
  BY <1>1, <1>2, CreditEnds, Zenon
<1> QED BY <1>3 DEF CreditFails

CheckBalanceEffect(r, u, a) ==
  /\ withdraw[r] = "none" /\ balance[u] > a
  /\ Handled(r, "create")
  /\ requests' \in [Requests -> Withdrawal]
  /\ requests'[r].status = requests[r].status /\ requests'[r].session = requests[r].session
  /\ requests'[r].user = u /\ requests'[r].amount = a
  /\ \A s \in Requests \ {r} : requests'[s] = requests[s]
LEMMA CheckBalanceDoes ==
  ASSUME TypeOK, NEW r \in Requests, NEW u \in Users, NEW a \in Amounts, CheckBalance(r, u, a)
  PROVE  CheckBalanceEffect(r, u, a)
<1> DEFINE q == [requests[r] EXCEPT !.user = u, !.amount = a]
<1>1. requests[r] \in Withdrawal
  BY DEF TypeOK
<1>2. q \in Withdrawal /\ q.user = u /\ q.amount = a
      /\ q.status = requests[r].status /\ q.session = requests[r].session
  BY <1>1 DEF Withdrawal
<1>3. requests' = [requests EXCEPT ![r] = q]
  BY DEF CheckBalance
<1> HIDE DEF q
<1>4. RequestIs(r, q)
  BY <1>2, <1>3, RequestWritten
<1>5. Handled(r, "create")
  BY HandlerMoves DEF CheckBalance
<1> QED BY <1>2, <1>4, <1>5 DEF RequestIs, CheckBalance, CheckBalanceEffect, Sufficient

LEMMA StatusOnly ==
  ASSUME TypeOK, NEW r \in Requests, NEW st \in Statuses,
         requests' = [requests EXCEPT ![r].status = st]
  PROVE  StatusMoves(r, st, requests[r].session)
<1> DEFINE q == [requests[r] EXCEPT !.status = st]
<1>1. requests[r] \in Withdrawal
  BY DEF TypeOK
<1>2. q \in Withdrawal /\ q.status = st /\ q.session = requests[r].session
      /\ q.user = requests[r].user /\ q.amount = requests[r].amount
  BY <1>1 DEF Withdrawal
<1>3. requests' = [requests EXCEPT ![r] = q]
  OBVIOUS
<1> HIDE DEF q
<1>4. RequestIs(r, q)
  BY <1>2, <1>3, RequestWritten
<1> QED BY <1>2, <1>4 DEF RequestIs, StatusMoves

CreateRequestEffect(r) ==
  /\ withdraw[r] = "create"
  /\ \/ StatusMoves(r, "PENDING", requests[r].session) /\ Handled(r, "transfer")
     \/ UNCHANGED requests /\ Handled(r, "done")
LEMMA CreateRequestDoes ==
  ASSUME TypeOK, NEW r \in Requests, CreateRequest(r) PROVE CreateRequestEffect(r)
<1>1. "PENDING" \in Statuses
  BY DEF Statuses
<1>2. requests' = [requests EXCEPT ![r].status = "PENDING"]
      => StatusMoves(r, "PENDING", requests[r].session)
  BY <1>1, StatusOnly
<1> QED BY <1>2, HandlerMoves DEF CreateRequest, CreateRequestEffect

MakeBankTransferEffect(r) ==
  /\ withdraw[r] = "transfer"
  /\ \/ accepted' = accepted \cup {r} /\ Handled(r, "accepted") /\ faults' = faults
     \/ accepted' = accepted /\ Handled(r, "refused") /\ faults' = faults
     \/ accepted' = accepted \cup {r} /\ Handled(r, "refused") /\ faults' = faults + 1
LEMMA MakeBankTransferDoes ==
  ASSUME TypeOK, NEW r \in Requests, MakeBankTransfer(r) PROVE MakeBankTransferEffect(r)
  BY HandlerMoves DEF MakeBankTransfer, MakeBankTransferEffect

RecordTransferEffect(r) ==
  /\ Handled(r, "done")
  /\ \/ withdraw[r] = "accepted" /\ StatusMoves(r, "PROCESSING", TRUE)
     \/ withdraw[r] = "refused" /\ StatusMoves(r, "FAILED", requests[r].session)
LEMMA RecordTransferDoes ==
  ASSUME TypeOK, NEW r \in Requests, RecordTransfer(r) PROVE RecordTransferEffect(r)
<1> DEFINE q == [requests[r] EXCEPT !.status = "PROCESSING", !.session = TRUE]
<1>1. requests[r] \in Withdrawal
  BY DEF TypeOK
<1>2. q \in Withdrawal /\ q.status = "PROCESSING" /\ q.session = TRUE
      /\ q.user = requests[r].user /\ q.amount = requests[r].amount
  BY <1>1 DEF Withdrawal, Statuses
<1>3. ASSUME withdraw[r] = "accepted" PROVE requests' = [requests EXCEPT ![r] = q]
  BY <1>3 DEF RecordTransfer
<1> HIDE DEF q
<1>4. ASSUME withdraw[r] = "accepted" PROVE StatusMoves(r, "PROCESSING", TRUE)
  <2>1. RequestIs(r, q)
    BY <1>2, <1>3, <1>4, RequestWritten
  <2> QED BY <1>2, <2>1 DEF RequestIs, StatusMoves
<1>5. ASSUME withdraw[r] = "refused" PROVE StatusMoves(r, "FAILED", requests[r].session)
  BY <1>5, StatusOnly DEF RecordTransfer, Statuses
<1>6. Handled(r, "done")
  BY HandlerMoves DEF RecordTransfer
<1> QED BY <1>4, <1>5, <1>6 DEF RecordTransfer, RecordTransferEffect

LEMMA WithdrawFailsDoes ==
  ASSUME TypeOK, NEW r \in Requests, WithdrawFails(r)
  PROVE  /\ withdraw[r] \in {"create", "transfer", "accepted", "refused"}
         /\ Handled(r, "done")
  BY HandlerMoves DEF WithdrawFails

ReceiveWebhookEffect(h) ==
  /\ hooks[h].pc = "none"
  /\ \E q \in Hook :
       /\ HookIs(h, q)
       /\ \/ q.pc \in {"complete", "done"} /\ q.req \in Requests /\ requests[q.req].session
          \/ q.pc = "unknown"
LEMMA ReceiveWebhookDoes ==
  ASSUME TypeOK, NEW h \in Hooks, NEW r \in accepted \cup {None}, NEW e \in Events,
         ReceiveWebhook(h, r, e)
  PROVE  ReceiveWebhookEffect(h)
<1> DEFINE p == [pc |-> IF Settles(e) THEN "complete" ELSE "done", req |-> r, event |-> e, found |-> 0]
           z == [NoHook EXCEPT !.pc = "unknown"]
           q == IF Found(r) THEN p ELSE z
<1>1. Found(r) => r \in Requests /\ requests[r].session
  BY DEF Found, TypeOK
<1>2. Found(r) => p \in Hook /\ p.pc \in {"complete", "done"} /\ p.req = r
  BY <1>1 DEF Hook
<1>3. z \in Hook /\ z.pc = "unknown"
  BY NoneTypes DEF Hook
<1>4. hooks' = [hooks EXCEPT ![h] = q] /\ hooks[h].pc = "none"
  BY Zenon DEF ReceiveWebhook
<1> HIDE DEF p, z
<1>5. q \in Hook
  BY <1>2, <1>3
<1>6. \/ q.pc \in {"complete", "done"} /\ q.req \in Requests /\ requests[q.req].session
      \/ q.pc = "unknown"
  BY <1>1, <1>2, <1>3
<1> HIDE DEF q
<1>7. HookIs(h, q)
  BY <1>4, <1>5, HookWritten
<1> QED BY <1>4, <1>5, <1>6, <1>7 DEF ReceiveWebhookEffect

\* CompleteRequest and WriteBalance.
LEMMA HookAdvances ==
  ASSUME TypeOK, NEW h \in Hooks, NEW pc \in {"read", "commit"},
         hooks' = [hooks EXCEPT ![h].pc = pc]
  PROVE  HookMoves(h, pc, hooks[h].found)
<1> DEFINE q == [hooks[h] EXCEPT !.pc = pc]
<1>1. hooks[h] \in Hook
  BY DEF TypeOK
<1>2. q \in Hook /\ q.pc = pc /\ q.found = hooks[h].found
      /\ q.req = hooks[h].req /\ q.event = hooks[h].event
  BY <1>1 DEF Hook
<1>3. hooks' = [hooks EXCEPT ![h] = q]
  OBVIOUS
<1> HIDE DEF q
<1>4. HookIs(h, q)
  BY <1>2, <1>3, HookWritten
<1> QED BY <1>2, <1>4 DEF HookIs, HookMoves

\* ReadWallet and both ends of a webhook's transaction.
LEMMA HookWrites ==
  ASSUME TypeOK, NEW h \in Hooks, NEW pc \in {"write", "done", "failed"}, NEW n \in Int,
         hooks' = [hooks EXCEPT ![h] = [hooks[h] EXCEPT !.pc = pc, !.found = n]]
  PROVE  HookMoves(h, pc, n)
<1> DEFINE q == [hooks[h] EXCEPT !.pc = pc, !.found = n]
<1>1. hooks[h] \in Hook
  BY DEF TypeOK
<1>2. q \in Hook /\ q.pc = pc /\ q.found = n
      /\ q.req = hooks[h].req /\ q.event = hooks[h].event
  BY <1>1 DEF Hook
<1>3. hooks' = [hooks EXCEPT ![h] = q]
  OBVIOUS
<1> HIDE DEF q
<1>4. HookIs(h, q)
  BY <1>2, <1>3, HookWritten
<1> QED BY <1>2, <1>4 DEF HookIs, HookMoves

\* The request and the user of a webhook that is at work.
LEMMA HookHasRequest ==
  ASSUME TypeOK, NEW h \in Hooks, hooks[h].pc \in {"complete", "read", "write", "commit"}
  PROVE  /\ hooks[h].req \in Requests
         /\ requests[hooks[h].req].user \in Users
         /\ requests[hooks[h].req].amount \in Int
<1> DEFINE q == requests[hooks[h].req]
<1>1. hooks[h] \in Hook /\ hooks[h].req # None
  BY DEF TypeOK
<1>2. hooks[h].req \in Requests
  BY <1>1 DEF Hook
<1>3. q \in Withdrawal /\ q.user # None
  BY <1>1, <1>2 DEF TypeOK
<1> HIDE DEF q
<1>4. q.user \in Users /\ q.amount \in Amounts \cup {0}
  BY <1>3 DEF Withdrawal
<1>5. Amounts \cup {0} \subseteq Int
  BY WalletAssumption
<1> QED BY <1>2, <1>4, <1>5 DEF q

ReadWalletEffect(h) ==
  LET u == requests[hooks[h].req].user IN
  /\ hooks[h].pc = "read" /\ hooks[h].req \in Requests /\ u \in Users
  /\ HookMoves(h, "write", balance[u])
LEMMA ReadWalletDoes ==
  ASSUME TypeOK, NEW h \in Hooks, ReadWallet(h) PROVE ReadWalletEffect(h)
<1> DEFINE u == requests[hooks[h].req].user
<1>1. hooks[h].pc = "read"
  BY DEF ReadWallet
<1>2. hooks[h].req \in Requests /\ u \in Users
  BY <1>1, HookHasRequest
<1>3. balance[u] \in Int
  BY <1>2 DEF TypeOK
<1>4. hooks' = [hooks EXCEPT ![h] = [hooks[h] EXCEPT !.pc = "write", !.found = balance[u]]]
  BY DEF ReadWallet
<1>5. HookMoves(h, "write", balance[u])
  BY <1>3, <1>4, HookWrites, Zenon
<1> QED BY <1>1, <1>2, <1>5 DEF ReadWalletEffect

CommitDebitEffect(h) ==
  LET r == hooks[h].req  u == requests[r].user  a == requests[r].amount IN
  /\ hooks[h].pc = "commit" /\ r \in Requests /\ u \in Users /\ a \in Int
  /\ HookMoves(h, "done", 0)
  /\ StatusMoves(r, "COMPLETED", requests[r].session)
  /\ balance' \in [Users -> Int] /\ ledger' \in [Users -> Int]
  /\ balance'[u] = hooks[h].found - a /\ ledger'[u] = ledger[u] - a
  /\ \A v \in Users \ {u} : balance'[v] = balance[v] /\ ledger'[v] = ledger[v]
  /\ debits' \in [Requests -> Nat] /\ debits'[r] = debits[r] + 1
  /\ \A s \in Requests \ {r} : debits'[s] = debits[s]
LEMMA CommitDebitDoes ==
  ASSUME TypeOK, NEW h \in Hooks, CommitDebit(h) PROVE CommitDebitEffect(h)
<1> DEFINE r == hooks[h].req
           u == requests[r].user
           a == requests[r].amount
<1>1. hooks[h].pc = "commit"
  BY DEF CommitDebit
<1>2. r \in Requests /\ u \in Users /\ a \in Int
  BY <1>1, HookHasRequest
<1>3. hooks[h].found \in Int
  BY DEF TypeOK, Hook
<1>4. balance' = [balance EXCEPT ![u] = hooks[h].found - a] /\ balance \in [Users -> Int]
  BY DEF CommitDebit, BalanceAfter, TypeOK
<1>5. ledger' = [ledger EXCEPT ![u] = ledger[u] - a] /\ ledger \in [Users -> Int]
  BY <1>2 DEF CommitDebit, TypeOK
<1>6. debits' = [debits EXCEPT ![r] = debits[r] + 1] /\ debits \in [Requests -> Nat]
  BY <1>2 DEF CommitDebit, TypeOK
<1>7. HookMoves(h, "done", 0)
  <2>1. hooks' = [hooks EXCEPT ![h] = [hooks[h] EXCEPT !.pc = "done", !.found = 0]]
    BY DEF CommitDebit
  <2>2. 0 \in Int
    OBVIOUS
  <2> QED BY <2>1, <2>2, HookWrites, Zenon
<1>8. StatusMoves(r, "COMPLETED", requests[r].session)
  BY <1>2, StatusOnly DEF CommitDebit, Statuses
<1> HIDE DEF r, u, a
<1>9. balance' \in [Users -> Int] /\ balance'[u] = hooks[h].found - a
      /\ \A v \in Users \ {u} : balance'[v] = balance[v]
  BY <1>2, <1>3, <1>4
<1>10. ledger' \in [Users -> Int] /\ ledger'[u] = ledger[u] - a
       /\ \A v \in Users \ {u} : ledger'[v] = ledger[v]
  BY <1>2, <1>5
<1>11. debits' \in [Requests -> Nat] /\ debits'[r] = debits[r] + 1
       /\ \A s \in Requests \ {r} : debits'[s] = debits[s]
  BY <1>2, <1>6
<1> QED BY <1>1, <1>2, <1>7, <1>8, <1>9, <1>10, <1>11 DEF CommitDebitEffect, r, u, a

HookFailsEffect(h) ==
  /\ hooks[h].pc \in {"complete", "read", "write", "commit"}
  /\ HookMoves(h, "failed", 0)
LEMMA HookFailsDoes ==
  ASSUME TypeOK, NEW h \in Hooks, HookFails(h) PROVE HookFailsEffect(h)
<1>1. hooks' = [hooks EXCEPT ![h] = [hooks[h] EXCEPT !.pc = "failed", !.found = 0]]
  BY DEF HookFails
<1>2. 0 \in Int
  OBVIOUS
<1>3. HookMoves(h, "failed", 0)
  BY <1>1, <1>2, HookWrites, Zenon
<1> QED BY <1>3 DEF HookFails, HookFailsEffect

\* What a crash makes of them.
CreditStops(c) ==
  /\ credits'[c].pc = "unpaid" /\ credits'[c].found = 0
  /\ credits'[c].user = credits[c].user /\ credits'[c].amount = credits[c].amount
HookStops(h) ==
  /\ hooks'[h].pc = "failed" /\ hooks'[h].found = 0
  /\ hooks'[h].req = hooks[h].req /\ hooks'[h].event = hooks[h].event
CrashEffect ==
  /\ withdraw' \in [Requests -> {"none", "create", "transfer", "accepted", "refused", "done"}]
  /\ \A r \in Requests : withdraw'[r] = IF withdraw[r] = "none" THEN "none" ELSE "done"
  /\ credits' \in [Spins -> Spin]
  /\ \A c \in Spins :
       \/ credits[c].pc \in {"none", "paid"} /\ credits'[c] = credits[c]
       \/ credits[c].pc \notin {"none", "paid"} /\ CreditStops(c)
  /\ hooks' \in [Hooks -> Hook]
  /\ \A h \in Hooks :
       \/ hooks[h].pc \in {"none", "unknown", "done"} /\ hooks'[h] = hooks[h]
       \/ hooks[h].pc \notin {"none", "unknown", "done"} /\ HookStops(h)
LEMMA CrashDoes == ASSUME TypeOK, Crash PROVE CrashEffect
<1>1. /\ withdraw' \in [Requests -> {"none", "create", "transfer", "accepted", "refused", "done"}]
      /\ \A r \in Requests : withdraw'[r] = IF withdraw[r] = "none" THEN "none" ELSE "done"
  BY DEF Crash, TypeOK
<1>2. ASSUME NEW c \in Spins
      PROVE  /\ credits'[c] \in Spin
             /\ \/ credits[c].pc \in {"none", "paid"} /\ credits'[c] = credits[c]
                \/ credits[c].pc \notin {"none", "paid"} /\ CreditStops(c)
  <2> DEFINE n == 0
             pc == "unpaid"
             q == [credits[c] EXCEPT !.pc = pc, !.found = n]
  <2>0. n \in Int
    OBVIOUS
  <2>1. credits[c] \in Spin
    BY DEF TypeOK
  <2> HIDE DEF n
  <2>2. q \in Spin
    BY <2>0, <2>1 DEF Spin
  <2>3. q.pc = pc /\ q.found = n
    BY <2>1 DEF Spin
  <2>4. q.user = credits[c].user /\ q.amount = credits[c].amount
    BY <2>1 DEF Spin
  <2>5. credits'[c] = IF credits[c].pc \in {"none", "paid"} THEN credits[c] ELSE q
    BY DEF Crash, n
  <2> HIDE DEF q
  <2> QED BY <2>1, <2>2, <2>3, <2>4, <2>5 DEF CreditStops, n
<1>3. ASSUME NEW h \in Hooks
      PROVE  /\ hooks'[h] \in Hook
             /\ \/ hooks[h].pc \in {"none", "unknown", "done"} /\ hooks'[h] = hooks[h]
                \/ hooks[h].pc \notin {"none", "unknown", "done"} /\ HookStops(h)
  <2> DEFINE n == 0
             pc == "failed"
             q == [hooks[h] EXCEPT !.pc = pc, !.found = n]
  <2>0. n \in Int
    OBVIOUS
  <2>1. hooks[h] \in Hook
    BY DEF TypeOK
  <2> HIDE DEF n
  <2>2. q \in Hook
    BY <2>0, <2>1 DEF Hook
  <2>3. q.pc = pc /\ q.found = n
    BY <2>1 DEF Hook
  <2>4. q.req = hooks[h].req /\ q.event = hooks[h].event
    BY <2>1 DEF Hook
  <2>5. hooks'[h] = IF hooks[h].pc \in {"none", "unknown", "done"} THEN hooks[h] ELSE q
    BY DEF Crash, n
  <2> HIDE DEF q
  <2> QED BY <2>1, <2>2, <2>3, <2>4, <2>5 DEF HookStops, n
<1>4. credits' \in [Spins -> Spin]
  <2> DEFINE f(c) == IF credits[c].pc \in {"none", "paid"} THEN credits[c]
                     ELSE [credits[c] EXCEPT !.pc = "unpaid", !.found = 0]
  <2>1. credits' = [c \in Spins |-> f(c)]
    BY DEF Crash
  <2> HIDE DEF f
  <2> QED BY <1>2, <2>1
<1>5. hooks' \in [Hooks -> Hook]
  <2> DEFINE f(h) == IF hooks[h].pc \in {"none", "unknown", "done"} THEN hooks[h]
                     ELSE [hooks[h] EXCEPT !.pc = "failed", !.found = 0]
  <2>1. hooks' = [h \in Hooks |-> f(h)]
    BY DEF Crash
  <2> HIDE DEF f
  <2> QED BY <1>3, <2>1
<1> QED BY <1>1, <1>2, <1>3, <1>4, <1>5 DEF CrashEffect

----------------------------------------------------------------------------
(* Types                                                                   *)

LEMMA OverlapTyped ==
  ASSUME TypeOK, NEW u \in Users, NEW k \in {"credit", "debit"}, Overlap(u, k)
  PROVE  overlapped' \subseteq Users \X {"credit", "debit"}
<1>1. OpenKinds(u) \cup {k} \subseteq {"credit", "debit"}
  BY DEF OpenKinds
<1> QED BY <1>1 DEF Overlap, TypeOK

\* What is known of a request when its handler is where it is, and of one the
\* webhook has found.
RequestOK(r) ==
  /\ withdraw[r] \in {"none", "create"} => requests[r].status = "none" /\ ~requests[r].session
  /\ withdraw[r] \in {"transfer", "accepted", "refused"} =>
       requests[r].status = "PENDING" /\ ~requests[r].session
  /\ withdraw[r] # "none" => requests[r].amount \in Amounts
  /\ withdraw[r] \in {"none", "create", "transfer"} => r \notin accepted
  /\ withdraw[r] = "accepted" => r \in accepted
  /\ withdraw[r] = "refused" => r \notin accepted \/ faults > 0
  /\ requests[r].session =>
       withdraw[r] = "done" /\ requests[r].status \in {"PROCESSING", "COMPLETED"}
HookOK(h) ==
  hooks[h].pc \in {"complete", "read", "write", "commit"} => requests[hooks[h].req].session

\* TypeOK is not inductive: a webhook finds a request by the session id, and only
\* RequestOK says that one with a session id has a user.
WalletInv ==
  /\ TypeOK
  /\ \A r \in Requests : RequestOK(r)
  /\ \A h \in Hooks : HookOK(h)

LEMMA TypeInit == Init => TypeOK
  BY Bounds, NoneTypes DEF Init, TypeOK

LEMMA TypeStep == ASSUME WalletInv, [Next]_vars PROVE TypeOK'
<1> TypeOK
  BY DEF WalletInv
<1> USE Bounds DEF TypeOK
<1> DEFINE Users0 == \A s \in Requests : withdraw[s] # "none" <=> requests[s].user # None
           Hooks0 == \A g \in Hooks :
             hooks[g].pc \in {"complete", "read", "write", "commit"} =>
               hooks[g].req # None /\ requests[hooks[g].req].user # None
<1>0. \A g \in Hooks : hooks[g].pc \in {"complete", "read", "write", "commit"} =>
                         hooks[g].req \in Requests /\ requests[hooks[g].req].user # None
  BY HookHasRequest
<1>1. ASSUME NEW c \in Spins, NEW u \in Users, NEW a \in Prizes, WinSpin(c, u, a) PROVE TypeOK'
  <2>1. UNCHANGED <<tables, requests, withdraw, accepted, hooks, faults, overlapped>>
    BY <1>1 DEF WinSpin
  <2>2. SpinIs(c, [pc |-> "find", user |-> u, amount |-> a, found |-> 0])
    BY <1>1, WinSpinDoes
  <2> QED BY <2>1, <2>2 DEF SpinIs, tables
<1>2. ASSUME NEW c \in Spins, FindWallet(c) PROVE TypeOK'
  <2>1. UNCHANGED <<tables, requests, withdraw, accepted, hooks, faults>>
        /\ Overlap(credits[c].user, "credit")
    BY <1>2 DEF FindWallet
  <2>2. FindWalletEffect(c)
    BY <1>2, FindWalletDoes
  <2>3. overlapped' \subseteq Users \X {"credit", "debit"}
    BY <2>1, <2>2, OverlapTyped DEF FindWalletEffect
  <2> QED BY <2>1, <2>2, <2>3 DEF FindWalletEffect, CreditMoves, tables
<1>3. ASSUME NEW c \in Spins, IncrementBalance(c) PROVE TypeOK'
  <2>1. UNCHANGED <<tables, requests, withdraw, accepted, hooks, faults, overlapped>>
    BY <1>3 DEF IncrementBalance
  <2>2. credits[c].pc = "increment" /\ CreditMoves(c, "commit", credits[c].found)
    BY <1>3, IncrementBalanceDoes
  <2> QED BY <2>1, <2>2 DEF CreditMoves, tables
<1>4. ASSUME NEW c \in Spins, CommitCredit(c) PROVE TypeOK'
  <2>1. UNCHANGED <<requests, withdraw, accepted, hooks, debits, faults, overlapped>>
    BY <1>4 DEF CommitCredit
  <2>2. CommitCreditEffect(c)
    BY <1>4, CommitCreditDoes
  <2> QED BY <2>1, <2>2 DEF CommitCreditEffect, CreditMoves
<1>5. ASSUME NEW c \in Spins, CreditFails(c) PROVE TypeOK'
  <2>1. UNCHANGED <<tables, requests, withdraw, accepted, hooks, overlapped>> /\ faults' = faults + 1
    BY <1>5 DEF CreditFails
  <2>2. credits[c].pc \in {"find", "increment", "commit"} /\ CreditMoves(c, "unpaid", 0)
    BY <1>5, CreditFailsDoes
  <2> QED BY <2>1, <2>2 DEF CreditMoves, tables
<1>6. ASSUME NEW r \in Requests, NEW u \in Users, NEW a \in Amounts, CheckBalance(r, u, a) PROVE TypeOK'
  <2>1. UNCHANGED <<tables, accepted, credits, hooks, faults, overlapped>>
    BY <1>6 DEF CheckBalance
  <2>2. CheckBalanceEffect(r, u, a)
    BY <1>6, CheckBalanceDoes
  <2>3. Users0'
    BY <2>1, <2>2 DEF CheckBalanceEffect, Handled
  <2>4. Hooks0'
    <3>1. \A s \in Requests : requests[s].user # None => requests'[s].user # None
      BY <2>2 DEF CheckBalanceEffect
    <3>2. hooks' = hooks
      BY <2>1
    <3> QED BY <1>0, <3>1, <3>2
  <2> QED BY <2>1, <2>2, <2>3, <2>4 DEF CheckBalanceEffect, Handled, tables
<1>7. ASSUME NEW r \in Requests, CreateRequest(r) PROVE TypeOK'
  <2>1. UNCHANGED <<tables, accepted, credits, hooks, faults, overlapped>>
    BY <1>7 DEF CreateRequest
  <2>2. CreateRequestEffect(r)
    BY <1>7, CreateRequestDoes
  <2>3. \A s \in Requests : requests'[s].user = requests[s].user
    BY <2>2 DEF CreateRequestEffect, StatusMoves
  <2>4. Users0'
    BY <2>1, <2>2, <2>3 DEF CreateRequestEffect, Handled
  <2>5. Hooks0'
    <3>1. hooks' = hooks
      BY <2>1
    <3> QED BY <1>0, <2>3, <3>1
  <2> QED BY <2>1, <2>2, <2>4, <2>5 DEF CreateRequestEffect, StatusMoves, Handled, tables
<1>8. ASSUME NEW r \in Requests, MakeBankTransfer(r) PROVE TypeOK'
  <2>1. UNCHANGED <<tables, requests, credits, hooks, overlapped>>
    BY <1>8 DEF MakeBankTransfer
  <2>2. MakeBankTransferEffect(r)
    BY <1>8, MakeBankTransferDoes
  <2>3. faults \in Nat /\ accepted \subseteq Requests
    OBVIOUS
  <2>3a. faults' \in Nat
    BY <2>2, <2>3 DEF MakeBankTransferEffect
  <2>3b. accepted' \subseteq Requests
    BY <2>2, <2>3 DEF MakeBankTransferEffect
  <2>4. Users0'
    BY <2>1, <2>2 DEF MakeBankTransferEffect, Handled
  <2>5. withdraw' \in [Requests -> {"none", "create", "transfer", "accepted", "refused", "done"}]
    BY <2>2 DEF MakeBankTransferEffect, Handled
  <2> QED BY <2>1, <2>3a, <2>3b, <2>4, <2>5 DEF tables
<1>9. ASSUME NEW r \in Requests, RecordTransfer(r) PROVE TypeOK'
  <2>1. UNCHANGED <<tables, accepted, credits, hooks, faults, overlapped>>
    BY <1>9 DEF RecordTransfer
  <2>2. RecordTransferEffect(r)
    BY <1>9, RecordTransferDoes
  <2>3. \A s \in Requests : requests'[s].user = requests[s].user
    BY <2>2 DEF RecordTransferEffect, StatusMoves
  <2>4. Users0'
    BY <2>1, <2>2, <2>3 DEF RecordTransferEffect, Handled
  <2>5. Hooks0'
    <3>1. hooks' = hooks
      BY <2>1
    <3> QED BY <1>0, <2>3, <3>1
  <2> QED BY <2>1, <2>2, <2>4, <2>5 DEF RecordTransferEffect, StatusMoves, Handled, tables
<1>10. ASSUME NEW r \in Requests, WithdrawFails(r) PROVE TypeOK'
  <2>1. UNCHANGED <<tables, requests, accepted, credits, hooks, overlapped>> /\ faults' = faults + 1
    BY <1>10 DEF WithdrawFails
  <2>2. withdraw[r] \in {"create", "transfer", "accepted", "refused"} /\ Handled(r, "done")
    BY <1>10, WithdrawFailsDoes
  <2> QED BY <2>1, <2>2 DEF Handled, tables
<1>11. ASSUME NEW h \in Hooks, NEW r \in accepted \cup {None}, NEW e \in Events, ReceiveWebhook(h, r, e)
       PROVE  TypeOK'
  <2>1. UNCHANGED <<tables, requests, withdraw, accepted, credits, faults, overlapped>>
    BY <1>11 DEF ReceiveWebhook
  <2>2. PICK q \in Hook :
          /\ HookIs(h, q)
          /\ \/ q.pc \in {"complete", "done"} /\ q.req \in Requests /\ requests[q.req].session
             \/ q.pc = "unknown"
    BY <1>11, ReceiveWebhookDoes DEF ReceiveWebhookEffect
  <2>3. \A s \in Requests : requests[s].session => requests[s].user # None
    BY DEF WalletInv, RequestOK
  <2> QED BY <2>1, <2>2, <2>3 DEF HookIs, tables
<1>12. ASSUME NEW h \in Hooks, CompleteRequest(h) PROVE TypeOK'
  <2>1. UNCHANGED <<tables, requests, withdraw, accepted, credits, faults, overlapped>>
        /\ hooks[h].pc = "complete"
    BY <1>12 DEF CompleteRequest
  <2>2. HookMoves(h, "read", hooks[h].found)
    BY <1>12, HookAdvances DEF CompleteRequest
  <2> QED BY <2>1, <2>2 DEF HookMoves, tables
<1>13. ASSUME NEW h \in Hooks, ReadWallet(h) PROVE TypeOK'
  <2>1. UNCHANGED <<tables, requests, withdraw, accepted, credits, faults>>
        /\ hooks[h].pc = "read" /\ Overlap(requests[hooks[h].req].user, "debit")
    BY <1>13 DEF ReadWallet
  <2>2. ReadWalletEffect(h)
    BY <1>13, ReadWalletDoes
  <2>3. requests[hooks[h].req].user \in Users
    BY <2>1, HookHasRequest
  <2>4. overlapped' \subseteq Users \X {"credit", "debit"}
    BY <2>1, <2>3, OverlapTyped
  <2>5. hooks' \in [Hooks -> Hook]
    BY <2>2 DEF ReadWalletEffect, HookMoves
  <2>6. Hooks0'
    BY <1>0, <2>1, <2>2 DEF ReadWalletEffect, HookMoves
  <2> QED BY <2>1, <2>4, <2>5, <2>6 DEF tables
<1>14. ASSUME NEW h \in Hooks, WriteBalance(h) PROVE TypeOK'
  <2>1. UNCHANGED <<tables, requests, withdraw, accepted, credits, faults, overlapped>>
        /\ hooks[h].pc = "write"
    BY <1>14 DEF WriteBalance
  <2>2. HookMoves(h, "commit", hooks[h].found)
    BY <1>14, HookAdvances DEF WriteBalance
  <2> QED BY <2>1, <2>2 DEF HookMoves, tables
<1>15. ASSUME NEW h \in Hooks, CommitDebit(h) PROVE TypeOK'
  <2>1. UNCHANGED <<withdraw, accepted, credits, faults, overlapped>>
    BY <1>15 DEF CommitDebit
  <2>2. CommitDebitEffect(h)
    BY <1>15, CommitDebitDoes
  <2>3. \A s \in Requests : requests'[s].user = requests[s].user
    BY <2>2 DEF CommitDebitEffect, StatusMoves
  <2>4. Users0'
    BY <2>1, <2>3
  <2>5. Hooks0'
    <3>1. \A g \in Hooks : hooks'[g].pc \in {"complete", "read", "write", "commit"} => hooks'[g] = hooks[g]
      BY <2>2 DEF CommitDebitEffect, HookMoves
    <3> QED BY <1>0, <2>3, <3>1
  <2>6. /\ balance' \in [Users -> Int] /\ ledger' \in [Users -> Int]
        /\ debits' \in [Requests -> Nat]
        /\ requests' \in [Requests -> Withdrawal] /\ hooks' \in [Hooks -> Hook]
    BY <2>2 DEF CommitDebitEffect, HookMoves, StatusMoves
  <2> QED BY <2>1, <2>4, <2>5, <2>6
<1>16. ASSUME NEW h \in Hooks, HookFails(h) PROVE TypeOK'
  <2>1. UNCHANGED <<tables, requests, withdraw, accepted, credits, overlapped>> /\ faults' = faults + 1
    BY <1>16 DEF HookFails
  <2>2. HookFailsEffect(h)
    BY <1>16, HookFailsDoes
  <2> QED BY <2>1, <2>2 DEF HookFailsEffect, HookMoves, tables
<1>17. ASSUME Crash PROVE TypeOK'
  <2>1. UNCHANGED <<tables, requests, accepted, overlapped>> /\ faults' = faults + 1
    BY <1>17 DEF Crash
  <2>2. CrashEffect
    BY <1>17, CrashDoes
  <2> QED BY <2>1, <2>2 DEF CrashEffect, CreditStops, HookStops, tables
<1>18. ASSUME UNCHANGED vars PROVE TypeOK'
  BY <1>18 DEF vars
<1> QED
  BY <1>1, <1>2, <1>3, <1>4, <1>5, <1>6, <1>7, <1>8, <1>9, <1>10, <1>11, <1>12, <1>13, <1>14,
     <1>15, <1>16, <1>17, <1>18, Zenon
     DEF Next, CreditStep, WithdrawStep, HookStep

LEMMA OthersOK ==
  ASSUME NEW s \in Requests, RequestOK(s), requests'[s] = requests[s], withdraw'[s] = withdraw[s],
         s \in accepted' <=> s \in accepted, faults > 0 => faults' > 0
  PROVE  RequestOK(s)'
  BY DEF RequestOK

LEMMA HandlersStep ==
  ASSUME WalletInv, TypeOK', [Next]_vars
  PROVE  /\ \A r \in Requests : RequestOK(r)'
         /\ \A h \in Hooks : HookOK(h)'
<1> DEFINE Goal == /\ \A r \in Requests : RequestOK(r)'
                   /\ \A h \in Hooks : HookOK(h)'
<1> TypeOK
  BY DEF WalletInv
<1>0. /\ \A r \in Requests : RequestOK(r)
      /\ \A h \in Hooks : HookOK(h)
      /\ faults \in Nat /\ faults' \in Nat
  BY DEF WalletInv, TypeOK
\* Steps that leave the requests and their handlers alone.
<1>1. ASSUME UNCHANGED <<requests, withdraw, accepted>>, faults' >= faults,
             \A h \in Hooks : hooks'[h].pc \in {"complete", "read", "write", "commit"} =>
               \/ hooks'[h].req \in Requests /\ requests[hooks'[h].req].session
               \/ hooks'[h].req = hooks[h].req /\ hooks[h].pc \in {"complete", "read", "write", "commit"}
      PROVE  Goal
  <2>0. faults > 0 => faults' > 0
    BY <1>0, <1>1
  <2>1. ASSUME NEW r \in Requests PROVE RequestOK(r)'
    BY <1>0, <1>1, <2>0, OthersOK
  <2>2. ASSUME NEW h \in Hooks PROVE HookOK(h)'
    BY <1>0, <1>1 DEF HookOK
  <2> QED BY <2>1, <2>2
\* Steps of the handler of one request.
<1>2. ASSUME NEW r \in Requests, UNCHANGED hooks, faults' >= faults, RequestOK(r)',
             \A s \in Requests \ {r} :
               /\ requests'[s] = requests[s] /\ withdraw'[s] = withdraw[s]
               /\ s \in accepted' <=> s \in accepted,
             requests[r].session => requests'[r].session
      PROVE  Goal
  <2>0. faults > 0 => faults' > 0
    BY <1>0, <1>2
  <2>1. ASSUME NEW s \in Requests \ {r} PROVE RequestOK(s)'
    BY <1>0, <1>2, <2>0, OthersOK
  <2>2. ASSUME NEW h \in Hooks PROVE HookOK(h)'
    <3>1. \A s \in Requests : requests[s].session => requests'[s].session
      BY <1>2
    <3> QED BY <1>0, <1>2, <3>1, HookHasRequest DEF HookOK
  <2> QED BY <1>2, <2>1, <2>2
<1> HIDE DEF Goal
<1>3. ASSUME NEW c \in Spins, NEW u \in Users, NEW a \in Prizes, WinSpin(c, u, a) PROVE Goal
  BY <1>0, <1>1, <1>3 DEF WinSpin
<1>4. ASSUME NEW c \in Spins, FindWallet(c) \/ IncrementBalance(c) PROVE Goal
  BY <1>0, <1>1, <1>4 DEF FindWallet, IncrementBalance
<1>5. ASSUME NEW c \in Spins, CommitCredit(c) PROVE Goal
  BY <1>0, <1>1, <1>5 DEF CommitCredit
<1>6. ASSUME NEW c \in Spins, CreditFails(c) PROVE Goal
  BY <1>0, <1>1, <1>6 DEF CreditFails
<1>7. ASSUME NEW r \in Requests, NEW u \in Users, NEW a \in Amounts, CheckBalance(r, u, a) PROVE Goal
  <2>1. UNCHANGED <<accepted, hooks, faults>>
    BY <1>7 DEF CheckBalance
  <2>2. CheckBalanceEffect(r, u, a)
    BY <1>7, CheckBalanceDoes
  <2>3. RequestOK(r)'
    BY <1>0, <2>1, <2>2 DEF RequestOK, CheckBalanceEffect, Handled
  <2>4. \A s \in Requests \ {r} : requests'[s] = requests[s] /\ withdraw'[s] = withdraw[s]
    BY <2>2 DEF CheckBalanceEffect, Handled
  <2>5. requests'[r].session = requests[r].session
    BY <2>2 DEF CheckBalanceEffect
  <2> QED BY <1>0, <1>2, <2>1, <2>3, <2>4, <2>5
<1>8. ASSUME NEW r \in Requests, CreateRequest(r) PROVE Goal
  <2>1. UNCHANGED <<accepted, hooks, faults>>
    BY <1>8 DEF CreateRequest
  <2>2. CreateRequestEffect(r)
    BY <1>8, CreateRequestDoes
  <2>3. RequestOK(r)'
    BY <1>0, <2>1, <2>2 DEF RequestOK, CreateRequestEffect, StatusMoves, Handled
  <2>4. \A s \in Requests \ {r} : requests'[s] = requests[s] /\ withdraw'[s] = withdraw[s]
    BY <2>2 DEF CreateRequestEffect, StatusMoves, Handled
  <2>5. requests'[r].session = requests[r].session
    BY <2>2 DEF CreateRequestEffect, StatusMoves
  <2> QED BY <1>0, <1>2, <2>1, <2>3, <2>4, <2>5
<1>9. ASSUME NEW r \in Requests, MakeBankTransfer(r) PROVE Goal
  <2>1. UNCHANGED <<requests, hooks>>
    BY <1>9 DEF MakeBankTransfer
  <2>2. MakeBankTransferEffect(r)
    BY <1>9, MakeBankTransferDoes
  <2>3. faults' >= faults
    BY <1>0, <2>2 DEF MakeBankTransferEffect
  <2>4. RequestOK(r)'
    BY <1>0, <2>1, <2>2 DEF RequestOK, MakeBankTransferEffect, Handled
  <2>5. \A s \in Requests \ {r} : withdraw'[s] = withdraw[s] /\ (s \in accepted' <=> s \in accepted)
    BY <2>2 DEF MakeBankTransferEffect, Handled
  <2> QED BY <1>2, <2>1, <2>3, <2>4, <2>5
<1>10. ASSUME NEW r \in Requests, RecordTransfer(r) PROVE Goal
  <2>1. UNCHANGED <<accepted, hooks, faults>>
    BY <1>10 DEF RecordTransfer
  <2>2. RecordTransferEffect(r)
    BY <1>10, RecordTransferDoes
  <2>3. RequestOK(r)'
    BY <1>0, <2>1, <2>2 DEF RequestOK, RecordTransferEffect, StatusMoves, Handled
  <2>4. \A s \in Requests \ {r} : requests'[s] = requests[s] /\ withdraw'[s] = withdraw[s]
    BY <2>2 DEF RecordTransferEffect, StatusMoves, Handled
  <2>5. requests[r].session => requests'[r].session
    BY <2>2 DEF RecordTransferEffect, StatusMoves
  <2> QED BY <1>0, <1>2, <2>1, <2>3, <2>4, <2>5
<1>11. ASSUME NEW r \in Requests, WithdrawFails(r) PROVE Goal
  <2>1. UNCHANGED <<requests, accepted, hooks>> /\ faults' = faults + 1
    BY <1>11 DEF WithdrawFails
  <2>2. withdraw[r] \in {"create", "transfer", "accepted", "refused"} /\ Handled(r, "done")
    BY <1>11, WithdrawFailsDoes
  <2>3. RequestOK(r)'
    BY <1>0, <2>1, <2>2 DEF RequestOK, Handled
  <2>4. \A s \in Requests \ {r} : withdraw'[s] = withdraw[s]
    BY <2>2 DEF Handled
  <2> QED BY <1>0, <1>2, <2>1, <2>3, <2>4
<1>12. ASSUME NEW h \in Hooks, NEW r \in accepted \cup {None}, NEW e \in Events, ReceiveWebhook(h, r, e)
       PROVE  Goal
  <2>1. UNCHANGED <<requests, withdraw, accepted, faults>>
    BY <1>12 DEF ReceiveWebhook
  <2>2. PICK q \in Hook :
          /\ HookIs(h, q)
          /\ \/ q.pc \in {"complete", "done"} /\ q.req \in Requests /\ requests[q.req].session
             \/ q.pc = "unknown"
    BY <1>12, ReceiveWebhookDoes DEF ReceiveWebhookEffect
  <2> QED BY <1>0, <1>1, <2>1, <2>2 DEF HookIs
<1>13. ASSUME NEW h \in Hooks, CompleteRequest(h) PROVE Goal
  <2>1. UNCHANGED <<requests, withdraw, accepted, faults>> /\ hooks[h].pc = "complete"
    BY <1>13 DEF CompleteRequest
  <2>2. HookMoves(h, "read", hooks[h].found)
    BY <1>13, HookAdvances DEF CompleteRequest
  <2> QED BY <1>0, <1>1, <2>1, <2>2 DEF HookMoves
<1>14. ASSUME NEW h \in Hooks, ReadWallet(h) PROVE Goal
  <2>1. UNCHANGED <<requests, withdraw, accepted, faults>>
    BY <1>14 DEF ReadWallet
  <2>2. ReadWalletEffect(h)
    BY <1>14, ReadWalletDoes
  <2> QED BY <1>0, <1>1, <2>1, <2>2 DEF ReadWalletEffect, HookMoves
<1>15. ASSUME NEW h \in Hooks, WriteBalance(h) PROVE Goal
  <2>1. UNCHANGED <<requests, withdraw, accepted, faults>> /\ hooks[h].pc = "write"
    BY <1>15 DEF WriteBalance
  <2>2. HookMoves(h, "commit", hooks[h].found)
    BY <1>15, HookAdvances DEF WriteBalance
  <2> QED BY <1>0, <1>1, <2>1, <2>2 DEF HookMoves
<1>16. ASSUME NEW h \in Hooks, CommitDebit(h) PROVE Goal
  <2>1. UNCHANGED <<withdraw, accepted, faults>>
    BY <1>16 DEF CommitDebit
  <2>2. CommitDebitEffect(h)
    BY <1>16, CommitDebitDoes
  <2>3. PICK r \in Requests : /\ r = hooks[h].req /\ hooks[h].pc = "commit"
                              /\ HookMoves(h, "done", 0)
                              /\ StatusMoves(r, "COMPLETED", requests[r].session)
    BY <2>2 DEF CommitDebitEffect
  <2>4. requests[r].session
    BY <1>0, <2>3 DEF HookOK
  <2>5. RequestOK(r)'
    <3>1. withdraw[r] = "done" /\ requests[r].amount \in Amounts
      BY <1>0, <2>3, <2>4 DEF RequestOK
    <3>2. requests'[r].status = "COMPLETED" /\ requests'[r].amount \in Amounts
      BY <2>3, <3>1 DEF StatusMoves
    <3>3. withdraw'[r] = "done"
      BY <2>1, <3>1
    <3> QED BY <3>2, <3>3 DEF RequestOK
  <2>6. \A s \in Requests \ {r} : RequestOK(s)'
    BY <1>0, <2>1, <2>3, OthersOK DEF StatusMoves
  <2>7. \A s \in Requests : requests'[s].session = requests[s].session
    BY <2>3 DEF StatusMoves
  <2>8. ASSUME NEW g \in Hooks, hooks'[g].pc \in {"complete", "read", "write", "commit"}
        PROVE  requests'[hooks'[g].req].session
    <3>1. hooks'[g] = hooks[g]
      BY <2>3, <2>8 DEF HookMoves
    <3> QED BY <1>0, <2>7, <2>8, <3>1, HookHasRequest DEF HookOK
  <2>9. \A s \in Requests : RequestOK(s)'
    BY <2>5, <2>6
  <2>10. \A g \in Hooks : HookOK(g)'
    BY <2>8 DEF HookOK
  <2> QED BY <2>9, <2>10 DEF Goal
<1>17. ASSUME NEW h \in Hooks, HookFails(h) PROVE Goal
  <2>1. UNCHANGED <<requests, withdraw, accepted>> /\ faults' = faults + 1
    BY <1>17 DEF HookFails
  <2>2. HookFailsEffect(h)
    BY <1>17, HookFailsDoes
  <2> QED BY <1>0, <1>1, <2>1, <2>2 DEF HookFailsEffect, HookMoves
<1>18. ASSUME Crash PROVE Goal
  <2>1. UNCHANGED <<requests, accepted>> /\ faults' = faults + 1
    BY <1>18 DEF Crash
  <2>2. CrashEffect
    BY <1>18, CrashDoes
  <2>3. ASSUME NEW r \in Requests PROVE RequestOK(r)'
    BY <1>0, <2>1, <2>2 DEF RequestOK, CrashEffect
  <2>4. ASSUME NEW h \in Hooks PROVE HookOK(h)'
    BY <1>0, <2>1, <2>2 DEF HookOK, CrashEffect, HookStops
  <2> QED BY <2>3, <2>4 DEF Goal
<1>19. ASSUME UNCHANGED vars PROVE Goal
  BY <1>0, <1>1, <1>19 DEF vars
<1>20. Goal
  BY <1>3, <1>4, <1>5, <1>6, <1>7, <1>8, <1>9, <1>10, <1>11, <1>12, <1>13, <1>14,
     <1>15, <1>16, <1>17, <1>18, <1>19, Zenon
     DEF Next, CreditStep, WithdrawStep, HookStep
<1> QED BY <1>20 DEF Goal

LEMMA InvInit == Init => WalletInv
<1> SUFFICES ASSUME Init PROVE WalletInv
  OBVIOUS
<1>1. \A r \in Requests : RequestOK(r)
  BY NoneTypes DEF Init, RequestOK
<1>2. \A h \in Hooks : HookOK(h)
  BY NoneTypes DEF Init, HookOK
<1> QED BY <1>1, <1>2, TypeInit DEF WalletInv

LEMMA InvStep == WalletInv /\ [Next]_vars => WalletInv'
  BY TypeStep, HandlersStep DEF WalletInv

LEMMA InvHolds == Spec => []WalletInv
  BY InvInit, InvStep, PTL DEF Spec

\* Values have their types, and a handler that acts on a request or a wallet has
\* found one: creditUserWallet and handleWebhook read no id of null.
THEOREM TypeCorrect == Spec => []TypeOK
<1>1. WalletInv => TypeOK
  BY DEF WalletInv
<1> QED BY <1>1, InvHolds, PTL

----------------------------------------------------------------------------
(* Refinement                                                              *)

prizesBar == [c \in Spins |-> PrizeOf(c)]
payoutsBar == [r \in Requests |-> PayoutOf(r)]

PrizeAs(c, state) == [state |-> state, user |-> credits[c].user, amount |-> credits[c].amount]
PayoutAs(r, state) == [state |-> state, user |-> requests[r].user, amount |-> requests[r].amount]

LEMMA StateReplaced ==
  ASSUME NEW u, NEW a, NEW s, NEW t
  PROVE  [[state |-> s, user |-> u, amount |-> a] EXCEPT !.state = t]
           = [state |-> t, user |-> u, amount |-> a]
  OBVIOUS

LEMMA PrizeStates ==
  ASSUME NEW c \in Spins
  PROVE  /\ credits[c].pc = "none" => PrizeOf(c) = [state |-> "none"]
         /\ credits[c].pc \in {"find", "increment", "commit"} => PrizeOf(c) = PrizeAs(c, "won")
         /\ credits[c].pc \in {"paid", "unpaid"} => PrizeOf(c) = PrizeAs(c, credits[c].pc)
  BY DEF PrizeOf, PrizeAs

LEMMA PayoutStates ==
  ASSUME NEW r \in Requests
  PROVE  /\ requests[r].status = "none" => PayoutOf(r) = [state |-> "none"]
         /\ requests[r].status # "none" => PayoutOf(r) = PayoutAs(r, requests[r].status)
  BY DEF PayoutOf, PayoutAs

LEMMA FaultsRemain ==
  ASSUME TypeOK, faults' \in {faults, faults + 1}
  PROVE  (faults > 0)' \in {faults > 0, TRUE}
<1>1. faults' = faults \/ faults' > 0
  BY DEF TypeOK
<1>2. CASE faults' = faults
  BY <1>2, Zenon
<1>3. CASE faults' > 0
  <2>1. (faults' > 0) = TRUE
    BY <1>3
  <2> QED BY <2>1, Zenon
<1> QED BY <1>1, <1>2, <1>3

\* The prizes of a step that moves the credits in C from under way to given up.
LEMMA GivesUp ==
  ASSUME WalletInv, UNCHANGED <<ledger, accepted, payoutsBar>>, faults' \in {faults, faults + 1},
         \A c \in Spins :
           \/ PrizeOf(c)' = PrizeOf(c)
           \/ /\ PrizeOf(c) = PrizeAs(c, "won")
              /\ PrizeOf(c)' = PrizeAs(c, "unpaid")
  PROVE  Abstract!GiveUp
<1> DEFINE C == {c \in Spins : PrizeOf(c)' # PrizeOf(c)}
<1>1. \A c \in Spins : prizesBar[c] = PrizeOf(c)
  BY DEF prizesBar
<1>2. C \in SUBSET {c \in Spins : prizesBar[c].state = "won"}
  BY <1>1 DEF PrizeAs
<1>3. ASSUME NEW c \in Spins
      PROVE  PrizeOf(c)' = IF c \in C THEN [prizesBar[c] EXCEPT !.state = "unpaid"] ELSE prizesBar[c]
  <2>1. CASE c \in C
    <3>1. PrizeOf(c) = PrizeAs(c, "won") /\ PrizeOf(c)' = PrizeAs(c, "unpaid")
      BY <2>1
    <3>2. [PrizeAs(c, "won") EXCEPT !.state = "unpaid"] = PrizeAs(c, "unpaid")
      BY DEF PrizeAs
    <3> QED BY <1>1, <2>1, <3>1, <3>2
  <2>2. CASE c \notin C
    BY <1>1, <2>2
  <2> QED BY <2>1, <2>2
<1>4. prizesBar' = [c \in Spins |->
        IF c \in C THEN [prizesBar[c] EXCEPT !.state = "unpaid"] ELSE prizesBar[c]]
  <2> DEFINE f(c) == IF c \in C THEN [prizesBar[c] EXCEPT !.state = "unpaid"] ELSE prizesBar[c]
  <2>1. prizesBar' = [c \in Spins |-> PrizeOf(c)']
    BY DEF prizesBar
  <2>2. \A c \in Spins : PrizeOf(c)' = f(c)
    BY <1>3
  <2> HIDE DEF f
  <2>3. prizesBar' = [c \in Spins |-> f(c)]
    BY <2>1, <2>2, Zenon
  <2> QED BY <2>3 DEF f
<1>5. (faults > 0)' \in {faults > 0, TRUE}
  BY FaultsRemain DEF WalletInv
<1> HIDE DEF C
<1> QED BY <1>2, <1>4, <1>5, Zenon DEF Abstract!GiveUp, Abstract!Fails, prizesBar, payoutsBar

LEMMA PrizesStay ==
  ASSUME \A c \in Spins : PrizeOf(c)' = PrizeOf(c) PROVE prizesBar' = prizesBar
<1>1. prizesBar' = [c \in Spins |-> PrizeOf(c)']
  BY DEF prizesBar
<1> QED BY <1>1, Zenon DEF prizesBar
LEMMA PayoutsStay ==
  ASSUME \A r \in Requests : PayoutOf(r)' = PayoutOf(r) PROVE payoutsBar' = payoutsBar
<1>1. payoutsBar' = [r \in Requests |-> PayoutOf(r)']
  BY DEF payoutsBar
<1> QED BY <1>1, Zenon DEF payoutsBar

\* Prize c or payout r becomes q, and the others stay.
LEMMA PrizeChanges ==
  ASSUME NEW c \in Spins, NEW q, PrizeOf(c)' = q,
         \A d \in Spins \ {c} : PrizeOf(d)' = PrizeOf(d)
  PROVE  prizesBar' = [prizesBar EXCEPT ![c] = q]
<1>1. prizesBar' = [d \in Spins |-> PrizeOf(d)']
  BY DEF prizesBar
<1>2. \A d \in Spins : PrizeOf(d)' = IF d = c THEN q ELSE prizesBar[d]
  BY DEF prizesBar
<1>3. prizesBar' = [d \in Spins |-> IF d = c THEN q ELSE prizesBar[d]]
  BY <1>1, <1>2, Zenon
<1>4. [prizesBar EXCEPT ![c] = q] = [d \in Spins |-> IF d = c THEN q ELSE prizesBar[d]]
  BY DEF prizesBar
<1> QED BY <1>3, <1>4
LEMMA PayoutChanges ==
  ASSUME NEW r \in Requests, NEW q, PayoutOf(r)' = q,
         \A s \in Requests \ {r} : PayoutOf(s)' = PayoutOf(s)
  PROVE  payoutsBar' = [payoutsBar EXCEPT ![r] = q]
<1>1. payoutsBar' = [s \in Requests |-> PayoutOf(s)']
  BY DEF payoutsBar
<1>2. \A s \in Requests : PayoutOf(s)' = IF s = r THEN q ELSE payoutsBar[s]
  BY DEF payoutsBar
<1>3. payoutsBar' = [s \in Requests |-> IF s = r THEN q ELSE payoutsBar[s]]
  BY <1>1, <1>2, Zenon
<1>4. [payoutsBar EXCEPT ![r] = q] = [s \in Requests |-> IF s = r THEN q ELSE payoutsBar[s]]
  BY DEF payoutsBar
<1> QED BY <1>3, <1>4

LEMMA OtherPrizes ==
  ASSUME NEW d \in Spins, credits'[d] = credits[d] PROVE PrizeOf(d)' = PrizeOf(d)
  BY DEF PrizeOf
LEMMA OtherPayouts ==
  ASSUME NEW s \in Requests, requests'[s] = requests[s] PROVE PayoutOf(s)' = PayoutOf(s)
  BY DEF PayoutOf

\* The steps of Wallet that are steps of Ledger, each under the name it has there.
LEMMA IsWin ==
  ASSUME WalletInv, NEW c \in Spins, NEW u \in Users, NEW a \in Prizes, WinSpin(c, u, a)
  PROVE  Abstract!Win(c)
<1> DEFINE q == [state |-> "won", user |-> u, amount |-> a]
<1>1. UNCHANGED <<ledger, requests, accepted, faults>>
  BY DEF WinSpin, tables
<1>2. credits[c].pc = "none" /\ SpinIs(c, [pc |-> "find", user |-> u, amount |-> a, found |-> 0])
  BY WinSpinDoes DEF WalletInv
<1>3. PrizeOf(c)' = q
  BY <1>2 DEF SpinIs, PrizeOf
<1>4. prizesBar' = [prizesBar EXCEPT ![c] = q]
  BY <1>2, <1>3, OtherPrizes, PrizeChanges DEF SpinIs
<1>5. payoutsBar' = payoutsBar
  BY <1>1, OtherPayouts, PayoutsStay
<1>6. prizesBar[c].state = "none"
  BY <1>2 DEF prizesBar, PrizeOf
<1>7. UNCHANGED <<ledger, payoutsBar, accepted, faults > 0>>
  BY <1>1, <1>5
<1> QED BY <1>4, <1>6, <1>7, Zenon DEF Abstract!Win, prizesBar, payoutsBar

LEMMA IsPay ==
  ASSUME WalletInv, NEW c \in Spins, CommitCredit(c)
  PROVE  Abstract!Pay(c)
<1> DEFINE u == credits[c].user
           a == credits[c].amount
<1>1. UNCHANGED <<requests, accepted, faults>>
  BY DEF CommitCredit
<1>2. CommitCreditEffect(c)
  BY CommitCreditDoes DEF WalletInv
<1>3. credits[c].pc = "commit" /\ CreditMoves(c, "paid", 0)
  BY <1>2 DEF CommitCreditEffect
<1>4. PrizeOf(c)' = PrizeAs(c, "paid")
  BY <1>3 DEF CreditMoves, PrizeOf, PrizeAs
<1>5. prizesBar[c] = PrizeAs(c, "won")
  BY <1>3 DEF prizesBar, PrizeOf, PrizeAs
<1>6. prizesBar' = [prizesBar EXCEPT ![c] = PrizeAs(c, "paid")]
  BY <1>3, <1>4, OtherPrizes, PrizeChanges DEF CreditMoves
<1>7. [prizesBar[c] EXCEPT !.state = "paid"] = PrizeAs(c, "paid")
  BY <1>5 DEF PrizeAs
<1>8. prizesBar' = [prizesBar EXCEPT ![c].state = "paid"]
  BY <1>6, <1>7, Zenon
<1>9. prizesBar[c].state = "won" /\ prizesBar[c].user = u /\ prizesBar[c].amount = a
  BY <1>5 DEF PrizeAs
<1>10. ledger' = [ledger EXCEPT ![prizesBar[c].user] = ledger[prizesBar[c].user] + prizesBar[c].amount]
  BY <1>9 DEF CommitCredit
<1>11. payoutsBar' = payoutsBar
  BY <1>1, OtherPayouts, PayoutsStay
<1>12. UNCHANGED <<payoutsBar, accepted, faults > 0>>
  BY <1>1, <1>11
<1>13. prizesBar[c].user \in Users /\ ledger \in [Users -> Int]
  BY <1>2, <1>9 DEF CommitCreditEffect, WalletInv, TypeOK
<1> QED BY <1>8, <1>9, <1>10, <1>12, <1>13, Zenon DEF Abstract!Pay, prizesBar, payoutsBar

LEMMA IsAsk ==
  ASSUME WalletInv, NEW r \in Requests, CreateRequest(r), StatusMoves(r, "PENDING", requests[r].session)
  PROVE  Abstract!Ask(r)
<1> DEFINE u == requests[r].user
           a == requests[r].amount
           q == [state |-> "PENDING", user |-> u, amount |-> a]
<1>1. UNCHANGED <<ledger, credits, accepted, faults>> /\ withdraw[r] = "create"
  BY DEF CreateRequest, tables
<1>2. requests[r].status = "none" /\ a \in Amounts
  BY <1>1 DEF WalletInv, RequestOK
<1>3. u \in Users
  BY <1>1, Bounds DEF WalletInv, TypeOK, Withdrawal
<1>4. PayoutOf(r)' = q
  BY DEF StatusMoves, PayoutOf
<1>5. payoutsBar' = [payoutsBar EXCEPT ![r] = q]
  BY <1>4, OtherPayouts, PayoutChanges DEF StatusMoves
<1>6. prizesBar' = prizesBar
  BY <1>1, OtherPrizes, PrizesStay
<1>7. payoutsBar[r].state = "none"
  BY <1>2 DEF payoutsBar, PayoutOf
<1>8. UNCHANGED <<ledger, prizesBar, accepted, faults > 0>>
  BY <1>1, <1>6
<1> QED BY <1>2, <1>3, <1>5, <1>7, <1>8, Zenon DEF Abstract!Ask, prizesBar, payoutsBar

LEMMA IsAccept ==
  ASSUME WalletInv, NEW r \in Requests, MakeBankTransfer(r), accepted' = accepted \cup {r}
  PROVE  Abstract!Accept(r)
<1>1. UNCHANGED <<ledger, credits, requests>> /\ withdraw[r] = "transfer"
      /\ (faults' = faults \/ faults' = faults + 1)
  BY DEF MakeBankTransfer, tables
<1>2. requests[r].status = "PENDING" /\ r \notin accepted
  BY <1>1 DEF WalletInv, RequestOK
<1>3. payoutsBar[r].state = "PENDING"
  BY <1>2 DEF payoutsBar, PayoutOf
<1>4. prizesBar' = prizesBar /\ payoutsBar' = payoutsBar
  BY <1>1, OtherPrizes, PrizesStay, OtherPayouts, PayoutsStay
<1>5. (faults > 0)' \in {faults > 0, TRUE}
  BY <1>1, FaultsRemain DEF WalletInv
<1> QED BY <1>1, <1>2, <1>3, <1>4, <1>5, Zenon
        DEF Abstract!Accept, Abstract!Fails, prizesBar, payoutsBar

LEMMA IsConfirm ==
  ASSUME WalletInv, NEW r \in Requests, RecordTransfer(r)
  PROVE  Abstract!Confirm(r)
<1>1. UNCHANGED <<ledger, credits, accepted, faults>>
  BY DEF RecordTransfer, tables
<1>2. RecordTransferEffect(r)
  BY RecordTransferDoes DEF WalletInv
<1>3. requests[r].status = "PENDING"
  BY <1>2 DEF RecordTransferEffect, WalletInv, RequestOK
<1>4. payoutsBar[r] = PayoutAs(r, "PENDING") /\ payoutsBar[r].state = "PENDING"
  BY <1>3 DEF payoutsBar, PayoutOf, PayoutAs
<1>5. prizesBar' = prizesBar
  BY <1>1, OtherPrizes, PrizesStay
<1>6. ASSUME NEW st \in {"PROCESSING", "FAILED"}, NEW b, StatusMoves(r, st, b)
      PROVE  payoutsBar' = [payoutsBar EXCEPT ![r].state = st]
  <2>1. PayoutOf(r)' = PayoutAs(r, st)
    BY <1>6 DEF StatusMoves, PayoutOf, PayoutAs
  <2>2. payoutsBar' = [payoutsBar EXCEPT ![r] = PayoutAs(r, st)]
    BY <1>6, <2>1, OtherPayouts, PayoutChanges DEF StatusMoves
  <2>3. [payoutsBar[r] EXCEPT !.state = st] = PayoutAs(r, st)
    BY <1>4 DEF PayoutAs
  <2> QED BY <2>2, <2>3, Zenon
<1>7. CASE withdraw[r] = "accepted" /\ StatusMoves(r, "PROCESSING", TRUE)
  <2>1. r \in accepted
    BY <1>7 DEF WalletInv, RequestOK
  <2>2. payoutsBar' = [payoutsBar EXCEPT ![r].state = "PROCESSING"]
    BY <1>6, <1>7
  <2> QED BY <1>1, <1>4, <1>5, <2>1, <2>2, Zenon DEF Abstract!Confirm, prizesBar, payoutsBar
<1>8. CASE withdraw[r] = "refused" /\ StatusMoves(r, "FAILED", requests[r].session)
  <2>1. r \notin accepted \/ faults > 0
    BY <1>8 DEF WalletInv, RequestOK
  <2>2. payoutsBar' = [payoutsBar EXCEPT ![r].state = "FAILED"]
    BY <1>6, <1>8
  <2> QED BY <1>1, <1>4, <1>5, <2>1, <2>2, Zenon DEF Abstract!Confirm, prizesBar, payoutsBar
<1> QED BY <1>2, <1>7, <1>8 DEF RecordTransferEffect

LEMMA IsSettle ==
  ASSUME WalletInv, NEW h \in Hooks, CommitDebit(h)
  PROVE  \E r \in Requests : Abstract!Settle(r)
<1>1. UNCHANGED <<credits, accepted, faults>>
  BY DEF CommitDebit
<1>2. CommitDebitEffect(h)
  BY CommitDebitDoes DEF WalletInv
<1>3. PICK r \in Requests : /\ r = hooks[h].req /\ hooks[h].pc = "commit"
                            /\ StatusMoves(r, "COMPLETED", requests[r].session)
                            /\ requests[r].user \in Users
  BY <1>2 DEF CommitDebitEffect
<1>4. requests[r].status \in {"PROCESSING", "COMPLETED"}
  BY <1>3 DEF WalletInv, RequestOK, HookOK
<1>5. payoutsBar[r] = PayoutAs(r, requests[r].status)
  BY <1>4 DEF payoutsBar, PayoutOf, PayoutAs
<1>6. /\ payoutsBar[r].state \in {"PROCESSING", "COMPLETED"}
      /\ payoutsBar[r].user = requests[r].user /\ payoutsBar[r].amount = requests[r].amount
  BY <1>4, <1>5 DEF PayoutAs
<1>7. PayoutOf(r)' = PayoutAs(r, "COMPLETED")
  BY <1>3 DEF StatusMoves, PayoutOf, PayoutAs
<1>8. payoutsBar' = [payoutsBar EXCEPT ![r] = PayoutAs(r, "COMPLETED")]
  BY <1>3, <1>7, OtherPayouts, PayoutChanges DEF StatusMoves
<1>9. [payoutsBar[r] EXCEPT !.state = "COMPLETED"] = PayoutAs(r, "COMPLETED")
  BY <1>5 DEF PayoutAs
<1>10. payoutsBar' = [payoutsBar EXCEPT ![r].state = "COMPLETED"]
  BY <1>8, <1>9, Zenon
<1>11. prizesBar' = prizesBar
  BY <1>1, OtherPrizes, PrizesStay
<1>12. ledger' = [ledger EXCEPT ![payoutsBar[r].user] = ledger[payoutsBar[r].user] - payoutsBar[r].amount]
  BY <1>3, <1>6 DEF CommitDebit
<1>13. UNCHANGED <<prizesBar, accepted, faults > 0>>
  BY <1>1, <1>11
<1>14. Abstract!Settle(r)
  BY <1>6, <1>10, <1>12, <1>13, Zenon DEF Abstract!Settle, prizesBar, payoutsBar
<1> QED BY <1>14

\* Every other step pays nothing and moves no withdrawal: at most it gives prizes up.
LEMMA IsGiveUp ==
  ASSUME WalletInv, UNCHANGED <<ledger, accepted, requests>>, faults' \in {faults, faults + 1},
         \A c \in Spins :
           \/ credits'[c] = credits[c]
           \/ /\ credits[c].pc \in {"find", "increment", "commit"}
              /\ credits'[c].pc \in {"increment", "commit", "unpaid"}
              /\ credits'[c].user = credits[c].user /\ credits'[c].amount = credits[c].amount
  PROVE  Abstract!GiveUp
<1>1. payoutsBar' = payoutsBar
  BY OtherPayouts, PayoutsStay
<1>2. ASSUME NEW c \in Spins
      PROVE  \/ PrizeOf(c)' = PrizeOf(c)
             \/ PrizeOf(c) = PrizeAs(c, "won") /\ PrizeOf(c)' = PrizeAs(c, "unpaid")
  <2>1. CASE credits'[c] = credits[c]
    BY <2>1, OtherPrizes
  <2>2. CASE /\ credits[c].pc \in {"find", "increment", "commit"}
             /\ credits'[c].pc \in {"increment", "commit", "unpaid"}
             /\ credits'[c].user = credits[c].user /\ credits'[c].amount = credits[c].amount
    BY <2>2 DEF PrizeOf, PrizeAs
  <2> QED BY <2>1, <2>2
<1> QED BY <1>1, <1>2, GivesUp

\* CreateRequest without a bank account changes no row, nor does a refused transfer.
LEMMA LedgerStep ==
  ASSUME WalletInv, [Next]_vars
  PROVE  Abstract!LedgerNext
<1> TypeOK
  BY DEF WalletInv
<1>1. ASSUME NEW c \in Spins, NEW u \in Users, NEW a \in Prizes, WinSpin(c, u, a)
      PROVE  Abstract!LedgerNext
  BY <1>1, IsWin, Zenon DEF Abstract!LedgerNext
<1>2. ASSUME NEW c \in Spins, CommitCredit(c) PROVE Abstract!LedgerNext
  BY <1>2, IsPay, Zenon DEF Abstract!LedgerNext
<1>3. ASSUME NEW r \in Requests, CreateRequest(r) PROVE Abstract!LedgerNext
  <2>1. CreateRequestEffect(r)
    BY <1>3, CreateRequestDoes
  <2>2. CASE StatusMoves(r, "PENDING", requests[r].session)
    BY <1>3, <2>2, IsAsk, Zenon DEF Abstract!LedgerNext
  <2>3. CASE UNCHANGED requests
    <3>1. UNCHANGED <<ledger, accepted, requests, credits, faults>>
      BY <1>3, <2>3 DEF CreateRequest, tables
    <3>2. Abstract!GiveUp
      BY <3>1, IsGiveUp
    <3> QED BY <3>2, Zenon DEF Abstract!LedgerNext
  <2> QED BY <2>1, <2>2, <2>3 DEF CreateRequestEffect
<1>4. ASSUME NEW r \in Requests, MakeBankTransfer(r) PROVE Abstract!LedgerNext
  <2>1. CASE accepted' = accepted \cup {r}
    BY <1>4, <2>1, IsAccept, Zenon DEF Abstract!LedgerNext
  <2>2. CASE accepted' = accepted
    <3>1. UNCHANGED <<ledger, requests, credits>> /\ faults' \in {faults, faults + 1}
      BY <1>4 DEF MakeBankTransfer, tables
    <3>2. Abstract!GiveUp
      BY <2>2, <3>1, IsGiveUp
    <3> QED BY <3>2, Zenon DEF Abstract!LedgerNext
  <2> QED BY <1>4, <2>1, <2>2 DEF MakeBankTransfer
<1>5. ASSUME NEW r \in Requests, RecordTransfer(r) PROVE Abstract!LedgerNext
  BY <1>5, IsConfirm, Zenon DEF Abstract!LedgerNext
<1>6. ASSUME NEW h \in Hooks, CommitDebit(h) PROVE Abstract!LedgerNext
  BY <1>6, IsSettle, Zenon DEF Abstract!LedgerNext
<1>7. ASSUME UNCHANGED <<ledger, accepted, requests>>, faults' \in {faults, faults + 1},
             \A c \in Spins :
               \/ credits'[c] = credits[c]
               \/ /\ credits[c].pc \in {"find", "increment", "commit"}
                  /\ credits'[c].pc \in {"increment", "commit", "unpaid"}
                  /\ credits'[c].user = credits[c].user /\ credits'[c].amount = credits[c].amount
      PROVE  Abstract!LedgerNext
  BY <1>7, IsGiveUp, Zenon DEF Abstract!LedgerNext
<1>8. ASSUME NEW c \in Spins, FindWallet(c) PROVE Abstract!LedgerNext
  <2>1. UNCHANGED <<ledger, accepted, requests, faults>>
    BY <1>8 DEF FindWallet, tables
  <2>2. FindWalletEffect(c)
    BY <1>8, FindWalletDoes
  <2> QED BY <1>7, <2>1, <2>2 DEF FindWalletEffect, CreditMoves, AfterFind
<1>9. ASSUME NEW c \in Spins, IncrementBalance(c) PROVE Abstract!LedgerNext
  <2>1. UNCHANGED <<ledger, accepted, requests, faults>>
    BY <1>9 DEF IncrementBalance, tables
  <2>2. credits[c].pc = "increment" /\ CreditMoves(c, "commit", credits[c].found)
    BY <1>9, IncrementBalanceDoes
  <2> QED BY <1>7, <2>1, <2>2 DEF CreditMoves
<1>10. ASSUME NEW c \in Spins, CreditFails(c) PROVE Abstract!LedgerNext
  <2>1. UNCHANGED <<ledger, accepted, requests>> /\ faults' = faults + 1
    BY <1>10 DEF CreditFails, tables
  <2>2. credits[c].pc \in {"find", "increment", "commit"} /\ CreditMoves(c, "unpaid", 0)
    BY <1>10, CreditFailsDoes
  <2> QED BY <1>7, <2>1, <2>2 DEF CreditMoves
<1>11. ASSUME NEW r \in Requests, NEW u \in Users, NEW a \in Amounts, CheckBalance(r, u, a)
       PROVE  Abstract!LedgerNext
  <2>1. UNCHANGED <<ledger, accepted, credits, faults>>
    BY <1>11 DEF CheckBalance, tables
  <2>2. CheckBalanceEffect(r, u, a)
    BY <1>11, CheckBalanceDoes
  <2>3. requests[r].status = "none"
    BY <2>2 DEF CheckBalanceEffect, WalletInv, RequestOK
  <2>4. ASSUME NEW s \in Requests PROVE PayoutOf(s)' = PayoutOf(s)
    BY <2>2, <2>3, OtherPayouts DEF CheckBalanceEffect, PayoutOf
  <2>5. payoutsBar' = payoutsBar
    BY <2>4, PayoutsStay
  <2>6. Abstract!GiveUp
    BY <2>1, <2>5, OtherPrizes, GivesUp
  <2> QED BY <2>6, Zenon DEF Abstract!LedgerNext
<1>12. ASSUME NEW r \in Requests, WithdrawFails(r) PROVE Abstract!LedgerNext
  BY <1>7, <1>12 DEF WithdrawFails, tables
<1>13. ASSUME NEW h \in Hooks, NEW r \in accepted \cup {None}, NEW e \in Events, ReceiveWebhook(h, r, e)
       PROVE  Abstract!LedgerNext
  BY <1>7, <1>13 DEF ReceiveWebhook, tables
<1>14. ASSUME NEW h \in Hooks, CompleteRequest(h) \/ ReadWallet(h) \/ WriteBalance(h)
       PROVE  Abstract!LedgerNext
  BY <1>7, <1>14 DEF CompleteRequest, ReadWallet, WriteBalance, tables
<1>15. ASSUME NEW h \in Hooks, HookFails(h) PROVE Abstract!LedgerNext
  BY <1>7, <1>15 DEF HookFails, tables
<1>16. ASSUME Crash PROVE Abstract!LedgerNext
  <2>1. UNCHANGED <<ledger, accepted, requests>> /\ faults' = faults + 1
    BY <1>16 DEF Crash, tables
  <2>2. ASSUME NEW c \in Spins, credits[c].pc \notin {"none", "paid"}
        PROVE  \/ PrizeOf(c)' = PrizeOf(c)
               \/ PrizeOf(c) = PrizeAs(c, "won") /\ PrizeOf(c)' = PrizeAs(c, "unpaid")
    <3>1. CreditStops(c)
      BY <1>16, <2>2, CrashDoes DEF CrashEffect
    <3>2. credits[c].pc \in {"find", "increment", "commit", "unpaid"}
      BY <2>2 DEF TypeOK, Spin
    <3> QED BY <3>1, <3>2 DEF CreditStops, PrizeOf, PrizeAs
  <2>3. ASSUME NEW c \in Spins, credits[c].pc \in {"none", "paid"} PROVE PrizeOf(c)' = PrizeOf(c)
    BY <1>16, <2>3, CrashDoes, OtherPrizes DEF CrashEffect
  <2>4. payoutsBar' = payoutsBar
    BY <2>1, OtherPayouts, PayoutsStay
  <2>5. Abstract!GiveUp
    BY <2>1, <2>2, <2>3, <2>4, GivesUp
  <2> QED BY <2>5, Zenon DEF Abstract!LedgerNext
<1>17. ASSUME UNCHANGED vars PROVE Abstract!LedgerNext
  BY <1>7, <1>17 DEF vars
<1> QED
  BY <1>1, <1>2, <1>3, <1>4, <1>5, <1>6, <1>8, <1>9, <1>10, <1>11, <1>12, <1>13, <1>14,
     <1>15, <1>16, <1>17, Zenon
     DEF Next, CreditStep, WithdrawStep, HookStep

LEMMA LedgerStart == Init => Abstract!LedgerInit
<1> SUFFICES ASSUME Init PROVE Abstract!LedgerInit
  OBVIOUS
<1>1. \A c \in Spins : PrizeOf(c) = [state |-> "none"]
  BY NoneTypes DEF Init, PrizeOf
<1>2. \A r \in Requests : PayoutOf(r) = [state |-> "none"]
  BY NoneTypes DEF Init, PayoutOf
<1>3. (faults > 0) = FALSE
  BY DEF Init
<1>4. ledger = Opening /\ accepted = {}
  BY DEF Init
<1> QED BY <1>1, <1>2, <1>3, <1>4, Zenon
        DEF Abstract!LedgerInit, Abstract!NoPrize, Abstract!NoPayout

\* creditUserWallet, createWithdrawalRequest and handleWebhook, in any order and
\* with any crash among them, pay a prize once or give it up, debit only what the bank
\* has accepted, and take neither COMPLETED nor FAILED back: Ledger's promise.
THEOREM WalletImplementsLedger == Spec => ImplementsLedger
<1>1. Init => Abstract!LedgerInit
  BY LedgerStart
<1>2. WalletInv /\ [Next]_vars => [Abstract!LedgerNext]_(Abstract!ledgerVars)
  BY LedgerStep
<1> QED BY <1>1, <1>2, InvHolds, PTL DEF Spec, ImplementsLedger, Abstract!LedgerSpec

----------------------------------------------------------------------------
(* Balances                                                                *)

\* A step that touches no balance and begins no transaction on a wallet.
Quiet ==
  /\ UNCHANGED <<balance, ledger, debits, overlapped>>
  /\ \A r \in Requests : requests'[r].user = requests[r].user /\ requests'[r].amount = requests[r].amount
  /\ \A c \in Spins :
       credits'[c].pc \in {"increment", "commit"} =>
         credits[c].pc \in {"increment", "commit"} /\ credits'[c].user = credits[c].user
  /\ \A h \in Hooks :
       hooks'[h].pc \in {"write", "commit"} =>
         /\ hooks[h].pc \in {"write", "commit"}
         /\ hooks'[h].req = hooks[h].req /\ hooks'[h].found = hooks[h].found

LEMMA StepKinds ==
  ASSUME WalletInv, [Next]_vars
  PROVE  \/ Quiet
         \/ \E r \in Requests, u \in Users, a \in Amounts : CheckBalance(r, u, a)
         \/ \E c \in Spins : FindWallet(c) \/ CommitCredit(c)
         \/ \E h \in Hooks : ReadWallet(h) \/ CommitDebit(h)
<1> TypeOK
  BY DEF WalletInv
<1>1. ASSUME NEW c \in Spins, NEW u \in Users, NEW a \in Prizes, WinSpin(c, u, a) PROVE Quiet
  <2>1. UNCHANGED <<balance, ledger, debits, overlapped, requests, hooks>>
    BY <1>1 DEF WinSpin, tables
  <2>2. SpinIs(c, [pc |-> "find", user |-> u, amount |-> a, found |-> 0])
    BY <1>1, WinSpinDoes
  <2> QED BY <2>1, <2>2 DEF Quiet, SpinIs
<1>2. ASSUME NEW c \in Spins, IncrementBalance(c) PROVE Quiet
  <2>1. UNCHANGED <<balance, ledger, debits, overlapped, requests, hooks>>
    BY <1>2 DEF IncrementBalance, tables
  <2>2. credits[c].pc = "increment" /\ CreditMoves(c, "commit", credits[c].found)
    BY <1>2, IncrementBalanceDoes
  <2> QED BY <2>1, <2>2 DEF Quiet, CreditMoves
<1>3. ASSUME NEW c \in Spins, CreditFails(c) PROVE Quiet
  <2>1. UNCHANGED <<balance, ledger, debits, overlapped, requests, hooks>>
    BY <1>3 DEF CreditFails, tables
  <2>2. CreditMoves(c, "unpaid", 0)
    BY <1>3, CreditFailsDoes
  <2> QED BY <2>1, <2>2 DEF Quiet, CreditMoves
<1>4. ASSUME NEW r \in Requests, CreateRequest(r) PROVE Quiet
  <2>1. UNCHANGED <<balance, ledger, debits, overlapped, credits, hooks>>
    BY <1>4 DEF CreateRequest, tables
  <2>2. CreateRequestEffect(r)
    BY <1>4, CreateRequestDoes
  <2> QED BY <2>1, <2>2 DEF Quiet, CreateRequestEffect, StatusMoves
<1>5. ASSUME NEW r \in Requests, MakeBankTransfer(r) \/ WithdrawFails(r) PROVE Quiet
  BY <1>5 DEF MakeBankTransfer, WithdrawFails, tables, Quiet
<1>6. ASSUME NEW r \in Requests, RecordTransfer(r) PROVE Quiet
  <2>1. UNCHANGED <<balance, ledger, debits, overlapped, credits, hooks>>
    BY <1>6 DEF RecordTransfer, tables
  <2>2. RecordTransferEffect(r)
    BY <1>6, RecordTransferDoes
  <2> QED BY <2>1, <2>2 DEF Quiet, RecordTransferEffect, StatusMoves
<1>7. ASSUME NEW h \in Hooks, NEW r \in accepted \cup {None}, NEW e \in Events, ReceiveWebhook(h, r, e)
      PROVE  Quiet
  <2>1. UNCHANGED <<balance, ledger, debits, overlapped, requests, credits>>
    BY <1>7 DEF ReceiveWebhook, tables
  <2>2. PICK q \in Hook : HookIs(h, q) /\ q.pc \in {"complete", "done", "unknown"}
    BY <1>7, ReceiveWebhookDoes DEF ReceiveWebhookEffect
  <2> QED BY <2>1, <2>2 DEF Quiet, HookIs
<1>8. ASSUME NEW h \in Hooks, CompleteRequest(h) PROVE Quiet
  <2>1. UNCHANGED <<balance, ledger, debits, overlapped, requests, credits>>
    BY <1>8 DEF CompleteRequest, tables
  <2>2. HookMoves(h, "read", hooks[h].found)
    BY <1>8, HookAdvances DEF CompleteRequest
  <2> QED BY <2>1, <2>2 DEF Quiet, HookMoves
<1>9. ASSUME NEW h \in Hooks, WriteBalance(h) PROVE Quiet
  <2>1. UNCHANGED <<balance, ledger, debits, overlapped, requests, credits>> /\ hooks[h].pc = "write"
    BY <1>9 DEF WriteBalance, tables
  <2>2. HookMoves(h, "commit", hooks[h].found)
    BY <1>9, HookAdvances DEF WriteBalance
  <2> QED BY <2>1, <2>2 DEF Quiet, HookMoves
<1>10. ASSUME NEW h \in Hooks, HookFails(h) PROVE Quiet
  <2>1. UNCHANGED <<balance, ledger, debits, overlapped, requests, credits>>
    BY <1>10 DEF HookFails, tables
  <2>2. HookMoves(h, "failed", 0)
    BY <1>10, HookFailsDoes DEF HookFailsEffect
  <2> QED BY <2>1, <2>2 DEF Quiet, HookMoves
<1>11. ASSUME Crash PROVE Quiet
  <2>1. UNCHANGED <<balance, ledger, debits, overlapped, requests>>
    BY <1>11 DEF Crash, tables
  <2>2. CrashEffect
    BY <1>11, CrashDoes
  <2> QED BY <2>1, <2>2 DEF Quiet, CrashEffect, CreditStops, HookStops
<1>12. ASSUME UNCHANGED vars PROVE Quiet
  BY <1>12 DEF vars, Quiet
<1> QED
  BY <1>1, <1>2, <1>3, <1>4, <1>5, <1>6, <1>7, <1>8, <1>9, <1>10, <1>11, <1>12, Zenon
     DEF Next, CreditStep, WithdrawStep, HookStep

\* CheckBalance names the user of a request no webhook can have found yet.
LEMMA CheckedIsNew ==
  ASSUME WalletInv, NEW r \in Requests, withdraw[r] = "none", NEW h \in Hooks,
         hooks[h].pc \in {"complete", "read", "write", "commit"}
  PROVE  hooks[h].req \in Requests \ {r}
<1>1. hooks[h].req \in Requests
  BY HookHasRequest DEF WalletInv
<1>2. requests[hooks[h].req].session
  BY DEF WalletInv, HookOK
<1> QED BY <1>1, <1>2 DEF WalletInv, RequestOK

\* While no debit has overlapped, an open debit is the only transaction on its wallet,
\* and what it read is still what the wallet holds.
DebitAlone(u) ==
  \A h \in Hooks :
    DebitReads(h, u) =>
      /\ hooks[h].found = balance[u]
      /\ \A c \in Spins : ~CreditReads(c, u)
      /\ \A g \in Hooks \ {h} : ~DebitReads(g, u)
HistoryInv ==
  \A u \in Users :
    <<u, "debit">> \notin overlapped => balance[u] = ledger[u] /\ DebitAlone(u)

LEMMA HistoryStep ==
  ASSUME WalletInv, HistoryInv, [Next]_vars PROVE HistoryInv'
<1> TypeOK
  BY DEF WalletInv
<1>1. SUFFICES ASSUME NEW u \in Users, <<u, "debit">> \notin overlapped'
               PROVE  (balance[u] = ledger[u])' /\ DebitAlone(u)'
  BY DEF HistoryInv
\* Steps after which no transaction is on u's wallet that was not there before.
<1>2. ASSUME overlapped \subseteq overlapped', balance'[u] = balance[u], ledger'[u] = ledger[u],
             \A c \in Spins : CreditReads(c, u)' => CreditReads(c, u),
             \A h \in Hooks : DebitReads(h, u)' => DebitReads(h, u) /\ hooks'[h].found = hooks[h].found
      PROVE  (balance[u] = ledger[u])' /\ DebitAlone(u)'
  <2>1. balance[u] = ledger[u] /\ DebitAlone(u)
    BY <1>1, <1>2 DEF HistoryInv
  <2> QED BY <1>2, <2>1 DEF DebitAlone
<1>3. CASE Quiet
  <2>1. \A c \in Spins : CreditReads(c, u)' => CreditReads(c, u)
    BY <1>3 DEF Quiet, CreditReads
  <2>2. ASSUME NEW h \in Hooks, DebitReads(h, u)'
        PROVE  DebitReads(h, u) /\ hooks'[h].found = hooks[h].found
    <3>1. hooks[h].pc \in {"write", "commit"} /\ hooks'[h].req = hooks[h].req
          /\ hooks'[h].found = hooks[h].found
      BY <1>3, <2>2 DEF Quiet, DebitReads
    <3>2. hooks[h].req \in Requests
      BY <3>1, HookHasRequest
    <3> QED BY <1>3, <2>2, <3>1, <3>2 DEF Quiet, DebitReads
  <2> QED BY <1>2, <1>3, <2>1, <2>2 DEF Quiet
<1>4. ASSUME NEW r \in Requests, NEW v \in Users, NEW a \in Amounts, CheckBalance(r, v, a)
      PROVE  (balance[u] = ledger[u])' /\ DebitAlone(u)'
  <2>1. UNCHANGED <<balance, ledger, overlapped, credits, hooks>>
    BY <1>4 DEF CheckBalance, tables
  <2>2. CheckBalanceEffect(r, v, a)
    BY <1>4, CheckBalanceDoes
  <2>3. ASSUME NEW h \in Hooks, DebitReads(h, u)' PROVE DebitReads(h, u)
    <3>1. hooks[h].pc \in {"write", "commit"}
      BY <2>1, <2>3 DEF DebitReads
    <3>2. hooks[h].req \in Requests \ {r}
      BY <2>2, <3>1, CheckedIsNew DEF CheckBalanceEffect
    <3> QED BY <2>1, <2>2, <2>3, <3>2 DEF DebitReads, CheckBalanceEffect
  <2>4. \A c \in Spins : CreditReads(c, u)' => CreditReads(c, u)
    BY <2>1 DEF CreditReads
  <2> QED BY <1>2, <2>1, <2>3, <2>4
<1>5. ASSUME NEW c \in Spins, FindWallet(c)
      PROVE  (balance[u] = ledger[u])' /\ DebitAlone(u)'
  <2>1. UNCHANGED <<balance, ledger, requests, hooks>> /\ Overlap(credits[c].user, "credit")
    BY <1>5 DEF FindWallet, tables
  <2>2. FindWalletEffect(c)
    BY <1>5, FindWalletDoes
  <2>3. overlapped \subseteq overlapped'
    BY <2>1 DEF Overlap
  <2>4. \A h \in Hooks : DebitReads(h, u)' => DebitReads(h, u) /\ hooks'[h].found = hooks[h].found
    BY <2>1 DEF DebitReads
  <2>5. CASE credits[c].user # u
    <3>1. \A d \in Spins : CreditReads(d, u)' => CreditReads(d, u)
      BY <2>2, <2>5 DEF CreditReads, FindWalletEffect, CreditMoves
    <3> QED BY <1>2, <2>1, <2>3, <2>4, <3>1
  <2>6. CASE credits[c].user = u
    <3>1. "debit" \notin OpenKinds(u)
      BY <1>1, <2>1, <2>6 DEF Overlap
    <3>2. \A h \in Hooks : ~DebitReads(h, u)
      BY <3>1 DEF OpenKinds
    <3>3. balance[u] = ledger[u]
      BY <1>1, <2>3 DEF HistoryInv
    <3> QED BY <2>1, <2>4, <3>2, <3>3 DEF DebitAlone
  <2> QED BY <2>5, <2>6
<1>6. ASSUME NEW c \in Spins, CommitCredit(c)
      PROVE  (balance[u] = ledger[u])' /\ DebitAlone(u)'
  <2>1. UNCHANGED <<requests, hooks, overlapped>>
    BY <1>6 DEF CommitCredit
  <2>2. CommitCreditEffect(c)
    BY <1>6, CommitCreditDoes
  <2>3. \A h \in Hooks : DebitReads(h, u)' => DebitReads(h, u) /\ hooks'[h].found = hooks[h].found
    BY <2>1 DEF DebitReads
  <2>4. CASE credits[c].user # u
    <3>1. \A d \in Spins : CreditReads(d, u)' => CreditReads(d, u)
      BY <2>2 DEF CreditReads, CommitCreditEffect, CreditMoves
    <3>2. balance'[u] = balance[u] /\ ledger'[u] = ledger[u]
      BY <2>2, <2>4 DEF CommitCreditEffect
    <3> QED BY <1>2, <2>1, <2>3, <3>1, <3>2
  <2>5. CASE credits[c].user = u
    <3>1. CreditReads(c, u)
      BY <2>2, <2>5 DEF CreditReads, CommitCreditEffect
    <3>2. balance[u] = ledger[u] /\ DebitAlone(u)
      BY <1>1, <2>1 DEF HistoryInv
    <3>3. \A h \in Hooks : ~DebitReads(h, u)
      BY <3>1, <3>2 DEF DebitAlone
    <3>4. balance'[u] = ledger'[u]
      BY <2>2, <2>5, <3>2 DEF CommitCreditEffect
    <3> QED BY <2>3, <3>3, <3>4 DEF DebitAlone
  <2> QED BY <2>4, <2>5
<1>7. ASSUME NEW h \in Hooks, ReadWallet(h)
      PROVE  (balance[u] = ledger[u])' /\ DebitAlone(u)'
  <2>1. UNCHANGED <<balance, ledger, requests, credits>>
        /\ Overlap(requests[hooks[h].req].user, "debit")
    BY <1>7 DEF ReadWallet, tables
  <2>2. ReadWalletEffect(h)
    BY <1>7, ReadWalletDoes
  <2>3. overlapped \subseteq overlapped'
    BY <2>1 DEF Overlap
  <2>4. \A c \in Spins : CreditReads(c, u)' => CreditReads(c, u)
    BY <2>1 DEF CreditReads
  <2>5. \A g \in Hooks \ {h} : DebitReads(g, u)' => DebitReads(g, u) /\ hooks'[g].found = hooks[g].found
    BY <2>1, <2>2 DEF DebitReads, ReadWalletEffect, HookMoves
  <2>6. CASE requests[hooks[h].req].user # u
    <3>1. ~DebitReads(h, u)'
      BY <2>1, <2>2, <2>6 DEF DebitReads, ReadWalletEffect, HookMoves
    <3> QED BY <1>2, <2>1, <2>3, <2>4, <2>5, <3>1
  <2>7. CASE requests[hooks[h].req].user = u
    <3>1. OpenKinds(u) = {}
      BY <1>1, <2>1, <2>7 DEF Overlap
    <3>2. (\A g \in Hooks : ~DebitReads(g, u)) /\ (\A c \in Spins : ~CreditReads(c, u))
      BY <3>1 DEF OpenKinds
    <3>3. balance[u] = ledger[u]
      BY <1>1, <2>3 DEF HistoryInv
    <3>4. hooks'[h].found = balance'[u]
      BY <2>1, <2>2, <2>7 DEF ReadWalletEffect, HookMoves
    <3> QED BY <2>1, <2>4, <2>5, <3>2, <3>3, <3>4 DEF DebitAlone
  <2> QED BY <2>6, <2>7
<1>8. ASSUME NEW h \in Hooks, CommitDebit(h)
      PROVE  (balance[u] = ledger[u])' /\ DebitAlone(u)'
  <2>1. UNCHANGED <<credits, overlapped>>
    BY <1>8 DEF CommitDebit
  <2>2. CommitDebitEffect(h)
    BY <1>8, CommitDebitDoes
  <2>3. PICK r \in Requests : /\ r = hooks[h].req /\ hooks[h].pc = "commit"
                              /\ HookMoves(h, "done", 0)
                              /\ StatusMoves(r, "COMPLETED", requests[r].session)
    BY <2>2 DEF CommitDebitEffect
  <2>4. \A c \in Spins : CreditReads(c, u)' => CreditReads(c, u)
    BY <2>1 DEF CreditReads
  <2>5. ~DebitReads(h, u)'
    BY <2>3 DEF DebitReads, HookMoves
  <2>6. ASSUME NEW g \in Hooks \ {h}, DebitReads(g, u)'
        PROVE  DebitReads(g, u) /\ hooks'[g].found = hooks[g].found
    <3>1. hooks'[g] = hooks[g] /\ hooks[g].pc \in {"write", "commit"}
      BY <2>3, <2>6 DEF HookMoves, DebitReads
    <3>2. hooks[g].req \in Requests
      BY <3>1, HookHasRequest
    <3>3. requests'[hooks[g].req].user = requests[hooks[g].req].user
      BY <2>3, <3>2 DEF StatusMoves
    <3> QED BY <2>6, <3>1, <3>3 DEF DebitReads
  <2>7. CASE requests[r].user # u
    <3>1. balance'[u] = balance[u] /\ ledger'[u] = ledger[u]
      BY <2>2, <2>3, <2>7 DEF CommitDebitEffect
    <3> QED BY <1>2, <2>1, <2>4, <2>5, <2>6, <3>1
  <2>8. CASE requests[r].user = u
    <3>1. DebitReads(h, u)
      BY <2>3, <2>8 DEF DebitReads
    <3>2. balance[u] = ledger[u] /\ DebitAlone(u)
      BY <1>1, <2>1 DEF HistoryInv
    <3>3. hooks[h].found = balance[u] /\ \A g \in Hooks \ {h} : ~DebitReads(g, u)
      BY <3>1, <3>2 DEF DebitAlone
    <3>4. balance'[u] = ledger'[u]
      BY <2>2, <2>3, <2>8, <3>2, <3>3 DEF CommitDebitEffect
    <3>5. \A g \in Hooks : ~DebitReads(g, u)'
      BY <2>5, <2>6, <3>3
    <3> QED BY <3>4, <3>5 DEF DebitAlone
  <2> QED BY <2>7, <2>8
<1> QED BY <1>3, <1>4, <1>5, <1>6, <1>7, <1>8, StepKinds

\* The history and the balance agree after any credits, and part only if a debit's
\* read and write had another transaction of the wallet between them.
THEOREM HistoryExplainsBalanceAlways == Spec => []HistoryExplainsBalance
<1>1. Init => HistoryInv
  <2> SUFFICES ASSUME Init PROVE HistoryInv
    OBVIOUS
  <2>1. \A h \in Hooks, u \in Users : ~DebitReads(h, u)
    BY NoneTypes DEF Init, DebitReads
  <2>2. balance = ledger
    BY DEF Init
  <2> QED BY <2>1, <2>2 DEF HistoryInv, DebitAlone
<1>2. WalletInv /\ HistoryInv /\ [Next]_vars => HistoryInv'
  BY HistoryStep
<1>3. HistoryInv => HistoryExplainsBalance
  BY DEF HistoryInv, HistoryExplainsBalance
<1> QED BY <1>1, <1>2, <1>3, InvHolds, PTL DEF Spec

\* Of a user's requests, two have been debited, or one has twice.
TwoDebits(u) ==
  \/ \E r \in Requests : requests[r].user = u /\ debits[r] >= 2
  \/ \E r, s \in Requests :
       /\ r # s /\ requests[r].user = u /\ requests[s].user = u
       /\ debits[r] > 0 /\ debits[s] > 0
NoDebit(u) == \A r \in Requests : requests[r].user = u => debits[r] = 0

\* Until the first debit a wallet covers each request, and an open debit has read a
\* balance that covers its own; until the second it is not overdrawn.
Covered(u) ==
  /\ TwoDebits(u) \/ balance[u] >= 0
  /\ NoDebit(u) =>
       /\ \A r \in Requests : requests[r].user = u => requests[r].amount <= balance[u]
       /\ \A h \in Hooks : DebitReads(h, u) => requests[hooks[h].req].amount <= hooks[h].found
CoverInv == \A u \in Users : Covered(u)

LEMMA CoverStep ==
  ASSUME WalletInv, CoverInv, [Next]_vars PROVE CoverInv'
<1> TypeOK
  BY DEF WalletInv
<1>1. SUFFICES ASSUME NEW u \in Users PROVE Covered(u)'
  BY DEF CoverInv
<1>2. /\ Covered(u)
      /\ balance \in [Users -> Int] /\ debits \in [Requests -> Nat]
      /\ \A r \in Requests : requests[r].amount \in Int
  <2>1. Amounts \cup {0} \subseteq Int
    BY Bounds
  <2>2. \A r \in Requests : requests[r] \in Withdrawal
    BY DEF TypeOK
  <2>3. \A r \in Requests : requests[r].amount \in Amounts \cup {0}
    BY <2>2 DEF Withdrawal
  <2> QED BY <2>1, <2>3 DEF CoverInv, TypeOK
\* Steps that debit nothing and rename no request.
<1>3. ASSUME debits' = debits, balance'[u] \in Int, balance'[u] >= balance[u],
             \A r \in Requests : requests'[r].user = requests[r].user /\ requests'[r].amount = requests[r].amount,
             \A h \in Hooks : DebitReads(h, u)' =>
               /\ hooks'[h].req \in Requests /\ requests[hooks'[h].req].user = u
               /\ \/ DebitReads(h, u) /\ hooks'[h].req = hooks[h].req /\ hooks'[h].found = hooks[h].found
                  \/ hooks'[h].found = balance[u]
      PROVE  Covered(u)'
  <2>1. NoDebit(u)' => NoDebit(u)
    BY <1>3 DEF NoDebit
  <2>2. TwoDebits(u) => TwoDebits(u)'
    BY <1>3 DEF TwoDebits
  <2>3. TwoDebits(u)' \/ balance'[u] >= 0
    BY <1>2, <1>3, <2>2 DEF Covered
  <2>4. ASSUME NoDebit(u)', NEW r \in Requests, requests'[r].user = u
        PROVE  requests'[r].amount <= balance'[u]
    BY <1>2, <1>3, <2>1, <2>4 DEF Covered
  <2>5. ASSUME NoDebit(u)', NEW h \in Hooks, DebitReads(h, u)'
        PROVE  requests'[hooks'[h].req].amount <= hooks'[h].found
    <3>1. hooks'[h].req \in Requests /\ requests[hooks'[h].req].user = u
          /\ requests'[hooks'[h].req].amount = requests[hooks'[h].req].amount
      BY <1>3, <2>5
    <3>2. CASE DebitReads(h, u) /\ hooks'[h].req = hooks[h].req /\ hooks'[h].found = hooks[h].found
      BY <1>2, <2>1, <2>5, <3>1, <3>2 DEF Covered
    <3>3. CASE hooks'[h].found = balance[u]
      BY <1>2, <2>1, <2>5, <3>1, <3>3 DEF Covered
    <3> QED BY <1>3, <2>5, <3>2, <3>3
  <2> QED BY <2>3, <2>4, <2>5 DEF Covered
<1>4. CASE Quiet
  <2>1. ASSUME NEW h \in Hooks, DebitReads(h, u)'
        PROVE  /\ hooks[h].req \in Requests /\ requests[hooks[h].req].user = u
               /\ DebitReads(h, u) /\ hooks'[h].req = hooks[h].req /\ hooks'[h].found = hooks[h].found
    <3>1. hooks[h].pc \in {"write", "commit"} /\ hooks'[h].req = hooks[h].req
          /\ hooks'[h].found = hooks[h].found
      BY <1>4, <2>1 DEF Quiet, DebitReads
    <3>2. hooks[h].req \in Requests
      BY <3>1, HookHasRequest
    <3> QED BY <1>4, <2>1, <3>1, <3>2 DEF Quiet, DebitReads
  <2>2. balance'[u] = balance[u] /\ debits' = debits
    BY <1>4 DEF Quiet
  <2>3. \A r \in Requests : requests'[r].user = requests[r].user /\ requests'[r].amount = requests[r].amount
    BY <1>4 DEF Quiet
  <2>4. balance'[u] \in Int /\ balance'[u] >= balance[u]
    BY <1>2, <2>2
  <2> QED BY <1>3, <2>1, <2>2, <2>3, <2>4
<1>5. ASSUME NEW r \in Requests, NEW v \in Users, NEW a \in Amounts, CheckBalance(r, v, a)
      PROVE  Covered(u)'
  <2>1. UNCHANGED <<balance, debits, hooks>>
    BY <1>5 DEF CheckBalance, tables
  <2>2. CheckBalanceEffect(r, v, a)
    BY <1>5, CheckBalanceDoes
  <2>3. requests[r].user # u /\ a \in Int
    BY <2>2, Bounds DEF CheckBalanceEffect, TypeOK
  <2>4. /\ \A s \in Requests \ {r} : requests'[s] = requests[s]
        /\ requests'[r].user = v /\ requests'[r].amount = a /\ a < balance[v]
    BY <2>2, <2>3, <1>2 DEF CheckBalanceEffect
  <2>5. NoDebit(u)' => NoDebit(u)
    BY <2>1, <2>3, <2>4 DEF NoDebit
  <2>6. TwoDebits(u) => TwoDebits(u)'
    BY <2>1, <2>3, <2>4 DEF TwoDebits
  <2>7. TwoDebits(u)' \/ balance'[u] >= 0
    BY <1>2, <2>1, <2>6 DEF Covered
  <2>8. ASSUME NoDebit(u)', NEW s \in Requests, requests'[s].user = u
        PROVE  requests'[s].amount <= balance'[u]
    <3>1. CASE s = r
      BY <1>2, <2>1, <2>3, <2>4, <2>8, <3>1
    <3>2. CASE s # r
      BY <1>2, <2>1, <2>4, <2>5, <2>8, <3>2 DEF Covered
    <3> QED BY <3>1, <3>2
  <2>9. ASSUME NoDebit(u)', NEW h \in Hooks, DebitReads(h, u)'
        PROVE  requests'[hooks'[h].req].amount <= hooks'[h].found
    <3>1. hooks[h].pc \in {"write", "commit"}
      BY <2>1, <2>9 DEF DebitReads
    <3>2. hooks[h].req \in Requests \ {r}
      BY <2>2, <3>1, CheckedIsNew DEF CheckBalanceEffect
    <3>3. requests'[hooks[h].req] = requests[hooks[h].req]
      BY <2>4, <3>2
    <3>4. DebitReads(h, u)
      BY <2>1, <2>9, <3>3 DEF DebitReads
    <3> QED BY <1>2, <2>1, <2>5, <2>9, <3>3, <3>4 DEF Covered
  <2> QED BY <2>7, <2>8, <2>9 DEF Covered
<1>6. ASSUME NEW c \in Spins, FindWallet(c) PROVE Covered(u)'
  <2>1. UNCHANGED <<balance, debits, requests, hooks>>
    BY <1>6 DEF FindWallet, tables
  <2>2. ASSUME NEW h \in Hooks, DebitReads(h, u)'
        PROVE  hooks[h].req \in Requests /\ DebitReads(h, u)
    BY <2>1, <2>2, HookHasRequest DEF DebitReads
  <2>3. balance'[u] \in Int /\ balance'[u] >= balance[u]
    BY <1>2, <2>1
  <2> QED BY <1>3, <2>1, <2>2, <2>3 DEF DebitReads
<1>7. ASSUME NEW c \in Spins, CommitCredit(c) PROVE Covered(u)'
  <2>1. UNCHANGED <<debits, requests, hooks>>
    BY <1>7 DEF CommitCredit
  <2>2. CommitCreditEffect(c)
    BY <1>7, CommitCreditDoes
  <2>3. credits[c].amount >= 0
    <3>1. Prizes \cup {0} \subseteq Nat
      BY WalletAssumption
    <3>2. credits[c] \in Spin
      BY DEF TypeOK
    <3>3. credits[c].amount \in Prizes \cup {0}
      BY <3>2 DEF Spin
    <3> QED BY <3>1, <3>3
  <2>4. balance'[u] \in Int /\ balance'[u] >= balance[u]
    <3>1. credits[c].amount \in Int /\ balance'[u] \in Int
      BY <2>2 DEF CommitCreditEffect
    <3>2. balance'[u] = balance[u] \/ balance'[u] = balance[u] + credits[c].amount
      BY <2>2 DEF CommitCreditEffect
    <3> QED BY <1>2, <2>3, <3>1, <3>2
  <2>5. ASSUME NEW h \in Hooks, DebitReads(h, u)'
        PROVE  hooks[h].req \in Requests /\ DebitReads(h, u)
    BY <2>1, <2>5, HookHasRequest DEF DebitReads
  <2> QED BY <1>3, <2>1, <2>4, <2>5 DEF DebitReads
<1>8. ASSUME NEW h \in Hooks, ReadWallet(h) PROVE Covered(u)'
  <2>1. UNCHANGED <<balance, debits, requests>>
    BY <1>8 DEF ReadWallet, tables
  <2>2. PICK r \in Requests : /\ r = hooks[h].req
                              /\ HookMoves(h, "write", balance[requests[r].user])
    BY <1>8, ReadWalletDoes DEF ReadWalletEffect
  <2>3. ASSUME NEW g \in Hooks \ {h}, DebitReads(g, u)'
        PROVE  hooks[g].req \in Requests /\ DebitReads(g, u) /\ hooks'[g] = hooks[g]
    <3>1. hooks'[g] = hooks[g]
      BY <2>2 DEF HookMoves
    <3> QED BY <2>1, <2>3, <3>1, HookHasRequest DEF DebitReads
  <2>4. ASSUME DebitReads(h, u)'
        PROVE  /\ hooks'[h].req \in Requests /\ requests[hooks'[h].req].user = u
               /\ hooks'[h].found = balance[u]
    BY <2>1, <2>2, <2>4 DEF DebitReads, HookMoves
  <2>5. balance'[u] \in Int /\ balance'[u] >= balance[u]
    BY <1>2, <2>1
  <2> QED BY <1>3, <2>1, <2>3, <2>4, <2>5 DEF DebitReads
<1>9. ASSUME NEW h \in Hooks, CommitDebit(h) PROVE Covered(u)'
  <2>1. CommitDebitEffect(h)
    BY <1>9, CommitDebitDoes
  <2>2. PICK r \in Requests : /\ r = hooks[h].req /\ hooks[h].pc = "commit"
                              /\ HookMoves(h, "done", 0)
                              /\ StatusMoves(r, "COMPLETED", requests[r].session)
    BY <2>1 DEF CommitDebitEffect
  <2>3. \A s \in Requests : requests'[s].user = requests[s].user /\ requests'[s].amount = requests[s].amount
    BY <2>2 DEF StatusMoves
  <2>4. /\ debits'[r] = debits[r] + 1 /\ \A s \in Requests \ {r} : debits'[s] = debits[s]
        /\ debits' \in [Requests -> Nat]
    BY <2>1, <2>2 DEF CommitDebitEffect
  <2>5. TwoDebits(u) => TwoDebits(u)'
    BY <1>2, <2>3, <2>4 DEF TwoDebits
  <2>6. NoDebit(u)' => NoDebit(u) /\ requests[r].user # u
    BY <1>2, <2>3, <2>4 DEF NoDebit
  <2>7. CASE requests[r].user = u
    <3>1. CASE NoDebit(u)
      <4>1. DebitReads(h, u)
        BY <2>2, <2>7 DEF DebitReads
      <4>2. requests[r].amount <= hooks[h].found
        BY <1>2, <2>2, <3>1, <4>1 DEF Covered
      <4>3. balance'[u] = hooks[h].found - requests[r].amount
        BY <2>1, <2>2, <2>7 DEF CommitDebitEffect
      <4>4. hooks[h].found \in Int
        BY DEF TypeOK, Hook
      <4>5. balance'[u] >= 0
        BY <1>2, <4>2, <4>3, <4>4
      <4> QED BY <2>6, <2>7, <4>5 DEF Covered
    <3>2. CASE ~NoDebit(u)
      <4>1. PICK s \in Requests : requests[s].user = u /\ debits[s] # 0
        BY <3>2 DEF NoDebit
      <4>2. CASE s = r
        <5>1. debits'[r] >= 2
          BY <1>2, <2>4, <4>1, <4>2
        <5> QED BY <2>3, <2>6, <2>7, <5>1 DEF TwoDebits, Covered
      <4>3. CASE s # r
        <5>1. debits'[r] > 0 /\ debits'[s] > 0
          BY <1>2, <2>4, <4>1, <4>3
        <5> QED BY <2>3, <2>6, <2>7, <4>1, <4>3, <5>1 DEF TwoDebits, Covered
      <4> QED BY <4>2, <4>3
    <3> QED BY <3>1, <3>2
  <2>8. CASE requests[r].user # u
    <3>1. balance'[u] = balance[u]
      BY <2>1, <2>2, <2>8 DEF CommitDebitEffect
    <3>2. ASSUME NEW g \in Hooks, DebitReads(g, u)'
          PROVE  hooks[g].req \in Requests /\ DebitReads(g, u) /\ hooks'[g] = hooks[g]
      <4>1. g # h
        BY <2>2, <3>2 DEF HookMoves, DebitReads
      <4>2. hooks'[g] = hooks[g] /\ hooks[g].pc \in {"write", "commit"}
        BY <2>2, <3>2, <4>1 DEF HookMoves, DebitReads
      <4>3. hooks[g].req \in Requests
        BY <4>2, HookHasRequest
      <4> QED BY <2>3, <3>2, <4>2, <4>3 DEF DebitReads
    <3>3. ASSUME NoDebit(u)', NEW g \in Hooks, DebitReads(g, u)'
          PROVE  requests'[hooks'[g].req].amount <= hooks'[g].found
      BY <1>2, <2>3, <2>6, <3>2, <3>3 DEF Covered
    <3>4. ASSUME NoDebit(u)', NEW s \in Requests, requests'[s].user = u
          PROVE  requests'[s].amount <= balance'[u]
      BY <1>2, <2>3, <2>6, <3>1, <3>4 DEF Covered
    <3>5. TwoDebits(u)' \/ balance'[u] >= 0
      BY <1>2, <2>5, <3>1 DEF Covered
    <3> QED BY <3>3, <3>4, <3>5 DEF Covered
  <2> QED BY <2>7, <2>8
<1> QED BY <1>4, <1>5, <1>6, <1>7, <1>8, <1>9, StepKinds

\* createWithdrawalRequest reserves nothing and handleWebhook checks nothing, and
\* still the first debit leaves a wallet whole, whatever credits it loses.
THEOREM OverdraftNeedsTwoDebitsAlways == Spec => []OverdraftNeedsTwoDebits
<1>1. Init => CoverInv
  <2> SUFFICES ASSUME Init, NEW u \in Users PROVE Covered(u)
    BY DEF CoverInv
  <2>1. balance[u] \in Nat
    BY WalletAssumption DEF Init
  <2>2. \A r \in Requests : requests[r].user # u
    BY NoneTypes, Bounds DEF Init
  <2>3. \A h \in Hooks : ~DebitReads(h, u)
    BY NoneTypes DEF Init, DebitReads
  <2> QED BY <2>1, <2>2, <2>3 DEF Covered
<1>2. WalletInv /\ CoverInv /\ [Next]_vars => CoverInv'
  BY CoverStep
<1>3. WalletInv /\ CoverInv => OverdraftNeedsTwoDebits
  <2> SUFFICES ASSUME WalletInv, CoverInv, NEW u \in Users, balance[u] < 0 PROVE TwoDebits(u)
    BY Zenon DEF OverdraftNeedsTwoDebits, TwoDebits
  <2>1. balance[u] \in Int
    BY DEF WalletInv, TypeOK
  <2> QED BY <2>1 DEF CoverInv, Covered
<1> QED BY <1>1, <1>2, <1>3, InvHolds, PTL DEF Spec
=============================================================================
