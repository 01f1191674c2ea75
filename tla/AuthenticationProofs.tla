------------------------ MODULE AuthenticationProofs ------------------------
(***************************************************************************)
(* Theorems about Authentication, for any number of requests, codes, links *)
(* and failures: its types, that a magic link lets in once, that a         *)
(* suspension holds, and that the code sent last is accepted.              *)
(***************************************************************************)
EXTENDS Authentication, TLAPS

AccountRows ==
  [kind : {"none", "PHONE", "GOOGLE", "EMAIL"}, listed : BOOLEAN,
   wallet : BOOLEAN, verified : BOOLEAN, pin : BOOLEAN, active : BOOLEAN,
   role : Roles, status : Statuses]
Updates == [role : {"same", "ADMIN", "SUPERADMIN"}, status : {"same", "ACTIVE"}]
Pcs == {"none", "create", "wallet", "set", "setOnly", "send", "delete", "verified", "login",
        "update", "setReset", "link", "deleteLink", "done"}
Ops == OtpOps \cup {"none", "phone", "google", "pin", "email", "logout", "onboard", "reset",
                    "newPassword", "link", "useLink", "active", "suspend", "patch",
                    "admin"}
CallRows == [pc : Pcs, op : Ops, arg : Nat, update : Updates]

USE DEF Roles, Statuses

(* What a request at pc carries, when m codes are made, i links issued and *)
(* the account exists or not.                                              *)
RowOK(pc, op, arg, m, i, exists) ==
  /\ pc \in {"send", "delete"} => arg \in 1..m
  /\ pc \in {"set", "setOnly", "send", "delete", "verified"} => op \in OtpOps
  /\ pc \in {"create", "wallet"} => op \in {"signUp", "phone", "google"}
  /\ pc \in {"wallet", "set", "send"} => exists
  /\ pc = "deleteLink" => op = "useLink"
  /\ op = "useLink" => arg \in 1..i /\ pc \in {"deleteLink", "login", "done"}

TypeInv ==
  /\ AuthTypeOK
  /\ call \in [Calls -> CallRows]
  /\ \A c \in Calls : RowOK(call[c].pc, call[c].op, call[c].arg, made, issued, Exists)
  /\ links \subseteq 1..issued
  /\ newest # NoCode => Exists
  /\ failures \in Nat

(* Request c is now op with arg and update, at pc; the others are as they  *)
(* were.                                                                   *)
Moved(c, pc, op, arg, update) ==
  /\ call' \in [Calls -> CallRows]
  /\ \A d \in Calls \ {c} : call'[d] = call[d]
  /\ call'[c].pc = pc /\ call'[c].op = op /\ call'[c].arg = arg /\ call'[c].update = update

LEMMA GotoEffect ==
  ASSUME TypeInv, NEW c \in Calls, NEW pc \in Pcs, Goto(c, pc)
  PROVE  Moved(c, pc, call[c].op, call[c].arg, call[c].update)
<1> DEFINE q == [call[c] EXCEPT !.pc = pc]
<1>1. call \in [Calls -> CallRows]
  BY DEF TypeInv
<1>2. /\ q \in CallRows /\ q.pc = pc /\ q.op = call[c].op /\ q.arg = call[c].arg
      /\ q.update = call[c].update
  BY <1>1 DEF CallRows
<1>3. call' = [call EXCEPT ![c] = q]
  BY DEF Goto
<1> HIDE DEF q
<1> QED
  BY <1>1, <1>2, <1>3 DEF Moved

LEMMA BeginEffect ==
  ASSUME TypeInv, NEW c \in Calls, NEW pc \in Pcs, NEW op \in Ops, NEW arg \in Nat,
         NEW update \in Updates, BeginCall(c, op, arg, update, pc)
  PROVE  Moved(c, pc, op, arg, update) /\ call[c].pc = "none"
<1> DEFINE q == [pc |-> pc, op |-> op, arg |-> arg, update |-> update]
<1>1. call \in [Calls -> CallRows]
  BY DEF TypeInv
<1>2. q \in CallRows /\ q.pc = pc /\ q.op = op /\ q.arg = arg /\ q.update = update
  BY DEF CallRows
<1>3. call' = [call EXCEPT ![c] = q] /\ call[c].pc = "none"
  BY DEF BeginCall
<1> HIDE DEF q
<1> QED
  BY <1>1, <1>2, <1>3 DEF Moved

LEMMA NoUpdateIs == NoUpdate \in Updates /\ NoUpdate.status = "same"
BY DEF NoUpdate, Updates

(* Requests stay well formed when one moves and nothing they rest on       *)
(* shrinks.                                                                *)
LEMMA RowsStep ==
  ASSUME TypeInv, NEW c \in Calls, NEW pc, NEW op, NEW arg, NEW update, Moved(c, pc, op, arg, update),
         made' \in Nat, made <= made', issued' \in Nat, issued <= issued', Exists => Exists',
         RowOK(pc, op, arg, made', issued', Exists')
  PROVE  \A d \in Calls : RowOK(call'[d].pc, call'[d].op, call'[d].arg, made', issued', Exists')
<1>1. made \in Nat /\ issued \in Nat /\ \A d \in Calls : call[d].arg \in Nat
  BY AuthAssumption DEF TypeInv, AuthTypeOK
<1>2. ASSUME NEW d \in Calls \ {c}
      PROVE  RowOK(call[d].pc, call[d].op, call[d].arg, made', issued', Exists')
  <2> DEFINE p == call[d].pc
             o == call[d].op
             n == call[d].arg
  <2>1. RowOK(p, o, n, made, issued, Exists) /\ n \in Nat
    BY <1>1 DEF TypeInv
  <2> HIDE DEF p, o, n
  <2>2. (n \in 1..made => n \in 1..made') /\ (n \in 1..issued => n \in 1..issued')
    BY <1>1, <2>1
  <2>3. RowOK(p, o, n, made', issued', Exists')
    BY <2>1, <2>2 DEF RowOK
  <2> QED
    BY <2>3 DEF p, o, n
<1> QED
  BY <1>2 DEF Moved
LEMMA AuthInitially == AuthInit => TypeInv
<1> SUFFICES ASSUME AuthInit PROVE TypeInv  OBVIOUS
<1>1. AuthAssumption
  BY AuthAssumption
<1>2. account \in AccountRows
  <2>1. NoAccount \in AccountRows
    BY DEF NoAccount, AccountRows
  <2>2. PICK k \in Kinds, b \in BOOLEAN :
          account = [NoAccount EXCEPT !.kind = k, !.wallet = k # "none",
                                      !.pin = k = "PHONE" /\ b, !.listed = k = "EMAIL" /\ b]
    BY DEF AuthInit
  <2> DEFINE w == k # "none"
             p == k = "PHONE" /\ b
             l == k = "EMAIL" /\ b
  <2>3. k \in {"none", "PHONE", "GOOGLE", "EMAIL"} /\ w \in BOOLEAN /\ p \in BOOLEAN /\ l \in BOOLEAN
    BY <1>1 DEF AuthAssumption
  <2>4. account = [NoAccount EXCEPT !.kind = k, !.wallet = w, !.pin = p, !.listed = l]
    BY <2>2
  <2> HIDE DEF w, p, l
  <2> QED
    BY <2>1, <2>3, <2>4 DEF AccountRows
<1>3. call \in [Calls -> CallRows] /\ \A c \in Calls : call[c].pc = "none" /\ call[c].op = "none"
  <2>1. NoCall \in CallRows /\ NoCall.pc = "none" /\ NoCall.op = "none"
    BY NoUpdateIs DEF NoCall, CallRows, Pcs, Ops
  <2> QED
    BY <2>1 DEF AuthInit
<1>4. AuthTypeOK
  <2>1. /\ session = FALSE /\ otp = 0 /\ resetCode = 0 /\ links = {} /\ made = 0 /\ newest = 0
        /\ spent = {} /\ crossed = FALSE /\ issued = 0 /\ uses = [l \in Links |-> 0] /\ loose = {}
        /\ suspended = FALSE /\ overridden = FALSE
    BY DEF AuthInit, NoCode
  <2>2. /\ 0 \in 0..MaxCodes /\ 0 \in 0..MaxLinks /\ 0 \in 0..made
        /\ uses \in [Links -> Nat] /\ \A c \in Calls : call[c].arg \in Nat
    BY <1>1, <1>3, <2>1 DEF AuthAssumption, CallRows
  <2> QED
    BY <1>2, <2>1, <2>2 DEF AuthTypeOK, AccountRows, NoCode
<1>5. \A c \in Calls : RowOK(call[c].pc, call[c].op, call[c].arg, made, issued, Exists)
  BY <1>3 DEF RowOK
<1> QED
  BY <1>1, <1>3, <1>4, <1>5 DEF AuthInit, TypeInv, NoCode

(* A step that touches only the account and requests.                      *)
LEMMA AccountStep ==
  ASSUME TypeInv, NEW c \in Calls, NEW pc, NEW op, NEW arg, NEW update, Moved(c, pc, op, arg, update),
         account' \in AccountRows, session' \in BOOLEAN, suspended' \in BOOLEAN, overridden' \in BOOLEAN,
         crossed' \in BOOLEAN, failures' \in Nat, Exists => Exists',
         UNCHANGED <<otp, newest, spent, resetCode, links, issued, loose, made>>,
         uses' \in [Links -> Nat],
         RowOK(pc, op, arg, made, issued, Exists')
  PROVE  TypeInv'
<1>1. made \in Nat /\ issued \in Nat /\ made' = made /\ issued' = issued
  BY AuthAssumption DEF TypeInv, AuthTypeOK
<1>2. \A d \in Calls : RowOK(call'[d].pc, call'[d].op, call'[d].arg, made', issued', Exists')
  BY <1>1, RowsStep
<1>3. AuthTypeOK'
  BY DEF TypeInv, AuthTypeOK, Moved, AccountRows, CallRows
<1> QED
  BY <1>2, <1>3 DEF TypeInv, Moved

(* What the fields of the state are.                                       *)
LEMMA Fields ==
  ASSUME TypeInv
  PROVE  /\ account \in AccountRows /\ session \in BOOLEAN /\ suspended \in BOOLEAN /\ overridden \in BOOLEAN
         /\ crossed \in BOOLEAN /\ failures \in Nat /\ made \in Nat /\ issued \in Nat
         /\ call \in [Calls -> CallRows] /\ uses \in [Links -> Nat]
BY AuthAssumption DEF TypeInv, AuthTypeOK, AccountRows

LEMMA BeginOnly ==
  ASSUME TypeInv, NEW c \in Calls, NEW pc \in Pcs, NEW op \in Ops, NEW arg \in Nat,
         Begin(c, op, arg, pc), RowOK(pc, op, arg, made, issued, Exists)
  PROVE  TypeInv'
<1>1. Moved(c, pc, op, arg, NoUpdate)
  BY NoUpdateIs, BeginEffect DEF Begin
<1>2. /\ UNCHANGED <<otp, newest, spent, resetCode, links, issued, loose, uses, made, failures>>
      /\ UNCHANGED <<account, session, suspended, overridden>> /\ crossed' \in BOOLEAN
  BY Fields DEF Begin, BeginCall, accountVars, linkVars
<1> QED
  BY <1>1, <1>2, Fields, AccountStep DEF Exists
LEMMA BeginningStep ==
  ASSUME TypeInv, NEW c \in Calls,
         \/ SignUp(c) \/ ResendCode(c) \/ VerifyAccount(c) \/ SignInByPhone(c)
         \/ RequestReset(c) \/ ResetPassword(c)
  PROVE  TypeInv'
<1>1. 0 \in Nat /\ made \in Nat
  BY Fields
<1>2. CASE SignUp(c)
  <2>1. PICK op \in {"signUp", "phone", "google"}, pc \in {"done", "create"} : Begin(c, op, 0, pc)
    BY <1>2 DEF SignUp
  <2>2. op \in Ops /\ pc \in Pcs /\ RowOK(pc, op, 0, made, issued, Exists)
    BY DEF Ops, OtpOps, Pcs, RowOK
  <2> QED
    BY <1>1, <2>1, <2>2, BeginOnly
<1>3. CASE ResendCode(c)
  <2>1. PICK pc \in {"set", "setOnly"} : Begin(c, "resend", 0, pc) /\ (pc = "set" => Exists)
    BY <1>3 DEF ResendCode
  <2>2. "resend" \in Ops /\ pc \in Pcs /\ RowOK(pc, "resend", 0, made, issued, Exists)
    BY <2>1 DEF Ops, OtpOps, Pcs, RowOK
  <2> QED
    BY <1>1, <2>1, <2>2, BeginOnly
<1>4. CASE VerifyAccount(c)
  <2>1. PICK code \in 1..made, pc \in {"delete", "done"} : Begin(c, "verify", code, pc)
    BY <1>4 DEF VerifyAccount
  <2>2. code \in Nat /\ "verify" \in Ops /\ pc \in Pcs /\ RowOK(pc, "verify", code, made, issued, Exists)
    BY <1>1 DEF Ops, OtpOps, Pcs, RowOK
  <2> QED
    BY <2>1, <2>2, BeginOnly
<1>5. CASE SignInByPhone(c)
  <2>1. /\ "pin" \in Ops /\ "signIn" \in Ops /\ "login" \in Pcs /\ "done" \in Pcs /\ "set" \in Pcs
        /\ Exists
    BY <1>5 DEF Ops, OtpOps, Pcs, SignInByPhone, Exists
  <2>2. /\ RowOK("login", "pin", 0, made, issued, Exists) /\ RowOK("done", "pin", 0, made, issued, Exists)
        /\ RowOK("set", "signIn", 0, made, issued, Exists)
    BY <2>1 DEF RowOK, OtpOps
  <2> QED
    BY <1>1, <1>5, <2>1, <2>2, BeginOnly DEF SignInByPhone
<1>6. CASE RequestReset(c)
  <2>1. "reset" \in Ops /\ "setReset" \in Pcs /\ "done" \in Pcs
    BY DEF Ops, Pcs
  <2>2. RowOK("setReset", "reset", 0, made, issued, Exists) /\ RowOK("done", "reset", 0, made, issued, Exists)
    BY DEF RowOK
  <2>3. CASE Begin(c, "reset", 0, IF resetCode = NoCode THEN "setReset" ELSE "done")
    BY <1>1, <2>1, <2>2, <2>3, BeginOnly
  <2>4. CASE /\ failures' = failures + 1 /\ BeginCall(c, "reset", 0, NoUpdate, "setReset")
             /\ UNCHANGED <<accountVars, otp, newest, spent, resetCode, linkVars, made>>
    <3>1. Moved(c, "setReset", "reset", 0, NoUpdate) /\ crossed' \in BOOLEAN
      BY <1>1, <2>1, <2>4, NoUpdateIs, BeginEffect, Fields DEF BeginCall
    <3>2. UNCHANGED <<account, session, suspended, overridden, links, issued, loose, uses>> /\ failures' \in Nat
      BY <2>4, Fields DEF accountVars, linkVars
    <3> QED
      BY <2>2, <2>4, <3>1, <3>2, Fields, AccountStep DEF Exists
  <2> QED
    BY <1>6, <2>3, <2>4 DEF RequestReset
<1>7. CASE ResetPassword(c)
  <2>1. "newPassword" \in Ops /\ "done" \in Pcs /\ RowOK("done", "newPassword", 0, made, issued, Exists)
    BY DEF Ops, Pcs, RowOK
  <2> QED
    BY <1>1, <1>7, <2>1, BeginOnly DEF ResetPassword
<1> QED
  BY <1>2, <1>3, <1>4, <1>5, <1>6, <1>7

(* Ways in and what they write to the account.                             *)
LEMMA AccountWritten ==
  ASSUME TypeInv, NEW c \in Calls,
         \/ CreateAccount(c) \/ CreateAccountWallet(c) \/ MarkVerified(c) \/ Login(c)
         \/ UpdateAccount(c) \/ SignInByEmail(c) \/ Logout(c) \/ CompleteOnboarding(c)
         \/ SetActive(c) \/ SetSuspended(c) \/ UpdateUser(c) \/ CreateAdminUser(c)
  PROVE  /\ account' \in AccountRows /\ (Exists => Exists') /\ account'.listed = account.listed
         /\ session' \in BOOLEAN /\ suspended' \in BOOLEAN /\ overridden' \in BOOLEAN
         /\ UNCHANGED <<otp, newest, spent, resetCode, links, issued, loose, made, failures>>
<1>1. account \in AccountRows /\ call[c] \in CallRows
  BY Fields
<1>2. CASE CreateAccount(c)
  <2> DEFINE k == IF call[c].op = "google" THEN "GOOGLE" ELSE "PHONE"
             v == call[c].op = "phone"
  <2>1. k \in {"GOOGLE", "PHONE"} /\ v \in BOOLEAN
    OBVIOUS
  <2>2. account' = account \/ account' = [account EXCEPT !.kind = k, !.verified = v]
    BY <1>2 DEF CreateAccount
  <2> HIDE DEF k, v
  <2>3. account' \in AccountRows /\ (Exists => Exists') /\ account'.listed = account.listed
    BY <1>1, <2>1, <2>2 DEF AccountRows, Exists
  <2> QED
    BY <1>2, <2>3, Fields DEF CreateAccount, otpVars, linkVars
<1>3. CASE CreateAccountWallet(c)
  BY <1>1, <1>3, Fields DEF CreateAccountWallet, otpVars, linkVars, AccountRows, Exists
<1>4. CASE MarkVerified(c)
  BY <1>1, <1>4, Fields DEF MarkVerified, otpVars, linkVars, AccountRows, Exists
<1>5. CASE Login(c)
  BY <1>1, <1>5, Fields DEF Login, otpVars, linkVars, Exists
<1>6. CASE UpdateAccount(c)
  <2> DEFINE r == IF call[c].update.role = "same" THEN account.role ELSE call[c].update.role
             s == IF call[c].update.status = "same" THEN account.status ELSE call[c].update.status
  <2>1. r \in {"USER", "ADMIN", "SUPERADMIN"} /\ s \in {"null", "ACTIVE", "SUSPENDED"}
    BY <1>1 DEF AccountRows, CallRows, Updates
  <2>2. account' = [account EXCEPT !.role = r, !.status = s]
    BY <1>6 DEF UpdateAccount
  <2> HIDE DEF r, s
  <2>3. account' \in AccountRows /\ (Exists => Exists') /\ account'.listed = account.listed
    BY <1>1, <2>1, <2>2 DEF AccountRows, Exists
  <2> QED
    BY <1>6, <2>3, Fields DEF UpdateAccount, otpVars, linkVars
<1>7. CASE SignInByEmail(c) \/ CreateAdminUser(c)
  <2>1. /\ UNCHANGED <<account, session, suspended, otp, newest, spent, resetCode, linkVars, made, failures>>
        /\ overridden' = overridden \/ overridden' = (overridden \/ (suspended /\ Promoted))
    BY <1>7 DEF SignInByEmail, CreateAdminUser, accountVars
  <2> QED
    BY <1>1, <2>1, Fields DEF linkVars, Exists
<1>8. CASE Logout(c)
  BY <1>1, <1>8, Fields DEF Logout, linkVars, Exists
<1>9. CASE CompleteOnboarding(c)
  BY <1>1, <1>9, Fields DEF CompleteOnboarding, linkVars, Exists, AccountRows
<1>10. CASE SetActive(c)
  <2> DEFINE a == ~account.active
  <2>1. a \in BOOLEAN /\ account' = [account EXCEPT !.active = a]
    BY <1>1, <1>10 DEF SetActive
  <2> HIDE DEF a
  <2>2. account' \in AccountRows /\ (Exists => Exists') /\ account'.listed = account.listed
    BY <1>1, <2>1 DEF AccountRows, Exists
  <2> QED
    BY <1>10, <2>2, Fields DEF SetActive, linkVars
<1>11. CASE SetSuspended(c) \/ UpdateUser(c)
  <2>1. ASSUME NEW status \in Statuses, SetStatus(status)
        PROVE  /\ account' \in AccountRows /\ (Exists => Exists') /\ account'.listed = account.listed
               /\ suspended' \in BOOLEAN /\ overridden' \in BOOLEAN
    <3>1. /\ account' = [account EXCEPT !.status = status] /\ suspended' = (status = "SUSPENDED")
          /\ overridden' = (suspended' /\ \E d \in OpenCalls : call[d].update.status # "same")
      BY <2>1 DEF SetStatus
    <3>2. account' \in AccountRows /\ account'.kind = account.kind /\ account'.listed = account.listed
      BY <1>1, <3>1 DEF AccountRows
    <3> QED
      BY <3>1, <3>2 DEF Exists
  <2>2. UNCHANGED <<otp, newest, spent, resetCode, linkVars, made, failures>>
    BY <1>11 DEF SetSuspended, UpdateUser
  <2>3. CASE SetSuspended(c)
    <3>1. SetStatus("SUSPENDED") \/ SetStatus("ACTIVE")
      BY <2>3 DEF SetSuspended
    <3>2. session' \in BOOLEAN
      BY <2>3, Fields DEF SetSuspended
    <3> QED
      BY <2>1, <2>2, <3>1, <3>2 DEF linkVars
  <2>4. CASE UpdateUser(c)
    <3>1. \/ (\E s \in Statuses : SetStatus(s)) /\ UNCHANGED session
          \/ /\ UNCHANGED <<suspended, overridden>>
             /\ \/ (\E r \in Roles : account' = [account EXCEPT !.role = r]) /\ UNCHANGED session
                \/ \E b \in BOOLEAN : /\ account' \in {[account EXCEPT !.pin = b], [account EXCEPT !.active = b],
                                                      [account EXCEPT !.verified = b]}
                                      /\ UNCHANGED session
                \/ session' \in BOOLEAN /\ UNCHANGED account
      BY <2>4 DEF UpdateUser
    <3>2. CASE (\E s \in Statuses : SetStatus(s)) /\ UNCHANGED session
      BY <2>1, <2>2, <3>2, Fields DEF linkVars
    <3>3. ASSUME \E r \in Roles, b \in BOOLEAN :
                   account' \in {account, [account EXCEPT !.role = r], [account EXCEPT !.pin = b],
                                [account EXCEPT !.active = b], [account EXCEPT !.verified = b]}
          PROVE  account' \in AccountRows /\ (Exists => Exists') /\ account'.listed = account.listed
      BY <1>1, <3>3 DEF AccountRows, Exists
    <3>4. CASE UNCHANGED <<suspended, overridden>> /\ ~ \E s \in Statuses : SetStatus(s)
      BY <2>2, <3>1, <3>3, <3>4, Fields DEF linkVars
    <3> QED
      BY <2>2, <3>1, <3>2, <3>3, <3>4, Fields DEF linkVars
  <2> QED
    BY <1>11, <2>3, <2>4
<1> QED
  BY <1>2, <1>3, <1>4, <1>5, <1>6, <1>7, <1>8, <1>9, <1>10, <1>11
(* How these requests move.                                                *)
LEMMA AccountMoves ==
  ASSUME TypeInv, NEW c \in Calls
  PROVE  /\ CreateAccount(c) =>
              /\ \/ Moved(c, "done", call[c].op, call[c].arg, call[c].update)
                 \/ Moved(c, "wallet", call[c].op, call[c].arg, call[c].update) /\ Exists'
              /\ call[c].pc = "create" /\ UNCHANGED <<crossed, uses>>
         /\ CreateAccountWallet(c) =>
              /\ \/ Moved(c, "set", call[c].op, call[c].arg, call[c].update) /\ call[c].op = "signUp"
                 \/ Moved(c, "link", call[c].op, call[c].arg, call[c].update) /\ call[c].op = "phone"
                 \/ Moved(c, "login", call[c].op, call[c].arg, call[c].update) /\ call[c].op = "google"
              /\ call[c].pc = "wallet" /\ UNCHANGED <<crossed, uses>>
         /\ MarkVerified(c) =>
              /\ \/ Moved(c, "login", call[c].op, call[c].arg, call[c].update)
                 \/ Moved(c, "done", call[c].op, call[c].arg, call[c].update)
              /\ call[c].pc = "verified" /\ UNCHANGED <<crossed, uses>>
         /\ Login(c) =>
              /\ \/ Moved(c, "update", call[c].op, call[c].arg, call[c].update) /\ call[c].op = "email"
                 \/ Moved(c, "done", call[c].op, call[c].arg, call[c].update)
              /\ call[c].pc = "login" /\ UNCHANGED crossed
         /\ UpdateAccount(c) =>
              /\ Moved(c, "done", call[c].op, call[c].arg, call[c].update)
              /\ call[c].pc = "update" /\ UNCHANGED <<crossed, uses>>
<1>1. /\ "done" \in Pcs /\ "wallet" \in Pcs /\ "set" \in Pcs /\ "link" \in Pcs /\ "login" \in Pcs
      /\ "update" \in Pcs
  BY DEF Pcs
<1>2. CreateAccount(c) =>
        /\ call[c].pc = "create" /\ UNCHANGED <<crossed, uses>>
        /\ Goto(c, "done") \/ (Goto(c, "wallet") /\ Exists')
  <2> SUFFICES ASSUME CreateAccount(c)
               PROVE  /\ call[c].pc = "create" /\ UNCHANGED <<crossed, uses>>
                      /\ Goto(c, "done") \/ (Goto(c, "wallet") /\ Exists')
    OBVIOUS
  <2>1. account \in AccountRows
    BY Fields
  <2> QED
    BY <2>1 DEF CreateAccount, Exists, AccountRows, otpVars, linkVars
<1>3. CreateAccountWallet(c) =>
        /\ call[c].pc = "wallet" /\ UNCHANGED <<crossed, uses>>
        /\ \/ Goto(c, "set") /\ call[c].op = "signUp"
           \/ Goto(c, "link") /\ call[c].op = "phone"
           \/ Goto(c, "login") /\ call[c].op = "google"
  BY DEF CreateAccountWallet, TypeInv, RowOK, otpVars, linkVars
<1>4. MarkVerified(c) =>
        /\ call[c].pc = "verified" /\ UNCHANGED <<crossed, uses>>
        /\ Goto(c, "login") \/ Goto(c, "done")
  BY DEF MarkVerified, otpVars, linkVars
<1>5. Login(c) =>
        /\ call[c].pc = "login" /\ UNCHANGED crossed
        /\ (Goto(c, "update") /\ call[c].op = "email") \/ Goto(c, "done")
  BY DEF Login, otpVars
<1>6. UpdateAccount(c) => call[c].pc = "update" /\ UNCHANGED <<crossed, uses>> /\ Goto(c, "done")
  BY DEF UpdateAccount, otpVars, linkVars
<1> QED
  BY <1>1, <1>2, <1>3, <1>4, <1>5, <1>6, GotoEffect

LEMMA AccountBegins ==
  ASSUME TypeInv, NEW c \in Calls
  PROVE  /\ SignInByEmail(c) => \E u \in Updates :
              /\ Moved(c, "login", "email", 0, u)
              /\ u.status = (IF Promoted \/ FirstSignIn THEN "ACTIVE" ELSE "same")
              /\ UNCHANGED uses
         /\ CreateAdminUser(c) => \E u \in Updates :
              Moved(c, "update", "admin", 0, u) /\ u.status = "same" /\ UNCHANGED uses
         /\ Logout(c) => Moved(c, "done", "logout", 0, NoUpdate) /\ UNCHANGED uses
         /\ CompleteOnboarding(c) => Moved(c, "done", "onboard", 0, NoUpdate) /\ UNCHANGED uses
         /\ SetActive(c) => Moved(c, "done", "active", 0, NoUpdate) /\ UNCHANGED uses
         /\ SetSuspended(c) => Moved(c, "done", "suspend", 0, NoUpdate) /\ UNCHANGED uses
         /\ UpdateUser(c) => Moved(c, "done", "patch", 0, NoUpdate) /\ UNCHANGED uses
<1>1. /\ "done" \in Pcs /\ "login" \in Pcs /\ "update" \in Pcs /\ 0 \in Nat
      /\ \A o \in {"email", "admin", "logout", "onboard", "active", "suspend", "patch"} : o \in Ops
  BY DEF Pcs, Ops
<1>2. ASSUME SignInByEmail(c)
      PROVE  \E u \in Updates :
               /\ Moved(c, "login", "email", 0, u)
               /\ u.status = (IF Promoted \/ FirstSignIn THEN "ACTIVE" ELSE "same")
               /\ UNCHANGED uses
  <2> DEFINE r == IF Promoted THEN "SUPERADMIN" ELSE "same"
             s == IF Promoted \/ FirstSignIn THEN "ACTIVE" ELSE "same"
             u == [role |-> r, status |-> s]
  <2>1. u \in Updates /\ u.status = s
    BY DEF Updates
  <2>2. BeginCall(c, "email", 0, u, "login") /\ UNCHANGED uses
    BY <1>2 DEF SignInByEmail, linkVars
  <2> HIDE DEF u
  <2>3. Moved(c, "login", "email", 0, u)
    BY <1>1, <2>1, <2>2, BeginEffect
  <2> QED
    BY <2>1, <2>2, <2>3
<1>3. ASSUME CreateAdminUser(c)
      PROVE  \E u \in Updates : Moved(c, "update", "admin", 0, u) /\ u.status = "same" /\ UNCHANGED uses
  <2>1. PICK role \in {"ADMIN", "SUPERADMIN"} :
          BeginCall(c, "admin", 0, [NoUpdate EXCEPT !.role = role], "update")
    BY <1>3 DEF CreateAdminUser
  <2> DEFINE u == [NoUpdate EXCEPT !.role = role]
  <2>2. u \in Updates /\ u.status = "same"
    BY DEF NoUpdate, Updates
  <2>3. BeginCall(c, "admin", 0, u, "update") /\ UNCHANGED uses
    BY <1>3, <2>1 DEF CreateAdminUser, linkVars
  <2> HIDE DEF u
  <2>4. Moved(c, "update", "admin", 0, u)
    BY <1>1, <2>2, <2>3, BeginEffect
  <2> QED
    BY <2>2, <2>3, <2>4
<1>4. /\ Logout(c) => BeginCall(c, "logout", 0, NoUpdate, "done") /\ UNCHANGED uses
      /\ CompleteOnboarding(c) => BeginCall(c, "onboard", 0, NoUpdate, "done") /\ UNCHANGED uses
      /\ SetActive(c) => BeginCall(c, "active", 0, NoUpdate, "done") /\ UNCHANGED uses
      /\ SetSuspended(c) => BeginCall(c, "suspend", 0, NoUpdate, "done") /\ UNCHANGED uses
      /\ UpdateUser(c) => BeginCall(c, "patch", 0, NoUpdate, "done") /\ UNCHANGED uses
  BY DEF Logout, CompleteOnboarding, SetActive, SetSuspended, UpdateUser, linkVars
<1>5. /\ Logout(c) => Moved(c, "done", "logout", 0, NoUpdate) /\ UNCHANGED uses
      /\ CompleteOnboarding(c) => Moved(c, "done", "onboard", 0, NoUpdate) /\ UNCHANGED uses
      /\ SetActive(c) => Moved(c, "done", "active", 0, NoUpdate) /\ UNCHANGED uses
      /\ SetSuspended(c) => Moved(c, "done", "suspend", 0, NoUpdate) /\ UNCHANGED uses
      /\ UpdateUser(c) => Moved(c, "done", "patch", 0, NoUpdate) /\ UNCHANGED uses
  BY <1>1, <1>4, NoUpdateIs, BeginEffect
<1> QED
  BY <1>2, <1>3, <1>5

LEMMA AccountTypes ==
  ASSUME TypeInv, NEW c \in Calls,
         \/ CreateAccount(c) \/ CreateAccountWallet(c) \/ MarkVerified(c) \/ Login(c)
         \/ UpdateAccount(c) \/ SignInByEmail(c) \/ Logout(c) \/ CompleteOnboarding(c)
         \/ SetActive(c) \/ SetSuspended(c) \/ UpdateUser(c) \/ CreateAdminUser(c)
  PROVE  TypeInv'
<1>1. /\ account' \in AccountRows /\ (Exists => Exists')
      /\ session' \in BOOLEAN /\ suspended' \in BOOLEAN /\ overridden' \in BOOLEAN
      /\ UNCHANGED <<otp, newest, spent, resetCode, links, issued, loose, made, failures>>
  BY AccountWritten
<1>2. \E pc \in Pcs, op \in Ops, arg \in Nat, update \in Updates :
        Moved(c, pc, op, arg, update) /\ RowOK(pc, op, arg, made, issued, Exists')
  <2>1. /\ call[c].op \in Ops /\ call[c].arg \in Nat /\ call[c].update \in Updates
        /\ RowOK(call[c].pc, call[c].op, call[c].arg, made, issued, Exists)
        /\ NoUpdate \in Updates /\ 0 \in Nat
    BY NoUpdateIs, Fields DEF TypeInv, CallRows
  <2>2. CASE CreateAccount(c) \/ CreateAccountWallet(c) \/ MarkVerified(c) \/ Login(c) \/ UpdateAccount(c)
    <3>1. PICK pc \in {"done", "wallet", "set", "link", "login", "update"} :
            /\ Moved(c, pc, call[c].op, call[c].arg, call[c].update)
            /\ pc = "wallet" => call[c].pc = "create" /\ Exists'
            /\ pc = "set" => call[c].pc = "wallet" /\ call[c].op = "signUp"
            /\ call[c].pc \in {"create", "wallet", "verified", "login", "update"}
            /\ pc # "done" => call[c].op # "useLink"
      <4>1. CASE CreateAccount(c)
        BY <2>1, <4>1, AccountMoves DEF RowOK
      <4>2. CASE CreateAccountWallet(c)
        BY <4>2, AccountMoves
      <4>3. CASE MarkVerified(c)
        BY <2>1, <4>3, AccountMoves DEF RowOK, OtpOps
      <4>4. CASE Login(c) \/ UpdateAccount(c)
        BY <4>4, AccountMoves
      <4> QED
        BY <2>2, <4>1, <4>2, <4>3, <4>4
    <3>2. RowOK(pc, call[c].op, call[c].arg, made, issued, Exists')
      BY <1>1, <2>1, <3>1 DEF RowOK, OtpOps
    <3>3. pc \in Pcs
      BY DEF Pcs
    <3> QED
      BY <2>1, <3>1, <3>2, <3>3
  <2>3. CASE \/ SignInByEmail(c) \/ Logout(c) \/ CompleteOnboarding(c)
             \/ SetActive(c) \/ SetSuspended(c) \/ UpdateUser(c) \/ CreateAdminUser(c)
    <3>1. PICK pc \in {"done", "login", "update"},
               op \in {"email", "admin", "logout", "onboard", "active", "suspend", "patch"}, u \in Updates :
            Moved(c, pc, op, 0, u)
      BY <2>1, <2>3, AccountBegins
    <3>2. RowOK(pc, op, 0, made, issued, Exists') /\ pc \in Pcs /\ op \in Ops
      BY DEF RowOK, Pcs, Ops
    <3> QED
      BY <2>1, <3>1, <3>2
  <2> QED
    BY <2>2, <2>3
<1>3. crossed' \in BOOLEAN /\ failures' \in Nat
  BY <1>1, Fields DEF CreateAccount, CreateAccountWallet, MarkVerified, Login, UpdateAccount, SignInByEmail,
       Logout, CompleteOnboarding, SetActive, SetSuspended, UpdateUser, CreateAdminUser, otpVars, BeginCall
<1>4. uses' \in [Links -> Nat]
  <2>1. CASE Login(c)
    <3> DEFINE l == call[c].arg
    <3>1. uses' = uses \/ uses' = [uses EXCEPT ![l] = @ + 1]
      BY <2>1 DEF Login
    <3> HIDE DEF l
    <3> QED
      BY <3>1, Fields
  <2>2. CASE ~Login(c)
    BY <2>2, AccountMoves, AccountBegins, Fields
  <2> QED
    BY <2>1, <2>2
<1> QED
  BY <1>1, <1>2, <1>3, <1>4, AccountStep
(* Steps about codes and links.                                            *)
LEMMA CodeTypes ==
  ASSUME TypeInv, NEW c \in Calls,
         SetCode(c) \/ SendCode(c) \/ DeleteCode(c) \/ SetResetCode(c)
  PROVE  /\ TypeInv'
         /\ SetCode(c) =>
              \/ Moved(c, "send", call[c].op, made + 1, call[c].update) /\ call[c].pc = "set"
              \/ Moved(c, "done", call[c].op, made + 1, call[c].update) /\ call[c].pc = "setOnly"
         /\ SendCode(c) => Moved(c, "done", call[c].op, call[c].arg, call[c].update)
         /\ DeleteCode(c) => Moved(c, "verified", call[c].op, call[c].arg, call[c].update)
         /\ SetResetCode(c) => Moved(c, "done", call[c].op, call[c].arg, call[c].update)
<1>1. /\ call \in [Calls -> CallRows] /\ made \in Nat /\ issued \in Nat
      /\ RowOK(call[c].pc, call[c].op, call[c].arg, made, issued, Exists)
      /\ call[c].op \in Ops /\ call[c].arg \in Nat /\ call[c].update \in Updates
      /\ "done" \in Pcs /\ "send" \in Pcs /\ "verified" \in Pcs
  BY Fields DEF TypeInv, CallRows, Pcs
<1>2. UNCHANGED <<account, session, suspended, overridden, links, issued, uses, loose>> /\ failures' \in Nat
  BY Fields DEF SetCode, SendCode, DeleteCode, SetResetCode, accountVars, linkVars, otpVars
<1>3. CASE SetCode(c)
  <2> DEFINE n == made + 1
             pc == IF call[c].pc = "set" THEN "send" ELSE "done"
             q == [call[c] EXCEPT !.arg = n, !.pc = pc]
  <2>1. /\ n \in Nat /\ pc \in Pcs /\ call' = [call EXCEPT ![c] = q] /\ made < MaxCodes /\ made' = n
        /\ call[c].pc \in {"set", "setOnly"}
    <3>1. call' = [call EXCEPT ![c] = q]
      BY <1>1, <1>3, Zenon DEF SetCode
    <3>2. /\ made < MaxCodes /\ made' = n /\ call[c].pc \in {"set", "setOnly"}
      BY <1>3 DEF SetCode
    <3> QED
      BY <1>1, <3>1, <3>2
  <2>2. q \in CallRows /\ q.pc = pc /\ q.arg = n /\ q.op = call[c].op /\ q.update = call[c].update
    BY <1>1, <2>1 DEF CallRows
  <2> HIDE DEF q
  <2>3. Moved(c, pc, call[c].op, n, call[c].update)
    BY <1>1, <2>1, <2>2 DEF Moved
  <2>4. RowOK(pc, call[c].op, n, made', issued', Exists')
    BY <1>1, <1>2, <2>1 DEF RowOK, Exists, OtpOps
  <2>5. \A d \in Calls : RowOK(call'[d].pc, call'[d].op, call'[d].arg, made', issued', Exists')
    BY <1>1, <1>2, <2>1, <2>3, <2>4, RowsStep DEF Exists
  <2>6. /\ otp' \in Codes \cup {NoCode} /\ crossed' \in BOOLEAN /\ made' \in 0..MaxCodes /\ newest' \in 0..made'
        /\ UNCHANGED <<newest, spent, resetCode>>
    <3>1. /\ MaxCodes \in Nat /\ otp \in Codes \cup {NoCode} /\ newest \in 0..made /\ crossed \in BOOLEAN
      BY AuthAssumption DEF TypeInv, AuthTypeOK
    <3>2. /\ otp' = n \/ otp' = otp
          /\ crossed' = (crossed /\ ~Alone(c)) \/ crossed' = TRUE
          /\ UNCHANGED <<newest, spent, resetCode>>
      BY <1>3 DEF SetCode
    <3>3. n \in Codes /\ n \in 0..MaxCodes /\ newest \in 0..n
      BY <1>1, <2>1, <3>1 DEF Codes
    <3> HIDE DEF n
    <3> QED
      BY <2>1, <3>1, <3>2, <3>3
  <2>7. AuthTypeOK'
    BY <1>2, <2>3, <2>6 DEF TypeInv, AuthTypeOK, Moved, CallRows
  <2>8. TypeInv'
    BY <1>2, <2>3, <2>5, <2>6, <2>7 DEF TypeInv, Moved, Exists
  <2> QED
    BY <1>3, <2>1, <2>3, <2>8 DEF SetCode, SendCode, DeleteCode, SetResetCode
<1>4. CASE SendCode(c) \/ DeleteCode(c) \/ SetResetCode(c)
  <2>1. PICK pc \in {"done", "verified"} :
          /\ Goto(c, pc)
          /\ SendCode(c) => pc = "done"
          /\ DeleteCode(c) => pc = "verified"
          /\ SetResetCode(c) => pc = "done"
          /\ call[c].pc \in {"send", "delete", "setReset"}
          /\ pc = "verified" => call[c].pc = "delete"
    BY <1>4 DEF SendCode, DeleteCode, SetResetCode
  <2>2. pc \in Pcs
    BY DEF Pcs
  <2>3. Moved(c, pc, call[c].op, call[c].arg, call[c].update)
    BY <2>1, <2>2, GotoEffect
  <2>4. /\ made' \in Nat /\ made <= made' /\ made' \in 0..MaxCodes
        /\ otp' \in Codes \cup {NoCode} /\ resetCode' \in Codes \cup {NoCode}
        /\ newest' \in 0..made' /\ spent' \subseteq Codes /\ crossed' \in BOOLEAN
        /\ newest' # NoCode => Exists
    <3>1. /\ MaxCodes \in Nat /\ made \in 0..MaxCodes /\ otp \in Codes \cup {NoCode}
          /\ resetCode \in Codes \cup {NoCode} /\ newest \in 0..made /\ spent \subseteq Codes
          /\ crossed \in BOOLEAN /\ (newest # NoCode => Exists)
      BY AuthAssumption DEF TypeInv, AuthTypeOK
    <3>2. call[c].pc \in {"send", "delete"} => call[c].arg \in 1..made /\ call[c].arg \in Codes
      BY <1>1, <3>1 DEF RowOK, Codes
    <3>3. call[c].pc = "send" => Exists
      BY <1>1 DEF RowOK
    <3>4. CASE SendCode(c)
      BY <1>1, <3>1, <3>2, <3>3, <3>4 DEF SendCode
    <3>5. CASE DeleteCode(c)
      BY <1>1, <3>1, <3>2, <3>5 DEF DeleteCode
    <3>6. CASE SetResetCode(c)
      <4>1. made' = made + 1 /\ resetCode' = made + 1 /\ made < MaxCodes /\ UNCHANGED <<otp, newest, spent, crossed>>
        BY <3>6 DEF SetResetCode, otpVars
      <4> QED
        BY <1>1, <3>1, <4>1 DEF Codes
    <3> QED
      BY <1>4, <3>4, <3>5, <3>6
  <2>5. RowOK(pc, call[c].op, call[c].arg, made', issued', Exists')
    BY <1>1, <1>2, <2>1 DEF RowOK, OtpOps
  <2>6. \A d \in Calls : RowOK(call'[d].pc, call'[d].op, call'[d].arg, made', issued', Exists')
    BY <1>1, <1>2, <2>3, <2>4, <2>5, RowsStep DEF Exists
  <2>7. AuthTypeOK'
    BY <1>2, <2>3, <2>4 DEF TypeInv, AuthTypeOK, Moved, CallRows
  <2>8. TypeInv'
    BY <1>2, <2>3, <2>4, <2>6, <2>7 DEF TypeInv, Moved, Exists
  <2> QED
    BY <2>1, <2>3, <2>8 DEF SetCode, SendCode, DeleteCode, SetResetCode
<1> QED
  BY <1>3, <1>4

LEMMA LinkTypes ==
  ASSUME TypeInv, NEW c \in Calls,
         IssueLink(c) \/ UseLink(c) \/ DeleteLink(c)
  PROVE  /\ TypeInv'
         /\ IssueLink(c) =>
              \/ Moved(c, "done", call[c].op, call[c].arg, call[c].update) /\ call[c].pc = "link"
                 /\ UNCHANGED crossed
              \/ Moved(c, "done", "link", 0, NoUpdate)
         /\ UseLink(c) => \E l \in links :
              /\ Moved(c, "deleteLink", "useLink", l, NoUpdate)
              /\ loose' = IF \E d \in Calls : call[d].pc = "deleteLink" /\ call[d].arg = l
                          THEN loose \cup {l} ELSE loose
         /\ DeleteLink(c) => Moved(c, "login", call[c].op, call[c].arg, call[c].update)
                             /\ call[c].op = "useLink" /\ call[c].arg \in 1..issued
<1>1. /\ call \in [Calls -> CallRows] /\ made \in Nat /\ issued \in 0..MaxLinks /\ MaxLinks \in Nat
      /\ RowOK(call[c].pc, call[c].op, call[c].arg, made, issued, Exists)
      /\ call[c].op \in Ops /\ call[c].arg \in Nat /\ call[c].update \in Updates /\ 0 \in Nat
      /\ "done" \in Pcs /\ "login" \in Pcs /\ "deleteLink" \in Pcs /\ "link" \in Ops /\ "useLink" \in Ops
  BY Fields, AuthAssumption DEF TypeInv, AuthTypeOK, CallRows, Pcs, Ops
<1>2. /\ UNCHANGED <<account, session, suspended, overridden, otp, newest, spent, resetCode, uses, made>>
      /\ failures' \in Nat /\ crossed' \in BOOLEAN
  <2>1. crossed \in BOOLEAN /\ failures \in Nat
    BY Fields
  <2>2. CASE IssueLink(c)
    BY <2>1, <2>2 DEF IssueLink, accountVars, BeginCall
  <2>3. CASE UseLink(c)
    BY <2>1, <2>3 DEF UseLink, accountVars, BeginCall
  <2>4. CASE DeleteLink(c)
    BY <2>1, <2>4 DEF DeleteLink, accountVars, otpVars
  <2> QED
    BY <2>2, <2>3, <2>4
<1>3. links \subseteq 1..issued /\ loose \subseteq Links
  BY DEF TypeInv, AuthTypeOK
<1>4. ASSUME NEW pc, NEW op, NEW arg, NEW update, Moved(c, pc, op, arg, update),
             issued' \in 0..MaxLinks, issued <= issued', links' \subseteq 1..issued', loose' \subseteq Links,
             RowOK(pc, op, arg, made, issued', Exists)
      PROVE  TypeInv'
  <2>1. \A d \in Calls : RowOK(call'[d].pc, call'[d].op, call'[d].arg, made', issued', Exists')
    BY <1>1, <1>2, <1>4, RowsStep DEF Exists
  <2>2. links' \subseteq Links
    BY <1>1, <1>4 DEF Links
  <2>3. AuthTypeOK'
    BY <1>2, <1>4, <2>2 DEF TypeInv, AuthTypeOK, Moved, CallRows
  <2> QED
    BY <1>2, <1>4, <2>1, <2>3 DEF TypeInv, Moved, Exists
<1>5. ASSUME IssueLink(c)
      PROVE  /\ TypeInv'
             /\ \/ Moved(c, "done", call[c].op, call[c].arg, call[c].update) /\ call[c].pc = "link"
                   /\ UNCHANGED crossed
                \/ Moved(c, "done", "link", 0, NoUpdate)
  <2>1. /\ issued' \in 0..MaxLinks /\ issued <= issued' /\ links' \subseteq 1..issued' /\ loose' \subseteq Links
    BY <1>1, <1>3, <1>5 DEF IssueLink
  <2>2. /\ call[c].pc = "link" => RowOK("done", call[c].op, call[c].arg, made, issued', Exists)
        /\ RowOK("done", "link", 0, made, issued', Exists)
    BY <1>1, <2>1 DEF RowOK
  <2>3. \/ Moved(c, "done", call[c].op, call[c].arg, call[c].update) /\ call[c].pc = "link" /\ UNCHANGED crossed
        \/ Moved(c, "done", "link", 0, NoUpdate)
    BY <1>1, <1>5, GotoEffect, BeginEffect, NoUpdateIs DEF IssueLink
  <2>4. TypeInv'
    BY <1>4, <2>1, <2>2, <2>3
  <2> QED
    BY <2>3, <2>4
<1>6. ASSUME UseLink(c)
      PROVE  /\ TypeInv'
             /\ \E l \in links :
                  /\ Moved(c, "deleteLink", "useLink", l, NoUpdate)
                  /\ loose' = IF \E d \in Calls : call[d].pc = "deleteLink" /\ call[d].arg = l
                              THEN loose \cup {l} ELSE loose
  <2>1. PICK l \in links :
          /\ BeginCall(c, "useLink", l, NoUpdate, "deleteLink")
          /\ loose' = IF \E d \in Calls : call[d].pc = "deleteLink" /\ call[d].arg = l
                      THEN loose \cup {l} ELSE loose
          /\ UNCHANGED <<links, issued>>
    BY <1>6 DEF UseLink
  <2>2. l \in Nat /\ l \in 1..issued /\ l \in Links
    BY <1>1, <1>3 DEF Links
  <2>3. Moved(c, "deleteLink", "useLink", l, NoUpdate) /\ call[c].pc = "none"
    BY <1>1, <2>1, <2>2, BeginEffect, NoUpdateIs
  <2>4. /\ issued' \in 0..MaxLinks /\ issued <= issued' /\ links' \subseteq 1..issued' /\ loose' \subseteq Links
        /\ RowOK("deleteLink", "useLink", l, made, issued', Exists)
    BY <1>1, <1>3, <2>1, <2>2 DEF RowOK
  <2>5. TypeInv'
    BY <1>4, <2>3, <2>4
  <2> QED
    BY <2>1, <2>3, <2>5
<1>7. ASSUME DeleteLink(c)
      PROVE  /\ TypeInv'
             /\ Moved(c, "login", call[c].op, call[c].arg, call[c].update)
             /\ call[c].op = "useLink" /\ call[c].arg \in 1..issued
  <2>1. Moved(c, "login", call[c].op, call[c].arg, call[c].update) /\ call[c].pc = "deleteLink"
    BY <1>1, <1>7, GotoEffect DEF DeleteLink
  <2>2. call[c].op = "useLink" /\ call[c].arg \in 1..issued /\ call[c].arg \in Links
    BY <1>1, <2>1 DEF RowOK, Links
  <2>3. /\ issued' \in 0..MaxLinks /\ issued <= issued' /\ links' \subseteq 1..issued' /\ loose' \subseteq Links
        /\ RowOK("login", call[c].op, call[c].arg, made, issued', Exists)
    <3>1. issued' = issued /\ links' \subseteq links /\ loose' \subseteq loose \cup {call[c].arg}
      BY <1>7 DEF DeleteLink, WithoutLink
    <3>2. RowOK("login", call[c].op, call[c].arg, made, issued, Exists)
      BY <1>1, <2>2 DEF RowOK
    <3> QED
      BY <1>1, <1>3, <2>2, <3>1, <3>2
  <2>4. TypeInv'
    BY <1>4, <2>1, <2>3
  <2> QED
    BY <2>1, <2>2, <2>4
<1> QED
  BY <1>5, <1>6, <1>7
(* Entries expire; requests fail.                                          *)
LEMMA ExpireTypes == TypeInv /\ Expire => TypeInv'
<1> SUFFICES ASSUME TypeInv, Expire PROVE TypeInv'  OBVIOUS
<1>1. /\ UNCHANGED <<account, session, suspended, overridden, newest, crossed, issued, uses, loose, call, made, failures>>
      /\ otp' \in {otp, NoCode} /\ resetCode' \in {resetCode, NoCode} /\ links' \subseteq links
      /\ \/ spent' = spent
         \/ spent' = spent \cup {otp} /\ otp # NoCode
  BY DEF Expire, accountVars
<1>2. AuthTypeOK'
  BY <1>1 DEF TypeInv, AuthTypeOK
<1> QED
  BY <1>1, <1>2 DEF TypeInv, Exists

LEMMA FailureMoves ==
  ASSUME TypeInv, CallsFail
  PROVE  /\ call' \in [Calls -> CallRows]
         /\ \A c \in Calls :
              /\ call'[c].op = call[c].op /\ call'[c].arg = call[c].arg /\ call'[c].update = call[c].update
              /\ \/ call'[c].pc = call[c].pc
                 \/ call'[c].pc = "done" /\ c \in OpenCalls /\ (call[c].op \in OtpOps => crossed')
<1>1. PICK dead \in SUBSET OpenCalls :
        /\ call' = [c \in Calls |-> IF c \in dead THEN [call[c] EXCEPT !.pc = "done"] ELSE call[c]]
        /\ crossed' = (crossed \/ \E c \in dead : call[c].op \in OtpOps)
  <2>1. PICK dead \in {OpenCalls} \cup {{c} : c \in OpenCalls} :
          /\ call' = [c \in Calls |-> IF c \in dead THEN [call[c] EXCEPT !.pc = "done"] ELSE call[c]]
          /\ crossed' = (crossed \/ \E c \in dead : call[c].op \in OtpOps)
    BY Zenon DEF CallsFail
  <2>2. dead \in SUBSET OpenCalls
    OBVIOUS
  <2> QED
    BY <2>1, <2>2, Zenon
<1>2. call \in [Calls -> CallRows] /\ "done" \in Pcs
  BY Fields DEF Pcs
<1>3. \A c \in Calls :
        LET q == [call[c] EXCEPT !.pc = "done"] IN
        q \in CallRows /\ q.pc = "done" /\ q.op = call[c].op /\ q.arg = call[c].arg /\ q.update = call[c].update
  BY <1>2 DEF CallRows
<1>4. \A c \in Calls : call'[c] = IF c \in dead THEN [call[c] EXCEPT !.pc = "done"] ELSE call[c]
  BY <1>1
<1>5. \A c \in Calls : call'[c] \in CallRows
  BY <1>2, <1>3, <1>4
<1>6. call' \in [Calls -> CallRows]
  BY <1>1, <1>5
<1> QED
  BY <1>1, <1>3, <1>4, <1>6

LEMMA FailureTypes == TypeInv /\ CallsFail => TypeInv'
<1> SUFFICES ASSUME TypeInv, CallsFail PROVE TypeInv'  OBVIOUS
<1>1. /\ UNCHANGED <<account, session, suspended, overridden, otp, newest, spent, resetCode, links, issued, uses, loose, made>>
      /\ crossed' \in BOOLEAN /\ failures' \in Nat
  BY Fields DEF CallsFail, accountVars, linkVars
<1>2. ASSUME NEW c \in Calls
      PROVE  RowOK(call'[c].pc, call'[c].op, call'[c].arg, made', issued', Exists')
  <2>1. RowOK(call[c].pc, call[c].op, call[c].arg, made, issued, Exists)
    BY DEF TypeInv
  <2>2. /\ call'[c].op = call[c].op /\ call'[c].arg = call[c].arg
        /\ call'[c].pc = call[c].pc \/ call'[c].pc = "done"
    BY FailureMoves
  <2> QED
    BY <1>1, <2>1, <2>2 DEF RowOK, Exists
<1>3. call' \in [Calls -> CallRows]
  BY FailureMoves
<1>4. AuthTypeOK'
  BY <1>1, <1>3 DEF TypeInv, AuthTypeOK, CallRows
<1> QED
  BY <1>1, <1>2, <1>3, <1>4 DEF TypeInv, Exists

LEMMA AuthTypeStep == TypeInv /\ [AuthNext]_authVars => TypeInv'
<1> SUFFICES ASSUME TypeInv, [AuthNext]_authVars PROVE TypeInv'  OBVIOUS
<1>1. CASE UNCHANGED authVars
  <2>1. UNCHANGED <<account, session, suspended, overridden, otp, newest, spent, crossed, resetCode, links,
                   issued, uses, loose, call, made, failures>>
    BY <1>1 DEF authVars, accountVars, otpVars, linkVars
  <2> QED
    BY <2>1 DEF TypeInv, AuthTypeOK, Exists
<1>2. CASE AuthNext
  BY <1>2, BeginningStep, AccountTypes, CodeTypes, LinkTypes, ExpireTypes, FailureTypes, Zenon DEF AuthNext
<1> QED
  BY <1>1, <1>2

LEMMA TypeAlways == AuthSpec => []TypeInv
BY AuthInitially, AuthTypeStep, PTL DEF AuthSpec

\* The account, the cached codes and links and the requests of auth.service.ts are
\* well typed: a code was generated before it is sent, and a link issued before
\* it is in the cache.
THEOREM AuthTypeCorrect == AuthSpec => []AuthTypeOK
<1>1. TypeInv => AuthTypeOK
  BY DEF TypeInv
<1> QED
  BY <1>1, TypeAlways, PTL
(***************************************************************************)
(* Suspension: while it holds, no open request is about to write a status. *)
(***************************************************************************)
SuspendedFor == suspended /\ ~overridden
SuspendInv ==
  SuspendedFor => /\ account.status = "SUSPENDED"
                  /\ \A c \in OpenCalls : call[c].update.status = "same"

(* A step that does not suspend and writes no status, of a request that    *)
(* will write none if the account is suspended.                            *)
LEMMA SuspendQuiet ==
  ASSUME SuspendInv, UNCHANGED <<suspended, overridden>>,
         account'.status = account.status,
         \A c \in Calls : c \in OpenCalls' /\ SuspendedFor =>
                            \/ c \in OpenCalls /\ call'[c].update = call[c].update
                            \/ call'[c].update.status = "same"
  PROVE  SuspendInv'
<1> SUFFICES ASSUME SuspendedFor'
             PROVE  /\ account'.status = "SUSPENDED"
                    /\ \A c \in OpenCalls' : call'[c].update.status = "same"
  BY DEF SuspendInv
<1>1. SuspendedFor
  BY DEF SuspendedFor
<1>2. \A c \in OpenCalls' : c \in Calls
  BY DEF OpenCalls
<1> QED
  BY <1>1, <1>2 DEF SuspendInv

(* Of one request that goes on, or begins without an update.               *)
LEMMA OthersOpen ==
  ASSUME NEW c \in Calls, NEW pc, NEW op, NEW arg, NEW update, Moved(c, pc, op, arg, update),
         \/ update.status = "same"
         \/ update = call[c].update /\ c \in OpenCalls
         \/ ~SuspendedFor
  PROVE  \A d \in Calls : d \in OpenCalls' /\ SuspendedFor =>
                            \/ d \in OpenCalls /\ call'[d].update = call[d].update
                            \/ call'[d].update.status = "same"
BY DEF Moved, OpenCalls

LEMMA SuspendStep == TypeInv /\ SuspendInv /\ [AuthNext]_authVars => SuspendInv'
<1> SUFFICES ASSUME TypeInv, SuspendInv, [AuthNext]_authVars PROVE SuspendInv'  OBVIOUS
<1>0. account \in AccountRows /\ call \in [Calls -> CallRows]
  BY Fields
<1>1. ASSUME UNCHANGED accountVars, NEW c \in Calls, NEW pc, NEW op, NEW arg, NEW update,
             Moved(c, pc, op, arg, update),
             update.status = "same" \/ (update = call[c].update /\ c \in OpenCalls)
      PROVE  SuspendInv'
  BY <1>1, OthersOpen, SuspendQuiet DEF accountVars
<1>2. ASSUME NEW c \in Calls, NEW pc, NEW op, NEW arg, Begin(c, op, arg, pc)
      PROVE  SuspendInv'
  <2> DEFINE q == [pc |-> pc, op |-> op, arg |-> arg, update |-> NoUpdate]
  <2>1. call' = [call EXCEPT ![c] = q] /\ q.update.status = "same" /\ UNCHANGED accountVars
    BY <1>2, NoUpdateIs DEF Begin, BeginCall
  <2> HIDE DEF q
  <2>2. \A d \in Calls : d \in OpenCalls' /\ SuspendedFor =>
                           \/ d \in OpenCalls /\ call'[d].update = call[d].update
                           \/ call'[d].update.status = "same"
    BY <1>0, <2>1 DEF OpenCalls
  <2> QED
    BY <2>1, <2>2, SuspendQuiet DEF accountVars
<1>3. ASSUME NEW c \in Calls,
             \/ SignUp(c) \/ ResendCode(c) \/ VerifyAccount(c) \/ SignInByPhone(c) \/ ResetPassword(c)
      PROVE  SuspendInv'
  BY <1>2, <1>3 DEF SignUp, ResendCode, VerifyAccount, SignInByPhone, ResetPassword
<1>4. ASSUME NEW c \in Calls, RequestReset(c) PROVE SuspendInv'
  <2>1. CASE Begin(c, "reset", 0, IF resetCode = NoCode THEN "setReset" ELSE "done")
    BY <1>2, <2>1
  <2>2. CASE BeginCall(c, "reset", 0, NoUpdate, "setReset") /\ UNCHANGED accountVars
    <3>1. "reset" \in Ops /\ "setReset" \in Pcs /\ 0 \in Nat
      BY DEF Ops, Pcs
    <3> QED
      BY <1>1, <2>2, <3>1, NoUpdateIs, BeginEffect
  <2> QED
    BY <1>4, <2>1, <2>2 DEF RequestReset
<1>5. ASSUME NEW c \in Calls, SetCode(c) \/ SendCode(c) \/ DeleteCode(c) \/ SetResetCode(c)
      PROVE  SuspendInv'
  <2>1. c \in OpenCalls /\ UNCHANGED accountVars
    BY <1>5 DEF SetCode, SendCode, DeleteCode, SetResetCode, OpenCalls
  <2> QED
    BY <1>1, <1>5, <2>1, CodeTypes
<1>6. ASSUME NEW c \in Calls, IssueLink(c) \/ UseLink(c) \/ DeleteLink(c) PROVE SuspendInv'
  <2>1. UNCHANGED accountVars /\ (call[c].pc \in {"link", "deleteLink"} => c \in OpenCalls)
    BY <1>6 DEF IssueLink, UseLink, DeleteLink, OpenCalls
  <2>2. DeleteLink(c) => call[c].pc = "deleteLink"
    BY DEF DeleteLink
  <2> QED
    BY <1>1, <1>6, <2>1, <2>2, LinkTypes, NoUpdateIs
<1>7. ASSUME NEW c \in Calls, CreateAccount(c) \/ CreateAccountWallet(c) \/ MarkVerified(c) \/ Login(c)
      PROVE  SuspendInv'
  <2>1. c \in OpenCalls /\ UNCHANGED <<suspended, overridden>> /\ account'.status = account.status
    BY <1>0, <1>7 DEF CreateAccount, CreateAccountWallet, MarkVerified, Login, OpenCalls, AccountRows
  <2>2. \E pc, op, arg : Moved(c, pc, op, arg, call[c].update)
    BY <1>7, AccountMoves
  <2> QED
    BY <2>1, <2>2, OthersOpen, SuspendQuiet
<1>8. ASSUME NEW c \in Calls, UpdateAccount(c) PROVE SuspendInv'
  <2>1. c \in OpenCalls /\ UNCHANGED <<suspended, overridden>>
    BY <1>8 DEF UpdateAccount, OpenCalls
  <2>2. Moved(c, "done", call[c].op, call[c].arg, call[c].update)
    BY <1>8, AccountMoves
  <2>3. call[c].update.status = "same" => account'.status = account.status
    BY <1>0, <1>8 DEF UpdateAccount, AccountRows
  <2>4. CASE SuspendedFor
    BY <2>1, <2>2, <2>3, <2>4, OthersOpen, SuspendQuiet DEF SuspendInv
  <2>5. CASE ~SuspendedFor
    BY <2>1, <2>5 DEF SuspendInv, SuspendedFor
  <2> QED
    BY <2>4, <2>5
<1>9. ASSUME NEW c \in Calls, SignInByEmail(c) PROVE SuspendInv'
  <2>1. UNCHANGED <<account, suspended>> /\ overridden' = (overridden \/ (suspended /\ Promoted))
    BY <1>9 DEF SignInByEmail
  <2>2. PICK u \in Updates : /\ Moved(c, "login", "email", 0, u)
                            /\ u.status = (IF Promoted \/ FirstSignIn THEN "ACTIVE" ELSE "same")
    BY <1>9, AccountBegins
  <2>3. CASE SuspendedFor /\ Promoted
    BY <2>1, <2>3 DEF SuspendInv, SuspendedFor
  <2>4. CASE ~(SuspendedFor /\ Promoted)
    <3>1. SuspendedFor => u.status = "same"
      BY <2>2, <2>4 DEF SuspendInv, SuspendedFor, FirstSignIn
    <3>2. CASE SuspendedFor
      <4>1. overridden' = overridden
        BY <2>1, <2>4, <3>2, Fields DEF SuspendedFor
      <4> QED
        BY <2>1, <2>2, <3>1, <4>1, OthersOpen, SuspendQuiet
    <3>3. CASE ~SuspendedFor
      BY <2>1, <3>3 DEF SuspendInv, SuspendedFor
    <3> QED
      BY <3>2, <3>3
  <2> QED
    BY <2>3, <2>4
<1>10. ASSUME NEW c \in Calls, CreateAdminUser(c) PROVE SuspendInv'
  <2>1. UNCHANGED accountVars
    BY <1>10 DEF CreateAdminUser
  <2> QED
    BY <1>1, <1>10, <2>1, AccountBegins
<1>11. ASSUME NEW c \in Calls, Logout(c) \/ CompleteOnboarding(c) \/ SetActive(c) PROVE SuspendInv'
  <2>1. UNCHANGED <<suspended, overridden>> /\ account'.status = account.status
    BY <1>0, <1>11 DEF Logout, CompleteOnboarding, SetActive, AccountRows
  <2>2. \E pc, op, arg : Moved(c, pc, op, arg, NoUpdate)
    BY <1>11, AccountBegins
  <2> QED
    BY <2>1, <2>2, NoUpdateIs, OthersOpen, SuspendQuiet
<1>12. ASSUME NEW c \in Calls, SetSuspended(c) \/ UpdateUser(c) PROVE SuspendInv'
  <2>1. \E op, arg : Moved(c, "done", op, arg, NoUpdate)
    BY <1>12, AccountBegins
  <2>2. CASE \E s \in Statuses : SetStatus(s)
    <3>1. PICK s \in Statuses :
            /\ account' = [account EXCEPT !.status = s] /\ suspended' = (s = "SUSPENDED")
            /\ overridden' = (suspended' /\ \E d \in OpenCalls : call[d].update.status # "same")
      BY <2>2 DEF SetStatus
    <3> SUFFICES ASSUME SuspendedFor'
                 PROVE  /\ account'.status = "SUSPENDED"
                        /\ \A d \in OpenCalls' : call'[d].update.status = "same"
      BY DEF SuspendInv
    <3>2. s = "SUSPENDED" /\ ~ \E d \in OpenCalls : call[d].update.status # "same"
      BY <3>1 DEF SuspendedFor
    <3>3. account'.status = "SUSPENDED"
      BY <1>0, <3>1, <3>2 DEF AccountRows
    <3>4. OpenCalls' \subseteq OpenCalls /\ \A d \in OpenCalls' : call'[d] = call[d]
      BY <2>1 DEF Moved, OpenCalls
    <3> QED
      BY <3>2, <3>3, <3>4
  <2>3. CASE ~ \E s \in Statuses : SetStatus(s)
    <3>1. UpdateUser(c)
      BY <1>12, <2>3 DEF SetSuspended
    <3>2. /\ UNCHANGED <<suspended, overridden>>
          /\ \/ \E r \in Roles : account' = [account EXCEPT !.role = r]
             \/ \E b \in BOOLEAN : account' \in {[account EXCEPT !.pin = b], [account EXCEPT !.active = b],
                                                [account EXCEPT !.verified = b]}
             \/ UNCHANGED account
      BY <2>3, <3>1 DEF UpdateUser
    <3>3. account'.status = account.status
      BY <1>0, <3>2 DEF AccountRows
    <3> QED
      BY <2>1, <3>2, <3>3, NoUpdateIs, OthersOpen, SuspendQuiet
  <2> QED
    BY <2>2, <2>3
<1>13. ASSUME Expire \/ UNCHANGED authVars PROVE SuspendInv'
  <2>1. UNCHANGED <<account, suspended, overridden, call>>
    BY <1>13 DEF Expire, authVars, accountVars
  <2> QED
    BY <2>1 DEF SuspendInv, SuspendedFor, OpenCalls
<1>14. ASSUME CallsFail PROVE SuspendInv'
  <2>1. UNCHANGED <<account, suspended, overridden>>
    BY <1>14 DEF CallsFail, accountVars
  <2>2. \A c \in Calls : c \in OpenCalls' => c \in OpenCalls /\ call'[c].update = call[c].update
    BY <1>14, FailureMoves DEF OpenCalls
  <2> QED
    BY <2>1, <2>2, SuspendQuiet
<1> QED
  BY <1>3, <1>4, <1>5, <1>6, <1>7, <1>8, <1>9, <1>10, <1>11, <1>12, <1>13, <1>14, Zenon DEF AuthNext

\* A suspension (users.service.ts of the admin module) lasts until the back office
\* writes another status, by reactivation or by any update of the user: a sign-in
\* undoes it only if it had read the account before it, or promotes a listed admin.
THEOREM SuspensionHoldsAlways == AuthSpec => []SuspensionHolds
<1>1. AuthInit => SuspendInv
  BY DEF AuthInit, SuspendInv, SuspendedFor
<1>2. SuspendInv => SuspensionHolds
  BY DEF SuspendInv, SuspendedFor, SuspensionHolds
<1> QED
  BY <1>1, <1>2, TypeAlways, SuspendStep, PTL DEF AuthSpec
(***************************************************************************)
(* Links: of one that is not loose at most one request is letting in; once *)
(* it has passed the deletion the link is gone for good.                   *)
(***************************************************************************)
Opening(c, l) ==
  call[c].op = "useLink" /\ call[c].arg = l /\ call[c].pc \in {"deleteLink", "login"}

LinkOK(l) ==
  /\ \A c, d \in Calls : Opening(c, l) /\ Opening(d, l) => c = d
  /\ uses[l] \in {0, 1}
  /\ uses[l] = 1 => \A c \in Calls : ~Opening(c, l)
  /\ l \in links => uses[l] = 0 /\ \A c \in Calls : Opening(c, l) => call[c].pc = "deleteLink"
  /\ l > issued => uses[l] = 0
LinkInv == \A l \in Links \ loose : LinkOK(l)

(* A step that opens nothing.                                              *)
LEMMA LinkQuiet ==
  ASSUME LinkInv, UNCHANGED uses, links' \subseteq links, loose \subseteq loose', issued' = issued,
         \A c \in Calls : call'[c].op = "useLink" /\ call'[c].pc \in {"deleteLink", "login"} =>
                            call'[c] = call[c]
  PROVE  LinkInv'
<1> SUFFICES ASSUME NEW l \in Links, l \notin loose' PROVE LinkOK(l)'
  BY DEF LinkInv
<1>1. LinkOK(l)
  BY DEF LinkInv
<1>2. \A c \in Calls : Opening(c, l)' => Opening(c, l) /\ call'[c].pc = call[c].pc
  BY DEF Opening
<1> QED
  BY <1>1, <1>2 DEF LinkOK

LEMMA LinkOther ==
  ASSUME LinkInv, NEW c \in Calls, NEW pc, NEW op, NEW arg, NEW update, Moved(c, pc, op, arg, update),
         UNCHANGED uses, links' \subseteq links, loose \subseteq loose', issued' = issued,
         op = "useLink" => pc \notin {"deleteLink", "login"}
  PROVE  LinkInv'
<1>1. \A d \in Calls : call'[d].op = "useLink" /\ call'[d].pc \in {"deleteLink", "login"} => call'[d] = call[d]
  BY DEF Moved
<1> QED
  BY <1>1, LinkQuiet

LEMMA LinkIssued == TypeInv /\ LinkInv /\ (\E c \in Calls : IssueLink(c)) => LinkInv'
<1> SUFFICES ASSUME TypeInv, LinkInv, NEW c \in Calls, IssueLink(c), NEW l \in Links, l \notin loose'
             PROVE  LinkOK(l)'
  BY DEF LinkInv
<1>1. /\ issued' = issued + 1 /\ links' = links \cup {issued + 1} /\ UNCHANGED <<uses, loose>>
      /\ issued \in Nat /\ l \in Nat
  BY Fields DEF IssueLink, Links
<1>2. LinkOK(l)
  BY <1>1 DEF LinkInv
<1>3. \A d \in Calls : Opening(d, l)' => Opening(d, l) /\ call'[d].pc = call[d].pc
  BY LinkTypes DEF Moved, Opening, NoUpdate
<1>4. \A d \in Calls : Opening(d, l) => l \in 1..issued
  BY DEF TypeInv, RowOK, Opening
<1>5. l \in links' => uses[l] = 0 /\ \A d \in Calls : Opening(d, l) => call[d].pc = "deleteLink"
  BY <1>1, <1>2, <1>4 DEF LinkOK
<1> QED
  BY <1>1, <1>2, <1>3, <1>5 DEF LinkOK

LEMMA LinkRead == TypeInv /\ LinkInv /\ (\E c \in Calls : UseLink(c)) => LinkInv'
<1> SUFFICES ASSUME TypeInv, LinkInv, NEW c \in Calls, UseLink(c) PROVE LinkInv'
  OBVIOUS
<1>1. UNCHANGED <<links, uses, issued>>
  BY DEF UseLink
<1>2. PICK k \in links : /\ Moved(c, "deleteLink", "useLink", k, NoUpdate)
                        /\ loose' = IF \E d \in Calls : call[d].pc = "deleteLink" /\ call[d].arg = k
                                    THEN loose \cup {k} ELSE loose
  BY LinkTypes
<1> SUFFICES ASSUME NEW l \in Links, l \notin loose' PROVE LinkOK(l)'
  BY DEF LinkInv
<1>3. LinkOK(l)
  BY <1>2 DEF LinkInv
<1>4. \A d \in Calls : Opening(d, l)' => (Opening(d, l) /\ call'[d].pc = call[d].pc) \/ (d = c /\ l = k)
  <2> SUFFICES ASSUME NEW d \in Calls, Opening(d, l)'
               PROVE  (Opening(d, l) /\ call'[d].pc = call[d].pc) \/ (d = c /\ l = k)
    OBVIOUS
  <2>1. CASE d = c
    BY <1>2, <2>1 DEF Moved, Opening
  <2>2. CASE d # c
    <3>1. call'[d] = call[d]
      BY <1>2, <2>2 DEF Moved
    <3> QED
      BY <3>1 DEF Opening
  <2> QED
    BY <2>1, <2>2
<1>5. CASE l # k
  BY <1>1, <1>3, <1>4, <1>5 DEF LinkOK
<1>6. CASE l = k
  <2>1. \A d \in Calls : ~Opening(d, l)
    BY <1>2, <1>3, <1>6 DEF LinkOK, Opening
  <2>2. \A d \in Calls : Opening(d, l)' => d = c
    BY <1>4, <2>1
  <2>3. Opening(c, l)' => call'[c].pc = "deleteLink"
    BY <1>2 DEF Moved
  <2>4. l \in links /\ uses[l] = 0
    BY <1>2, <1>3, <1>6 DEF LinkOK
  <2> QED
    BY <1>1, <1>3, <2>2, <2>3, <2>4 DEF LinkOK
<1> QED
  BY <1>5, <1>6

LEMMA LinkDeleted == TypeInv /\ LinkInv /\ (\E c \in Calls : DeleteLink(c)) => LinkInv'
<1> SUFFICES ASSUME TypeInv, LinkInv, NEW c \in Calls, DeleteLink(c) PROVE LinkInv'
  OBVIOUS
<1> DEFINE k == call[c].arg
<1>1. /\ UNCHANGED <<uses, issued>> /\ call[c].pc = "deleteLink"
      /\ \/ links' = links \ {k} /\ loose' = loose
         \/ links' = links /\ loose' = loose \cup {k}
  BY DEF DeleteLink, WithoutLink
<1>2. Moved(c, "login", call[c].op, k, call[c].update) /\ call[c].op = "useLink"
  BY LinkTypes
<1> SUFFICES ASSUME NEW l \in Links, l \notin loose' PROVE LinkOK(l)'
  BY DEF LinkInv
<1>3. LinkOK(l)
  BY <1>1 DEF LinkInv
<1>4. \A d \in Calls : Opening(d, l)' => Opening(d, l) /\ (d # c => call'[d].pc = call[d].pc)
  BY <1>1, <1>2 DEF Moved, Opening
<1>5. l \in links' => l \in links /\ l # k
  BY <1>1
<1>6. l # k => ~Opening(c, l)
  BY DEF Opening
<1> QED
  BY <1>1, <1>3, <1>4, <1>5, <1>6 DEF LinkOK

LEMMA LinkLetsIn == TypeInv /\ LinkInv /\ (\E c \in Calls : Login(c)) => LinkInv'
<1> SUFFICES ASSUME TypeInv, LinkInv, NEW c \in Calls, Login(c) PROVE LinkInv'
  OBVIOUS
<1>1. UNCHANGED <<links, issued, loose>> /\ call[c].pc = "login"
  BY DEF Login
<1>2. \/ Moved(c, "update", call[c].op, call[c].arg, call[c].update) /\ call[c].op = "email"
      \/ Moved(c, "done", call[c].op, call[c].arg, call[c].update)
  BY AccountMoves
<1>3. CASE call[c].op # "useLink"
  <2>1. UNCHANGED uses
    BY <1>3 DEF Login
  <2> QED
    BY <1>1, <1>2, <1>3, <2>1, LinkOther
<1>4. CASE call[c].op = "useLink"
  <2> DEFINE k == call[c].arg
  <2>1. uses' = [uses EXCEPT ![k] = @ + 1] /\ uses \in [Links -> Nat] /\ Opening(c, k)
    BY <1>1, <1>4, Fields DEF Login, Opening
  <2>2. \A d \in Calls, l \in Links :
          Opening(d, l)' => Opening(d, l) /\ call'[d].pc = call[d].pc /\ d # c
    BY <1>2, <1>4 DEF Moved, Opening
  <2> SUFFICES ASSUME NEW l \in Links, l \notin loose' PROVE LinkOK(l)'
    BY DEF LinkInv
  <2>3. LinkOK(l)
    BY <1>1 DEF LinkInv
  <2> HIDE DEF k
  <2>4. CASE l # k
    <3>1. uses'[l] = uses[l]
      BY <2>1, <2>4
    <3> QED
      BY <1>1, <2>2, <2>3, <3>1 DEF LinkOK
  <2>5. CASE l = k
    <3>1. uses[l] = 0 /\ l \notin links
      BY <1>1, <2>1, <2>3, <2>5 DEF LinkOK
    <3>2. uses'[l] = 1
      BY <2>1, <2>5, <3>1
    <3>3. \A d \in Calls : ~Opening(d, l)'
      BY <2>1, <2>2, <2>3, <2>5 DEF LinkOK
    <3>4. l \in 1..issued /\ issued \in Nat
      BY <2>1, <2>5, Fields DEF TypeInv, RowOK, Opening
    <3> QED
      BY <1>1, <3>1, <3>2, <3>3, <3>4 DEF LinkOK
  <2> QED
    BY <2>4, <2>5
<1> QED
  BY <1>3, <1>4

LEMMA LinkStep == TypeInv /\ LinkInv /\ [AuthNext]_authVars => LinkInv'
<1> SUFFICES ASSUME TypeInv, LinkInv, [AuthNext]_authVars PROVE LinkInv'  OBVIOUS
<1>1. \A c \in Calls : RowOK(call[c].pc, call[c].op, call[c].arg, made, issued, Exists)
  BY DEF TypeInv
<1>2. ASSUME NEW c \in Calls, NEW pc \in Pcs, NEW op \in Ops, NEW arg \in Nat,
             BeginCall(c, op, arg, NoUpdate, pc), UNCHANGED linkVars, op # "useLink"
      PROVE  LinkInv'
  BY <1>2, NoUpdateIs, BeginEffect, LinkOther DEF linkVars
<1>3. ASSUME NEW c \in Calls,
             \/ SignUp(c) \/ ResendCode(c) \/ VerifyAccount(c) \/ SignInByPhone(c)
             \/ RequestReset(c) \/ ResetPassword(c)
      PROVE  LinkInv'
  <2>1. PICK pc \in {"done", "create", "set", "setOnly", "delete", "login", "setReset"},
             op \in {"signUp", "phone", "google", "resend", "verify", "pin", "signIn", "reset", "newPassword"},
             arg \in 0..made :
          BeginCall(c, op, arg, NoUpdate, pc) /\ UNCHANGED linkVars
    <3>1. made \in Nat
      BY Fields
    <3>2. CASE SignUp(c) \/ ResendCode(c) \/ SignInByPhone(c)
      BY <3>1, <3>2 DEF SignUp, ResendCode, SignInByPhone, Begin
    <3>3. CASE VerifyAccount(c)
      BY <3>1, <3>3 DEF VerifyAccount, Begin
    <3>4. CASE RequestReset(c) \/ ResetPassword(c)
      BY <3>1, <3>4 DEF RequestReset, ResetPassword, Begin
    <3> QED
      BY <1>3, <3>2, <3>3, <3>4
  <2>2. pc \in Pcs /\ op \in Ops /\ arg \in Nat /\ op # "useLink"
    BY Fields DEF Pcs, Ops, OtpOps
  <2> QED
    BY <1>2, <2>1, <2>2
<1>4. ASSUME NEW c \in Calls, SetCode(c) \/ SendCode(c) \/ DeleteCode(c) \/ SetResetCode(c)
      PROVE  LinkInv'
  <2>1. UNCHANGED <<uses, links, loose, issued>>
    BY <1>4 DEF SetCode, SendCode, DeleteCode, SetResetCode, linkVars
  <2>2. \E pc \in {"done", "send", "verified"}, arg \in Nat : Moved(c, pc, call[c].op, arg, call[c].update)
    BY <1>4, CodeTypes, Fields DEF CallRows
  <2> QED
    BY <2>1, <2>2, LinkOther
<1>5. ASSUME NEW c \in Calls, CreateAccount(c) \/ CreateAccountWallet(c) \/ MarkVerified(c) \/ UpdateAccount(c)
      PROVE  LinkInv'
  <2>1. UNCHANGED <<uses, links, loose, issued>>
    BY <1>5, AccountWritten, AccountMoves
  <2>2. call[c].pc \in {"create", "wallet", "verified", "update"}
    BY <1>5, AccountMoves
  <2>3. call[c].op # "useLink"
    BY <1>1, <2>2 DEF RowOK
  <2>4. \E pc : Moved(c, pc, call[c].op, call[c].arg, call[c].update)
    BY <1>5, AccountMoves
  <2> QED
    BY <2>1, <2>3, <2>4, LinkOther
<1>6. ASSUME NEW c \in Calls,
             \/ SignInByEmail(c) \/ CreateAdminUser(c) \/ Logout(c) \/ CompleteOnboarding(c)
             \/ SetActive(c) \/ SetSuspended(c) \/ UpdateUser(c)
      PROVE  LinkInv'
  <2>1. UNCHANGED <<uses, links, loose, issued>>
    BY <1>6, AccountWritten, AccountBegins
  <2>2. \E pc \in {"done", "login", "update"},
           op \in {"email", "admin", "logout", "onboard", "active", "suspend", "patch"}, u \in Updates :
          Moved(c, pc, op, 0, u)
    BY <1>6, AccountBegins, NoUpdateIs
  <2> QED
    BY <2>1, <2>2, LinkOther
<1>7. ASSUME Expire \/ UNCHANGED authVars PROVE LinkInv'
  <2>1. UNCHANGED <<uses, loose, issued, call>> /\ links' \subseteq links
    BY <1>7 DEF Expire, authVars, linkVars
  <2> QED
    BY <2>1, LinkQuiet
<1>8. ASSUME CallsFail PROVE LinkInv'
  <2>1. UNCHANGED <<uses, loose, issued, links>>
    BY <1>8 DEF CallsFail, linkVars
  <2>2. \A c \in Calls : call'[c].pc \in {"deleteLink", "login"} => call'[c].pc = call[c].pc
    BY <1>8, FailureMoves
  <2>3. \A c \in Calls, l \in Links : Opening(c, l)' => Opening(c, l) /\ call'[c].pc = call[c].pc
    BY <1>8, <2>2, FailureMoves DEF Opening
  <2> QED
    BY <2>1, <2>3 DEF LinkInv, LinkOK
<1> QED
  BY <1>3, <1>4, <1>5, <1>6, <1>7, <1>8, LinkIssued, LinkRead, LinkDeleted, LinkLetsIn, Zenon DEF AuthNext

\* A magic link (auth.service.ts) lets somebody in once, unless two requests read
\* its key before either deleted it, or the cache did not delete it.
THEOREM LinkUsedOnceAlways == AuthSpec => []LinkUsedOnce
<1>1. AuthInit => LinkInv
  <2> SUFFICES ASSUME AuthInit, NEW l \in Links PROVE LinkOK(l)
    BY DEF LinkInv
  <2>1. uses[l] = 0 /\ links = {} /\ \A c \in Calls : call[c].op = "none"
    BY DEF AuthInit, NoCall
  <2> QED
    BY <2>1 DEF LinkOK, Opening
<1>2. LinkInv => LinkUsedOnce
  BY DEF LinkInv, LinkOK, LinkUsedOnce
<1> QED
  BY <1>1, <1>2, TypeAlways, LinkStep, PTL DEF AuthSpec
(***************************************************************************)
(* The verification code: while requests about it neither overlap nor fail *)
(* one of them at a time is at work, and what it is about to send, or to   *)
(* delete, is what is cached unless it has expired. It is so again once a  *)
(* request that is alone has made a code.                                  *)
(***************************************************************************)
Busy(c) == c \in OpenCalls /\ call[c].op \in OtpOps

CodeOK ==
  /\ \A c, d \in Calls : Busy(c) /\ Busy(d) => c = d
  /\ \A c \in Calls :
       /\ call[c].pc = "setOnly" => newest = NoCode
       /\ call[c].pc = "send" => otp = call[c].arg \/ call[c].arg \in spent
       /\ call[c].pc = "delete" => otp \in {call[c].arg, NoCode}
  /\ \/ newest \in {NoCode, otp} \cup spent
     \/ \E c \in Calls : call[c].pc = "send"
CodeInv == ~crossed => CodeOK

(* A step that is not about codes.                                         *)
LEMMA CodeQuiet ==
  ASSUME CodeInv, UNCHANGED <<otp, newest, spent>>, crossed => crossed',
         ~crossed' => \A c \in Calls :
                        /\ Busy(c)' => Busy(c)
                        /\ call'[c].pc \in {"setOnly", "send", "delete"} => call'[c] = call[c]
                        /\ call[c].pc = "send" => call'[c].pc = "send"
  PROVE  CodeInv'
<1> SUFFICES ASSUME ~crossed' PROVE CodeOK'
  BY DEF CodeInv
<1>1. CodeOK
  BY DEF CodeInv
<1>2. \A c, d \in Calls : Busy(c)' /\ Busy(d)' => c = d
  BY <1>1 DEF CodeOK
<1>3. \A c \in Calls :
        /\ call'[c].pc = "setOnly" => newest' = NoCode
        /\ call'[c].pc = "send" => otp' = call'[c].arg \/ call'[c].arg \in spent'
        /\ call'[c].pc = "delete" => otp' \in {call'[c].arg, NoCode}
  BY <1>1 DEF CodeOK
<1>4. \/ newest' \in {NoCode, otp'} \cup spent'
      \/ \E c \in Calls : call'[c].pc = "send"
  BY <1>1 DEF CodeOK
<1> QED
  BY <1>2, <1>3, <1>4 DEF CodeOK

LEMMA CodeOther ==
  ASSUME CodeInv, NEW c \in Calls, NEW pc, NEW op, NEW arg, NEW update, Moved(c, pc, op, arg, update),
         UNCHANGED <<otp, newest, spent>>, crossed => crossed',
         pc \notin {"setOnly", "send", "delete"}, call[c].pc # "send",
         \/ op \notin OtpOps
         \/ pc = "done"
         \/ op = call[c].op /\ c \in OpenCalls
  PROVE  CodeInv'
<1>1. \A d \in Calls :
        /\ Busy(d)' => Busy(d)
        /\ call'[d].pc \in {"setOnly", "send", "delete"} => call'[d] = call[d]
        /\ call[d].pc = "send" => call'[d].pc = "send"
  BY DEF Moved, Busy, OpenCalls
<1> QED
  BY <1>1, CodeQuiet

(* A request about the code begins.                                        *)
LEMMA CodeBegins ==
  ASSUME TypeInv, CodeInv, NEW c \in Calls, NEW pc \in Pcs, NEW op \in Ops, NEW arg \in Nat,
         BeginCall(c, op, arg, NoUpdate, pc), UNCHANGED <<otp, newest, spent>>,
         op \in OtpOps \/ pc \notin {"setOnly", "delete"},
         pc # "send", pc = "setOnly" => ~Exists, pc = "delete" => arg = otp
  PROVE  CodeInv'
<1>1. Moved(c, pc, op, arg, NoUpdate) /\ call[c].pc = "none"
  BY NoUpdateIs, BeginEffect
<1>2. crossed' = (crossed \/ (op \in OtpOps /\ \E d \in OpenCalls : call[d].op \in OtpOps))
  BY DEF BeginCall
<1>3. CASE op \notin OtpOps
  BY <1>1, <1>2, <1>3, CodeOther
<1>4. CASE op \in OtpOps
  <2> SUFFICES ASSUME ~crossed' PROVE CodeOK'
    BY DEF CodeInv
  <2>1. CodeOK /\ \A d \in Calls : ~Busy(d)
    BY <1>2, <1>4 DEF CodeInv, Busy
  <2>2. \A d \in Calls \ {c} : call'[d] = call[d] /\ ~Busy(d)' /\ call[d].pc \notin {"setOnly", "send", "delete"}
    <3>1. \A d \in Calls : RowOK(call[d].pc, call[d].op, call[d].arg, made, issued, Exists)
      BY DEF TypeInv
    <3>2. \A d \in Calls \ {c} : call'[d] = call[d]
      BY <1>1 DEF Moved
    <3>3. \A d \in Calls \ {c} : ~Busy(d)'
      BY <2>1, <3>2 DEF Busy, OpenCalls
    <3>4. \A d \in Calls : call[d].pc \notin {"setOnly", "send", "delete"}
      BY <2>1, <3>1 DEF Busy, RowOK, OpenCalls
    <3> QED
      BY <3>2, <3>3, <3>4
  <2>3. newest \in {NoCode, otp} \cup spent
    BY <1>1, <2>1, <2>2 DEF CodeOK
  <2>4. pc = "setOnly" => newest = NoCode
    BY DEF TypeInv
  <2>5. \A d, e \in Calls : Busy(d)' /\ Busy(e)' => d = e
    BY <2>2
  <2>6. \A d \in Calls :
          /\ call'[d].pc = "setOnly" => newest' = NoCode
          /\ call'[d].pc = "send" => otp' = call'[d].arg \/ call'[d].arg \in spent'
          /\ call'[d].pc = "delete" => otp' \in {call'[d].arg, NoCode}
    <3> TAKE d \in Calls
    <3>1. CASE d = c
      BY <1>1, <2>4, <3>1 DEF Moved
    <3>2. CASE d # c
      BY <2>2, <3>2
    <3> QED
      BY <3>1, <3>2
  <2> QED
    BY <2>3, <2>5, <2>6 DEF CodeOK
<1> QED
  BY <1>3, <1>4

LEMMA CodeBeginning ==
  ASSUME TypeInv, CodeInv, NEW c \in Calls,
         \/ SignUp(c) \/ ResendCode(c) \/ VerifyAccount(c) \/ SignInByPhone(c)
         \/ RequestReset(c) \/ ResetPassword(c)
  PROVE  CodeInv'
<1>1. PICK pc \in {"done", "create", "set", "setOnly", "delete", "login", "setReset"},
           op \in {"signUp", "phone", "google", "resend", "verify", "pin", "signIn", "reset", "newPassword"},
           arg \in 0..made :
        /\ BeginCall(c, op, arg, NoUpdate, pc) /\ UNCHANGED <<otp, newest, spent>>
        /\ pc = "setOnly" => ~Exists /\ op = "resend"
        /\ pc = "delete" => arg = otp /\ op = "verify"
  <2>1. made \in Nat
    BY Fields
  <2>2. CASE SignUp(c) \/ ResendCode(c) \/ SignInByPhone(c)
    BY <2>1, <2>2 DEF SignUp, ResendCode, SignInByPhone, Begin
  <2>3. CASE VerifyAccount(c)
    BY <2>1, <2>3 DEF VerifyAccount, Begin, Accepts
  <2>4. CASE RequestReset(c) \/ ResetPassword(c)
    BY <2>1, <2>4 DEF RequestReset, ResetPassword, Begin
  <2> QED
    BY <2>2, <2>3, <2>4
<1>2. pc \in Pcs /\ op \in Ops /\ arg \in Nat /\ pc # "send"
  BY Fields DEF Pcs, Ops, OtpOps
<1>3. op \in OtpOps \/ pc \notin {"setOnly", "delete"}
  BY <1>1 DEF OtpOps
<1> QED
  BY <1>1, <1>2, <1>3, CodeBegins

(* A code is set, sent, used.                                              *)
LEMMA CodeAtWork ==
  ASSUME TypeInv, CodeInv, NEW c \in Calls, SetCode(c) \/ SendCode(c) \/ DeleteCode(c)
  PROVE  CodeInv'
<1> SUFFICES ASSUME ~crossed' PROVE CodeOK'
  BY DEF CodeInv
<1>1. /\ call[c].pc \in {"set", "setOnly", "send", "delete"}
      /\ \E pc \in {"send", "done", "verified"}, arg \in Nat :
           Moved(c, pc, call[c].op, arg, call[c].update)
  <2>1. call[c].arg \in Nat /\ made + 1 \in Nat
    BY Fields DEF CallRows
  <2> QED
    BY <2>1, CodeTypes DEF SetCode, SendCode, DeleteCode
<1>2. \/ CodeOK
      \/ SetCode(c) /\ Alone(c) /\ otp' = made + 1
  BY DEF CodeInv, SetCode, SendCode, DeleteCode
<1>3. \A d \in Calls : RowOK(call[d].pc, call[d].op, call[d].arg, made, issued, Exists)
  BY DEF TypeInv
<1>4. Busy(c)
  BY <1>1, <1>3 DEF Busy, OpenCalls, RowOK
<1>5. \A d \in Calls \ {c} : call'[d] = call[d] /\ ~Busy(d)
  BY <1>1, <1>2, <1>4 DEF Moved, CodeOK, Alone, Busy
<1>6. \A d \in Calls \ {c} : call'[d].pc \notin {"setOnly", "send", "delete"} /\ ~Busy(d)'
  BY <1>3, <1>5 DEF Busy, OpenCalls, RowOK
<1>7. \A d, e \in Calls : Busy(d)' /\ Busy(e)' => d = e
  BY <1>6
<1>8. ASSUME /\ call'[c].pc = "setOnly" => newest' = NoCode
             /\ call'[c].pc = "send" => otp' = call'[c].arg \/ call'[c].arg \in spent'
             /\ call'[c].pc = "delete" => otp' \in {call'[c].arg, NoCode},
             newest' \in {NoCode, otp'} \cup spent' \/ call'[c].pc = "send"
      PROVE  CodeOK'
  BY <1>6, <1>7, <1>8 DEF CodeOK
<1>9. CASE SetCode(c)
  <2>1. otp' = made + 1 /\ UNCHANGED <<newest, spent>>
    BY <1>9 DEF SetCode
  <2>a. CodeOK \/ call[c].pc = "set"
    BY <1>2 DEF Alone
  <2>2. \/ call'[c].pc = "send" /\ call'[c].arg = made + 1
        \/ call'[c].pc = "done" /\ call[c].pc = "setOnly"
    BY <1>9, CodeTypes DEF Moved
  <2>3. call[c].pc = "setOnly" => newest = NoCode
    BY <2>a DEF CodeOK
  <2> QED
    BY <1>8, <2>1, <2>2, <2>3
<1>10. CASE SendCode(c)
  <2>1. newest' = call[c].arg /\ UNCHANGED <<otp, spent>> /\ call[c].pc = "send" /\ call'[c].pc = "done"
    BY <1>10, CodeTypes DEF Moved, SendCode
  <2>2. CodeOK
    BY <1>2, <2>1 DEF Alone
  <2> QED
    BY <1>8, <2>1, <2>2 DEF CodeOK
<1>11. CASE DeleteCode(c)
  <2>1. /\ otp' \in {NoCode, otp} /\ spent' = spent \cup {call[c].arg} /\ newest' = newest
        /\ call[c].pc = "delete" /\ call'[c].pc = "verified"
    BY <1>11, CodeTypes DEF Moved, DeleteCode
  <2>a. CodeOK
    BY <1>2, <2>1 DEF Alone
  <2>2. newest \in {NoCode, otp} \cup spent /\ otp \in {call[c].arg, NoCode}
    BY <1>5, <1>6, <2>1, <2>a DEF CodeOK
  <2> QED
    BY <1>8, <2>1, <2>2
<1> QED
  BY <1>9, <1>10, <1>11

LEMMA CodeStep == TypeInv /\ CodeInv /\ [AuthNext]_authVars => CodeInv'
<1> SUFFICES ASSUME TypeInv, CodeInv, [AuthNext]_authVars PROVE CodeInv'  OBVIOUS
<1>1. \A c \in Calls : RowOK(call[c].pc, call[c].op, call[c].arg, made, issued, Exists)
  BY DEF TypeInv
<1>2. ASSUME NEW c \in Calls, SetResetCode(c) PROVE CodeInv'
  <2>1. UNCHANGED <<otp, newest, spent, crossed>> /\ call[c].pc = "setReset" /\ c \in OpenCalls
    BY <1>2 DEF SetResetCode, otpVars, OpenCalls
  <2>2. Moved(c, "done", call[c].op, call[c].arg, call[c].update)
    BY <1>2, CodeTypes
  <2> QED
    BY <2>1, <2>2, CodeOther
<1>3. ASSUME NEW c \in Calls,
             CreateAccount(c) \/ CreateAccountWallet(c) \/ MarkVerified(c) \/ Login(c) \/ UpdateAccount(c)
      PROVE  CodeInv'
  <2>1. UNCHANGED <<otp, newest, spent, crossed>>
    BY <1>3, AccountWritten, AccountMoves
  <2>2. call[c].pc \in {"create", "wallet", "verified", "login", "update"}
    BY <1>3, AccountMoves
  <2>3. \E pc \in {"done", "wallet", "set", "link", "login", "update"} :
          Moved(c, pc, call[c].op, call[c].arg, call[c].update)
    BY <1>3, AccountMoves
  <2> QED
    BY <2>1, <2>2, <2>3, CodeOther DEF OpenCalls
<1>4. ASSUME NEW c \in Calls,
             \/ SignInByEmail(c) \/ CreateAdminUser(c) \/ Logout(c) \/ CompleteOnboarding(c)
             \/ SetActive(c) \/ SetSuspended(c) \/ UpdateUser(c)
      PROVE  CodeInv'
  <2>1. UNCHANGED <<otp, newest, spent>>
    BY <1>4, AccountWritten
  <2>2. (crossed => crossed') /\ call[c].pc = "none"
    BY <1>4 DEF SignInByEmail, CreateAdminUser, Logout, CompleteOnboarding, SetActive, SetSuspended,
                UpdateUser, BeginCall
  <2>3. \E pc \in {"done", "login", "update"},
           op \in {"email", "admin", "logout", "onboard", "active", "suspend", "patch"}, u \in Updates :
          Moved(c, pc, op, 0, u)
    BY <1>4, AccountBegins, NoUpdateIs
  <2> QED
    BY <2>1, <2>2, <2>3, CodeOther DEF OtpOps
<1>5. ASSUME NEW c \in Calls, IssueLink(c) PROVE CodeInv'
  <2>1. /\ UNCHANGED <<otp, newest, spent>> /\ (crossed => crossed')
        /\ call[c].pc \in {"link", "none"}
    <3>1. /\ UNCHANGED <<otp, newest, spent>>
          /\ \/ call[c].pc = "link" /\ UNCHANGED crossed
             \/ BeginCall(c, "link", 0, NoUpdate, "done")
      BY <1>5 DEF IssueLink
    <3>2. BeginCall(c, "link", 0, NoUpdate, "done") => (crossed => crossed') /\ call[c].pc = "none"
      BY DEF BeginCall
    <3>3. UNCHANGED crossed => (crossed => crossed')
      BY Zenon
    <3> QED
      BY <3>1, <3>2, <3>3
  <2>2. \E op \in Ops, arg \in Nat, u \in Updates : Moved(c, "done", op, arg, u)
    BY <1>5, LinkTypes, NoUpdateIs, Fields DEF CallRows, Ops
  <2> QED
    BY <2>1, <2>2, CodeOther
<1>6. ASSUME NEW c \in Calls, UseLink(c) PROVE CodeInv'
  <2>1. /\ UNCHANGED <<otp, newest, spent>> /\ (crossed => crossed')
        /\ call[c].pc = "none"
    BY <1>6 DEF UseLink, BeginCall
  <2>2. PICK l \in links : Moved(c, "deleteLink", "useLink", l, NoUpdate)
    BY <1>6, LinkTypes
  <2> QED
    BY <2>1, <2>2, CodeOther DEF OtpOps
<1>7. ASSUME NEW c \in Calls, DeleteLink(c) PROVE CodeInv'
  <2>1. /\ UNCHANGED <<otp, newest, spent, crossed>> /\ call[c].pc = "deleteLink"
    BY <1>7 DEF DeleteLink, otpVars
  <2>2. Moved(c, "login", call[c].op, call[c].arg, call[c].update) /\ call[c].op = "useLink"
    BY <1>7, LinkTypes
  <2> QED
    BY <2>1, <2>2, CodeOther DEF OtpOps
<1>8. ASSUME Expire PROVE CodeInv'
  <2>1. /\ UNCHANGED <<newest, crossed, call>>
        /\ \/ UNCHANGED <<otp, spent>>
           \/ otp' = NoCode /\ spent' = spent \cup {otp}
    BY <1>8 DEF Expire
  <2> QED
    BY <2>1 DEF CodeInv, CodeOK, Busy, OpenCalls
<1>9. ASSUME UNCHANGED authVars PROVE CodeInv'
  <2>1. UNCHANGED <<otp, newest, spent, crossed, call>>
    BY <1>9 DEF authVars, otpVars
  <2> QED
    BY <2>1 DEF CodeInv, CodeOK, Busy, OpenCalls
<1>10. ASSUME CallsFail PROVE CodeInv'
  <2>1. UNCHANGED <<otp, newest, spent>> /\ (crossed => crossed')
    BY <1>10 DEF CallsFail
  <2> SUFFICES ASSUME ~crossed' PROVE CodeOK'
    BY DEF CodeInv
  <2>2. CodeOK
    BY <2>1 DEF CodeInv
  <2>3. \A c \in Calls :
          /\ call'[c].op = call[c].op /\ call'[c].arg = call[c].arg
          /\ \/ call'[c].pc = call[c].pc
             \/ call'[c].pc = "done" /\ c \in OpenCalls /\ call[c].op \notin OtpOps
    BY <1>10, FailureMoves
  <2>4. \A c \in Calls : call[c].pc = "send" => call'[c].pc = "send"
    BY <1>1, <2>3 DEF RowOK
  <2>5. \A c \in Calls : Busy(c)' => Busy(c)
    BY <2>3 DEF Busy, OpenCalls
  <2>6. \A c, d \in Calls : Busy(c)' /\ Busy(d)' => c = d
    BY <2>2, <2>5 DEF CodeOK
  <2>7. \/ newest' \in {NoCode, otp'} \cup spent'
        \/ \E c \in Calls : call'[c].pc = "send"
    BY <2>1, <2>2, <2>4 DEF CodeOK
  <2>8. \A c \in Calls :
          /\ call'[c].pc = "setOnly" => newest' = NoCode
          /\ call'[c].pc = "send" => otp' = call'[c].arg \/ call'[c].arg \in spent'
          /\ call'[c].pc = "delete" => otp' \in {call'[c].arg, NoCode}
    BY <2>1, <2>2, <2>3 DEF CodeOK
  <2> QED
    BY <2>6, <2>7, <2>8 DEF CodeOK
<1> QED
  BY <1>2, <1>3, <1>4, <1>5, <1>6, <1>7, <1>8, <1>9, <1>10, CodeBeginning, CodeAtWork, Zenon DEF AuthNext

\* The verification code that was sent last (auth.service.ts, signUp, signIn and
\* resendVerificationCode) is the one verifyAccount accepts until it is used or
\* expires, unless two of these requests overlapped or one failed, and none that was
\* alone has made a new code since.
THEOREM NewestCodeWorksAlways == AuthSpec => []NewestCodeWorks
<1>1. AuthInit => CodeInv
  BY DEF AuthInit, CodeInv, CodeOK, NoCall, Busy, OpenCalls
<1>2. CodeInv => NewestCodeWorks
  BY DEF CodeInv, CodeOK, NewestCodeWorks
<1> QED
  BY <1>1, <1>2, TypeAlways, CodeStep, PTL DEF AuthSpec
=============================================================================
