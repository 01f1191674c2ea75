--------------------------- MODULE Authentication ---------------------------
(***************************************************************************)
(* How one person gets into an account: sign-up, codes by SMS, password    *)
(* reset, magic links, PIN and e-mail sign-in, onboarding, and what the    *)
(* back office does to the account. Codes and links are kept in the cache, *)
(* whose failures RedisService swallows; nothing is done in a transaction, *)
(* and requests run concurrently.                                          *)
(***************************************************************************)
EXTENDS Integers

CONSTANTS
  Kinds,      \* of the account, if there is one at the start
  MaxCalls,   \* bound: requests
  MaxCodes,   \* bound: codes generated
  MaxLinks,   \* bound: magic links
  MaxFailures \* bound: failures of the cache, the database or the process

NoCode == 0
Calls == 1..MaxCalls   \* in the order they begin
Codes == 1..MaxCodes   \* in the order they are made, of either sort
Links == 1..MaxLinks

ASSUME AuthAssumption ==
  /\ Kinds \subseteq {"none", "PHONE", "GOOGLE", "EMAIL"}
  /\ MaxCalls \in Nat /\ MaxCodes \in Nat /\ MaxLinks \in Nat /\ MaxFailures \in Nat

VARIABLES
  account,    \* the User row, and whether it has a wallet
  session,    \* user.refreshToken is set
  otp,        \* the cached verification code
  resetCode,  \* the cached password-reset code
  links,      \* the magic-link keys in the cache
  call,       \* the requests
  made,       \* codes generated so far
  newest,     \* history: the verification code sent last
  spent,      \* history: verification codes that were used or expired
  crossed,    \* history: requests about the verification code overlapped or failed, and
              \* none that was alone has made a new one since
  issued,     \* links generated so far
  uses,       \* history: how often each link let somebody in
  loose,      \* history: links read again before their key was deleted, or never deleted
  suspended,  \* history: the back office suspended the account last
  overridden, \* history: since when a sign-in goes on to write what it had decided before,
              \* or to promote a listed admin
  failures    \* failures so far

otpVars     == <<otp, newest, spent, crossed>>
linkVars    == <<links, issued, uses, loose>>
accountVars == <<account, session, suspended, overridden>>
authVars    == <<accountVars, otpVars, resetCode, linkVars, call, made, failures>>

Roles    == {"USER", "ADMIN", "SUPERADMIN"}
Statuses == {"null", "ACTIVE", "SUSPENDED"}

NoAccount == [kind |-> "none", listed |-> FALSE, wallet |-> FALSE, verified |-> FALSE,
              pin |-> FALSE, active |-> TRUE, role |-> "USER", status |-> "null"]
NoUpdate  == [role |-> "same", status |-> "same"]
NoCall    == [pc |-> "none", op |-> "none", arg |-> 0, update |-> NoUpdate]

\* Whether a phone account has its PIN, and the e-mail of another is in
\* SUPERADMIN_EMAILS, is open.
AuthInit ==
  /\ \E k \in Kinds, b \in BOOLEAN :
       account = [NoAccount EXCEPT !.kind = k, !.wallet = k # "none",
                                   !.pin = k = "PHONE" /\ b, !.listed = k = "EMAIL" /\ b]
  /\ session = FALSE
  /\ otp = NoCode /\ resetCode = NoCode
  /\ links = {}
  /\ call = [c \in Calls |-> NoCall]
  /\ made = 0 /\ newest = NoCode /\ spent = {} /\ crossed = FALSE
  /\ issued = 0 /\ uses = [l \in Links |-> 0] /\ loose = {}
  /\ suspended = FALSE /\ overridden = FALSE
  /\ failures = 0

----------------------------------------------------------------------------
(* Requests                                                                *)

Exists == account.kind # "none"
OtpOps == {"signUp", "resend", "signIn", "verify"}
OpenCalls == {c \in Calls : call[c].pc \notin {"none", "done"}}

Goto(c, pc) == call' = [call EXCEPT ![c].pc = pc]

\* Request c begins as op and goes on at pc.
BeginCall(c, op, arg, update, pc) ==
  /\ call[c].pc = "none" /\ \A d \in Calls : d < c => call[d].pc # "none"
  /\ call' = [call EXCEPT ![c] = [pc |-> pc, op |-> op, arg |-> arg, update |-> update]]
  /\ crossed' = (crossed \/ (op \in OtpOps /\ \E d \in OpenCalls : call[d].op \in OtpOps))
Begin(c, op, arg, pc) ==
  /\ BeginCall(c, op, arg, NoUpdate, pc)
  /\ UNCHANGED <<accountVars, otp, newest, spent, resetCode, linkVars, made, failures>>

\* signUp, signUpWithPhoneNumber (called for a phone that is not found) and
\* googleOAuth2 look for the account first.
SignUp(c) ==
  \E op \in {"signUp", "phone", "google"} : Begin(c, op, 0, IF Exists THEN "done" ELSE "create")

\* One that exists by now is refused by the unique index.
CreateAccount(c) ==
  /\ call[c].pc = "create"
  /\ IF Exists
     THEN Goto(c, "done") /\ UNCHANGED account
     ELSE /\ account' = [account EXCEPT !.kind = IF call[c].op = "google" THEN "GOOGLE" ELSE "PHONE",
                                        !.verified = call[c].op = "phone"]
          /\ Goto(c, "wallet")
  /\ UNCHANGED <<session, suspended, overridden, otpVars, resetCode, linkVars, made, failures>>

CreateAccountWallet(c) ==
  /\ call[c].pc = "wallet"
  /\ account' = [account EXCEPT !.wallet = TRUE]
  /\ Goto(c, CASE call[c].op = "signUp" -> "set"
               [] call[c].op = "phone"  -> "link"
               [] call[c].op = "google" -> "login")
  /\ UNCHANGED <<session, suspended, overridden, otpVars, resetCode, linkVars, made, failures>>

\* resendVerificationCode, whoever asks: it fails on the user it did not find only
\* when the code is to be sent.
ResendCode(c) == Begin(c, "resend", 0, IF Exists THEN "set" ELSE "setOnly")

\* signIn by phone: a PIN, right or wrong, or a code where there is no PIN. It
\* refuses nobody else by what it changes: a Google account gets no answer.
SignInByPhone(c) ==
  /\ account.kind = "PHONE" /\ account.active
  /\ IF account.pin
     THEN \E pc \in {"login", "done"} : Begin(c, "pin", 0, pc)
     ELSE Begin(c, "signIn", 0, "set")

\* signIn by e-mail, password right: what it will write is decided by what it reads.
\* The mutant would activate any status.
FirstSignInAny == account.role # "USER"
FirstSignIn == account.role # "USER" /\ account.status = "null"
Promoted == account.listed /\ account.role # "SUPERADMIN"
SignInByEmail(c) ==
  /\ account.kind = "EMAIL" /\ account.active
  /\ account.role # "USER" \/ Promoted
  /\ BeginCall(c, "email", 0,
       [role   |-> IF Promoted THEN "SUPERADMIN" ELSE "same",
        status |-> IF Promoted \/ FirstSignIn THEN "ACTIVE" ELSE "same"], "login")
  /\ overridden' = (overridden \/ (suspended /\ Promoted))
  /\ UNCHANGED <<account, session, suspended, otp, newest, spent, resetCode, linkVars, made, failures>>

\* A request for a code that will be sent, and no other about codes.
Alone(c) == call[c].pc = "set" /\ \A d \in OpenCalls \ {c} : call[d].op \notin OtpOps

\* A new code replaces the one in the cache, and is then sent. If the cache fails
\* nothing is said of it.
SetCode(c) ==
  /\ call[c].pc \in {"set", "setOnly"} /\ made < MaxCodes
  /\ made' = made + 1
  /\ \/ otp' = made + 1 /\ crossed' = (crossed /\ ~Alone(c)) /\ UNCHANGED failures
     \/ /\ failures < MaxFailures
        /\ failures' = failures + 1 /\ crossed' = TRUE /\ UNCHANGED otp
  /\ call' = [call EXCEPT ![c].arg = made + 1, ![c].pc = IF @ = "set" THEN "send" ELSE "done"]
  /\ UNCHANGED <<accountVars, newest, spent, resetCode, linkVars>>

SendCode(c) ==
  /\ call[c].pc = "send"
  /\ newest' = call[c].arg
  /\ Goto(c, "done")
  /\ UNCHANGED <<accountVars, otp, spent, crossed, resetCode, linkVars, made, failures>>

\* verifyAccount compares the code with the cached one, and then deletes the key.
\* The mutant would delete it for a wrong code too.
AcceptsAny(code) == otp # NoCode
Accepts(code) == otp # NoCode /\ code = otp

VerifyAccount(c) ==
  \E code \in 1..made : Begin(c, "verify", code, IF Accepts(code) THEN "delete" ELSE "done")

DeleteCode(c) ==
  /\ call[c].pc = "delete"
  /\ \/ otp' = NoCode /\ UNCHANGED failures
     \/ failures < MaxFailures /\ failures' = failures + 1 /\ UNCHANGED otp
  /\ spent' = spent \cup {call[c].arg}
  /\ Goto(c, "verified")
  /\ UNCHANGED <<accountVars, newest, crossed, resetCode, linkVars, made>>

\* The account is looked up by its phone, which the others do not have.
MarkVerified(c) ==
  /\ call[c].pc = "verified"
  /\ IF account.kind = "PHONE"
     THEN account' = [account EXCEPT !.verified = TRUE] /\ Goto(c, "login")
     ELSE UNCHANGED account /\ Goto(c, "done")
  /\ UNCHANGED <<session, suspended, overridden, otpVars, resetCode, linkVars, made, failures>>

\* updateRefreshToken, at the end of every way in; lastLogin and, by e-mail, role
\* and status follow in another update.
Login(c) ==
  /\ call[c].pc = "login"
  /\ session' = TRUE
  /\ uses' = IF call[c].op = "useLink" THEN [uses EXCEPT ![call[c].arg] = @ + 1] ELSE uses
  /\ Goto(c, IF call[c].op = "email" THEN "update" ELSE "done")
  /\ UNCHANGED <<account, suspended, overridden, otpVars, resetCode, links, issued, loose, made, failures>>

\* By id, whatever the row says by now; also createAdminUser's write of the roles
\* it has read, and one more.
UpdateAccount(c) ==
  LET new == call[c].update IN
  /\ call[c].pc = "update"
  /\ account' = [account EXCEPT !.role = IF new.role = "same" THEN @ ELSE new.role,
                                !.status = IF new.status = "same" THEN @ ELSE new.status]
  /\ Goto(c, "done")
  /\ UNCHANGED <<session, suspended, overridden, otpVars, resetCode, linkVars, made, failures>>

Logout(c) ==
  /\ session
  /\ session' = FALSE
  /\ BeginCall(c, "logout", 0, NoUpdate, "done")
  /\ UNCHANGED <<account, suspended, overridden, otp, newest, spent, resetCode, linkVars, made, failures>>

CompleteOnboarding(c) ==
  /\ session
  /\ account' = [account EXCEPT !.pin = TRUE]
  /\ BeginCall(c, "onboard", 0, NoUpdate, "done")
  /\ UNCHANGED <<session, suspended, overridden, otp, newest, spent, resetCode, linkVars, made, failures>>

----------------------------------------------------------------------------
(* Password reset                                                          *)

\* Refused while a code is cached, looked up before the new one is written; a
\* lookup that fails finds none, here as in every other request.
RequestReset(c) ==
  /\ Exists
  /\ \/ Begin(c, "reset", 0, IF resetCode = NoCode THEN "setReset" ELSE "done")
     \/ /\ failures < MaxFailures
        /\ failures' = failures + 1
        /\ BeginCall(c, "reset", 0, NoUpdate, "setReset")
        /\ UNCHANGED <<accountVars, otp, newest, spent, resetCode, linkVars, made>>

SetResetCode(c) ==
  /\ call[c].pc = "setReset" /\ made < MaxCodes
  /\ made' = made + 1
  /\ resetCode' = made + 1
  /\ Goto(c, "done")
  /\ UNCHANGED <<accountVars, otpVars, linkVars, failures>>

\* The right code changes the password, which is not modelled. It is the code that
\* is passed to del, not its key: nothing is deleted until it expires.
ResetPassword(c) == Exists /\ resetCode # NoCode /\ Begin(c, "newPassword", 0, "done")

----------------------------------------------------------------------------
(* Magic links                                                             *)

\* generateMagicLinkToken, after a phone sign-up or for an existing user.
IssueLink(c) ==
  /\ issued < MaxLinks
  /\ \/ call[c].pc = "link" /\ Goto(c, "done") /\ UNCHANGED crossed
     \/ Exists /\ BeginCall(c, "link", 0, NoUpdate, "done")
  /\ issued' = issued + 1
  /\ links' = links \cup {issued + 1}
  /\ UNCHANGED <<accountVars, otp, newest, spent, resetCode, uses, loose, made, failures>>

UseLink(c) ==
  \E l \in links :
    /\ BeginCall(c, "useLink", l, NoUpdate, "deleteLink")
    /\ loose' = IF \E d \in Calls : call[d].pc = "deleteLink" /\ call[d].arg = l
                THEN loose \cup {l} ELSE loose
    /\ UNCHANGED <<accountVars, otp, newest, spent, resetCode, links, issued, uses, made, failures>>

\* The mutant would delete by something that is not the key, as the reset does.
WithoutLinkKept(l) == links
WithoutLink(l) == links \ {l}

DeleteLink(c) ==
  /\ call[c].pc = "deleteLink"
  /\ \/ links' = WithoutLink(call[c].arg) /\ UNCHANGED <<loose, failures>>
     \/ /\ failures < MaxFailures
        /\ failures' = failures + 1
        /\ loose' = loose \cup {call[c].arg}
        /\ UNCHANGED links
  /\ Goto(c, "login")
  /\ UNCHANGED <<accountVars, otpVars, resetCode, issued, uses, made>>

----------------------------------------------------------------------------
(* The back office                                                         *)

\* deactivateUser, activateUser
SetActive(c) ==
  /\ Exists
  /\ account' = [account EXCEPT !.active = ~@]
  /\ BeginCall(c, "active", 0, NoUpdate, "done")
  /\ UNCHANGED <<session, suspended, overridden, otp, newest, spent, resetCode, linkVars, made, failures>>

\* The back office writes adminStatus. Only a sign-in that has read the one before,
\* to write ACTIVE, is still to come.
SetStatus(status) ==
  /\ account' = [account EXCEPT !.status = status]
  /\ suspended' = (status = "SUSPENDED")
  /\ overridden' = (suspended' /\ \E d \in OpenCalls : call[d].update.status # "same")

\* suspendAdminUser, reactivateAdminUser: neither looks at the roles.
SetSuspended(c) ==
  /\ Exists
  /\ SetStatus("SUSPENDED") \/ SetStatus("ACTIVE")
  /\ BeginCall(c, "suspend", 0, NoUpdate, "done")
  /\ UNCHANGED <<session, otp, newest, spent, resetCode, linkVars, made, failures>>

\* updateUser writes its body as it comes: a field of the row per request here, but
\* for those the person is found by (email, phone, signUpType).
UpdateUser(c) ==
  /\ Exists
  /\ \/ (\E s \in Statuses : SetStatus(s)) /\ UNCHANGED session
     \/ /\ \/ account' \in {[account EXCEPT !.role = r] : r \in Roles} /\ UNCHANGED session
           \/ \E b \in BOOLEAN : /\ account' \in {[account EXCEPT !.pin = b], [account EXCEPT !.active = b],
                                                 [account EXCEPT !.verified = b]}
                                 /\ UNCHANGED session
           \/ session' \in BOOLEAN /\ UNCHANGED account
        /\ UNCHANGED <<suspended, overridden>>
  /\ BeginCall(c, "patch", 0, NoUpdate, "done")
  /\ UNCHANGED <<otp, newest, spent, resetCode, linkVars, made, failures>>

CreateAdminUser(c) ==
  /\ Exists /\ account.role = "USER"
  /\ \E role \in {"ADMIN", "SUPERADMIN"} :
       BeginCall(c, "admin", 0, [NoUpdate EXCEPT !.role = role], "update")
  /\ UNCHANGED <<accountVars, otp, newest, spent, resetCode, linkVars, made, failures>>

----------------------------------------------------------------------------

\* Cached entries expire.
Expire ==
  /\ \/ /\ otp # NoCode
        /\ otp' = NoCode /\ spent' = spent \cup {otp}
        /\ UNCHANGED <<resetCode, links>>
     \/ resetCode # NoCode /\ resetCode' = NoCode /\ UNCHANGED <<otp, spent, links>>
     \/ \E l \in links : links' = links \ {l} /\ UNCHANGED <<otp, spent, resetCode>>
  /\ UNCHANGED <<accountVars, newest, crossed, issued, uses, loose, call, made, failures>>

\* A request fails at any of its steps, or all do when the process dies.
CallsFail ==
  /\ failures < MaxFailures
  /\ \E dead \in {OpenCalls} \cup {{c} : c \in OpenCalls} :
       /\ dead # {}
       /\ call' = [c \in Calls |-> IF c \in dead THEN [call[c] EXCEPT !.pc = "done"] ELSE call[c]]
       /\ crossed' = (crossed \/ \E c \in dead : call[c].op \in OtpOps)
  /\ failures' = failures + 1
  /\ UNCHANGED <<accountVars, otp, newest, spent, resetCode, linkVars, made>>

AuthNext ==
  \/ \E c \in Calls :
       \/ SignUp(c) \/ CreateAccount(c) \/ CreateAccountWallet(c)
       \/ ResendCode(c) \/ SetCode(c) \/ SendCode(c)
       \/ VerifyAccount(c) \/ DeleteCode(c) \/ MarkVerified(c)
       \/ SignInByPhone(c) \/ SignInByEmail(c) \/ Login(c) \/ UpdateAccount(c)
       \/ Logout(c) \/ CompleteOnboarding(c)
       \/ RequestReset(c) \/ SetResetCode(c) \/ ResetPassword(c)
       \/ IssueLink(c) \/ UseLink(c) \/ DeleteLink(c)
       \/ SetActive(c) \/ SetSuspended(c) \/ UpdateUser(c) \/ CreateAdminUser(c)
  \/ Expire \/ CallsFail

AuthSpec == AuthInit /\ [][AuthNext]_authVars

----------------------------------------------------------------------------
(* Properties                                                              *)

AuthTypeOK ==
  /\ account \in [kind : {"none", "PHONE", "GOOGLE", "EMAIL"}, listed : BOOLEAN,
                  wallet : BOOLEAN, verified : BOOLEAN, pin : BOOLEAN, active : BOOLEAN,
                  role : Roles, status : Statuses]
  /\ session \in BOOLEAN
  /\ otp \in Codes \cup {NoCode} /\ resetCode \in Codes \cup {NoCode}
  /\ links \subseteq Links
  /\ \A c \in Calls : call[c].arg \in Nat
  /\ made \in 0..MaxCodes /\ newest \in 0..made /\ spent \subseteq Codes
  /\ crossed \in BOOLEAN /\ issued \in 0..MaxLinks /\ loose \subseteq Links
  /\ uses \in [Links -> Nat] /\ suspended \in BOOLEAN /\ overridden \in BOOLEAN

\* The verification code sent last is the one that is accepted, until it is used or
\* expires or another is about to be sent, unless requests about it overlap or fail;
\* and the next that is alone puts that right.
NewestCodeWorks ==
  newest # NoCode /\ ~crossed =>
    \/ otp = newest
    \/ newest \in spent
    \/ \E c \in Calls : call[c].pc = "send"

\* A magic link lets somebody in more than once only if it was read by two
\* requests before either deleted it, or the cache did not delete it.
LinkUsedOnce == \A l \in Links : uses[l] > 1 => l \in loose

\* A suspension lasts until the back office itself writes another status (by
\* reactivation or an update of the user): a sign-in ends it only if it had decided so
\* before, or began since by promoting a listed admin.
SuspensionHolds == suspended => account.status = "SUSPENDED" \/ overridden
=============================================================================
