---------------------------- MODULE UserRequests ----------------------------
(***************************************************************************)
(* The parts of the system that serve users' requests, beside each other.  *)
(* They share no variable, so an invariant of one of them holds of all     *)
(* together if it holds of that one: each behaviour is given one of them   *)
(* to exercise, and the others wait.                                       *)
(***************************************************************************)
EXTENDS ContentAccess, Authentication, BankAccounts, CourseProgress, GroupChat,
        MediaLibrary

VARIABLE focus   \* the part that is exercised

vars == <<focus, accessVars, authVars, bankVars, courseVars, chatVars, mediaVars>>

Init ==
  /\ focus \in {"access", "auth", "bank", "course", "chat", "media"}
  /\ AccessInit /\ AuthInit /\ BankInit /\ CourseInit /\ ChatInit /\ MediaInit
  /\ focus # "auth" => account = NoAccount
  /\ focus # "chat" => creator = NoOne

ContentAccessStep ==
  focus = "access" /\ AccessNext /\ UNCHANGED <<focus, authVars, bankVars, courseVars, chatVars, mediaVars>>
AuthenticationStep ==
  focus = "auth" /\ AuthNext /\ UNCHANGED <<focus, accessVars, bankVars, courseVars, chatVars, mediaVars>>
BankAccountsStep ==
  focus = "bank" /\ BankNext /\ UNCHANGED <<focus, accessVars, authVars, courseVars, chatVars, mediaVars>>
CourseProgressStep ==
  focus = "course" /\ CourseNext /\ UNCHANGED <<focus, accessVars, authVars, bankVars, chatVars, mediaVars>>
GroupChatStep ==
  focus = "chat" /\ ChatNext /\ UNCHANGED <<focus, accessVars, authVars, bankVars, courseVars, mediaVars>>
MediaLibraryStep ==
  focus = "media" /\ MediaNext /\ UNCHANGED <<focus, accessVars, authVars, bankVars, courseVars, chatVars>>

Next ==
  \/ ContentAccessStep \/ AuthenticationStep \/ BankAccountsStep
  \/ CourseProgressStep \/ GroupChatStep \/ MediaLibraryStep

Spec == Init /\ [][Next]_vars

\* Types of all parts, and the order their records must keep.
TypeOK ==
  AccessTypeOK /\ AuthTypeOK /\ BankTypeOK /\ CourseTypeOK /\ ChatTypeOK /\ MediaTypeOK
=============================================================================
