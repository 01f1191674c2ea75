--------------------------- MODULE MCQuizRewards ---------------------------
(* Instance of QuizRewards for TLC. *)
EXTENDS QuizRewards

CONSTANTS u1, u2

\* One attempt each: whoever makes two has overlapped them.
MCQuota == [u \in Users |-> 1]

\* Both of the user who has a wallet, or one of each.
MCSubmitters == <<{u1}, {u1, u2}>>
=============================================================================
