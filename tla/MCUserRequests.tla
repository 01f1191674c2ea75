--------------------------- MODULE MCUserRequests ---------------------------
(* Instance of UserRequests for TLC: every value is in the .cfg. *)
EXTENDS UserRequests
=============================================================================
