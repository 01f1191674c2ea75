------------------------------ MODULE MCWallet ------------------------------
(* Instances of Wallet for TLC. *)
EXTENDS Wallet

CONSTANTS u1, u2

\* One wallet. The first prize makes it enough for either request, not for both.
MCOpening == [u \in Users |-> IF u = u1 THEN 1 ELSE 0]
=============================================================================
