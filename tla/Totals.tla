------------------------------- MODULE Totals -------------------------------
(* Sums over sets, as prizes and quiz attempts need them.                  *)
EXTENDS Naturals, FiniteSets

\* What f adds up to over S: so many units are there, f[x] of each x.
Units(f, S) == UNION {{x} \X (1 .. f[x]) : x \in S}
Total(f, S) == Cardinality(Units(f, S))
=============================================================================
