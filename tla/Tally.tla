-------------------------------- MODULE Tally --------------------------------
(***************************************************************************)
(* What a finite collection adds up to.  Units(S, w) has w[x] units for    *)
(* each x of S, all different, so their number is the sum of the weights.  *)
(* Stated with Cardinality and not as a fold, the sum can be reasoned      *)
(* about: TallyProofs has what the components need of it.                  *)
(***************************************************************************)
EXTENDS Naturals, FiniteSets

Units(S, w) == UNION {{x} \X (1 .. w[x]) : x \in S}
Total(S, w) == Cardinality(Units(S, w))

\* The sum of a sequence of numbers.
TotalOf(q) == Total(DOMAIN q, q)
==============================================================================
