------------------------------- MODULE Totals -------------------------------
(***************************************************************************)
(* Sums over finite sets, as sizes of sets: what is on its way between     *)
(* many threads and the database, or between two programs, is counted over *)
(* all of them.                                                            *)
(***************************************************************************)
EXTENDS Integers, FiniteSets

\* The sum of the sizes of the sets F[x].
Total(F) == Cardinality(UNION {{x} \X F[x] : x \in DOMAIN F})

\* The sum of the numbers f[x].
SumOf(f) == Total([x \in DOMAIN f |-> 1 .. f[x]])
=============================================================================
