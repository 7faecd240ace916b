------------------------------- MODULE Totals -------------------------------
(***************************************************************************)
(* The sum of a bounded function over a finite set, written without        *)
(* recursion: the cardinality of the disjoint union of the intervals       *)
(* 1..f[x].  SQL's coalesce(sum(column), 0) over a set of rows is Total of *)
(* that column.  Stated this way its laws follow from the theorems about   *)
(* finite cardinality (TotalsProofs) instead of from an induction.         *)
(***************************************************************************)
EXTENDS Integers, FiniteSets

\* One pair <<x, k>> for every unit k that x contributes; cap bounds f.
Units(S, f, cap) == {u \in S \X (1..cap) : u[2] <= f[u[1]]}

Total(S, f, cap) == Cardinality(Units(S, f, cap))

\* SQL's greatest(a, b).
Greatest(a, b) == IF a >= b THEN a ELSE b
Least(a, b)    == IF a <= b THEN a ELSE b
=============================================================================
