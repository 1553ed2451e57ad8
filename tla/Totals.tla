------------------------------- MODULE Totals -------------------------------
(***************************************************************************)
(* Sums of natural-valued functions over finite sets, written so that the  *)
(* facts about cardinality apply to them: the units a function f holds over *)
(* a set S are the positions <<k, i>> with i in 1..f[k], and their number   *)
(* is the sum of f[k] over the k of S.  The counters the program keeps      *)
(* incrementally (bytes resident, bytes reserved, requests in flight) are   *)
(* compared with these.                                                     *)
(***************************************************************************)
EXTENDS Integers, FiniteSets

Units(f, S) == UNION {{k} \X (1 .. f[k]) : k \in S}

Total(f, S) == Cardinality(Units(f, S))

=============================================================================
