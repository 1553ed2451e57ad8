------------------------------ MODULE Counting ------------------------------
(* What the proofs about the parts use of the theory of finite sets and      *)
(* natural numbers, as one hypothesis: the proofs of a group of parts are    *)
(* made under Counting, which PartsProofs proves from the library of         *)
(* theorems.                                                                 *)
EXTENDS Integers, FiniteSets

CountIsNatural == \A S : IsFiniteSet(S) => Cardinality(S) \in Nat

EmptyCount ==
    /\ IsFiniteSet({}) /\ Cardinality({}) = 0
    /\ \A S : IsFiniteSet(S) => (Cardinality(S) = 0 <=> S = {})

SingletonCount == \A x : IsFiniteSet({x}) /\ Cardinality({x}) = 1

AddedCount == \A S, x : IsFiniteSet(S) =>
    /\ IsFiniteSet(S \cup {x})
    /\ Cardinality(S \cup {x}) = IF x \in S THEN Cardinality(S) ELSE Cardinality(S) + 1

RemovedCount == \A S, x : IsFiniteSet(S) =>
    /\ IsFiniteSet(S \ {x})
    /\ Cardinality(S \ {x}) = IF x \in S THEN Cardinality(S) - 1 ELSE Cardinality(S)

SubsetCount == \A S : \A T \in SUBSET S : IsFiniteSet(S) =>
    IsFiniteSet(T) /\ Cardinality(T) <= Cardinality(S)

UnionCount == \A S, T : IsFiniteSet(S) /\ IsFiniteSet(T) =>
    /\ IsFiniteSet(S \cup T)
    /\ Cardinality(S \cup T) = Cardinality(S) + Cardinality(T) - Cardinality(S \cap T)

IntervalCount == \A a \in Int, b \in Int :
    /\ IsFiniteSet(a .. b)
    /\ Cardinality(a .. b) = IF a > b THEN 0 ELSE b - a + 1

(* the functions from S that reach all of T *)
Onto(S, T) == {f \in [S -> T] : \A t \in T : \E s \in S : f[s] = t}
ImageCount == \A S, T : \A f \in Onto(S, T) : IsFiniteSet(S) =>
    IsFiniteSet(T) /\ Cardinality(T) <= Cardinality(S)

LeastNumber == \A S \in SUBSET Nat : S # {} => \E x \in S : \A y \in S : x <= y

Counting ==
    /\ CountIsNatural /\ EmptyCount /\ SingletonCount /\ AddedCount /\ RemovedCount
    /\ SubsetCount /\ UnionCount /\ IntervalCount /\ ImageCount /\ LeastNumber

=============================================================================
