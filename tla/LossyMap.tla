------------------------------ MODULE LossyMap ------------------------------
(***************************************************************************)
(* What the piece cache promises its users: a map from keys to values that  *)
(* may forget any entry at any time and may refuse an insertion, but never  *)
(* shows under a key anything but the last value stored there.              *)
(***************************************************************************)
CONSTANTS
    Keys,
    Values,
    None     \* shown for a key that is not resident

VARIABLE content

Init == content = [k \in Keys |-> None]

(* the entries of lost are gone *)
Lose(lost) == content' = [k \in Keys |-> IF k \in lost THEN None ELSE content[k]]

(* v is stored under k, then the entries of lost go, k perhaps among them *)
Store(k, v, lost) ==
    content' = [j \in Keys |-> IF j \in lost THEN None ELSE IF j = k THEN v ELSE content[j]]

Next ==
    \E lost \in SUBSET Keys :
        \/ Lose(lost)
        \/ \E k \in Keys, v \in Values : Store(k, v, lost)

Spec == Init /\ [][Next]_content

=============================================================================
