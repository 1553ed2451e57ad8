----------------------------- MODULE MCRegistry -----------------------------
(* Small instances of Registry.  Workers are interchangeable. *)
EXTENDS Registry, TLC

WorkerSymmetry == Permutations(Workers)

=============================================================================
