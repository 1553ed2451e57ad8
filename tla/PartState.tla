----------------------------- MODULE PartState -----------------------------
(***************************************************************************)
(* The state in which the parts around the cache, the store, the registry   *)
(* and the prefetcher are composed.  These parts share no state, so a       *)
(* behaviour is one of any of them: which, is chosen at the start.  The     *)
(* variables of the chosen one live in v1, v2,... in the order in which its *)
(* module declares them.                                                    *)
(***************************************************************************)

CONSTANTS
    None,
    Ops, Contents, MaxChanges       \* of the caches of what the library shows
VARIABLES component, v1, v2, v3, v4, v5, v6, v7, v8, v9, v10, v11, v12, v13, v14

vars == <<component, v1, v2, v3, v4, v5, v6, v7, v8, v9, v10, v11, v12, v13, v14>>

(* the variables a component does not have *)
rest11 == <<v12, v13, v14>>
None11 == v12 = None /\ v13 = None /\ v14 = None
rest10 == <<v11, rest11>>
None10 == v11 = None /\ None11
rest8 == <<v9, v10, rest10>>
None8 == v9 = None /\ v10 = None /\ None10
rest7 == <<v8, rest8>>
None7 == v8 = None /\ None8
rest6 == <<v7, rest7>>
None6 == v7 = None /\ None7
rest5 == <<v6, rest6>>
None5 == v6 = None /\ None6

=============================================================================
