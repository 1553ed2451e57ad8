---------------------------- MODULE SnapshotCache ----------------------------
(* snapshotCache (internal/vfs/snapshot_cache.go; internal/filesystem has a  *)
(* copy), as functions on its state.  The hashes of a cache do not touch     *)
(* each other, so this is the cache of one hash.                             *)
(*                                                                           *)
(*   c.slot     whether the hash has a slot                                  *)
(*   c.value    what it holds, None in a placeholder                         *)
(*   c.obs      what each read saw of the hash before it asked the source:   *)
(*              "none" if there was no slot, "same" while the slot and the   *)
(*              value it saw are still the ones there, "changed" after that  *)
(*   c.listing  the listings in flight                                       *)
(*                                                                           *)
(* The code compares pointers to slots and values.  Both are always new and  *)
(* never come back, so that a read whose slot and value are still there has  *)
(* seen no change, which is what c.obs records.                              *)
EXTENDS Integers, FiniteSets

CONSTANTS Ops, None

Listing == [invalidated |-> FALSE, restricted |-> FALSE, allowed |-> FALSE]

Caches(values) ==
    [slot : BOOLEAN, value : values \cup {None}, obs : [Ops -> {"none", "same", "changed"}],
     listing : [Ops -> {None} \cup [invalidated : BOOLEAN, restricted : BOOLEAN, allowed : BOOLEAN]]]

Empty == [slot |-> FALSE, value |-> None, obs |-> [r \in Ops |-> "none"], listing |-> [r \in Ops |-> None]]

(* the slot, or what it holds, becomes another *)
Altered(c) == [c EXCEPT !.obs = [r \in Ops |-> IF @[r] = "same" THEN "changed" ELSE @[r]]]

(* observe, which leaves a placeholder if there is no slot *)
Observe(c, r) == [c EXCEPT !.slot = TRUE, !.obs[r] = "same"]

(* finish, which a read defers in case it leaves its placeholder behind *)
Finish(c, r) ==
    [(IF c.obs[r] = "same" /\ c.value = None THEN [Altered(c) EXCEPT !.slot = FALSE] ELSE c)
       EXCEPT !.obs[r] = "none"]

ObserveListing(c, r) ==
    [c EXCEPT !.listing[r] = Listing, !.obs[r] = IF c.slot THEN "same" ELSE "none"]

(* faulty: a listing that saw no slot and finds none takes it that nothing   *)
(* has happened                                                              *)
NeverFenced(c, r) == FALSE

(* unchangedLocked *)
Fenced(c, r) ==
    LET l == c.listing[r]
    IN  l # None /\ (l.invalidated \/ (l.restricted /\ ~l.allowed))

Unchanged(c, r) ==
    /\ ~Fenced(c, r)
    /\ c.obs[r] = "same" \/ (c.obs[r] = "none" /\ ~c.slot)

(* publishLocked.  The read's own observation is of what it replaced. *)
Publish(c, r, value) ==
    IF Unchanged(c, r) THEN [Altered(c) EXCEPT !.slot = TRUE, !.value = value] ELSE c

(* faulty: the slot is emptied, not removed *)
ForgottenEmptied(c) ==
    [Altered(c) EXCEPT !.value = None,
       !.listing = [r \in Ops |-> IF @[r] = None THEN None ELSE [@[r] EXCEPT !.invalidated = TRUE]]]

(* forgetLocked: the listings in flight are told, so that their late results *)
(* do not bring the hash back                                                *)
Forgotten(c) ==
    [Altered(c) EXCEPT !.slot = FALSE, !.value = None,
       !.listing = [r \in Ops |-> IF @[r] = None THEN None ELSE [@[r] EXCEPT !.invalidated = TRUE]]]

Forget(c, r) == IF Unchanged(c, r) THEN Forgotten(c) ELSE c

(* a listing still in flight may publish only what all that ended had *)
Restricted(l, live) == [l EXCEPT !.allowed = live /\ (@ \/ ~l.restricted), !.restricted = TRUE]

(* finishListing: what it did not list is forgotten (a placeholder whoever   *)
(* made it), and the listings still in flight may publish only what it did   *)
FinishListing(c, r, live) ==
    LET pruned == IF live \/ ~c.slot THEN c ELSE IF c.value = None THEN Forgotten(c) ELSE Forget(c, r)
    IN  [pruned EXCEPT
           !.obs[r] = "none",
           !.listing = [q \in Ops |-> IF q = r \/ @[q] = None THEN None ELSE Restricted(@[q], live)]]

=============================================================================
