----------------------------- MODULE MountProofs -----------------------------
(* Proofs about the parts of the mounts (DirectoryCache, ViewCache, Process, *)
(* Handles), for any number of requests, under Counting.                     *)
EXTENDS MountParts, Counting, TLAPS

USE ZenonT(40)

-----------------------------------------------------------------------------
(* The cache of directories *)

(* What the component counts is what the theorems on finite sets count. *)
LEMMA TreeCounts == \A S : Tree!Cardinality(S) = Cardinality(S)
BY DEF Tree!Cardinality, Cardinality, Tree!IsFiniteSet, IsFiniteSet

(* Marking what reads saw as changed keeps the rest of the cache. *)
LEMMA TreeAltered ==
    ASSUME NEW V, NEW c \in Tree!Caches(V)
    PROVE  /\ Tree!Altered(c) \in Tree!Caches(V)
           /\ Tree!Altered(c).value = c.value /\ Tree!Altered(c).slot = c.slot /\ Tree!Altered(c).listing = c.listing
<1>1. c.obs \in [Ops -> {"none", "same", "changed"}]
  BY DEF Tree!Caches
<1>2. [r \in Ops |-> IF c.obs[r] = "same" THEN "changed" ELSE c.obs[r]] \in [Ops -> {"none", "same", "changed"}]
  BY <1>1
<1> QED
  BY <1>2 DEF Tree!Caches, Tree!Altered

(* Forgetting the hash empties the cache. *)
LEMMA TreeForgotten ==
    ASSUME NEW V, NEW c \in Tree!Caches(V)
    PROVE  Tree!Forgotten(c) \in Tree!Caches(V)
<1>1. Tree!Altered(c) \in Tree!Caches(V)
  BY TreeAltered
<1>2. Tree!Altered(c).listing \in [Ops -> {None} \cup [invalidated : BOOLEAN, restricted : BOOLEAN, allowed : BOOLEAN]]
  BY <1>1 DEF Tree!Caches
<1>3. PICK ls : ls = [q \in Ops |-> IF Tree!Altered(c).listing[q] = None THEN None
                                    ELSE [Tree!Altered(c).listing[q] EXCEPT !.invalidated = TRUE]]
  OBVIOUS
<1>4. ls \in [Ops -> {None} \cup [invalidated : BOOLEAN, restricted : BOOLEAN, allowed : BOOLEAN]]
  BY <1>2, <1>3
<1>5. Tree!Forgotten(c) = [Tree!Altered(c) EXCEPT !.slot = FALSE, !.value = None, !.listing = ls]
  BY <1>3 DEF Tree!Forgotten
<1> QED
  BY <1>4, <1>5, <1>1 DEF Tree!Caches

(* A read observes, publishes, forgets and finishes: the cache holds what it *)
(* held, the value that is published, or nothing.                            *)
LEMMA TreeNarrow ==
    ASSUME NEW V, NEW c \in Tree!Caches(V), NEW r \in Ops, NEW v \in V
    PROVE  /\ Tree!Observe(c, r) \in Tree!Caches(V)
           /\ Tree!Finish(c, r) \in Tree!Caches(V)
           /\ Tree!Publish(c, r, v) \in Tree!Caches(V)
           /\ Tree!Forgotten(c) \in Tree!Caches(V)
           /\ Tree!Forget(c, r) \in Tree!Caches(V)
<1>1. Tree!Observe(c, r) \in Tree!Caches(V)
  BY DEF Tree!Observe, Tree!Caches
<1>2. ASSUME NEW d \in Tree!Caches(V), NEW b \in BOOLEAN, NEW s \in {"none", "same", "changed"}, NEW w \in V \cup {None}
      PROVE  [d EXCEPT !.slot = b] \in Tree!Caches(V) /\ [d EXCEPT !.obs[r] = s] \in Tree!Caches(V)
             /\ [d EXCEPT !.slot = b, !.value = w] \in Tree!Caches(V)
  BY <1>2 DEF Tree!Caches
<1>3. Tree!Altered(c) \in Tree!Caches(V)
  BY TreeAltered
<1>4. Tree!Finish(c, r) \in Tree!Caches(V)
  BY <1>2, <1>3 DEF Tree!Finish
<1>5. Tree!Publish(c, r, v) \in Tree!Caches(V)
  BY <1>2, <1>3 DEF Tree!Publish
<1>6. Tree!Forgotten(c) \in Tree!Caches(V)
  BY TreeForgotten
<1>7. Tree!Forget(c, r) \in Tree!Caches(V)
  BY <1>6 DEF Tree!Forget
<1> QED
  BY <1>1, <1>4, <1>5, <1>6, <1>7

(* So does a listing. *)
LEMMA TreeListing ==
    ASSUME NEW V, NEW c \in Tree!Caches(V), NEW r \in Ops, NEW live \in BOOLEAN
    PROVE  Tree!ObserveListing(c, r) \in Tree!Caches(V) /\ Tree!FinishListing(c, r, live) \in Tree!Caches(V)
<1>1. Tree!ObserveListing(c, r) \in Tree!Caches(V)
  BY DEF Tree!ObserveListing, Tree!Caches, Tree!Listing
<1>2. PICK pruned : pruned = IF live \/ ~c.slot THEN c ELSE IF c.value = None THEN Tree!Forgotten(c) ELSE Tree!Forget(c, r)
  OBVIOUS
<1>3. Tree!Forgotten(c) \in Tree!Caches(V)
  BY TreeAltered, TreeForgotten
<1>4. pruned \in Tree!Caches(V)
  BY <1>2, <1>3 DEF Tree!Forget
<1>5. PICK ls : ls = [q \in Ops |->
             IF q = r \/ pruned.listing[q] = None THEN None ELSE Tree!Restricted(pruned.listing[q], live)]
  OBVIOUS
<1>6. ls \in [Ops -> {None} \cup [invalidated : BOOLEAN, restricted : BOOLEAN, allowed : BOOLEAN]]
  <2>1. pruned.listing \in [Ops -> {None} \cup [invalidated : BOOLEAN, restricted : BOOLEAN, allowed : BOOLEAN]]
    BY <1>4 DEF Tree!Caches
  <2> QED
    BY <2>1, <1>5 DEF Tree!Restricted
<1>7. Tree!FinishListing(c, r, live) = [pruned EXCEPT !.obs[r] = "none", !.listing = ls]
  BY <1>2, <1>5 DEF Tree!FinishListing
<1>8. [pruned EXCEPT !.obs[r] = "none", !.listing = ls] \in Tree!Caches(V)
  BY <1>4, <1>6 DEF Tree!Caches
<1> QED
  BY <1>1, <1>7, <1>8

(* What another read sees: its value stays as long as it counts as unchanged. *)
TreeFollows(c, d, r) ==
    /\ d \in Tree!Caches(Tree!Versions)
    /\ \A q \in Ops \ {r} : d.obs[q] = "same" => c.obs[q] = "same" /\ d.value = c.value

(* Marking what reads saw as changed leaves no one who saw it. *)
LEMMA TreeNobodySaw ==
    ASSUME NEW c \in Tree!Caches(Tree!Versions), NEW q \in Ops
    PROVE  Tree!Altered(c).obs[q] # "same" /\ Tree!Forgotten(c).obs[q] # "same" /\ Tree!Forgotten(c).value = None
<1>1. c.obs \in [Ops -> {"none", "same", "changed"}]
  BY DEF Tree!Caches
<1>2. Tree!Altered(c).obs = [r \in Ops |-> IF c.obs[r] = "same" THEN "changed" ELSE c.obs[r]]
  BY DEF Tree!Caches, Tree!Altered
<1>3. Tree!Altered(c).obs[q] # "same"
  BY <1>1, <1>2
<1>4. Tree!Altered(c) \in Tree!Caches(Tree!Versions)
  BY TreeAltered
<1>5. Tree!Forgotten(c).obs = Tree!Altered(c).obs /\ Tree!Forgotten(c).value = None
  BY <1>4 DEF Tree!Forgotten, Tree!Caches
<1> QED
  BY <1>3, <1>5

(* A read that observes or finishes, and a listing that does, *)
LEMMA TreeCacheFollows ==
    ASSUME NEW c \in Tree!Caches(Tree!Versions), NEW r \in Ops, NEW live \in BOOLEAN, Tree!Versions # {}
    PROVE  /\ TreeFollows(c, Tree!Observe(c, r), r) /\ Tree!Observe(c, r).value = c.value
           /\ TreeFollows(c, Tree!ObserveListing(c, r), r) /\ Tree!ObserveListing(c, r).value = c.value
           /\ TreeFollows(c, Tree!Finish(c, r), r) /\ Tree!Finish(c, r).value = c.value
           /\ TreeFollows(c, Tree!Forget(c, r), r) /\ Tree!Forget(c, r).value \in {c.value, None}
           /\ TreeFollows(c, Tree!FinishListing(c, r, live), r) /\ Tree!FinishListing(c, r, live).value \in {c.value, None}
           /\ Tree!FinishListing(c, r, live).value # c.value => ~live /\ c.obs[r] = "same"
<1>0. PICK v \in Tree!Versions : TRUE
  OBVIOUS
<1>1. c.obs \in [Ops -> {"none", "same", "changed"}]
  BY DEF Tree!Caches
<1>2. TreeFollows(c, Tree!Observe(c, r), r) /\ Tree!Observe(c, r).value = c.value
  <2>1. Tree!Observe(c, r).value = c.value /\ \A q \in Ops \ {r} : Tree!Observe(c, r).obs[q] = c.obs[q]
    BY <1>1 DEF Tree!Observe, Tree!Caches
  <2>2. Tree!Observe(c, r) \in Tree!Caches(Tree!Versions)
    BY <1>0, TreeNarrow
  <2> QED
    BY <2>1, <2>2 DEF TreeFollows
<1>3. TreeFollows(c, Tree!ObserveListing(c, r), r) /\ Tree!ObserveListing(c, r).value = c.value
  <2>1. Tree!ObserveListing(c, r).value = c.value /\ \A q \in Ops \ {r} : Tree!ObserveListing(c, r).obs[q] = c.obs[q]
    BY <1>1 DEF Tree!ObserveListing, Tree!Caches
  <2>2. Tree!ObserveListing(c, r) \in Tree!Caches(Tree!Versions)
    BY TreeListing
  <2> QED
    BY <2>1, <2>2 DEF TreeFollows
<1>4. Tree!Altered(c) \in Tree!Caches(Tree!Versions) /\ Tree!Altered(c).value = c.value
  BY TreeAltered
<1>5. TreeFollows(c, Tree!Finish(c, r), r) /\ Tree!Finish(c, r).value = c.value
  <2>1. Tree!Finish(c, r) \in Tree!Caches(Tree!Versions)
    BY <1>0, TreeNarrow
  <2>2. PICK d : d = IF c.obs[r] = "same" /\ c.value = None THEN [Tree!Altered(c) EXCEPT !.slot = FALSE] ELSE c
    OBVIOUS
  <2>3. Tree!Finish(c, r) = [d EXCEPT !.obs[r] = "none"]
    BY <2>2 DEF Tree!Finish
  <2>4. d \in Tree!Caches(Tree!Versions) /\ d.value = c.value /\ \A q \in Ops : d.obs[q] = "same" => c.obs[q] = "same"
    <3>1. CASE c.obs[r] = "same" /\ c.value = None
      <4>1. d = [Tree!Altered(c) EXCEPT !.slot = FALSE]
        BY <2>2, <3>1
      <4>2. d \in Tree!Caches(Tree!Versions) /\ d.value = Tree!Altered(c).value /\ d.obs = Tree!Altered(c).obs
        BY <1>4, <4>1 DEF Tree!Caches
      <4> QED
        BY <1>4, <4>2, TreeNobodySaw
    <3>2. CASE ~(c.obs[r] = "same" /\ c.value = None)
      BY <2>2, <3>2
    <3> QED
      BY <3>1, <3>2
  <2>5. Tree!Finish(c, r).value = d.value /\ \A q \in Ops \ {r} : Tree!Finish(c, r).obs[q] = d.obs[q]
    BY <2>3, <2>4 DEF Tree!Caches
  <2> QED
    BY <2>1, <2>4, <2>5 DEF TreeFollows
<1>6. TreeFollows(c, Tree!Forgotten(c), r) /\ Tree!Forgotten(c).value = None
  BY TreeForgotten, TreeNobodySaw DEF TreeFollows
<1>7. TreeFollows(c, c, r)
  BY DEF TreeFollows
<1>8. TreeFollows(c, Tree!Forget(c, r), r) /\ Tree!Forget(c, r).value \in {c.value, None}
  BY <1>6, <1>7 DEF Tree!Forget
<1>9. /\ TreeFollows(c, Tree!FinishListing(c, r, live), r) /\ Tree!FinishListing(c, r, live).value \in {c.value, None}
      /\ (Tree!FinishListing(c, r, live).value # c.value => ~live /\ c.obs[r] = "same")
  <2>1. PICK d : d = IF live \/ ~c.slot THEN c ELSE IF c.value = None THEN Tree!Forgotten(c) ELSE Tree!Forget(c, r)
    OBVIOUS
  <2>2. TreeFollows(c, d, r) /\ d.value \in {c.value, None}
    BY <1>6, <1>7, <1>8, <2>1
  <2>3. ASSUME d.value # c.value PROVE ~live /\ c.obs[r] = "same"
    <3>1. ~live /\ c.slot /\ c.value # None /\ d = Tree!Forget(c, r)
      BY <1>6, <2>1, <2>3
    <3>2. Tree!Unchanged(c, r)
      BY <2>3, <3>1 DEF Tree!Forget
    <3> QED
      BY <3>1, <3>2 DEF Tree!Unchanged
  <2>4. Tree!FinishListing(c, r, live) \in Tree!Caches(Tree!Versions)
    BY TreeListing
  <2>5. Tree!FinishListing(c, r, live).value = d.value /\ \A q \in Ops \ {r} : Tree!FinishListing(c, r, live).obs[q] = d.obs[q]
    <3>1. d \in Tree!Caches(Tree!Versions)
      BY <2>2 DEF TreeFollows
    <3>2. PICK ls : Tree!FinishListing(c, r, live) = [d EXCEPT !.obs[r] = "none", !.listing = ls]
      BY <2>1 DEF Tree!FinishListing
    <3> QED
      BY <3>1, <3>2 DEF Tree!Caches
  <2> QED
    BY <2>2, <2>3, <2>4, <2>5 DEF TreeFollows
<1> QED
  BY <1>2, <1>3, <1>5, <1>8, <1>9

(* and one that publishes. *)
LEMMA TreeCachePublishes ==
    ASSUME NEW c \in Tree!Caches(Tree!Versions), NEW r \in Ops, NEW v \in Tree!Versions
    PROVE  /\ Tree!Publish(c, r, v) \in Tree!Caches(Tree!Versions)
           /\ \/ Tree!Publish(c, r, v) = c
              \/ Tree!Publish(c, r, v).value = v /\ \A q \in Ops : Tree!Publish(c, r, v).obs[q] # "same"
<1>1. Tree!Publish(c, r, v) \in Tree!Caches(Tree!Versions)
  BY TreeNarrow
<1>2. CASE ~Tree!Unchanged(c, r)
  BY <1>1, <1>2 DEF Tree!Publish
<1>3. CASE Tree!Unchanged(c, r)
  <2>1. Tree!Altered(c) \in Tree!Caches(Tree!Versions)
    BY TreeAltered
  <2>2. Tree!Publish(c, r, v) = [Tree!Altered(c) EXCEPT !.slot = TRUE, !.value = v]
    BY <1>3 DEF Tree!Publish
  <2>3. Tree!Publish(c, r, v).value = v /\ Tree!Publish(c, r, v).obs = Tree!Altered(c).obs
    BY <2>1, <2>2 DEF Tree!Caches
  <2> QED
    BY <1>1, <2>3, TreeNobodySaw
<1> QED
  BY <1>2, <1>3

-----------------------------------------------------------------------------
(* The versions and snapshots of the tree *)

(* Nothing is no number. *)
LEMMA TreeNone ==
    ASSUME Counting
    PROVE  /\ None \notin Tree!Versions /\ None \notin Tree!Snapshots /\ Tree!Snapshots \subseteq Nat
           /\ \A r \in Ops : Tree!Versions # {}
<1>1. Tree!Cardinality(Ops) \in Nat
  BY TreeAssumption, TreeCounts DEF Counting, CountIsNatural
<1>2. \A n : n \in Tree!Versions => n \in Nat
  BY <1>1, SMTT(30) DEF Tree!Versions
<1>3. \A n : n \in Tree!Snapshots => n \in Nat
  BY TreeAssumption, SMTT(30) DEF Tree!Snapshots
<1>4. ASSUME NEW r \in Ops PROVE 1 \in Tree!Versions
  <2>1. Tree!Cardinality(Ops) # 0
    BY TreeAssumption, TreeCounts DEF Counting, EmptyCount
  <2> QED
    BY <1>1, <2>1, SMTT(30) DEF Tree!Versions
<1> QED
  BY <1>2, <1>3, <1>4, TreeAssumption

(* What a read that is over, an unused version and an unused snapshot show. *)
LEMMA TreeIdle ==
    /\ Tree!Idle \in Tree!Op /\ Tree!NoVersion \in Tree!Version /\ Tree!NoSnapshot \in Tree!Snapshot
    /\ Tree!NoVersion.content = None /\ Tree!NoVersion.snapshot = None
    /\ Tree!NoSnapshot.place = None /\ ~Tree!NoSnapshot.cacheable /\ Tree!NoSnapshot.cleanups = {}
    /\ Tree!Idle.pc = "idle" /\ Tree!Idle.kind = None /\ Tree!Idle.version = None /\ Tree!Idle.snapshot = None
    /\ Tree!Idle.retired = None /\ Tree!Idle.evicting = None /\ Tree!Idle.cleaning = {} /\ Tree!Idle.evicted = FALSE
BY DEF Tree!Idle, Tree!Op, Tree!NoVersion, Tree!Version, Tree!NoSnapshot, Tree!Snapshot

(* It has nothing to let go of. *)
LEMMA TreeSameIdle ==
    /\ [Tree!Idle EXCEPT !.version = None] = Tree!Idle
    /\ [Tree!Idle EXCEPT !.evicting = None] = Tree!Idle
    /\ [Tree!Idle EXCEPT !.retired = None, !.evicting = None] = Tree!Idle
BY TreeIdle DEF Tree!Op

(* Collecting what nobody can reach disturbs nothing. *)
LEMMA TreeCollected ==
    ASSUME NEW c, NEW vs, NEW ss, NEW ops, NEW n, NEW i, Tree!Inductive,
           Tree!Sound(c, vs, ss, ops, n, i), Tree!Becomes(c, vs, ss, ops), v6' = n, v7' = i
    PROVE  Tree!Inductive'
<1>1. v3' = c /\ v8' = ops /\ v1' = v1
  BY DEF Tree!Becomes
<1>2. /\ c \in Tree!Caches(Tree!Versions) /\ vs \in [Tree!Versions -> Tree!Version] /\ ss \in [Tree!Snapshots -> Tree!Snapshot]
      /\ ops \in [Ops -> Tree!Op] /\ n \in 0 .. MaxSnapshots /\ i \in Tree!Snapshots \cup {None}
  BY DEF Tree!Sound, Tree!StateOK
<1>3. /\ v4' \in [Tree!Versions -> Tree!Version]
      /\ \A v \in Tree!Versions : v4'[v] = IF Tree!VersionHeld(v, c, ops) THEN vs[v] ELSE Tree!NoVersion
  BY <1>2, TreeIdle DEF Tree!Becomes
<1>4. PICK held : /\ held = {v4'[v].snapshot : v \in Tree!Versions} \cup UNION {{ops[r].evicting, ops[r].snapshot} : r \in Ops}
                  /\ v5' = [s \in Tree!Snapshots |-> IF s \in held \/ ss[s].cacheable THEN ss[s] ELSE Tree!NoSnapshot]
  BY DEF Tree!Becomes
<1>5. /\ v5' \in [Tree!Snapshots -> Tree!Snapshot]
      /\ \A s \in Tree!Snapshots : (v5'[s].cacheable <=> ss[s].cacheable) /\ (ss[s].cacheable => v5'[s] = ss[s])
  BY <1>2, <1>4, TreeIdle
<1>6. ASSUME NEW v \in Tree!Versions, v4'[v].snapshot # None
      PROVE  /\ Tree!VersionHeld(v, c, ops) /\ v4'[v] = vs[v] /\ v4'[v].snapshot \in Tree!Snapshots
             /\ v5'[v4'[v].snapshot] = ss[v4'[v].snapshot]
  <2>1. Tree!VersionHeld(v, c, ops) /\ v4'[v] = vs[v]
    BY <1>3, <1>6, TreeIdle
  <2>2. v4'[v].snapshot \in Tree!Snapshots
    BY <1>3, <1>6 DEF Tree!Version
  <2>3. v4'[v].snapshot \in held
    BY <1>4
  <2> QED
    BY <1>4, <2>1, <2>2, <2>3
<1>7. c.value # None => c.value \in Tree!Versions /\ v4'[c.value] = vs[c.value]
  BY <1>2, <1>3 DEF Tree!VersionHeld, Tree!Caches
<1>8. ASSUME NEW r \in Ops
      PROVE  /\ ops[r].version # None => ops[r].version \in Tree!Versions /\ v4'[ops[r].version] = vs[ops[r].version]
             /\ ops[r].retired # None => ops[r].retired \in Tree!Versions /\ v4'[ops[r].retired] = vs[ops[r].retired]
             /\ ops[r].evicting # None => ops[r].evicting \in Tree!Snapshots
             /\ ops[r].snapshot # None => ops[r].snapshot \in Tree!Snapshots
  <2>1. /\ ops[r].version \in Tree!Versions \cup {None} /\ ops[r].retired \in Tree!Versions \cup {None}
        /\ ops[r].evicting \in Tree!Snapshots \cup {None} /\ ops[r].snapshot \in Tree!Snapshots \cup {None}
    BY <1>2 DEF Tree!Op
  <2> QED
    BY <1>3, <2>1 DEF Tree!VersionHeld
<1>9. ASSUME NEW r \in Ops
      PROVE  /\ Tree!StageSound(ops[r], n) /\ Tree!HoldSound(ops[r], c.obs[r], c, v4', v5')
             /\ Tree!PublishSound(r, v5', ops)
  <2>1. Tree!StageSound(ops[r], n) /\ Tree!HoldSound(ops[r], c.obs[r], c, vs, ss) /\ Tree!PublishSound(r, ss, ops)
    BY DEF Tree!Sound
  <2>2. Tree!HoldSound(ops[r], c.obs[r], c, v4', v5')
    <3>1. ops[r].pc \in {"clean", "drop"} => ~v5'[ops[r].evicting].cacheable
      BY <1>5, <1>8, <2>1 DEF Tree!HoldSound, Tree!StageSound
    <3> QED
      BY <1>7, <1>8, <2>1, <3>1 DEF Tree!HoldSound
  <2>3. Tree!PublishSound(r, v5', ops)
    <3>1. ops[r].pc = "publish" => ops[r].snapshot \in Tree!Snapshots
      BY <1>8, <2>1 DEF Tree!StageSound, Tree!Stage, Tree!Away
    <3> QED
      BY <1>5, <2>1, <3>1 DEF Tree!PublishSound
  <2> QED
    BY <2>1, <2>2, <2>3
<1>10. Tree!VersionsSound(c, v4', v5', n)
  <2>1. Tree!VersionsSound(c, vs, ss, n)
    BY DEF Tree!Sound
  <2>2. c.value # None /\ v4'[c.value].snapshot # None => v5'[v4'[c.value].snapshot].cacheable
    BY <1>6, <1>7, <2>1 DEF Tree!VersionsSound
  <2>3. ASSUME NEW v \in Tree!Versions, v4'[v].snapshot # None
        PROVE  v4'[v].snapshot <= n /\ v5'[v4'[v].snapshot].place # None
    BY <1>6, <2>1, <2>3 DEF Tree!VersionsSound
  <2>4. ASSUME NEW v \in Tree!Versions, NEW w \in Tree!Versions, v4'[v].snapshot # None, v4'[v].snapshot = v4'[w].snapshot
        PROVE  v = w
    <3>1. v4'[v] = vs[v] /\ v4'[w] = vs[w]
      BY <1>6, <2>4
    <3> QED
      BY <2>1, <2>4, <3>1 DEF Tree!VersionsSound
  <2> QED
    BY <1>7, <2>1, <2>2, <2>3, <2>4 DEF Tree!VersionsSound
<1>11. Tree!SnapshotsSound(c, v4', v5', ops, n)
  <2>1. Tree!SnapshotsSound(c, vs, ss, ops, n)
    BY DEF Tree!Sound
  <2>2. ASSUME NEW r \in Ops, NEW s, Tree!Dooms(ops[r], s, vs) PROVE Tree!Dooms(ops[r], s, v4')
    BY <1>8, <2>2 DEF Tree!Dooms
  <2> QED
    BY <1>5, <1>7, <2>1, <2>2 DEF Tree!SnapshotsSound
<1>12. Tree!IndexSound(v5', ops, n, i)
  BY <1>2, <1>5 DEF Tree!Sound, Tree!IndexSound
<1>13. Tree!StateOK(c, v4', v5', ops, n, i)
  BY <1>2, <1>3, <1>5 DEF Tree!StateOK
<1>14. Tree!Sound(c, v4', v5', ops, n, i)
  BY <1>9, <1>10, <1>11, <1>12, <1>13 DEF Tree!Sound
<1> QED
  BY <1>1, <1>14 DEF Tree!Inductive

(* Read r goes on as o, with d for the cache. *)
TreeGoesOn(r, o, d, ops, c, vs, ss, os, n) ==
    /\ o \in Tree!Op /\ ops = [os EXCEPT ![r] = o] /\ TreeFollows(c, d, r)
    /\ \/ d.value \in {c.value, None}
       \/ /\ d.value \in Tree!Versions /\ vs[d.value].content # None /\ vs[d.value].snapshot = None
          /\ \A q \in Ops \ {r} : os[q].retired # d.value
    /\ os[r].pc # "drop" /\ (os[r].pc = "clean" => os[r].cleaning = {})
    /\ Tree!StageSound(o, n) /\ Tree!HoldSound(o, d.obs[r], d, vs, ss) /\ Tree!PublishSound(r, ss, ops)
    /\ (c.value # None /\ d.value # c.value => Tree!Dooms(o, vs[c.value].snapshot, vs))
    /\ \A s \in Tree!Snapshots : ss[s].cacheable /\ Tree!Dooms(os[r], s, vs) =>
            (d.value # None /\ vs[d.value].snapshot = s) \/ Tree!Dooms(o, s, vs)

(* A step of one read that touches no version and no snapshot, and takes     *)
(* nothing from the cache but what it goes on to retire.                     *)
LEMMA TreeOneMoves ==
    ASSUME NEW c, NEW vs, NEW ss, NEW os, NEW n, NEW i,
           Tree!Sound(c, vs, ss, os, n, i),
           NEW r \in Ops, NEW o, NEW d, NEW ops, TreeGoesOn(r, o, d, ops, c, vs, ss, os, n)
    PROVE  Tree!Sound(d, vs, ss, ops, n, i)
<1>0. /\ o \in Tree!Op /\ ops = [os EXCEPT ![r] = o] /\ TreeFollows(c, d, r)
      /\ \/ d.value \in {c.value, None}
         \/ /\ d.value \in Tree!Versions /\ vs[d.value].content # None /\ vs[d.value].snapshot = None
            /\ \A q \in Ops \ {r} : os[q].retired # d.value
      /\ os[r].pc # "drop" /\ (os[r].pc = "clean" => os[r].cleaning = {})
      /\ Tree!StageSound(o, n) /\ Tree!HoldSound(o, d.obs[r], d, vs, ss) /\ Tree!PublishSound(r, ss, ops)
      /\ (c.value # None /\ d.value # c.value => Tree!Dooms(o, vs[c.value].snapshot, vs))
      /\ \A s \in Tree!Snapshots : ss[s].cacheable /\ Tree!Dooms(os[r], s, vs) =>
               (d.value # None /\ vs[d.value].snapshot = s) \/ Tree!Dooms(o, s, vs)
  BY DEF TreeGoesOn
<1>1. /\ c \in Tree!Caches(Tree!Versions) /\ vs \in [Tree!Versions -> Tree!Version] /\ ss \in [Tree!Snapshots -> Tree!Snapshot]
      /\ os \in [Ops -> Tree!Op] /\ n \in 0 .. MaxSnapshots /\ i \in Tree!Snapshots \cup {None}
  BY DEF Tree!Sound, Tree!StateOK
<1>2. ops \in [Ops -> Tree!Op] /\ ops[r] = o /\ \A q \in Ops \ {r} : ops[q] = os[q]
  BY <1>0, <1>1
<1>3. d \in Tree!Caches(Tree!Versions)
  BY <1>0 DEF TreeFollows
<1>4. ASSUME NEW w \in Ops, NEW s, NEW q, Tree!Tells(os[w], s, q) PROVE w # r /\ Tree!Tells(ops[w], s, q)
  <2>1. w # r
    BY <1>0, <1>4 DEF Tree!Tells
  <2> QED
    BY <1>2, <1>4, <2>1
<1>5. ASSUME NEW q \in Ops
      PROVE  /\ Tree!StageSound(ops[q], n) /\ Tree!HoldSound(ops[q], d.obs[q], d, vs, ss)
             /\ Tree!PublishSound(q, ss, ops)
  <2>1. CASE q = r
    BY <1>0, <1>2, <2>1
  <2>2. CASE q # r
    <3>1. /\ Tree!StageSound(os[q], n) /\ Tree!HoldSound(os[q], c.obs[q], c, vs, ss)
          /\ Tree!PublishSound(q, ss, os) /\ ops[q] = os[q]
      BY <1>2, <2>2 DEF Tree!Sound
    <3>2. Tree!HoldSound(os[q], d.obs[q], d, vs, ss)
      <4>1. d.obs[q] = "same" => c.obs[q] = "same" /\ d.value = c.value
        BY <1>0, <2>2 DEF TreeFollows
      <4>2. os[q].pc = "evict" => os[q].evicting # None
        BY <3>1 DEF Tree!StageSound
      <4>3. os[q].retired # None => os[q].retired # d.value
        BY <1>0, <2>2, <3>1 DEF Tree!HoldSound
      <4>4. os[q].pc = "evict" /\ d.value # None => vs[d.value].snapshot # os[q].evicting
        BY <1>0, <3>1, <4>2 DEF Tree!HoldSound
      <4> QED
        BY <1>3, <3>1, <4>1, <4>3, <4>4 DEF Tree!HoldSound
    <3>3. Tree!PublishSound(q, ss, ops)
      BY <1>4, <3>1 DEF Tree!PublishSound
    <3> QED
      BY <3>1, <3>2, <3>3
  <2> QED
    BY <2>1, <2>2
<1>6. Tree!VersionsSound(d, vs, ss, n)
  BY <1>0, <1>3 DEF Tree!Sound, Tree!VersionsSound
<1>7. Tree!SnapshotsSound(d, vs, ss, ops, n)
  <2> SUFFICES ASSUME NEW s \in Tree!Snapshots, ss[s].cacheable
               PROVE  /\ s <= n
                      /\ \/ d.value # None /\ vs[d.value].snapshot = s
                         \/ \E q \in Ops : Tree!Dooms(ops[q], s, vs)
    BY DEF Tree!SnapshotsSound
  <2>1. /\ s <= n
        /\ \/ c.value # None /\ vs[c.value].snapshot = s
           \/ \E q \in Ops : Tree!Dooms(os[q], s, vs)
    BY DEF Tree!Sound, Tree!SnapshotsSound
  <2>2. CASE c.value # None /\ vs[c.value].snapshot = s
    BY <1>0, <1>2, <2>1, <2>2
  <2>3. ASSUME NEW q \in Ops, Tree!Dooms(os[q], s, vs)
        PROVE  \/ d.value # None /\ vs[d.value].snapshot = s
               \/ \E w \in Ops : Tree!Dooms(ops[w], s, vs)
    BY <1>0, <1>2, <2>3
  <2> QED
    BY <2>1, <2>2, <2>3
<1>8. Tree!IndexSound(ss, ops, n, i)
  <2> SUFFICES ASSUME i # None
               PROVE  /\ i <= n
                      /\ \/ ss[i].cacheable /\ ss[i].cleanups # {}
                         \/ \E q \in Ops : ops[q].evicting = i
                                /\ (ops[q].pc = "drop" \/ (ops[q].pc = "clean" /\ ops[q].cleaning # {}))
    BY DEF Tree!IndexSound
  <2>1. /\ i <= n
        /\ \/ ss[i].cacheable /\ ss[i].cleanups # {}
           \/ \E q \in Ops : os[q].evicting = i
                  /\ (os[q].pc = "drop" \/ (os[q].pc = "clean" /\ os[q].cleaning # {}))
    BY DEF Tree!Sound, Tree!IndexSound
  <2>2. ASSUME NEW q \in Ops, os[q].pc = "drop" \/ (os[q].pc = "clean" /\ os[q].cleaning # {}) PROVE ops[q] = os[q]
    <3>1. q # r
      BY <1>0, <2>2
    <3> QED
      BY <1>2, <3>1
  <2> QED
    BY <2>1, <2>2
<1> QED
  BY <1>1, <1>2, <1>3, <1>5, <1>6, <1>7, <1>8 DEF Tree!Sound, Tree!StateOK

(* What the invariant says of one read. *)
LEMMA TreeFacts ==
    ASSUME Tree!Inductive, NEW r \in Ops
    PROVE  /\ v3 \in Tree!Caches(Tree!Versions) /\ v4 \in [Tree!Versions -> Tree!Version] /\ v5 \in [Tree!Snapshots -> Tree!Snapshot]
           /\ v8 \in [Ops -> Tree!Op] /\ v6 \in 0 .. MaxSnapshots /\ v7 \in Tree!Snapshots \cup {None}
           /\ v8[r] \in Tree!Op /\ v3.value \in Tree!Versions \cup {None} /\ v3.obs \in [Ops -> {"none", "same", "changed"}]
           /\ Tree!StageSound(v8[r], v6) /\ Tree!HoldSound(v8[r], v3.obs[r], v3, v4, v5)
           /\ Tree!PublishSound(r, v5, v8) /\ Tree!VersionsSound(v3, v4, v5, v6)
           /\ v1 \in Directories \cup SingleFile \cup {None} /\ TreeFollows(v3, v3, r)
<1>1. v3 \in Tree!Caches(Tree!Versions) /\ v8 \in [Ops -> Tree!Op]
  BY DEF Tree!Inductive, Tree!Sound, Tree!StateOK
<1>2. v3.value \in Tree!Versions \cup {None} /\ v3.obs \in [Ops -> {"none", "same", "changed"}]
  BY <1>1 DEF Tree!Caches
<1>3. v8[r] \in Tree!Op
  BY <1>1
<1>4. TreeFollows(v3, v3, r)
  BY <1>1 DEF TreeFollows
<1> QED
  BY <1>1, <1>2, <1>3, <1>4 DEF Tree!Inductive, Tree!Sound, Tree!StateOK

(* A read that is neither evicting nor comparing dooms no snapshot. *)
LEMMA TreeHarmless ==
    ASSUME Counting, Tree!Inductive, NEW r \in Ops, v8[r].pc \notin Tree!Away \cup {"compare"}, NEW s \in Tree!Snapshots
    PROVE  ~Tree!Dooms(v8[r], s, v4)
<1>1. v8[r].retired = None /\ v8[r].evicting = None
  BY TreeFacts DEF Tree!StageSound, Tree!Away
<1> QED
  BY <1>1, TreeNone DEF Tree!Dooms

(* A step of one read, and the collection after it. *)
LEMMA TreeMoves ==
    ASSUME Tree!Inductive, NEW r \in Ops, NEW o \in Tree!Op, NEW d, NEW ops, ops = [v8 EXCEPT ![r] = o],
           Tree!Becomes(d, v4, v5, ops), Tree!TreeStep,
           TreeFollows(v3, d, r), d.value \in {v3.value, None},
           v8[r].pc # "drop", v8[r].pc = "clean" => v8[r].cleaning = {},
           Tree!StageSound(o, v6), Tree!HoldSound(o, d.obs[r], d, v4, v5),
           o.pc = "publish" => o.evicted,
           o.pc \in {"clean", "drop"} /\ o.next = "publish" => o.evicted \/ r \in o.cleaning,
           v3.value # None /\ d.value # v3.value => Tree!Dooms(o, v4[v3.value].snapshot, v4),
           \A s \in Tree!Snapshots : v5[s].cacheable /\ Tree!Dooms(v8[r], s, v4) =>
               (d.value # None /\ v4[d.value].snapshot = s) \/ Tree!Dooms(o, s, v4)
    PROVE  Tree!Inductive'
<1>1. v8 \in [Ops -> Tree!Op]
  BY TreeFacts
<1>2. ops[r] = o
  BY <1>1
<1>3. Tree!PublishSound(r, v5, ops)
  BY <1>2 DEF Tree!PublishSound
<1>4. Tree!Sound(v3, v4, v5, v8, v6, v7)
  BY DEF Tree!Inductive
<1>5. TreeGoesOn(r, o, d, ops, v3, v4, v5, v8, v6)
  BY <1>3 DEF TreeGoesOn
<1>6. Tree!Sound(d, v4, v5, ops, v6, v7)
  BY <1>4, <1>5, TreeOneMoves
<1>7. v6' = v6 /\ v7' = v7
  BY DEF Tree!TreeStep
<1> QED
  BY <1>6, <1>7, TreeCollected

(* An idle read needs and holds nothing. *)
LEMMA TreeRest ==
    ASSUME NEW n, NEW seen, NEW c, NEW vs, NEW ss
    PROVE  Tree!StageSound(Tree!Idle, n) /\ Tree!HoldSound(Tree!Idle, seen, c, vs, ss)
<1>1. Tree!Stage(Tree!Idle) = "idle"
  BY TreeIdle DEF Tree!Stage, Tree!Away
<1> QED
  BY <1>1, TreeIdle, TreeAssumption DEF Tree!StageSound, Tree!HoldSound, Tree!Away

(* The end of a read that leaves the cache as it is. *)
LEMMA TreeEnds ==
    ASSUME Tree!Inductive, NEW r \in Ops, Tree!Becomes(v3, v4, v5, [v8 EXCEPT ![r] = Tree!Idle]), Tree!TreeStep,
           v8[r].pc # "drop", v8[r].pc = "clean" => v8[r].cleaning = {},
           \A s \in Tree!Snapshots : v5[s].cacheable /\ Tree!Dooms(v8[r], s, v4) =>
               v3.value # None /\ v4[v3.value].snapshot = s
    PROVE  Tree!Inductive'
<1>1. /\ Tree!Idle \in Tree!Op /\ Tree!Idle.pc = "idle" /\ Tree!StageSound(Tree!Idle, v6)
      /\ Tree!HoldSound(Tree!Idle, v3.obs[r], v3, v4, v5)
  BY TreeIdle, TreeRest
<1>2. TreeFollows(v3, v3, r)
  BY TreeFacts
<1> QED
  BY <1>1, <1>2, TreeMoves

-----------------------------------------------------------------------------
(* The steps of the tree *)

(* Initially nothing is cached and every read is idle. *)
LEMMA TreeInit == Tree!Init => Tree!Inductive
<1> SUFFICES ASSUME Tree!Init PROVE Tree!Inductive
  OBVIOUS
<1>1. /\ v1 = None /\ v3 = Tree!Empty /\ v6 = 0 /\ v7 = None
      /\ v4 = [v \in Tree!Versions |-> Tree!NoVersion] /\ v5 = [s \in Tree!Snapshots |-> Tree!NoSnapshot]
      /\ v8 = [r \in Ops |-> Tree!Idle]
  BY DEF Tree!Init
<1>2. v3 \in Tree!Caches(Tree!Versions) /\ v3.value = None
  BY <1>1 DEF Tree!Empty, Tree!Caches
<1>3. 0 \in 0 .. MaxSnapshots
  BY TreeAssumption, SMTT(30)
<1>4. /\ v4 \in [Tree!Versions -> Tree!Version] /\ v5 \in [Tree!Snapshots -> Tree!Snapshot] /\ v8 \in [Ops -> Tree!Op]
  BY <1>1, TreeIdle
<1>5. ASSUME NEW r \in Ops
      PROVE  /\ Tree!StageSound(v8[r], v6) /\ Tree!HoldSound(v8[r], v3.obs[r], v3, v4, v5)
             /\ Tree!PublishSound(r, v5, v8)
  BY <1>1, TreeRest, TreeIdle DEF Tree!PublishSound
<1>6. Tree!VersionsSound(v3, v4, v5, v6)
  BY <1>1, <1>2, TreeIdle DEF Tree!VersionsSound
<1>7. Tree!SnapshotsSound(v3, v4, v5, v8, v6)
  BY <1>1, TreeIdle DEF Tree!SnapshotsSound
<1>8. Tree!IndexSound(v5, v8, v6, v7)
  BY <1>1 DEF Tree!IndexSound
<1> QED
  BY <1>1, <1>2, <1>3, <1>4, <1>5, <1>6, <1>7, <1>8 DEF Tree!Inductive, Tree!Sound,
     Tree!StateOK

(* A step that changes nothing. *)
LEMMA TreeStutter == Tree!Inductive /\ UNCHANGED Tree!vars => Tree!Inductive'
BY DEF Tree!Inductive, Tree!vars

(* The library changes; the tree has not noticed. *)
LEMMA TreeChange ==
    ASSUME Tree!Inductive, NEW s \in Directories \cup SingleFile \cup {None}, Tree!Change(s)
    PROVE  Tree!Inductive'
BY DEF Tree!Inductive, Tree!Change

(* A listing begins. *)
LEMMA TreeListBegin ==
    ASSUME Counting, Tree!Inductive, NEW r \in Ops, Tree!ListBegin(r)
    PROVE  Tree!Inductive'
<1>1. PICK o : o = [Tree!Idle EXCEPT !.pc = "ask", !.kind = "list"]
  OBVIOUS
<1>2. PICK d : d = Tree!ObserveListing(v3, r)
  OBVIOUS
<1>3. Tree!Becomes(d, v4, v5, [v8 EXCEPT ![r] = o]) /\ Tree!TreeStep /\ v8[r] = Tree!Idle
  BY <1>1, <1>2 DEF Tree!ListBegin
<1>4. o \in Tree!Op /\ o.pc = "ask" /\ o.kind = "list" /\ o.version = None /\ o.snapshot = None /\ o.retired = None /\ o.evicting = None
  BY <1>1 DEF Tree!Idle, Tree!Op
<1>5. TreeFollows(v3, d, r) /\ d.value = v3.value
  BY <1>2, TreeFacts, TreeCacheFollows, TreeNone
<1>6. Tree!StageSound(o, v6) /\ Tree!HoldSound(o, d.obs[r], d, v4, v5)
  BY <1>4, TreeAssumption DEF Tree!StageSound, Tree!HoldSound, Tree!Stage, Tree!Away
<1>7. \A s \in Tree!Snapshots : ~Tree!Dooms(v8[r], s, v4)
  BY <1>3, TreeIdle, TreeHarmless DEF Tree!Away
<1> QED
  BY <1>3, <1>4, <1>5, <1>6, <1>7, TreeIdle, TreeMoves

(* An open begins. *)
LEMMA TreeOpenBegin ==
    ASSUME Counting, Tree!Inductive, NEW r \in Ops, NEW place \in Places, Tree!OpenBegin(r, place)
    PROVE  Tree!Inductive'
<1>1. PICK o : o = [Tree!Idle EXCEPT !.pc = "ask", !.kind = "open", !.place = place]
  OBVIOUS
<1>2. PICK d : d = Tree!Observe(v3, r)
  OBVIOUS
<1>3. Tree!Becomes(d, v4, v5, [v8 EXCEPT ![r] = o]) /\ Tree!TreeStep /\ v8[r] = Tree!Idle
  BY <1>1, <1>2 DEF Tree!OpenBegin
<1>4. /\ o \in Tree!Op /\ o.pc = "ask" /\ o.kind = "open" /\ o.place = place
      /\ o.version = None /\ o.snapshot = None /\ o.retired = None /\ o.evicting = None
  BY <1>1 DEF Tree!Idle, Tree!Op
<1>5. TreeFollows(v3, d, r) /\ d.value = v3.value
  BY <1>2, TreeFacts, TreeCacheFollows, TreeNone
<1>6. Tree!StageSound(o, v6) /\ Tree!HoldSound(o, d.obs[r], d, v4, v5)
  BY <1>4, TreeAssumption DEF Tree!StageSound, Tree!HoldSound, Tree!Stage, Tree!Away
<1>7. \A s \in Tree!Snapshots : ~Tree!Dooms(v8[r], s, v4)
  BY <1>3, TreeIdle, TreeHarmless DEF Tree!Away
<1> QED
  BY <1>3, <1>4, <1>5, <1>6, <1>7, TreeIdle, TreeMoves

(* The library is asked. *)
LEMMA TreeAsk ==
    ASSUME Counting, Tree!Inductive, NEW r \in Ops, Tree!Ask(r)
    PROVE  Tree!Inductive'
<1>1. PICK pc : pc = IF v8[r].kind = "list" THEN "candidates" ELSE IF v1 \in Directories THEN "index" ELSE "forget"
  OBVIOUS
<1>2. PICK o : o = [v8[r] EXCEPT !.view = v1, !.pc = pc]
  OBVIOUS
<1>3. v8 \in [Ops -> Tree!Op] /\ v8[r] \in Tree!Op /\ Tree!StageSound(v8[r], v6) /\ v1 \in Directories \cup SingleFile \cup {None}
  BY TreeFacts
<1>4. v8[r].pc = "ask" /\ Tree!TreeStep /\ Tree!Becomes(v3, v4, v5, [v8 EXCEPT ![r] = o])
  BY <1>1, <1>2, <1>3 DEF Tree!Ask
<1>5. /\ o \in Tree!Op /\ o.pc = pc /\ o.view = v1 /\ o.kind = v8[r].kind /\ o.place = v8[r].place
      /\ o.version = v8[r].version /\ o.snapshot = v8[r].snapshot /\ o.retired = v8[r].retired /\ o.evicting = v8[r].evicting
  <2>1. pc \in {"candidates", "index", "forget"}
    BY <1>1
  <2> QED
    BY <1>2, <1>3, <2>1 DEF Tree!Op
<1>6. /\ v8[r].version = None /\ v8[r].retired = None /\ v8[r].evicting = None /\ v8[r].kind \in {"list", "open"}
      /\ (v8[r].kind = "open" => v8[r].place \in Places) /\ (v8[r].snapshot # None => v8[r].snapshot <= v6)
  BY <1>3, <1>4 DEF Tree!StageSound, Tree!Op, Tree!Stage, Tree!Away
<1>7. Tree!StageSound(o, v6) /\ Tree!HoldSound(o, v3.obs[r], v3, v4, v5)
  BY <1>1, <1>3, <1>5, <1>6 DEF Tree!StageSound, Tree!HoldSound, Tree!Stage, Tree!Away
<1>8. \A s \in Tree!Snapshots : ~Tree!Dooms(v8[r], s, v4)
  BY <1>4, TreeHarmless DEF Tree!Away
<1> QED
  BY <1>1, <1>4, <1>5, <1>7, <1>8, TreeFacts, TreeMoves

(* A listing notes what it may remove. *)
LEMMA TreeCandidates ==
    ASSUME Counting, Tree!Inductive, NEW r \in Ops, Tree!Candidates(r)
    PROVE  Tree!Inductive'
<1>1. PICK v : v = IF v8[r].view = None THEN v3.value ELSE None
  OBVIOUS
<1>2. PICK o : o = [v8[r] EXCEPT !.pc = "finish", !.version = v]
  OBVIOUS
<1>3. /\ v8 \in [Ops -> Tree!Op] /\ v8[r] \in Tree!Op /\ Tree!StageSound(v8[r], v6) /\ v3.value \in Tree!Versions \cup {None}
      /\ Tree!VersionsSound(v3, v4, v5, v6)
  BY TreeFacts
<1>4. v8[r].pc = "candidates" /\ Tree!TreeStep /\ Tree!Becomes(v3, v4, v5, [v8 EXCEPT ![r] = o])
  BY <1>1, <1>2, <1>3 DEF Tree!Candidates
<1>5. /\ o \in Tree!Op /\ o.pc = "finish" /\ o.view = v8[r].view /\ o.kind = v8[r].kind
      /\ o.version = v /\ o.snapshot = v8[r].snapshot /\ o.retired = v8[r].retired /\ o.evicting = v8[r].evicting
  BY <1>1, <1>2, <1>3 DEF Tree!Op
<1>6. /\ v8[r].retired = None /\ v8[r].evicting = None /\ v8[r].kind = "list"
      /\ (v8[r].snapshot # None => v8[r].snapshot <= v6)
  BY <1>3, <1>4 DEF Tree!StageSound
<1>7. Tree!StageSound(o, v6) /\ Tree!HoldSound(o, v3.obs[r], v3, v4, v5)
  BY <1>1, <1>3, <1>5, <1>6 DEF Tree!StageSound, Tree!HoldSound, Tree!VersionsSound,
     Tree!Stage, Tree!Away
<1>8. \A s \in Tree!Snapshots : ~Tree!Dooms(v8[r], s, v4)
  BY <1>4, TreeHarmless DEF Tree!Away
<1> QED
  BY <1>1, <1>4, <1>5, <1>7, <1>8, TreeFacts, TreeMoves

(* A listing ends: what it removes it will retire. *)
LEMMA TreeFinishList ==
    ASSUME Counting, Tree!Inductive, NEW r \in Ops, Tree!FinishList(r)
    PROVE  Tree!Inductive'
<1>1. PICK d : d = Tree!FinishListing(v3, r, v8[r].view # None)
  OBVIOUS
<1>2. PICK o : o = [v8[r] EXCEPT !.pc = "compare"]
  OBVIOUS
<1>3. /\ v8 \in [Ops -> Tree!Op] /\ v8[r] \in Tree!Op /\ Tree!StageSound(v8[r], v6) /\ v3.value \in Tree!Versions \cup {None}
      /\ Tree!HoldSound(v8[r], v3.obs[r], v3, v4, v5)
  BY TreeFacts
<1>4. v8[r].pc = "finish" /\ v8[r].kind = "list" /\ Tree!TreeStep /\ Tree!Becomes(d, v4, v5, [v8 EXCEPT ![r] = o])
  BY <1>1, <1>2, <1>3 DEF Tree!FinishList, Tree!Goes
<1>5. /\ o \in Tree!Op /\ o.pc = "compare" /\ o.view = v8[r].view /\ o.kind = v8[r].kind
      /\ o.version = v8[r].version /\ o.snapshot = v8[r].snapshot /\ o.retired = v8[r].retired /\ o.evicting = v8[r].evicting
  BY <1>2, <1>3 DEF Tree!Op
<1>6. /\ v8[r].retired = None /\ v8[r].evicting = None
      /\ (v8[r].snapshot # None => v8[r].snapshot <= v6)
      /\ (v8[r].version # None => v4[v8[r].version].content # None)
  BY <1>3, <1>4 DEF Tree!StageSound, Tree!HoldSound
<1>7. Tree!StageSound(o, v6) /\ Tree!HoldSound(o, d.obs[r], d, v4, v5)
  BY <1>5, <1>6 DEF Tree!StageSound, Tree!HoldSound, Tree!Stage, Tree!Away
<1>8. \A s \in Tree!Snapshots : ~Tree!Dooms(v8[r], s, v4)
  BY <1>4, TreeHarmless DEF Tree!Away
<1>9. /\ TreeFollows(v3, d, r) /\ d.value \in {v3.value, None}
      /\ (d.value # v3.value => v8[r].view = None /\ v3.obs[r] = "same")
  BY <1>1, TreeFacts, TreeCacheFollows, TreeNone
<1>10. v3.value # None /\ d.value # v3.value => Tree!Dooms(o, v4[v3.value].snapshot, v4)
  BY <1>3, <1>4, <1>5, <1>9 DEF Tree!HoldSound, Tree!Dooms
<1> QED
  BY <1>4, <1>5, <1>7, <1>8, <1>9, <1>10, TreeMoves

(* What the listing noted and the cache no longer has is retired. *)
LEMMA TreeCompare ==
    ASSUME Counting, Tree!Inductive, NEW r \in Ops, Tree!Compare(r)
    PROVE  Tree!Inductive'
<1>1. /\ v8 \in [Ops -> Tree!Op] /\ v8[r] \in Tree!Op /\ Tree!StageSound(v8[r], v6) /\ v3.value \in Tree!Versions \cup {None}
      /\ Tree!HoldSound(v8[r], v3.obs[r], v3, v4, v5)
  BY TreeFacts
<1>2. v8[r].pc = "compare" /\ Tree!TreeStep
  BY DEF Tree!Compare
<1>3. /\ v8[r].retired = None /\ v8[r].evicting = None /\ v8[r].version \in Tree!Versions \cup {None}
      /\ (v8[r].snapshot # None => v8[r].snapshot <= v6)
  BY <1>1, <1>2 DEF Tree!StageSound, Tree!Op
<1>4. ASSUME NEW s \in Tree!Snapshots, Tree!Dooms(v8[r], s, v4)
      PROVE  v8[r].version # None /\ v4[v8[r].version].snapshot = s
  BY <1>3, <1>4, TreeNone DEF Tree!Dooms
<1>5. CASE v3.value = v8[r].version \/ v8[r].version = None
  <2>1. [Tree!Goes(r, "idle") EXCEPT ![r].version = None] = [v8 EXCEPT ![r] = Tree!Idle]
    <3>1. [Tree!Idle EXCEPT !.version = None] = Tree!Idle
      BY TreeSameIdle
    <3>2. PICK f : f = [v8 EXCEPT ![r] = Tree!Idle]
      OBVIOUS
    <3>3. f = Tree!Goes(r, "idle") /\ f \in [Ops -> Tree!Op] /\ f[r] = Tree!Idle
      BY <1>1, <3>2, TreeIdle DEF Tree!Goes
    <3>4. [f EXCEPT ![r].version = None] = [f EXCEPT ![r] = Tree!Idle]
      BY <3>1, <3>3
    <3>5. [f EXCEPT ![r] = Tree!Idle] = f
      BY <3>3
    <3> QED
      BY <3>2, <3>3, <3>4, <3>5
  <2>2. Tree!Becomes(v3, v4, v5, [v8 EXCEPT ![r] = Tree!Idle])
    BY <1>5, <2>1 DEF Tree!Compare, Tree!Retire
  <2> QED
    BY <1>2, <1>4, <1>5, <2>2, TreeEnds
<1>6. CASE v3.value # v8[r].version /\ v8[r].version # None
  <2>1. PICK o : o = [v8[r] EXCEPT !.pc = "collect", !.retired = v8[r].version, !.next = "idle", !.version = None]
    OBVIOUS
  <2>2. Tree!Becomes(v3, v4, v5, [v8 EXCEPT ![r] = o])
    BY <1>1, <1>6, <2>1 DEF Tree!Compare, Tree!Retire
  <2>3. /\ o \in Tree!Op /\ o.pc = "collect" /\ o.retired = v8[r].version /\ o.next = "idle" /\ o.version = None
        /\ o.snapshot = v8[r].snapshot /\ o.evicting = v8[r].evicting
    BY <1>1, <1>3, <2>1 DEF Tree!Op
  <2>4. Tree!StageSound(o, v6) /\ Tree!HoldSound(o, v3.obs[r], v3, v4, v5)
    BY <1>3, <1>6, <2>3 DEF Tree!StageSound, Tree!HoldSound, Tree!Stage, Tree!Away
  <2>5. \A s \in Tree!Snapshots : Tree!Dooms(v8[r], s, v4) => Tree!Dooms(o, s, v4)
    BY <1>4, <2>3 DEF Tree!Dooms
  <2> QED
    BY <1>2, <2>2, <2>3, <2>4, <2>5, TreeFacts, TreeMoves
<1> QED
  BY <1>5, <1>6

(* The version is forgotten, and retired. *)
LEMMA TreeForgetDirectory ==
    ASSUME Counting, Tree!Inductive, NEW r \in Ops, Tree!ForgetDirectory(r)
    PROVE  Tree!Inductive'
<1>1. PICK d : d = Tree!Forget(v3, r)
  OBVIOUS
<1>2. /\ v8 \in [Ops -> Tree!Op] /\ v8[r] \in Tree!Op /\ Tree!StageSound(v8[r], v6) /\ v3.value \in Tree!Versions \cup {None}
  BY TreeFacts
<1>3. v8[r].pc = "forget" /\ Tree!TreeStep
  BY DEF Tree!ForgetDirectory
<1>4. /\ v8[r].retired = None /\ v8[r].evicting = None /\ v8[r].version = None /\ v8[r].kind = "open" /\ v8[r].place \in Places
      /\ (v8[r].snapshot # None => v8[r].snapshot <= v6)
  BY <1>2, <1>3 DEF Tree!StageSound, Tree!Stage, Tree!Away
<1>5. TreeFollows(v3, d, r) /\ d.value \in {v3.value, None}
  BY <1>1, TreeFacts, TreeCacheFollows, TreeNone
<1>6. \A s \in Tree!Snapshots : ~Tree!Dooms(v8[r], s, v4)
  BY <1>3, TreeHarmless DEF Tree!Away
<1>7. CASE d.value = v3.value
  <2>1. PICK o : o = [v8[r] EXCEPT !.pc = "finish"]
    OBVIOUS
  <2>2. Tree!Becomes(d, v4, v5, [v8 EXCEPT ![r] = o])
    BY <1>1, <1>2, <1>7, <2>1 DEF Tree!ForgetDirectory, Tree!Retire, Tree!Goes
  <2>3. /\ o \in Tree!Op /\ o.pc = "finish" /\ o.retired = None /\ o.version = None /\ o.kind = "open" /\ o.place \in Places
        /\ o.snapshot = v8[r].snapshot /\ o.evicting = None
    BY <1>2, <1>4, <2>1 DEF Tree!Op
  <2>4. Tree!StageSound(o, v6) /\ Tree!HoldSound(o, d.obs[r], d, v4, v5)
    BY <1>4, <2>3 DEF Tree!StageSound, Tree!HoldSound, Tree!Stage, Tree!Away
  <2> QED
    BY <1>3, <1>5, <1>6, <1>7, <2>2, <2>3, <2>4, TreeMoves
<1>8. CASE d.value # v3.value
  <2>1. PICK o : o = [v8[r] EXCEPT !.pc = "collect", !.retired = v3.value, !.next = "finish"]
    OBVIOUS
  <2>2. v3.value # None
    BY <1>5, <1>8
  <2>3. Tree!Becomes(d, v4, v5, [v8 EXCEPT ![r] = o])
    BY <1>1, <1>2, <1>8, <2>1, <2>2 DEF Tree!ForgetDirectory, Tree!Retire
  <2>4. /\ o \in Tree!Op /\ o.pc = "collect" /\ o.retired = v3.value /\ o.next = "finish"
        /\ o.version = None /\ o.kind = "open" /\ o.place \in Places
        /\ o.snapshot = v8[r].snapshot /\ o.evicting = None
    BY <1>2, <1>4, <2>1 DEF Tree!Op
  <2>5. Tree!StageSound(o, v6) /\ Tree!HoldSound(o, d.obs[r], d, v4, v5)
    BY <1>4, <1>8, <2>2, <2>4 DEF Tree!StageSound, Tree!HoldSound, Tree!Stage, Tree!Away
  <2>6. Tree!Dooms(o, v4[v3.value].snapshot, v4)
    BY <2>2, <2>4 DEF Tree!Dooms
  <2> QED
    BY <1>3, <1>5, <1>6, <2>3, <2>4, <2>5, <2>6, TreeMoves
<1> QED
  BY <1>7, <1>8

(* An open lets go of the cache. *)
LEMMA TreeFinishOpen ==
    ASSUME Counting, Tree!Inductive, NEW r \in Ops, Tree!FinishOpen(r)
    PROVE  Tree!Inductive'
<1>1. PICK d : d = Tree!Finish(v3, r)
  OBVIOUS
<1>2. /\ v8 \in [Ops -> Tree!Op] /\ v8[r] \in Tree!Op /\ Tree!StageSound(v8[r], v6) /\ v3.value \in Tree!Versions \cup {None}
      /\ Tree!HoldSound(v8[r], v3.obs[r], v3, v4, v5)
  BY TreeFacts
<1>3. v8[r].pc = "finish" /\ v8[r].kind = "open" /\ Tree!TreeStep
  BY DEF Tree!FinishOpen
<1>4. /\ v8[r].retired = None /\ v8[r].evicting = None /\ v8[r].place \in Places
      /\ (v8[r].snapshot # None => v8[r].snapshot <= v6)
      /\ (v8[r].version # None => v4[v8[r].version].content # None)
  BY <1>2, <1>3 DEF Tree!StageSound, Tree!HoldSound, Tree!Stage, Tree!Away
<1>5. TreeFollows(v3, d, r) /\ d.value = v3.value
  BY <1>1, TreeFacts, TreeCacheFollows, TreeNone
<1>6. \A s \in Tree!Snapshots : ~Tree!Dooms(v8[r], s, v4)
  BY <1>3, TreeHarmless DEF Tree!Away
<1>7. CASE v8[r].version = None
  <2>1. Tree!Becomes(d, v4, v5, [v8 EXCEPT ![r] = Tree!Idle])
    BY <1>1, <1>7 DEF Tree!FinishOpen, Tree!Goes
  <2>2. Tree!Idle \in Tree!Op /\ Tree!Idle.pc = "idle" /\ Tree!StageSound(Tree!Idle, v6) /\ Tree!HoldSound(Tree!Idle, d.obs[r], d, v4, v5)
    BY TreeIdle, TreeRest
  <2> QED
    BY <1>3, <1>5, <1>6, <2>1, <2>2, TreeMoves
<1>8. CASE v8[r].version # None
  <2>1. PICK o : o = [v8[r] EXCEPT !.pc = "snapshot"]
    OBVIOUS
  <2>2. Tree!Becomes(d, v4, v5, [v8 EXCEPT ![r] = o])
    BY <1>1, <1>2, <1>8, <2>1 DEF Tree!FinishOpen, Tree!Goes
  <2>3. /\ o \in Tree!Op /\ o.pc = "snapshot" /\ o.retired = None /\ o.version = v8[r].version /\ o.kind = "open" /\ o.place \in Places
        /\ o.snapshot = v8[r].snapshot /\ o.evicting = None
    BY <1>2, <1>3, <1>4, <2>1 DEF Tree!Op
  <2>4. Tree!StageSound(o, v6) /\ Tree!HoldSound(o, d.obs[r], d, v4, v5)
    BY <1>4, <1>8, <2>3 DEF Tree!StageSound, Tree!HoldSound, Tree!Stage, Tree!Away
  <2> QED
    BY <1>3, <1>5, <1>6, <2>2, <2>3, <2>4, TreeMoves
<1> QED
  BY <1>7, <1>8

(* The names are indexed already. *)
LEMMA TreeNamesIndexed ==
    ASSUME Counting, Tree!Inductive, NEW r \in Ops, Tree!NamesIndexed(r)
    PROVE  Tree!Inductive'
<1>1. v8[r].pc = "names" /\ Tree!TreeStep /\ Tree!Becomes(v3, v4, v5, [v8 EXCEPT ![r] = Tree!Idle])
  BY DEF Tree!NamesIndexed, Tree!Goes
<1>2. \A s \in Tree!Snapshots : ~Tree!Dooms(v8[r], s, v4)
  BY <1>1, TreeHarmless DEF Tree!Away
<1> QED
  BY <1>1, <1>2, TreeEnds

(* A snapshot is reused; that of a version no longer in the cache is         *)
(* evicted.                                                                  *)
LEMMA TreeReuse ==
    ASSUME Counting, Tree!Inductive, NEW r \in Ops, Tree!Reuse(r)
    PROVE  Tree!Inductive'
<1>1. PICK s : s = v4[v8[r].version].snapshot
  OBVIOUS
<1>2. PICK old : old = IF v3.value = v8[r].version THEN None ELSE s
  OBVIOUS
<1>3. PICK o : o = [Tree!Idle EXCEPT !.kind = "open", !.snapshot = s, !.next = "names",
                                !.pc = IF old = None THEN "names" ELSE "evict", !.evicting = old]
  OBVIOUS
<1>4. /\ v8[r].pc = "snapshot" /\ s # None /\ Tree!TreeStep /\ Tree!Becomes(v3, v4, v5, [v8 EXCEPT ![r] = o])
  BY <1>1, <1>2, <1>3 DEF Tree!Reuse, Tree!Fits, Tree!Returning
<1>5. /\ v8[r] \in Tree!Op /\ Tree!StageSound(v8[r], v6) /\ Tree!VersionsSound(v3, v4, v5, v6)
      /\ v3.value \in Tree!Versions \cup {None} /\ v4 \in [Tree!Versions -> Tree!Version]
  BY TreeFacts
<1>6. v8[r].version \in Tree!Versions
  BY <1>4, <1>5 DEF Tree!StageSound, Tree!Op
<1>7. s \in Tree!Snapshots /\ s <= v6
  BY <1>1, <1>4, <1>5, <1>6 DEF Tree!Version, Tree!VersionsSound
<1>8. /\ o \in Tree!Op /\ o.pc = (IF old = None THEN "names" ELSE "evict") /\ o.kind = "open" /\ o.snapshot = s /\ o.next = "names"
      /\ o.evicting = old /\ o.version = None /\ o.retired = None
  <2>1. CASE old = None
    BY <1>3, <1>7, <2>1 DEF Tree!Op, Tree!Idle
  <2>2. CASE old # None
    BY <1>2, <1>3, <1>7, <2>2 DEF Tree!Op, Tree!Idle
  <2> QED
    BY <2>1, <2>2
<1>9. v3.value # None /\ old # None => v4[v3.value].snapshot # old
  BY <1>1, <1>2, <1>5, <1>6 DEF Tree!VersionsSound
<1>10. Tree!StageSound(o, v6) /\ Tree!HoldSound(o, v3.obs[r], v3, v4, v5)
  BY <1>2, <1>4, <1>7, <1>8, <1>9 DEF Tree!StageSound, Tree!HoldSound, Tree!Stage, Tree!Away
<1>11. \A q \in Tree!Snapshots : ~Tree!Dooms(v8[r], q, v4)
  BY <1>4, TreeHarmless DEF Tree!Away
<1> QED
  BY <1>4, <1>8, <1>10, <1>11, TreeFacts, TreeMoves

(* The retired version's snapshot is evicted, if it has one. *)
LEMMA TreeCollect ==
    ASSUME Counting, Tree!Inductive, NEW r \in Ops, Tree!Collect(r)
    PROVE  Tree!Inductive'
<1>1. PICK s : s = v4[v8[r].retired].snapshot
  OBVIOUS
<1>2. /\ v8 \in [Ops -> Tree!Op] /\ v8[r] \in Tree!Op /\ Tree!StageSound(v8[r], v6) /\ v3.value \in Tree!Versions \cup {None}
      /\ Tree!HoldSound(v8[r], v3.obs[r], v3, v4, v5)
      /\ Tree!VersionsSound(v3, v4, v5, v6) /\ v4 \in [Tree!Versions -> Tree!Version]
  BY TreeFacts
<1>3. v8[r].pc = "collect" /\ Tree!TreeStep
  BY DEF Tree!Collect
<1>4. /\ v8[r].retired \in Tree!Versions /\ v8[r].evicting = None /\ v8[r].next \in {"idle", "finish"} /\ v8[r].retired # v3.value
      /\ (v8[r].next = "finish" => v8[r].kind = "open" /\ v8[r].place \in Places)
      /\ (v8[r].snapshot # None => v8[r].snapshot <= v6)
      /\ (v8[r].version # None => v4[v8[r].version].content # None)
  BY <1>2, <1>3 DEF Tree!StageSound, Tree!HoldSound, Tree!Op, Tree!Stage, Tree!Away
<1>5. s \in Tree!Snapshots \cup {None} /\ (s # None => s <= v6)
  BY <1>1, <1>2, <1>4 DEF Tree!Version, Tree!VersionsSound
<1>6. ASSUME NEW q \in Tree!Snapshots, Tree!Dooms(v8[r], q, v4) PROVE q = s
  BY <1>1, <1>3, <1>4, <1>6, TreeNone DEF Tree!Dooms
<1>7. CASE s = None /\ v8[r].next = "idle"
  <2>1. PICK f : f = [v8 EXCEPT ![r] = Tree!Idle]
    OBVIOUS
  <2>2. f = Tree!Goes(r, "idle") /\ f \in [Ops -> Tree!Op] /\ f[r] = Tree!Idle
    BY <1>2, <2>1, TreeIdle DEF Tree!Goes
  <2>3. [f EXCEPT ![r].retired = None, ![r].evicting = None] = [f EXCEPT ![r] = Tree!Idle]
    BY <2>2, TreeSameIdle
  <2>4. [f EXCEPT ![r] = Tree!Idle] = f
    BY <2>2
  <2>5. Tree!Becomes(v3, v4, v5, [v8 EXCEPT ![r] = Tree!Idle])
    BY <1>1, <1>7, <2>1, <2>2, <2>3, <2>4 DEF Tree!Collect
  <2> QED
    BY <1>3, <1>6, <1>7, <2>5, TreeNone, TreeEnds
<1>8. CASE s = None /\ v8[r].next = "finish"
  <2>1. PICK o : o = [v8[r] EXCEPT !.pc = "finish", !.retired = None, !.evicting = None]
    OBVIOUS
  <2>2. Tree!Becomes(v3, v4, v5, [v8 EXCEPT ![r] = o])
    BY <1>1, <1>2, <1>8, <2>1 DEF Tree!Collect, Tree!Goes
  <2>3. /\ o \in Tree!Op /\ o.pc = "finish" /\ o.retired = None /\ o.evicting = None /\ o.version = v8[r].version
        /\ o.kind = v8[r].kind /\ o.place = v8[r].place /\ o.snapshot = v8[r].snapshot
    BY <1>2, <2>1 DEF Tree!Op
  <2>4. Tree!StageSound(o, v6) /\ Tree!HoldSound(o, v3.obs[r], v3, v4, v5)
    BY <1>4, <1>8, <2>3 DEF Tree!StageSound, Tree!HoldSound, Tree!Stage, Tree!Away
  <2> QED
    BY <1>3, <1>6, <1>8, <2>2, <2>3, <2>4, TreeNone, TreeFacts, TreeMoves
<1>9. CASE s # None
  <2>1. PICK o : o = [v8[r] EXCEPT !.pc = "evict", !.retired = None, !.evicting = s]
    OBVIOUS
  <2>2. Tree!Becomes(v3, v4, v5, [v8 EXCEPT ![r] = o])
    BY <1>1, <1>2, <1>9, <2>1 DEF Tree!Collect, Tree!Goes
  <2>3. /\ o \in Tree!Op /\ o.pc = "evict" /\ o.retired = None /\ o.evicting = s /\ o.version = v8[r].version
        /\ o.kind = v8[r].kind /\ o.place = v8[r].place /\ o.snapshot = v8[r].snapshot /\ o.next = v8[r].next
    BY <1>2, <1>5, <2>1 DEF Tree!Op
  <2>4. v3.value # None => v4[v3.value].snapshot # s
    BY <1>1, <1>2, <1>4, <1>9 DEF Tree!VersionsSound
  <2>5. Tree!StageSound(o, v6)
    BY <1>4, <1>5, <1>9, <2>3 DEF Tree!StageSound, Tree!Stage, Tree!Away
  <2>6. Tree!HoldSound(o, v3.obs[r], v3, v4, v5)
    BY <1>4, <2>3, <2>4 DEF Tree!HoldSound
  <2>7. \A q \in Tree!Snapshots : Tree!Dooms(v8[r], q, v4) => Tree!Dooms(o, q, v4)
    BY <1>6, <2>3 DEF Tree!Dooms
  <2> QED
    BY <1>3, <2>2, <2>3, <2>5, <2>6, <2>7, TreeFacts, TreeMoves
<1> QED
  BY <1>4, <1>7, <1>8, <1>9

(* All cleanups have run. *)
LEMMA TreeCleaned ==
    ASSUME Tree!Inductive, NEW r \in Ops, Tree!Cleaned(r)
    PROVE  Tree!Inductive'
<1>1. /\ v8 \in [Ops -> Tree!Op] /\ v8[r] \in Tree!Op /\ Tree!StageSound(v8[r], v6)
      /\ Tree!HoldSound(v8[r], v3.obs[r], v3, v4, v5) /\ Tree!PublishSound(r, v5, v8)
  BY TreeFacts
<1>2. v8[r].pc = "clean" /\ v8[r].cleaning = {} /\ Tree!TreeStep
  BY DEF Tree!Cleaned
<1>3. /\ v8[r].retired = None /\ v8[r].evicting \in Tree!Snapshots /\ v8[r].next \in {"idle", "finish", "names", "publish"}
      /\ (v8[r].next = "finish" => v8[r].kind = "open" /\ v8[r].place \in Places)
      /\ (v8[r].next \in {"names", "publish"} => v8[r].snapshot # None)
      /\ (v8[r].snapshot # None => v8[r].snapshot <= v6)
      /\ (v8[r].version # None => v4[v8[r].version].content # None)
      /\ ~v5[v8[r].evicting].cacheable
  BY <1>1, <1>2 DEF Tree!StageSound, Tree!HoldSound, Tree!Op, Tree!Stage, Tree!Away
<1>4. v8[r].next = "publish" => v8[r].evicted
  BY <1>1, <1>2 DEF Tree!PublishSound
<1>5. ASSUME NEW q \in Tree!Snapshots, Tree!Dooms(v8[r], q, v4) PROVE ~v5[q].cacheable
  BY <1>2, <1>3, <1>5 DEF Tree!Dooms
<1>6. CASE v8[r].next = "idle"
  <2>1. PICK f : f = [v8 EXCEPT ![r] = Tree!Idle]
    OBVIOUS
  <2>2. f = Tree!Goes(r, "idle") /\ f \in [Ops -> Tree!Op] /\ f[r] = Tree!Idle
    BY <1>1, <2>1, TreeIdle DEF Tree!Goes
  <2>3. [f EXCEPT ![r].evicting = None] = [f EXCEPT ![r] = Tree!Idle]
    BY <2>2, TreeSameIdle
  <2>4. [f EXCEPT ![r] = Tree!Idle] = f
    BY <2>2
  <2>5. Tree!Becomes(v3, v4, v5, [v8 EXCEPT ![r] = Tree!Idle])
    BY <1>6, <2>1, <2>2, <2>3, <2>4 DEF Tree!Cleaned
  <2> QED
    BY <1>2, <1>5, <2>5, TreeEnds
<1>7. CASE v8[r].next # "idle"
  <2>1. PICK o : o = [v8[r] EXCEPT !.pc = v8[r].next, !.evicting = None]
    OBVIOUS
  <2>2. Tree!Becomes(v3, v4, v5, [v8 EXCEPT ![r] = o])
    BY <1>1, <1>7, <2>1 DEF Tree!Cleaned, Tree!Goes
  <2>3. v8[r].next \in {"finish", "names", "publish"}
    BY <1>3, <1>7
  <2>4. /\ o \in Tree!Op /\ o.pc = v8[r].next /\ o.retired = v8[r].retired /\ o.evicting = None /\ o.version = v8[r].version
        /\ o.kind = v8[r].kind /\ o.place = v8[r].place /\ o.snapshot = v8[r].snapshot /\ o.evicted = v8[r].evicted
    BY <1>1, <2>1, <2>3 DEF Tree!Op
  <2>5. Tree!StageSound(o, v6)
    BY <1>3, <2>3, <2>4 DEF Tree!StageSound, Tree!Stage, Tree!Away
  <2>6. Tree!HoldSound(o, v3.obs[r], v3, v4, v5)
    BY <1>3, <2>3, <2>4 DEF Tree!HoldSound
  <2>7. o.pc \notin {"clean", "drop"} /\ (o.pc = "publish" => o.evicted)
    BY <1>4, <2>3, <2>4
  <2> QED
    BY <1>2, <1>5, <2>2, <2>4, <2>5, <2>6, <2>7, TreeFacts, TreeMoves
<1> QED
  BY <1>6, <1>7

(* The server asks to be told of the eviction of a snapshot that was         *)
(* evicted, and is told at once.                                             *)
LEMMA TreeSubscribeLate ==
    ASSUME Counting, Tree!Inductive, NEW r \in Ops, Tree!Subscribe(r), ~v5[v8[r].snapshot].cacheable
    PROVE  Tree!Inductive'
<1>1. /\ v8 \in [Ops -> Tree!Op] /\ v8[r] \in Tree!Op /\ Tree!StageSound(v8[r], v6)
      /\ Tree!HoldSound(v8[r], v3.obs[r], v3, v4, v5)
  BY TreeFacts
<1>2. PICK o : o = [v8[r] EXCEPT !.pc = "clean", !.cleaning = {r}, !.evicting = v8[r].snapshot, !.next = "publish"]
  OBVIOUS
<1>3. v8[r].pc = "names" /\ Tree!TreeStep /\ Tree!Becomes(v3, v4, v5, [v8 EXCEPT ![r] = o])
  BY <1>1, <1>2 DEF Tree!Subscribe
<1>4. /\ v8[r].retired = None /\ v8[r].snapshot \in Tree!Snapshots /\ v8[r].snapshot <= v6
      /\ (v8[r].version # None => v4[v8[r].version].content # None)
  BY <1>1, <1>3 DEF Tree!StageSound, Tree!HoldSound, Tree!Op, Tree!Stage, Tree!Away
<1>5. /\ o \in Tree!Op /\ o.pc = "clean" /\ o.cleaning = {r} /\ o.evicting = v8[r].snapshot /\ o.next = "publish"
      /\ o.retired = v8[r].retired /\ o.version = v8[r].version /\ o.snapshot = v8[r].snapshot
  <2>1. PICK k \in SUBSET (Ops \cup {None}) : k = {r}
    OBVIOUS
  <2>2. PICK e \in Tree!Snapshots \cup {None} : e = v8[r].snapshot
    BY <1>4
  <2>3. o = [v8[r] EXCEPT !.pc = "clean", !.cleaning = k, !.evicting = e, !.next = "publish"]
    BY <1>2, <2>1, <2>2
  <2>4. /\ o \in Tree!Op /\ o.pc = "clean" /\ o.cleaning = k /\ o.evicting = e /\ o.next = "publish"
        /\ o.retired = v8[r].retired /\ o.version = v8[r].version /\ o.snapshot = v8[r].snapshot
    BY <1>1, <2>3 DEF Tree!Op
  <2> QED
    BY <2>1, <2>2, <2>4
<1>6. Tree!StageSound(o, v6)
  BY <1>4, <1>5, TreeNone DEF Tree!StageSound, Tree!Stage, Tree!Away
<1>7. Tree!HoldSound(o, v3.obs[r], v3, v4, v5)
  BY <1>4, <1>5 DEF Tree!HoldSound
<1>8. \A q \in Tree!Snapshots : ~Tree!Dooms(v8[r], q, v4)
  BY <1>3, TreeHarmless DEF Tree!Away
<1> QED
  BY <1>3, <1>5, <1>6, <1>7, <1>8, TreeFacts, TreeMoves

(* The snapshot is evicted, and its cleanups are taken. *)
LEMMA TreeEvict ==
    ASSUME Tree!Inductive, NEW r \in Ops, Tree!Evict(r)
    PROVE  Tree!Inductive'
<1>1. PICK s : s = v8[r].evicting
  OBVIOUS
<1>2. PICK o : o = [v8[r] EXCEPT !.pc = "clean", !.cleaning = v5[s].cleanups]
  OBVIOUS
<1>3. PICK ops : ops = [v8 EXCEPT ![r] = o]
  OBVIOUS
<1>4. PICK ss : ss = [v5 EXCEPT ![s].cacheable = FALSE, ![s].cleanups = {}]
  OBVIOUS
<1>5. /\ v3 \in Tree!Caches(Tree!Versions) /\ v4 \in [Tree!Versions -> Tree!Version] /\ v5 \in [Tree!Snapshots -> Tree!Snapshot]
      /\ v8 \in [Ops -> Tree!Op] /\ v6 \in 0 .. MaxSnapshots /\ v7 \in Tree!Snapshots \cup {None} /\ v8[r] \in Tree!Op
      /\ v3.value \in Tree!Versions \cup {None}
      /\ Tree!StageSound(v8[r], v6) /\ Tree!HoldSound(v8[r], v3.obs[r], v3, v4, v5)
      /\ Tree!VersionsSound(v3, v4, v5, v6)
  BY TreeFacts
<1>6. v8[r].pc = "evict" /\ Tree!TreeStep /\ Tree!Becomes(v3, v4, ss, ops)
  BY <1>1, <1>2, <1>3, <1>4, <1>5 DEF Tree!Evict
<1>7. /\ s \in Tree!Snapshots /\ v8[r].retired = None /\ v8[r].next # "publish"
      /\ (v3.value # None => v4[v3.value].snapshot # s)
  BY <1>1, <1>5, <1>6 DEF Tree!StageSound, Tree!HoldSound, Tree!Op
<1>8. /\ ss \in [Tree!Snapshots -> Tree!Snapshot] /\ ~ss[s].cacheable /\ ss[s].place = v5[s].place
      /\ \A x \in Tree!Snapshots : x # s => ss[x] = v5[x]
  <2>1. v5[s] \in Tree!Snapshot
    BY <1>5, <1>7
  <2>2. PICK e : e = [v5[s] EXCEPT !.cacheable = FALSE, !.cleanups = {}]
    OBVIOUS
  <2>3. e \in Tree!Snapshot /\ ~e.cacheable /\ e.place = v5[s].place
    BY <2>1, <2>2 DEF Tree!Snapshot
  <2>4. ss = [v5 EXCEPT ![s] = e]
    BY <1>4, <1>5, <1>7, <2>2
  <2> QED
    BY <1>5, <1>7, <2>3, <2>4
<1>9. /\ o \in Tree!Op /\ o.pc = "clean" /\ o.cleaning = v5[s].cleanups /\ o.evicting = s /\ o.next = v8[r].next
      /\ o.retired = v8[r].retired /\ o.version = v8[r].version /\ o.snapshot = v8[r].snapshot
      /\ o.kind = v8[r].kind /\ o.place = v8[r].place
  <2>1. v5[s].cleanups \in SUBSET (Ops \cup {None})
    BY <1>5, <1>7 DEF Tree!Snapshot
  <2> QED
    BY <1>1, <1>2, <1>5, <2>1 DEF Tree!Op
<1>10. ops \in [Ops -> Tree!Op] /\ ops[r] = o /\ \A q \in Ops \ {r} : ops[q] = v8[q]
  BY <1>3, <1>5, <1>9
<1>11. ASSUME NEW q \in Ops
       PROVE  /\ Tree!StageSound(ops[q], v6) /\ Tree!HoldSound(ops[q], v3.obs[q], v3, v4, ss)
              /\ Tree!PublishSound(q, ss, ops)
  <2>1. CASE q = r
    <3>1. Tree!StageSound(o, v6)
      BY <1>1, <1>5, <1>6, <1>7, <1>9 DEF Tree!StageSound, Tree!Stage, Tree!Away
    <3>2. Tree!HoldSound(o, v3.obs[q], v3, v4, ss)
      BY <1>5, <1>7, <1>8, <1>9 DEF Tree!HoldSound
    <3>3. Tree!PublishSound(q, ss, ops)
      BY <1>7, <1>9, <1>10, <2>1 DEF Tree!PublishSound
    <3> QED
      BY <1>10, <2>1, <3>1, <3>2, <3>3
  <2>2. CASE q # r
    <3>1. /\ Tree!StageSound(v8[q], v6) /\ Tree!HoldSound(v8[q], v3.obs[q], v3, v4, v5)
          /\ Tree!PublishSound(q, v5, v8) /\ v8[q] \in Tree!Op /\ ops[q] = v8[q]
      BY <1>10, <2>2, TreeFacts
    <3>2. v8[q].pc \in {"clean", "drop"} => v8[q].evicting \in Tree!Snapshots
      BY <3>1 DEF Tree!StageSound, Tree!Op
    <3>3. Tree!HoldSound(v8[q], v3.obs[q], v3, v4, ss)
      BY <1>8, <3>1, <3>2 DEF Tree!HoldSound
    <3>4. v8[q].pc = "publish" => v8[q].snapshot \in Tree!Snapshots
      BY <3>1 DEF Tree!StageSound, Tree!Op, Tree!Stage, Tree!Away
    <3>5. ASSUME v8[q].pc = "publish", ~v8[q].evicted
          PROVE  \/ ss[v8[q].snapshot].cacheable /\ q \in ss[v8[q].snapshot].cleanups
                 \/ \E w \in Ops : Tree!Tells(ops[w], v8[q].snapshot, q)
      <4>1. CASE v5[v8[q].snapshot].cacheable /\ q \in v5[v8[q].snapshot].cleanups
        <5>1. CASE v8[q].snapshot = s
          BY <1>9, <1>10, <4>1, <5>1 DEF Tree!Tells
        <5>2. CASE v8[q].snapshot # s
          BY <1>8, <3>4, <3>5, <4>1, <5>2
        <5> QED
          BY <5>1, <5>2
      <4>2. ASSUME NEW w \in Ops, Tree!Tells(v8[w], v8[q].snapshot, q) PROVE Tree!Tells(ops[w], v8[q].snapshot, q)
        BY <1>6, <1>10, <4>2 DEF Tree!Tells
      <4> QED
        BY <3>1, <3>5, <4>1, <4>2 DEF Tree!PublishSound
    <3>6. Tree!PublishSound(q, ss, ops)
      BY <3>1, <3>5 DEF Tree!PublishSound
    <3> QED
      BY <3>1, <3>3, <3>6
  <2> QED
    BY <2>1, <2>2
<1>12. Tree!VersionsSound(v3, v4, ss, v6)
  <2>1. \A v \in Tree!Versions : v4[v].snapshot \in Tree!Snapshots \cup {None}
    BY <1>5 DEF Tree!Version
  <2> QED
    BY <1>5, <1>7, <1>8, <2>1 DEF Tree!VersionsSound
<1>13. Tree!SnapshotsSound(v3, v4, ss, ops, v6)
  <2> SUFFICES ASSUME NEW x \in Tree!Snapshots, ss[x].cacheable
               PROVE  /\ x <= v6
                      /\ \/ v3.value # None /\ v4[v3.value].snapshot = x
                         \/ \E q \in Ops : Tree!Dooms(ops[q], x, v4)
    BY DEF Tree!SnapshotsSound
  <2>1. x # s /\ v5[x].cacheable
    BY <1>8
  <2>2. /\ x <= v6
        /\ \/ v3.value # None /\ v4[v3.value].snapshot = x
           \/ \E q \in Ops : Tree!Dooms(v8[q], x, v4)
    BY <2>1 DEF Tree!Inductive, Tree!Sound, Tree!SnapshotsSound
  <2>3. ~Tree!Dooms(v8[r], x, v4)
    BY <1>1, <1>6, <1>7, <2>1 DEF Tree!Dooms
  <2> QED
    BY <1>10, <2>2, <2>3
<1>14. Tree!IndexSound(ss, ops, v6, v7)
  <2> SUFFICES ASSUME v7 # None
               PROVE  /\ v7 <= v6
                      /\ \/ ss[v7].cacheable /\ ss[v7].cleanups # {}
                         \/ \E q \in Ops : ops[q].evicting = v7
                                /\ (ops[q].pc = "drop" \/ (ops[q].pc = "clean" /\ ops[q].cleaning # {}))
    BY DEF Tree!IndexSound
  <2>1. /\ v7 <= v6
        /\ \/ v5[v7].cacheable /\ v5[v7].cleanups # {}
           \/ \E q \in Ops : v8[q].evicting = v7
                  /\ (v8[q].pc = "drop" \/ (v8[q].pc = "clean" /\ v8[q].cleaning # {}))
    BY DEF Tree!Inductive, Tree!Sound, Tree!IndexSound
  <2>2. CASE v5[v7].cacheable /\ v5[v7].cleanups # {}
    BY <1>5, <1>8, <1>9, <1>10, <2>1, <2>2
  <2>3. ASSUME NEW q \in Ops, v8[q].pc = "drop" \/ (v8[q].pc = "clean" /\ v8[q].cleaning # {}) PROVE ops[q] = v8[q]
    BY <1>6, <1>10, <2>3
  <2> QED
    BY <2>1, <2>2, <2>3
<1>15. Tree!Sound(v3, v4, ss, ops, v6, v7)
  BY <1>5, <1>8, <1>10, <1>11, <1>12, <1>13, <1>14 DEF Tree!Sound, Tree!StateOK
<1> QED
  BY <1>6, <1>15, TreeCollected DEF Tree!TreeStep

(* A cleanup tells its read. *)
LEMMA TreeClean ==
    ASSUME Tree!Inductive, NEW r \in Ops, NEW t \in Ops \cup {None}, Tree!Clean(r, t)
    PROVE  Tree!Inductive'
<1>1. PICK ops : ops = [w \in Ops |->
                          IF w = r THEN [v8[r] EXCEPT !.pc = "drop", !.cleaning = @ \ {t}, !.evicted = @ \/ t = r]
                          ELSE [v8[w] EXCEPT !.evicted = @ \/ t = w]]
  OBVIOUS
<1>2. v8[r].pc = "clean" /\ t \in v8[r].cleaning /\ Tree!TreeStep /\ Tree!Becomes(v3, v4, v5, ops)
  BY <1>1 DEF Tree!Clean
<1>3. /\ v3 \in Tree!Caches(Tree!Versions) /\ v4 \in [Tree!Versions -> Tree!Version] /\ v5 \in [Tree!Snapshots -> Tree!Snapshot]
      /\ v8 \in [Ops -> Tree!Op] /\ v6 \in 0 .. MaxSnapshots /\ v7 \in Tree!Snapshots \cup {None} /\ v8[r] \in Tree!Op
      /\ Tree!VersionsSound(v3, v4, v5, v6)
  BY TreeFacts
<1>4. ASSUME NEW w \in Ops
      PROVE  /\ ops[w] \in Tree!Op /\ ops[w].kind = v8[w].kind /\ ops[w].place = v8[w].place /\ ops[w].view = v8[w].view
             /\ ops[w].version = v8[w].version /\ ops[w].snapshot = v8[w].snapshot /\ ops[w].retired = v8[w].retired
             /\ ops[w].evicting = v8[w].evicting /\ ops[w].next = v8[w].next
             /\ (ops[w].evicted <=> v8[w].evicted \/ t = w)
             /\ (w # r => ops[w].pc = v8[w].pc /\ ops[w].cleaning = v8[w].cleaning)
             /\ (w = r => ops[w].pc = "drop" /\ ops[w].cleaning = v8[w].cleaning \ {t})
  <2>1. v8[w] \in Tree!Op
    BY <1>3
  <2>2. PICK e \in BOOLEAN : e = (v8[w].evicted \/ t = w)
    OBVIOUS
  <2>3. CASE w # r
    <3>1. ops[w] = [v8[w] EXCEPT !.evicted = e]
      BY <1>1, <2>2, <2>3
    <3> QED
      BY <2>1, <2>2, <2>3, <3>1 DEF Tree!Op
  <2>4. CASE w = r
    <3>1. PICK k : k = v8[w].cleaning \ {t}
      OBVIOUS
    <3>2. k \in SUBSET (Ops \cup {None})
      <4>1. v8[w].cleaning \in SUBSET (Ops \cup {None})
        BY <2>1 DEF Tree!Op
      <4> QED
        BY <3>1, <4>1
    <3>3. ops[w] = [v8[w] EXCEPT !.pc = "drop", !.cleaning = k, !.evicted = e]
      BY <1>1, <2>2, <2>4, <3>1
    <3>4. /\ ops[w] \in Tree!Op /\ ops[w].kind = v8[w].kind /\ ops[w].place = v8[w].place /\ ops[w].view = v8[w].view
          /\ ops[w].version = v8[w].version /\ ops[w].snapshot = v8[w].snapshot /\ ops[w].retired = v8[w].retired
          /\ ops[w].evicting = v8[w].evicting /\ ops[w].next = v8[w].next /\ ops[w].evicted = e
          /\ ops[w].pc = "drop" /\ ops[w].cleaning = k
      BY <2>1, <3>2, <3>3 DEF Tree!Op
    <3> QED
      BY <2>2, <2>4, <3>1, <3>4
  <2> QED
    BY <2>3, <2>4
<1>5. ops \in [Ops -> Tree!Op]
  BY <1>1, <1>4
<1>6. ASSUME NEW q \in Ops
      PROVE  /\ Tree!StageSound(ops[q], v6) /\ Tree!HoldSound(ops[q], v3.obs[q], v3, v4, v5)
             /\ Tree!PublishSound(q, v5, ops)
  <2>1. /\ Tree!StageSound(v8[q], v6) /\ Tree!HoldSound(v8[q], v3.obs[q], v3, v4, v5)
        /\ Tree!PublishSound(q, v5, v8)
    BY TreeFacts
  <2>2. Tree!StageSound(ops[q], v6)
    <3>1. CASE q = r
      BY <1>2, <1>4, <2>1, <3>1 DEF Tree!StageSound, Tree!Stage, Tree!Away
    <3>2. CASE q # r
      <4>1. Tree!Stage(ops[q]) = Tree!Stage(v8[q])
        BY <1>4, <3>2 DEF Tree!Stage
      <4> QED
        BY <1>4, <2>1, <3>2, <4>1 DEF Tree!StageSound
    <3> QED
      BY <3>1, <3>2
  <2>3. Tree!HoldSound(ops[q], v3.obs[q], v3, v4, v5)
    <3>1. CASE q = r
      BY <1>2, <1>4, <2>1, <3>1 DEF Tree!HoldSound
    <3>2. CASE q # r
      BY <1>4, <2>1, <3>2 DEF Tree!HoldSound
    <3> QED
      BY <3>1, <3>2
  <2>4. ops[q].pc \in {"clean", "drop"} /\ ops[q].next = "publish" => ops[q].evicted \/ q \in ops[q].cleaning
    <3>1. ops[q].pc \in {"clean", "drop"} => v8[q].pc \in {"clean", "drop"}
      BY <1>2, <1>4
    <3> QED
      BY <1>4, <2>1, <3>1 DEF Tree!PublishSound
  <2>5. ASSUME ops[q].pc = "publish", ~ops[q].evicted
        PROVE  \/ v5[ops[q].snapshot].cacheable /\ q \in v5[ops[q].snapshot].cleanups
               \/ \E w \in Ops : Tree!Tells(ops[w], ops[q].snapshot, q)
    <3>1. q # r /\ v8[q].pc = "publish" /\ ~v8[q].evicted /\ t # q /\ ops[q].snapshot = v8[q].snapshot
      BY <1>4, <2>5
    <3>2. ASSUME NEW w \in Ops, Tree!Tells(v8[w], v8[q].snapshot, q) PROVE Tree!Tells(ops[w], v8[q].snapshot, q)
      <4>1. q \in ops[w].cleaning /\ ops[w].pc \in {"clean", "drop"} /\ ops[w].evicting = v8[q].snapshot
        BY <1>4, <3>1, <3>2 DEF Tree!Tells
      <4> QED
        BY <4>1 DEF Tree!Tells
    <3> QED
      BY <2>1, <3>1, <3>2 DEF Tree!PublishSound
  <2> QED
    BY <2>2, <2>3, <2>4, <2>5 DEF Tree!PublishSound
<1>7. Tree!SnapshotsSound(v3, v4, v5, ops, v6)
  <2>1. ASSUME NEW w \in Ops, NEW x, Tree!Dooms(v8[w], x, v4) PROVE Tree!Dooms(ops[w], x, v4)
    BY <1>2, <1>4, <2>1 DEF Tree!Dooms
  <2> QED
    BY <2>1 DEF Tree!Inductive, Tree!Sound, Tree!SnapshotsSound
<1>8. Tree!IndexSound(v5, ops, v6, v7)
  <2> SUFFICES ASSUME v7 # None
               PROVE  /\ v7 <= v6
                      /\ \/ v5[v7].cacheable /\ v5[v7].cleanups # {}
                         \/ \E q \in Ops : ops[q].evicting = v7
                                /\ (ops[q].pc = "drop" \/ (ops[q].pc = "clean" /\ ops[q].cleaning # {}))
    BY DEF Tree!IndexSound
  <2>1. /\ v7 <= v6
        /\ \/ v5[v7].cacheable /\ v5[v7].cleanups # {}
           \/ \E q \in Ops : v8[q].evicting = v7
                  /\ (v8[q].pc = "drop" \/ (v8[q].pc = "clean" /\ v8[q].cleaning # {}))
    BY DEF Tree!Inductive, Tree!Sound, Tree!IndexSound
  <2>2. ASSUME NEW q \in Ops, v8[q].pc = "drop" \/ (v8[q].pc = "clean" /\ v8[q].cleaning # {})
        PROVE  ops[q].evicting = v8[q].evicting /\ (ops[q].pc = "drop" \/ (ops[q].pc = "clean" /\ ops[q].cleaning # {}))
    BY <1>4, <2>2
  <2> QED
    BY <2>1, <2>2
<1>9. Tree!Sound(v3, v4, v5, ops, v6, v7)
  BY <1>3, <1>5, <1>6, <1>7, <1>8 DEF Tree!Sound, Tree!StateOK
<1> QED
  BY <1>2, <1>9, TreeCollected DEF Tree!TreeStep

(* A cleanup drops the index of the snapshot. *)
LEMMA TreeDrop ==
    ASSUME Tree!Inductive, NEW r \in Ops, Tree!Drop(r)
    PROVE  Tree!Inductive'
<1>1. PICK o : o = [v8[r] EXCEPT !.pc = "clean"]
  OBVIOUS
<1>2. PICK ops : ops = [v8 EXCEPT ![r] = o]
  OBVIOUS
<1>3. PICK i : i = IF v7 = v8[r].evicting THEN None ELSE v7
  OBVIOUS
<1>4. v8[r].pc = "drop" /\ v6' = v6 /\ v7' = i /\ Tree!Becomes(v3, v4, v5, ops)
  BY <1>1, <1>2, <1>3 DEF Tree!Drop, Tree!Goes
<1>5. /\ v3 \in Tree!Caches(Tree!Versions) /\ v4 \in [Tree!Versions -> Tree!Version] /\ v5 \in [Tree!Snapshots -> Tree!Snapshot]
      /\ v8 \in [Ops -> Tree!Op] /\ v6 \in 0 .. MaxSnapshots /\ v7 \in Tree!Snapshots \cup {None} /\ v8[r] \in Tree!Op
      /\ Tree!VersionsSound(v3, v4, v5, v6)
  BY TreeFacts
<1>6. /\ o \in Tree!Op /\ o.pc = "clean" /\ o.kind = v8[r].kind /\ o.place = v8[r].place /\ o.version = v8[r].version
      /\ o.snapshot = v8[r].snapshot /\ o.retired = v8[r].retired /\ o.evicting = v8[r].evicting
      /\ o.next = v8[r].next /\ o.evicted = v8[r].evicted /\ o.cleaning = v8[r].cleaning
  BY <1>1, <1>5 DEF Tree!Op
<1>7. ops \in [Ops -> Tree!Op] /\ ops[r] = o /\ \A q \in Ops \ {r} : ops[q] = v8[q]
  BY <1>2, <1>5, <1>6
<1>8. ASSUME NEW w \in Ops, NEW s, NEW q, Tree!Tells(v8[w], s, q) PROVE Tree!Tells(ops[w], s, q)
  <2>1. CASE w = r
    BY <1>6, <1>7, <1>8, <2>1 DEF Tree!Tells
  <2>2. CASE w # r
    BY <1>7, <1>8, <2>2
  <2> QED
    BY <2>1, <2>2
<1>9. ASSUME NEW q \in Ops
      PROVE  /\ Tree!StageSound(ops[q], v6) /\ Tree!HoldSound(ops[q], v3.obs[q], v3, v4, v5)
             /\ Tree!PublishSound(q, v5, ops)
  <2>1. /\ Tree!StageSound(v8[q], v6) /\ Tree!HoldSound(v8[q], v3.obs[q], v3, v4, v5)
        /\ Tree!PublishSound(q, v5, v8)
    BY TreeFacts
  <2>2. CASE q = r
    <3>1. Tree!StageSound(o, v6)
      BY <1>4, <1>6, <2>1, <2>2 DEF Tree!StageSound, Tree!Stage, Tree!Away
    <3>2. Tree!HoldSound(o, v3.obs[q], v3, v4, v5)
      BY <1>4, <1>6, <2>1, <2>2 DEF Tree!HoldSound
    <3>3. Tree!PublishSound(q, v5, ops)
      BY <1>4, <1>6, <1>7, <2>1, <2>2 DEF Tree!PublishSound
    <3> QED
      BY <1>7, <2>2, <3>1, <3>2, <3>3
  <2>3. CASE q # r
    <3>1. ops[q] = v8[q]
      BY <1>7, <2>3
    <3>2. Tree!PublishSound(q, v5, ops)
      BY <1>8, <2>1, <3>1 DEF Tree!PublishSound
    <3> QED
      BY <2>1, <3>1, <3>2
  <2> QED
    BY <2>2, <2>3
<1>10. Tree!SnapshotsSound(v3, v4, v5, ops, v6)
  <2>1. ASSUME NEW w \in Ops, NEW x, Tree!Dooms(v8[w], x, v4) PROVE Tree!Dooms(ops[w], x, v4)
    BY <1>4, <1>6, <1>7, <2>1 DEF Tree!Dooms
  <2> QED
    BY <2>1 DEF Tree!Inductive, Tree!Sound, Tree!SnapshotsSound
<1>11. Tree!IndexSound(v5, ops, v6, i)
  <2> SUFFICES ASSUME i # None
               PROVE  /\ i <= v6
                      /\ \/ v5[i].cacheable /\ v5[i].cleanups # {}
                         \/ \E q \in Ops : ops[q].evicting = i
                                /\ (ops[q].pc = "drop" \/ (ops[q].pc = "clean" /\ ops[q].cleaning # {}))
    BY DEF Tree!IndexSound
  <2>1. i = v7 /\ v8[r].evicting # i
    BY <1>3
  <2>2. /\ i <= v6
        /\ \/ v5[i].cacheable /\ v5[i].cleanups # {}
           \/ \E q \in Ops : v8[q].evicting = i
                  /\ (v8[q].pc = "drop" \/ (v8[q].pc = "clean" /\ v8[q].cleaning # {}))
    BY <2>1 DEF Tree!Inductive, Tree!Sound, Tree!IndexSound
  <2>3. ASSUME NEW q \in Ops, v8[q].evicting = i PROVE ops[q] = v8[q]
    BY <1>7, <2>1, <2>3
  <2> QED
    BY <2>2, <2>3
<1>12. Tree!Sound(v3, v4, v5, ops, v6, i)
  BY <1>3, <1>5, <1>7, <1>9, <1>10, <1>11 DEF Tree!Sound, Tree!StateOK
<1> QED
  BY <1>4, <1>12, TreeCollected

(* The server asks to be told of the eviction of a snapshot. *)
LEMMA TreeSubscribe ==
    ASSUME Counting, Tree!Inductive, NEW r \in Ops, Tree!Subscribe(r)
    PROVE  Tree!Inductive'
<1>1. CASE ~v5[v8[r].snapshot].cacheable
  BY <1>1, TreeSubscribeLate
<1>2. CASE v5[v8[r].snapshot].cacheable
  <2>1. PICK s : s = v8[r].snapshot
    OBVIOUS
  <2>2. PICK o : o = [v8[r] EXCEPT !.pc = "publish"]
    OBVIOUS
  <2>3. PICK ops : ops = [v8 EXCEPT ![r] = o]
    OBVIOUS
  <2>4. PICK ss : ss = [v5 EXCEPT ![s].cleanups = @ \cup {r}]
    OBVIOUS
  <2>5. /\ v3 \in Tree!Caches(Tree!Versions) /\ v4 \in [Tree!Versions -> Tree!Version] /\ v5 \in [Tree!Snapshots -> Tree!Snapshot]
        /\ v8 \in [Ops -> Tree!Op] /\ v6 \in 0 .. MaxSnapshots /\ v7 \in Tree!Snapshots \cup {None} /\ v8[r] \in Tree!Op
        /\ v3.value \in Tree!Versions \cup {None}
        /\ Tree!StageSound(v8[r], v6) /\ Tree!HoldSound(v8[r], v3.obs[r], v3, v4, v5)
        /\ Tree!VersionsSound(v3, v4, v5, v6)
    BY TreeFacts
  <2>6. v8[r].pc = "names" /\ Tree!TreeStep /\ Tree!Becomes(v3, v4, ss, ops)
    BY <1>2, <2>1, <2>2, <2>3, <2>4, <2>5 DEF Tree!Subscribe, Tree!Goes
  <2>7. s \in Tree!Snapshots
    BY <2>1, <2>5, <2>6 DEF Tree!StageSound, Tree!Op, Tree!Stage, Tree!Away
  <2>8. /\ ss \in [Tree!Snapshots -> Tree!Snapshot] /\ r \in ss[s].cleanups
        /\ \A x \in Tree!Snapshots : /\ ss[x].cacheable = v5[x].cacheable /\ ss[x].place = v5[x].place
                                     /\ v5[x].cleanups \subseteq ss[x].cleanups
    <3>1. v5[s] \in Tree!Snapshot
      BY <2>5, <2>7
    <3>2. PICK k \in SUBSET (Ops \cup {None}) : k = v5[s].cleanups \cup {r}
      BY <3>1 DEF Tree!Snapshot
    <3>3. PICK e : e = [v5[s] EXCEPT !.cleanups = k]
      OBVIOUS
    <3>4. e \in Tree!Snapshot /\ e.cacheable = v5[s].cacheable /\ e.place = v5[s].place /\ e.cleanups = k
      BY <3>1, <3>3 DEF Tree!Snapshot
    <3>5. ss = [v5 EXCEPT ![s] = e]
      BY <2>4, <2>5, <2>7, <3>2, <3>3
    <3> QED
      BY <2>5, <2>7, <3>2, <3>4, <3>5
  <2>9. /\ o \in Tree!Op /\ o.pc = "publish" /\ o.snapshot = s /\ o.retired = v8[r].retired /\ o.version = v8[r].version
        /\ o.evicting = v8[r].evicting
    BY <2>1, <2>2, <2>5 DEF Tree!Op
  <2>10. ops \in [Ops -> Tree!Op] /\ ops[r] = o /\ \A q \in Ops \ {r} : ops[q] = v8[q]
    BY <2>3, <2>5, <2>9
  <2>11. ASSUME NEW w \in Ops, NEW x, NEW q, Tree!Tells(v8[w], x, q) PROVE Tree!Tells(ops[w], x, q)
    BY <2>6, <2>10, <2>11 DEF Tree!Tells
  <2>12. ASSUME NEW q \in Ops
         PROVE  /\ Tree!StageSound(ops[q], v6) /\ Tree!HoldSound(ops[q], v3.obs[q], v3, v4, ss)
                /\ Tree!PublishSound(q, ss, ops)
    <3>1. CASE q = r
      <4>1. Tree!StageSound(o, v6)
        BY <2>1, <2>5, <2>6, <2>9 DEF Tree!StageSound, Tree!Stage, Tree!Away
      <4>2. Tree!HoldSound(o, v3.obs[q], v3, v4, ss)
        BY <2>5, <2>6, <2>9 DEF Tree!HoldSound, Tree!StageSound
      <4>3. Tree!PublishSound(q, ss, ops)
        BY <1>2, <2>1, <2>7, <2>8, <2>9, <2>10, <3>1 DEF Tree!PublishSound
      <4> QED
        BY <2>10, <3>1, <4>1, <4>2, <4>3
    <3>2. CASE q # r
      <4>1. /\ Tree!StageSound(v8[q], v6) /\ Tree!HoldSound(v8[q], v3.obs[q], v3, v4, v5)
            /\ Tree!PublishSound(q, v5, v8) /\ v8[q] \in Tree!Op /\ ops[q] = v8[q]
        BY <2>10, <3>2, TreeFacts
      <4>2. v8[q].pc \in {"clean", "drop"} => v8[q].evicting \in Tree!Snapshots
        BY <4>1 DEF Tree!StageSound, Tree!Op
      <4>3. Tree!HoldSound(v8[q], v3.obs[q], v3, v4, ss)
        BY <2>8, <4>1, <4>2 DEF Tree!HoldSound
      <4>4. v8[q].pc = "publish" => v8[q].snapshot \in Tree!Snapshots
        BY <4>1 DEF Tree!StageSound, Tree!Op, Tree!Stage, Tree!Away
      <4>5. Tree!PublishSound(q, ss, ops)
        BY <2>8, <2>11, <4>1, <4>4 DEF Tree!PublishSound
      <4> QED
        BY <4>1, <4>3, <4>5
    <3> QED
      BY <3>1, <3>2
  <2>13. Tree!VersionsSound(v3, v4, ss, v6)
    <3>1. \A v \in Tree!Versions : v4[v].snapshot \in Tree!Snapshots \cup {None}
      BY <2>5 DEF Tree!Version
    <3> QED
      BY <2>5, <2>8, <3>1 DEF Tree!VersionsSound
  <2>14. Tree!SnapshotsSound(v3, v4, ss, ops, v6)
    <3>1. \A x \in Tree!Snapshots : ~Tree!Dooms(v8[r], x, v4)
      BY <2>6, TreeHarmless DEF Tree!Away
    <3>2. ASSUME NEW x \in Tree!Snapshots, NEW w \in Ops, Tree!Dooms(v8[w], x, v4) PROVE Tree!Dooms(ops[w], x, v4)
      BY <2>10, <3>1, <3>2
    <3> QED
      BY <2>8, <3>2 DEF Tree!Inductive, Tree!Sound, Tree!SnapshotsSound
  <2>15. Tree!IndexSound(ss, ops, v6, v7)
    <3>1. ASSUME NEW q \in Ops, v8[q].pc = "drop" \/ (v8[q].pc = "clean" /\ v8[q].cleaning # {}) PROVE ops[q] = v8[q]
      BY <2>6, <2>10, <3>1
    <3>2. v7 # None => v7 <= v6 /\
             (\/ v5[v7].cacheable /\ v5[v7].cleanups # {}
              \/ \E q \in Ops : v8[q].evicting = v7
                     /\ (v8[q].pc = "drop" \/ (v8[q].pc = "clean" /\ v8[q].cleaning # {})))
      BY DEF Tree!Inductive, Tree!Sound, Tree!IndexSound
    <3>3. v7 # None /\ v5[v7].cleanups # {} => ss[v7].cleanups # {} /\ ss[v7].cacheable = v5[v7].cacheable
      BY <2>5, <2>8
    <3> QED
      BY <3>1, <3>2, <3>3 DEF Tree!IndexSound
  <2>16. Tree!Sound(v3, v4, ss, ops, v6, v7)
    BY <2>5, <2>8, <2>10, <2>12, <2>13, <2>14, <2>15 DEF Tree!Sound, Tree!StateOK
  <2> QED
    BY <2>6, <2>16, TreeCollected DEF Tree!TreeStep
<1> QED
  BY <1>1, <1>2

(* The index is published, unless the read was told. *)
LEMMA TreePublishNames ==
    ASSUME Counting, Tree!Inductive, NEW r \in Ops, Tree!PublishNames(r)
    PROVE  Tree!Inductive'
<1>1. PICK i : i = IF (v7 # None /\ v7 >= v8[r].snapshot) \/ v8[r].evicted THEN v7 ELSE v8[r].snapshot
  OBVIOUS
<1>2. PICK ss : ss = Tree!Outlived(v5, r)
  OBVIOUS
<1>3. PICK ops : ops = Tree!OutlivedIn(Tree!Goes(r, "idle"), r)
  OBVIOUS
<1>4. v8[r].pc = "publish" /\ v6' = v6 /\ v7' = i /\ Tree!Becomes(v3, v4, ss, ops)
  BY <1>1, <1>2, <1>3 DEF Tree!PublishNames, Tree!Published
<1>5. /\ v3 \in Tree!Caches(Tree!Versions) /\ v4 \in [Tree!Versions -> Tree!Version] /\ v5 \in [Tree!Snapshots -> Tree!Snapshot]
      /\ v8 \in [Ops -> Tree!Op] /\ v6 \in 0 .. MaxSnapshots /\ v7 \in Tree!Snapshots \cup {None} /\ v8[r] \in Tree!Op
      /\ v3.value \in Tree!Versions \cup {None} /\ Tree!PublishSound(r, v5, v8)
      /\ Tree!StageSound(v8[r], v6) /\ Tree!HoldSound(v8[r], v3.obs[r], v3, v4, v5)
      /\ Tree!VersionsSound(v3, v4, v5, v6)
  BY TreeFacts
<1>6. v8[r].snapshot \in Tree!Snapshots /\ v8[r].snapshot <= v6
  BY <1>4, <1>5 DEF Tree!StageSound, Tree!Op, Tree!Stage, Tree!Away
<1>7. ASSUME NEW x \in Tree!Snapshots
      PROVE  /\ ss[x] \in Tree!Snapshot /\ ss[x].cacheable = v5[x].cacheable /\ ss[x].place = v5[x].place
             /\ v5[x].cleanups \ {r} \subseteq ss[x].cleanups
             /\ (v5[x].cleanups # {} => ss[x].cleanups # {})
  <2>1. v5[x] \in Tree!Snapshot
    BY <1>5
  <2>2. CASE r \notin v5[x].cleanups
    BY <1>2, <2>1, <2>2 DEF Tree!Outlived
  <2>3. CASE r \in v5[x].cleanups
    <3>1. PICK k \in SUBSET (Ops \cup {None}) : k = (v5[x].cleanups \ {r}) \cup {None}
      BY <2>1 DEF Tree!Snapshot
    <3>2. ss[x] = [v5[x] EXCEPT !.cleanups = k]
      BY <1>2, <2>3, <3>1 DEF Tree!Outlived
    <3>3. ss[x] \in Tree!Snapshot /\ ss[x].cacheable = v5[x].cacheable /\ ss[x].place = v5[x].place /\ ss[x].cleanups = k
      BY <2>1, <3>2 DEF Tree!Snapshot
    <3> QED
      BY <3>1, <3>3
  <2> QED
    BY <2>2, <2>3
<1>8. ss \in [Tree!Snapshots -> Tree!Snapshot]
  BY <1>2, <1>7 DEF Tree!Outlived
<1>9. ops[r] = Tree!Idle
  <2>1. Tree!Goes(r, "idle")[r] = Tree!Idle
    BY <1>5 DEF Tree!Goes
  <2> QED
    BY <1>3, <2>1, TreeIdle DEF Tree!OutlivedIn
<1>10. ASSUME NEW w \in Ops, w # r
       PROVE  /\ ops[w] \in Tree!Op /\ ops[w].pc = v8[w].pc
              /\ ops[w].kind = v8[w].kind /\ ops[w].place = v8[w].place /\ ops[w].view = v8[w].view
              /\ ops[w].version = v8[w].version /\ ops[w].snapshot = v8[w].snapshot /\ ops[w].retired = v8[w].retired
              /\ ops[w].evicting = v8[w].evicting /\ ops[w].next = v8[w].next /\ ops[w].evicted = v8[w].evicted
              /\ v8[w].cleaning \ {r} \subseteq ops[w].cleaning
              /\ (v8[w].cleaning # {} => ops[w].cleaning # {})
  <2>1. v8[w] \in Tree!Op /\ Tree!Goes(r, "idle")[w] = v8[w]
    BY <1>5, <1>10 DEF Tree!Goes
  <2>2. CASE r \notin v8[w].cleaning
    <3>1. ops[w] = v8[w]
      BY <1>3, <2>1, <2>2 DEF Tree!OutlivedIn
    <3> QED
      BY <2>1, <3>1
  <2>3. CASE r \in v8[w].cleaning
    <3>1. PICK k \in SUBSET (Ops \cup {None}) : k = (v8[w].cleaning \ {r}) \cup {None}
      BY <2>1 DEF Tree!Op
    <3>2. ops[w] = [v8[w] EXCEPT !.cleaning = k]
      BY <1>3, <2>1, <2>3, <3>1 DEF Tree!OutlivedIn
    <3>3. /\ ops[w] \in Tree!Op /\ ops[w].pc = v8[w].pc
          /\ ops[w].kind = v8[w].kind /\ ops[w].place = v8[w].place /\ ops[w].view = v8[w].view
          /\ ops[w].version = v8[w].version /\ ops[w].snapshot = v8[w].snapshot /\ ops[w].retired = v8[w].retired
          /\ ops[w].evicting = v8[w].evicting /\ ops[w].next = v8[w].next /\ ops[w].evicted = v8[w].evicted
          /\ ops[w].cleaning = k
      BY <2>1, <3>2 DEF Tree!Op
    <3> QED
      BY <3>1, <3>3
  <2> QED
    BY <2>2, <2>3
<1>11. ops \in [Ops -> Tree!Op]
  BY <1>3, <1>9, <1>10, TreeIdle DEF Tree!OutlivedIn
<1>12. ASSUME NEW w \in Ops, NEW x, NEW q, q # r, Tree!Tells(v8[w], x, q) PROVE Tree!Tells(ops[w], x, q)
  <2>1. w # r
    BY <1>4, <1>12 DEF Tree!Tells
  <2> QED
    BY <1>10, <1>12, <2>1 DEF Tree!Tells
<1>13. ASSUME NEW q \in Ops
       PROVE  /\ Tree!StageSound(ops[q], v6) /\ Tree!HoldSound(ops[q], v3.obs[q], v3, v4, ss)
              /\ Tree!PublishSound(q, ss, ops)
  <2>1. CASE q = r
    BY <1>9, <2>1, TreeRest, TreeIdle DEF Tree!PublishSound
  <2>2. CASE q # r
    <3>1. /\ Tree!StageSound(v8[q], v6) /\ Tree!HoldSound(v8[q], v3.obs[q], v3, v4, v5)
          /\ Tree!PublishSound(q, v5, v8) /\ v8[q] \in Tree!Op
      BY TreeFacts
    <3>2. Tree!StageSound(ops[q], v6)
      <4>1. Tree!Stage(ops[q]) = Tree!Stage(v8[q])
        BY <1>10, <2>2 DEF Tree!Stage
      <4> QED
        BY <1>10, <2>2, <3>1, <4>1 DEF Tree!StageSound
    <3>3. v8[q].pc \in {"clean", "drop"} => v8[q].evicting \in Tree!Snapshots
      BY <3>1 DEF Tree!StageSound, Tree!Op
    <3>4. Tree!HoldSound(ops[q], v3.obs[q], v3, v4, ss)
      BY <1>7, <1>10, <2>2, <3>1, <3>3 DEF Tree!HoldSound
    <3>5. ops[q].pc \in {"clean", "drop"} /\ ops[q].next = "publish" => ops[q].evicted \/ q \in ops[q].cleaning
      BY <1>10, <2>2, <3>1 DEF Tree!PublishSound
    <3>6. ASSUME ops[q].pc = "publish", ~ops[q].evicted
          PROVE  \/ ss[ops[q].snapshot].cacheable /\ q \in ss[ops[q].snapshot].cleanups
                 \/ \E w \in Ops : Tree!Tells(ops[w], ops[q].snapshot, q)
      <4>1. v8[q].pc = "publish" /\ ~v8[q].evicted /\ ops[q].snapshot = v8[q].snapshot
        BY <1>10, <2>2, <3>6
      <4>2. v8[q].snapshot \in Tree!Snapshots
        BY <3>1, <4>1 DEF Tree!StageSound, Tree!Op, Tree!Stage, Tree!Away
      <4>3. CASE v5[v8[q].snapshot].cacheable /\ q \in v5[v8[q].snapshot].cleanups
        BY <1>7, <2>2, <4>1, <4>2, <4>3
      <4>4. ASSUME NEW w \in Ops, Tree!Tells(v8[w], v8[q].snapshot, q) PROVE Tree!Tells(ops[w], ops[q].snapshot, q)
        BY <1>12, <2>2, <4>1, <4>4
      <4> QED
        BY <3>1, <4>1, <4>3, <4>4 DEF Tree!PublishSound
    <3> QED
      BY <3>2, <3>4, <3>5, <3>6 DEF Tree!PublishSound
  <2> QED
    BY <2>1, <2>2
<1>14. Tree!VersionsSound(v3, v4, ss, v6)
  <2>1. \A v \in Tree!Versions : v4[v].snapshot \in Tree!Snapshots \cup {None}
    BY <1>5 DEF Tree!Version
  <2> QED
    BY <1>5, <1>7, <2>1 DEF Tree!VersionsSound
<1>15. Tree!SnapshotsSound(v3, v4, ss, ops, v6)
  <2>1. \A x \in Tree!Snapshots : ~Tree!Dooms(v8[r], x, v4)
    BY <1>4, TreeHarmless DEF Tree!Away
  <2>2. ASSUME NEW x \in Tree!Snapshots, NEW w \in Ops, Tree!Dooms(v8[w], x, v4) PROVE Tree!Dooms(ops[w], x, v4)
    BY <1>10, <2>1, <2>2 DEF Tree!Dooms
  <2> QED
    BY <1>7, <2>2 DEF Tree!Inductive, Tree!Sound, Tree!SnapshotsSound
<1>16. Tree!IndexSound(ss, ops, v6, i)
  <2>1. ASSUME NEW q \in Ops, v8[q].pc = "drop" \/ (v8[q].pc = "clean" /\ v8[q].cleaning # {})
        PROVE  ops[q].evicting = v8[q].evicting /\ (ops[q].pc = "drop" \/ (ops[q].pc = "clean" /\ ops[q].cleaning # {}))
    <3>1. q # r
      BY <1>4, <2>1
    <3> QED
      BY <1>10, <2>1, <3>1
  <2>2. CASE i = v7
    <3>1. v7 # None => v7 <= v6 /\
             (\/ v5[v7].cacheable /\ v5[v7].cleanups # {}
              \/ \E q \in Ops : v8[q].evicting = v7
                     /\ (v8[q].pc = "drop" \/ (v8[q].pc = "clean" /\ v8[q].cleaning # {})))
      BY DEF Tree!Inductive, Tree!Sound, Tree!IndexSound
    <3>2. v7 # None /\ v5[v7].cleanups # {} => ss[v7].cleanups # {} /\ ss[v7].cacheable = v5[v7].cacheable
      BY <1>5, <1>7
    <3> QED
      BY <2>1, <2>2, <3>1, <3>2 DEF Tree!IndexSound
  <2>3. CASE i # v7
    <3>1. i = v8[r].snapshot /\ ~v8[r].evicted
      BY <1>1, <2>3
    <3>2. CASE v5[i].cacheable /\ r \in v5[i].cleanups
      BY <1>6, <1>7, <3>1, <3>2 DEF Tree!IndexSound
    <3>3. ASSUME NEW w \in Ops, Tree!Tells(v8[w], i, r) PROVE Tree!IndexSound(ss, ops, v6, i)
      <4>1. v8[w].evicting = i /\ (v8[w].pc = "drop" \/ (v8[w].pc = "clean" /\ v8[w].cleaning # {}))
        BY <3>3 DEF Tree!Tells
      <4> QED
        BY <1>6, <2>1, <3>1, <4>1 DEF Tree!IndexSound
    <3> QED
      BY <1>4, <1>5, <3>1, <3>2, <3>3 DEF Tree!PublishSound
  <2> QED
    BY <2>2, <2>3
<1>17. Tree!Sound(v3, v4, ss, ops, v6, i)
  <2>1. i \in Tree!Snapshots \cup {None}
    BY <1>1, <1>5, <1>6
  <2> QED
    BY <1>5, <1>8, <1>11, <1>13, <1>14, <1>15, <1>16, <2>1 DEF Tree!Sound, Tree!StateOK
<1> QED
  BY <1>4, <1>17, TreeCollected

(* There is a version free for a read that has none: each other read holds   *)
(* at most two and the cache one.                                            *)
LEMMA TreeVersionFree ==
    ASSUME Counting, Tree!Inductive, NEW r \in Ops, v8[r].version = None, v8[r].retired = None
    PROVE  Tree!FreshVersion \in Tree!Versions /\ ~Tree!VersionHeld(Tree!FreshVersion, v3, v8)
<1>1. PICK n : n = Cardinality(Ops)
  OBVIOUS
<1>2. n \in Nat /\ n >= 1 /\ Cardinality(Ops \ {r}) = n - 1 /\ IsFiniteSet(Ops \ {r})
  <2>1. n \in Nat
    BY <1>1, TreeAssumption DEF Counting, CountIsNatural
  <2>2. n # 0
    BY <1>1, TreeAssumption DEF Counting, EmptyCount
  <2>3. IsFiniteSet(Ops \ {r}) /\ Cardinality(Ops \ {r}) = n - 1
    BY <1>1, TreeAssumption DEF Counting, RemovedCount
  <2> QED
    BY <2>1, <2>2, <2>3, SMTT(30)
<1>3. PICK H : H = {v8[q].version : q \in Ops \ {r}}
  OBVIOUS
<1>4. PICK K : K = {v8[q].retired : q \in Ops \ {r}}
  OBVIOUS
<1>5. IsFiniteSet(H) /\ Cardinality(H) <= n - 1 /\ Cardinality(H) \in Nat
  <2>1. PICK h : h = [q \in Ops \ {r} |-> v8[q].version]
    OBVIOUS
  <2>2. h \in Onto(Ops \ {r}, H)
    BY <1>3, <2>1 DEF Onto
  <2>3. IsFiniteSet(H) /\ Cardinality(H) <= Cardinality(Ops \ {r})
    BY <1>2, <2>2 DEF Counting, ImageCount
  <2> QED
    BY <1>2, <2>3 DEF Counting, CountIsNatural
<1>6. IsFiniteSet(K) /\ Cardinality(K) <= n - 1 /\ Cardinality(K) \in Nat
  <2>1. PICK h : h = [q \in Ops \ {r} |-> v8[q].retired]
    OBVIOUS
  <2>2. h \in Onto(Ops \ {r}, K)
    BY <1>4, <2>1 DEF Onto
  <2>3. IsFiniteSet(K) /\ Cardinality(K) <= Cardinality(Ops \ {r})
    BY <1>2, <2>2 DEF Counting, ImageCount
  <2> QED
    BY <1>2, <2>3 DEF Counting, CountIsNatural
<1>7. IsFiniteSet(H \cup K) /\ Cardinality(H \cup K) <= 2 * n - 2 /\ Cardinality(H \cup K) \in Nat
  <2>1. IsFiniteSet(H \cup K) /\ Cardinality(H \cup K) = Cardinality(H) + Cardinality(K) - Cardinality(H \cap K)
    BY <1>5, <1>6 DEF Counting, UnionCount
  <2>2. IsFiniteSet(H \cap K)
    BY <1>5 DEF Counting, SubsetCount
  <2>3. Cardinality(H \cap K) \in Nat /\ Cardinality(H \cup K) \in Nat
    BY <2>1, <2>2 DEF Counting, CountIsNatural
  <2> QED
    BY <1>2, <1>5, <1>6, <2>1, <2>3, SMTT(30)
<1>8. PICK L : L = (H \cup K) \cup {v3.value}
  OBVIOUS
<1>9. IsFiniteSet(L) /\ Cardinality(L) <= 2 * n - 1
  <2>1. IsFiniteSet(L) /\ (Cardinality(L) = Cardinality(H \cup K) \/ Cardinality(L) = Cardinality(H \cup K) + 1)
    BY <1>7, <1>8 DEF Counting, AddedCount
  <2> QED
    BY <1>2, <1>7, <2>1, SMTT(30)
<1>10. IsFiniteSet(Tree!Versions) /\ Cardinality(Tree!Versions) = 2 * n
  <2>1. PICK a, b : a = 1 /\ b = 2 * n
    OBVIOUS
  <2>2. a \in Int /\ b \in Int /\ ~(a > b) /\ b - a + 1 = 2 * n
    BY <1>2, <2>1, SMTT(30)
  <2>3. IsFiniteSet(a .. b) /\ Cardinality(a .. b) = b - a + 1
    BY <2>2 DEF Counting, IntervalCount
  <2>4. Tree!Versions = a .. b
    BY <1>1, <2>1, TreeCounts DEF Tree!Versions
  <2> QED
    BY <2>2, <2>3, <2>4
<1>11. PICK v \in Tree!Versions : v \notin L
  <2>1. ASSUME Tree!Versions \subseteq L PROVE FALSE
    <3>1. Cardinality(Tree!Versions) <= Cardinality(L)
      BY <1>9, <2>1 DEF Counting, SubsetCount
    <3>2. Cardinality(L) \in Nat
      BY <1>9 DEF Counting, CountIsNatural
    <3> QED
      BY <1>2, <1>9, <1>10, <3>1, <3>2, SMTT(30)
  <2> QED
    BY <2>1
<1>12. ~Tree!VersionHeld(v, v3, v8)
  <2>1. ASSUME NEW q \in Ops, v \in {v8[q].version, v8[q].retired} PROVE FALSE
    <3>1. q # r
      BY <1>11, <2>1, TreeNone
    <3> QED
      BY <1>3, <1>4, <1>8, <1>11, <2>1, <3>1
  <2> QED
    BY <1>8, <1>11, <2>1 DEF Tree!VersionHeld
<1> QED
  BY <1>11, <1>12 DEF Tree!FreshVersion

(* A version is built where nobody holds one. *)
LEMMA TreeBuilt ==
    ASSUME Tree!Inductive, NEW v \in Tree!Versions, ~Tree!VersionHeld(v, v3, v8), NEW e \in Tree!Version, e.content # None, e.snapshot = None,
           NEW vs, vs = [v4 EXCEPT ![v] = e]
    PROVE  Tree!Sound(v3, vs, v5, v8, v6, v7)
<1>1. /\ v3 \in Tree!Caches(Tree!Versions) /\ v4 \in [Tree!Versions -> Tree!Version] /\ v5 \in [Tree!Snapshots -> Tree!Snapshot]
      /\ v8 \in [Ops -> Tree!Op] /\ v6 \in 0 .. MaxSnapshots /\ v7 \in Tree!Snapshots \cup {None}
      /\ Tree!VersionsSound(v3, v4, v5, v6) /\ Tree!SnapshotsSound(v3, v4, v5, v8, v6)
      /\ Tree!IndexSound(v5, v8, v6, v7)
  BY DEF Tree!Inductive, Tree!Sound, Tree!StateOK
<1>2. vs \in [Tree!Versions -> Tree!Version] /\ vs[v] = e /\ \A w \in Tree!Versions : w # v => vs[w] = v4[w]
  BY <1>1
<1>3. v3.value # v /\ (v3.value # None => v3.value \in Tree!Versions)
  BY <1>1 DEF Tree!VersionHeld, Tree!Caches
<1>4. ASSUME NEW q \in Ops
      PROVE  /\ (v8[q].version # None => vs[v8[q].version] = v4[v8[q].version])
             /\ (v8[q].retired # None => vs[v8[q].retired] = v4[v8[q].retired])
  <2>1. v8[q].version \in Tree!Versions \cup {None} /\ v8[q].retired \in Tree!Versions \cup {None}
    BY <1>1 DEF Tree!Op
  <2> QED
    BY <1>2, <2>1 DEF Tree!VersionHeld
<1>5. ASSUME NEW q \in Ops
      PROVE  /\ Tree!StageSound(v8[q], v6) /\ Tree!HoldSound(v8[q], v3.obs[q], v3, vs, v5)
             /\ Tree!PublishSound(q, v5, v8)
  <2>1. /\ Tree!StageSound(v8[q], v6) /\ Tree!HoldSound(v8[q], v3.obs[q], v3, v4, v5)
        /\ Tree!PublishSound(q, v5, v8)
    BY DEF Tree!Inductive, Tree!Sound
  <2>2. Tree!HoldSound(v8[q], v3.obs[q], v3, vs, v5)
    BY <1>2, <1>3, <1>4, <2>1 DEF Tree!HoldSound
  <2> QED
    BY <2>1, <2>2
<1>6. Tree!VersionsSound(v3, vs, v5, v6)
  <2>1. /\ v3.value # None => vs[v3.value].content # None
        /\ v3.value # None /\ vs[v3.value].snapshot # None => v5[vs[v3.value].snapshot].cacheable
    BY <1>1, <1>2, <1>3 DEF Tree!VersionsSound
  <2>2. \A w \in Tree!Versions : vs[w].snapshot # None => w # v /\ vs[w] = v4[w]
    BY <1>2
  <2> QED
    BY <1>1, <2>1, <2>2 DEF Tree!VersionsSound
<1>7. Tree!SnapshotsSound(v3, vs, v5, v8, v6)
  <2>1. ASSUME NEW q \in Ops, NEW x, Tree!Dooms(v8[q], x, v4) PROVE Tree!Dooms(v8[q], x, vs)
    BY <1>4, <2>1 DEF Tree!Dooms
  <2>2. v3.value # None => vs[v3.value] = v4[v3.value]
    BY <1>2, <1>3
  <2> QED
    BY <1>1, <2>1, <2>2 DEF Tree!SnapshotsSound
<1> QED
  BY <1>1, <1>2, <1>5, <1>6, <1>7 DEF Tree!Sound, Tree!StateOK

(* The version that fits is taken, or another is built, which replaces it.   *)
LEMMA TreeDirectoryIndex ==
    ASSUME Counting, Tree!Inductive, NEW r \in Ops, Tree!DirectoryIndex(r)
    PROVE  Tree!Inductive'
<1>1. /\ v8 \in [Ops -> Tree!Op] /\ v8[r] \in Tree!Op /\ Tree!StageSound(v8[r], v6) /\ v3.value \in Tree!Versions \cup {None}
      /\ v3 \in Tree!Caches(Tree!Versions)
      /\ Tree!VersionsSound(v3, v4, v5, v6) /\ v4 \in [Tree!Versions -> Tree!Version]
  BY TreeFacts
<1>2. v8[r].pc = "index" /\ Tree!TreeStep
  BY DEF Tree!DirectoryIndex
<1>3. /\ v8[r].version = None /\ v8[r].retired = None /\ v8[r].evicting = None /\ v8[r].view \in Directories
      /\ v8[r].kind = "open" /\ v8[r].place \in Places /\ (v8[r].snapshot # None => v8[r].snapshot <= v6)
  BY <1>1, <1>2 DEF Tree!StageSound, Tree!Stage, Tree!Away
<1>4. ASSUME NEW o, NEW v \in Tree!Versions, o = [v8[r] EXCEPT !.pc = "finish", !.version = v]
      PROVE  /\ o \in Tree!Op /\ o.pc = "finish" /\ o.version = v /\ o.retired = v8[r].retired /\ o.evicting = v8[r].evicting
             /\ o.kind = v8[r].kind /\ o.place = v8[r].place /\ o.snapshot = v8[r].snapshot
  BY <1>1, <1>4 DEF Tree!Op
<1>5. CASE v3.value # None /\ v4[v3.value].content = v8[r].view
  <2>1. PICK o : o = [v8[r] EXCEPT !.pc = "finish", !.version = v3.value]
    OBVIOUS
  <2>2. Tree!Becomes(v3, v4, v5, [v8 EXCEPT ![r] = o])
    BY <1>1, <1>5, <2>1 DEF Tree!DirectoryIndex, Tree!Retire, Tree!Goes
  <2>3. /\ o \in Tree!Op /\ o.pc = "finish" /\ o.version = v3.value /\ o.retired = None /\ o.evicting = None
        /\ o.kind = "open" /\ o.place \in Places /\ o.snapshot = v8[r].snapshot
    BY <1>1, <1>3, <1>4, <1>5, <2>1
  <2>4. Tree!StageSound(o, v6) /\ Tree!HoldSound(o, v3.obs[r], v3, v4, v5)
    BY <1>1, <1>3, <1>5, <2>3 DEF Tree!StageSound, Tree!HoldSound, Tree!VersionsSound,
       Tree!Stage, Tree!Away
  <2>5. \A s \in Tree!Snapshots : ~Tree!Dooms(v8[r], s, v4)
    BY <1>2, TreeHarmless DEF Tree!Away
  <2> QED
    BY <1>2, <2>2, <2>3, <2>4, <2>5, TreeFacts, TreeMoves
<1>6. CASE ~(v3.value # None /\ v4[v3.value].content = v8[r].view)
  <2>1. PICK v : v = Tree!FreshVersion
    OBVIOUS
  <2>2. v \in Tree!Versions /\ ~Tree!VersionHeld(v, v3, v8)
    BY <1>3, <2>1, TreeVersionFree
  <2>3. PICK e : e = [Tree!NoVersion EXCEPT !.content = v8[r].view]
    OBVIOUS
  <2>4. e \in Tree!Version /\ e.content # None /\ e.snapshot = None
    BY <1>3, <2>3, TreeAssumption DEF Tree!NoVersion, Tree!Version
  <2>5. PICK vs : vs = [v4 EXCEPT ![v] = e]
    OBVIOUS
  <2>6. Tree!Sound(v3, vs, v5, v8, v6, v7)
    BY <2>2, <2>4, <2>5, TreeBuilt
  <2>7. PICK d : d = Tree!Publish(v3, r, v)
    OBVIOUS
  <2>8. PICK ops : ops = [Tree!Retire(r, IF d # v3 THEN v3.value ELSE None, "finish") EXCEPT ![r].version = v]
    OBVIOUS
  <2>9. Tree!Becomes(d, vs, v5, ops)
    BY <1>6, <2>1, <2>3, <2>5, <2>7, <2>8 DEF Tree!DirectoryIndex
  <2>10. d \in Tree!Caches(Tree!Versions) /\ (d = v3 \/ (d.value = v /\ \A q \in Ops : d.obs[q] # "same"))
    BY <1>1, <2>2, <2>7, TreeCachePublishes
  <2>11. TreeFollows(v3, d, r)
    BY <2>10 DEF TreeFollows
  <2>12. v # v3.value /\ v # None /\ \A q \in Ops : v8[q].retired # v
    BY <2>2, TreeNone DEF Tree!VersionHeld
  <2>13. vs[v] = e
    BY <1>1, <2>2, <2>5
  <2>14. \/ d.value \in {v3.value, None}
         \/ /\ d.value \in Tree!Versions /\ vs[d.value].content # None /\ vs[d.value].snapshot = None
            /\ \A q \in Ops \ {r} : v8[q].retired # d.value
    BY <2>2, <2>4, <2>10, <2>12, <2>13
  <2>15. \A s \in Tree!Snapshots : ~Tree!Dooms(v8[r], s, vs)
    BY <1>2, <1>3, TreeNone DEF Tree!Dooms
  <2>16. CASE d = v3 \/ v3.value = None
    <3>1. PICK o : o = [v8[r] EXCEPT !.pc = "finish", !.version = v]
      OBVIOUS
    <3>2. ops = [v8 EXCEPT ![r] = o]
      BY <1>1, <2>8, <2>16, <3>1 DEF Tree!Retire, Tree!Goes
    <3>3. /\ o \in Tree!Op /\ o.pc = "finish" /\ o.version = v /\ o.retired = None /\ o.evicting = None
          /\ o.kind = "open" /\ o.place \in Places /\ o.snapshot = v8[r].snapshot
      BY <1>3, <1>4, <2>2, <3>1
    <3>4. Tree!StageSound(o, v6) /\ Tree!HoldSound(o, d.obs[r], d, vs, v5)
      BY <1>3, <2>4, <2>13, <3>3 DEF Tree!StageSound, Tree!HoldSound, Tree!Stage, Tree!Away
    <3>5. Tree!PublishSound(r, v5, ops)
      <4>1. ops[r] = o
        BY <1>1, <3>2
      <4> QED
        BY <3>3, <4>1 DEF Tree!PublishSound
    <3>6. TreeGoesOn(r, o, d, ops, v3, vs, v5, v8, v6)
      BY <1>2, <2>11, <2>14, <2>15, <2>16, <3>2, <3>3, <3>4, <3>5 DEF TreeGoesOn
    <3>7. Tree!Sound(d, vs, v5, ops, v6, v7)
      BY <2>6, <3>6, TreeOneMoves
    <3> QED
      BY <1>2, <2>9, <3>7, TreeCollected DEF Tree!TreeStep
  <2>17. CASE d # v3 /\ v3.value # None
    <3>1. PICK o : o = [v8[r] EXCEPT !.pc = "collect", !.retired = v3.value, !.next = "finish", !.version = v]
      OBVIOUS
    <3>2. ops = [v8 EXCEPT ![r] = o]
      BY <1>1, <2>8, <2>17, <3>1 DEF Tree!Retire
    <3>3. /\ o \in Tree!Op /\ o.pc = "collect" /\ o.version = v /\ o.retired = v3.value /\ o.evicting = v8[r].evicting
          /\ o.next = "finish" /\ o.kind = v8[r].kind /\ o.place = v8[r].place /\ o.snapshot = v8[r].snapshot
      BY <1>1, <2>2, <3>1 DEF Tree!Op
    <3>4. Tree!StageSound(o, v6)
      BY <1>3, <2>17, <3>3 DEF Tree!StageSound, Tree!Stage, Tree!Away
    <3>5. Tree!HoldSound(o, d.obs[r], d, vs, v5)
      BY <2>4, <2>10, <2>12, <2>13, <2>17, <3>3 DEF Tree!HoldSound
    <3>6. Tree!PublishSound(r, v5, ops)
      <4>1. ops[r] = o
        BY <1>1, <3>2
      <4> QED
        BY <3>3, <4>1 DEF Tree!PublishSound
    <3>7. Tree!Dooms(o, vs[v3.value].snapshot, vs)
      BY <2>17, <3>3 DEF Tree!Dooms
    <3>8. TreeGoesOn(r, o, d, ops, v3, vs, v5, v8, v6)
      BY <1>2, <2>11, <2>14, <2>15, <3>2, <3>3, <3>4, <3>5, <3>6, <3>7 DEF TreeGoesOn
    <3>9. Tree!Sound(d, vs, v5, ops, v6, v7)
      BY <2>6, <3>8, TreeOneMoves
    <3> QED
      BY <1>2, <2>9, <3>9, TreeCollected DEF Tree!TreeStep
  <2> QED
    BY <2>16, <2>17
<1> QED
  BY <1>5, <1>6

(* A snapshot is made; the one it replaces is evicted. *)
LEMMA TreeSnap ==
    ASSUME Counting, Tree!Inductive, NEW r \in Ops, Tree!Snap(r)
    PROVE  Tree!Inductive'
<1>1. PICK s : s = v6 + 1
  OBVIOUS
<1>2. PICK v : v = v8[r].version
  OBVIOUS
<1>3. PICK old : old = v4[v].snapshot
  OBVIOUS
<1>4. PICK o : o = [Tree!Idle EXCEPT !.kind = "open", !.snapshot = s, !.next = "names",
                                !.pc = IF old = None THEN "names" ELSE "evict", !.evicting = old]
  OBVIOUS
<1>5. PICK ops : ops = [v8 EXCEPT ![r] = o]
  OBVIOUS
<1>6. PICK vs : vs = [v4 EXCEPT ![v].snapshot = s]
  OBVIOUS
<1>7. PICK e : e = [place |-> v8[r].place, cacheable |-> v3.value = v, cleanups |-> {}]
  OBVIOUS
<1>8. PICK ss : ss = [v5 EXCEPT ![s] = e]
  OBVIOUS
<1>9. v8[r].pc = "snapshot" /\ s \in Tree!Snapshots /\ v6' = s /\ v7' = v7 /\ Tree!Becomes(v3, vs, ss, ops)
  BY <1>1, <1>2, <1>3, <1>4, <1>5, <1>6, <1>7, <1>8 DEF Tree!Snap, Tree!Returning
<1>10. /\ v3 \in Tree!Caches(Tree!Versions) /\ v4 \in [Tree!Versions -> Tree!Version] /\ v5 \in [Tree!Snapshots -> Tree!Snapshot]
       /\ v8 \in [Ops -> Tree!Op] /\ v6 \in 0 .. MaxSnapshots /\ v7 \in Tree!Snapshots \cup {None} /\ v8[r] \in Tree!Op
       /\ v3.value \in Tree!Versions \cup {None}
       /\ Tree!StageSound(v8[r], v6) /\ Tree!HoldSound(v8[r], v3.obs[r], v3, v4, v5)
       /\ Tree!VersionsSound(v3, v4, v5, v6)
  BY TreeFacts
<1>11. v \in Tree!Versions /\ v8[r].place \in Places
  BY <1>2, <1>9, <1>10 DEF Tree!StageSound, Tree!Op, Tree!Stage, Tree!Away
<1>12. s \in 0 .. MaxSnapshots /\ s <= s /\ \A x \in Tree!Snapshots : x <= v6 => x # s /\ x <= s
  BY <1>1, <1>9, <1>10, TreeAssumption, SMTT(30) DEF Tree!Snapshots
<1>13. /\ vs \in [Tree!Versions -> Tree!Version] /\ vs[v].snapshot = s /\ vs[v].content = v4[v].content
       /\ \A w \in Tree!Versions : w # v => vs[w] = v4[w]
  <2>1. v4[v] \in Tree!Version
    BY <1>10, <1>11
  <2>2. PICK f : f = [v4[v] EXCEPT !.snapshot = s]
    OBVIOUS
  <2>3. f \in Tree!Version /\ f.snapshot = s /\ f.content = v4[v].content
    BY <1>9, <2>1, <2>2 DEF Tree!Version
  <2>4. vs = [v4 EXCEPT ![v] = f]
    BY <1>6, <1>10, <1>11, <2>2
  <2> QED
    BY <1>10, <1>11, <2>3, <2>4
<1>14. /\ ss \in [Tree!Snapshots -> Tree!Snapshot] /\ (ss[s].cacheable <=> v3.value = v) /\ ss[s].place # None
       /\ \A x \in Tree!Snapshots : x # s => ss[x] = v5[x]
  <2>1. e \in Tree!Snapshot /\ (e.cacheable <=> v3.value = v) /\ e.place # None
    BY <1>7, <1>11, TreeAssumption DEF Tree!Snapshot
  <2>2. ss \in [Tree!Snapshots -> Tree!Snapshot] /\ ss[s] = e /\ \A x \in Tree!Snapshots : x # s => ss[x] = v5[x]
    BY <1>8, <1>9, <1>10, <2>1
  <2> QED
    BY <2>1, <2>2
<1>15. old \in Tree!Snapshots \cup {None} /\ (old # None => old <= v6)
  BY <1>3, <1>10, <1>11 DEF Tree!Version, Tree!VersionsSound
<1>16. /\ o \in Tree!Op /\ o.pc = (IF old = None THEN "names" ELSE "evict") /\ o.kind = "open" /\ o.snapshot = s /\ o.next = "names"
       /\ o.evicting = old /\ o.version = None /\ o.retired = None
  <2>1. CASE old = None
    BY <1>4, <1>9, <2>1 DEF Tree!Op, Tree!Idle
  <2>2. CASE old # None
    BY <1>4, <1>9, <1>15, <2>2 DEF Tree!Op, Tree!Idle
  <2> QED
    BY <2>1, <2>2
<1>17. ops \in [Ops -> Tree!Op] /\ ops[r] = o /\ \A q \in Ops \ {r} : ops[q] = v8[q]
  BY <1>5, <1>10, <1>16
<1>18. ASSUME NEW w \in Tree!Versions PROVE vs[w].content = v4[w].content
  BY <1>13
<1>19. ASSUME NEW q \in Ops
       PROVE  Tree!StageSound(ops[q], s) /\ Tree!HoldSound(ops[q], v3.obs[q], v3, vs, ss) /\ Tree!PublishSound(q, ss, ops)
  <2>1. CASE q = r
    <3>1. Tree!StageSound(o, s)
      BY <1>9, <1>12, <1>15, <1>16, TreeNone DEF Tree!StageSound, Tree!Stage, Tree!Away
    <3>2. old # None /\ v3.value # None => vs[v3.value].snapshot # old
      <4>1. CASE v3.value = v
        BY <1>12, <1>13, <1>15, <4>1
      <4>2. CASE v3.value # v
        BY <1>3, <1>10, <1>11, <1>13, <4>2 DEF Tree!VersionsSound
      <4> QED
        BY <4>1, <4>2
    <3>3. Tree!HoldSound(o, v3.obs[q], v3, vs, ss)
      BY <1>16, <3>2 DEF Tree!HoldSound
    <3>4. Tree!PublishSound(q, ss, ops)
      BY <1>16, <1>17, <2>1 DEF Tree!PublishSound
    <3> QED
      BY <1>17, <2>1, <3>1, <3>3, <3>4
  <2>2. CASE q # r
    <3>1. /\ Tree!StageSound(v8[q], v6) /\ Tree!HoldSound(v8[q], v3.obs[q], v3, v4, v5)
          /\ Tree!PublishSound(q, v5, v8) /\ v8[q] \in Tree!Op /\ ops[q] = v8[q]
      BY <1>17, <2>2, TreeFacts
    <3>2. /\ v8[q].evicting \in Tree!Snapshots \cup {None} /\ v8[q].snapshot \in Tree!Snapshots \cup {None}
          /\ v8[q].version \in Tree!Versions \cup {None}
      BY <3>1 DEF Tree!Op
    <3>3. Tree!StageSound(v8[q], s)
      BY <1>12, <3>1, <3>2 DEF Tree!StageSound
    <3>4. v8[q].evicting # None => v8[q].evicting # s /\ ss[v8[q].evicting] = v5[v8[q].evicting]
      BY <1>12, <1>14, <3>1, <3>2 DEF Tree!StageSound
    <3>5. v8[q].pc = "evict" /\ v3.value # None => vs[v3.value].snapshot # v8[q].evicting
      <4>1. v8[q].pc = "evict" => v8[q].evicting # None
        BY <3>1 DEF Tree!StageSound
      <4>2. CASE v3.value = v
        BY <1>13, <3>4, <4>1, <4>2
      <4>3. CASE v3.value # v
        BY <1>10, <1>13, <3>1, <4>3 DEF Tree!HoldSound
      <4> QED
        BY <4>2, <4>3
    <3>6. v8[q].pc \in {"clean", "drop"} => ~ss[v8[q].evicting].cacheable
      BY <3>1, <3>4 DEF Tree!HoldSound, Tree!StageSound
    <3>7. Tree!HoldSound(v8[q], v3.obs[q], v3, vs, ss)
      BY <1>18, <3>1, <3>2, <3>5, <3>6 DEF Tree!HoldSound
    <3>8. ASSUME NEW w \in Ops, NEW x, Tree!Tells(v8[w], x, q) PROVE Tree!Tells(ops[w], x, q)
      BY <1>9, <1>17, <3>8 DEF Tree!Tells
    <3>9. v8[q].pc = "publish" => ss[v8[q].snapshot] = v5[v8[q].snapshot]
      BY <1>12, <1>14, <3>1, <3>2 DEF Tree!StageSound, Tree!Stage, Tree!Away
    <3>10. Tree!PublishSound(q, ss, ops)
      BY <3>1, <3>8, <3>9 DEF Tree!PublishSound
    <3> QED
      BY <3>1, <3>3, <3>7, <3>10
  <2> QED
    BY <2>1, <2>2
<1>20. ASSUME NEW w \in Tree!Versions, w # v, v4[w].snapshot # None
       PROVE  /\ vs[w] = v4[w] /\ v4[w].snapshot \in Tree!Snapshots /\ v4[w].snapshot # s
              /\ ss[v4[w].snapshot] = v5[v4[w].snapshot]
              /\ v4[w].snapshot <= s /\ v5[v4[w].snapshot].place # None
  <2>1. v4[w].snapshot \in Tree!Snapshots /\ v4[w].snapshot <= v6 /\ v5[v4[w].snapshot].place # None
    BY <1>10, <1>20 DEF Tree!Version, Tree!VersionsSound
  <2> QED
    BY <1>12, <1>13, <1>14, <1>20, <2>1
<1>21. Tree!VersionsSound(v3, vs, ss, s)
  <2>1. v3.value # None => vs[v3.value].content # None
    BY <1>10, <1>18 DEF Tree!VersionsSound
  <2>2. v3.value # None /\ vs[v3.value].snapshot # None => ss[vs[v3.value].snapshot].cacheable
    <3>1. CASE v3.value = v
      BY <1>13, <1>14, <3>1
    <3>2. CASE v3.value # v
      BY <1>10, <1>13, <1>20, <3>2 DEF Tree!VersionsSound
    <3> QED
      BY <3>1, <3>2
  <2>3. ASSUME NEW w \in Tree!Versions, vs[w].snapshot # None PROVE vs[w].snapshot <= s /\ ss[vs[w].snapshot].place # None
    <3>1. CASE w = v
      BY <1>12, <1>13, <1>14, <3>1
    <3>2. CASE w # v
      BY <1>13, <1>20, <2>3, <3>2
    <3> QED
      BY <3>1, <3>2
  <2>4. ASSUME NEW w \in Tree!Versions, NEW z \in Tree!Versions, vs[w].snapshot # None, vs[w].snapshot = vs[z].snapshot PROVE w = z
    <3>1. CASE w = v
      BY <1>13, <1>20, <2>4, <3>1
    <3>2. CASE w # v
      <4>1. z # v
        BY <1>13, <1>20, <2>4, <3>2
      <4> QED
        BY <1>10, <1>13, <2>4, <3>2, <4>1 DEF Tree!VersionsSound
    <3> QED
      BY <3>1, <3>2
  <2> QED
    BY <2>1, <2>2, <2>3, <2>4 DEF Tree!VersionsSound
<1>22. Tree!SnapshotsSound(v3, vs, ss, ops, s)
  <2> SUFFICES ASSUME NEW x \in Tree!Snapshots, ss[x].cacheable
               PROVE  /\ x <= s
                      /\ \/ v3.value # None /\ vs[v3.value].snapshot = x
                         \/ \E q \in Ops : Tree!Dooms(ops[q], x, vs)
    BY DEF Tree!SnapshotsSound
  <2>1. CASE x = s
    <3>1. v3.value = v /\ v # None
      BY <1>11, <1>14, <2>1, TreeNone
    <3> QED
      BY <1>12, <1>13, <2>1, <3>1
  <2>2. CASE x # s
    <3>1. v5[x].cacheable
      BY <1>14, <2>2
    <3>2. /\ x <= v6
          /\ \/ v3.value # None /\ v4[v3.value].snapshot = x
             \/ \E q \in Ops : Tree!Dooms(v8[q], x, v4)
      BY <3>1 DEF Tree!Inductive, Tree!Sound, Tree!SnapshotsSound
    <3>3. x = old => Tree!Dooms(ops[r], x, vs)
      BY <1>16, <1>17 DEF Tree!Dooms
    <3>4. ASSUME NEW w \in Tree!Versions, v4[w].snapshot = x PROVE x = old \/ vs[w].snapshot = x
      BY <1>3, <1>13, <3>4
    <3>5. CASE v3.value # None /\ v4[v3.value].snapshot = x
      BY <1>10, <1>12, <3>2, <3>3, <3>4, <3>5
    <3>6. ASSUME NEW q \in Ops, Tree!Dooms(v8[q], x, v4) PROVE x = old \/ Tree!Dooms(ops[q], x, vs)
      <4>1. q # r
        BY <1>9, <3>6, TreeHarmless DEF Tree!Away
      <4>2. ops[q] = v8[q] /\ v8[q].retired \in Tree!Versions \cup {None} /\ v8[q].version \in Tree!Versions \cup {None}
        BY <1>10, <1>17, <4>1 DEF Tree!Op
      <4> QED
        BY <3>4, <3>6, <4>2 DEF Tree!Dooms
    <3> QED
      BY <1>12, <3>2, <3>3, <3>5, <3>6
  <2> QED
    BY <2>1, <2>2
<1>23. Tree!IndexSound(ss, ops, s, v7)
  <2>1. v7 # None => v7 <= v6 /\
           (\/ v5[v7].cacheable /\ v5[v7].cleanups # {}
            \/ \E q \in Ops : v8[q].evicting = v7
                   /\ (v8[q].pc = "drop" \/ (v8[q].pc = "clean" /\ v8[q].cleaning # {})))
    BY DEF Tree!Inductive, Tree!Sound, Tree!IndexSound
  <2>2. v7 # None => v7 <= s /\ ss[v7] = v5[v7]
    BY <1>10, <1>12, <1>14, <2>1
  <2>3. ASSUME NEW q \in Ops, v8[q].pc = "drop" \/ (v8[q].pc = "clean" /\ v8[q].cleaning # {}) PROVE ops[q] = v8[q]
    BY <1>9, <1>17, <2>3
  <2> QED
    BY <2>1, <2>2, <2>3 DEF Tree!IndexSound
<1>24. Tree!Sound(v3, vs, ss, ops, s, v7)
  BY <1>10, <1>12, <1>13, <1>14, <1>17, <1>19, <1>21, <1>22, <1>23 DEF Tree!Sound,
     Tree!StateOK
<1> QED
  BY <1>9, <1>24, TreeCollected

(* Every step keeps the invariant of the tree. *)
LEMMA TreeNext ==
    ASSUME Counting
    PROVE  Tree!Inductive /\ Tree!Next => Tree!Inductive'
<1> SUFFICES ASSUME Tree!Inductive, Tree!Next PROVE Tree!Inductive'
  OBVIOUS
<1>1. ASSUME NEW s \in Directories \cup SingleFile \cup {None}, Tree!Change(s) PROVE Tree!Inductive'
  BY <1>1, TreeChange
<1>2. ASSUME NEW r \in Ops, Tree!ListBegin(r) PROVE Tree!Inductive'
  BY <1>2, TreeListBegin
<1>3. ASSUME NEW r \in Ops, NEW place \in Places, Tree!OpenBegin(r, place) PROVE Tree!Inductive'
  BY <1>3, TreeOpenBegin
<1>4. ASSUME NEW r \in Ops, Tree!Step(r) PROVE Tree!Inductive'
  <2>1. ASSUME NEW t \in Ops \cup {None}, Tree!Clean(r, t) PROVE Tree!Inductive'
    BY <2>1, TreeClean
  <2>2. CASE Tree!Collect(r) \/ Tree!Evict(r) \/ Tree!Drop(r) \/ Tree!Cleaned(r)
    BY <2>2, TreeCollect, TreeEvict, TreeDrop, TreeCleaned
  <2>3. CASE Tree!Ask(r) \/ Tree!Candidates(r) \/ Tree!FinishList(r) \/ Tree!Compare(r)
    BY <2>3, TreeAsk, TreeCandidates, TreeFinishList, TreeCompare
  <2>4. CASE Tree!ForgetDirectory(r) \/ Tree!DirectoryIndex(r) \/ Tree!FinishOpen(r) \/ Tree!Reuse(r) \/ Tree!Snap(r)
    BY <2>4, TreeForgetDirectory, TreeDirectoryIndex, TreeFinishOpen, TreeReuse, TreeSnap
  <2>5. CASE Tree!NamesIndexed(r) \/ Tree!Subscribe(r) \/ Tree!PublishNames(r)
    BY <2>5, TreeNamesIndexed, TreeSubscribe, TreePublishNames
  <2> QED
    BY <1>4, <2>1, <2>2, <2>3, <2>4, <2>5 DEF Tree!Step
<1> QED
  BY <1>1, <1>2, <1>3, <1>4 DEF Tree!Next

(* What the invariant is for. *)
LEMMA TreeSafe == Tree!Inductive => Tree!TypeOK /\ Tree!CacheableIsOwned /\ Tree!OwnedIsCacheable /\ Tree!IndexOwned
<1> SUFFICES ASSUME Tree!Inductive PROVE Tree!TypeOK /\ Tree!CacheableIsOwned /\ Tree!OwnedIsCacheable /\ Tree!IndexOwned
  OBVIOUS
<1>1. v3.value \in Tree!Versions \cup {None}
  BY DEF Tree!Inductive, Tree!Sound, Tree!StateOK, Tree!Caches
<1>2. \A r \in Ops : v8[r].version # None => v4[v8[r].version].content # None
  BY DEF Tree!Inductive, Tree!Sound, Tree!HoldSound
<1>3. \A v \in Tree!Versions : v4[v].snapshot # None => v5[v4[v].snapshot] # Tree!NoSnapshot
  BY TreeIdle DEF Tree!Inductive, Tree!Sound, Tree!VersionsSound
<1>4. Tree!CacheableIsOwned
  BY DEF Tree!Inductive, Tree!Sound, Tree!SnapshotsSound, Tree!Dooms, Tree!CacheableIsOwned
<1>5. Tree!OwnedIsCacheable
  BY DEF Tree!Inductive, Tree!Sound, Tree!VersionsSound, Tree!OwnedIsCacheable
<1>6. Tree!IndexOwned
  BY DEF Tree!Inductive, Tree!Sound, Tree!IndexSound, Tree!IndexOwned
<1> QED
  BY <1>1, <1>2, <1>3, <1>4, <1>5, <1>6 DEF Tree!TypeOK

-----------------------------------------------------------------------------
(* The snapshot cache below the FUSE mount *)

(* What the component counts is what the theorems on finite sets count. *)
LEMMA FuseCounts == \A S : Fuse!Cardinality(S) = Cardinality(S)
BY DEF Fuse!Cardinality, Cardinality, Fuse!IsFiniteSet, IsFiniteSet

(* Marking what reads saw as changed keeps the rest of the cache. *)
LEMMA AlteredCache ==
    ASSUME NEW V, NEW c \in Fuse!Caches(V)
    PROVE  /\ Fuse!Altered(c) \in Fuse!Caches(V)
           /\ Fuse!Altered(c).value = c.value /\ Fuse!Altered(c).slot = c.slot /\ Fuse!Altered(c).listing = c.listing
<1>1. c.obs \in [Ops -> {"none", "same", "changed"}]
  BY DEF Fuse!Caches
<1>2. [r \in Ops |-> IF c.obs[r] = "same" THEN "changed" ELSE c.obs[r]] \in [Ops -> {"none", "same", "changed"}]
  BY <1>1
<1> QED
  BY <1>2 DEF Fuse!Caches, Fuse!Altered

(* Forgetting the hash empties the cache. *)
LEMMA ForgottenCache ==
    ASSUME NEW V, NEW c \in Fuse!Caches(V)
    PROVE  Fuse!Forgotten(c) \in Fuse!Caches(V)
<1>1. Fuse!Altered(c) \in Fuse!Caches(V)
  BY AlteredCache
<1>2. Fuse!Altered(c).listing \in [Ops -> {None} \cup [invalidated : BOOLEAN, restricted : BOOLEAN, allowed : BOOLEAN]]
  BY <1>1 DEF Fuse!Caches
<1>3. PICK ls : ls = [q \in Ops |-> IF Fuse!Altered(c).listing[q] = None THEN None
                                    ELSE [Fuse!Altered(c).listing[q] EXCEPT !.invalidated = TRUE]]
  OBVIOUS
<1>4. ls \in [Ops -> {None} \cup [invalidated : BOOLEAN, restricted : BOOLEAN, allowed : BOOLEAN]]
  BY <1>2, <1>3
<1>5. Fuse!Forgotten(c) = [Fuse!Altered(c) EXCEPT !.slot = FALSE, !.value = None, !.listing = ls]
  BY <1>3 DEF Fuse!Forgotten
<1> QED
  BY <1>4, <1>5, <1>1 DEF Fuse!Caches

(* A read observes, publishes, forgets and finishes: the cache holds what it *)
(* held, the value that is published, or nothing.                            *)
LEMMA NarrowCache ==
    ASSUME NEW V, NEW c \in Fuse!Caches(V), NEW r \in Ops, NEW v \in V
    PROVE  /\ Fuse!Observe(c, r) \in Fuse!Caches(V)
           /\ Fuse!Finish(c, r) \in Fuse!Caches(V)
           /\ Fuse!Publish(c, r, v) \in Fuse!Caches(V)
           /\ Fuse!Forgotten(c) \in Fuse!Caches(V)
           /\ Fuse!Forget(c, r) \in Fuse!Caches(V)
<1>1. Fuse!Observe(c, r) \in Fuse!Caches(V)
  BY DEF Fuse!Observe, Fuse!Caches
<1>2. ASSUME NEW d \in Fuse!Caches(V), NEW b \in BOOLEAN, NEW s \in {"none", "same", "changed"}, NEW w \in V \cup {None}
      PROVE  [d EXCEPT !.slot = b] \in Fuse!Caches(V) /\ [d EXCEPT !.obs[r] = s] \in Fuse!Caches(V)
             /\ [d EXCEPT !.slot = b, !.value = w] \in Fuse!Caches(V)
  BY <1>2 DEF Fuse!Caches
<1>3. Fuse!Altered(c) \in Fuse!Caches(V)
  BY AlteredCache
<1>4. Fuse!Finish(c, r) \in Fuse!Caches(V)
  BY <1>2, <1>3 DEF Fuse!Finish
<1>5. Fuse!Publish(c, r, v) \in Fuse!Caches(V)
  BY <1>2, <1>3 DEF Fuse!Publish
<1>6. Fuse!Forgotten(c) \in Fuse!Caches(V)
  BY ForgottenCache
<1>7. Fuse!Forget(c, r) \in Fuse!Caches(V)
  BY <1>6 DEF Fuse!Forget
<1> QED
  BY <1>1, <1>4, <1>5, <1>6, <1>7

(* So does a listing. *)
LEMMA ListingCache ==
    ASSUME NEW V, NEW c \in Fuse!Caches(V), NEW r \in Ops, NEW live \in BOOLEAN
    PROVE  Fuse!ObserveListing(c, r) \in Fuse!Caches(V) /\ Fuse!FinishListing(c, r, live) \in Fuse!Caches(V)
<1>1. Fuse!ObserveListing(c, r) \in Fuse!Caches(V)
  BY DEF Fuse!ObserveListing, Fuse!Caches, Fuse!Listing
<1>2. PICK pruned : pruned = IF live \/ ~c.slot THEN c ELSE IF c.value = None THEN Fuse!Forgotten(c) ELSE Fuse!Forget(c, r)
  OBVIOUS
<1>3. Fuse!Forgotten(c) \in Fuse!Caches(V)
  BY AlteredCache, ForgottenCache
<1>4. pruned \in Fuse!Caches(V)
  BY <1>2, <1>3 DEF Fuse!Forget
<1>5. PICK ls : ls = [q \in Ops |->
             IF q = r \/ pruned.listing[q] = None THEN None ELSE Fuse!Restricted(pruned.listing[q], live)]
  OBVIOUS
<1>6. ls \in [Ops -> {None} \cup [invalidated : BOOLEAN, restricted : BOOLEAN, allowed : BOOLEAN]]
  <2>1. pruned.listing \in [Ops -> {None} \cup [invalidated : BOOLEAN, restricted : BOOLEAN, allowed : BOOLEAN]]
    BY <1>4 DEF Fuse!Caches
  <2> QED
    BY <2>1, <1>5 DEF Fuse!Restricted
<1>7. Fuse!FinishListing(c, r, live) = [pruned EXCEPT !.obs[r] = "none", !.listing = ls]
  BY <1>2, <1>5 DEF Fuse!FinishListing
<1>8. [pruned EXCEPT !.obs[r] = "none", !.listing = ls] \in Fuse!Caches(V)
  BY <1>4, <1>6 DEF Fuse!Caches
<1> QED
  BY <1>1, <1>7, <1>8

-----------------------------------------------------------------------------
(* The indexes of the FUSE mount *)

(* What an operation that is over shows. *)
LEMMA IdleFields ==
    /\ Fuse!Idle.pc = "idle" /\ Fuse!Idle.prefix = None /\ Fuse!Idle.view = None /\ Fuse!Idle.version = None
    /\ Fuse!Idle \in Fuse!Op /\ Fuse!NoVersion \in Fuse!Version /\ Fuse!NoVersion.content = None /\ ~Fuse!NoVersion.building
    /\ \A p \in Prefixes : Fuse!NoVersion.prefixes[p] = "none"
BY DEF Fuse!Idle, Fuse!Op, Fuse!NoVersion, Fuse!Version, Fuse!Holding

(* Nothing is a version. *)
LEMMA NoneIsNoVersion ==
    ASSUME Counting
    PROVE  None \notin Fuse!Versions
<1>1. \A n : n \in Fuse!Versions => n \in Nat
  <2>1. Cardinality(Ops) \in Nat
    BY FuseAssumption DEF Counting, CountIsNatural
  <2> QED
    BY FuseCounts, <2>1, SMTT(30) DEF Fuse!Versions
<1> QED
  BY <1>1, FuseAssumption

(* Initially no version exists. *)
LEMMA ViewInit == Fuse!Init => Fuse!Inductive
<1> SUFFICES ASSUME Fuse!Init PROVE Fuse!Inductive
  OBVIOUS
<1>1. Fuse!TypeOK
  BY IdleFields DEF Fuse!Init, Fuse!TypeOK, Fuse!Empty, Fuse!Caches
<1>2. ASSUME NEW r \in Ops PROVE Fuse!ReadSound(r, v4, v5)
  <2>1. v5[r] = Fuse!Idle
    BY DEF Fuse!Init
  <2> QED
    BY <2>1, IdleFields DEF Fuse!ReadSound, Fuse!Holding
<1>3. ASSUME NEW v \in Fuse!Versions, NEW p \in Prefixes PROVE Fuse!IndexSound(v, p, v4, v5)
  <2>1. v4[v] = Fuse!NoVersion /\ \A r \in Ops : v5[r] = Fuse!Idle
    BY DEF Fuse!Init
  <2> QED
    BY <2>1, IdleFields DEF Fuse!IndexSound, Fuse!Builds
<1> QED
  BY <1>1, <1>2, <1>3 DEF Fuse!Inductive, Fuse!Sound

(* Versions that nobody holds are garbage: collecting them disturbs no read. *)
LEMMA Collecting ==
    ASSUME NEW c \in Fuse!Caches(Fuse!Versions), NEW versions \in [Fuse!Versions -> Fuse!Version], NEW ops \in [Ops -> Fuse!Op],
           Fuse!Inductive, Fuse!Sound(versions, ops), Fuse!Becomes(c, versions, ops)
    PROVE  Fuse!Inductive'
<1>1. v3' = c /\ v5' = ops /\ v1' = v1
  BY DEF Fuse!Becomes
<1>2. ASSUME NEW v \in Fuse!Versions
      PROVE  /\ v4'[v] \in Fuse!Version
             /\ Fuse!VersionHeld(v, c, ops) => v4'[v] = versions[v]
             /\ ~Fuse!VersionHeld(v, c, ops) => v4'[v] = Fuse!NoVersion
  BY <1>2, IdleFields DEF Fuse!Becomes
<1>3. Fuse!TypeOK'
  <2>1. v4' \in [Fuse!Versions -> Fuse!Version]
    BY IdleFields DEF Fuse!Becomes
  <2>2. v1' \in Contents \cup SingleFile \cup {None}
    BY <1>1 DEF Fuse!Inductive, Fuse!TypeOK
  <2> QED
    BY <1>1, <2>1, <2>2 DEF Fuse!TypeOK
<1>4. ASSUME NEW r \in Ops PROVE Fuse!ReadSound(r, v4', v5')
  <2>1. Fuse!ReadSound(r, versions, ops) /\ ops[r] \in Fuse!Op
    BY DEF Fuse!Sound
  <2>2. CASE ops[r].version = None
    <3>1. ops[r].pc # "build" /\ ops[r].pc \notin Fuse!Holding
      BY <2>1, <2>2 DEF Fuse!ReadSound, Fuse!Holding
    <3> QED
      BY <2>1, <2>2, <1>1, <3>1 DEF Fuse!ReadSound
  <2>3. CASE ops[r].version # None
    <3>1. ops[r].version \in Fuse!Versions
      BY <2>1, <2>3 DEF Fuse!Op
    <3>2. v4'[ops[r].version] = versions[ops[r].version]
      BY <3>1, <1>2 DEF Fuse!VersionHeld
    <3> QED
      BY <2>1, <1>1, <3>2 DEF Fuse!ReadSound
  <2> QED
    BY <2>2, <2>3
<1>5. ASSUME NEW v \in Fuse!Versions, NEW p \in Prefixes PROVE Fuse!IndexSound(v, p, v4', v5')
  <2>1. Fuse!IndexSound(v, p, versions, ops)
    BY DEF Fuse!Sound
  <2>2. CASE Fuse!VersionHeld(v, c, ops)
    BY <2>1, <2>2, <1>1, <1>2 DEF Fuse!IndexSound
  <2>3. CASE ~Fuse!VersionHeld(v, c, ops)
    <3>1. \A r \in Ops : ~Fuse!Builds(r, v, p, ops)
      BY <2>3 DEF Fuse!VersionHeld, Fuse!Builds
    <3>2. v4'[v] = Fuse!NoVersion
      BY <2>3, <1>2
    <3> QED
      BY <3>1, <3>2, <1>1, IdleFields DEF Fuse!IndexSound
  <2> QED
    BY <2>2, <2>3
<1> QED
  BY <1>3, <1>4, <1>5 DEF Fuse!Inductive, Fuse!Sound

(* A read that neither begins nor ends a build disturbs no other. *)
LEMMA OpMoves ==
    ASSUME NEW r \in Ops, NEW o \in Fuse!Op, NEW ops, ops = [v5 EXCEPT ![r] = o], Fuse!Inductive,
           v5[r].pc # "build", o.pc # "build",
           o.version # None <=> o.pc \in Fuse!Holding,
           o.pc \in Fuse!Holding \cup {"version"} => o.prefix \in Prefixes /\ o.view \in Contents,
           o.pc = "ask" => o.prefix \in Prefixes,
           o.version # None => v4[o.version].content = o.view
    PROVE  ops \in [Ops -> Fuse!Op] /\ Fuse!Sound(v4, ops)
<1>1. v5 \in [Ops -> Fuse!Op]
  BY DEF Fuse!Inductive, Fuse!TypeOK
<1>2. ops \in [Ops -> Fuse!Op] /\ ops[r] = o /\ \A q \in Ops \ {r} : ops[q] = v5[q]
  BY <1>1
<1>3. ASSUME NEW q \in Ops PROVE Fuse!ReadSound(q, v4, ops)
  <2>1. Fuse!ReadSound(q, v4, v5)
    BY DEF Fuse!Inductive, Fuse!Sound
  <2>2. CASE q = r
    BY <2>2, <1>2 DEF Fuse!ReadSound
  <2>3. CASE q # r
    <3>1. ops[q] = v5[q]
      BY <1>2, <2>3
    <3>2. ops[q].pc = "build" => \A k \in Ops \ {q} : ops[k].version = ops[q].version => ops[k].pc # "build"
      BY <3>1, <2>1, <1>2 DEF Fuse!ReadSound
    <3> QED
      BY <3>1, <3>2, <2>1 DEF Fuse!ReadSound
  <2> QED
    BY <2>2, <2>3
<1>4. ASSUME NEW v \in Fuse!Versions, NEW p \in Prefixes PROVE Fuse!IndexSound(v, p, v4, ops)
  <2>1. Fuse!IndexSound(v, p, v4, v5)
    BY DEF Fuse!Inductive, Fuse!Sound
  <2>2. \A q \in Ops : Fuse!Builds(q, v, p, ops) <=> Fuse!Builds(q, v, p, v5)
    BY <1>2 DEF Fuse!Builds
  <2> QED
    BY <2>1, <2>2 DEF Fuse!IndexSound
<1> QED
  BY <1>2, <1>3, <1>4 DEF Fuse!Sound

(* The steps that neither build a version nor an index. *)
LEMMA OneMoved ==
    ASSUME NEW r \in Ops, NEW o \in Fuse!Op, NEW c \in Fuse!Caches(Fuse!Versions), Fuse!Inductive,
           Fuse!Becomes(c, v4, [v5 EXCEPT ![r] = o]),
           v5[r].pc # "build", o.pc # "build",
           o.version # None <=> o.pc \in Fuse!Holding,
           o.pc \in Fuse!Holding \cup {"version"} => o.prefix \in Prefixes /\ o.view \in Contents,
           o.pc = "ask" => o.prefix \in Prefixes,
           o.version # None => v4[o.version].content = o.view
    PROVE  Fuse!Inductive'
<1>1. PICK ops : ops = [v5 EXCEPT ![r] = o]
  OBVIOUS
<1>2. ops \in [Ops -> Fuse!Op] /\ Fuse!Sound(v4, ops)
  BY <1>1, OpMoves
<1>3. v4 \in [Fuse!Versions -> Fuse!Version]
  BY DEF Fuse!Inductive, Fuse!TypeOK
<1> QED
  BY <1>1, <1>2, <1>3, Collecting

(* A read ends. *)
LEMMA Ending ==
    ASSUME NEW r \in Ops, NEW c \in Fuse!Caches(Fuse!Versions), Fuse!Inductive, v5[r].pc # "build",
           Fuse!Becomes(c, v4, Fuse!Goes(r, "idle"))
    PROVE  Fuse!Inductive'
<1>1. Fuse!Goes(r, "idle") = [v5 EXCEPT ![r] = Fuse!Idle]
  BY DEF Fuse!Goes
<1>2. "idle" \notin Fuse!Holding \cup {"version"}
  BY DEF Fuse!Holding
<1> QED
  BY <1>1, <1>2, IdleFields, OneMoved

(* Listing the library: the cache may lose a version, no read does. *)
LEMMA ListingSound ==
    ASSUME NEW r \in Ops, Fuse!Inductive, Fuse!ListBegin(r) \/ Fuse!ListAsk(r) \/ Fuse!ListFinish(r)
    PROVE  Fuse!Inductive'
<1>1. v3 \in Fuse!Caches(Fuse!Versions) /\ v5 \in [Ops -> Fuse!Op] /\ v5[r] \in Fuse!Op /\ Fuse!ReadSound(r, v4, v5)
      /\ v1 \in Contents \cup SingleFile \cup {None}
  BY DEF Fuse!Inductive, Fuse!TypeOK, Fuse!Sound
<1>2. CASE Fuse!ListBegin(r)
  <2>1. Fuse!ObserveListing(v3, r) \in Fuse!Caches(Fuse!Versions)
    BY <1>1, ListingCache
  <2>2. v5[r] = Fuse!Idle /\ Fuse!Goes(r, "list") = [v5 EXCEPT ![r] = [Fuse!Idle EXCEPT !.pc = "list"]]
    BY <1>1, <1>2 DEF Fuse!Goes, Fuse!ListBegin
  <2>3. PICK o : o = [Fuse!Idle EXCEPT !.pc = "list"]
    OBVIOUS
  <2>4. o \in Fuse!Op /\ o.pc = "list" /\ o.version = None
    BY <2>3 DEF Fuse!Idle, Fuse!Op
  <2>5. o.pc \notin Fuse!Holding \cup {"version"}
    BY <2>4 DEF Fuse!Holding
  <2> QED
    BY <1>2, <2>1, <2>2, <2>3, <2>4, <2>5, IdleFields, OneMoved DEF Fuse!ListBegin
<1>3. CASE Fuse!ListAsk(r)
  <2>1. v5[r].pc = "list" /\ v5[r].version = None
    BY <1>1, <1>3 DEF Fuse!ListAsk, Fuse!ReadSound, Fuse!Holding
  <2>2. PICK o : o = [v5[r] EXCEPT !.pc = "listed", !.view = v1]
    OBVIOUS
  <2>3. [v5 EXCEPT ![r].pc = "listed", ![r].view = v1] = [v5 EXCEPT ![r] = o]
    BY <2>2, <1>1
  <2>4. o \in Fuse!Op /\ o.pc = "listed" /\ o.version = None
    BY <2>1, <2>2, <1>1 DEF Fuse!Op
  <2>5. o.pc \notin Fuse!Holding \cup {"version"}
    BY <2>4 DEF Fuse!Holding
  <2> QED
    BY <1>1, <1>3, <2>1, <2>3, <2>4, <2>5, OneMoved DEF Fuse!ListAsk
<1>4. CASE Fuse!ListFinish(r)
  <2>1. Fuse!FinishListing(v3, r, v5[r].view # None) \in Fuse!Caches(Fuse!Versions)
    BY <1>1, ListingCache
  <2> QED
    BY <1>4, <2>1, Ending DEF Fuse!ListFinish
<1> QED
  BY <1>2, <1>3, <1>4


(* A read of a directory, up to the version and from there to its end. *)
LEMMA DirectorySound ==
    ASSUME Counting, NEW r \in Ops, Fuse!Inductive,
           \/ \E p \in Prefixes : Fuse!DirectoryBegin(r, p)
           \/ Fuse!Ask(r) \/ Fuse!ForgetView(r) \/ Fuse!DirectoryFinish(r)
    PROVE  Fuse!Inductive'
<1>1. v3 \in Fuse!Caches(Fuse!Versions) /\ v5 \in [Ops -> Fuse!Op] /\ v5[r] \in Fuse!Op /\ Fuse!ReadSound(r, v4, v5)
      /\ v1 \in Contents \cup SingleFile \cup {None}
  BY DEF Fuse!Inductive, Fuse!TypeOK, Fuse!Sound
<1>c. 1 \in Fuse!Versions
  <2>1. Cardinality(Ops) \in Nat
    BY FuseAssumption DEF Counting, CountIsNatural
  <2> QED
    BY FuseCounts, <2>1, SMTT(30) DEF Fuse!Versions
<1>2. ASSUME NEW p \in Prefixes, Fuse!DirectoryBegin(r, p) PROVE Fuse!Inductive'
  <2>1. Fuse!Observe(v3, r) \in Fuse!Caches(Fuse!Versions)
    BY <1>1, <1>c, NarrowCache
  <2>2. v5[r] = Fuse!Idle
    BY <1>2 DEF Fuse!DirectoryBegin
  <2>3. PICK o : o = [Fuse!Idle EXCEPT !.pc = "ask", !.prefix = p]
    OBVIOUS
  <2>4. o \in Fuse!Op /\ o.pc = "ask" /\ o.version = None /\ o.prefix = p
    BY <2>3 DEF Fuse!Idle, Fuse!Op
  <2>5. o.pc \notin Fuse!Holding \cup {"version"}
    BY <2>4 DEF Fuse!Holding
  <2> QED
    BY <1>2, <2>1, <2>2, <2>3, <2>4, <2>5, IdleFields, OneMoved DEF Fuse!DirectoryBegin
<1>3. CASE Fuse!Ask(r)
  <2>1. v5[r].pc = "ask" /\ v5[r].version = None /\ v5[r].prefix \in Prefixes
    BY <1>1, <1>3 DEF Fuse!Ask, Fuse!ReadSound, Fuse!Holding
  <2>2. PICK o : o = [v5[r] EXCEPT !.view = v1, !.pc = IF v1 \in Contents THEN "version" ELSE "forget"]
    OBVIOUS
  <2>3. [v5 EXCEPT ![r].view = v1, ![r].pc = IF v1 \in Contents THEN "version" ELSE "forget"]
          = [v5 EXCEPT ![r] = o]
    BY <2>2, <1>1
  <2>4. /\ o \in Fuse!Op /\ o.version = None /\ o.prefix = v5[r].prefix /\ o.view = v1
        /\ o.pc = IF v1 \in Contents THEN "version" ELSE "forget"
    BY <2>1, <2>2, <1>1 DEF Fuse!Op
  <2>5. o.pc \notin Fuse!Holding /\ (o.pc = "version" => v1 \in Contents)
    BY <2>4 DEF Fuse!Holding
  <2>6. o.pc # "build" /\ o.pc # "ask"
    BY <2>4
  <2>7. Fuse!Becomes(v3, v4, [v5 EXCEPT ![r] = o])
    BY <1>3, <2>3 DEF Fuse!Ask
  <2> QED
    BY <1>1, <2>1, <2>4, <2>5, <2>6, <2>7, OneMoved
<1>4. CASE Fuse!ForgetView(r)
  <2>1. Fuse!Forget(v3, r) \in Fuse!Caches(Fuse!Versions)
    BY <1>1, <1>c, NarrowCache
  <2>2. Fuse!Finish(Fuse!Forget(v3, r), r) \in Fuse!Caches(Fuse!Versions)
    BY <2>1, <1>c, NarrowCache
  <2> QED
    BY <1>4, <2>2, Ending DEF Fuse!ForgetView
<1>5. CASE Fuse!DirectoryFinish(r)
  <2>1. Fuse!Finish(v3, r) \in Fuse!Caches(Fuse!Versions)
    BY <1>1, <1>c, NarrowCache
  <2> QED
    BY <1>5, <2>1, Ending DEF Fuse!DirectoryFinish
<1> QED
  BY <1>2, <1>3, <1>4, <1>5

(* There is a version free for a read that has none: the others and the      *)
(* cache hold at most as many as there are reads.                            *)
LEMMA FreshVersionFree ==
    ASSUME Counting, NEW r \in Ops, Fuse!Inductive, v5[r].version = None
    PROVE  Fuse!FreshVersion \in Fuse!Versions /\ ~Fuse!VersionHeld(Fuse!FreshVersion, v3, v5)
<1>1. PICK n : n = Cardinality(Ops)
  OBVIOUS
<1>2. n \in Nat /\ n >= 1 /\ Cardinality(Ops \ {r}) = n - 1 /\ IsFiniteSet(Ops \ {r})
  <2>1. n \in Nat
    BY <1>1, FuseAssumption DEF Counting, CountIsNatural
  <2>2. n # 0
    BY <1>1, FuseAssumption DEF Counting, EmptyCount
  <2>3. IsFiniteSet(Ops \ {r}) /\ Cardinality(Ops \ {r}) = n - 1
    BY <1>1, FuseAssumption DEF Counting, RemovedCount
  <2> QED
    BY <2>1, <2>2, <2>3, SMTT(30)
<1>3. PICK H : H = {v5[q].version : q \in Ops \ {r}}
  OBVIOUS
<1>4. IsFiniteSet(H) /\ Cardinality(H) <= n - 1 /\ Cardinality(H) \in Nat
  <2>1. PICK h : h = [q \in Ops \ {r} |-> v5[q].version]
    OBVIOUS
  <2>2. h \in Onto(Ops \ {r}, H)
    BY <2>1, <1>3 DEF Onto
  <2>3. IsFiniteSet(H) /\ Cardinality(H) <= Cardinality(Ops \ {r})
    BY <2>2, <1>2 DEF Counting, ImageCount
  <2> QED
    BY <2>3, <1>2 DEF Counting, CountIsNatural
<1>5. IsFiniteSet(H \cup {v3.value}) /\ Cardinality(H \cup {v3.value}) <= n
  <2>1. IsFiniteSet(H \cup {v3.value})
        /\ (Cardinality(H \cup {v3.value}) = Cardinality(H) \/ Cardinality(H \cup {v3.value}) = Cardinality(H) + 1)
    BY <1>4 DEF Counting, AddedCount
  <2> QED
    BY <2>1, <1>4, <1>2, SMTT(30)
<1>6. IsFiniteSet(Fuse!Versions) /\ Cardinality(Fuse!Versions) = n + 1
  <2>1. PICK a, b : a = 1 /\ b = n + 1
    OBVIOUS
  <2>2. a \in Int /\ b \in Int /\ ~(a > b) /\ b - a + 1 = n + 1
    BY <2>1, <1>2, SMTT(30)
  <2>3. IsFiniteSet(a .. b) /\ Cardinality(a .. b) = b - a + 1
    BY <2>2 DEF Counting, IntervalCount
  <2>4. Fuse!Versions = a .. b
    BY FuseCounts, <2>1, <1>1 DEF Fuse!Versions
  <2> QED
    BY <2>2, <2>3, <2>4
<1>7. PICK v \in Fuse!Versions : v \notin H \cup {v3.value}
  <2>1. ASSUME Fuse!Versions \subseteq H \cup {v3.value} PROVE FALSE
    <3>1. Cardinality(Fuse!Versions) <= Cardinality(H \cup {v3.value})
      BY <2>1, <1>5 DEF Counting, SubsetCount
    <3>2. Cardinality(H \cup {v3.value}) \in Nat
      BY <1>5 DEF Counting, CountIsNatural
    <3> QED
      BY <3>1, <3>2, <1>2, <1>5, <1>6, SMTT(30)
  <2> QED
    BY <2>1
<1>8. ~Fuse!VersionHeld(v, v3, v5)
  <2>1. ASSUME NEW q \in Ops, v = v5[q].version PROVE FALSE
    BY <2>1, <1>3, <1>7, NoneIsNoVersion
  <2> QED
    BY <2>1, <1>7 DEF Fuse!VersionHeld
<1> QED
  BY <1>7, <1>8 DEF Fuse!FreshVersion

(* directoryVersion: the version that fits the contents is taken, and        *)
(* another is begun when none does.                                          *)
LEMMA VersionSound ==
    ASSUME Counting, NEW r \in Ops, Fuse!Inductive, Fuse!DirectoryVersion(r)
    PROVE  Fuse!Inductive'
<1>1. /\ v3 \in Fuse!Caches(Fuse!Versions) /\ v5 \in [Ops -> Fuse!Op] /\ v5[r] \in Fuse!Op /\ Fuse!ReadSound(r, v4, v5)
      /\ v4 \in [Fuse!Versions -> Fuse!Version]
  BY DEF Fuse!Inductive, Fuse!TypeOK, Fuse!Sound
<1>2. v5[r].pc = "version" /\ v5[r].version = None /\ v5[r].prefix \in Prefixes /\ v5[r].view \in Contents
  BY <1>1 DEF Fuse!DirectoryVersion, Fuse!ReadSound, Fuse!Holding
<1>3. v3.value \in Fuse!Versions \cup {None}
  BY <1>1 DEF Fuse!Caches
<1>4. ASSUME NEW v \in Fuse!Versions
      PROVE  /\ [Fuse!Goes(r, "index") EXCEPT ![r].version = v]
                  = [v5 EXCEPT ![r] = [v5[r] EXCEPT !.pc = "index", !.version = v]]
             /\ [v5[r] EXCEPT !.pc = "index", !.version = v] \in Fuse!Op
             /\ [v5[r] EXCEPT !.pc = "index", !.version = v].pc = "index"
             /\ [v5[r] EXCEPT !.pc = "index", !.version = v].version = v
             /\ [v5[r] EXCEPT !.pc = "index", !.version = v].prefix = v5[r].prefix
             /\ [v5[r] EXCEPT !.pc = "index", !.version = v].view = v5[r].view
  BY <1>1, <1>4 DEF Fuse!Goes, Fuse!Op, Fuse!Holding
<1>5. CASE v3.value # None /\ Fuse!Matches(v3.value, v5[r].view)
  <2>1. PICK v : v = v3.value
    OBVIOUS
  <2>2. v \in Fuse!Versions /\ v4[v].content = v5[r].view
    BY <2>1, <1>3, <1>5 DEF Fuse!Matches
  <2>3. Fuse!Becomes(v3, v4, [Fuse!Goes(r, "index") EXCEPT ![r].version = v])
    BY <2>1, <1>5 DEF Fuse!DirectoryVersion
  <2>4. PICK o : o = [v5[r] EXCEPT !.pc = "index", !.version = v]
    OBVIOUS
  <2>5. /\ o \in Fuse!Op /\ o.pc = "index" /\ o.version = v /\ o.prefix = v5[r].prefix /\ o.view = v5[r].view
        /\ Fuse!Becomes(v3, v4, [v5 EXCEPT ![r] = o])
    BY <2>2, <2>3, <2>4, <1>4
  <2>6. "index" \in Fuse!Holding /\ v # None
    BY <2>2, NoneIsNoVersion DEF Fuse!Holding
  <2> QED
    BY <1>1, <1>2, <2>2, <2>5, <2>6, OneMoved
<1>6. CASE ~(v3.value # None /\ Fuse!Matches(v3.value, v5[r].view))
  <2>1. PICK v : v = Fuse!FreshVersion
    OBVIOUS
  <2>2. v \in Fuse!Versions /\ ~Fuse!VersionHeld(v, v3, v5) /\ v # None
    BY <2>1, <1>2, FreshVersionFree, NoneIsNoVersion
  <2>3. PICK o : o = [v5[r] EXCEPT !.pc = "index", !.version = v]
    OBVIOUS
  <2>4. PICK ops : ops = [v5 EXCEPT ![r] = o]
    OBVIOUS
  <2>5. PICK versions : versions = [v4 EXCEPT ![v] = [Fuse!NoVersion EXCEPT !.content = v5[r].view]]
    OBVIOUS
  <2>6. /\ o \in Fuse!Op /\ o.pc = "index" /\ o.version = v /\ o.prefix = v5[r].prefix /\ o.view = v5[r].view
        /\ [Fuse!Goes(r, "index") EXCEPT ![r].version = v] = ops
    BY <2>2, <2>3, <2>4, <1>4
  <2>7. Fuse!Becomes(Fuse!Publish(v3, r, v), versions, ops)
    BY <2>1, <2>5, <2>6, <1>6 DEF Fuse!DirectoryVersion
  <2>8. Fuse!Publish(v3, r, v) \in Fuse!Caches(Fuse!Versions)
    BY <1>1, <2>2, NarrowCache
  <2>9. /\ ops \in [Ops -> Fuse!Op] /\ ops[r] = o /\ \A q \in Ops \ {r} : ops[q] = v5[q]
        /\ versions \in [Fuse!Versions -> Fuse!Version] /\ versions[v].content = v5[r].view
        /\ \A p \in Prefixes : versions[v].prefixes[p] = "none"
        /\ \A w \in Fuse!Versions \ {v} : versions[w] = v4[w]
    <3>1. [Fuse!NoVersion EXCEPT !.content = v5[r].view] \in Fuse!Version
      BY <1>2 DEF Fuse!NoVersion, Fuse!Version
    <3>2. versions[v] = [Fuse!NoVersion EXCEPT !.content = v5[r].view] /\ versions \in [Fuse!Versions -> Fuse!Version]
          /\ \A w \in Fuse!Versions \ {v} : versions[w] = v4[w]
      BY <3>1, <2>5, <1>1, <2>2
    <3>3. /\ [Fuse!NoVersion EXCEPT !.content = v5[r].view].content = v5[r].view
          /\ \A p \in Prefixes : [Fuse!NoVersion EXCEPT !.content = v5[r].view].prefixes[p] = "none"
      BY DEF Fuse!NoVersion
    <3> QED
      BY <3>2, <3>3, <2>4, <2>6, <1>1
  <2>10. ASSUME NEW q \in Ops PROVE Fuse!ReadSound(q, versions, ops)
    <3>1. CASE q = r
      <4>1. /\ ops[q].pc = "index" /\ ops[q].version = v /\ ops[q].prefix \in Prefixes
            /\ ops[q].view = v5[r].view /\ v5[r].view \in Contents
        BY <3>1, <2>6, <2>9, <1>2
      <4> QED
        BY <4>1, <2>2, <2>9 DEF Fuse!ReadSound, Fuse!Holding
    <3>2. CASE q # r
      <4>1. Fuse!ReadSound(q, v4, v5) /\ ops[q] = v5[q] /\ v5[q] \in Fuse!Op
        BY <3>2, <2>9, <1>1 DEF Fuse!Inductive, Fuse!Sound
      <4>2. v5[q].version # v
        BY <2>2 DEF Fuse!VersionHeld
      <4>3. v5[q].version # None => versions[v5[q].version] = v4[v5[q].version]
        BY <4>1, <4>2, <2>9 DEF Fuse!Op
      <4>4. ASSUME ops[q].pc = "build", NEW k \in Ops \ {q}, ops[k].version = ops[q].version
            PROVE  ops[k].pc # "build"
        <5>1. CASE k = r
          BY <5>1, <2>6, <2>9
        <5>2. CASE k # r
          <6>1. ops[k] = v5[k]
            BY <5>2, <2>9
          <6> QED
            BY <6>1, <4>1, <4>4 DEF Fuse!ReadSound
        <5> QED
          BY <5>1, <5>2
      <4>5. v5[q].pc = "build" => v5[q].version # None
        BY <4>1 DEF Fuse!ReadSound, Fuse!Holding
      <4> QED
        BY <4>1, <4>3, <4>4, <4>5 DEF Fuse!ReadSound
    <3> QED
      BY <3>1, <3>2
  <2>11. ASSUME NEW w \in Fuse!Versions, NEW p \in Prefixes PROVE Fuse!IndexSound(w, p, versions, ops)
    <3>1. \A q \in Ops : Fuse!Builds(q, w, p, ops) <=> Fuse!Builds(q, w, p, v5)
      BY <2>6, <2>9, <1>2 DEF Fuse!Builds
    <3>2. CASE w = v
      <4>1. \A q \in Ops : ~Fuse!Builds(q, w, p, v5)
        BY <2>2, <3>2 DEF Fuse!Builds, Fuse!VersionHeld
      <4> QED
        BY <3>1, <3>2, <4>1, <2>9 DEF Fuse!IndexSound
    <3>3. CASE w # v
      <4>1. Fuse!IndexSound(w, p, v4, v5) /\ versions[w] = v4[w]
        BY <3>3, <2>9 DEF Fuse!Inductive, Fuse!Sound
      <4> QED
        BY <3>1, <4>1 DEF Fuse!IndexSound
    <3> QED
      BY <3>2, <3>3
  <2> QED
    BY <2>7, <2>8, <2>9, <2>10, <2>11, Collecting DEF Fuse!Sound
<1> QED
  BY <1>5, <1>6


(* indexForVersion: the index is there, or somebody builds it, or one of     *)
(* another directory of the version.                                         *)
LEMMA WaitingSound ==
    ASSUME NEW r \in Ops, Fuse!Inductive, Fuse!IndexExisting(r) \/ Fuse!IndexQueued(r)
    PROVE  Fuse!Inductive'
<1>1. /\ v3 \in Fuse!Caches(Fuse!Versions) /\ v5 \in [Ops -> Fuse!Op] /\ v5[r] \in Fuse!Op /\ Fuse!ReadSound(r, v4, v5)
  BY DEF Fuse!Inductive, Fuse!TypeOK, Fuse!Sound
<1>2. PICK pc \in {"finish", "ready", "queued"} : Fuse!Becomes(v3, v4, Fuse!Goes(r, pc)) /\ v5[r].pc = "index"
  BY DEF Fuse!IndexExisting, Fuse!IndexQueued
<1>3. PICK o : o = [v5[r] EXCEPT !.pc = pc]
  OBVIOUS
<1>4. Fuse!Goes(r, pc) = [v5 EXCEPT ![r] = o]
  BY <1>2, <1>3, <1>1 DEF Fuse!Goes
<1>5. o \in Fuse!Op /\ o.pc = pc /\ o.version = v5[r].version /\ o.prefix = v5[r].prefix /\ o.view = v5[r].view
  BY <1>1, <1>2, <1>3 DEF Fuse!Op, Fuse!Holding
<1>6. pc \in Fuse!Holding /\ pc # "build" /\ pc # "ask" /\ v5[r].pc \in Fuse!Holding
  BY <1>2 DEF Fuse!Holding
<1>7. v5[r].version # None /\ v5[r].prefix \in Prefixes /\ v5[r].view \in Contents
      /\ v4[v5[r].version].content = v5[r].view
  BY <1>1, <1>6 DEF Fuse!ReadSound
<1>8. v5[r].pc # "build" /\ Fuse!Becomes(v3, v4, [v5 EXCEPT ![r] = o])
  BY <1>2, <1>4
<1> QED
  BY <1>1, <1>5, <1>6, <1>7, <1>8, OneMoved

(* No index of a version is pending unless a read builds one. *)
LEMMA BuildersKnown ==
    ASSUME NEW r \in Ops, Fuse!Inductive, v5[r].version # None
    PROVE  /\ v5[r].version \in Fuse!Versions /\ v5[r].prefix \in Prefixes /\ v5[r].view \in Contents
           /\ v4[v5[r].version] \in Fuse!Version /\ v4[v5[r].version].content = v5[r].view
           /\ ~v4[v5[r].version].building =>
                \A q \in Ops : v5[q].version = v5[r].version => v5[q].pc # "build"
<1>1. v5[r] \in Fuse!Op /\ Fuse!ReadSound(r, v4, v5) /\ v4 \in [Fuse!Versions -> Fuse!Version]
  BY DEF Fuse!Inductive, Fuse!TypeOK, Fuse!Sound
<1>2. v5[r].version \in Fuse!Versions /\ v5[r].prefix \in Prefixes /\ v5[r].view \in Contents
      /\ v4[v5[r].version].content = v5[r].view
  BY <1>1 DEF Fuse!Op, Fuse!ReadSound
<1>3. ASSUME ~v4[v5[r].version].building, NEW q \in Ops, v5[q].version = v5[r].version
      PROVE  v5[q].pc # "build"
  <2>1. Fuse!ReadSound(q, v4, v5)
    BY DEF Fuse!Inductive, Fuse!Sound
  <2> QED
    BY <1>3, <2>1 DEF Fuse!ReadSound
<1> QED
  BY <1>1, <1>2, <1>3

(* One read begins to build an index. *)
LEMMA BuildBegun ==
    ASSUME NEW r \in Ops, Fuse!Inductive, Fuse!IndexBegin(r)
    PROVE  Fuse!Inductive'
<1>1. /\ v3 \in Fuse!Caches(Fuse!Versions) /\ v5 \in [Ops -> Fuse!Op] /\ v5[r] \in Fuse!Op /\ Fuse!ReadSound(r, v4, v5)
      /\ v4 \in [Fuse!Versions -> Fuse!Version]
  BY DEF Fuse!Inductive, Fuse!TypeOK, Fuse!Sound
<1>2. PICK v, p : v = v5[r].version /\ p = v5[r].prefix
  OBVIOUS
<1>3. v5[r].pc = "index" /\ v4[v].prefixes[p] = "none" /\ ~v4[v].building
  BY <1>2 DEF Fuse!IndexBegin
<1>4. v5[r].version # None
  BY <1>1, <1>3 DEF Fuse!ReadSound, Fuse!Holding
<1>5. /\ v \in Fuse!Versions /\ p \in Prefixes /\ v5[r].view \in Contents /\ v # None
      /\ v4[v] \in Fuse!Version /\ v4[v].content = v5[r].view
      /\ \A q \in Ops : v5[q].version = v => v5[q].pc # "build"
  BY <1>2, <1>3, <1>4, BuildersKnown
<1>6. PICK n : n = [v4[v] EXCEPT !.prefixes[p] = "pending", !.building = TRUE]
  OBVIOUS
<1>7. /\ n \in Fuse!Version /\ n.content = v4[v].content /\ n.building
      /\ n.prefixes[p] = "pending" /\ \A s \in Prefixes \ {p} : n.prefixes[s] = v4[v].prefixes[s]
  BY <1>5, <1>6 DEF Fuse!Version
<1>8. PICK versions : versions = [v4 EXCEPT ![v] = n]
  OBVIOUS
<1>9. [v4 EXCEPT ![v].prefixes[p] = "pending", ![v].building = TRUE] = versions
  BY <1>1, <1>5, <1>6, <1>8
<1>10. /\ versions \in [Fuse!Versions -> Fuse!Version] /\ versions[v] = n
       /\ \A w \in Fuse!Versions \ {v} : versions[w] = v4[w]
  BY <1>1, <1>5, <1>7, <1>8
<1>11. PICK o : o = [v5[r] EXCEPT !.pc = "build"]
  OBVIOUS
<1>12. o \in Fuse!Op /\ o.pc = "build" /\ o.version = v /\ o.prefix = p /\ o.view = v5[r].view
  BY <1>1, <1>2, <1>11 DEF Fuse!Op, Fuse!Holding
<1>13. PICK ops : ops = [v5 EXCEPT ![r] = o]
  OBVIOUS
<1>14. Fuse!Goes(r, "build") = ops
  BY <1>1, <1>11, <1>13 DEF Fuse!Goes
<1>15. ops \in [Ops -> Fuse!Op] /\ ops[r] = o /\ \A q \in Ops \ {r} : ops[q] = v5[q]
  BY <1>1, <1>12, <1>13
<1>16. Fuse!Becomes(v3, versions, ops)
  BY <1>2, <1>9, <1>14 DEF Fuse!IndexBegin
<1>17. ASSUME NEW q \in Ops PROVE Fuse!ReadSound(q, versions, ops)
  <2>1. CASE q = r
    <3>1. /\ ops[q].pc = "build" /\ ops[q].version = v /\ ops[q].prefix \in Prefixes
          /\ ops[q].view = v5[r].view /\ v5[r].view \in Contents
          /\ versions[v].content = v5[r].view /\ versions[v].building
      BY <2>1, <1>5, <1>7, <1>10, <1>12, <1>15
    <3>2. \A k \in Ops \ {q} : ops[k].version = ops[q].version => ops[k].pc # "build"
      BY <2>1, <3>1, <1>5, <1>15
    <3> QED
      BY <3>1, <3>2, <1>5 DEF Fuse!ReadSound, Fuse!Holding
  <2>2. CASE q # r
    <3>1. Fuse!ReadSound(q, v4, v5) /\ ops[q] = v5[q] /\ v5[q] \in Fuse!Op
      BY <2>2, <1>1, <1>15 DEF Fuse!Inductive, Fuse!Sound
    <3>2. v5[q].pc = "build" => v5[q].version # None /\ v5[q].version # v
      BY <3>1, <1>5 DEF Fuse!ReadSound, Fuse!Holding
    <3>3. v5[q].version # None =>
            /\ versions[v5[q].version].content = v4[v5[q].version].content
            /\ v5[q].version # v => versions[v5[q].version] = v4[v5[q].version]
      BY <3>1, <1>7, <1>10 DEF Fuse!Op
    <3>4. ops[q].pc = "build" => \A k \in Ops \ {q} : ops[k].version = ops[q].version => ops[k].pc # "build"
      BY <3>1, <3>2, <1>12, <1>15 DEF Fuse!ReadSound
    <3> QED
      BY <3>1, <3>2, <3>3, <3>4 DEF Fuse!ReadSound
  <2> QED
    BY <2>1, <2>2
<1>18. ASSUME NEW w \in Fuse!Versions, NEW s \in Prefixes PROVE Fuse!IndexSound(w, s, versions, ops)
  <2>1. Fuse!IndexSound(w, s, v4, v5)
    BY DEF Fuse!Inductive, Fuse!Sound
  <2>2. CASE w = v /\ s = p
    <3>1. Fuse!Builds(r, w, s, ops)
      BY <2>2, <1>12, <1>15 DEF Fuse!Builds
    <3> QED
      BY <3>1, <2>2, <1>7, <1>10 DEF Fuse!IndexSound
  <2>3. CASE ~(w = v /\ s = p)
    <3>1. \A q \in Ops : Fuse!Builds(q, w, s, ops) <=> Fuse!Builds(q, w, s, v5)
      BY <2>3, <1>3, <1>12, <1>15 DEF Fuse!Builds
    <3>2. versions[w].content = v4[w].content /\ versions[w].prefixes[s] = v4[w].prefixes[s]
      BY <2>3, <1>7, <1>10
    <3> QED
      BY <3>1, <3>2, <2>1 DEF Fuse!IndexSound
  <2> QED
    BY <2>2, <2>3
<1> QED
  BY <1>1, <1>10, <1>15, <1>16, <1>17, <1>18, Collecting DEF Fuse!Sound

(* The build ends: the index is kept or not, those who waited go on. *)
LEMMA BuildEnded ==
    ASSUME NEW r \in Ops, Fuse!Inductive, Fuse!IndexEnd(r)
    PROVE  Fuse!Inductive'
<1>1. /\ v3 \in Fuse!Caches(Fuse!Versions) /\ v5 \in [Ops -> Fuse!Op] /\ v5[r] \in Fuse!Op /\ Fuse!ReadSound(r, v4, v5)
      /\ v4 \in [Fuse!Versions -> Fuse!Version]
  BY DEF Fuse!Inductive, Fuse!TypeOK, Fuse!Sound
<1>2. PICK v, p : v = v5[r].version /\ p = v5[r].prefix
  OBVIOUS
<1>3. v5[r].pc = "build" /\ v5[r].version # None
  BY <1>1 DEF Fuse!IndexEnd, Fuse!ReadSound, Fuse!Holding
<1>4. /\ v \in Fuse!Versions /\ p \in Prefixes /\ v5[r].view \in Contents /\ v # None
      /\ v4[v] \in Fuse!Version /\ v4[v].content = v5[r].view
      /\ \A q \in Ops \ {r} : v5[q].version = v => v5[q].pc # "build"
  BY <1>1, <1>2, <1>3, BuildersKnown DEF Fuse!ReadSound
<1>5. PICK x : x = IF Fuse!Retained(r) THEN "built" ELSE "none"
  OBVIOUS
<1>6. x \in {"built", "none"} /\ (x = "built" => p \in Has[v5[r].view])
  BY <1>2, <1>5 DEF Fuse!Retained
<1>7. PICK n : n = [v4[v] EXCEPT !.prefixes[p] = x, !.building = FALSE]
  OBVIOUS
<1>8. /\ n \in Fuse!Version /\ n.content = v4[v].content
      /\ n.prefixes[p] = x /\ \A s \in Prefixes \ {p} : n.prefixes[s] = v4[v].prefixes[s]
  BY <1>4, <1>6, <1>7 DEF Fuse!Version
<1>9. PICK versions : versions = [v4 EXCEPT ![v] = n]
  OBVIOUS
<1>10. /\ versions \in [Fuse!Versions -> Fuse!Version] /\ versions[v] = n
       /\ \A w \in Fuse!Versions \ {v} : versions[w] = v4[w]
       /\ [v4 EXCEPT ![v].prefixes[p] = x, ![v].building = FALSE] = versions
  BY <1>1, <1>4, <1>7, <1>8, <1>9
<1>11. PICK ops : ops = [Fuse!Woken(r) EXCEPT ![r].pc = "finish"]
  OBVIOUS
<1>12. Fuse!Becomes(v3, versions, ops)
  BY <1>2, <1>5, <1>10, <1>11 DEF Fuse!IndexEnd
<1>13. ASSUME NEW q \in Ops
       PROVE  \/ ops[q] = v5[q] /\ q # r
              \/ ops[q] = [v5[q] EXCEPT !.pc = "finish"] /\ v5[q].version = v /\ v5[q].pc \in Fuse!Holding
              \/ ops[q] = [v5[q] EXCEPT !.pc = "index"] /\ v5[q].version = v /\ v5[q].pc \in Fuse!Holding /\ q # r
  <2>1. CASE q = r
    <3>1. Fuse!Woken(r)[r] = v5[r]
      BY <1>3 DEF Fuse!Woken
    <3>2. ops[r] = [v5[r] EXCEPT !.pc = "finish"]
      BY <3>1, <1>11 DEF Fuse!Woken
    <3> QED
      BY <2>1, <3>2, <1>2, <1>3 DEF Fuse!Holding
  <2>2. CASE q # r
    <3>1. ops[q] = Fuse!Woken(r)[q]
      BY <2>2, <1>11 DEF Fuse!Woken
    <3> QED
      BY <2>2, <3>1, <1>2 DEF Fuse!Woken, Fuse!Holding
  <2> QED
    BY <2>1, <2>2
<1>14. ASSUME NEW q \in Ops
       PROVE  /\ ops[q] \in Fuse!Op /\ ops[q].version = v5[q].version /\ ops[q].prefix = v5[q].prefix
              /\ ops[q].view = v5[q].view /\ (ops[q].pc \in Fuse!Holding <=> v5[q].pc \in Fuse!Holding)
              /\ ops[q].pc = v5[q].pc \/ (v5[q].version = v /\ ops[q].pc \in {"finish", "index"})
              /\ ops[q].pc = "build" => v5[q].pc = "build" /\ v5[q].version # v
  <2>1. v5[q] \in Fuse!Op
    BY <1>1
  <2>2. CASE ops[q] = v5[q] /\ q # r
    BY <2>1, <2>2, <1>4
  <2>3. ASSUME NEW y \in {"finish", "index"}, ops[q] = [v5[q] EXCEPT !.pc = y], v5[q].version = v, v5[q].pc \in Fuse!Holding
        PROVE  /\ ops[q] \in Fuse!Op /\ ops[q].version = v5[q].version /\ ops[q].prefix = v5[q].prefix
               /\ ops[q].view = v5[q].view /\ (ops[q].pc \in Fuse!Holding <=> v5[q].pc \in Fuse!Holding)
               /\ ops[q].pc = y
    <3>1. y \in Fuse!Holding
      BY DEF Fuse!Holding
    <3>2. ops[q] \in Fuse!Op /\ ops[q].version = v5[q].version /\ ops[q].prefix = v5[q].prefix
          /\ ops[q].view = v5[q].view /\ ops[q].pc = y
      BY <2>1, <2>3, <3>1 DEF Fuse!Op
    <3> QED
      BY <3>1, <3>2, <2>3
  <2> QED
    BY <2>2, <2>3, <1>13
<1>15. ops \in [Ops -> Fuse!Op]
  <2>1. ops = [q \in Ops |-> ops[q]]
    BY <1>11 DEF Fuse!Woken
  <2> QED
    BY <2>1, <1>14
<1>16. ASSUME NEW q \in Ops PROVE Fuse!ReadSound(q, versions, ops)
  <2>1. Fuse!ReadSound(q, v4, v5) /\ v5[q] \in Fuse!Op
    BY <1>1 DEF Fuse!Inductive, Fuse!Sound
  <2>2. v5[q].version # None =>
            /\ versions[v5[q].version].content = v4[v5[q].version].content
            /\ v5[q].version # v => versions[v5[q].version] = v4[v5[q].version]
    BY <2>1, <1>8, <1>10 DEF Fuse!Op
  <2>3. v5[q].pc = "build" => v5[q].version # None
    BY <2>1 DEF Fuse!ReadSound, Fuse!Holding
  <2>4. ops[q].pc = "build" => \A k \in Ops \ {q} : ops[k].version = ops[q].version => ops[k].pc # "build"
    BY <2>1, <1>14 DEF Fuse!ReadSound
  <2>5. ops[q].pc = "build" => versions[ops[q].version].building
    BY <2>1, <2>2, <2>3, <1>14 DEF Fuse!ReadSound
  <2>6. ops[q].pc = "version" => v5[q].pc = "version"
    BY <1>14
  <2>7. ops[q].pc = "ask" => v5[q].pc = "ask"
    BY <1>14
  <2>8. /\ ops[q].version = v5[q].version /\ ops[q].prefix = v5[q].prefix
        /\ ops[q].view = v5[q].view /\ (ops[q].pc \in Fuse!Holding <=> v5[q].pc \in Fuse!Holding)
    BY <1>14
  <2> QED
    BY <2>1, <2>2, <2>4, <2>5, <2>6, <2>7, <2>8 DEF Fuse!ReadSound
<1>17. ASSUME NEW w \in Fuse!Versions, NEW s \in Prefixes PROVE Fuse!IndexSound(w, s, versions, ops)
  <2>1. Fuse!IndexSound(w, s, v4, v5)
    BY DEF Fuse!Inductive, Fuse!Sound
  <2>2. CASE w = v
    <3>1. \A q \in Ops : ~Fuse!Builds(q, w, s, ops)
      BY <2>2, <1>14 DEF Fuse!Builds
    <3>2. CASE s = p
      BY <2>2, <3>1, <3>2, <1>4, <1>6, <1>8, <1>10 DEF Fuse!IndexSound
    <3>3. CASE s # p
      <4>1. \A q \in Ops : ~Fuse!Builds(q, w, s, v5)
        BY <2>2, <3>3, <1>2, <1>4 DEF Fuse!Builds
      <4> QED
        BY <2>1, <2>2, <3>1, <3>3, <4>1, <1>8, <1>10 DEF Fuse!IndexSound
    <3> QED
      BY <3>2, <3>3
  <2>3. CASE w # v
    <3>1. ASSUME NEW q \in Ops PROVE Fuse!Builds(q, w, s, ops) <=> Fuse!Builds(q, w, s, v5)
      <4>1. ops[q].version = v5[q].version /\ ops[q].prefix = v5[q].prefix
            /\ (ops[q].pc = v5[q].pc \/ v5[q].version = v)
        BY <1>14
      <4> QED
        BY <4>1, <2>3 DEF Fuse!Builds
    <3> QED
      BY <3>1, <2>1, <2>3, <1>10 DEF Fuse!IndexSound
  <2> QED
    BY <2>2, <2>3
<1> QED
  BY <1>1, <1>10, <1>12, <1>15, <1>16, <1>17, Collecting DEF Fuse!Sound

(* Every step of the FUSE mount keeps its indexes sound. *)
LEMMA ViewNext ==
    ASSUME Counting
    PROVE  Fuse!Inductive /\ Fuse!Next => Fuse!Inductive'
<1> SUFFICES ASSUME Fuse!Inductive, Fuse!Next PROVE Fuse!Inductive'
  OBVIOUS
<1>1. ASSUME NEW r \in Ops, Fuse!Begin(r) PROVE Fuse!Inductive'
  BY <1>1, ListingSound, DirectorySound DEF Fuse!Begin
<1>2. ASSUME NEW r \in Ops, Fuse!Step(r) PROVE Fuse!Inductive'
  BY <1>2, ListingSound, DirectorySound, VersionSound, WaitingSound, BuildBegun,
     BuildEnded DEF Fuse!Step
<1>3. ASSUME NEW s \in Contents \cup SingleFile \cup {None}, Fuse!Change(s) PROVE Fuse!Inductive'
  <2>1. v1' = s /\ v3' = v3 /\ v4' = v4 /\ v5' = v5
    BY <1>3 DEF Fuse!Change
  <2> QED
    BY <2>1 DEF Fuse!Inductive, Fuse!TypeOK, Fuse!Sound
<1> QED
  BY <1>1, <1>2, <1>3 DEF Fuse!Next

(* The reads answer from their own view, and every pending index has its     *)
(* one builder.                                                              *)
LEMMA ViewSafe ==
    ASSUME Counting
    PROVE  Fuse!Inductive => Fuse!TypeOK /\ Fuse!AnswersFromOwnView /\ Fuse!PendingIsBuilt
<1> SUFFICES ASSUME Fuse!Inductive PROVE Fuse!AnswersFromOwnView /\ Fuse!PendingIsBuilt
  BY DEF Fuse!Inductive
<1>1. Fuse!AnswersFromOwnView
  BY DEF Fuse!Inductive, Fuse!Sound, Fuse!ReadSound, Fuse!AnswersFromOwnView
<1>2. ASSUME NEW v \in Fuse!Versions
      PROVE  Cardinality({r \in Ops : v5[r].version = v /\ v5[r].pc = "build"}) <= 1
  <2>1. PICK B : B = {r \in Ops : v5[r].version = v /\ v5[r].pc = "build"}
    OBVIOUS
  <2>2. CASE B = {}
    BY <2>1, <2>2, SMTT(30) DEF Counting, EmptyCount
  <2>3. ASSUME NEW r \in B PROVE Cardinality(B) = 1
    <3>1. ASSUME NEW q \in B PROVE q = r
      <4>1. Fuse!ReadSound(r, v4, v5)
        BY <2>1, <2>3 DEF Fuse!Inductive, Fuse!Sound
      <4> QED
        BY <4>1, <2>1, <2>3, <3>1 DEF Fuse!ReadSound
    <3>2. B = {r}
      BY <3>1, <2>3
    <3> QED
      BY <3>2 DEF Counting, SingletonCount
  <2>4. Cardinality(B) = 1 \/ Cardinality(B) = 0
    BY <2>2, <2>3 DEF Counting, EmptyCount
  <2> QED
    BY <2>1, <2>4, SMTT(30)
<1>3. ASSUME NEW v \in Fuse!Versions, NEW p \in Prefixes
      PROVE  /\ v4[v].prefixes[p] = "built" => p \in Has[v4[v].content]
             /\ v4[v].prefixes[p] = "pending" <=> \E r \in Ops : Fuse!Builds(r, v, p, v5)
  <2>1. Fuse!IndexSound(v, p, v4, v5)
    BY DEF Fuse!Inductive, Fuse!Sound
  <2> QED
    BY <2>1 DEF Fuse!IndexSound
<1>4. Fuse!PendingIsBuilt
  <2>1. ASSUME NEW v \in Fuse!Versions
        PROVE  /\ \A p \in Prefixes : v4[v].prefixes[p] = "built" => p \in Has[v4[v].content]
               /\ Cardinality({r \in Ops : v5[r].version = v /\ v5[r].pc = "build"}) <= 1
               /\ \A p \in Prefixes :
                    v4[v].prefixes[p] = "pending" <=> \E r \in Ops : Fuse!Builds(r, v, p, v5)
    <3>1. Cardinality({r \in Ops : v5[r].version = v /\ v5[r].pc = "build"}) <= 1
      BY <1>2
    <3>2. \A p \in Prefixes : v4[v].prefixes[p] = "built" => p \in Has[v4[v].content]
      BY <1>3
    <3>3. \A p \in Prefixes :
            v4[v].prefixes[p] = "pending" <=> \E r \in Ops : Fuse!Builds(r, v, p, v5)
      BY <1>3
    <3> QED
      BY ONLY <3>1, <3>2, <3>3
  <2> QED
    BY ONLY FuseCounts, <2>1 DEF Fuse!PendingIsBuilt
<1> QED
  BY <1>1, <1>4

-----------------------------------------------------------------------------
(* The life of the process *)

(* Nothing is started before the session. *)
LEMMA ProcInit == Proc!Init => Proc!Inductive
<1> SUFFICES ASSUME Proc!Init PROVE Proc!Inductive
  OBVIOUS
<1>1. 0 \in 0..MaxMounts
  BY ProcAssumption, SMTT(30)
<1>2. v2 \in [servers : SUBSET Proc!Servers, mounts : 0..MaxMounts]
  BY <1>1 DEF Proc!Init, Proc!Servers
<1>3. 0 \in 0..v2.mounts /\ \A m \in Proc!Mounts : m > 0 /\ ~(m <= 0)
  BY <1>2, ProcAssumption, SMTT(30) DEF Proc!Mounts
<1>4. Proc!TypeOK
  BY <1>2, <1>3 DEF Proc!Init, Proc!TypeOK
<1>5. Proc!StagesInOrder /\ Proc!ServersKnown
  BY DEF Proc!Init, Proc!StagesInOrder, Proc!ServersKnown
<1>6. Proc!MountsTracked
  BY <1>3 DEF Proc!Init, Proc!MountsTracked
<1> QED
  BY <1>4, <1>5, <1>6 DEF Proc!Inductive

(* The start up to the servers: what fails is still to be taken down. *)
LEMMA ProcStart ==
    ASSUME Proc!Inductive, NEW ok \in BOOLEAN, Proc!NewSession(ok) \/ Proc!NewAPI(ok)
    PROVE  Proc!Inductive'
<1>1. UNCHANGED <<v2, v3, v5, v6, v7, v8, v9, v10>>
  BY DEF Proc!NewSession, Proc!NewAPI
<1>2. /\ v1 \in {"session", "api"} /\ v1' \in {"api", "mount", "stop", "exit"}
      /\ v1 = "session" => v1' \in {"api", "exit"} /\ (v1' = "exit" => v4' = v4)
      /\ v1 = "api" => v1' \in {"mount", "stop"}
      /\ v4 \subseteq v4' /\ v4' \subseteq Proc!Stages
      /\ v1' # "exit" => "session" \in v4'
  BY DEF Proc!NewSession, Proc!NewAPI, Proc!Inductive, Proc!TypeOK, Proc!StagesInOrder, Proc!Stages
<1>3. v5 = {} /\ (v1 = "session" => v4 = {} /\ v3 = 0)
  BY <1>2 DEF Proc!Inductive, Proc!StagesInOrder
<1>4. Proc!TypeOK'
  BY <1>1, <1>2 DEF Proc!Inductive, Proc!TypeOK
<1>5. Proc!StagesInOrder'
  BY <1>1, <1>2, <1>3 DEF Proc!StagesInOrder
<1>6. Proc!ServersKnown'
  BY <1>1, <1>2 DEF Proc!Inductive, Proc!ServersKnown
<1>7. \A m \in Proc!Mounts : ~(m <= 0)
  BY ProcAssumption, SMTT(30) DEF Proc!Mounts
<1>8. Proc!MountsTracked'
  BY <1>1, <1>2, <1>3, <1>7 DEF Proc!Inductive, Proc!MountsTracked
<1> QED
  BY <1>4, <1>5, <1>6, <1>8 DEF Proc!Inductive

(* A mount that is made is the next one. *)
LEMMA ProcMount ==
    ASSUME Proc!Inductive, NEW ok \in BOOLEAN, Proc!Mount(ok)
    PROVE  Proc!Inductive'
<1>1. /\ v1 = "mount" /\ v3 < v2.mounts /\ UNCHANGED <<v2, v4, v5, v6, v7, v8, v10>>
      /\ v1' \in {"mount", "stop"} /\ (v1' = "mount" <=> ok)
      /\ v3' = (IF ok THEN v3 + 1 ELSE v3)
      /\ v9' = [v9 EXCEPT ![v3 + 1] = IF ok THEN "mounted" ELSE @]
  BY DEF Proc!Mount, Proc!MountKept
<1>2. v3 \in 0..v2.mounts /\ v2.mounts \in 0..MaxMounts /\ v9 \in [Proc!Mounts ->
        {"idle", "mounted", "running", "queued", "queuedErr", "recorded", "late"}]
  BY DEF Proc!Inductive, Proc!TypeOK
<1>3. v3' \in 0..v2.mounts /\ v3 + 1 \in Proc!Mounts
  BY <1>1, <1>2, ProcAssumption, SMTT(30) DEF Proc!Mounts
<1>4. Proc!TypeOK'
  BY <1>1, <1>2, <1>3 DEF Proc!Inductive, Proc!TypeOK
<1>5. Proc!StagesInOrder' /\ Proc!ServersKnown'
  BY <1>1 DEF Proc!Inductive, Proc!StagesInOrder, Proc!ServersKnown
<1>6. ASSUME NEW m \in Proc!Mounts
      PROVE  /\ m > v3' => v9'[m] = "idle"
             /\ m <= v3' => v9'[m] = "mounted"
  <2>1. (m > v3 => v9[m] = "idle") /\ (m <= v3 => v9[m] = "mounted")
    BY <1>1 DEF Proc!Inductive, Proc!MountsTracked
  <2>2. CASE ok
    <3>1. v3' = v3 + 1 /\ v9' = [v9 EXCEPT ![v3 + 1] = "mounted"]
      BY <1>1, <2>2
    <3>2. m = v3 + 1 => v9'[m] = "mounted"
      BY <1>2, <1>3, <3>1
    <3>3. m # v3 + 1 => v9'[m] = v9[m]
      BY <1>2, <3>1
    <3>4. (m > v3' => m > v3 /\ m # v3 + 1) /\ (m <= v3' => m <= v3 \/ m = v3 + 1)
      BY <1>2, <3>1, ProcAssumption, SMTT(30) DEF Proc!Mounts
    <3> QED
      BY <2>1, <3>2, <3>3, <3>4
  <2>3. CASE ~ok
    <3>1. v3' = v3 /\ v9' = [v9 EXCEPT ![v3 + 1] = v9[v3 + 1]]
      BY <1>1, <2>3
    <3>2. v9'[m] = v9[m]
      BY <1>2, <3>1
    <3> QED
      BY <2>1, <3>1, <3>2
  <2> QED
    BY <2>2, <2>3
<1>7. Proc!MountsTracked'
  BY <1>1, <1>6 DEF Proc!MountsTracked
<1> QED
  BY <1>4, <1>5, <1>7 DEF Proc!Inductive

(* The servers become part of the sequence as they are started. *)
LEMMA ProcStartServers ==
    ASSUME Proc!Inductive, NEW ok \in BOOLEAN, Proc!StartServers(ok)
    PROVE  Proc!Inductive'
<1>1. /\ v1 = "mount" /\ v1' \in {"wait", "stop"}
      /\ UNCHANGED <<v2, v3, v5, v7, v8, v9, v10>>
      /\ \/ UNCHANGED <<v4, v6>>
         \/ /\ v4' = v4 \cup v2.servers
            /\ v6' = [s \in Proc!Servers |-> IF s \in v2.servers THEN "starting" ELSE "idle"]
  BY DEF Proc!StartServers
<1>2. v4 \subseteq v4' /\ v4' \subseteq Proc!Stages
  BY <1>1 DEF Proc!Inductive, Proc!TypeOK, Proc!Stages, Proc!Servers
<1>3. Proc!TypeOK'
  BY <1>1, <1>2 DEF Proc!Inductive, Proc!TypeOK
<1>4. v5 = {} /\ "session" \in v4
  BY <1>1 DEF Proc!Inductive, Proc!StagesInOrder
<1>5. Proc!StagesInOrder'
  BY <1>1, <1>2, <1>4 DEF Proc!StagesInOrder
<1>6. Proc!ServersKnown'
  BY <1>1, <1>4 DEF Proc!Inductive, Proc!ServersKnown
<1>7. Proc!MountsTracked'
  BY <1>1 DEF Proc!Inductive, Proc!MountsTracked
<1> QED
  BY <1>3, <1>5, <1>6, <1>7 DEF Proc!Inductive

(* What the serving goroutines, the signal and the wait for them change. *)
LEMMA ProcServe ==
    ASSUME Proc!Inductive,
           \/ Proc!Signal \/ Proc!Wait
           \/ \E s \in Proc!Servers : Proc!ServeBegin(s) \/ Proc!ServeReturn(s)
    PROVE  Proc!Inductive'
<1>1. CASE Proc!Signal
  BY <1>1 DEF Proc!Signal, Proc!Inductive, Proc!TypeOK, Proc!StagesInOrder, Proc!ServersKnown,
     Proc!MountsTracked
<1>2. CASE Proc!Wait
  <2>1. /\ v1 = "wait" /\ v1' = "stop" /\ v7' \subseteq v7 /\ v8' \in {v8, FALSE}
        /\ UNCHANGED <<v2, v3, v4, v5, v6, v9, v10>>
    BY <1>2 DEF Proc!Wait
  <2> QED
    BY <2>1 DEF Proc!Inductive, Proc!TypeOK, Proc!StagesInOrder, Proc!ServersKnown, Proc!MountsTracked
<1>3. ASSUME NEW s \in Proc!Servers, Proc!ServeBegin(s) \/ Proc!ServeReturn(s)
      PROVE  Proc!Inductive'
  <2>1. /\ UNCHANGED <<v1, v2, v3, v4, v5, v8, v9, v10, v11>> /\ v6[s] \in {"starting", "serving"}
        /\ v7' \subseteq v7 \cup {s}
        /\ \/ v6' = [v6 EXCEPT ![s] = "returned"]
           \/ v6' = [v6 EXCEPT ![s] = "serving"] /\ s \notin v5
    BY <1>3 DEF Proc!ServeBegin, Proc!ServeReturn
  <2>2. Proc!TypeOK'
    BY <2>1 DEF Proc!Inductive, Proc!TypeOK
  <2>3. Proc!ServersKnown'
    BY <2>1 DEF Proc!Inductive, Proc!TypeOK, Proc!ServersKnown
  <2> QED
    BY <2>1, <2>2, <2>3 DEF Proc!Inductive, Proc!StagesInOrder, Proc!MountsTracked
<1> QED
  BY <1>1, <1>2, <1>3

(* Stopping a stage: the session comes after the servers it serves. *)
LEMMA ProcStop ==
    ASSUME Proc!Inductive, NEW stage \in Proc!Stages, NEW ok \in BOOLEAN, Proc!Stop(stage, ok)
    PROVE  Proc!Inductive'
<1>1. /\ v1 = "stop" /\ stage \in v4 \ v5 /\ Proc!StopBefore(stage) \cap v4 \subseteq v5
      /\ v5' = v5 \cup {stage}
      /\ v6' = [s \in Proc!Servers |-> IF s = stage /\ v6[s] = "serving" THEN "returned" ELSE v6[s]]
      /\ v7' \subseteq v7 \cup (Proc!Servers \cap {stage})
      /\ UNCHANGED <<v1, v2, v3, v4, v8, v9, v10>>
  BY DEF Proc!Stop
<1>2. Proc!TypeOK'
  BY <1>1 DEF Proc!Inductive, Proc!TypeOK
<1>3. stage = "session" => v4 \subseteq v5'
  <2>1. stage = "session" => Proc!StopBefore(stage) = {"smb", "http"}
    BY DEF Proc!StopBefore
  <2> QED
    BY <1>1, <2>1 DEF Proc!Inductive, Proc!TypeOK, Proc!Stages
<1>4. Proc!StagesInOrder'
  BY <1>1, <1>3 DEF Proc!Inductive, Proc!StagesInOrder
<1>5. Proc!ServersKnown'
  BY <1>1 DEF Proc!Inductive, Proc!ServersKnown
<1>6. Proc!MountsTracked'
  BY <1>1 DEF Proc!Inductive, Proc!MountsTracked
<1> QED
  BY <1>2, <1>4, <1>5, <1>6 DEF Proc!Inductive

(* Only mounts that were made have an outcome. *)
LEMMA QueuedWereMade ==
    ASSUME Proc!Inductive, NEW m \in Proc!Mounts, v9[m] # "idle"
    PROVE  m \in 1..v3
<1>1. ~(m > v3)
  BY DEF Proc!Inductive, Proc!MountsTracked
<1> QED
  BY <1>1, ProcAssumption, SMTT(30) DEF Proc!Inductive, Proc!TypeOK, Proc!Mounts

(* The Unmount calls: every mount is given one, and the ones that did not    *)
(* come back by the deadline are reported.                                   *)
LEMMA ProcUnmount ==
    ASSUME Proc!Inductive,
           \/ Proc!UnmountBegin \/ Proc!UnmountEnd \/ Proc!Fire
           \/ \E m \in Proc!Mounts : Proc!Record(m) \/ \E ok \in BOOLEAN : Proc!UnmountReturns(m, ok)
    PROVE  Proc!Inductive'
<1> DEFINE Called == {"running", "queued", "queuedErr", "recorded"}
<1>1. CASE Proc!UnmountBegin
  <2>1. /\ v1 = "stop" /\ v4 \subseteq v5 /\ v1' = "unmount" /\ v10' = "running"
        /\ v9' = [m \in Proc!Mounts |-> IF m <= v3 THEN "running" ELSE v9[m]]
        /\ UNCHANGED <<v2, v3, v4, v5, v6, v7, v8, v11>>
    BY <1>1 DEF Proc!UnmountBegin
  <2>2. Proc!TypeOK'
    BY <2>1 DEF Proc!Inductive, Proc!TypeOK
  <2>3. Proc!StagesInOrder' /\ Proc!ServersKnown'
    BY <2>1 DEF Proc!Inductive, Proc!StagesInOrder, Proc!ServersKnown
  <2>4. \A m \in Proc!Mounts : m > v3 => ~(m <= v3)
    BY ProcAssumption, SMTT(30) DEF Proc!Inductive, Proc!TypeOK, Proc!Mounts
  <2>5. Proc!MountsTracked'
    BY <2>1, <2>4 DEF Proc!Inductive, Proc!MountsTracked
  <2> QED
    BY <2>2, <2>3, <2>5 DEF Proc!Inductive
<1>2. CASE Proc!UnmountEnd
  <2>1. /\ v1 = "unmount" /\ v1' = "exit"
        /\ v9' = [m \in Proc!Mounts |-> IF m \in Proc!Pending THEN "late" ELSE v9[m]]
        /\ Proc!Pending # {} => v11' # {}
        /\ UNCHANGED <<v2, v3, v4, v5, v6, v7, v8, v10>>
    BY <1>2 DEF Proc!UnmountEnd
  <2>2. Proc!TypeOK'
    BY <2>1 DEF Proc!Inductive, Proc!TypeOK
  <2>3. Proc!StagesInOrder' /\ Proc!ServersKnown'
    BY <2>1 DEF Proc!Inductive, Proc!StagesInOrder, Proc!ServersKnown
  <2>4. \A m \in Proc!Mounts : (m > v3 => m \notin 1..v3) /\ (m <= v3 => m \in 1..v3)
    BY ProcAssumption, SMTT(30) DEF Proc!Inductive, Proc!TypeOK, Proc!Mounts
  <2>5. Proc!MountsTracked'
    BY <2>1, <2>4 DEF Proc!Inductive, Proc!MountsTracked, Proc!Pending
  <2> QED
    BY <2>2, <2>3, <2>5 DEF Proc!Inductive
<1>3. CASE Proc!Fire
  BY <1>3 DEF Proc!Fire, Proc!Inductive, Proc!TypeOK, Proc!StagesInOrder, Proc!ServersKnown,
     Proc!MountsTracked
<1>4. ASSUME NEW m \in Proc!Mounts,
             Proc!Record(m) \/ \E ok \in BOOLEAN : Proc!UnmountReturns(m, ok)
      PROVE  Proc!Inductive'
  <2>1. /\ v1 = "unmount" /\ v9[m] # "idle" /\ \E s \in Called : v9' = [v9 EXCEPT ![m] = s]
        /\ UNCHANGED <<v1, v2, v3, v4, v5, v6, v7, v8, v10>>
    BY <1>4 DEF Proc!Record, Proc!UnmountReturns, Proc!Queued
  <2>2. Proc!TypeOK'
    BY <2>1 DEF Proc!Inductive, Proc!TypeOK
  <2>3. Proc!StagesInOrder' /\ Proc!ServersKnown'
    BY <2>1 DEF Proc!Inductive, Proc!StagesInOrder, Proc!ServersKnown
  <2>4. ~(m > v3)
    BY <2>1 DEF Proc!Inductive, Proc!MountsTracked
  <2>5. Proc!MountsTracked'
    BY <2>1, <2>4 DEF Proc!Inductive, Proc!TypeOK, Proc!MountsTracked
  <2> QED
    BY <2>2, <2>3, <2>5 DEF Proc!Inductive
<1> QED
  BY <1>1, <1>2, <1>3, <1>4

(* Every step of the process keeps the invariant. *)
LEMMA ProcNext == Proc!Inductive /\ Proc!Next => Proc!Inductive'
BY ProcStart, ProcMount, ProcStartServers, ProcServe, ProcStop, ProcUnmount
DEF Proc!Next, Proc!Run

(* The order of the shutdown. *)
LEMMA ProcSafe == Proc!Inductive => Proc!StopOrder /\ Proc!EverythingStopped
<1> SUFFICES ASSUME Proc!Inductive PROVE Proc!StopOrder /\ Proc!EverythingStopped
  OBVIOUS
<1>1. Proc!StopOrder
  BY DEF Proc!Inductive, Proc!StagesInOrder, Proc!ServersKnown, Proc!StopOrder
<1>2. \A m \in Proc!Mounts : m > v3 \/ m <= v3
  BY ProcAssumption, SMTT(30) DEF Proc!Inductive, Proc!TypeOK, Proc!Mounts
<1>3. Proc!EverythingStopped
  BY <1>2 DEF Proc!Inductive, Proc!StagesInOrder, Proc!MountsTracked, Proc!EverythingStopped
<1> QED
  BY <1>1, <1>3

(* The process leaves unmount only when no outcome is queued. *)
LEMMA ProcKeepsOutcomes == Proc!Inductive /\ Proc!Next => Proc!KeepsOutcomes
<1> SUFFICES ASSUME Proc!Inductive, Proc!Next, v1 = "unmount", v1' = "exit",
                    NEW m \in Proc!Queued
             PROVE  v9'[m] # "late"
  BY DEF Proc!KeepsOutcomes
<1>1. Proc!UnmountEnd
  BY DEF Proc!Next, Proc!Run, Proc!NewSession, Proc!NewAPI, Proc!Mount, Proc!StartServers,
     Proc!Wait, Proc!Stop, Proc!UnmountBegin, Proc!Record, Proc!Signal, Proc!Fire,
     Proc!ServeBegin, Proc!ServeReturn, Proc!UnmountReturns
<1>2. m \in Proc!Mounts /\ v9[m] \in {"queued", "queuedErr"}
  BY DEF Proc!Queued
<1>3. m \in Proc!Pending
  BY <1>2, QueuedWereMade DEF Proc!Pending
<1> QED
  BY <1>1, <1>3 DEF Proc!UnmountEnd, Proc!GiveUp

-----------------------------------------------------------------------------
(* An open file of the SMB server *)

(* A new handle is open and nobody reads it. *)
LEMMA HandleInit == Handle!Init => Handle!Inductive
<1> SUFFICES ASSUME Handle!Init PROVE Handle!Inductive
  OBVIOUS
<1>1. 0 \in Nat
  BY SMTT(30)
<1>2. v3 \in [cancelled : BOOLEAN, closed : BOOLEAN]
  BY DEF Handle!Init
<1>3. Handle!TypeOK
  BY <1>1, <1>2 DEF Handle!Init, Handle!TypeOK
<1>4. Handle!OneRuns /\ Handle!Drained
  BY DEF Handle!Init, Handle!OneRuns, Handle!Runs, Handle!Drained
<1> QED
  BY <1>3, <1>4 DEF Handle!Inductive

(* What a step of a read leaves alone, and what it does to its own counter.  *)
LEMMA HandleReads ==
    ASSUME Handle!Inductive, NEW r \in Reads,
           Handle!ReadBegin(r) \/ Handle!ReadStep(r) \/ Handle!ReadReturns(r)
    PROVE  Handle!Inductive'
<1>1. /\ UNCHANGED <<v1, v2, v3, v4, v5, v7>>
      /\ \E pc \in {"idle", "counted", "locked", "reading", "read"} :
           v6' = [v6 EXCEPT ![r] = pc] /\ (pc \in {"idle", "counted"} \/ v6[r] # "idle")
                   /\ (pc = "counted" => ~v1)
  BY DEF Handle!ReadBegin, Handle!ReadStep, Handle!ReadReturns, Handle!ReadCancelled,
     Handle!ReadLock, Handle!ReadStart, Handle!ReadInterrupted, Handle!ReadEnd, Handle!Moves
<1>2. Handle!TypeOK' /\ Handle!OneRuns'
  BY <1>1 DEF Handle!Inductive, Handle!TypeOK, Handle!OneRuns, Handle!Runs
<1>3. ASSUME v1, Handle!Counted = {} PROVE Handle!Counted' = {}
  BY <1>1, <1>3, SMTT(30) DEF Handle!Counted, Handle!Inductive, Handle!TypeOK
<1>4. Handle!Drained'
  BY <1>1, <1>3 DEF Handle!Inductive, Handle!Drained, Handle!OneRuns
<1> QED
  BY <1>2, <1>4 DEF Handle!Inductive

(* Every step of a close keeps the closes in order. *)
LEMMA HandleCloses ==
    ASSUME Handle!Inductive, NEW c \in Closers, Handle!CloseBegin(c) \/ Handle!CloseStep(c)
    PROVE  Handle!Inductive'
<1> USE DEF Handle!Inductive, Handle!TypeOK, Handle!OneRuns, Handle!Runs, Handle!Drained
<1>1. CASE Handle!CloseBegin(c)
  BY <1>1, SMTT(30) DEF Handle!CloseBegin, Handle!Counted
<1>2. CASE Handle!CloseMark(c)
  BY <1>2, SMTT(30) DEF Handle!CloseMark, Handle!Counted
<1>3. CASE Handle!CloseFile(c)
  <2>1. v3' \in [cancelled : BOOLEAN, closed : BOOLEAN]
    BY <1>3 DEF Handle!CloseFile
  <2>2. Handle!Counted' = {}
    BY <1>3 DEF Handle!CloseFile, Handle!ReadsDone, Handle!Counted
  <2>3. v7' = [v7 EXCEPT ![c] = "lock"] /\ v4' = TRUE /\ UNCHANGED <<v1, v2, v5, v6>> /\ Handle!Runs(c)
    BY <1>3 DEF Handle!CloseFile
  <2>4. v1 /\ v2 = "running" /\ v5 = 0 /\ \A d \in Closers : Handle!Runs(d) => d = c
    BY <1>3, <2>3 DEF Handle!CloseFile
  <2>5. Handle!TypeOK'
    BY <2>1, <2>3
  <2>6. Handle!OneRuns'
    BY <2>3, <2>4
  <2>7. Handle!Drained'
    BY <2>2, <2>3, <2>4
  <2> QED
    BY <2>5, <2>6, <2>7
<1>4. CASE Handle!CloseReader(c)
  <2>1. /\ v2 = "running" /\ v5 = 0 /\ v1 /\ Handle!Counted = {}
        /\ \A d \in Closers : Handle!Runs(d) => d = c
    BY <1>4 DEF Handle!CloseReader
  <2>2. v3' \in [cancelled : BOOLEAN, closed : BOOLEAN]
    BY <1>4 DEF Handle!CloseReader
  <2>3. /\ v7' = [v7 EXCEPT ![c] = "closed"] /\ v2' = "done" /\ v5' = v5 + 1 /\ v4' = FALSE
        /\ UNCHANGED <<v1, v6>>
    BY <1>4 DEF Handle!CloseReader
  <2>4. v5' = 1 /\ 1 \in Nat
    BY <2>1, <2>3, SMTT(30)
  <2>5. Handle!Counted' = {}
    BY <2>1, <2>3 DEF Handle!Counted
  <2>6. \A d \in Closers : ~Handle!Runs(d)'
    BY <2>1, <2>3
  <2> QED
    BY <2>1, <2>2, <2>3, <2>4, <2>5, <2>6
<1>5. CASE Handle!CloseOther(c)
  BY <1>5 DEF Handle!CloseOther, Handle!Counted
<1> HIDE DEF Handle!Inductive
<1> QED
  BY <1>1, <1>2, <1>3, <1>4, <1>5 DEF Handle!CloseStep

(* Every step of an open file keeps its invariant. *)
LEMMA HandleNext == Handle!Inductive /\ Handle!Next => Handle!Inductive'
BY HandleReads, HandleCloses DEF Handle!Next

(* The reader is closed once, after the last read. *)
LEMMA HandleSafe == Handle!Inductive => Handle!ClosedDrained
BY SMTT(30) DEF Handle!Inductive, Handle!Drained, Handle!ClosedDrained, Handle!TypeOK

-----------------------------------------------------------------------------
(* The parts together *)

(* Whichever part was chosen starts in its invariant, *)
LEMMA MountStart ==
    ASSUME Counting, MountInit
    PROVE  MountInductive
BY TreeInit, ViewInit, ProcInit, HandleInit DEF MountInit, MountInductive

(* and keeps it, *)
LEMMA MountStep ==
    ASSUME Counting, MountInductive, MountNext
    PROVE  MountInductive' /\ (component = "proc" => Proc!KeepsOutcomes)
<1> USE DEF MountInductive
<1>1. CASE component = "tree" /\ Tree!Next /\ UNCHANGED <<component, rest8>>
  BY <1>1, TreeNext
<1>2. CASE component = "fuse" /\ Fuse!Next /\ UNCHANGED <<component, rest5>>
  BY <1>2, ViewNext
<1>3. CASE component = "proc" /\ Proc!Next /\ UNCHANGED <<component, rest11>>
  BY <1>3, ProcNext, ProcKeepsOutcomes
<1>4. CASE component = "handle" /\ Handle!Next /\ UNCHANGED <<component, rest7>>
  BY <1>4, HandleNext
<1> QED
  BY <1>1, <1>2, <1>3, <1>4 DEF MountNext

(* a step of none of its parts included. *)
LEMMA MountStutter ==
    ASSUME MountInductive, UNCHANGED vars
    PROVE  MountInductive' /\ (component = "proc" => Proc!KeepsOutcomes)
<1>1. UNCHANGED <<component, v1, v2, v3, v4, v5, v6, v7, v8, v9, v10, v11>>
  BY DEF vars
<1>2. component = "tree" => Tree!Inductive'
  BY <1>1, TreeStutter DEF MountInductive, Tree!vars
<1>3. component = "fuse" => Fuse!Inductive'
  BY <1>1 DEF MountInductive, Fuse!Inductive, Fuse!TypeOK
<1>4. component = "proc" => Proc!Inductive'
  BY <1>1 DEF MountInductive, Proc!Inductive, Proc!TypeOK, Proc!StagesInOrder,
     Proc!ServersKnown, Proc!MountsTracked
<1>5. Proc!KeepsOutcomes
  BY <1>1 DEF Proc!KeepsOutcomes
<1>6. component = "handle" => Handle!Inductive'
  BY <1>1 DEF MountInductive, Handle!Inductive, Handle!TypeOK, Handle!OneRuns, Handle!Runs,
     Handle!Drained, Handle!Counted
<1> QED
  BY <1>1, <1>2, <1>3, <1>4, <1>5, <1>6 DEF MountInductive

(* The invariant gives what the parts promise. *)
LEMMA MountSafe ==
    ASSUME Counting, MountInductive
    PROVE  MountTypeOK /\ SnapshotsOwned /\ ViewsOwned /\ ShutdownOrdered /\ ClosedDrained
BY TreeSafe, ViewSafe, ProcSafe, HandleSafe
DEF MountInductive, MountTypeOK, SnapshotsOwned, ViewsOwned, ShutdownOrdered, ClosedDrained,
    Fuse!Inductive, Proc!Inductive, Handle!Inductive

=============================================================================
