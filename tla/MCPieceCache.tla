---------------------------- MODULE MCPieceCache ----------------------------
(* Small instances of the piece cache for TLC.  The eviction pass is also   *)
(* compared with the loop as the code runs it, one victim at a time.        *)
EXTENDS PieceCache, TLC

(* victimLocked: the entry nearest the back that may go *)
LastEvictable(order, candidates) ==
    CHOOSE k \in candidates : Behind(k, order, candidates) = {}

(* evictLocked, as the loop it is: the set of entries it removes *)
RECURSIVE EvictLoop(_, _, _, _)
EvictLoop(sz, order, total, candidates) ==
    IF total <= LowWater(Capacity) \/ candidates = {} THEN {}
    ELSE LET victim == LastEvictable(order, candidates)
         IN  {victim} \cup EvictLoop(sz, order, total - sz[victim], candidates \ {victim})

LoopRemovesVictims(k) ==
    /\ used > HighWater(Capacity) =>
         Victims(size, lru, used, pinned \ {k}, {})
           = EvictLoop(size, lru, used, Evictable(size, pinned \ {k}, {}))
    /\ \A n \in Sizes :
         LET sz == [size EXCEPT ![k] = n]
             order == ToFront(k, lru, Residents(size))
             total == used - size[k] + n
         IN  total > HighWater(Capacity) =>
               Victims(sz, order, total, pinned, {k})
                 = EvictLoop(sz, order, total, Evictable(sz, pinned, {k}))

(* In every reachable state the list is a strict order of the residents, and *)
(* for every insertion and every unpin that may come next, Victims is the    *)
(* set of entries the loop of evictLocked removes one at a time.             *)
VictimsMatchLoop ==
    /\ ListIsOrdered
    /\ \A k \in Keys : LoopRemovesVictims(k)

PieceSymmetry == Permutations(Pieces) \cup Permutations(Torrents)
=============================================================================
