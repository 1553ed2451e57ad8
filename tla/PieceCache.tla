----------------------------- MODULE PieceCache -----------------------------
(***************************************************************************)
(* The in-memory piece cache (internal/cache/cache.go): a byte-capacity    *)
(* LRU cache with eviction watermarks and pins that reserve bytes.  Every  *)
(* method holds the cache mutex for its whole body, so each exported       *)
(* method is one atomic action.  A call that is refused (a rejected Put, a *)
(* refused pin, a miss) changes nothing but statistics counters and is a   *)
(* stuttering step here: the hit, miss, eviction and rejection counters    *)
(* are reporting only and are left out.                                    *)
(*                                                                         *)
(* A value is abstracted to its length.  A piece has at least one byte, so *)
(* length 0 stands for "not resident", exactly as sizeOfLocked reports it. *)
(***************************************************************************)
EXTENDS Totals

CONSTANTS
    Torrents,   \* torrent identifiers
    Pieces,     \* piece indexes
    Sizes,      \* the lengths a stored value or a reservation may have
    Capacity,   \* the byte capacity given to New
    LegacyAPI   \* whether callers also use Pin and UnpinTorrent

ASSUME ConstantsAssumption ==
    /\ IsFiniteSet(Torrents)
    /\ IsFiniteSet(Pieces)
    /\ Sizes \subseteq Nat \ {0}
    /\ Capacity \in Nat
    /\ LegacyAPI \in BOOLEAN

Keys == Torrents \X Pieces

KeysOf(t) == {t} \X Pieces

VARIABLES
    size,          \* size[k]: length of the resident value of k, 0 if absent
    lru,           \* the list order: <<a, b>> when a is nearer the front than b
    used,          \* resident bytes, maintained incrementally
    usedByTorrent, \* resident bytes per torrent, maintained incrementally
    pinned,        \* the keys eviction must skip
    pinnedSizes,   \* bytes reserved by each pin, 0 for a key that is not pinned
    pinnedSized,   \* the pinned keys whose reservation was made by PinSize
    pinnedBytes    \* reserved bytes, maintained incrementally

residentVars == <<size, lru, used, usedByTorrent>>
pinVars == <<pinned, pinnedSizes, pinnedSized, pinnedBytes>>
vars == <<size, lru, used, usedByTorrent, pinned, pinnedSizes, pinnedSized, pinnedBytes>>

-----------------------------------------------------------------------------
(* Watermarks: eviction starts above HighWater and stops at LowWater; both *)
(* are at least one byte for a positive capacity.                          *)

HighWater(capacity) ==
    IF capacity = 0 THEN 0
    ELSE IF (capacity * 7) \div 8 > 0 THEN (capacity * 7) \div 8 ELSE 1

LowWater(capacity) ==
    IF capacity = 0 THEN 0
    ELSE IF (capacity * 3) \div 4 > 0 THEN (capacity * 3) \div 4 ELSE 1

WholeCapacityPinnable == Capacity

PinBytesCap == Capacity - LowWater(Capacity)

(* delete(usedByTorrent, t) once the count is not positive *)
Drop(count, n) == IF count - n <= 0 THEN 0 ELSE count - n

-----------------------------------------------------------------------------
(* Eviction.  evictLocked repeatedly removes the entry nearest the back    *)
(* that is neither pinned nor the one being inserted (keep), while used is *)
(* above the low mark.  So an evictable entry goes exactly when removing   *)
(* all the evictable entries behind it still leaves used above the mark.   *)

Evictable(sz, pins, keep) == {k \in Keys \ (pins \cup keep) : sz[k] > 0}

InFrontOf(k, order, S) == {j \in S : <<j, k>> \in order}

Behind(k, order, S) == {j \in S : <<k, j>> \in order}

VictimsOneTooMany(sz, order, total, pins, keep) ==
    LET candidates == Evictable(sz, pins, keep)
    IN  IF total <= HighWater(Capacity) THEN {}
        ELSE {k \in candidates :
                total - Total(sz, Behind(k, order, candidates)) >= LowWater(Capacity)}

Victims(sz, order, total, pins, keep) ==
    LET candidates == Evictable(sz, pins, keep)
    IN  IF total <= HighWater(Capacity) THEN {}
        ELSE {k \in candidates :
                total - Total(sz, Behind(k, order, candidates)) > LowWater(Capacity)}

(* PushFront and MoveToFront of k; Without: the order left when gone is removed *)
ToFrontWithoutMoving(k, order, residents) == order \cup ({k} \X (residents \ {k}))

ToFront(k, order, residents) ==
    {p \in order : p[1] # k /\ p[2] # k} \cup ({k} \X (residents \ {k}))

Without(order, gone) == {p \in order : p[1] \notin gone /\ p[2] \notin gone}

Residents(sz) == {k \in Keys : sz[k] > 0}

(* remove, for every key of gone: the reservation of a pin is kept *)
RemoveAllButTorrentCount(sz, order, total, byTorrent, gone) ==
    /\ size' = [k \in Keys |-> IF k \in gone THEN 0 ELSE sz[k]]
    /\ lru' = Without(order, gone)
    /\ used' = total - Total(sz, gone)
    /\ usedByTorrent' = byTorrent

RemoveAll(sz, order, total, byTorrent, gone) ==
    /\ size' = [k \in Keys |-> IF k \in gone THEN 0 ELSE sz[k]]
    /\ lru' = Without(order, gone)
    /\ used' = total - Total(sz, gone)
    /\ usedByTorrent' =
         [t \in Torrents |-> Drop(byTorrent[t], Total(sz, gone \cap KeysOf(t)))]

-----------------------------------------------------------------------------
Init ==
    /\ size = [k \in Keys |-> 0]
    /\ lru = {}
    /\ used = 0
    /\ usedByTorrent = [t \in Torrents |-> 0]
    /\ pinned = {}
    /\ pinnedSizes = [k \in Keys |-> 0]
    /\ pinnedSized = {}
    /\ pinnedBytes = 0

Get(k) ==
    /\ size[k] > 0
    /\ lru' = ToFront(k, lru, Residents(size))
    /\ UNCHANGED <<size, used, usedByTorrent, pinVars>>

(* The rollback of Put: what the eviction pass leaves does not fit, so the *)
(* inserted entry goes too.                                                *)
RemovedWithoutRollback(k, sz, order, total) == Victims(sz, order, total, pinned, {k})

RemovedWithoutKeep(k, sz, order, total) ==
    LET victims == Victims(sz, order, total, pinned, {})
    IN  IF total - Total(sz, victims) > Capacity THEN victims \cup {k} ELSE victims

Removed(k, sz, order, total) ==
    LET victims == Victims(sz, order, total, pinned, {k})
    IN  IF total - Total(sz, victims) > Capacity THEN victims \cup {k} ELSE victims

(* faulty: the copy of the value is one byte long *)
PutOneByteLong(k, n) ==
    /\ k \notin pinned /\ used - size[k] + n + 1 <= LowWater(Capacity)
    /\ RemoveAll([size EXCEPT ![k] = n + 1], ToFront(k, lru, Residents(size)), used - size[k] + n + 1,
                 [usedByTorrent EXCEPT ![k[1]] = Drop(@, size[k]) + n + 1], {})
    /\ UNCHANGED pinVars

Put(k, n) ==
    /\ Capacity > 0 /\ n <= Capacity
    /\ k \in pinnedSized => pinnedBytes - pinnedSizes[k] + n <= PinBytesCap
    /\ LET sz == [size EXCEPT ![k] = n]
           order == ToFront(k, lru, Residents(size))
           total == used - size[k] + n
           byTorrent == [usedByTorrent EXCEPT ![k[1]] = Drop(@, size[k]) + n]
       IN  RemoveAll(sz, order, total, byTorrent, Removed(k, sz, order, total))
    /\ IF k \in pinned
       THEN /\ pinnedBytes' = pinnedBytes + n - pinnedSizes[k]
            /\ pinnedSizes' = [pinnedSizes EXCEPT ![k] = n]
       ELSE UNCHANGED <<pinnedBytes, pinnedSizes>>
    /\ UNCHANGED <<pinned, pinnedSized>>

Remove(k) ==
    /\ size[k] > 0
    /\ RemoveAll(size, lru, used, usedByTorrent, {k})
    /\ UNCHANGED pinVars

-----------------------------------------------------------------------------
(* pin: the shared body of Pin (reserve = FALSE) and PinSize (TRUE). *)

NeverOverdrawn(k, reserve) == FALSE

PinOverdrawn(k, reserve) == reserve /\ k \notin pinnedSized /\ pinnedBytes > PinBytesCap

PinAgain(k, actual, reserve) ==
    /\ k \in pinned
    /\ ~PinOverdrawn(k, reserve)
    /\ ~reserve \/ actual <= pinnedSizes[k]
    /\ pinnedSized' = IF reserve THEN pinnedSized \cup {k} ELSE pinnedSized
    /\ UNCHANGED <<pinned, pinnedSizes, pinnedBytes>>

PinGrow(k, actual, reserve) ==
    /\ k \in pinned
    /\ ~PinOverdrawn(k, reserve)
    /\ reserve /\ actual > pinnedSizes[k]
    /\ pinnedBytes + (actual - pinnedSizes[k]) <= PinBytesCap
    /\ pinnedBytes' = pinnedBytes + (actual - pinnedSizes[k])
    /\ pinnedSizes' = [pinnedSizes EXCEPT ![k] = actual]
    /\ pinnedSized' = pinnedSized \cup {k}
    /\ UNCHANGED pinned

PinNewUnbounded(k, actual, reserve) ==
    /\ k \notin pinned
    /\ pinned' = pinned \cup {k}
    /\ pinnedSizes' = [pinnedSizes EXCEPT ![k] = actual]
    /\ pinnedSized' = IF reserve THEN pinnedSized \cup {k} ELSE pinnedSized
    /\ pinnedBytes' = pinnedBytes + actual

PinNew(k, actual, reserve) ==
    /\ k \notin pinned
    /\ pinnedBytes + actual <= PinBytesCap
    /\ pinned' = pinned \cup {k}
    /\ pinnedSizes' = [pinnedSizes EXCEPT ![k] = actual]
    /\ pinnedSized' = IF reserve THEN pinnedSized \cup {k} ELSE pinnedSized
    /\ pinnedBytes' = pinnedBytes + actual

DoPinRequestedOnly(k, requested, reserve) ==
    /\ \/ PinAgain(k, requested, reserve)
       \/ PinGrow(k, requested, reserve)
       \/ PinNew(k, requested, reserve)
    /\ UNCHANGED residentVars

DoPin(k, requested, reserve) ==
    LET actual == IF requested > size[k] THEN requested ELSE size[k]
    IN  /\ \/ PinAgain(k, actual, reserve)
           \/ PinGrow(k, actual, reserve)
           \/ PinNew(k, actual, reserve)
        /\ UNCHANGED residentVars

PinSize(k, n) == DoPin(k, n, TRUE)

Pin(k) == LegacyAPI /\ DoPin(k, 0, FALSE)

(* unpinLocked, for every key of keys *)
UnpinAllKeepingBytes(keys) ==
    /\ pinned' = pinned \ keys
    /\ pinnedSizes' = [k \in Keys |-> IF k \in keys THEN 0 ELSE pinnedSizes[k]]
    /\ pinnedSized' = pinnedSized \ keys
    /\ UNCHANGED pinnedBytes

UnpinAll(keys) ==
    /\ pinned' = pinned \ keys
    /\ pinnedBytes' = pinnedBytes - Total(pinnedSizes, keys)
    /\ pinnedSizes' = [k \in Keys |-> IF k \in keys THEN 0 ELSE pinnedSizes[k]]
    /\ pinnedSized' = pinnedSized \ keys

UnpinWithoutEviction(k) == k \in pinned /\ UnpinAll({k}) /\ UNCHANGED residentVars

Unpin(k) ==
    /\ k \in pinned \/ used > HighWater(Capacity)
    /\ UnpinAll({k})
    /\ RemoveAll(size, lru, used, usedByTorrent,
                 Victims(size, lru, used, pinned \ {k}, {}))

UnpinTorrent(t) ==
    /\ LegacyAPI
    /\ UnpinAll(KeysOf(t) \cap pinned)
    /\ UNCHANGED residentVars

InvalidateKeepingSized(t) ==
    /\ RemoveAll(size, lru, used, usedByTorrent, KeysOf(t) \cap Residents(size))
    /\ pinned' = pinned \ KeysOf(t)
    /\ pinnedSizes' = [k \in Keys |-> IF k[1] = t THEN 0 ELSE pinnedSizes[k]]
    /\ pinnedBytes' = Total(pinnedSizes', pinned')
    /\ UNCHANGED pinnedSized

InvalidateTorrent(t) ==
    /\ RemoveAll(size, lru, used, usedByTorrent, KeysOf(t) \cap Residents(size))
    /\ pinned' = pinned \ KeysOf(t)
    /\ pinnedSizes' = [k \in Keys |-> IF k[1] = t THEN 0 ELSE pinnedSizes[k]]
    /\ pinnedSized' = pinnedSized \ KeysOf(t)
    /\ pinnedBytes' = Total(pinnedSizes', pinned')

Next ==
    \/ \E k \in Keys :
         \/ Get(k)
         \/ Remove(k)
         \/ Unpin(k)
         \/ Pin(k)
         \/ \E n \in Sizes : Put(k, n)
         \/ \E n \in Sizes \cup {0} : PinSize(k, n)
    \/ \E t \in Torrents :
         \/ UnpinTorrent(t)
         \/ InvalidateTorrent(t)

Spec == Init /\ [][Next]_vars

-----------------------------------------------------------------------------
(* Correctness *)

TypeOK ==
    /\ size \in [Keys -> Nat]
    /\ lru \subseteq Keys \X Keys
    /\ used \in Nat
    /\ usedByTorrent \in [Torrents -> Nat]
    /\ pinned \subseteq Keys
    /\ pinnedSizes \in [Keys -> Nat]
    /\ pinnedSized \subseteq pinned
    /\ pinnedBytes \in Nat

(* The counters kept incrementally across Put, replacement, eviction,       *)
(* rollback, Remove, pins and InvalidateTorrent (c.used, c.usedByTorrent,   *)
(* c.pinnedBytes) always equal what a recount of the entries would give.    *)
AccountingExact ==
    /\ used = Total(size, Keys)
    /\ \A t \in Torrents : usedByTorrent[t] = Total(size, KeysOf(t))
    /\ pinnedBytes = Total(pinnedSizes, Keys)

(* "An insertion that cannot be made to fit under the hard capacity is      *)
(* rolled back" (Put): the resident bytes never exceed the capacity,        *)
(* whatever is pinned.                                                      *)
HardCapacity == used <= Capacity

(* A reservation belongs to a pin and covers what is resident under it:     *)
(* only pinned keys reserve, and neither Put, Remove, a rollback nor a      *)
(* second pin leaves a pinned entry with more bytes than it has reserved.   *)
ReservationCovers ==
    \A k \in Keys : IF k \in pinned THEN size[k] <= pinnedSizes[k] ELSE pinnedSizes[k] = 0

(* The reservations made by PinSize never exceed pinBytesCap, even when     *)
(* legacy pins, which Put may grow past it, are mixed in.                   *)
SizedPinsBounded == Total(pinnedSizes, pinnedSized) <= PinBytesCap

(* Pins never take more of the cache than they may, nor hold more than they *)
(* have reserved: both of the above.                                        *)
PinsSound == ReservationCovers /\ SizedPinsBounded

(* "It leaves the low-water mark evictable at all times, so an eviction     *)
(* always has a victim" (pinBytesCap): with PinSize pins only, whenever the *)
(* cache is above the low mark some resident entry is not pinned.           *)
EvictionHasVictim ==
    pinned = pinnedSized /\ used > LowWater(Capacity) => \E k \in Keys \ pinned : size[k] > 0

(* The list holds exactly the resident keys in one order: PushFront,        *)
(* MoveToFront and remove keep lru a strict total order of the residents.   *)
ListIsOrdered ==
    /\ lru \subseteq Residents(size) \X Residents(size)
    /\ \A a, b \in Residents(size) : a # b => (<<a, b>> \in lru <=> <<b, a>> \notin lru)
    /\ \A a \in Keys : <<a, a>> \notin lru
    /\ \A a, b, c \in Keys : <<a, b>> \in lru /\ <<b, c>> \in lru => <<a, c>> \in lru

(* A Put or an Unpin leaves the cache above the high mark only when nothing *)
(* more can be evicted but the last entry inserted: both end with an         *)
(* eviction pass that stops short only for want of victims (evictLocked).    *)
OverfullWithChoice ==
    /\ used' > HighWater(Capacity)
    /\ \E j, k \in Evictable(size', pinned', {}) : j # k

Drains == OverfullWithChoice => \A k \in Keys : ~Unpin(k) /\ \A n \in Sizes : ~Put(k, n)

(* What a Put or an Unpin of k evicts besides k: never a pinned entry, and  *)
(* least recently used first, so that no entry goes while an evictable one  *)
(* behind it in the list stays (evictLocked, victimLocked).                 *)
Evicts(k, j) == j # k /\ size[j] > 0 /\ size'[j] = 0

EvictsOldestUnpinned ==
    \A k \in Keys :
        /\ \E j \in Keys : Evicts(k, j)
        /\ Unpin(k) \/ (\E n \in Sizes : Put(k, n))
        => \A j \in Keys : Evicts(k, j) =>
             /\ j \notin pinned
             /\ \A i \in Keys \ (pinned \cup {k}) : <<j, i>> \in lru => Evicts(k, i)

(* A piece that fits beside the pinned entries is kept: Put loses the value *)
(* it was given only if the pinned residents leave no room for it.          *)
PutKeepsWhatFits ==
    \A k \in Keys, n \in Sizes :
        size'[k] # n /\ Put(k, n) => Total(size, pinned \ {k}) + n > Capacity

(* An eviction pass goes far enough, takes the oldest entries that are not  *)
(* pinned, and no more than it must: the three of the above.                *)
EvictionRight == [][Drains /\ EvictsOldestUnpinned /\ PutKeepsWhatFits]_vars

(* To its users the cache is a lossy map: whatever is evicted, rolled back,  *)
(* removed or invalidated, a key shows the value last put under it or        *)
(* nothing, and no call adds an entry but a Put of that entry.               *)
Lossy == INSTANCE LossyMap WITH Values <- Sizes, None <- 0, content <- size

ImplementsLossyMap == Lossy!Spec

=============================================================================
