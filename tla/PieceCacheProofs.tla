-------------------------- MODULE PieceCacheProofs --------------------------
(***************************************************************************)
(* Proofs about the piece cache, for every capacity, every set of lengths   *)
(* and every finite set of torrents and pieces.                             *)
(***************************************************************************)
EXTENDS PieceCache, FiniteSetTheorems, TLAPS

USE ZenonT(40)

(* The inductive invariant.  Capacity and reservation bounds are facts about *)
(* the counters, so they are inductive only together with the exactness of   *)
(* the counters.                                                             *)
IInv ==
    /\ TypeOK
    /\ AccountingExact
    /\ HardCapacity
    /\ ReservationCovers
    /\ SizedPinsBounded

(* Its two halves, over the variables of the resident entries and over those *)
(* of the pins; ReservationCovers relates them.                              *)
ResidentsOK ==
    /\ size \in [Keys -> Nat] /\ lru \subseteq Keys \X Keys
    /\ used \in Nat /\ usedByTorrent \in [Torrents -> Nat]
    /\ used = Total(size, Keys)
    /\ \A t \in Torrents : usedByTorrent[t] = Total(size, KeysOf(t))
    /\ used <= Capacity

PinsOK ==
    /\ pinned \subseteq Keys /\ pinnedSized \subseteq pinned
    /\ pinnedSizes \in [Keys -> Nat] /\ pinnedBytes \in Nat
    /\ pinnedBytes = Total(pinnedSizes, Keys)
    /\ Total(pinnedSizes, pinnedSized) <= PinBytesCap

-----------------------------------------------------------------------------
(* Totals: what the proofs need to know of Total, each fact for every finite *)
(* set.                                                                      *)

(* The units of one member number what the function says of it. *)
LEMMA IntervalSize ==
    ASSUME NEW n \in Nat
    PROVE  IsFiniteSet(1 .. n) /\ Cardinality(1 .. n) = n
<1>1. 1 \in Int /\ n \in Int /\ (1 > n => n = 0) /\ n - 1 + 1 = n
  BY SMTT(30)
<1>2. IsFiniteSet(1 .. n) /\ Cardinality(1 .. n) = IF 1 > n THEN 0 ELSE n - 1 + 1
  BY <1>1, FS_Interval
<1> QED BY <1>1, <1>2

(* A finite set holds finitely many units, so its total is a number. *)
LEMMA TotalType ==
    ASSUME NEW S, IsFiniteSet(S), NEW f, \A k \in S : f[k] \in Nat
    PROVE  IsFiniteSet(Units(f, S)) /\ Total(f, S) \in Nat
<1> DEFINE column == [k \in S |-> {k} \X (1 .. f[k])]
           columns == {{k} \X (1 .. f[k]) : k \in S}
<1>1. column \in Surjection(S, columns)
  BY DEF Surjection
<1>2. IsFiniteSet(columns)
  BY <1>1, FS_Surjection, SMTT(30)
<1>3. \A c \in columns : IsFiniteSet(c)
  <2> SUFFICES ASSUME NEW k \in S PROVE IsFiniteSet({k} \X (1 .. f[k]))
    OBVIOUS
  <2>1. IsFiniteSet({k})
    BY FS_Singleton
  <2>2. IsFiniteSet(1 .. f[k])
    BY IntervalSize
  <2> QED BY <2>1, <2>2, FS_Product
<1>4. IsFiniteSet(UNION columns)
  BY <1>2, <1>3, FS_UNION
<1> QED BY <1>4, FS_CardinalityType DEF Units, Total

(* Nothing holds no units. *)
LEMMA TotalEmpty == \A f : Total(f, {}) = 0
<1> SUFFICES ASSUME NEW f PROVE Total(f, {}) = 0
  OBVIOUS
<1>1. Units(f, {}) = {}
  BY DEF Units
<1> QED BY <1>1, FS_EmptySet DEF Total

(* One key contributes its value. *)
LEMMA TotalSingle ==
    ASSUME NEW k, NEW f, f[k] \in Nat
    PROVE  Total(f, {k}) = f[k]
<1>1. Units(f, {k}) = {k} \X (1 .. f[k])
  BY DEF Units
<1>2. IsFiniteSet({k}) /\ Cardinality({k}) = 1
  BY FS_Singleton
<1>3. IsFiniteSet(1 .. f[k]) /\ Cardinality(1 .. f[k]) = f[k]
  BY IntervalSize
<1>4. Cardinality({k} \X (1 .. f[k])) = Cardinality({k}) * Cardinality(1 .. f[k])
  BY <1>2, <1>3, FS_Product
<1>5. Cardinality({k} \X (1 .. f[k])) = 1 * f[k]
  BY <1>2, <1>3, <1>4
<1>6. 1 * f[k] = f[k]
  BY SMTT(30)
<1> QED BY <1>1, <1>5, <1>6 DEF Total

(* Totals depend only on the values over the set. *)
LEMMA TotalAgree ==
    ASSUME NEW S, NEW f, NEW g, \A k \in S : f[k] = g[k]
    PROVE  Total(f, S) = Total(g, S)
<1>1. Units(f, S) = Units(g, S)
  BY DEF Units
<1> QED BY <1>1 DEF Total

(* Totals add up over disjoint sets. *)
LEMMA TotalDisjoint ==
    ASSUME NEW S, IsFiniteSet(S), NEW T, IsFiniteSet(T), S \cap T = {},
           NEW f, \A k \in S \cup T : f[k] \in Nat
    PROVE  Total(f, S \cup T) = Total(f, S) + Total(f, T)
<1>1. Units(f, S \cup T) = Units(f, S) \cup Units(f, T)
  BY DEF Units
<1>2. Units(f, S) \cap Units(f, T) = {}
  BY SMTT(30) DEF Units
<1>3. IsFiniteSet(Units(f, S)) /\ IsFiniteSet(Units(f, T))
  BY TotalType
<1>4. Cardinality(Units(f, S)) \in Nat /\ Cardinality(Units(f, T)) \in Nat
  BY <1>3, FS_CardinalityType, SMTT(30)
<1>5. Cardinality(Units(f, S) \cup Units(f, T)) =
        Cardinality(Units(f, S)) + Cardinality(Units(f, T)) - Cardinality(Units(f, S) \cap Units(f, T))
  BY <1>3, FS_Union, SMTT(30)
<1>6. Cardinality(Units(f, S) \cap Units(f, T)) = 0
  BY <1>2, FS_EmptySet, SMTT(30)
<1>7. Cardinality(Units(f, S) \cup Units(f, T)) = Cardinality(Units(f, S)) + Cardinality(Units(f, T))
  BY <1>4, <1>5, <1>6, SMTT(30)
<1> QED BY <1>1, <1>7 DEF Total

(* A part and the rest. *)
LEMMA TotalSplit ==
    ASSUME NEW S, IsFiniteSet(S), NEW T \in SUBSET S,
           NEW f, \A k \in S : f[k] \in Nat
    PROVE  /\ Total(f, S) = Total(f, T) + Total(f, S \ T)
           /\ Total(f, T) \in Nat /\ Total(f, S \ T) \in Nat
           /\ Total(f, T) <= Total(f, S)
<1>1. IsFiniteSet(T) /\ IsFiniteSet(S \ T)
  BY FS_Subset, FS_Difference, SMTT(30)
<1>2. T \cup (S \ T) = S /\ T \cap (S \ T) = {}
  OBVIOUS
<1>3. Total(f, S) = Total(f, T) + Total(f, S \ T)
  BY <1>1, <1>2, TotalDisjoint, SMTT(30)
<1>4. Total(f, T) \in Nat /\ Total(f, S \ T) \in Nat
  BY <1>1, TotalType
<1> QED BY <1>3, <1>4, SMTT(30)

(* Pointwise smaller values have a smaller total. *)
LEMMA TotalMonotone ==
    ASSUME NEW S, IsFiniteSet(S), NEW f, NEW g,
           \A k \in S : f[k] \in Nat /\ g[k] \in Nat /\ f[k] <= g[k]
    PROVE  Total(f, S) <= Total(g, S)
<1>1. IsFiniteSet(Units(g, S))
  BY TotalType
<1>2. Units(f, S) \in SUBSET Units(g, S)
  <2> SUFFICES ASSUME NEW k \in S, NEW i \in 1 .. f[k] PROVE i \in 1 .. g[k]
    BY SMTT(30) DEF Units
  <2> QED BY SMTT(30)
<1> QED BY <1>1, <1>2, FS_Subset DEF Total

(* Changing one value changes the total by the difference. *)
LEMMA TotalUpdate ==
    ASSUME NEW S, IsFiniteSet(S), NEW k \in S,
           NEW f, NEW g, \A j \in S : f[j] \in Nat /\ g[j] \in Nat,
           \A j \in S \ {k} : g[j] = f[j]
    PROVE  Total(g, S) = Total(f, S) - f[k] + g[k]
<1>1. Total(f, S) = Total(f, {k}) + Total(f, S \ {k}) /\ Total(f, S \ {k}) \in Nat
  BY TotalSplit
<1>2. Total(g, S) = Total(g, {k}) + Total(g, S \ {k}) /\ Total(g, S \ {k}) \in Nat
  BY TotalSplit
<1>3. Total(f, {k}) = f[k] /\ Total(g, {k}) = g[k]
  BY TotalSingle
<1>4. Total(f, S \ {k}) = Total(g, S \ {k})
  BY TotalAgree
<1> QED BY <1>1, <1>2, <1>3, <1>4, SMTT(30)

(* Clearing the values of T leaves the total of the rest. *)
LEMMA TotalClear ==
    ASSUME NEW S, IsFiniteSet(S), NEW T, NEW f, NEW g,
           \A j \in S : f[j] \in Nat,
           \A j \in S : g[j] = IF j \in T THEN 0 ELSE f[j]
    PROVE  Total(g, S) = Total(f, S) - Total(f, S \cap T)
<1>1. S \cap T \in SUBSET S /\ S \ (S \cap T) = S \ T
  OBVIOUS
<1>2. Total(f, S) = Total(f, S \cap T) + Total(f, S \ T)
  BY <1>1, TotalSplit, SMTT(30)
<1>3. \A j \in S : g[j] \in Nat
  BY SMTT(30)
<1>4. Total(g, S) = Total(g, S \cap T) + Total(g, S \ T)
  BY <1>1, <1>3, TotalSplit, SMTT(30)
<1>5. Total(g, S \ T) = Total(f, S \ T)
  BY TotalAgree
<1>6. Total(g, S \cap T) = 0
  <2>1. Units(g, S \cap T) = {}
    BY SMTT(30) DEF Units
  <2> QED BY <2>1, FS_EmptySet DEF Total
<1>7. Total(f, S \ T) \in Nat /\ Total(f, S \cap T) \in Nat
  BY <1>1, TotalSplit
<1> QED BY <1>2, <1>4, <1>5, <1>6, <1>7, SMTT(30)

(* The same for the function a release builds. *)
LEMMA TotalCleared ==
    ASSUME NEW S, IsFiniteSet(S), NEW f \in [S -> Nat], NEW T \in SUBSET S
    PROVE  Total([j \in S |-> IF j \in T THEN 0 ELSE f[j]], S) = Total(f, S) - Total(f, T)
<1> DEFINE g == [j \in S |-> IF j \in T THEN 0 ELSE f[j]]
<1>1. /\ \A j \in S : f[j] \in Nat
      /\ \A j \in S : g[j] = IF j \in T THEN 0 ELSE f[j]
      /\ S \cap T = T
  OBVIOUS
<1> HIDE DEF g
<1>2. Total(g, S) = Total(f, S) - Total(f, S \cap T)
  BY <1>1, TotalClear
<1>3. Total(g, S) = Total(f, S) - Total(f, T)
  BY <1>1, <1>2
<1> QED BY <1>3 DEF g

(* A positive total has a positive member. *)
LEMMA TotalPositive ==
    ASSUME NEW S, NEW f, \A k \in S : f[k] \in Nat, Total(f, S) # 0
    PROVE  \E k \in S : f[k] > 0
<1>1. Units(f, S) # {}
  BY FS_EmptySet, SMTT(30) DEF Total
<1>2. PICK k \in S : {k} \X (1 .. f[k]) # {}
  BY <1>1 DEF Units
<1> QED BY <1>2, SMTT(30)

-----------------------------------------------------------------------------
(* The inductive invariant is these parts, in a state and in the next one. *)
LEMMA IInvParts ==
    /\ IInv <=> ResidentsOK /\ PinsOK /\ ReservationCovers
    /\ IInv' <=> ResidentsOK' /\ PinsOK' /\ ReservationCovers'
BY DEF IInv, ResidentsOK, PinsOK, TypeOK, AccountingExact, HardCapacity, SizedPinsBounded

(* There are finitely many keys, and every key belongs to its torrent. *)
LEMMA KeysFacts ==
    /\ IsFiniteSet(Keys)
    /\ \A t \in Torrents : KeysOf(t) \subseteq Keys /\ IsFiniteSet(KeysOf(t))
    /\ \A k \in Keys : k[1] \in Torrents /\ k \in KeysOf(k[1])
    /\ \A k \in Keys, t \in Torrents : k \in KeysOf(t) <=> k[1] = t
<1>1. IsFiniteSet(Keys)
  BY ConstantsAssumption, FS_Product, SMTT(30) DEF Keys
<1>2. \A t \in Torrents : KeysOf(t) \subseteq Keys
  BY DEF Keys, KeysOf
<1>3. \A t \in Torrents : IsFiniteSet(KeysOf(t))
  BY <1>1, <1>2, FS_Subset, SMTT(30)
<1> QED BY <1>1, <1>2, <1>3 DEF Keys, KeysOf

(* The marks are in order, and what PinSize may reserve leaves the low mark *)
(* uncovered.                                                               *)
LEMMA Watermarks ==
    /\ LowWater(Capacity) \in Nat /\ HighWater(Capacity) \in Nat
    /\ LowWater(Capacity) <= HighWater(Capacity)
    /\ HighWater(Capacity) <= Capacity
    /\ PinBytesCap \in Nat
    /\ PinBytesCap <= LowWater(Capacity)
BY ConstantsAssumption, SMTT(30) DEF LowWater, HighWater, PinBytesCap

(* remove keeps every counter exact and never adds a byte. *)
LEMMA RemoveAllExact ==
    ASSUME NEW sz \in [Keys -> Nat], NEW order \in SUBSET (Keys \X Keys),
           NEW total, total = Total(sz, Keys),
           NEW byTorrent, \A t \in Torrents : byTorrent[t] = Total(sz, KeysOf(t)),
           NEW gone \in SUBSET Keys,
           RemoveAll(sz, order, total, byTorrent, gone)
    PROVE  /\ size' \in [Keys -> Nat]
           /\ lru' \subseteq Keys \X Keys
           /\ used' \in Nat
           /\ usedByTorrent' \in [Torrents -> Nat]
           /\ used' = Total(size', Keys)
           /\ \A t \in Torrents : usedByTorrent'[t] = Total(size', KeysOf(t))
           /\ used' <= total
           /\ \A k \in Keys : size'[k] <= sz[k]
<1>1. size' = [k \in Keys |-> IF k \in gone THEN 0 ELSE sz[k]]
  BY DEF RemoveAll
<1>2. size' \in [Keys -> Nat] /\ \A k \in Keys : size'[k] <= sz[k]
  BY <1>1, SMTT(30)
<1>3. lru' \subseteq Keys \X Keys
  BY DEF RemoveAll, Without
<1>4. Total(size', Keys) = Total(sz, Keys) - Total(sz, gone)
  <2>1. Keys \cap gone = gone
    OBVIOUS
  <2>2. /\ \A j \in Keys : sz[j] \in Nat
        /\ \A j \in Keys : size'[j] = IF j \in gone THEN 0 ELSE sz[j]
    BY <1>1
  <2>3. IsFiniteSet(Keys)
    BY KeysFacts
  <2>4. Total(size', Keys) = Total(sz, Keys) - Total(sz, Keys \cap gone)
    BY <2>2, <2>3, TotalClear
  <2> QED BY <2>1, <2>4
<1>5. used' = Total(size', Keys)
  BY <1>4 DEF RemoveAll
<1>6. used' \in Nat
  BY <1>2, <1>5, KeysFacts, TotalType
<1>7. used' <= total
  <2>1. Total(sz, gone) \in Nat /\ Total(sz, Keys) \in Nat
    BY KeysFacts, TotalSplit, TotalType
  <2> QED BY <2>1, SMTT(30) DEF RemoveAll
<1>8. ASSUME NEW t \in Torrents
      PROVE  /\ usedByTorrent'[t] = Total(size', KeysOf(t))
             /\ usedByTorrent'[t] \in Nat
  <2>1. IsFiniteSet(KeysOf(t)) /\ KeysOf(t) \subseteq Keys
    BY KeysFacts
  <2>2. Total(size', KeysOf(t)) = Total(sz, KeysOf(t)) - Total(sz, KeysOf(t) \cap gone)
    <3> DEFINE S == KeysOf(t)
    <3>1. /\ \A j \in S : sz[j] \in Nat
          /\ \A j \in S : size'[j] = IF j \in gone THEN 0 ELSE sz[j]
      BY <1>1, <2>1
    <3>2. IsFiniteSet(S)
      BY <2>1
    <3> HIDE DEF S
    <3>3. Total(size', S) = Total(sz, S) - Total(sz, S \cap gone)
      BY <3>1, <3>2, TotalClear
    <3> QED BY <3>3 DEF S
  <2>3. Total(size', KeysOf(t)) \in Nat
    BY <1>2, <2>1, TotalType
  <2>4. Total(sz, KeysOf(t)) \in Nat /\ Total(sz, KeysOf(t) \cap gone) \in Nat
    BY <2>1, TotalType, TotalSplit
  <2>5. usedByTorrent'[t] = Drop(Total(sz, KeysOf(t)), Total(sz, KeysOf(t) \cap gone))
    <3>1. gone \cap KeysOf(t) = KeysOf(t) \cap gone
      OBVIOUS
    <3> QED BY <3>1 DEF RemoveAll
  <2> QED BY <2>2, <2>3, <2>4, <2>5, SMTT(30) DEF Drop
<1>9. usedByTorrent' \in [Torrents -> Nat]
  <2>1. usedByTorrent' = [t \in Torrents |-> usedByTorrent'[t]]
    BY DEF RemoveAll
  <2> QED BY <1>8, <2>1
<1> QED BY <1>2, <1>3, <1>5, <1>6, <1>7, <1>8, <1>9

(* Only keys are victims, and never a pinned one nor the one being kept. *)
LEMMA VictimsFacts ==
    ASSUME NEW sz, NEW order, NEW total, NEW pins, NEW keep
    PROVE  /\ Victims(sz, order, total, pins, keep) \subseteq Keys
           /\ Victims(sz, order, total, pins, keep) \cap pins = {}
           /\ Victims(sz, order, total, pins, keep) \cap keep = {}
BY DEF Victims, Evictable

(* Eviction and removal alone: Remove, and the pass that Unpin runs. *)
LEMMA RemovalKeepsResidents ==
    ASSUME IInv, NEW gone \in SUBSET Keys,
           RemoveAll(size, lru, used, usedByTorrent, gone)
    PROVE  /\ ResidentsOK'
           /\ \A k \in Keys : size'[k] <= size[k]
<1>1. /\ size \in [Keys -> Nat] /\ lru \in SUBSET (Keys \X Keys)
      /\ used = Total(size, Keys) /\ used \in Nat /\ used <= Capacity
      /\ \A t \in Torrents : usedByTorrent[t] = Total(size, KeysOf(t))
  BY DEF IInv, TypeOK, AccountingExact, HardCapacity
<1>2. /\ size' \in [Keys -> Nat] /\ lru' \subseteq Keys \X Keys
      /\ used' \in Nat /\ usedByTorrent' \in [Torrents -> Nat]
      /\ used' = Total(size', Keys)
      /\ \A t \in Torrents : usedByTorrent'[t] = Total(size', KeysOf(t))
      /\ used' <= used
      /\ \A k \in Keys : size'[k] <= size[k]
  BY <1>1, RemoveAllExact
<1>3. used' <= Capacity
  BY <1>1, <1>2, ConstantsAssumption, SMTT(30)
<1> QED BY <1>2, <1>3 DEF ResidentsOK

(* The resident half of Put: after the replacement, the eviction pass and   *)
(* the rollback the counters are exact and the capacity holds.              *)
LEMMA PutResidents ==
    ASSUME IInv, NEW k \in Keys, NEW n \in Sizes, Put(k, n)
    PROVE  /\ ResidentsOK'
           /\ size'[k] <= n
           /\ \A j \in Keys \ {k} : size'[j] <= size[j]
<1> DEFINE sz == [size EXCEPT ![k] = n]
           order == ToFront(k, lru, Residents(size))
           total == used - size[k] + n
           byTorrent == [usedByTorrent EXCEPT ![k[1]] = Drop(@, size[k]) + n]
           gone == Removed(k, sz, order, total)
<1>1. /\ size \in [Keys -> Nat] /\ lru \in SUBSET (Keys \X Keys)
      /\ used = Total(size, Keys) /\ used \in Nat /\ used <= Capacity
      /\ usedByTorrent \in [Torrents -> Nat]
      /\ \A t \in Torrents : usedByTorrent[t] = Total(size, KeysOf(t))
      /\ n \in Nat /\ Capacity \in Nat
  BY ConstantsAssumption DEF IInv, TypeOK, AccountingExact, HardCapacity
<1>2. sz \in [Keys -> Nat] /\ sz[k] = n /\ \A j \in Keys \ {k} : sz[j] = size[j]
  BY <1>1
<1>3. order \in SUBSET (Keys \X Keys)
  BY <1>1 DEF ToFront, Residents
<1>4. total = Total(sz, Keys)
  <2>1. \A j \in Keys : size[j] \in Nat /\ sz[j] \in Nat
    BY <1>1, <1>2
  <2>2. IsFiniteSet(Keys)
    BY KeysFacts
  <2>3. Total(sz, Keys) = Total(size, Keys) - size[k] + sz[k]
    <3> HIDE DEF sz
    <3> QED BY <1>2, <2>1, <2>2, TotalUpdate, SMTT(30)
  <2> QED BY <1>1, <1>2, <2>3
<1>5. ASSUME NEW t \in Torrents PROVE byTorrent[t] = Total(sz, KeysOf(t))
  <2>1. /\ IsFiniteSet(KeysOf(t)) /\ KeysOf(t) \subseteq Keys
        /\ k \in KeysOf(t) <=> k[1] = t
        /\ \A j \in KeysOf(t) : size[j] \in Nat /\ sz[j] \in Nat
    BY <1>1, <1>2, KeysFacts
  <2>2. CASE k[1] = t
    <3>1. Total(sz, KeysOf(t)) = Total(size, KeysOf(t)) - size[k] + sz[k]
      <4>1. k \in KeysOf(t) /\ \A j \in KeysOf(t) \ {k} : sz[j] = size[j]
        BY <1>2, <2>1, <2>2
      <4> HIDE DEF sz
      <4> QED BY <2>1, <4>1, TotalUpdate, SMTT(30)
    <3>2. Total(size, {k}) <= Total(size, KeysOf(t)) /\ Total(size, {k}) = size[k]
      <4>1. {k} \in SUBSET KeysOf(t)
        BY <2>1, <2>2
      <4>2. Total(size, KeysOf(t)) = Total(size, {k}) + Total(size, KeysOf(t) \ {k})
        BY <2>1, <4>1, TotalSplit
      <4>3. Total(size, KeysOf(t) \ {k}) \in Nat
        BY <1>1, <2>1, FS_Subset, TotalType
      <4>4. Total(size, {k}) = size[k] /\ size[k] \in Nat
        BY <1>1, TotalSingle
      <4> QED BY <4>2, <4>3, <4>4, SMTT(30)
    <3>3. usedByTorrent[t] = Total(size, KeysOf(t)) /\ usedByTorrent[t] \in Nat
      BY <1>1
    <3>4. Drop(usedByTorrent[t], size[k]) = usedByTorrent[t] - size[k]
      BY <1>1, <3>2, <3>3, SMTT(30) DEF Drop
    <3>5. byTorrent[t] = usedByTorrent[t] - size[k] + n
      BY <1>1, <2>2, <3>4
    <3> QED BY <1>2, <3>1, <3>3, <3>5
  <2>3. CASE k[1] # t
    <3>1. Total(sz, KeysOf(t)) = Total(size, KeysOf(t))
      <4>1. \A j \in KeysOf(t) : sz[j] = size[j]
        BY <1>2, <2>1, <2>3
      <4> HIDE DEF sz
      <4> QED BY <4>1, TotalAgree
    <3> QED BY <1>1, <2>3, <3>1
  <2> QED BY <2>2, <2>3
<1>6. gone \in SUBSET Keys
  BY VictimsFacts, SMTT(30) DEF Removed
<1>7. RemoveAll(sz, order, total, byTorrent, gone)
  BY DEF Put
<1> HIDE DEF sz, order, total, byTorrent, gone
<1>8. /\ size' \in [Keys -> Nat] /\ lru' \subseteq Keys \X Keys
      /\ used' \in Nat /\ usedByTorrent' \in [Torrents -> Nat]
      /\ used' = Total(size', Keys)
      /\ \A t \in Torrents : usedByTorrent'[t] = Total(size', KeysOf(t))
      /\ \A j \in Keys : size'[j] <= sz[j]
  BY <1>2, <1>3, <1>4, <1>5, <1>6, <1>7, RemoveAllExact
<1>9. used' <= Capacity
  <2>1. used' = total - Total(sz, gone)
    BY <1>7 DEF RemoveAll
  <2> DEFINE victims == Victims(sz, order, total, pinned, {k})
  <2>2. CASE total - Total(sz, victims) > Capacity
    <3>1. {k} \in SUBSET gone /\ IsFiniteSet(gone)
      BY <1>6, <2>2, KeysFacts, FS_Subset DEF gone, Removed
    <3>2. \A j \in gone : sz[j] \in Nat
      BY <1>2, <1>6
    <3>3. Total(sz, {k}) = n
      BY <1>1, <1>2, TotalSingle
    <3>4. n <= Total(sz, gone) /\ Total(sz, gone) \in Nat
      BY <3>1, <3>2, <3>3, TotalSplit, TotalType
    <3>5. size[k] \in Nat
      BY <1>1
    <3> QED BY <1>1, <2>1, <3>4, <3>5, SMTT(30) DEF total
  <2>3. CASE ~(total - Total(sz, victims) > Capacity)
    <3>1. gone = victims
      BY <2>3 DEF gone, Removed
    <3> HIDE DEF victims
    <3>2. used' = total - Total(sz, victims)
      BY <2>1, <3>1
    <3> QED BY <1>1, <1>8, <2>3, <3>2, SMTT(30)
  <2> QED BY <2>2, <2>3
<1> QED BY <1>2, <1>8, <1>9 DEF ResidentsOK

-----------------------------------------------------------------------------
(* A step that sets the reservation of one pinned key, keeps the counter in *)
(* step and either stays under pinBytesCap or leaves a key PinSize did not  *)
(* reserve.                                                                 *)
LEMMA ReservationChange ==
    ASSUME PinsOK, NEW k \in Keys, NEW n \in Nat,
           pinned' \subseteq Keys, pinnedSized' \subseteq pinned',
           pinnedSizes' \in [Keys -> Nat], pinnedSizes'[k] = n,
           \A j \in Keys \ {k} : pinnedSizes'[j] = pinnedSizes[j],
           pinnedBytes' = pinnedBytes + n - pinnedSizes[k],
           pinnedBytes' <= PinBytesCap \/ (pinnedSized' = pinnedSized /\ k \notin pinnedSized)
    PROVE  PinsOK'
<1>1. /\ pinnedSizes \in [Keys -> Nat] /\ pinnedBytes \in Nat
      /\ pinnedBytes = Total(pinnedSizes, Keys)
      /\ pinnedSized \subseteq Keys /\ pinnedSized' \subseteq Keys
      /\ Total(pinnedSizes, pinnedSized) <= PinBytesCap
  BY DEF PinsOK
<1>2. pinnedSizes' \in [Keys -> Nat] /\ pinnedSizes'[k] = n
  OBVIOUS
<1>3. \A j \in Keys \ {k} : pinnedSizes'[j] = pinnedSizes[j]
  OBVIOUS
<1>4. IsFiniteSet(Keys)
  BY KeysFacts
<1>5. pinnedBytes' = Total(pinnedSizes', Keys)
  <2>1. \A j \in Keys : pinnedSizes[j] \in Nat /\ pinnedSizes'[j] \in Nat
    BY <1>1, <1>2
  <2>2. Total(pinnedSizes', Keys) = Total(pinnedSizes, Keys) - pinnedSizes[k] + pinnedSizes'[k]
    BY <1>3, <1>4, <2>1, TotalUpdate, SMTT(30)
  <2> QED BY <1>1, <1>2, <2>1, <2>2, SMTT(30)
<1>6. pinnedBytes' \in Nat
  BY <1>2, <1>4, <1>5, TotalType
<1>7. Total(pinnedSizes', pinnedSized') <= PinBytesCap
  <2>1. CASE pinnedBytes' <= PinBytesCap
    <3>1. /\ Total(pinnedSizes', pinnedSized') \in Nat
          /\ Total(pinnedSizes', pinnedSized') <= Total(pinnedSizes', Keys)
      <4>1. pinnedSized' \in SUBSET Keys /\ \A j \in Keys : pinnedSizes'[j] \in Nat
        BY <1>1, <1>2
      <4> QED BY <1>4, <4>1, TotalSplit
    <3> QED BY <1>5, <1>6, <2>1, <3>1, Watermarks, SMTT(30)
  <2>2. CASE pinnedSized' = pinnedSized /\ k \notin pinnedSized
    <3>1. \A j \in pinnedSized : pinnedSizes'[j] = pinnedSizes[j]
      BY <1>1, <1>3, <2>2
    <3>2. Total(pinnedSizes', pinnedSized) = Total(pinnedSizes, pinnedSized)
      BY <3>1, TotalAgree
    <3> QED BY <1>1, <2>2, <3>2
  <2> QED BY <2>1, <2>2
<1> QED BY <1>2, <1>5, <1>6, <1>7 DEF PinsOK

(* Releasing pins, one by one or with their torrent. *)
LEMMA ReservationRelease ==
    ASSUME PinsOK, NEW keys \in SUBSET Keys,
           pinned' = pinned \ keys,
           pinnedSizes' = [k \in Keys |-> IF k \in keys THEN 0 ELSE pinnedSizes[k]],
           pinnedSized' = pinnedSized \ keys,
           pinnedBytes' = pinnedBytes - Total(pinnedSizes, keys)
    PROVE  PinsOK'
<1>1. /\ pinnedSizes \in [Keys -> Nat] /\ pinnedBytes \in Nat
      /\ pinnedBytes = Total(pinnedSizes, Keys)
      /\ pinnedSized \subseteq Keys /\ pinnedSized \subseteq pinned /\ pinned \subseteq Keys
      /\ Total(pinnedSizes, pinnedSized) <= PinBytesCap
  BY DEF PinsOK
<1>2. pinnedSizes' \in [Keys -> Nat]
  BY <1>1
<1>3. IsFiniteSet(Keys)
  BY KeysFacts
<1>4. pinnedBytes' = Total(pinnedSizes', Keys)
  <2>1. Total(pinnedSizes', Keys) = Total(pinnedSizes, Keys) - Total(pinnedSizes, keys)
    BY <1>1, <1>3, TotalCleared, SMTT(30)
  <2> QED BY <1>1, <2>1
<1>5. pinnedBytes' \in Nat
  BY <1>2, <1>3, <1>4, TotalType
<1>6. Total(pinnedSizes', pinnedSized') <= PinBytesCap
  <2>1. Total(pinnedSizes', pinnedSized') = Total(pinnedSizes, pinnedSized')
    <3>1. \A j \in pinnedSized' : pinnedSizes'[j] = pinnedSizes[j]
      BY <1>1
    <3> QED BY <3>1, TotalAgree
  <2>2. /\ Total(pinnedSizes, pinnedSized') <= Total(pinnedSizes, pinnedSized)
        /\ Total(pinnedSizes, pinnedSized') \in Nat /\ Total(pinnedSizes, pinnedSized) \in Nat
    <3>1. /\ IsFiniteSet(pinnedSized) /\ pinnedSized' \in SUBSET pinnedSized
          /\ \A j \in pinnedSized : pinnedSizes[j] \in Nat
      BY <1>1, <1>3, FS_Subset, SMTT(30)
    <3> QED BY <3>1, TotalSplit, TotalType
  <2> QED BY <1>1, <2>1, <2>2, Watermarks, SMTT(30)
<1> QED BY <1>1, <1>2, <1>4, <1>5, <1>6 DEF PinsOK

-----------------------------------------------------------------------------
(* The initial cache is empty. *)
LEMMA InitIInv == Init => IInv
<1> SUFFICES ASSUME Init PROVE IInv
  OBVIOUS
<1>1. /\ size = [k \in Keys |-> 0] /\ pinnedSizes = [k \in Keys |-> 0]
      /\ pinned = {} /\ pinnedSized = {} /\ pinnedBytes = 0
      /\ lru = {} /\ used = 0 /\ usedByTorrent = [t \in Torrents |-> 0]
  BY DEF Init
<1>2. ASSUME NEW S \in SUBSET Keys PROVE Total(size, S) = 0 /\ Total(pinnedSizes, S) = 0
  <2>1. Units(size, S) = {} /\ Units(pinnedSizes, S) = {}
    BY <1>1, SMTT(30) DEF Units
  <2> QED BY <2>1, FS_EmptySet DEF Total
<1>3. ResidentsOK
  <2>1. \A t \in Torrents : KeysOf(t) \in SUBSET Keys
    BY KeysFacts
  <2> QED BY <1>1, <1>2, <2>1, ConstantsAssumption, SMTT(30) DEF ResidentsOK
<1>4. PinsOK
  BY <1>1, <1>2, Watermarks, SMTT(30) DEF PinsOK
<1>5. ReservationCovers
  BY <1>1 DEF ReservationCovers
<1> QED BY <1>3, <1>4, <1>5, IInvParts

(* Put keeps the invariant. *)
LEMMA PutIInv == ASSUME IInv, NEW k \in Keys, NEW n \in Sizes, Put(k, n) PROVE IInv'
<1>1. /\ ResidentsOK' /\ size'[k] <= n /\ \A j \in Keys \ {k} : size'[j] <= size[j]
  BY PutResidents
<1>2. /\ PinsOK /\ ReservationCovers /\ n \in Nat
      /\ size \in [Keys -> Nat] /\ size' \in [Keys -> Nat]
      /\ pinnedSizes \in [Keys -> Nat] /\ pinned \subseteq Keys /\ pinnedSized \subseteq pinned
      /\ pinnedBytes \in Nat
  BY <1>1, IInvParts, ConstantsAssumption DEF ResidentsOK, PinsOK
<1>3. pinned' = pinned /\ pinnedSized' = pinnedSized
  BY DEF Put
<1>4. CASE k \in pinned
  <2>1. /\ pinnedSizes' = [pinnedSizes EXCEPT ![k] = n]
        /\ pinnedBytes' = pinnedBytes + n - pinnedSizes[k]
        /\ k \in pinnedSized => pinnedBytes - pinnedSizes[k] + n <= PinBytesCap
    BY <1>4 DEF Put
  <2>2. /\ pinnedSizes' \in [Keys -> Nat] /\ pinnedSizes'[k] = n
        /\ \A j \in Keys \ {k} : pinnedSizes'[j] = pinnedSizes[j]
    BY <1>2, <2>1
  <2>3. k \in pinnedSized => pinnedBytes' <= PinBytesCap
    <3>1. pinnedSizes[k] \in Nat
      BY <1>2
    <3> QED BY <1>2, <2>1, <3>1, Watermarks, SMTT(30)
  <2>4. PinsOK'
    <3>1. /\ pinned' \subseteq Keys /\ pinnedSized' \subseteq pinned'
          /\ pinnedBytes' <= PinBytesCap \/ (pinnedSized' = pinnedSized /\ k \notin pinnedSized)
      BY <1>2, <1>3, <2>3
    <3> QED BY <1>2, <2>1, <2>2, <3>1, ReservationChange
  <2>5. ReservationCovers'
    <3> SUFFICES ASSUME NEW j \in Keys
                 PROVE  IF j \in pinned THEN size'[j] <= pinnedSizes'[j] ELSE pinnedSizes'[j] = 0
      BY <1>3 DEF ReservationCovers
    <3>1. CASE j = k
      BY <1>1, <1>4, <2>2, <3>1
    <3>2. CASE j # k
      <4>1. /\ pinnedSizes'[j] = pinnedSizes[j] /\ size'[j] <= size[j]
            /\ size[j] \in Nat /\ size'[j] \in Nat /\ pinnedSizes[j] \in Nat
            /\ IF j \in pinned THEN size[j] <= pinnedSizes[j] ELSE pinnedSizes[j] = 0
        BY <1>1, <1>2, <2>2, <3>2 DEF ReservationCovers
      <4> QED BY <4>1, SMTT(30)
    <3> QED BY <3>1, <3>2
  <2> QED BY <1>1, <2>4, <2>5, IInvParts
<1>5. CASE k \notin pinned
  <2>1. pinnedSizes' = pinnedSizes /\ pinnedBytes' = pinnedBytes
    BY <1>5 DEF Put
  <2>2. PinsOK'
    BY <1>2, <1>3, <2>1 DEF PinsOK
  <2>3. ReservationCovers'
    <3> SUFFICES ASSUME NEW j \in Keys
                 PROVE  IF j \in pinned THEN size'[j] <= pinnedSizes[j] ELSE pinnedSizes[j] = 0
      BY <1>3, <2>1 DEF ReservationCovers
    <3>1. /\ j \in pinned => size'[j] <= size[j]
          /\ size[j] \in Nat /\ size'[j] \in Nat /\ pinnedSizes[j] \in Nat
          /\ IF j \in pinned THEN size[j] <= pinnedSizes[j] ELSE pinnedSizes[j] = 0
      BY <1>1, <1>2, <1>5 DEF ReservationCovers
    <3> QED BY <3>1, SMTT(30)
  <2> QED BY <1>1, <2>2, <2>3, IInvParts
<1> QED BY <1>4, <1>5

(* Both forms of pin keep the invariant. *)
LEMMA DoPinIInv ==
    ASSUME IInv, NEW k \in Keys, NEW requested \in Nat, NEW reserve \in BOOLEAN,
           DoPin(k, requested, reserve)
    PROVE  IInv'
<1> DEFINE actual == IF requested > size[k] THEN requested ELSE size[k]
<1>1. /\ ResidentsOK /\ PinsOK /\ ReservationCovers
      /\ size \in [Keys -> Nat] /\ pinnedSizes \in [Keys -> Nat] /\ pinnedBytes \in Nat
      /\ pinned \subseteq Keys /\ pinnedSized \subseteq pinned
  BY IInvParts DEF ResidentsOK, PinsOK
<1>2. actual \in Nat /\ size[k] <= actual /\ pinnedSizes[k] \in Nat
  BY <1>1, SMTT(30)
<1>3. ResidentsOK' /\ size' = size
  BY <1>1 DEF DoPin, residentVars, ResidentsOK
<1>4. \A j \in Keys : IF j \in pinned THEN size[j] <= pinnedSizes[j] ELSE pinnedSizes[j] = 0
  BY <1>1 DEF ReservationCovers
<1>5. PinAgain(k, actual, reserve) \/ PinGrow(k, actual, reserve) \/ PinNew(k, actual, reserve)
  BY DEF DoPin
<1> HIDE DEF actual
<1>6. CASE PinAgain(k, actual, reserve)
  <2>1. /\ pinned' = pinned /\ pinnedSizes' = pinnedSizes /\ pinnedBytes' = pinnedBytes
        /\ k \in pinned
        /\ \/ pinnedSized' = pinnedSized
           \/ pinnedSized' = pinnedSized \cup {k} /\ k \notin pinnedSized /\ pinnedBytes <= PinBytesCap
    BY <1>1, <1>6, Watermarks, SMTT(30) DEF PinAgain, PinOverdrawn
  <2>2. CASE pinnedSized' = pinnedSized
    <3>1. PinsOK' /\ ReservationCovers'
      BY <1>1, <1>3, <1>4, <2>1, <2>2 DEF PinsOK, ReservationCovers
    <3> QED BY <1>3, <3>1, IInvParts
  <2>3. CASE pinnedSized' = pinnedSized \cup {k} /\ pinnedBytes <= PinBytesCap
    <3>1. PinsOK'
      <4>1. /\ pinned' \subseteq Keys /\ pinnedSized' \subseteq pinned'
            /\ pinnedSizes' \in [Keys -> Nat] /\ pinnedSizes'[k] = pinnedSizes[k]
            /\ \A j \in Keys \ {k} : pinnedSizes'[j] = pinnedSizes[j]
            /\ pinnedBytes' = pinnedBytes + pinnedSizes[k] - pinnedSizes[k]
            /\ pinnedBytes' <= PinBytesCap
        BY <1>1, <1>2, <2>1, <2>3, SMTT(30)
      <4> QED BY <1>1, <1>2, <4>1, ReservationChange
    <3>2. ReservationCovers'
      BY <1>3, <1>4, <2>1 DEF ReservationCovers
    <3> QED BY <1>3, <3>1, <3>2, IInvParts
  <2> QED BY <2>1, <2>2, <2>3
<1>7. CASE PinGrow(k, actual, reserve) \/ PinNew(k, actual, reserve)
  <2>1. /\ pinned' = pinned \cup {k}
        /\ pinnedSized' \subseteq pinned'
        /\ pinnedSizes' = [pinnedSizes EXCEPT ![k] = actual]
        /\ pinnedBytes' = pinnedBytes + actual - pinnedSizes[k]
        /\ pinnedBytes' <= PinBytesCap
    <3>1. CASE PinGrow(k, actual, reserve)
      BY <1>1, <1>2, <3>1, Watermarks DEF PinGrow
    <3>2. CASE PinNew(k, actual, reserve)
      <4>1. pinnedSizes[k] = 0
        BY <1>4, <3>2 DEF PinNew
      <4> QED BY <1>1, <1>2, <3>2, <4>1, Watermarks, SMTT(30) DEF PinNew
    <3> QED BY <1>7, <3>1, <3>2
  <2>2. /\ pinnedSizes' \in [Keys -> Nat] /\ pinnedSizes'[k] = actual
        /\ \A j \in Keys \ {k} : pinnedSizes'[j] = pinnedSizes[j]
        /\ pinned' \subseteq Keys
    BY <1>1, <1>2, <2>1
  <2>3. PinsOK'
    BY <1>1, <1>2, <2>1, <2>2, ReservationChange
  <2>4. ReservationCovers'
    BY <1>2, <1>3, <1>4, <2>1, <2>2 DEF ReservationCovers
  <2> QED BY <1>3, <2>3, <2>4, IInvParts
<1> QED BY <1>5, <1>6, <1>7

(* Releasing the pins of keys while gone is removed: Unpin, UnpinTorrent   *)
(* (nothing removed) and InvalidateTorrent.                                *)
LEMMA ReleaseIInv ==
    ASSUME IInv, NEW keys \in SUBSET Keys,
           ResidentsOK', \A k \in Keys : size'[k] <= size[k],
           pinned' = pinned \ keys,
           pinnedSizes' = [k \in Keys |-> IF k \in keys THEN 0 ELSE pinnedSizes[k]],
           pinnedSized' = pinnedSized \ keys,
           pinnedBytes' = pinnedBytes - Total(pinnedSizes, keys)
    PROVE  IInv'
<1>1. /\ PinsOK /\ ReservationCovers
      /\ size \in [Keys -> Nat] /\ size' \in [Keys -> Nat] /\ pinnedSizes \in [Keys -> Nat]
  BY IInvParts DEF ResidentsOK, PinsOK
<1>2. PinsOK'
  BY <1>1, ReservationRelease
<1>3. ReservationCovers'
  <2> SUFFICES ASSUME NEW j \in Keys
               PROVE  IF j \in pinned' THEN size'[j] <= pinnedSizes'[j] ELSE pinnedSizes'[j] = 0
    BY DEF ReservationCovers
  <2>1. /\ size[j] \in Nat /\ size'[j] \in Nat /\ pinnedSizes[j] \in Nat
        /\ size'[j] <= size[j]
        /\ IF j \in pinned THEN size[j] <= pinnedSizes[j] ELSE pinnedSizes[j] = 0
        /\ pinnedSizes'[j] = IF j \in keys THEN 0 ELSE pinnedSizes[j]
    BY <1>1 DEF ReservationCovers
  <2> QED BY <2>1, SMTT(30)
<1> QED BY <1>2, <1>3, IInvParts

(* recountPinnedLocked after a torrent's pins are deleted finds what        *)
(* subtracting them would have left.                                        *)
LEMMA RecountExact ==
    ASSUME IInv, NEW t \in Torrents, InvalidateTorrent(t)
    PROVE  /\ pinnedSizes' = [k \in Keys |-> IF k \in KeysOf(t) THEN 0 ELSE pinnedSizes[k]]
           /\ pinnedBytes' = pinnedBytes - Total(pinnedSizes, KeysOf(t))
<1>1. /\ pinnedSizes \in [Keys -> Nat] /\ pinned \subseteq Keys
      /\ pinnedBytes = Total(pinnedSizes, Keys)
      /\ \A j \in Keys \ pinned : pinnedSizes[j] = 0
  BY DEF IInv, TypeOK, AccountingExact, ReservationCovers
<1>2. KeysOf(t) \in SUBSET Keys /\ IsFiniteSet(Keys) /\ \A k \in Keys : k \in KeysOf(t) <=> k[1] = t
  BY KeysFacts
<1>3. pinnedSizes' = [k \in Keys |-> IF k \in KeysOf(t) THEN 0 ELSE pinnedSizes[k]]
  BY <1>2 DEF InvalidateTorrent
<1>4. Total(pinnedSizes', Keys) = Total(pinnedSizes, Keys) - Total(pinnedSizes, KeysOf(t))
  BY <1>1, <1>2, <1>3, TotalCleared
<1>5. pinned' = pinned \ KeysOf(t) /\ pinnedBytes' = Total(pinnedSizes', pinned')
  BY DEF InvalidateTorrent
<1>6. pinned' \in SUBSET Keys /\ \A j \in Keys : pinnedSizes'[j] \in Nat
  BY <1>1, <1>3, <1>5
<1>7. /\ Total(pinnedSizes', Keys) = Total(pinnedSizes', pinned') + Total(pinnedSizes', Keys \ pinned')
      /\ Total(pinnedSizes', pinned') \in Nat
  BY <1>2, <1>6, TotalSplit
<1>8. Total(pinnedSizes', Keys \ pinned') = 0
  <2>1. \A j \in Keys \ pinned' : pinnedSizes'[j] = 0
    BY <1>1, <1>3, <1>5
  <2>2. Units(pinnedSizes', Keys \ pinned') = {}
    BY <2>1, SMTT(30) DEF Units
  <2> QED BY <2>2, FS_EmptySet DEF Total
<1> QED BY <1>1, <1>3, <1>4, <1>5, <1>7, <1>8, SMTT(30)

(* Every operation of the cache keeps the invariant. *)
LEMMA NextIInv == IInv /\ [Next]_vars => IInv'
<1> SUFFICES ASSUME IInv, [Next]_vars PROVE IInv'
  OBVIOUS
<1>1. /\ ResidentsOK /\ PinsOK /\ ReservationCovers
      /\ size \in [Keys -> Nat] /\ lru \subseteq Keys \X Keys /\ pinned \subseteq Keys
      /\ pinnedBytes \in Nat
  BY IInvParts DEF ResidentsOK, PinsOK
<1>2. ASSUME NEW k \in Keys, Get(k) PROVE IInv'
  <2>1. lru' \subseteq Keys \X Keys
    BY <1>1, <1>2 DEF Get, ToFront, Residents
  <2>2. ResidentsOK' /\ PinsOK' /\ ReservationCovers'
    BY <1>1, <1>2, <2>1 DEF Get, pinVars, ResidentsOK, PinsOK, ReservationCovers
  <2> QED BY <2>2, IInvParts
<1>3. ASSUME NEW k \in Keys, Remove(k) PROVE IInv'
  <2>1. ResidentsOK' /\ \A j \in Keys : size'[j] <= size[j]
    <3>1. {k} \in SUBSET Keys /\ RemoveAll(size, lru, used, usedByTorrent, {k})
      BY <1>3 DEF Remove
    <3> QED BY <3>1, RemovalKeepsResidents
  <2>2. PinsOK'
    BY <1>1, <1>3 DEF Remove, pinVars, PinsOK
  <2>3. ReservationCovers'
    <3>1. \A j \in Keys : size[j] \in Nat /\ size'[j] \in Nat /\ pinnedSizes[j] \in Nat
      BY <1>1, <2>1 DEF ResidentsOK, PinsOK
    <3> QED BY <1>1, <1>3, <2>1, <3>1, SMTT(30) DEF Remove, pinVars, ReservationCovers
  <2> QED BY <2>1, <2>2, <2>3, IInvParts
<1>4. ASSUME NEW k \in Keys, Unpin(k) PROVE IInv'
  <2> DEFINE victims == Victims(size, lru, used, pinned \ {k}, {})
  <2>1. victims \in SUBSET Keys
    BY VictimsFacts
  <2>2. RemoveAll(size, lru, used, usedByTorrent, victims)
    BY <1>4 DEF Unpin
  <2> HIDE DEF victims
  <2>3. ResidentsOK' /\ \A j \in Keys : size'[j] <= size[j]
    BY <2>1, <2>2, RemovalKeepsResidents
  <2>4. {k} \in SUBSET Keys /\ UnpinAll({k})
    BY <1>4 DEF Unpin
  <2> QED BY <2>3, <2>4, ReleaseIInv DEF UnpinAll
<1>5. ASSUME NEW k \in Keys, Pin(k) PROVE IInv'
  BY <1>5, DoPinIInv DEF Pin
<1>6. ASSUME NEW k \in Keys, NEW n \in Sizes, Put(k, n) PROVE IInv'
  BY <1>6, PutIInv
<1>7. ASSUME NEW k \in Keys, NEW n \in Sizes \cup {0}, PinSize(k, n) PROVE IInv'
  <2>1. n \in Nat
    BY ConstantsAssumption, SMTT(30)
  <2> QED BY <1>7, <2>1, DoPinIInv DEF PinSize
<1>8. ASSUME NEW t \in Torrents, UnpinTorrent(t) PROVE IInv'
  <2>1. ResidentsOK' /\ \A j \in Keys : size'[j] <= size[j]
    BY <1>1, <1>8, SMTT(30) DEF UnpinTorrent, residentVars, ResidentsOK
  <2>2. KeysOf(t) \cap pinned \in SUBSET Keys /\ UnpinAll(KeysOf(t) \cap pinned)
    BY <1>1, <1>8 DEF UnpinTorrent
  <2> QED BY <2>1, <2>2, ReleaseIInv DEF UnpinAll
<1>9. ASSUME NEW t \in Torrents, InvalidateTorrent(t) PROVE IInv'
  <2>1. ResidentsOK' /\ \A j \in Keys : size'[j] <= size[j]
    <3>1. /\ KeysOf(t) \cap Residents(size) \in SUBSET Keys
          /\ RemoveAll(size, lru, used, usedByTorrent, KeysOf(t) \cap Residents(size))
      BY <1>9 DEF InvalidateTorrent, Residents
    <3> QED BY <3>1, RemovalKeepsResidents
  <2>2. /\ KeysOf(t) \in SUBSET Keys
        /\ pinned' = pinned \ KeysOf(t) /\ pinnedSized' = pinnedSized \ KeysOf(t)
    BY <1>9, KeysFacts DEF InvalidateTorrent
  <2>3. /\ pinnedSizes' = [k \in Keys |-> IF k \in KeysOf(t) THEN 0 ELSE pinnedSizes[k]]
        /\ pinnedBytes' = pinnedBytes - Total(pinnedSizes, KeysOf(t))
    BY <1>9, RecountExact
  <2> QED BY <2>1, <2>2, <2>3, ReleaseIInv
<1>10. CASE UNCHANGED vars
  <2>1. ResidentsOK' /\ PinsOK' /\ ReservationCovers'
    BY <1>1, <1>10 DEF vars, ResidentsOK, PinsOK, ReservationCovers
  <2> QED BY <2>1, IInvParts
<1> QED BY <1>2, <1>3, <1>4, <1>5, <1>6, <1>7, <1>8, <1>9, <1>10 DEF Next

-----------------------------------------------------------------------------
(* The inductive invariant holds in every state of every cache. *)
THEOREM Invariance == Spec => []IInv
BY InitIInv, NextIInv, PTL DEF Spec

(* Every reachable state is well typed. *)
THEOREM TypeCorrect == Spec => []TypeOK
<1>1. IInv => TypeOK
  BY DEF IInv
<1> QED BY <1>1, Invariance, PTL

(* c.used, c.usedByTorrent and c.pinnedBytes, updated by every operation    *)
(* with the difference it makes, never drift from a recount.                *)
THEOREM CountersExact == Spec => []AccountingExact
<1>1. IInv => AccountingExact
  BY DEF IInv
<1> QED BY <1>1, Invariance, PTL

(* The cache never holds more bytes than its capacity. *)
THEOREM CapacityHolds == Spec => []HardCapacity
<1>1. IInv => HardCapacity
  BY DEF IInv
<1> QED BY <1>1, Invariance, PTL

(* Every pin reserves at least what is resident under it. *)
THEOREM ReservationsCover == Spec => []ReservationCovers
<1>1. IInv => ReservationCovers
  BY DEF IInv
<1> QED BY <1>1, Invariance, PTL

(* What PinSize has reserved never exceeds pinBytesCap. *)
THEOREM SizedPinsStayBounded == Spec => []SizedPinsBounded
<1>1. IInv => SizedPinsBounded
  BY DEF IInv
<1> QED BY <1>1, Invariance, PTL

(* Pins hold no more than they have reserved, nor more than they may. *)
THEOREM PinsStaySound == Spec => []PinsSound
BY ReservationsCover, SizedPinsStayBounded, PTL DEF PinsSound

(* With PinSize pins only, an eviction pass above the low mark always finds *)
(* a victim: the residents that are pinned fit in pinBytesCap, which is at  *)
(* most the low mark, so above it some resident is not pinned.              *)
THEOREM AlwaysAVictim == Spec => []EvictionHasVictim
<1>1. IInv => EvictionHasVictim
  <2> SUFFICES ASSUME IInv, pinned = pinnedSized, used > LowWater(Capacity)
               PROVE  \E k \in Keys \ pinned : size[k] > 0
    BY DEF EvictionHasVictim
  <2>1. /\ size \in [Keys -> Nat] /\ pinnedSizes \in [Keys -> Nat]
        /\ pinned \in SUBSET Keys /\ used \in Nat /\ used = Total(size, Keys)
        /\ Total(pinnedSizes, pinned) <= PinBytesCap
        /\ \A k \in pinned : size[k] <= pinnedSizes[k]
    BY DEF IInv, TypeOK, AccountingExact, ReservationCovers, SizedPinsBounded
  <2>2. IsFiniteSet(Keys) /\ IsFiniteSet(pinned)
    BY <2>1, KeysFacts, FS_Subset, SMTT(30)
  <2>3. /\ Total(size, Keys) = Total(size, pinned) + Total(size, Keys \ pinned)
        /\ Total(size, pinned) \in Nat /\ Total(size, Keys \ pinned) \in Nat
    BY <2>1, <2>2, TotalSplit
  <2>4. Total(size, pinned) <= Total(pinnedSizes, pinned) /\ Total(pinnedSizes, pinned) \in Nat
    <3>1. \A k \in pinned : size[k] \in Nat /\ pinnedSizes[k] \in Nat /\ size[k] <= pinnedSizes[k]
      BY <2>1
    <3> QED BY <2>2, <3>1, TotalMonotone, TotalType
  <2>5. Total(size, Keys \ pinned) # 0
    BY <2>1, <2>3, <2>4, Watermarks, SMTT(30)
  <2>6. \A k \in Keys \ pinned : size[k] \in Nat
    BY <2>1
  <2> QED BY <2>5, <2>6, TotalPositive
<1> QED BY <1>1, Invariance, PTL

-----------------------------------------------------------------------------
(* The list.  Ordered says of any order what ListIsOrdered says of lru. *)
Ordered(order, S) ==
    /\ order \subseteq S \X S
    /\ \A a, b \in S : a # b => (<<a, b>> \in order <=> <<b, a>> \notin order)
    /\ \A a \in S : <<a, a>> \notin order
    /\ \A a, b, c \in S : <<a, b>> \in order /\ <<b, c>> \in order => <<a, c>> \in order

(* Of lru they say the same. *)
LEMMA ListOrdered == ListIsOrdered <=> Ordered(lru, Residents(size))
<1> DEFINE S == Residents(size)
<1>1. S \subseteq Keys
  BY DEF Residents
<1>2. ASSUME lru \subseteq S \X S PROVE \A a, b : <<a, b>> \in lru => a \in S /\ b \in S
  BY <1>2
<1> QED BY <1>1, <1>2 DEF ListIsOrdered, Ordered

(* remove leaves the others as they were. *)
LEMMA WithoutOrdered ==
    ASSUME NEW S, NEW order, Ordered(order, S), NEW gone
    PROVE  Ordered(Without(order, gone), S \ gone)
<1>1. \A p \in order : p \in S \X S
  BY DEF Ordered
<1>2. Without(order, gone) \subseteq (S \ gone) \X (S \ gone)
  BY <1>1 DEF Without
<1>3. \A a, b \in S \ gone : <<a, b>> \in Without(order, gone) <=> <<a, b>> \in order
  BY DEF Without
<1> QED BY <1>2, <1>3 DEF Ordered

(* PushFront and MoveToFront put the key before every other. *)
LEMMA ToFrontOrdered ==
    ASSUME NEW S, NEW order, Ordered(order, S), NEW k
    PROVE  /\ Ordered(ToFront(k, order, S), S \cup {k})
           /\ \A a, b : a # k /\ b # k => (<<a, b>> \in ToFront(k, order, S) <=> <<a, b>> \in order)
<1> DEFINE front == ToFront(k, order, S)
<1>1. \A p \in order : p \in S \X S
  BY DEF Ordered
<1>2. front \subseteq (S \cup {k}) \X (S \cup {k})
  BY <1>1 DEF ToFront
<1>3. \A a, b : a # k /\ b # k => (<<a, b>> \in front <=> <<a, b>> \in order)
  BY DEF ToFront
<1>4. \A b : <<k, b>> \in front <=> b \in S \ {k}
  BY DEF ToFront
<1>5. \A a : <<a, k>> \notin front
  BY DEF ToFront
<1> HIDE DEF front
<1>6. \A a, b \in S \cup {k} : a # b => (<<a, b>> \in front <=> <<b, a>> \notin front)
  BY <1>3, <1>4, <1>5 DEF Ordered
<1>7. \A a \in S \cup {k} : <<a, a>> \notin front
  BY <1>3, <1>5 DEF Ordered
<1>8. \A a, b, c \in S \cup {k} : <<a, b>> \in front /\ <<b, c>> \in front => <<a, c>> \in front
  <2> SUFFICES ASSUME NEW a \in S \cup {k}, NEW b \in S \cup {k}, NEW c \in S \cup {k},
                      <<a, b>> \in front, <<b, c>> \in front
               PROVE  <<a, c>> \in front
    OBVIOUS
  <2>1. b # k /\ c # k
    BY <1>5
  <2>2. CASE a = k
    BY <1>4, <2>1, <2>2
  <2>3. CASE a # k
    BY <1>3, <2>1, <2>3 DEF Ordered
  <2> QED BY <2>2, <2>3
<1>9. Ordered(front, S \cup {k})
  BY <1>2, <1>6, <1>7, <1>8 DEF Ordered
<1> QED BY <1>3, <1>9 DEF front

(* Of finitely many entries of the list one is nearest the back: its set of  *)
(* entries behind it has no smaller one.                                     *)
LEMMA HasLast ==
    ASSUME NEW T, NEW order, Ordered(order, T), NEW S \in SUBSET T, IsFiniteSet(S), S # {}
    PROVE  \E k \in S : Behind(k, order, S) = {}
<1> DEFINE tails == {Behind(k, order, S) : k \in S}
<1>1. tails \subseteq FiniteSubsetsOf(S)
  <2> SUFFICES ASSUME NEW k \in S PROVE Behind(k, order, S) \in FiniteSubsetsOf(S)
    OBVIOUS
  <2>1. Behind(k, order, S) \in SUBSET S
    BY DEF Behind
  <2>2. IsFiniteSet(Behind(k, order, S))
    BY <2>1, FS_Subset
  <2> QED BY <2>1, <2>2 DEF FiniteSubsetsOf
<1>2. tails # {}
  OBVIOUS
<1>3. IsWellFoundedOn(StrictSubsetOrdering(S), FiniteSubsetsOf(S))
  BY FS_StrictSubsetOrderingWellFounded
<1>4. PICK tail \in tails : \A other \in tails : ~(<<other, tail>> \in StrictSubsetOrdering(S))
  <2> HIDE DEF tails
  <2> QED BY <1>1, <1>2, <1>3, WFMin
<1>5. PICK k \in S : tail = Behind(k, order, S)
  BY <1>4
<1>6. ASSUME NEW j \in Behind(k, order, S) PROVE FALSE
  <2>1. j \in S /\ <<k, j>> \in order
    BY <1>6 DEF Behind
  <2>2. Behind(j, order, S) \in tails
    BY <2>1
  <2>3. Behind(j, order, S) \subseteq Behind(k, order, S)
    BY <2>1 DEF Behind, Ordered
  <2>4. j \notin Behind(j, order, S)
    BY <2>1 DEF Behind, Ordered
  <2>5. <<Behind(j, order, S), Behind(k, order, S)>> \in (SUBSET S) \X (SUBSET S)
    BY DEF Behind
  <2>6. <<Behind(j, order, S), Behind(k, order, S)>> \in StrictSubsetOrdering(S)
    BY <1>6, <2>3, <2>4, <2>5 DEF StrictSubsetOrdering
  <2> QED BY <1>4, <1>5, <2>2, <2>6
<1> QED BY <1>6

(* Every step keeps the list an order of what is resident. *)
LEMMA NextOrdered == IInv /\ ListIsOrdered /\ [Next]_vars => ListIsOrdered'
<1> SUFFICES ASSUME IInv, ListIsOrdered, [Next]_vars PROVE ListIsOrdered'
  OBVIOUS
<1> DEFINE R == Residents(size)
<1>1. Ordered(lru, R) /\ size \in [Keys -> Nat] /\ R \subseteq Keys
  BY ListOrdered DEF IInv, TypeOK, Residents
<1>2. ListIsOrdered' <=> Ordered(lru', Residents(size'))
  <2>1. Residents(size') \subseteq Keys
    BY DEF Residents
  <2>2. ASSUME lru' \subseteq Residents(size') \X Residents(size')
        PROVE  \A a, b : <<a, b>> \in lru' => a \in Residents(size') /\ b \in Residents(size')
    BY <2>2
  <2> QED BY <2>1, <2>2 DEF ListIsOrdered, Ordered, Residents
<1>3. ASSUME UNCHANGED <<size, lru>> PROVE ListIsOrdered'
  BY <1>1, <1>2, <1>3
<1>4. ASSUME NEW sz, \A k \in Keys : sz[k] \in Nat, NEW order, Ordered(order, Residents(sz)),
             NEW total, NEW byTorrent, NEW gone, RemoveAll(sz, order, total, byTorrent, gone)
      PROVE  ListIsOrdered'
  <2>1. size' = [k \in Keys |-> IF k \in gone THEN 0 ELSE sz[k]] /\ lru' = Without(order, gone)
    BY <1>4 DEF RemoveAll
  <2>2. Residents(size') = Residents(sz) \ gone
    BY <1>4, <2>1, SMTT(30) DEF Residents
  <2>3. Ordered(Without(order, gone), Residents(sz) \ gone)
    BY <1>4, WithoutOrdered
  <2> QED BY <1>2, <2>1, <2>2, <2>3
<1>5. ASSUME NEW gone, RemoveAll(size, lru, used, usedByTorrent, gone) PROVE ListIsOrdered'
  BY <1>1, <1>4, <1>5
<1>6. ASSUME NEW k \in Keys, Get(k) PROVE ListIsOrdered'
  <2>1. k \in R
    BY <1>6 DEF Get, Residents
  <2>2. R \cup {k} = R
    BY <2>1
  <2>3. Ordered(ToFront(k, lru, R), R \cup {k})
    BY <1>1, ToFrontOrdered
  <2>4. lru' = ToFront(k, lru, R) /\ size' = size
    BY <1>6 DEF Get
  <2>5. Ordered(lru', Residents(size'))
    BY <2>2, <2>3, <2>4
  <2> QED BY <1>2, <2>5
<1>7. ASSUME NEW k \in Keys, NEW n \in Sizes, Put(k, n) PROVE ListIsOrdered'
  <2> DEFINE sz == [size EXCEPT ![k] = n]
             order == ToFront(k, lru, R)
  <2>1. n \in Nat /\ n > 0
    BY ConstantsAssumption, SMTT(30)
  <2>2. sz \in [Keys -> Nat] /\ \A j \in Keys : sz[j] = IF j = k THEN n ELSE size[j]
    BY <1>1, <2>1
  <2>3. Residents(sz) = R \cup {k}
    <3>1. \A j \in Keys : sz[j] > 0 <=> size[j] > 0 \/ j = k
      BY <2>1, <2>2
    <3> HIDE DEF sz
    <3> QED BY <3>1 DEF Residents
  <2>4. Ordered(order, Residents(sz))
    <3>1. Ordered(order, R \cup {k})
      BY <1>1, ToFrontOrdered
    <3> QED BY <2>3, <3>1
  <2>5. \E total, byTorrent, gone : RemoveAll(sz, order, total, byTorrent, gone)
    BY <1>7 DEF Put
  <2> HIDE DEF sz, order
  <2> QED BY <1>4, <2>2, <2>4, <2>5
<1>8. ASSUME NEW k, NEW n, NEW reserve, DoPin(k, n, reserve) PROVE ListIsOrdered'
  BY <1>3, <1>8 DEF DoPin, residentVars
<1>9. ASSUME NEW k \in Keys, Remove(k) \/ Unpin(k) PROVE ListIsOrdered'
  BY <1>5, <1>9 DEF Remove, Unpin
<1>10. ASSUME NEW t \in Torrents, UnpinTorrent(t) \/ InvalidateTorrent(t) PROVE ListIsOrdered'
  BY <1>3, <1>5, <1>10 DEF UnpinTorrent, InvalidateTorrent, residentVars
<1>11. CASE UNCHANGED vars
  BY <1>3, <1>11 DEF vars
<1> QED
  <2>1. ASSUME NEW k \in Keys, Pin(k) PROVE ListIsOrdered'
    BY <1>8, <2>1 DEF Pin
  <2>2. ASSUME NEW k \in Keys, NEW n \in Sizes \cup {0}, PinSize(k, n) PROVE ListIsOrdered'
    BY <1>8, <2>2 DEF PinSize
  <2> QED BY <1>6, <1>7, <1>9, <1>10, <1>11, <2>1, <2>2 DEF Next

(* The list is always a strict order of the resident entries. *)
THEOREM ListStaysOrdered == Spec => []ListIsOrdered
<1>1. Init => ListIsOrdered
  <2> SUFFICES ASSUME Init PROVE ListIsOrdered
    OBVIOUS
  <2>1. Residents(size) = {}
    BY SMTT(30) DEF Init, Residents
  <2> QED BY <2>1 DEF Init, ListIsOrdered
<1> QED BY <1>1, NextOrdered, Invariance, PTL DEF Spec

-----------------------------------------------------------------------------
(* The eviction pass.  What it may take is resident and finite. *)
LEMMA EvictableFacts ==
    ASSUME NEW sz \in [Keys -> Nat], NEW pins, NEW keep
    PROVE  /\ Evictable(sz, pins, keep) \subseteq Residents(sz)
           /\ Evictable(sz, pins, keep) \in SUBSET Keys
           /\ IsFiniteSet(Evictable(sz, pins, keep))
           /\ \A k \in Evictable(sz, pins, keep) : sz[k] \in Nat
<1>1. /\ Evictable(sz, pins, keep) \subseteq Residents(sz)
      /\ Evictable(sz, pins, keep) \in SUBSET Keys
  BY DEF Evictable, Residents
<1> QED BY <1>1, KeysFacts, FS_Subset

(* It takes from the back: whoever is behind a victim, and may go, goes. *)
LEMMA VictimsFromBack ==
    ASSUME NEW sz \in [Keys -> Nat], NEW order, Ordered(order, Residents(sz)), NEW total \in Nat,
           NEW pins, NEW keep,
           NEW j \in Victims(sz, order, total, pins, keep), NEW i \in Evictable(sz, pins, keep),
           <<j, i>> \in order
    PROVE  i \in Victims(sz, order, total, pins, keep)
<1> DEFINE C == Evictable(sz, pins, keep)
<1>1. /\ ~(total <= HighWater(Capacity)) /\ j \in C
      /\ total - Total(sz, Behind(j, order, C)) > LowWater(Capacity)
  BY DEF Victims
<1>2. C \subseteq Residents(sz) /\ IsFiniteSet(C) /\ \A k \in C : sz[k] \in Nat
  BY EvictableFacts
<1>3. i \in C
  OBVIOUS
<1> HIDE DEF C
<1>4. Behind(i, order, C) \in SUBSET Behind(j, order, C) /\ Behind(j, order, C) \in SUBSET C
  BY <1>1, <1>2, <1>3 DEF Behind, Ordered
<1>5. IsFiniteSet(Behind(j, order, C)) /\ \A k \in Behind(j, order, C) : sz[k] \in Nat
  BY <1>2, <1>4, FS_Subset
<1>6. /\ Total(sz, Behind(i, order, C)) <= Total(sz, Behind(j, order, C))
      /\ Total(sz, Behind(i, order, C)) \in Nat
  BY <1>4, <1>5, TotalSplit
<1>7. Total(sz, Behind(j, order, C)) \in Nat
  BY <1>5, TotalType
<1>8. total - Total(sz, Behind(i, order, C)) > LowWater(Capacity)
  BY <1>1, <1>6, <1>7, Watermarks, SMTT(30)
<1> QED BY <1>1, <1>3, <1>8 DEF Victims, C

(* It goes far enough: it stops at the low mark, or for want of victims. *)
LEMMA VictimsEnough ==
    ASSUME NEW sz \in [Keys -> Nat], NEW order, Ordered(order, Residents(sz)), NEW total \in Nat,
           NEW pins, NEW keep, total > HighWater(Capacity)
    PROVE  \/ Victims(sz, order, total, pins, keep) = Evictable(sz, pins, keep)
           \/ total - Total(sz, Victims(sz, order, total, pins, keep)) <= LowWater(Capacity)
<1> DEFINE C == Evictable(sz, pins, keep)
           V == Victims(sz, order, total, pins, keep)
<1>1. C \subseteq Residents(sz) /\ IsFiniteSet(C) /\ \A k \in C : sz[k] \in Nat
  BY EvictableFacts
<1>2. V \in SUBSET C
  BY DEF Victims
<1>3. \A k \in C : k \notin V => ~(total - Total(sz, Behind(k, order, C)) > LowWater(Capacity))
  <2>1. ~(total <= HighWater(Capacity))
    BY Watermarks, SMTT(30)
  <2> QED BY <2>1 DEF Victims
<1> HIDE DEF C, V
<1>4. CASE V = C
  BY <1>4 DEF C, V
<1>5. CASE V # C
  <2>1. C \ V # {} /\ C \ V \in SUBSET Residents(sz)
    BY <1>1, <1>2, <1>5
  <2>2. IsFiniteSet(C \ V)
    BY <1>1, FS_Difference
  <2>3. PICK k \in C \ V : Behind(k, order, C \ V) = {}
    BY <2>1, <2>2, HasLast
  <2>4. Behind(k, order, C) \in SUBSET V
    BY <2>3 DEF Behind
  <2>5. IsFiniteSet(V) /\ \A j \in V : sz[j] \in Nat
    BY <1>1, <1>2, FS_Subset
  <2>6. /\ Total(sz, Behind(k, order, C)) <= Total(sz, V)
        /\ Total(sz, Behind(k, order, C)) \in Nat
    BY <2>4, <2>5, TotalSplit
  <2>7. Total(sz, V) \in Nat
    BY <2>5, TotalType
  <2>8. ~(total - Total(sz, Behind(k, order, C)) > LowWater(Capacity))
    BY <1>3, <2>3
  <2>9. total - Total(sz, V) <= LowWater(Capacity)
    BY <2>6, <2>7, <2>8, Watermarks, SMTT(30)
  <2> QED BY <2>9 DEF V
<1> QED BY <1>4, <1>5

(* What the loop of evictLocked takes of C, from a total: Victims, of C.     *)
LoopTakes(sz, order, total, C) ==
    {k \in C : total - Total(sz, Behind(k, order, C)) > LowWater(Capacity)}

(* One turn of the loop of evictLocked.  At the low mark, or without an      *)
(* entry that may go, the loop takes nothing; otherwise it takes the entry   *)
(* nearest the back, and then what it takes of the rest.                     *)
THEOREM LoopTurns ==
    ASSUME NEW sz \in [Keys -> Nat], NEW order, Ordered(order, Residents(sz)), NEW total \in Int,
           NEW C \in SUBSET Residents(sz)
    PROVE  /\ total <= LowWater(Capacity) \/ C = {} => LoopTakes(sz, order, total, C) = {}
           /\ \A last \in C : Behind(last, order, C) = {} /\ total > LowWater(Capacity) =>
                LoopTakes(sz, order, total, C) =
                  {last} \cup LoopTakes(sz, order, total - sz[last], C \ {last})
<1>1. Residents(sz) \subseteq Keys
  BY DEF Residents
<1>2. IsFiniteSet(C) /\ \A k \in C : sz[k] \in Nat
  BY <1>1, KeysFacts, FS_Subset
<1>3. ASSUME NEW S \in SUBSET C PROVE Total(sz, S) \in Nat /\ IsFiniteSet(S)
  BY <1>2, <1>3, TotalSplit, FS_Subset
<1>4. ASSUME total <= LowWater(Capacity), NEW k \in C PROVE k \notin LoopTakes(sz, order, total, C)
  <2>1. Total(sz, Behind(k, order, C)) \in Nat
    BY <1>3 DEF Behind
  <2>2. ~(total - Total(sz, Behind(k, order, C)) > LowWater(Capacity))
    BY <1>4, <2>1, Watermarks, SMTT(30)
  <2> QED BY <2>2 DEF LoopTakes
<1>5. ASSUME NEW last \in C, Behind(last, order, C) = {}, total > LowWater(Capacity), NEW k \in C
      PROVE  k \in LoopTakes(sz, order, total, C) <=>
               k \in {last} \cup LoopTakes(sz, order, total - sz[last], C \ {last})
  <2>1. CASE k = last
    <3>1. Total(sz, Behind(last, order, C)) = 0
      BY <1>5, TotalEmpty
    <3>2. total - Total(sz, Behind(last, order, C)) > LowWater(Capacity)
      BY <1>5, <3>1, SMTT(30)
    <3> QED BY <2>1, <3>2 DEF LoopTakes
  <2>2. CASE k # last
    <3> DEFINE others == Behind(k, order, C \ {last})
    <3>1. <<last, k>> \notin order
      BY <1>5 DEF Behind
    <3>2. <<k, last>> \in order
      BY <2>2, <3>1 DEF Ordered
    <3>3. Behind(k, order, C) = others \cup {last} /\ others \cap {last} = {} /\ others \in SUBSET C
      BY <3>2 DEF Behind
    <3>4. Total(sz, others) \in Nat /\ IsFiniteSet(others) /\ IsFiniteSet({last}) /\ sz[last] \in Nat
      BY <1>2, <1>3, <3>3, FS_Singleton
    <3>5. \A i \in others \cup {last} : sz[i] \in Nat
      BY <1>2, <3>3
    <3> HIDE DEF others
    <3>6. Total(sz, others \cup {last}) = Total(sz, others) + Total(sz, {last})
      BY <3>3, <3>4, <3>5, TotalDisjoint
    <3>7. Total(sz, {last}) = sz[last]
      BY <3>4, TotalSingle
    <3>8. total - Total(sz, Behind(k, order, C)) = total - sz[last] - Total(sz, others)
      BY <3>3, <3>4, <3>6, <3>7, SMTT(30)
    <3> QED BY <2>2, <3>8 DEF LoopTakes, others
  <2> QED BY <2>1, <2>2
<1>6. ASSUME NEW last \in C
      PROVE  {last} \cup LoopTakes(sz, order, total - sz[last], C \ {last}) \subseteq C
  BY DEF LoopTakes
<1>7. LoopTakes(sz, order, total, C) \subseteq C
  BY DEF LoopTakes
<1>8. total <= LowWater(Capacity) \/ C = {} => LoopTakes(sz, order, total, C) = {}
  BY <1>4, <1>7
<1>9. ASSUME NEW last \in C, Behind(last, order, C) = {}, total > LowWater(Capacity)
      PROVE  LoopTakes(sz, order, total, C) =
               {last} \cup LoopTakes(sz, order, total - sz[last], C \ {last})
  <2> DEFINE A == LoopTakes(sz, order, total, C)
             B == {last} \cup LoopTakes(sz, order, total - sz[last], C \ {last})
  <2>1. A \subseteq C /\ B \subseteq C /\ \A k \in C : k \in A <=> k \in B
    BY <1>5, <1>6, <1>7, <1>9
  <2> HIDE DEF A, B
  <2>2. A = B
    BY <2>1
  <2> QED BY <2>2 DEF A, B
<1> QED BY <1>8, <1>9

(* Above the high mark Victims is what the loop takes. *)
LEMMA VictimsAreLooped ==
    ASSUME NEW sz, NEW order, NEW total, NEW pins, NEW keep, ~(total <= HighWater(Capacity))
    PROVE  Victims(sz, order, total, pins, keep) = LoopTakes(sz, order, total, Evictable(sz, pins, keep))
BY DEF Victims, LoopTakes

(* What a Put of n bytes under k starts its eviction pass from, and removes. *)
PutSizes(k, n) == [size EXCEPT ![k] = n]
PutOrder(k) == ToFront(k, lru, Residents(size))
PutTotal(k, n) == used - size[k] + n
PutGone(k, n) == Removed(k, PutSizes(k, n), PutOrder(k), PutTotal(k, n))

(* It starts from an order of the new entry and the old ones, whose total it *)
(* knows.                                                                    *)
LEMMA PutStarts ==
    ASSUME IInv, ListIsOrdered, NEW k \in Keys, NEW n \in Sizes, Put(k, n)
    PROVE  /\ n \in Nat /\ PutSizes(k, n) \in [Keys -> Nat]
           /\ \A j \in Keys : PutSizes(k, n)[j] = IF j = k THEN n ELSE size[j]
           /\ Ordered(PutOrder(k), Residents(PutSizes(k, n)))
           /\ \A i, j : i # k /\ j # k => (<<i, j>> \in PutOrder(k) <=> <<i, j>> \in lru)
           /\ PutTotal(k, n) \in Nat /\ PutTotal(k, n) = Total(PutSizes(k, n), Keys)
           /\ size' = [j \in Keys |-> IF j \in PutGone(k, n) THEN 0 ELSE PutSizes(k, n)[j]]
           /\ used' = PutTotal(k, n) - Total(PutSizes(k, n), PutGone(k, n))
           /\ pinned' = pinned
<1> DEFINE sz == PutSizes(k, n)
<1>1. n \in Nat /\ n > 0
  BY ConstantsAssumption, SMTT(30)
<1>2. size \in [Keys -> Nat] /\ used \in Nat /\ used = Total(size, Keys) /\ Ordered(lru, Residents(size))
  BY ListOrdered DEF IInv, TypeOK, AccountingExact
<1>3. sz \in [Keys -> Nat] /\ \A j \in Keys : sz[j] = IF j = k THEN n ELSE size[j]
  BY <1>1, <1>2 DEF PutSizes
<1>4. Residents(sz) = Residents(size) \cup {k}
  <2>1. \A j \in Keys : sz[j] > 0 <=> size[j] > 0 \/ j = k
    BY <1>1, <1>3
  <2> QED BY <2>1 DEF Residents
<1>5. /\ Ordered(PutOrder(k), Residents(size) \cup {k})
      /\ \A i, j : i # k /\ j # k => (<<i, j>> \in PutOrder(k) <=> <<i, j>> \in lru)
  BY <1>2, ToFrontOrdered DEF PutOrder
<1> HIDE DEF sz
<1>6. PutTotal(k, n) = Total(sz, Keys)
  <2>1. /\ \A j \in Keys : size[j] \in Nat /\ sz[j] \in Nat
        /\ \A j \in Keys \ {k} : sz[j] = size[j]
    BY <1>2, <1>3
  <2>2. IsFiniteSet(Keys)
    BY KeysFacts
  <2>3. Total(sz, Keys) = Total(size, Keys) - size[k] + sz[k]
    BY <2>1, <2>2, TotalUpdate, SMTT(30)
  <2>4. used = Total(size, Keys) /\ sz[k] = n
    BY <1>2, <1>3
  <2> QED BY <2>3, <2>4 DEF PutTotal
<1>7. PutTotal(k, n) \in Nat
  <2>1. \A j \in Keys : sz[j] \in Nat
    BY <1>3
  <2> QED BY <1>6, <2>1, KeysFacts, TotalType
<1>8. /\ size' = [j \in Keys |-> IF j \in PutGone(k, n) THEN 0 ELSE sz[j]]
      /\ used' = PutTotal(k, n) - Total(sz, PutGone(k, n))
      /\ pinned' = pinned
  <2>1. \E byTorrent : RemoveAll(sz, PutOrder(k), PutTotal(k, n), byTorrent, PutGone(k, n))
    BY DEF Put, PutSizes, PutOrder, PutTotal, PutGone, sz
  <2>2. pinned' = pinned
    BY DEF Put
  <2> QED BY <2>1, <2>2 DEF RemoveAll
<1> QED BY <1>1, <1>3, <1>4, <1>5, <1>6, <1>7, <1>8 DEF sz

(* What goes besides k is taken from the back, and is not pinned. *)
LEMMA PutEvictsOldest ==
    ASSUME IInv, ListIsOrdered, NEW k \in Keys, NEW n \in Sizes, Put(k, n),
           NEW j \in Keys, Evicts(k, j)
    PROVE  /\ j \notin pinned
           /\ \A i \in Keys \ (pinned \cup {k}) : <<j, i>> \in lru => Evicts(k, i)
<1> DEFINE sz == PutSizes(k, n)
           order == PutOrder(k)
           total == PutTotal(k, n)
           V == Victims(sz, order, total, pinned, {k})
           gone == PutGone(k, n)
<1>1. /\ n \in Nat /\ sz \in [Keys -> Nat] /\ \A i \in Keys : sz[i] = IF i = k THEN n ELSE size[i]
      /\ Ordered(order, Residents(sz)) /\ total \in Nat
      /\ \A h, i : h # k /\ i # k => (<<h, i>> \in order <=> <<h, i>> \in lru)
      /\ size' = [i \in Keys |-> IF i \in gone THEN 0 ELSE sz[i]]
  BY PutStarts
<1>2. \A i \in Keys : i # k => (i \in gone <=> i \in V)
  BY DEF PutGone, Removed
<1>3. Ordered(lru, Residents(size))
  BY ListOrdered
<1> HIDE DEF sz, order, total, V, gone
<1>4. j # k /\ size[j] > 0 /\ size'[j] = 0
  BY DEF Evicts
<1>5. j \in V
  <2>1. sz[j] = size[j] /\ sz[j] # 0
    BY <1>1, <1>4, SMTT(30)
  <2> QED BY <1>1, <1>2, <1>4, <2>1
<1>6. j \notin pinned
  BY <1>5, VictimsFacts DEF V
<1>7. ASSUME NEW i \in Keys \ (pinned \cup {k}), <<j, i>> \in lru PROVE Evicts(k, i)
  <2>1. size[i] > 0 /\ sz[i] = size[i] /\ i # k
    BY <1>1, <1>3, <1>7 DEF Ordered, Residents
  <2>2. i \in Evictable(sz, pinned, {k})
    BY <2>1 DEF Evictable
  <2>3. <<j, i>> \in order
    BY <1>1, <1>4, <1>7, <2>1
  <2>4. i \in V
    BY <1>1, <1>5, <2>2, <2>3, VictimsFromBack DEF V
  <2> QED BY <1>1, <1>2, <2>1, <2>4 DEF Evicts
<1> QED BY <1>6, <1>7

(* A Put whose pass removed less than everything it may ends at the low mark *)
(* at most, whatever it rolls back.                                          *)
LEMMA PutDrains ==
    ASSUME IInv, ListIsOrdered, NEW k \in Keys, NEW n \in Sizes, Put(k, n)
    PROVE  ~OverfullWithChoice
<1> DEFINE sz == PutSizes(k, n)
           order == PutOrder(k)
           total == PutTotal(k, n)
           C == Evictable(sz, pinned, {k})
           V == Victims(sz, order, total, pinned, {k})
           gone == PutGone(k, n)
<1>1. /\ sz \in [Keys -> Nat] /\ Ordered(order, Residents(sz)) /\ total \in Nat
      /\ size' = [i \in Keys |-> IF i \in gone THEN 0 ELSE sz[i]]
      /\ used' = total - Total(sz, gone) /\ pinned' = pinned
  BY PutStarts
<1>2. V \in SUBSET gone /\ gone \in SUBSET Keys
  <2>1. V \in SUBSET Keys
    BY VictimsFacts
  <2>2. gone = V \/ gone = V \cup {k}
    BY DEF PutGone, Removed
  <2> HIDE DEF V, gone
  <2> QED BY <2>1, <2>2
<1>3. total > HighWater(Capacity) => V = C \/ total - Total(sz, V) <= LowWater(Capacity)
  <2> HIDE DEF sz, order, total
  <2> QED BY <1>1, VictimsEnough
<1> HIDE DEF sz, order, total, V, gone
<1>4. IsFiniteSet(gone) /\ \A i \in gone : sz[i] \in Nat
  BY <1>1, <1>2, KeysFacts, FS_Subset
<1>5. Total(sz, V) <= Total(sz, gone) /\ Total(sz, V) \in Nat /\ Total(sz, gone) \in Nat
  BY <1>2, <1>4, TotalSplit, TotalType
<1>6. ASSUME OverfullWithChoice PROVE FALSE
  <2>1. used' > HighWater(Capacity)
    BY <1>6 DEF OverfullWithChoice
  <2>2. total > HighWater(Capacity) /\ ~(total - Total(sz, V) <= LowWater(Capacity))
    BY <1>1, <1>5, <2>1, Watermarks, SMTT(30)
  <2>3. V = C
    BY <1>3, <2>2
  <2>4. ASSUME NEW j \in Evictable(size', pinned', {}) PROVE j = k
    <3>1. j \in Keys /\ j \notin pinned /\ size'[j] > 0
      BY <1>1, <2>4 DEF Evictable
    <3>2. j \notin gone /\ sz[j] > 0
      BY <1>1, <3>1, SMTT(30)
    <3>3. j \notin C
      BY <1>2, <2>3, <3>2
    <3> QED BY <3>1, <3>2, <3>3 DEF Evictable
  <2> QED BY <1>6, <2>4 DEF OverfullWithChoice
<1> QED BY <1>6

(* A Put that rolls back has evicted everything it may, so that only what is *)
(* pinned is left beside the new entry.                                      *)
LEMMA PutKeeps ==
    ASSUME IInv, ListIsOrdered, NEW k \in Keys, NEW n \in Sizes, Put(k, n), size'[k] # n
    PROVE  Total(size, pinned \ {k}) + n > Capacity
<1> DEFINE sz == PutSizes(k, n)
           order == PutOrder(k)
           total == PutTotal(k, n)
           C == Evictable(sz, pinned, {k})
           V == Victims(sz, order, total, pinned, {k})
           gone == PutGone(k, n)
           rest == Keys \ C
           held == pinned \ {k}
<1>1. /\ n \in Nat /\ sz \in [Keys -> Nat] /\ \A i \in Keys : sz[i] = IF i = k THEN n ELSE size[i]
      /\ Ordered(order, Residents(sz)) /\ total \in Nat /\ total = Total(sz, Keys)
      /\ size' = [i \in Keys |-> IF i \in gone THEN 0 ELSE sz[i]]
  BY PutStarts
<1>2. k \notin V /\ V \in SUBSET Keys
  BY VictimsFacts, SMTT(30)
<1>3. k \in gone => total - Total(sz, V) > Capacity
  BY <1>2 DEF PutGone, Removed
<1>4. total > HighWater(Capacity) => V = C \/ total - Total(sz, V) <= LowWater(Capacity)
  <2> HIDE DEF sz, order, total
  <2> QED BY <1>1, VictimsEnough
<1>5. C \in SUBSET Keys /\ k \notin C /\ C \cap pinned = {} /\ \A i \in rest : i \notin pinned \cup {k} => ~(sz[i] > 0)
  BY DEF Evictable
<1> HIDE DEF sz, order, total, C, V, gone
<1>6. IsFiniteSet(Keys) /\ \A i \in Keys : sz[i] \in Nat
  BY <1>1, KeysFacts
<1>7. total - Total(sz, V) > Capacity
  BY <1>1, <1>3
<1>8. Total(sz, V) \in Nat
  BY <1>2, <1>6, TotalSplit
<1>9. V = C
  BY <1>1, <1>4, <1>7, <1>8, Watermarks, ConstantsAssumption, SMTT(30)
<1>10. Total(sz, Keys) = Total(sz, C) + Total(sz, rest) /\ Total(sz, C) \in Nat /\ Total(sz, rest) \in Nat
  BY <1>5, <1>6, TotalSplit
<1>11. pinned \in SUBSET Keys
  BY DEF IInv, TypeOK
<1>12. /\ held \cup {k} \in SUBSET rest /\ IsFiniteSet(rest) /\ \A i \in rest : sz[i] \in Nat
       /\ held \cup {k} = pinned \cup {k}
  BY <1>5, <1>6, <1>11, FS_Difference
<1>13. /\ Total(sz, rest) = Total(sz, held \cup {k}) + Total(sz, rest \ (held \cup {k}))
       /\ Total(sz, rest \ (held \cup {k})) \in Nat
  <2> HIDE DEF rest, held
  <2> QED BY <1>12, TotalSplit
<1>14. Total(sz, rest \ (held \cup {k})) = 0
  <2>1. \A i \in rest \ (held \cup {k}) : sz[i] \in Nat /\ ~(sz[i] > 0)
    BY <1>5, <1>12
  <2> HIDE DEF rest, held
  <2> QED BY <2>1, TotalPositive
<1>15. Total(sz, held \cup {k}) = Total(sz, held) + Total(sz, {k})
  <2>1. IsFiniteSet(held) /\ IsFiniteSet({k}) /\ held \cap {k} = {} /\ \A i \in held \cup {k} : sz[i] \in Nat
    BY <1>6, <1>11, FS_Subset, FS_Singleton
  <2> HIDE DEF held
  <2> QED BY <2>1, TotalDisjoint
<1>16. Total(sz, {k}) = n
  BY <1>1, TotalSingle
<1>17. Total(sz, held) = Total(size, held)
  <2>1. \A i \in held : sz[i] = size[i]
    BY <1>1, <1>11
  <2> HIDE DEF held
  <2> QED BY <2>1, TotalAgree
<1>18. Total(size, held) \in Nat
  BY <1>6, <1>11, <1>17, TotalSplit
<1>19. Total(size, held) + n > Capacity
  BY <1>1, <1>7, <1>9, <1>10, <1>13, <1>14, <1>15, <1>16, <1>17, <1>18, ConstantsAssumption, SMTT(30)
<1> QED BY <1>19

(* The same of the pass that Unpin runs. *)
LEMMA UnpinEvicts ==
    ASSUME IInv, ListIsOrdered, NEW k \in Keys, Unpin(k)
    PROVE  /\ ~OverfullWithChoice
           /\ \A j \in Keys : Evicts(k, j) =>
                /\ j \notin pinned
                /\ \A i \in Keys \ (pinned \cup {k}) : <<j, i>> \in lru => Evicts(k, i)
<1> DEFINE pins == pinned \ {k}
           C == Evictable(size, pins, {})
           V == Victims(size, lru, used, pins, {})
<1>1. size \in [Keys -> Nat] /\ used \in Nat /\ Ordered(lru, Residents(size))
  BY ListOrdered DEF IInv, TypeOK
<1>2. /\ size' = [i \in Keys |-> IF i \in V THEN 0 ELSE size[i]]
      /\ used' = used - Total(size, V) /\ pinned' = pins
  BY DEF Unpin, RemoveAll, UnpinAll
<1>3. V \in SUBSET Keys /\ V \cap pins = {}
  BY VictimsFacts
<1>4. used > HighWater(Capacity) => V = C \/ used - Total(size, V) <= LowWater(Capacity)
  BY <1>1, VictimsEnough
<1>5. Total(size, V) \in Nat
  <2>1. IsFiniteSet(Keys) /\ \A i \in Keys : size[i] \in Nat
    BY <1>1, KeysFacts
  <2> HIDE DEF V
  <2> QED BY <1>3, <2>1, TotalSplit
<1>6. ASSUME OverfullWithChoice PROVE FALSE
  <2> HIDE DEF V
  <2>1. used' > HighWater(Capacity)
    BY <1>6 DEF OverfullWithChoice
  <2>2. used > HighWater(Capacity) /\ ~(used - Total(size, V) <= LowWater(Capacity))
    BY <1>1, <1>2, <1>5, <2>1, Watermarks, SMTT(30)
  <2>3. V = C
    BY <1>4, <2>2
  <2>4. ASSUME NEW j \in Evictable(size', pinned', {}) PROVE FALSE
    <3>1. j \in Keys /\ j \notin pins /\ size'[j] > 0
      BY <1>2, <2>4 DEF Evictable
    <3>2. j \notin V /\ size[j] > 0
      BY <1>2, <3>1, SMTT(30)
    <3> QED BY <2>3, <3>1, <3>2 DEF Evictable
  <2> QED BY <1>6, <2>4 DEF OverfullWithChoice
<1>7. ASSUME NEW j \in Keys, Evicts(k, j)
      PROVE  /\ j \notin pinned
             /\ \A i \in Keys \ (pinned \cup {k}) : <<j, i>> \in lru => Evicts(k, i)
  <2>1. j # k /\ size[j] > 0 /\ size'[j] = 0
    BY <1>7 DEF Evicts
  <2>2. j \in V
    <3>1. size[j] # 0
      BY <1>1, <2>1, SMTT(30)
    <3> HIDE DEF V
    <3> QED BY <1>2, <2>1, <3>1
  <2>3. j \notin pinned
    BY <1>3, <2>1, <2>2
  <2>4. ASSUME NEW i \in Keys \ (pinned \cup {k}), <<j, i>> \in lru PROVE Evicts(k, i)
    <3>1. size[i] > 0 /\ i # k
      BY <1>1, <2>4 DEF Ordered, Residents
    <3>2. i \in C
      BY <3>1 DEF Evictable
    <3>3. i \in V
      BY <1>1, <2>2, <2>4, <3>2, VictimsFromBack
    <3> HIDE DEF V
    <3> QED BY <1>2, <3>1, <3>3 DEF Evicts
  <2> QED BY <2>3, <2>4
<1> QED BY <1>6, <1>7

(* Whatever the cache holds, an eviction pass of Put or Unpin ends below the *)
(* marks or has nothing left to take, takes the oldest entries that are not  *)
(* pinned, and a Put loses its own value only if what is pinned leaves no    *)
(* room for it (evictLocked, victimLocked, the rollback of Put).             *)
THEOREM EvictionIsRight == Spec => EvictionRight
<1>1. ASSUME IInv, ListIsOrdered PROVE Drains
  BY <1>1, PutDrains, UnpinEvicts DEF Drains
<1>2. ASSUME IInv, ListIsOrdered PROVE EvictsOldestUnpinned
  <2> SUFFICES ASSUME NEW k \in Keys, Unpin(k) \/ (\E n \in Sizes : Put(k, n)), NEW j \in Keys, Evicts(k, j)
               PROVE  /\ j \notin pinned
                      /\ \A i \in Keys \ (pinned \cup {k}) : <<j, i>> \in lru => Evicts(k, i)
    BY DEF EvictsOldestUnpinned
  <2>1. CASE Unpin(k)
    BY <1>2, <2>1, UnpinEvicts
  <2>2. CASE \E n \in Sizes : Put(k, n)
    BY <1>2, <2>2, PutEvictsOldest
  <2> QED BY <2>1, <2>2
<1>3. ASSUME IInv, ListIsOrdered PROVE PutKeepsWhatFits
  BY <1>3, PutKeeps DEF PutKeepsWhatFits
<1>4. IInv /\ ListIsOrdered => Drains /\ EvictsOldestUnpinned /\ PutKeepsWhatFits
  BY <1>1, <1>2, <1>3
<1> QED BY <1>4, Invariance, ListStaysOrdered, PTL DEF EvictionRight

-----------------------------------------------------------------------------
(* The cache implements the lossy map its users rely on: every removal is a *)
(* loss, and a Put is a store followed by a loss.                           *)
THEOREM CacheImplementsLossyMap == Spec => ImplementsLossyMap
<1>1. Init => Lossy!Init
  BY DEF Init, Lossy!Init
<1>2. IInv /\ [Next]_vars => [Lossy!Next]_size
  <2> SUFFICES ASSUME IInv, [Next]_vars PROVE Lossy!Next \/ UNCHANGED size
    OBVIOUS
  <2>1. ASSUME NEW gone \in SUBSET Keys, RemoveAll(size, lru, used, usedByTorrent, gone)
        PROVE  Lossy!Next
    BY <2>1 DEF RemoveAll, Lossy!Next, Lossy!Lose
  <2>2. ASSUME NEW k \in Keys, NEW n \in Sizes, Put(k, n) PROVE Lossy!Next
    <3> DEFINE sz == [size EXCEPT ![k] = n]
               order == ToFront(k, lru, Residents(size))
               total == used - size[k] + n
               gone == Removed(k, sz, order, total)
    <3>1. gone \in SUBSET Keys
      BY VictimsFacts, SMTT(30) DEF Removed
    <3>2. size' = [j \in Keys |-> IF j \in gone THEN 0 ELSE sz[j]]
      BY <2>2 DEF Put, RemoveAll
    <3> HIDE DEF gone
    <3>3. \A j \in Keys : sz[j] = IF j = k THEN n ELSE size[j]
      BY DEF IInv, TypeOK
    <3>4. size' = [j \in Keys |-> IF j \in gone THEN 0 ELSE IF j = k THEN n ELSE size[j]]
      BY <3>2, <3>3
    <3> QED BY <3>1, <3>4 DEF Lossy!Next, Lossy!Store
  <2>3. ASSUME NEW k \in Keys, Remove(k) PROVE Lossy!Next
    BY <2>1, <2>3 DEF Remove
  <2>4. ASSUME NEW k \in Keys, Unpin(k) PROVE Lossy!Next
    <3>1. Victims(size, lru, used, pinned \ {k}, {}) \in SUBSET Keys
      BY VictimsFacts
    <3> QED BY <2>1, <2>4, <3>1 DEF Unpin
  <2>5. ASSUME NEW t \in Torrents, InvalidateTorrent(t) PROVE Lossy!Next
    <3>1. KeysOf(t) \cap Residents(size) \in SUBSET Keys
      BY DEF Residents
    <3> QED BY <2>1, <2>5, <3>1 DEF InvalidateTorrent
  <2>6. ASSUME NEW k \in Keys, NEW n, NEW reserve, DoPin(k, n, reserve) PROVE UNCHANGED size
    BY <2>6 DEF DoPin, residentVars
  <2>7. ASSUME NEW k \in Keys, Get(k) PROVE UNCHANGED size
    BY <2>7 DEF Get
  <2>8. ASSUME NEW t \in Torrents, UnpinTorrent(t) PROVE UNCHANGED size
    BY <2>8 DEF UnpinTorrent, residentVars
  <2>9. CASE UNCHANGED vars
    BY <2>9 DEF vars
  <2> QED BY <2>2, <2>3, <2>4, <2>5, <2>6, <2>7, <2>8, <2>9 DEF Next, PinSize, Pin
<1> QED BY <1>1, <1>2, Invariance, PTL DEF Spec, ImplementsLossyMap, Lossy!Spec

=============================================================================
