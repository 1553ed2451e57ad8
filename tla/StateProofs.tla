----------------------------- MODULE StateProofs -----------------------------
(* Proofs about the parts of what is kept on disk (Namespace, UploadRate,    *)
(* Migration, Instance), under Counting.                                     *)
EXTENDS StateParts, Counting, TLAPS

USE ZenonT(40)

-----------------------------------------------------------------------------
(* The names of the mount *)


(* What a power failure leaves of a file, and what a write makes of it. *)
LEMMA SurvivingFacts ==
    ASSUME NEW f, NEW g \in Names!AfterPowerFailure(f)
    PROVE  g.now \in Names!Surviving(f) /\ g.older = {}
<1>1. PICK v \in Names!Surviving(f) : g = [now |-> v, older |-> {}]
  BY DEF Names!AfterPowerFailure, Names!FileOf, Names!Surviving
<1> QED
  BY <1>1

(* A write adds what it writes, and forgets the rest once it is synced. *)
LEMMA SurvivingWritten ==
    ASSUME NEW f, NEW v, NEW o \in Names!Outcomes
    PROVE  /\ Names!Surviving(Names!FileOf(v)) = {v}
           /\ Names!Surviving(Names!Written(f, v, o)) \subseteq Names!Surviving(f) \cup {v}
           /\ o = "ok" => Names!Surviving(Names!Written(f, v, o)) = {v}
<1>1. Names!Surviving(Names!FileOf(v)) = {v}
  BY DEF Names!Surviving, Names!FileOf
<1>2. Names!Surviving(Names!Renamed(f, v)) \subseteq Names!Surviving(f) \cup {v} /\ Names!Renamed(f, v).now = v
  BY DEF Names!Surviving, Names!Renamed
<1>3. CASE o = "ok"
  <2>1. Names!Written(f, v, o) = Names!FileOf(v)
    BY <1>2, <1>3 DEF Names!Written, Names!Synced
  <2> QED
    BY <1>1, <2>1
<1>4. CASE o = "failed"
  <2>1. Names!Written(f, v, o) = f
    BY <1>4 DEF Names!Written
  <2> QED
    BY <1>1, <1>4, <2>1
<1>5. CASE o = "unsynced"
  <2>1. Names!Written(f, v, o) = Names!Renamed(f, v)
    BY <1>5 DEF Names!Written
  <2> QED
    BY <1>1, <1>2, <1>5, <2>1
<1> QED
  BY <1>3, <1>4, <1>5 DEF Names!Outcomes

(* The views of the states. *)
LEMMA ViewsFacts ==
    ASSUME NEW s
    PROVE  /\ DOMAIN Names!Views(s) = {u \in Torrents : Names!Visible(s, u)}
           /\ \A t \in Torrents : Names!Visible(s, t) => Names!Views(s)[t] = s[t].category
  BY DEF Names!Views

(* They depend on which torrents are shown, and where. *)
LEMMA ViewsSame ==
    ASSUME NEW s, NEW r,
           \A u \in Torrents : Names!Visible(r, u) <=> Names!Visible(s, u),
           \A u \in Torrents : Names!Visible(s, u) => r[u].category = s[u].category
    PROVE  Names!Views(r) = Names!Views(s)
<1>1. {u \in Torrents : Names!Visible(r, u)} = {u \in Torrents : Names!Visible(s, u)}
  OBVIOUS
<1>2. ASSUME NEW t \in {u \in Torrents : Names!Visible(s, u)} PROVE r[t].category = s[t].category
  OBVIOUS
<1> QED
  BY <1>1, <1>2 DEF Names!Views

-----------------------------------------------------------------------------
(* A torrent less: the others keep their names, and no name is new in a      *)
(* directory.                                                                *)
Without(V, W, d) ==
    /\ DOMAIN V \subseteq Torrents /\ DOMAIN W = DOMAIN V \ {d}
    /\ \A u \in DOMAIN W : W[u] = V[u]

(* A torrent that stays keeps its name or gets its own back, *)
LEMMA OwnNameKept ==
    ASSUME NEW V, NEW W, NEW d, NEW C, Without(V, W, d), NEW t \in DOMAIN W
    PROVE  \/ Names!RootName(t, W, C) = Names!RootName(t, V, C)
           \/ Names!RootName(t, W, C) = Name[t]
<1>1. CASE V[t] = Names!Root /\ Name[t] \in C
  <2>1. Names!RootName(t, V, C) = Suffixed[t] /\ Names!RootName(t, W, C) = Suffixed[t]
    BY <1>1 DEF Without, Names!RootName
  <2> QED
    BY <2>1
<1>2. CASE ~(V[t] = Names!Root /\ Name[t] \in C) /\ \E u \in DOMAIN W : u < t /\ V[u] = V[t] /\ Name[u] = Name[t]
  <2>1. Names!RootName(t, V, C) = Suffixed[t] /\ Names!RootName(t, W, C) = Suffixed[t]
    BY <1>2 DEF Without, Names!RootName
  <2> QED
    BY <2>1
<1>3. CASE ~(V[t] = Names!Root /\ Name[t] \in C) /\ ~\E u \in DOMAIN W : u < t /\ V[u] = V[t] /\ Name[u] = Name[t]
  <2>1. Names!RootName(t, W, C) = Name[t]
    BY <1>3 DEF Without, Names!RootName
  <2> QED
    BY <2>1
<1> QED
  BY <1>1, <1>2, <1>3

(* and gets it back only from the one that left; *)
LEMMA NameWasTaken ==
    ASSUME NEW V, NEW W, NEW d, NEW C, Without(V, W, d), NEW t \in DOMAIN W,
           Names!RootName(t, W, C) # Names!RootName(t, V, C)
    PROVE  d \in DOMAIN V /\ V[d] = V[t] /\ Names!RootName(d, V, C) = Names!RootName(t, W, C)
<1>1. Names!RootName(t, W, C) = Name[t] /\ Names!RootName(t, V, C) = Suffixed[t]
  <2>1. Names!RootName(t, W, C) = Name[t]
    BY OwnNameKept, SMTT(30)
  <2> QED
    BY <2>1 DEF Names!RootName
<1>2. ~(V[t] = Names!Root /\ Name[t] \in C)
  <2>1. ASSUME V[t] = Names!Root, Name[t] \in C PROVE Names!RootName(t, W, C) = Suffixed[t]
    BY <2>1 DEF Without, Names!RootName
  <2> QED
    BY <1>1, <2>1
<1>3. PICK v \in DOMAIN V : v < t /\ V[v] = V[t] /\ Name[v] = Name[t]
  BY <1>1, <1>2 DEF Names!RootName
<1>4. ASSUME NEW w \in DOMAIN W, w < t, V[w] = V[t], Name[w] = Name[t] PROVE FALSE
  <2>1. Names!RootName(t, W, C) = Suffixed[t]
    BY <1>4 DEF Without, Names!RootName
  <2> QED
    BY <1>1, <2>1
<1>5. v = d
  BY <1>3, <1>4 DEF Without
<1>6. ASSUME NEW w \in DOMAIN V, w < d PROVE w < t /\ w # d
  <2>1. w \in Int /\ d \in Int /\ t \in Int /\ d < t
    BY <1>3, <1>5, NamesAssumption DEF Without
  <2> QED
    BY <1>6, <2>1, SMTT(30)
<1>7. ~\E w \in DOMAIN V : w < d /\ V[w] = V[d] /\ Name[w] = Name[d]
  BY <1>3, <1>4, <1>5, <1>6 DEF Without
<1>8. Names!RootName(d, V, C) = Name[d]
  BY <1>2, <1>3, <1>5, <1>7 DEF Names!RootName
<1> QED
  BY <1>1, <1>3, <1>5, <1>8

(* so nothing is shown under a name that was free. *)
LEMMA FewerNames ==
    ASSUME NEW V, NEW W, NEW d, NEW C, Without(V, W, d), NEW t \in DOMAIN W, NEW c
    PROVE  /\ Names!RootName(t, V, C) = Name[t] => Names!RootName(t, W, C) = Name[t]
           /\ Names!OtherNames(t, c, W, C) \subseteq Names!OtherNames(t, c, V, C)
<1>1. Names!RootName(t, V, C) = Name[t] => Names!RootName(t, W, C) = Name[t]
  BY OwnNameKept, SMTT(30)
<1>2. ASSUME NEW u \in DOMAIN W, u # t, W[u] = c PROVE Names!RootName(u, W, C) \in Names!OtherNames(t, c, V, C)
  <2>1. u \in DOMAIN V /\ V[u] = c /\ t # d
    BY <1>2 DEF Without
  <2>2. CASE Names!RootName(u, W, C) = Names!RootName(u, V, C)
    BY <1>2, <2>1, <2>2 DEF Names!OtherNames
  <2>3. CASE Names!RootName(u, W, C) # Names!RootName(u, V, C)
    <3>1. d \in DOMAIN V /\ V[d] = c /\ Names!RootName(d, V, C) = Names!RootName(u, W, C)
      BY <2>1, <2>3, NameWasTaken, SMTT(30)
    <3> QED
      BY <2>1, <3>1 DEF Names!OtherNames
  <2> QED
    BY <2>2, <2>3
<1>3. Names!OtherNames(t, c, W, C) \subseteq Names!OtherNames(t, c, V, C)
  <2>1. Names!Reserved(c, C) \subseteq Names!OtherNames(t, c, V, C)
    BY DEF Names!OtherNames
  <2> QED
    BY <1>2, <2>1 DEF Names!OtherNames
<1> QED
  BY <1>1, <1>3

(* A category more, that conflicts with nothing: the names stay. *)
LEMMA MoreCategories ==
    ASSUME NEW V, NEW C, NEW c, NEW subs, ~Names!CategoryConflict(c, V, C, subs)
    PROVE  /\ \A t \in DOMAIN V : Names!RootName(t, V, C \cup {c}) = Names!RootName(t, V, C)
           /\ \A t \in DOMAIN V : Names!OtherNames(t, V[t], V, C \cup {c})
                \subseteq Names!OtherNames(t, V[t], V, C) \cup IF V[t] = Names!Root THEN {c} ELSE {}
           /\ \A t \in DOMAIN V : V[t] = Names!Root /\ Single[t] => c \notin subs[t]
<1>1. ASSUME NEW t \in DOMAIN V PROVE Names!RootName(t, V, C \cup {c}) = Names!RootName(t, V, C)
  <2>1. V[t] = Names!Root => Names!RootName(t, V, C) # c
    BY DEF Names!CategoryConflict
  <2> QED
    BY <2>1 DEF Names!RootName
<1>2. ASSUME NEW t \in DOMAIN V, NEW n \in Names!OtherNames(t, V[t], V, C \cup {c})
      PROVE  n \in Names!OtherNames(t, V[t], V, C) \cup IF V[t] = Names!Root THEN {c} ELSE {}
  <2>1. CASE n \in Names!Reserved(V[t], C \cup {c})
    BY <2>1 DEF Names!Reserved, Names!OtherNames
  <2>2. CASE n \notin Names!Reserved(V[t], C \cup {c})
    <3>1. PICK u \in {v \in DOMAIN V : v # t /\ V[v] = V[t]} : n = Names!RootName(u, V, C \cup {c})
      BY <1>2, <2>2 DEF Names!OtherNames
    <3>2. n = Names!RootName(u, V, C)
      BY <1>1, <3>1
    <3> QED
      BY <3>2 DEF Names!OtherNames
  <2> QED
    BY <2>1, <2>2
<1> QED
  BY <1>1, <1>2 DEF Names!CategoryConflict

-----------------------------------------------------------------------------
(* Failed writes are counted. *)
LEMMA FaultsCounted ==
    ASSUME v13 \in 0 .. MaxFaults, NEW o, Names!Io(o)
    PROVE  v13' \in 0 .. MaxFaults
  BY NamesAssumption, SMTT(30) DEF Names!Io

(* What survives refers to what survives. *)
LEMMA ReferencesOutlived ==
    ASSUME Names!ReferencesKnown', v1'
    PROVE  Names!CategoriesOutliveReferences'
<1> SUFFICES ASSUME NEW t \in Torrents, NEW e \in Names!AfterPowerFailure(v6'[t]),
                    NEW c \in Names!AfterPowerFailure(v7'), e.now # None
             PROVE  e.now.category \in c.now \cup {Names!Root}
  BY DEF Names!CategoriesOutliveReferences
<1>1. e.now \in Names!Surviving(v6'[t]) /\ c.now \in Names!Surviving(v7')
  BY SurvivingFacts
<1>2. e.now.category \in v3' \cup {Names!Root} /\ v3' \subseteq c.now
  BY <1>1 DEF Names!ReferencesKnown
<1> QED
  BY <1>2

(* The layout depends on nothing else. *)
LEMMA LayoutKept ==
    ASSUME Names!Inductive, UNCHANGED <<v1, v2, v3, v4, v5, v10, v12>>
    PROVE  Names!UploadSound' /\ Names!PairsIntact' /\ Names!IndexMatchesStore'
<1>1. Names!UploadSound'
  BY DEF Names!Inductive, Names!UploadSound
<1>2. Names!PairsIntact'
  BY DEF Names!Inductive, Names!PairsIntact
<1>3. Names!IndexMatchesStore'
  BY DEF Names!Inductive, Names!IndexMatchesStore
<1> QED
  BY <1>1, <1>2, <1>3

(* A sidecar is written, or not: what is on disk. *)
LEMMA SidecarWritten ==
    ASSUME Names!Inductive, v1, NEW t \in Torrents, NEW e \in Names!Records, e.category \in v3 \cup {Names!Root},
           NEW o \in Names!Outcomes, Names!WriteEntry(t, e, o),
           UNCHANGED <<v1, v3, v7, v5, v4, v10, v11, v12, v14>>,
           v8' \subseteq Torrents, v9' \subseteq Torrents
    PROVE  /\ Names!TypeOK' /\ Names!RecordsOK' /\ Names!DownSound' /\ Names!ReferencesKnown' /\ Names!CategoriesOutliveReferences'
           /\ v2' = IF o = "ok" THEN [v2 EXCEPT ![t] = e] ELSE v2
           /\ \A u \in Torrents : u # t => v2'[u] = v2[u] /\ v6'[u] = v6[u]
           /\ v2'[t] = IF o = "ok" THEN e ELSE v2[t]
           /\ Names!Surviving(v6'[t]) \subseteq Names!Surviving(v6[t]) \cup {e}
           /\ o = "ok" => Names!Surviving(v6'[t]) = {e}
<1>1. /\ v6' = [v6 EXCEPT ![t] = Names!Written(v6[t], e, o)] /\ Names!Io(o)
      /\ v2' = IF o = "ok" THEN [v2 EXCEPT ![t] = e] ELSE v2
  BY DEF Names!WriteEntry
<1>2. DOMAIN v2 = Torrents /\ DOMAIN v6 = Torrents
  BY DEF Names!Inductive, Names!RecordsOK
<1>3. v2' \in [Torrents -> Names!Records \cup {None}] /\ DOMAIN v6' = Torrents
  BY <1>1, <1>2 DEF Names!Inductive, Names!RecordsOK, Names!Records
<1>4. ASSUME NEW u \in Torrents, u # t PROVE v2'[u] = v2[u] /\ v6'[u] = v6[u]
  BY <1>1, <1>2, <1>4
<1>5. v2'[t] = (IF o = "ok" THEN e ELSE v2[t]) /\ v6'[t] = Names!Written(v6[t], e, o)
  BY <1>1, <1>2
<1>6. /\ Names!Surviving(v6'[t]) \subseteq Names!Surviving(v6[t]) \cup {e}
      /\ o = "ok" => Names!Surviving(v6'[t]) = {e}
  <2>1. /\ Names!Surviving(Names!Written(v6[t], e, o)) \subseteq Names!Surviving(v6[t]) \cup {e}
        /\ o = "ok" => Names!Surviving(Names!Written(v6[t], e, o)) = {e}
    BY SurvivingWritten
  <2> QED
    BY <1>5, <2>1
<1>7. Names!TypeOK'
  <2>1. v13' \in 0 .. MaxFaults /\ v1' \in BOOLEAN
    BY <1>1, FaultsCounted DEF Names!Inductive, Names!TypeOK
  <2>2. ASSUME NEW u \in Torrents
        PROVE  v2'[u] # None => v2'[u] \in Names!Records
    BY <1>4, <1>5 DEF Names!Inductive, Names!TypeOK, Names!Records
  <2>3. ASSUME NEW u \in Torrents
        PROVE  v4'[u] \subseteq Sidecars[u] /\ v10'[u] \subseteq Sidecars[u]
    BY DEF Names!Inductive, Names!TypeOK
  <2>4. /\ v3' \subseteq CategoryNames /\ v11' \subseteq Torrents /\ v14' \in 0 .. MaxCrashes
        /\ v5' # None => v5'.torrent \in Torrents /\ v5'.path \in Sidecars[v5'.torrent]
    BY DEF Names!Inductive, Names!TypeOK
  <2> QED
    BY <2>1, <2>2, <2>3, <2>4 DEF Names!TypeOK, Names!Records
<1>8. Names!RecordsOK'
  <2>1. ASSUME NEW u \in Torrents PROVE Names!Surviving(v6'[u]) \subseteq Names!Records \cup {None}
    <3>1. Names!Surviving(v6[u]) \subseteq Names!Records \cup {None}
      BY DEF Names!Inductive, Names!RecordsOK, Names!Records
    <3> QED
      BY <1>4, <1>6, <3>1
  <2>2. DOMAIN v4' = Torrents /\ DOMAIN v10' = Torrents
    BY DEF Names!Inductive, Names!RecordsOK
  <2>3. \A C \in Names!Surviving(v7') : C \subseteq CategoryNames
    BY DEF Names!Inductive, Names!RecordsOK
  <2>4. v5' # None =>
          v5' \in [torrent : Torrents, path : UNION {Sidecars[u] : u \in Torrents}, renamed : BOOLEAN]
    BY DEF Names!Inductive, Names!RecordsOK
  <2> QED
    BY <1>3, <2>1, <2>2, <2>3, <2>4 DEF Names!RecordsOK, Names!Records
<1>9. Names!DownSound'
  BY DEF Names!DownSound
<1>10. Names!ReferencesKnown'
  <2>1. ASSUME NEW u \in Torrents, NEW x \in Names!Surviving(v6'[u]) \cup {v2'[u]}, x # None
        PROVE  x.category \in v3 \cup {Names!Root}
    <3>1. x = e \/ x \in Names!Surviving(v6[u]) \cup {v2[u]}
      BY <1>4, <1>5, <1>6
    <3> QED
      BY <2>1, <3>1 DEF Names!Inductive, Names!ReferencesKnown
  <2>2. \A C \in Names!Surviving(v7') : v3' \subseteq C
    BY DEF Names!Inductive, Names!ReferencesKnown
  <2> QED
    BY <2>1, <2>2 DEF Names!ReferencesKnown
<1>11. Names!CategoriesOutliveReferences'
  BY <1>10, ReferencesOutlived
<1> QED
  BY <1>1, <1>4, <1>5, <1>6, <1>7, <1>8, <1>9, <1>10, <1>11

(* The store, after it: nothing of it has changed. *)
LEMMA StoreKept ==
    ASSUME Names!Inductive, v1, NEW t \in Torrents, NEW e \in Names!Records,
    NEW o \in Names!Outcomes,
           UNCHANGED <<v1, v4, v10, v11, v12>>,
           \A u \in Torrents : u # t => v2'[u] = v2[u] /\ v6'[u] = v6[u],
           v2'[t] = IF o = "ok" THEN e ELSE v2[t],
           Names!Surviving(v6'[t]) \subseteq Names!Surviving(v6[t]) \cup {e},
           o = "ok" => Names!Surviving(v6'[t]) = {e},
           Names!Stored(v2[t]) => Names!Stored(e),
           /\ o = "ok" /\ Names!Stored(v2[t]) /\ e.state = "deleting" /\ t \notin v12 /\ v4[t] # {}
             => v10[t] # {} \/ t \in v11,
           o = "ok" /\ ~Names!Stored(v2[t]) /\ e.state = "deleting" /\ t \notin v12 => v4[t] = {}
    PROVE  Names!StoreSound'
<1> USE DEF Names!Records
<1>1. ASSUME NEW u \in Torrents, u # t
      PROVE  /\ Names!Stored(v2'[u]) <=> Names!Stored(v2[u])
             /\ Names!Visible(v2', u) <=> Names!Visible(v2, u)
             /\ Names!Surviving(v6'[u]) = Names!Surviving(v6[u])
  BY <1>1 DEF Names!Visible
<1>2. ASSUME NEW u \in Torrents, ~Names!Stored(v2'[u])
      PROVE  v10'[u] = {} /\ (u \notin v12' => v4'[u] = {})
  <2>1. ~Names!Stored(v2[u])
    BY <1>1, <1>2
  <2> QED
    BY <2>1 DEF Names!Inductive, Names!StoreSound
<1>3. ASSUME NEW u \in Torrents, Names!Stored(v2'[u]), NEW x \in Names!Surviving(v6'[u])
      PROVE  Names!Stored(x)
  <2>1. CASE u # t
    BY <1>1, <1>3, <2>1 DEF Names!Inductive, Names!StoreSound
  <2>2. CASE u = t /\ o = "ok"
    BY <1>3, <2>2
  <2>3. CASE u = t /\ o # "ok"
    <3>1. Names!Stored(v2[t]) /\ Names!Stored(e)
      BY <1>3, <2>3
    <3> QED
      BY <1>3, <2>3, <3>1 DEF Names!Inductive, Names!StoreSound
  <2> QED
    BY <2>1, <2>2, <2>3
<1>4. ASSUME NEW u \in Torrents, Names!Stored(v2'[u]), ~Names!Visible(v2', u), u \notin v12', v4'[u] # {}
      PROVE  v10'[u] # {} \/ u \in v11'
  <2>1. CASE u # t \/ o # "ok"
    <3>1. Names!Stored(v2[u]) /\ ~Names!Visible(v2, u)
      BY <1>1, <1>4, <2>1 DEF Names!Visible
    <3> QED
      BY <1>4, <3>1 DEF Names!Inductive, Names!StoreSound
  <2>2. CASE u = t /\ o = "ok"
    <3>1. v2'[t] = e /\ e.state = "deleting"
      BY <1>4, <2>2 DEF Names!Visible, Names!Stored
    <3> QED
      BY <1>4, <2>2, <3>1
  <2> QED
    BY <2>1, <2>2
<1> QED
  BY <1>2, <1>3, <1>4 DEF Names!StoreSound

-----------------------------------------------------------------------------
(* SetTorrentCategory: guarded by the layout it leads to. *)
LEMMA NamesSetCategory ==
    ASSUME Names!Inductive, NEW t \in Torrents, NEW c, NEW o \in Names!Outcomes, Names!SetTorrentCategory(t, c, o)
    PROVE  Names!Inductive'
<1> DEFINE e == [v2[t] EXCEPT !.category = c]
           V == Names!Views(v2)
           W == Names!Moved(t, c)
<1>1. /\ v1 /\ v5 = None /\ v2[t] # None /\ v2[t].state # "deleting"
      /\ c \in v3 \cup {Names!Root} /\ ~Names!LayoutConflict(W, v3, v4) /\ Names!WriteEntry(t, e, o)
      /\ UNCHANGED <<v1, v3, v4, v5, v7, v8, v9, v10, v11, v12, v14>>
  BY DEF Names!SetTorrentCategory, Names!Busy
<1>2. v2[t] \in Names!Records /\ c \in CategoryNames \cup {Names!Root}
  BY <1>1 DEF Names!Inductive, Names!TypeOK, Names!Records
<1>3. e \in Names!Records /\ e.category = c /\ e.state = v2[t].state
  BY <1>2 DEF Names!Records
<1> HIDE DEF e
<1>4. v8' \subseteq Torrents /\ v9' \subseteq Torrents
  BY <1>1 DEF Names!Inductive, Names!TypeOK
<1>5. /\ Names!TypeOK' /\ Names!RecordsOK' /\ Names!DownSound' /\ Names!ReferencesKnown' /\ Names!CategoriesOutliveReferences'
      /\ v2' = IF o = "ok" THEN [v2 EXCEPT ![t] = e] ELSE v2
      /\ \A u \in Torrents : u # t => v2'[u] = v2[u] /\ v6'[u] = v6[u]
      /\ v2'[t] = IF o = "ok" THEN e ELSE v2[t]
      /\ Names!Surviving(v6'[t]) \subseteq Names!Surviving(v6[t]) \cup {e}
      /\ o = "ok" => Names!Surviving(v6'[t]) = {e}
  BY <1>1, <1>3, <1>4, SidecarWritten
<1>6. e # None
  BY <1>3, NamesAssumption DEF Names!Records
<1>7. Names!StoreSound'
  <2>1. Names!Stored(v2[t]) => Names!Stored(e)
    BY <1>3, <1>6 DEF Names!Stored
  <2>2. e.state # "deleting"
    BY <1>1, <1>3
  <2> QED
    BY <1>1, <1>3, <1>5, <2>1, <2>2, StoreKept
<1>8. CASE o # "ok"
  <2>1. v2' = v2
    BY <1>5, <1>8
  <2> QED
    BY <1>1, <1>5, <1>7, <2>1, LayoutKept DEF Names!Inductive
<1>9. CASE o = "ok"
  <2>1. ASSUME NEW u \in Torrents PROVE Names!Visible(v2', u) <=> Names!Visible(v2, u)
    BY <1>1, <1>3, <1>5, <1>6, <1>9 DEF Names!Visible
  <2>2. Names!Views(v2') = W
    <3>1. {u \in Torrents : Names!Visible(v2', u)} = DOMAIN V
      BY <2>1, ViewsFacts
    <3>2. ASSUME NEW u \in DOMAIN V PROVE v2'[u].category = IF u = t THEN c ELSE V[u]
      <4>1. u \in Torrents /\ V[u] = v2[u].category
        BY ViewsFacts
      <4>2. CASE u = t
        <5>1. v2'[u] = e
          BY <1>5, <1>9, <4>2
        <5> QED
          BY <1>3, <4>2, <5>1
      <4>3. CASE u # t
        <5>1. v2'[u] = v2[u]
          BY <1>5, <1>9, <4>1, <4>3
        <5> QED
          BY <4>1, <4>3, <5>1
      <4> QED
        BY <4>2, <4>3
    <3>3. Names!Views(v2') = [u \in DOMAIN V |-> IF u = t THEN c ELSE V[u]]
      BY <3>1, <3>2 DEF Names!Views
    <3> QED
      BY <3>3 DEF Names!Moved
  <2>3. Names!PairsIntact'
    <3> SUFFICES ASSUME NEW u \in DOMAIN W, Single[u], v4[u] # {}
                 PROVE  /\ Names!RootName(u, W, v3) = Name[u]
                        /\ Default[u] \in v4[u] => Default[u] \notin Names!OtherNames(u, W[u], W, v3)
      BY <1>1, <2>2 DEF Names!PairsIntact
    <3>1. Names!RootName(u, W, v3) = Name[u] /\ v4[u] \cap Names!OtherNames(u, W[u], W, v3) = {}
      BY <1>1 DEF Names!LayoutConflict, Names!Shadowed
    <3> QED
      BY <3>1
  <2>4. Names!IndexMatchesStore'
    BY <1>1, <2>1 DEF Names!Inductive, Names!IndexMatchesStore
  <2>5. Names!UploadSound'
    BY <1>1 DEF Names!UploadSound
  <2> QED
    BY <1>5, <1>7, <2>3, <2>4, <2>5 DEF Names!Inductive
<1> QED
  BY <1>8, <1>9

(* A torrent gets its metainfo: guarded by the layout with it. *)
LEMMA NamesPublished ==
    ASSUME Names!Inductive, NEW t \in Torrents, NEW o \in Names!Outcomes, Names!Busy(t), Names!Publishable(t),
           Names!WriteEntry(t, Names!Entry("ready", Names!CategoryOf(t)), o), v8' \subseteq Torrents, v9' \subseteq Torrents,
           UNCHANGED <<v1, v3, v4, v5, v7, v10, v11, v12, v14>>
    PROVE  Names!Inductive'
<1> DEFINE c == Names!CategoryOf(t)
           e == Names!Entry("ready", c)
           V == Names!Views(v2)
           W == Names!Placed(V, t, c)
<1>1. v1 /\ v5 = None /\ (v2[t] # None => v2[t].state # "deleting")
  BY DEF Names!Busy
<1>2. c \in v3 \cup {Names!Root} /\ c \in CategoryNames \cup {Names!Root}
  BY <1>1 DEF Names!CategoryOf, Names!Inductive, Names!ReferencesKnown, Names!TypeOK
<1>3. e \in Names!Records /\ e.category = c /\ e.state = "ready"
  BY <1>2 DEF Names!Records, Names!Entry
<1>4. v2[t] # None => v2[t] \in Names!Records
  BY DEF Names!Inductive, Names!TypeOK, Names!Records
<1>5. Names!Visible(v2, t) => v2[t] = e
  BY <1>4 DEF Names!Visible, Names!Entry, Names!Records, Names!CategoryOf
<1>6. Names!WriteEntry(t, e, o)
  OBVIOUS
<1> HIDE DEF c, e
<1>7. /\ Names!TypeOK' /\ Names!RecordsOK' /\ Names!DownSound' /\ Names!ReferencesKnown' /\ Names!CategoriesOutliveReferences'
      /\ v2' = IF o = "ok" THEN [v2 EXCEPT ![t] = e] ELSE v2
      /\ \A u \in Torrents : u # t => v2'[u] = v2[u] /\ v6'[u] = v6[u]
      /\ v2'[t] = IF o = "ok" THEN e ELSE v2[t]
      /\ Names!Surviving(v6'[t]) \subseteq Names!Surviving(v6[t]) \cup {e}
      /\ o = "ok" => Names!Surviving(v6'[t]) = {e}
  BY <1>1, <1>2, <1>3, <1>6, SidecarWritten
<1>8. e # None
  BY <1>3, NamesAssumption DEF Names!Records
<1>9. Names!StoreSound'
  <2>1. Names!Stored(e) /\ e.state # "deleting"
    BY <1>3, <1>8 DEF Names!Stored
  <2> QED
    BY <1>1, <1>3, <1>7, <2>1, StoreKept
<1>10. CASE o # "ok" \/ Names!Visible(v2, t)
  <2>1. v2' = v2
    <3>1. v2 \in [Torrents -> Names!Records \cup {None}]
      BY DEF Names!Inductive, Names!RecordsOK, Names!Records
    <3>2. v2[t] = e => [v2 EXCEPT ![t] = e] = v2
      BY <3>1
    <3> QED
      BY <1>5, <1>7, <1>10, <3>2
  <2> QED
    BY <1>7, <1>9, <2>1, LayoutKept DEF Names!Inductive
<1>11. CASE o = "ok" /\ ~Names!Visible(v2, t)
  <2>1. ~Names!Stored(v2[t])
    BY <1>1, <1>4, <1>11 DEF Names!Stored, Names!Visible, Names!Records
  <2>2. v10[t] = {} /\ (t \notin v12 => v4[t] = {})
    BY <1>1, <2>1 DEF Names!Inductive, Names!StoreSound
  <2>3. ASSUME NEW u \in Torrents PROVE Names!Visible(v2', u) <=> u = t \/ Names!Visible(v2, u)
    BY <1>3, <1>7, <1>8, <1>11 DEF Names!Visible
  <2>4. Names!Views(v2') = W
    <3>1. {u \in Torrents : Names!Visible(v2', u)} = DOMAIN V \cup {t}
      BY <2>3, ViewsFacts
    <3>2. ASSUME NEW u \in DOMAIN V \cup {t} PROVE v2'[u].category = IF u = t THEN c ELSE V[u]
      <4>1. u # t => u \in Torrents /\ V[u] = v2[u].category
        BY ViewsFacts
      <4>2. CASE u = t
        <5>1. v2'[u] = e
          BY <1>7, <1>11, <4>2
        <5> QED
          BY <1>3, <4>2, <5>1
      <4>3. CASE u # t
        <5>1. v2'[u] = v2[u]
          BY <1>7, <1>11, <4>1, <4>3
        <5> QED
          BY <4>1, <4>3, <5>1
      <4> QED
        BY <4>2, <4>3
    <3>3. Names!Views(v2') = [u \in DOMAIN V \cup {t} |-> IF u = t THEN c ELSE V[u]]
      BY <3>1, <3>2 DEF Names!Views
    <3> QED
      BY <3>3 DEF Names!Placed
  <2>5. DOMAIN W = DOMAIN V \cup {t} /\ W = Names!Placed(V, t, Names!CategoryOf(t))
    BY DEF Names!Placed, c
  <2>6. Names!PairsIntact'
    <3> SUFFICES ASSUME NEW u \in DOMAIN W, u \notin v12, Single[u], v4[u] # {}
                 PROVE  /\ Names!RootName(u, W, v3) = Name[u]
                        /\ Default[u] \in v4[u] => Default[u] \notin Names!OtherNames(u, W[u], W, v3)
      BY <2>4 DEF Names!PairsIntact
    <3>1. u \in DOMAIN V \ {t}
      BY <2>2, <2>5
    <3>2. ~Names!LayoutConflict(W, v3, v4)
      BY <2>5, <3>1 DEF Names!Publishable, Names!NamespaceConflict
    <3>3. Names!RootName(u, W, v3) = Name[u] /\ v4[u] \cap Names!OtherNames(u, W[u], W, v3) = {}
      BY <3>2 DEF Names!LayoutConflict, Names!Shadowed
    <3> QED
      BY <3>3
  <2>7. Names!IndexMatchesStore'
    BY <1>1, <2>2, <2>3 DEF Names!Inductive, Names!IndexMatchesStore
  <2>8. Names!UploadSound'
    BY <1>1 DEF Names!UploadSound
  <2> QED
    BY <1>7, <1>9, <2>6, <2>7, <2>8 DEF Names!Inductive
<1> QED
  BY <1>10, <1>11

(* AddMagnet: a name, but nothing to show. *)
LEMMA NamesAddMagnet ==
    ASSUME Names!Inductive, NEW t \in Torrents, NEW o \in Names!Outcomes, Names!AddMagnet(t, o)
    PROVE  Names!Inductive'
<1> DEFINE e == Names!Entry("adding", Names!Root)
<1>1. /\ v1 /\ v5 = None /\ v2[t] = None /\ Names!WriteEntry(t, e, o)
      /\ v9' \subseteq v9 \cup {t}
      /\ UNCHANGED <<v1, v3, v4, v5, v7, v8, v10, v11, v12, v14>>
  BY DEF Names!AddMagnet, Names!Busy
<1>2. e \in Names!Records /\ e.category \in v3 \cup {Names!Root} /\ e.state = "adding"
  BY DEF Names!Records, Names!Entry
<1> HIDE DEF e
<1>3. v8' \subseteq Torrents /\ v9' \subseteq Torrents
  BY <1>1 DEF Names!Inductive, Names!TypeOK
<1>4. /\ Names!TypeOK' /\ Names!RecordsOK' /\ Names!DownSound' /\ Names!ReferencesKnown' /\ Names!CategoriesOutliveReferences'
      /\ \A u \in Torrents : u # t => v2'[u] = v2[u] /\ v6'[u] = v6[u]
      /\ v2'[t] = IF o = "ok" THEN e ELSE v2[t]
      /\ Names!Surviving(v6'[t]) \subseteq Names!Surviving(v6[t]) \cup {e}
      /\ o = "ok" => Names!Surviving(v6'[t]) = {e}
  BY <1>1, <1>2, <1>3, SidecarWritten
<1>5. Names!StoreSound'
  <2>1. ~Names!Stored(v2[t]) /\ e.state # "deleting"
    BY <1>1, <1>2 DEF Names!Stored
  <2> QED
    BY <1>1, <1>2, <1>4, <2>1, StoreKept
<1>6. ASSUME NEW u \in Torrents
      PROVE  /\ Names!Visible(v2', u) <=> Names!Visible(v2, u)
             /\ Names!Visible(v2, u) => v2'[u].category = v2[u].category
  BY <1>1, <1>2, <1>4 DEF Names!Visible
<1>7. Names!Views(v2') = Names!Views(v2)
  BY <1>6, ViewsSame
<1>8. Names!PairsIntact'
  BY <1>1, <1>7 DEF Names!Inductive, Names!PairsIntact
<1>9. Names!IndexMatchesStore'
  BY <1>1, <1>6 DEF Names!Inductive, Names!IndexMatchesStore
<1>10. Names!UploadSound'
  BY <1>1 DEF Names!UploadSound
<1> QED
  BY <1>4, <1>5, <1>8, <1>9, <1>10 DEF Names!Inductive

(* DeleteByHash: the torrent is not shown any more, and the others keep      *)
(* their names, also while an upload is under way.                           *)
LEMMA NamesDelete ==
    ASSUME Names!Inductive, NEW t \in Torrents, NEW o \in Names!Outcomes, Names!DeleteByHash(t, o)
    PROVE  Names!Inductive'
<1> DEFINE e == [v2[t] EXCEPT !.state = "deleting"]
           V == Names!Views(v2)
           W == Names!Views(v2')
<1>1. /\ v1 /\ v2[t] # None /\ v2[t].state # "deleting" /\ (v5 # None => v5.torrent # t)
      /\ Names!WriteEntry(t, e, o)
      /\ UNCHANGED <<v1, v3, v4, v5, v7, v8, v9, v10, v11, v12, v14>>
  BY DEF Names!DeleteByHash
<1>2. v2[t] \in Names!Records
  BY <1>1 DEF Names!Inductive, Names!TypeOK, Names!Records
<1>3. e \in Names!Records /\ e.category = v2[t].category /\ e.state = "deleting"
  BY <1>2 DEF Names!Records
<1> HIDE DEF e
<1>4. v8' \subseteq Torrents /\ v9' \subseteq Torrents /\ e.category \in v3 \cup {Names!Root}
  BY <1>1, <1>3 DEF Names!Inductive, Names!TypeOK, Names!ReferencesKnown
<1>5. /\ Names!TypeOK' /\ Names!RecordsOK' /\ Names!DownSound' /\ Names!ReferencesKnown' /\ Names!CategoriesOutliveReferences'
      /\ v2' = IF o = "ok" THEN [v2 EXCEPT ![t] = e] ELSE v2
      /\ \A u \in Torrents : u # t => v2'[u] = v2[u] /\ v6'[u] = v6[u]
      /\ v2'[t] = IF o = "ok" THEN e ELSE v2[t]
      /\ Names!Surviving(v6'[t]) \subseteq Names!Surviving(v6[t]) \cup {e}
      /\ o = "ok" => Names!Surviving(v6'[t]) = {e}
  BY <1>1, <1>3, <1>4, SidecarWritten
<1>6. e # None
  BY <1>3, NamesAssumption DEF Names!Records
<1>7. Names!StoreSound'
  <2>1. Names!Stored(e)
    BY <1>3, <1>6 DEF Names!Stored
  <2>2. Names!Stored(v2[t]) => Names!Visible(v2, t)
    BY <1>1 DEF Names!Stored, Names!Visible
  <2>3. Names!Visible(v2, t) /\ t \notin v12 => v4[t] = v10[t]
    BY <1>1 DEF Names!Inductive, Names!IndexMatchesStore
  <2>4. ~Names!Stored(v2[t]) /\ t \notin v12 => v4[t] = {}
    BY <1>1 DEF Names!Inductive, Names!StoreSound
  <2> QED
    BY <1>1, <1>3, <1>5, <2>1, <2>2, <2>3, <2>4, StoreKept
<1>8. CASE o # "ok"
  <2>1. v2' = v2
    BY <1>5, <1>8
  <2> QED
    BY <1>1, <1>5, <1>7, <2>1, LayoutKept DEF Names!Inductive
<1>9. CASE o = "ok"
  <2>1. ~Names!Visible(v2', t)
    BY <1>3, <1>5, <1>9 DEF Names!Visible
  <2>2. ASSUME NEW u \in Torrents, u # t
        PROVE  (Names!Visible(v2', u) <=> Names!Visible(v2, u)) /\ v2'[u] = v2[u]
    BY <1>5, <2>2 DEF Names!Visible
  <2>3. Without(V, W, t)
    <3>1. DOMAIN V = {u \in Torrents : Names!Visible(v2, u)} /\ DOMAIN W = {u \in Torrents : Names!Visible(v2', u)}
      BY ViewsFacts
    <3>2. DOMAIN W = DOMAIN V \ {t} /\ DOMAIN V \subseteq Torrents
      BY <2>1, <2>2, <3>1
    <3>3. ASSUME NEW u \in DOMAIN W PROVE W[u] = V[u]
      <4>1. u \in Torrents /\ u # t /\ Names!Visible(v2', u) /\ Names!Visible(v2, u)
        BY <3>1, <3>2
      <4>2. W[u] = v2'[u].category /\ V[u] = v2[u].category
        BY <4>1, ViewsFacts
      <4> QED
        BY <2>2, <4>1, <4>2
    <3> QED
      BY <3>2, <3>3 DEF Without
  <2> HIDE DEF V, W
  <2>4. ASSUME NEW u \in DOMAIN W
        PROVE  /\ u \in DOMAIN V /\ W[u] = V[u]
               /\ Names!RootName(u, V, v3) = Name[u] => Names!RootName(u, W, v3) = Name[u]
               /\ Names!OtherNames(u, W[u], W, v3) \subseteq Names!OtherNames(u, W[u], V, v3)
    <3>1. u \in DOMAIN V /\ W[u] = V[u]
      BY <2>3 DEF Without
    <3> QED
      BY <2>3, <3>1, FewerNames, SMTT(30)
  <2>5. Names!PairsIntact'
    <3> SUFFICES ASSUME NEW u \in DOMAIN W, u \notin v12, Single[u], v4[u] # {}
                 PROVE  /\ Names!RootName(u, W, v3) = Name[u]
                        /\ Default[u] \in v4[u] => Default[u] \notin Names!OtherNames(u, W[u], W, v3)
      BY <1>1 DEF Names!PairsIntact, W
    <3>1. u \in DOMAIN V \ v12
      BY <2>4
    <3>2. /\ Names!RootName(u, V, v3) = Name[u]
          /\ Default[u] \in v4[u] => Default[u] \notin Names!OtherNames(u, V[u], V, v3)
      BY <3>1 DEF Names!Inductive, Names!PairsIntact, V
    <3> QED
      BY <2>4, <3>2
  <2>6. Names!IndexMatchesStore'
    BY <1>1, <2>1, <2>2 DEF Names!Inductive, Names!IndexMatchesStore
  <2>7. Names!UploadSound'
    <3> SUFFICES ASSUME v5 # None PROVE Names!UploadSound'
      BY <1>1 DEF Names!UploadSound
    <3> DEFINE u == v5.torrent
    <3>1. /\ Names!Visible(v2, u) /\ v5.path \in Sidecars[u] /\ u \in Torrents /\ u # t
          /\ Single[u] => Names!RootName(u, V, v3) = Name[u]
                            /\ Default[u] \notin Names!OtherNames(u, V[u], V, v3)
          /\ u \notin v12 => v10[u] = v4[u] \cup IF v5.renamed THEN {v5.path} ELSE {}
      BY <1>1 DEF Names!Inductive, Names!UploadSound, Names!TypeOK, V
    <3> HIDE DEF u
    <3>2. Names!Visible(v2', u)
      BY <2>2, <3>1
    <3>3. u \in DOMAIN W
      BY <3>1, <3>2, ViewsFacts DEF W
    <3>4. Single[u] => Names!RootName(u, W, v3) = Name[u]
                        /\ Default[u] \notin Names!OtherNames(u, W[u], W, v3)
      BY <2>4, <3>1, <3>3
    <3> QED
      BY <1>1, <3>1, <3>2, <3>4 DEF Names!UploadSound, W, u
  <2> QED
    BY <1>5, <1>7, <2>5, <2>6, <2>7 DEF Names!Inductive
<1> QED
  BY <1>8, <1>9

(* CreateCategory: a name nothing bears, so the layout stays. *)
LEMMA NamesCreateCategory ==
    ASSUME Names!Inductive, NEW c \in CategoryNames, NEW o \in Names!Outcomes, Names!CreateCategory(c, o)
    PROVE  Names!Inductive'
<1> DEFINE V == Names!Views(v2)
           D == v3 \cup {c}
<1>1. /\ v1 /\ v5 = None /\ ~Names!CategoryConflict(c, V, v3, v4)
      /\ Names!Io(o) /\ v7' = Names!Written(v7, D, o)
      /\ v3' = IF o = "ok" THEN D ELSE v3
      /\ UNCHANGED <<v1, v2, v4, v5, v6, v8, v9, v10, v11, v12, v14>>
  BY DEF Names!CreateCategory, Names!WriteCategories
<1>2. /\ Names!Surviving(v7') \subseteq Names!Surviving(v7) \cup {D}
      /\ o = "ok" => Names!Surviving(v7') = {D}
  <2>1. /\ Names!Surviving(Names!Written(v7, D, o)) \subseteq Names!Surviving(v7) \cup {D}
        /\ o = "ok" => Names!Surviving(Names!Written(v7, D, o)) = {D}
    BY SurvivingWritten
  <2> QED
    BY <1>1, <2>1
<1>3. v3 \subseteq v3' /\ v3' \subseteq D /\ D \subseteq CategoryNames
  BY <1>1 DEF Names!Inductive, Names!TypeOK
<1>4. Names!TypeOK'
  <2>1. v13' \in 0 .. MaxFaults
    BY <1>1, FaultsCounted DEF Names!Inductive, Names!TypeOK
  <2> QED
    BY <1>1, <1>3, <2>1 DEF Names!Inductive, Names!TypeOK
<1>5. Names!RecordsOK'
  BY <1>1, <1>2, <1>3 DEF Names!Inductive, Names!RecordsOK
<1>6. Names!DownSound'
  BY <1>1 DEF Names!DownSound
<1>7. Names!ReferencesKnown'
  <2>1. ASSUME NEW t \in Torrents, NEW e \in Names!Surviving(v6'[t]) \cup {v2'[t]}, e # None
        PROVE  e.category \in v3' \cup {Names!Root}
    BY <1>1, <1>3, <2>1 DEF Names!Inductive, Names!ReferencesKnown
  <2>2. ASSUME NEW C \in Names!Surviving(v7') PROVE v3' \subseteq C
    <3>1. CASE o = "ok"
      BY <1>1, <1>2, <3>1
    <3>2. CASE o # "ok"
      <4>1. v3' = v3 /\ (C = D \/ C \in Names!Surviving(v7))
        BY <1>1, <1>2, <3>2
      <4> QED
        BY <1>1, <4>1 DEF Names!Inductive, Names!ReferencesKnown
    <3> QED
      BY <3>1, <3>2
  <2> QED
    BY <2>1, <2>2 DEF Names!ReferencesKnown
<1>8. Names!CategoriesOutliveReferences'
  BY <1>1, <1>7, ReferencesOutlived
<1>9. Names!StoreSound' /\ Names!IndexMatchesStore'
  BY <1>1 DEF Names!Inductive, Names!StoreSound, Names!IndexMatchesStore
<1>10. Names!UploadSound'
  BY <1>1 DEF Names!UploadSound
<1>11. Names!PairsIntact'
  <2>1. CASE o # "ok"
    BY <1>1, <2>1 DEF Names!Inductive, Names!PairsIntact
  <2>2. CASE o = "ok"
    <3>1. /\ \A t \in DOMAIN V : Names!RootName(t, V, D) = Names!RootName(t, V, v3)
          /\ \A t \in DOMAIN V : Names!OtherNames(t, V[t], V, D)
               \subseteq Names!OtherNames(t, V[t], V, v3) \cup IF V[t] = Names!Root THEN {c} ELSE {}
          /\ \A t \in DOMAIN V : V[t] = Names!Root /\ Single[t] => c \notin v4[t]
      BY <1>1, MoreCategories
    <3>2. ASSUME NEW t \in DOMAIN V \ v12, Single[t], v4[t] # {}
          PROVE  /\ Names!RootName(t, V, D) = Name[t]
                 /\ Default[t] \in v4[t] => Default[t] \notin Names!OtherNames(t, V[t], V, D)
      <4>1. /\ Names!RootName(t, V, v3) = Name[t]
            /\ Default[t] \in v4[t] => Default[t] \notin Names!OtherNames(t, V[t], V, v3)
        BY <3>2 DEF Names!Inductive, Names!PairsIntact
      <4> HIDE DEF V, D
      <4> QED
        BY <3>1, <3>2, <4>1
    <3>3. v3' = D
      BY <1>1, <2>2
    <3> QED
      BY <1>1, <3>2, <3>3 DEF Names!PairsIntact
  <2> QED
    BY <2>1, <2>2
<1> QED
  BY <1>4, <1>5, <1>6, <1>7, <1>8, <1>9, <1>10, <1>11 DEF Names!Inductive

(* PerformDelete: of a torrent that is not shown. *)
LEMMA NamesPerformDelete ==
    ASSUME Names!Inductive, NEW t \in Torrents, NEW left \in SUBSET v10[t], NEW o \in Names!Outcomes, Names!PerformDelete(t, left, o)
    PROVE  Names!Inductive'
<1> DEFINE found == v10[t] # {} \/ t \in v11
<1>1. /\ v1 /\ v2[t] # None /\ v2[t].state = "deleting"
      /\ v8' = v8 \ {t} /\ v9' = v9 \ {t} /\ Names!Io(o)
      /\ IF o = "failed" THEN left # {} \/ t \in v11 ELSE left = {}
      /\ v10' = [v10 EXCEPT ![t] = left]
      /\ v11' = IF o = "failed" THEN v11 ELSE v11 \ {t}
      /\ v4' = IF o = "ok" /\ found THEN [v4 EXCEPT ![t] = {}] ELSE v4
      /\ v12' = IF o = "ok" /\ found THEN v12 \ {t} ELSE IF o = "unsynced" THEN v12 \cup {t} ELSE v12
      /\ v6' = IF o = "ok" THEN [v6 EXCEPT ![t] = Names!FileOf(None)] ELSE v6
      /\ v2' = IF o = "ok" THEN [v2 EXCEPT ![t] = None] ELSE v2
      /\ UNCHANGED <<v1, v3, v5, v7, v14>>
  BY DEF Names!PerformDelete, Names!RemoveSubtitles
<1>2. /\ DOMAIN v2 = Torrents /\ DOMAIN v6 = Torrents /\ DOMAIN v4 = Torrents /\ DOMAIN v10 = Torrents
      /\ v2 \in [Torrents -> Names!Records \cup {None}]
  BY DEF Names!Inductive, Names!RecordsOK, Names!Records
<1>3. ASSUME NEW u \in Torrents, u # t
      PROVE  /\ v2'[u] = v2[u] /\ v6'[u] = v6[u] /\ v4'[u] = v4[u] /\ v10'[u] = v10[u]
             /\ (u \in v11' <=> u \in v11) /\ (u \in v12' <=> u \in v12)
  BY <1>1, <1>2, <1>3
<1>4. /\ v2'[t] = (IF o = "ok" THEN None ELSE v2[t]) /\ v10'[t] = left
      /\ v6'[t] = (IF o = "ok" THEN Names!FileOf(None) ELSE v6[t])
      /\ v4'[t] = (IF o = "ok" /\ found THEN {} ELSE v4[t])
  BY <1>1, <1>2
<1>5. Names!Surviving(Names!FileOf(None)) = {None}
  BY DEF Names!Surviving, Names!FileOf
<1>6. ASSUME NEW u \in Torrents
      PROVE  /\ Names!Visible(v2', u) <=> Names!Visible(v2, u)
             /\ Names!Visible(v2, u) => u # t /\ v2'[u] = v2[u]
  BY <1>1, <1>3, <1>4 DEF Names!Visible
<1>7. Names!TypeOK'
  <2>1. v13' \in 0 .. MaxFaults /\ v1' \in BOOLEAN
    BY <1>1, FaultsCounted DEF Names!Inductive, Names!TypeOK
  <2>2. ASSUME NEW u \in Torrents
        PROVE  /\ v2'[u] # None => v2'[u] \in Names!Records
               /\ v4'[u] \subseteq Sidecars[u] /\ v10'[u] \subseteq Sidecars[u]
    <3>1. (v2[u] # None => v2[u] \in Names!Records) /\ v4[u] \subseteq Sidecars[u] /\ v10[u] \subseteq Sidecars[u]
      BY DEF Names!Inductive, Names!TypeOK, Names!Records
    <3>2. CASE u # t
      BY <1>3, <3>1, <3>2
    <3>3. CASE u = t
      BY <1>4, <3>1, <3>3
    <3> QED
      BY <3>2, <3>3
  <2>3. /\ v3' \subseteq CategoryNames /\ v11' \subseteq Torrents /\ v14' \in 0 .. MaxCrashes
        /\ v8' \subseteq Torrents /\ v9' \subseteq Torrents
        /\ v5' # None => v5'.torrent \in Torrents /\ v5'.path \in Sidecars[v5'.torrent]
    BY <1>1 DEF Names!Inductive, Names!TypeOK
  <2> QED
    BY <2>1, <2>2, <2>3 DEF Names!TypeOK, Names!Records
<1>8. Names!RecordsOK'
  <2>1. v2' \in [Torrents -> Names!Records \cup {None}]
    BY <1>1, <1>2
  <2>2. ASSUME NEW u \in Torrents PROVE Names!Surviving(v6'[u]) \subseteq Names!Records \cup {None}
    <3>1. Names!Surviving(v6[u]) \subseteq Names!Records \cup {None}
      BY DEF Names!Inductive, Names!RecordsOK, Names!Records
    <3> QED
      BY <1>3, <1>4, <1>5, <3>1
  <2>3. DOMAIN v6' = Torrents /\ DOMAIN v4' = Torrents /\ DOMAIN v10' = Torrents
    BY <1>1, <1>2
  <2> QED
    BY <1>1, <2>1, <2>2, <2>3 DEF Names!Inductive, Names!RecordsOK, Names!Records
<1>9. Names!DownSound'
  BY <1>1 DEF Names!DownSound
<1>10. Names!ReferencesKnown'
  <2>1. ASSUME NEW u \in Torrents, NEW e \in Names!Surviving(v6'[u]) \cup {v2'[u]}, e # None
        PROVE  e.category \in v3' \cup {Names!Root}
    <3>1. e \in Names!Surviving(v6[u]) \cup {v2[u]}
      BY <1>3, <1>4, <1>5, <2>1
    <3> QED
      BY <1>1, <2>1, <3>1 DEF Names!Inductive, Names!ReferencesKnown
  <2> QED
    BY <1>1, <2>1 DEF Names!Inductive, Names!ReferencesKnown
<1>11. Names!CategoriesOutliveReferences'
  BY <1>1, <1>10, ReferencesOutlived
<1>12. Names!Stored(v2[t]) /\ ~Names!Visible(v2, t)
  BY <1>1 DEF Names!Stored, Names!Visible
<1>13. Names!StoreSound'
  <2>1. ASSUME NEW u \in Torrents, ~Names!Stored(v2'[u])
        PROVE  v10'[u] = {} /\ (u \notin v12' => v4'[u] = {})
    <3>1. CASE u # t
      BY <1>1, <1>3, <2>1, <3>1 DEF Names!Inductive, Names!StoreSound
    <3>2. CASE u = t
      <4>1. o = "ok"
        BY <1>4, <1>12, <2>1, <3>2
      <4>2. v10'[t] = {}
        BY <1>1, <1>4, <4>1
      <4>3. ~found /\ t \notin v12 => v4[t] = {}
        BY <1>1, <1>12 DEF Names!Inductive, Names!StoreSound
      <4>4. t \notin v12' => v4'[t] = {}
        BY <1>1, <1>4, <4>1, <4>3
      <4> QED
        BY <3>2, <4>2, <4>4
    <3> QED
      BY <3>1, <3>2
  <2>2. ASSUME NEW u \in Torrents, Names!Stored(v2'[u]), NEW e \in Names!Surviving(v6'[u]) PROVE Names!Stored(e)
    <3>1. Names!Stored(v2[u]) /\ v6'[u] = v6[u]
      BY <1>3, <1>4, <2>2 DEF Names!Stored
    <3> QED
      BY <1>1, <2>2, <3>1 DEF Names!Inductive, Names!StoreSound
  <2>3. ASSUME NEW u \in Torrents, Names!Stored(v2'[u]), ~Names!Visible(v2', u), u \notin v12', v4'[u] # {}
        PROVE  v10'[u] # {} \/ u \in v11'
    <3>1. CASE u # t
      <4>1. Names!Stored(v2[u]) /\ ~Names!Visible(v2, u) /\ u \notin v12 /\ v4[u] # {}
        BY <1>3, <1>6, <2>3, <3>1
      <4>2. v10[u] # {} \/ u \in v11
        BY <1>1, <4>1 DEF Names!Inductive, Names!StoreSound
      <4> QED
        BY <1>3, <3>1, <4>2
    <3>2. CASE u = t
      <4>1. o = "failed"
        BY <1>1, <1>4, <2>3, <3>2 DEF Names!Stored, Names!Outcomes
      <4> QED
        BY <1>1, <1>4, <3>2, <4>1
    <3> QED
      BY <3>1, <3>2
  <2> QED
    BY <2>1, <2>2, <2>3 DEF Names!StoreSound
<1>14. Names!Views(v2') = Names!Views(v2)
  BY <1>6, ViewsSame
<1>15. Names!PairsIntact'
  <2>1. ASSUME NEW u \in DOMAIN Names!Views(v2) PROVE u \in Torrents /\ u # t
    BY <1>6, ViewsFacts
  <2>2. ASSUME NEW u \in DOMAIN Names!Views(v2), u \notin v12'
        PROVE  u \notin v12 /\ v4'[u] = v4[u]
    BY <1>3, <2>1, <2>2
  <2> QED
    BY <1>1, <1>14, <2>2 DEF Names!Inductive, Names!PairsIntact
<1>16. Names!IndexMatchesStore'
  BY <1>1, <1>3, <1>6 DEF Names!Inductive, Names!IndexMatchesStore
<1>17. Names!UploadSound'
  <2> SUFFICES ASSUME v5 # None PROVE Names!UploadSound'
    BY <1>1 DEF Names!UploadSound
  <2> DEFINE u == v5.torrent
  <2>1. u \in Torrents /\ Names!Visible(v2, u)
    BY DEF Names!Inductive, Names!UploadSound, Names!TypeOK
  <2>2. /\ u # t /\ Names!Visible(v2', u) /\ v4'[u] = v4[u] /\ v10'[u] = v10[u]
        /\ (u \in v12' <=> u \in v12)
    BY <1>3, <1>6, <2>1
  <2> QED
    BY <1>1, <1>14, <2>2 DEF Names!Inductive, Names!UploadSound
<1> QED
  BY <1>7, <1>8, <1>9, <1>10, <1>11, <1>13, <1>15, <1>16, <1>17 DEF Names!Inductive

-----------------------------------------------------------------------------
(* An upload: what its steps leave alone. *)
LEMMA UploadKeeps ==
    ASSUME Names!Inductive, v1, UNCHANGED <<v1, v2, v3, v6, v7, v8, v9, v12, v14>>
    PROVE  /\ Names!DownSound' /\ Names!ReferencesKnown' /\ Names!CategoriesOutliveReferences'
           /\ v1' \in BOOLEAN /\ v3' \subseteq CategoryNames /\ v14' \in 0 .. MaxCrashes
           /\ v8' \subseteq Torrents /\ v9' \subseteq Torrents
           /\ \A t \in Torrents : v2'[t] # None => v2'[t] \in Names!Records
           /\ v2' \in [Torrents -> Names!Records \cup {None}] /\ DOMAIN v6' = Torrents
           /\ \A t \in Torrents : Names!Surviving(v6'[t]) \subseteq Names!Records \cup {None}
           /\ \A C \in Names!Surviving(v7') : C \subseteq CategoryNames
<1>1. Names!DownSound'
  BY DEF Names!DownSound
<1>2. Names!ReferencesKnown'
  BY DEF Names!Inductive, Names!ReferencesKnown
<1>3. Names!CategoriesOutliveReferences'
  BY <1>2, ReferencesOutlived
<1>4. /\ v1' \in BOOLEAN /\ v3' \subseteq CategoryNames /\ v14' \in 0 .. MaxCrashes
      /\ v8' \subseteq Torrents /\ v9' \subseteq Torrents
      /\ \A t \in Torrents : v2'[t] # None => v2'[t] \in Names!Records
  BY DEF Names!Inductive, Names!TypeOK, Names!Records
<1>5. /\ v2' \in [Torrents -> Names!Records \cup {None}] /\ DOMAIN v6' = Torrents
      /\ \A t \in Torrents : Names!Surviving(v6'[t]) \subseteq Names!Records \cup {None}
      /\ \A C \in Names!Surviving(v7') : C \subseteq CategoryNames
  BY DEF Names!Inductive, Names!RecordsOK, Names!Records
<1> QED
  BY <1>1, <1>2, <1>3, <1>4, <1>5

(* It begins: the names it has found free are. *)
LEMMA NamesUploadSubtitle ==
    ASSUME Names!Inductive, NEW t \in Torrents, NEW p \in Sidecars[t], Names!UploadSubtitle(t, p)
    PROVE  Names!Inductive'
<1>1. /\ v1 /\ v5 = None /\ Names!Visible(v2, t) /\ Names!Uploadable(t, Names!Views(v2), v3, v4)
      /\ v5' = [torrent |-> t, path |-> p, renamed |-> FALSE] /\ v11' = v11 \cup {t}
      /\ UNCHANGED <<v1, v2, v3, v4, v6, v7, v8, v9, v10, v12, v13, v14>>
  BY DEF Names!UploadSubtitle, Names!Busy
<1>2. /\ v5' \in [torrent : Torrents, path : UNION {Sidecars[u] : u \in Torrents}, renamed : BOOLEAN]
      /\ v5'.torrent = t /\ v5'.path = p /\ v5'.renamed = FALSE
  BY <1>1
<1>3. Names!TypeOK'
  BY <1>1, <1>2 DEF Names!Inductive, Names!TypeOK
<1>4. Names!RecordsOK'
  BY <1>1, <1>2 DEF Names!Inductive, Names!RecordsOK
<1>5. Names!DownSound' /\ Names!ReferencesKnown' /\ Names!CategoriesOutliveReferences'
  BY <1>1, UploadKeeps
<1>6. Names!StoreSound'
  BY <1>1 DEF Names!Inductive, Names!StoreSound
<1>7. Names!PairsIntact'
  BY <1>1 DEF Names!Inductive, Names!PairsIntact
<1>8. Names!IndexMatchesStore'
  BY <1>1 DEF Names!Inductive, Names!IndexMatchesStore
<1>9. Names!UploadSound'
  <2>1. Single[t] => /\ Names!RootName(t, Names!Views(v2), v3) = Name[t]
                     /\ Default[t] \notin Names!OtherNames(t, Names!Views(v2)[t], Names!Views(v2), v3)
    BY <1>1 DEF Names!Uploadable
  <2>2. t \notin v12 => v10[t] = v4[t]
    BY <1>1 DEF Names!Inductive, Names!IndexMatchesStore
  <2> QED
    BY <1>1, <1>2, <2>1, <2>2 DEF Names!UploadSound
<1> QED
  BY <1>3, <1>4, <1>5, <1>6, <1>7, <1>8, <1>9 DEF Names!Inductive

(* It fails before the rename: nothing was shown. *)
LEMMA NamesUploadFailed ==
    ASSUME Names!Inductive, NEW left \in BOOLEAN, Names!UploadFailed(left)
    PROVE  Names!Inductive'
<1> DEFINE t == v5.torrent
<1>1. /\ v1 /\ v5 # None /\ ~v5.renamed /\ v5' = None
      /\ v11' = IF left THEN v11 ELSE v11 \ {t}
      /\ UNCHANGED <<v1, v2, v3, v4, v6, v7, v8, v9, v10, v12, v13, v14>>
  BY DEF Names!UploadFailed
<1>2. t \in Torrents /\ Names!Visible(v2, t) /\ (t \notin v12 => v10[t] = v4[t])
  BY <1>1 DEF Names!Inductive, Names!UploadSound, Names!TypeOK
<1> HIDE DEF t
<1>3. Names!TypeOK'
  BY <1>1 DEF Names!Inductive, Names!TypeOK
<1>4. Names!RecordsOK'
  BY <1>1 DEF Names!Inductive, Names!RecordsOK
<1>5. Names!DownSound' /\ Names!ReferencesKnown' /\ Names!CategoriesOutliveReferences'
  BY <1>1, UploadKeeps
<1>6. Names!StoreSound'
  <2>1. ASSUME NEW u \in Torrents, ~Names!Visible(v2, u) PROVE u \in v11' <=> u \in v11
    BY <1>1, <1>2, <2>1
  <2> QED
    BY <1>1, <2>1 DEF Names!Inductive, Names!StoreSound
<1>7. Names!PairsIntact'
  BY <1>1 DEF Names!Inductive, Names!PairsIntact
<1>8. Names!IndexMatchesStore'
  BY <1>1, <1>2 DEF Names!Inductive, Names!IndexMatchesStore, t
<1>9. Names!UploadSound'
  BY <1>1 DEF Names!UploadSound
<1> QED
  BY <1>3, <1>4, <1>5, <1>6, <1>7, <1>8, <1>9 DEF Names!Inductive

(* Its file gets its name: the store is ahead of the index by it, *)
LEMMA NamesUploadRename ==
    ASSUME Names!Inductive, Names!UploadRename
    PROVE  Names!Inductive'
<1> DEFINE t == v5.torrent
<1>1. /\ v1 /\ v5 # None /\ ~v5.renamed /\ v10' = [v10 EXCEPT ![t] = @ \cup {v5.path}]
      /\ v11' = v11 \ {t} /\ v5' = [v5 EXCEPT !.renamed = TRUE]
      /\ UNCHANGED <<v1, v2, v3, v4, v6, v7, v8, v9, v12, v13, v14>>
  BY DEF Names!UploadRename
<1>2. /\ t \in Torrents /\ Names!Visible(v2, t) /\ v5.path \in Sidecars[t]
      /\ t \notin v12 => v10[t] = v4[t]
  BY <1>1 DEF Names!Inductive, Names!UploadSound, Names!TypeOK
<1>3. /\ v5' \in [torrent : Torrents, path : UNION {Sidecars[u] : u \in Torrents}, renamed : BOOLEAN]
      /\ v5'.torrent = t /\ v5'.path = v5.path /\ v5'.renamed
  BY <1>1 DEF Names!Inductive, Names!RecordsOK
<1>4. DOMAIN v10 = Torrents /\ DOMAIN v4 = Torrents
  BY DEF Names!Inductive, Names!RecordsOK
<1>5. DOMAIN v10' = Torrents /\ v10'[t] = v10[t] \cup {v5.path}
  BY <1>1, <1>2, <1>4
<1>6. ASSUME NEW u \in Torrents, u # t PROVE v10'[u] = v10[u] /\ (u \in v11' <=> u \in v11)
  BY <1>1, <1>4, <1>6
<1> HIDE DEF t
<1>7. Names!TypeOK'
  <2>1. ASSUME NEW u \in Torrents PROVE v10'[u] \subseteq Sidecars[u]
    <3>1. v10[u] \subseteq Sidecars[u]
      BY DEF Names!Inductive, Names!TypeOK
    <3> QED
      BY <1>2, <1>5, <1>6, <3>1
  <2> QED
    BY <1>1, <1>2, <1>3, <2>1 DEF Names!Inductive, Names!TypeOK
<1>8. Names!RecordsOK'
  BY <1>1, <1>3, <1>4, <1>5 DEF Names!Inductive, Names!RecordsOK
<1>9. Names!DownSound' /\ Names!ReferencesKnown' /\ Names!CategoriesOutliveReferences'
  BY <1>1, UploadKeeps
<1>10. Names!Stored(v2[t])
  BY <1>2 DEF Names!Stored, Names!Visible
<1>11. Names!StoreSound'
  <2>1. ASSUME NEW u \in Torrents, u # t
        PROVE  /\ ~Names!Stored(v2'[u]) => v10'[u] = {} /\ (u \notin v12' => v4'[u] = {})
               /\ /\ Names!Stored(v2'[u]) /\ ~Names!Visible(v2', u) /\ u \notin v12' /\ v4'[u] # {}
                  => v10'[u] # {} \/ u \in v11'
    BY <1>1, <1>6, <2>1 DEF Names!Inductive, Names!StoreSound
  <2>2. \A u \in Torrents : Names!Stored(v2'[u]) => \A e \in Names!Surviving(v6'[u]) : Names!Stored(e)
    BY <1>1 DEF Names!Inductive, Names!StoreSound
  <2>3. Names!Stored(v2'[t]) /\ Names!Visible(v2', t)
    BY <1>1, <1>2, <1>10
  <2> QED
    BY <2>1, <2>2, <2>3 DEF Names!StoreSound
<1>12. Names!PairsIntact'
  BY <1>1 DEF Names!Inductive, Names!PairsIntact
<1>13. Names!IndexMatchesStore'
  <2>1. v5' # None
    BY <1>3, NamesAssumption
  <2> QED
    BY <1>1, <1>3, <1>6, <2>1 DEF Names!Inductive, Names!IndexMatchesStore, t
<1>14. Names!UploadSound'
  <2>1. v5.path \in Sidecars[t] /\ Names!Visible(v2, t)
    BY <1>2
  <2>2. Single[t] => /\ Names!RootName(t, Names!Views(v2), v3) = Name[t]
                     /\ Default[t] \notin Names!OtherNames(t, Names!Views(v2)[t], Names!Views(v2), v3)
    BY <1>1 DEF Names!Inductive, Names!UploadSound, t
  <2> QED
    BY <1>1, <1>2, <1>3, <1>5, <2>2 DEF Names!UploadSound
<1> QED
  BY <1>7, <1>8, <1>9, <1>11, <1>12, <1>13, <1>14 DEF Names!Inductive

(* until the index has it. *)
LEMMA NamesUploadCommit ==
    ASSUME Names!Inductive, NEW o \in Names!Outcomes, Names!UploadCommit(o)
    PROVE  Names!Inductive'
<1> DEFINE t == v5.torrent
           V == Names!Views(v2)
<1>1. /\ v1 /\ v5 # None /\ v5.renamed /\ Names!Io(o) /\ v5' = None
      /\ v4' = [v4 EXCEPT ![t] = @ \cup {v5.path}]
      /\ UNCHANGED <<v1, v2, v3, v6, v7, v8, v9, v10, v11, v12, v14>>
  BY DEF Names!UploadCommit
<1>2. /\ t \in Torrents /\ Names!Visible(v2, t) /\ v5.path \in Sidecars[t]
      /\ t \notin v12 => v10[t] = v4[t] \cup {v5.path}
      /\ Single[t] => /\ Names!RootName(t, V, v3) = Name[t]
                      /\ Default[t] \notin Names!OtherNames(t, V[t], V, v3)
  BY <1>1 DEF Names!Inductive, Names!UploadSound, Names!TypeOK
<1>3. DOMAIN v4 = Torrents
  BY DEF Names!Inductive, Names!RecordsOK
<1>4. DOMAIN v4' = Torrents /\ v4'[t] = v4[t] \cup {v5.path}
  BY <1>1, <1>2, <1>3
<1>5. ASSUME NEW u \in Torrents, u # t PROVE v4'[u] = v4[u]
  BY <1>1, <1>3, <1>5
<1> HIDE DEF t
<1>6. Names!TypeOK'
  <2>1. ASSUME NEW u \in Torrents PROVE v4'[u] \subseteq Sidecars[u]
    <3>1. v4[u] \subseteq Sidecars[u]
      BY DEF Names!Inductive, Names!TypeOK
    <3> QED
      BY <1>2, <1>4, <1>5, <3>1
  <2>2. v13' \in 0 .. MaxFaults
    BY <1>1, FaultsCounted DEF Names!Inductive, Names!TypeOK
  <2> QED
    BY <1>1, <2>1, <2>2 DEF Names!Inductive, Names!TypeOK
<1>7. Names!RecordsOK'
  BY <1>1, <1>4 DEF Names!Inductive, Names!RecordsOK
<1>8. Names!DownSound' /\ Names!ReferencesKnown' /\ Names!CategoriesOutliveReferences'
  BY <1>1, UploadKeeps
<1>9. Names!Stored(v2[t])
  BY <1>2 DEF Names!Stored, Names!Visible
<1>10. Names!StoreSound'
  <2>1. ASSUME NEW u \in Torrents, u # t
        PROVE  /\ ~Names!Stored(v2'[u]) => v10'[u] = {} /\ (u \notin v12' => v4'[u] = {})
               /\ /\ Names!Stored(v2'[u]) /\ ~Names!Visible(v2', u) /\ u \notin v12' /\ v4'[u] # {}
                  => v10'[u] # {} \/ u \in v11'
    BY <1>1, <1>5, <2>1 DEF Names!Inductive, Names!StoreSound
  <2>2. \A u \in Torrents : Names!Stored(v2'[u]) => \A e \in Names!Surviving(v6'[u]) : Names!Stored(e)
    BY <1>1 DEF Names!Inductive, Names!StoreSound
  <2>3. Names!Stored(v2'[t]) /\ Names!Visible(v2', t)
    BY <1>1, <1>2, <1>9
  <2> QED
    BY <2>1, <2>2, <2>3 DEF Names!StoreSound
<1>11. Names!PairsIntact'
  <2>1. ASSUME NEW u \in DOMAIN V \ v12, Single[u], v4'[u] # {}
        PROVE  /\ Names!RootName(u, V, v3) = Name[u]
               /\ Default[u] \in v4'[u] => Default[u] \notin Names!OtherNames(u, V[u], V, v3)
    <3>1. CASE u = t
      BY <1>2, <2>1, <3>1
    <3>2. CASE u # t
      <4>1. u \in Torrents
        BY ViewsFacts
      <4> QED
        BY <1>5, <2>1, <3>2, <4>1 DEF Names!Inductive, Names!PairsIntact
    <3> QED
      BY <3>1, <3>2
  <2> QED
    BY <1>1, <2>1 DEF Names!PairsIntact
<1>12. Names!IndexMatchesStore'
  BY <1>1, <1>2, <1>4, <1>5 DEF Names!Inductive, Names!IndexMatchesStore, t
<1>13. Names!UploadSound'
  BY <1>1 DEF Names!UploadSound
<1> QED
  BY <1>6, <1>7, <1>8, <1>10, <1>11, <1>12, <1>13 DEF Names!Inductive

-----------------------------------------------------------------------------
(* Nothing happens. *)
LEMMA NamesStutter ==
    ASSUME Names!Inductive, UNCHANGED Names!vars
    PROVE  Names!Inductive'
<1> USE DEF Names!vars
<1>1. Names!TypeOK' /\ Names!RecordsOK'
  BY DEF Names!Inductive, Names!TypeOK, Names!RecordsOK
<1>2. Names!DownSound' /\ Names!ReferencesKnown'
  BY DEF Names!Inductive, Names!DownSound, Names!ReferencesKnown
<1>3. Names!StoreSound' /\ Names!UploadSound'
  BY DEF Names!Inductive, Names!StoreSound, Names!UploadSound
<1>4. Names!PairsIntact' /\ Names!CategoriesOutliveReferences' /\ Names!IndexMatchesStore'
  BY DEF Names!Inductive, Names!PairsIntact, Names!CategoriesOutliveReferences,
     Names!IndexMatchesStore
<1> QED
  BY <1>1, <1>2, <1>3, <1>4 DEF Names!Inductive

(* A crash: what is left of each file is one thing that would survive. *)
LEMMA NamesCrash ==
    ASSUME Names!Inductive, Names!Crash
    PROVE  Names!Inductive'
<1>1. /\ v1 /\ v14 < MaxCrashes /\ v14' = v14 + 1 /\ v1' = FALSE /\ v5' = None
      /\ v2' = [t \in Torrents |-> None] /\ v3' = {} /\ v4' = [t \in Torrents |-> {}]
      /\ v12' = {} /\ v7' \in Names!AfterPowerFailure(v7)
      /\ UNCHANGED <<v8, v9, v10, v11, v13>>
  BY DEF Names!Crash
<1>2. PICK f \in [Torrents -> UNION {Names!AfterPowerFailure(v6[t]) : t \in Torrents}] :
        /\ \A t \in Torrents : f[t] \in Names!AfterPowerFailure(v6[t])
        /\ v6' = f
  BY DEF Names!Crash
<1>3. DOMAIN v6' = Torrents
  BY <1>2
<1>4. ASSUME NEW t \in Torrents
      PROVE  v6'[t].now \in Names!Surviving(v6[t]) /\ v6'[t].older = {}
  BY <1>2, SurvivingFacts
<1>5. v7'.now \in Names!Surviving(v7) /\ v7'.older = {}
  BY <1>1, SurvivingFacts
<1>6. ASSUME NEW t \in Torrents PROVE Names!Surviving(v6'[t]) = {v6'[t].now}
  BY <1>4 DEF Names!Surviving
<1>7. Names!Surviving(v7') = {v7'.now}
  BY <1>5 DEF Names!Surviving
<1>8. \A t \in Torrents : v2'[t] = None /\ v4'[t] = {}
  BY <1>1
<1>9. Names!TypeOK'
  <2>1. v14' \in 0 .. MaxCrashes
    BY <1>1, NamesAssumption, SMTT(30) DEF Names!Inductive, Names!TypeOK
  <2>2. \A t \in Torrents : v4'[t] \subseteq Sidecars[t] /\ v10'[t] \subseteq Sidecars[t]
    BY <1>1, <1>8 DEF Names!Inductive, Names!TypeOK
  <2>3. v1' \in BOOLEAN /\ v3' \subseteq CategoryNames /\ v5' = None
    BY <1>1
  <2>4. /\ v8' \subseteq Torrents /\ v9' \subseteq Torrents /\ v11' \subseteq Torrents
        /\ v13' \in 0 .. MaxFaults
    BY <1>1 DEF Names!Inductive, Names!TypeOK
  <2> QED
    BY <1>8, <2>1, <2>2, <2>3, <2>4 DEF Names!TypeOK
<1>10. Names!RecordsOK'
  <2>1. ASSUME NEW t \in Torrents PROVE Names!Surviving(v6'[t]) \subseteq Names!Records \cup {None}
    <3>1. Names!Surviving(v6[t]) \subseteq Names!Records \cup {None}
      BY DEF Names!Inductive, Names!RecordsOK, Names!Records
    <3> QED
      BY <1>4, <1>6, <3>1
  <2>2. \A C \in Names!Surviving(v7') : C \subseteq CategoryNames
    BY <1>5, <1>7 DEF Names!Inductive, Names!RecordsOK
  <2>3. v2' \in [Torrents -> Names!Records \cup {None}] /\ DOMAIN v4' = Torrents
    BY <1>1
  <2>4. DOMAIN v10' = Torrents
    BY <1>1 DEF Names!Inductive, Names!RecordsOK
  <2> QED
    BY <1>1, <1>3, <2>1, <2>2, <2>3, <2>4 DEF Names!RecordsOK, Names!Records
<1>11. Names!DownSound'
  <2>1. ASSUME NEW t \in Torrents PROVE v10'[t] = {} \/ Names!Stored(v6'[t].now)
    BY <1>1, <1>4 DEF Names!Inductive, Names!StoreSound
  <2> QED
    BY <1>1, <1>4, <1>5, <1>8, <2>1 DEF Names!DownSound
<1>12. Names!ReferencesKnown' /\ Names!StoreSound' /\ Names!UploadSound' /\ Names!IndexMatchesStore'
  BY <1>1 DEF Names!ReferencesKnown, Names!StoreSound, Names!UploadSound,
     Names!IndexMatchesStore
<1>13. Names!PairsIntact'
  <2>1. DOMAIN Names!Views(v2') = {}
    BY <1>8 DEF Names!Views, Names!Visible
  <2> QED
    BY <2>1 DEF Names!PairsIntact
<1>14. Names!CategoriesOutliveReferences'
  <2>1. ASSUME NEW t \in Torrents, v6'[t].now # None
        PROVE  v6'[t].now.category \in v7'.now \cup {Names!Root}
    <3>1. v6'[t].now.category \in v3 \cup {Names!Root}
      BY <1>1, <1>4, <2>1 DEF Names!Inductive, Names!ReferencesKnown
    <3>2. v3 \subseteq v7'.now
      BY <1>1, <1>5 DEF Names!Inductive, Names!ReferencesKnown
    <3> QED
      BY <3>1, <3>2
  <2>2. ASSUME NEW t \in Torrents, NEW e \in Names!AfterPowerFailure(v6'[t]) PROVE e.now = v6'[t].now
    BY <1>6, SurvivingFacts
  <2>3. ASSUME NEW c \in Names!AfterPowerFailure(v7') PROVE c.now = v7'.now
    BY <1>7, SurvivingFacts
  <2> QED
    BY <2>1, <2>2, <2>3 DEF Names!CategoriesOutliveReferences
<1> QED
  BY <1>9, <1>10, <1>11, <1>12, <1>13, <1>14 DEF Names!Inductive

(* What a start restores. *)
LEMMA RestoredFacts ==
    ASSUME Names!Inductive, ~v1, NEW t \in Torrents
    PROVE  /\ Names!Restored(Names!Entries)[t] \in Names!Records \cup {None}
           /\ Names!Restored(Names!Entries)[t] = None <=> v6[t].now = None
           /\ v6[t].now # None => Names!Restored(Names!Entries)[t].category = v6[t].now.category
           /\ Names!Stored(v6[t].now) => Names!Restored(Names!Entries)[t] = v6[t].now
<1> DEFINE e == v6[t].now
<1>1. e \in Names!Records \cup {None}
  BY DEF Names!Inductive, Names!RecordsOK, Names!Records, Names!Surviving
<1>2. Names!Entries[t] = e
  BY DEF Names!Entries
<1>3. Names!Restored(Names!Entries)[t] = IF e # None /\ e.state = "adding" /\ t \in v8
                            THEN [e EXCEPT !.state = "ready"] ELSE e
  BY <1>2 DEF Names!Restored
<1>4. None \notin Names!Records
  BY NamesAssumption DEF Names!Records
<1> HIDE DEF e
<1>5. CASE e # None /\ e.state = "adding" /\ t \in v8
  <2>1. [e EXCEPT !.state = "ready"] \in Names!Records /\ [e EXCEPT !.state = "ready"].category = e.category
    BY <1>1, <1>5 DEF Names!Records
  <2>2. ~Names!Stored(e)
    BY <1>5 DEF Names!Stored
  <2> QED
    BY <1>3, <1>4, <1>5, <2>1, <2>2 DEF e
<1>6. CASE ~(e # None /\ e.state = "adding" /\ t \in v8)
  BY <1>1, <1>3, <1>6 DEF e
<1> QED
  BY <1>5, <1>6

(* A start: what the files say becomes the state, and what they do not say   *)
(* was never there.                                                          *)
LEMMA NamesStart ==
    ASSUME Names!Inductive, Names!Start
    PROVE  Names!Inductive'
<1>1. ~v1 /\ UNCHANGED <<v5, v7, v8, v10, v12, v13, v14>>
  BY DEF Names!Start
<1>2. CASE ~Names!Accepted
  <2>1. UNCHANGED Names!vars
    BY <1>1, <1>2 DEF Names!Start, Names!vars
  <2> QED
    BY <2>1, NamesStutter
<1>3. CASE Names!Accepted
  <2> DEFINE s == Names!Restored(Names!Entries)
             C == v7.now
  <2>1. /\ v1' = TRUE /\ v2' = s /\ v3' = C /\ v4' = Names!Kept(s)
        /\ v6' = [t \in Torrents |-> IF s[t] # Names!Entries[t] THEN Names!FileOf(s[t]) ELSE v6[t]]
        /\ v9' = {t \in v9 : ~Names!Visible(s, t)} /\ v11' = Names!Swept(s)
    BY <1>1, <1>3 DEF Names!Start, Names!LoadedCategories
  <2>2. /\ v5 = None /\ v12 = {} /\ v7.older = {}
        /\ \A t \in Torrents : v6[t].older = {} /\ (v10[t] = {} \/ Names!Stored(v6[t].now))
    BY <1>1 DEF Names!Inductive, Names!DownSound
  <2>3. ASSUME NEW t \in Torrents
        PROVE  /\ s[t] \in Names!Records \cup {None} /\ (s[t] = None <=> v6[t].now = None)
               /\ v6[t].now # None => s[t].category = v6[t].now.category
               /\ Names!Stored(v6[t].now) => s[t] = v6[t].now
    BY <1>1, <2>3, RestoredFacts
  <2>4. DOMAIN s = Torrents
    BY DEF Names!Restored
  <2>5. C \subseteq CategoryNames /\ Names!Surviving(v7) = {C}
    BY <2>2 DEF Names!Inductive, Names!RecordsOK, Names!Surviving
  <2>6. ASSUME NEW t \in Torrents PROVE Names!Surviving(v6'[t]) = {s[t]}
    <3>1. CASE s[t] # Names!Entries[t]
      BY <2>1, <3>1 DEF Names!FileOf, Names!Surviving
    <3>2. CASE s[t] = Names!Entries[t]
      BY <2>1, <2>2, <3>2 DEF Names!Entries, Names!Surviving
    <3> QED
      BY <3>1, <3>2
  <2>7. ASSUME NEW t \in Torrents, s[t] # None PROVE s[t].category \in C \cup {Names!Root}
    <3>1. Names!Entries[t] # None /\ Names!Entries[t] = v6[t].now
      BY <2>3, <2>7 DEF Names!Entries
    <3>2. Names!Entries[t].category \in C \cup {Names!Root}
      BY <1>3, <3>1 DEF Names!Accepted, Names!RegistryAccepted, Names!LoadedCategories
    <3> QED
      BY <2>3, <3>1, <3>2
  <2>8. ASSUME NEW t \in Torrents PROVE Names!Kept(s)[t] = IF Names!Visible(s, t) THEN v10[t] ELSE {}
    BY DEF Names!Kept
  <2>9. DOMAIN Names!Kept(s) = Torrents
    BY DEF Names!Kept
  <2>10. Names!SubtitlesAccepted(s, C)
    BY <1>3 DEF Names!Accepted, Names!LoadedCategories
  <2> HIDE DEF s, C
  <2>11. Names!TypeOK'
    <3>1. ASSUME NEW t \in Torrents
          PROVE  (s[t] # None => s[t] \in Names!Records) /\ Names!Kept(s)[t] \subseteq Sidecars[t] /\ v10[t] \subseteq Sidecars[t]
      BY <2>3, <2>8 DEF Names!Inductive, Names!TypeOK
    <3>2. v9' \subseteq Torrents /\ v11' \subseteq Torrents
      BY <2>1 DEF Names!Inductive, Names!TypeOK, Names!Swept
    <3> QED
      BY <1>1, <2>1, <2>2, <2>5, <3>1, <3>2 DEF Names!Inductive, Names!TypeOK, Names!Records
  <2>12. Names!RecordsOK'
    <3>1. v2' \in [Torrents -> Names!Records \cup {None}]
      <4>1. s = [t \in Torrents |-> s[t]]
        BY DEF s, Names!Restored
      <4> QED
        BY <2>1, <2>3, <4>1
    <3>2. DOMAIN v6' = Torrents /\ DOMAIN v4' = Torrents
      BY <2>1, <2>9
    <3>3. DOMAIN v10' = Torrents
      BY <1>1 DEF Names!Inductive, Names!RecordsOK
    <3>4. \A t \in Torrents : Names!Surviving(v6'[t]) \subseteq Names!Records \cup {None}
      BY <2>3, <2>6
    <3>5. \A D \in Names!Surviving(v7') : D \subseteq CategoryNames
      BY <1>1, <2>5
    <3> QED
      BY <1>1, <2>2, <3>1, <3>2, <3>3, <3>4, <3>5 DEF Names!RecordsOK, Names!Records
  <2>13. Names!DownSound' /\ Names!UploadSound'
    BY <1>1, <2>1, <2>2 DEF Names!DownSound, Names!UploadSound
  <2>14. Names!ReferencesKnown'
    <3>1. v2' = s /\ v3' = C
      BY <2>1
    <3>2. Names!Surviving(v7') = {C}
      BY <1>1, <2>5
    <3>3. ASSUME NEW t \in Torrents, NEW e \in Names!Surviving(v6'[t]) \cup {s[t]}, e # None
          PROVE  e.category \in C \cup {Names!Root}
      <4>1. e = s[t]
        BY <2>6, <3>3
      <4> QED
        BY <2>7, <3>3, <4>1
    <3>4. \A t \in Torrents : \A e \in Names!Surviving(v6'[t]) \cup {v2'[t]} :
            e # None => e.category \in v3' \cup {Names!Root}
      BY <3>1, <3>3
    <3>5. \A D \in Names!Surviving(v7') : v3' \subseteq D
      BY <3>1, <3>2
    <3> QED
      BY <3>4, <3>5 DEF Names!ReferencesKnown
  <2>15. Names!CategoriesOutliveReferences'
    BY <2>1, <2>14, ReferencesOutlived
  <2>16. Names!StoreSound'
    <3>1. ASSUME NEW t \in Torrents, ~Names!Stored(s[t]) PROVE v10[t] = {} /\ Names!Kept(s)[t] = {}
      <4>1. v10[t] = {}
        BY <2>2, <2>3, <3>1
      <4> QED
        BY <2>8, <4>1
    <3>2. ASSUME NEW t \in Torrents, ~Names!Visible(s, t) PROVE Names!Kept(s)[t] = {}
      BY <2>8, <3>2
    <3> QED
      BY <1>1, <2>1, <2>6, <3>1, <3>2 DEF Names!StoreSound
  <2>17. Names!PairsIntact'
    <3>1. ASSUME NEW t \in DOMAIN Names!Views(s), Single[t], Names!Kept(s)[t] # {}
          PROVE  /\ Names!RootName(t, Names!Views(s), C) = Name[t]
                 /\ Default[t] \notin Names!OtherNames(t, Names!Views(s)[t], Names!Views(s), C)
      <4>1. t \in Torrents
        BY ViewsFacts
      <4> QED
        BY <2>10, <3>1, <4>1 DEF Names!SubtitlesAccepted, Names!Uploadable
    <3> QED
      BY <2>1, <3>1 DEF Names!PairsIntact
  <2>18. Names!IndexMatchesStore'
    BY <1>1, <2>1, <2>8 DEF Names!IndexMatchesStore
  <2> QED
    BY <2>11, <2>12, <2>13, <2>14, <2>15, <2>16, <2>17, <2>18 DEF Names!Inductive
<1> QED
  BY <1>2, <1>3

(* A session over an empty data directory. *)
LEMMA NamesInit ==
    ASSUME Names!Init
    PROVE  Names!Inductive
<1>1. /\ v1 = TRUE /\ v2 = [t \in Torrents |-> None] /\ v3 = {} /\ v4 = [t \in Torrents |-> {}]
      /\ v5 = None /\ v6 = [t \in Torrents |-> Names!FileOf(None)] /\ v7 = Names!FileOf({})
      /\ v8 = {} /\ v9 = {} /\ v10 = [t \in Torrents |-> {}] /\ v11 = {} /\ v12 = {}
      /\ v13 = 0 /\ v14 = 0
  BY DEF Names!Init
<1>2. \A t \in Torrents : /\ v2[t] = None /\ v4[t] = {} /\ v10[t] = {}
                         /\ Names!Surviving(v6[t]) = {None} /\ Names!AfterPowerFailure(v6[t]) = {Names!FileOf(None)}
  BY <1>1 DEF Names!Surviving, Names!FileOf, Names!AfterPowerFailure
<1>3. Names!Surviving(v7) = {{}}
  BY <1>1 DEF Names!Surviving, Names!FileOf
<1>4. Names!TypeOK
  <2>1. v13 \in 0 .. MaxFaults /\ v14 \in 0 .. MaxCrashes
    BY <1>1, NamesAssumption, SMTT(30)
  <2> QED
    BY <1>1, <1>2, <2>1 DEF Names!TypeOK
<1>5. Names!RecordsOK
  BY <1>1, <1>2, <1>3 DEF Names!RecordsOK
<1>6. Names!DownSound /\ Names!UploadSound /\ Names!IndexMatchesStore
  BY <1>1, <1>2 DEF Names!DownSound, Names!UploadSound, Names!IndexMatchesStore
<1>7. Names!ReferencesKnown
  BY <1>1, <1>2, <1>3 DEF Names!ReferencesKnown
<1>8. Names!StoreSound
  BY <1>2 DEF Names!StoreSound, Names!Stored
<1>9. Names!PairsIntact
  <2>1. DOMAIN Names!Views(v2) = {}
    BY <1>2 DEF Names!Views, Names!Visible
  <2> QED
    BY <2>1 DEF Names!PairsIntact
<1>10. Names!CategoriesOutliveReferences
  <2>1. Names!FileOf(None).now = None
    BY DEF Names!FileOf
  <2> QED
    BY <1>2, <2>1 DEF Names!CategoriesOutliveReferences
<1> QED
  BY <1>4, <1>5, <1>6, <1>7, <1>8, <1>9, <1>10 DEF Names!Inductive

(* Every step of the session. *)
LEMMA NamesNext ==
    ASSUME Names!Inductive, Names!Next
    PROVE  Names!Inductive'
<1>1. ASSUME NEW o \in Names!Outcomes, NEW c \in CategoryNames, Names!CreateCategory(c, o) PROVE Names!Inductive'
  BY <1>1, NamesCreateCategory
<1>2. ASSUME NEW o \in Names!Outcomes, NEW t \in Torrents, Names!AddTorrent(t, o) PROVE Names!Inductive'
  <2>1. v8' \subseteq Torrents /\ v9' \subseteq Torrents
    BY <1>2 DEF Names!AddTorrent, Names!Inductive, Names!TypeOK
  <2> QED
    BY <1>2, <2>1, NamesPublished DEF Names!AddTorrent
<1>3. ASSUME NEW o \in Names!Outcomes, NEW t \in Torrents, Names!AddMagnet(t, o) PROVE Names!Inductive'
  BY <1>3, NamesAddMagnet
<1>4. ASSUME NEW o \in Names!Outcomes, NEW t \in Torrents, Names!Resolve(t, o) PROVE Names!Inductive'
  <2>1. v8' \subseteq Torrents /\ v9' \subseteq Torrents
    BY <1>4 DEF Names!Resolve, Names!Inductive, Names!TypeOK
  <2> QED
    BY <1>4, <2>1, NamesPublished DEF Names!Resolve
<1>5. ASSUME NEW o \in Names!Outcomes, NEW t \in Torrents, Names!DeleteByHash(t, o) PROVE Names!Inductive'
  BY <1>5, NamesDelete
<1>6. ASSUME NEW o \in Names!Outcomes, NEW t \in Torrents, NEW c \in CategoryNames \cup {Names!Root}, Names!SetTorrentCategory(t, c, o)
      PROVE  Names!Inductive'
  BY <1>6, NamesSetCategory
<1>7. ASSUME NEW o \in Names!Outcomes, NEW t \in Torrents, NEW left \in SUBSET v10[t], Names!PerformDelete(t, left, o)
      PROVE  Names!Inductive'
  BY <1>7, NamesPerformDelete
<1>8. ASSUME NEW o \in Names!Outcomes, Names!UploadCommit(o) PROVE Names!Inductive'
  BY <1>8, NamesUploadCommit
<1>9. ASSUME NEW t \in Torrents, NEW p \in Sidecars[t], Names!UploadSubtitle(t, p) PROVE Names!Inductive'
  BY <1>9, NamesUploadSubtitle
<1>10. ASSUME NEW left \in BOOLEAN, Names!UploadFailed(left) PROVE Names!Inductive'
  BY <1>10, NamesUploadFailed
<1>11. CASE Names!UploadRename
  BY <1>11, NamesUploadRename
<1>12. CASE Names!Crash
  BY <1>12, NamesCrash
<1>13. CASE Names!Start
  BY <1>13, NamesStart
<1> QED
  BY <1>1, <1>2, <1>3, <1>4, <1>5, <1>6, <1>7, <1>8, <1>9, <1>10, <1>11, <1>12,
     <1>13 DEF Names!Next

-----------------------------------------------------------------------------
(* The schedule of the upload limit *)


(* Remainders: adding before or after taking one is the same. *)
LEMMA RemainderOfSum ==
    ASSUME NEW x \in Int, NEW y \in Int, NEW n \in Nat, n > 0
    PROVE  ((x % n) + y) % n = (x + y) % n
<1> DEFINE q == x \div n
           a == x % n
           b == (a + y) \div n
           c == (a + y) % n
           d == (x + y) \div n
           e == (x + y) % n
<1>1. q \in Int /\ a \in 0 .. n - 1 /\ x = n * q + a
  BY SMTT(30)
<1>2. b \in Int /\ c \in 0 .. n - 1 /\ a + y = n * b + c
  BY <1>1, SMTT(30)
<1>3. d \in Int /\ e \in 0 .. n - 1 /\ x + y = n * d + e
  BY SMTT(30)
<1> HIDE DEF q, a, b, c, d, e
<1> DEFINE k == q + b - d
<1>4. k \in Int /\ n * k = e - c
  BY <1>1, <1>2, <1>3, SMTT(30)
<1> HIDE DEF k
<1>5. k = 0
  <2>1. CASE k >= 1
    <3>1. n * k >= n
      BY <1>4, <2>1, SMTT(30)
    <3> QED
      BY <1>2, <1>3, <1>4, <3>1, SMTT(30)
  <2>2. CASE k <= -1
    <3>1. n * k <= -n
      BY <1>4, <2>2, SMTT(30)
    <3> QED
      BY <1>2, <1>3, <1>4, <3>1, SMTT(30)
  <2> QED
    BY <1>4, <2>1, <2>2, SMTT(30)
<1> QED
  <2>1. e = c
    BY <1>2, <1>3, <1>4, <1>5, SMTT(30)
  <2> QED
    BY <2>1 DEF a, c, e

(* What the component counts is what the theorems on finite sets count. *)
LEMMA RateCounts == \A S : Rate!Cardinality(S) = Cardinality(S)
BY DEF Rate!Cardinality, Cardinality, Rate!IsFiniteSet, IsFiniteSet

(* The ticks of a period are numbered from 0. *)
LEMMA TicksNumbered ==
    /\ Rate!Cardinality(Rate!Ticks) \in Nat /\ Rate!Cardinality(Rate!Ticks) > 0
    /\ Rate!Ticks = 0 .. Rate!Cardinality(Rate!Ticks) - 1
<1>1. Rate!Cardinality(Rate!Ticks) = Cardinality(Rate!Ticks)
  BY RateCounts
<1>2. Cardinality(Rate!Ticks) \in Nat /\ Cardinality(Rate!Ticks) > 0
  BY ClockAssumption, SMTT(30)
<1> QED
  BY <1>1, <1>2, ClockAssumption

(* Ticks later than a tick, *)
LEMMA TicksLater ==
    ASSUME NEW t \in Rate!Ticks
    PROVE  /\ t \in Int /\ Rate!After(t, 0) = t
           /\ \A d \in Int : Rate!After(t, d) \in Rate!Ticks
           /\ \A d \in Int, e \in Int : Rate!After(Rate!After(t, d), e) = Rate!After(t, d + e)
           /\ \A d \in Int : Rate!After(Rate!After(t, Rate!Cardinality(Rate!Ticks) - d), d) = t
<1> DEFINE n == Rate!Cardinality(Rate!Ticks)
<1>1. n \in Nat /\ n > 0 /\ Rate!Ticks = 0 .. n - 1
  BY TicksNumbered
<1> HIDE DEF n
<1>2. t \in Int /\ 0 <= t /\ t < n
  BY <1>1, SMTT(30)
<1>3. t % n = t /\ (t + 0) % n = t
  BY <1>1, <1>2, SMTT(30)
<1>4. ASSUME NEW d \in Int PROVE (t + d) % n \in 0 .. n - 1
  BY <1>1, <1>2, SMTT(30)
<1>5. ASSUME NEW d \in Int, NEW e \in Int PROVE (((t + d) % n) + e) % n = (t + (d + e)) % n
  <2>1. t + d \in Int /\ (t + d) + e = t + (d + e)
    BY <1>2, SMTT(30)
  <2> QED
    BY <1>1, <2>1, RemainderOfSum
<1>6. (t + n) % n = t
  <2>1. ((n % n) + t) % n = (n + t) % n /\ n + t = t + n /\ n % n = 0 /\ 0 + t = t
    <3>1. n % n = 0
      BY <1>1, SMTT(30)
    <3>2. n + t = t + n /\ 0 + t = t /\ n \in Int
      BY <1>1, <1>2, SMTT(30)
    <3> QED
      BY <1>1, <1>2, <3>1, <3>2, RemainderOfSum
  <2> QED
    BY <1>3, <2>1
<1>7. ASSUME NEW d \in Int PROVE (((t + (n - d)) % n) + d) % n = t
  <2>1. n - d \in Int /\ (n - d) + d = n
    BY <1>1, SMTT(30)
  <2> QED
    BY <1>5, <1>6, <2>1
<1> QED
  BY <1>1, <1>2, <1>3, <1>4, <1>5, <1>7 DEF Rate!After, n

-----------------------------------------------------------------------------
(* A set of natural numbers that is not empty has a least element. *)
LEMMA LeastFacts ==
    ASSUME Counting, NEW S \in SUBSET Nat, S # {}
    PROVE  Rate!Min(S) \in S /\ \A y \in S : Rate!Min(S) <= y
<1>1. PICK x \in S : \A y \in S : x <= y
  BY DEF Counting, LeastNumber
<1> QED
  BY <1>1 DEF Rate!Min

(* d ticks after t the limit is not what it is at t. *)
Differs(p, t, d) == Rate!LimitedAt(p, Rate!After(t, d)) # Rate!LimitedAt(p, t)

(* Within a minute the limit changes only if it has changed by its end. *)
LEMMA ChangesOnce ==
    ASSUME NEW p, NEW t \in Rate!Ticks, NEW k \in Nat, NEW d \in k .. k + MinuteTicks,
           Differs(p, t, d), ~Differs(p, t, k)
    PROVE  Differs(p, t, k + MinuteTicks)
<1>1. /\ k \in Int /\ d - k \in Int /\ k + (d - k) = d /\ d - k \in 0 .. MinuteTicks
      /\ MinuteTicks \in Int /\ k + MinuteTicks \in Int
  BY RateAssumption, SMTT(30)
<1>2. Rate!After(t, k) \in Rate!Ticks
  BY <1>1, TicksLater
<1>3. /\ Rate!After(Rate!After(t, k), d - k) = Rate!After(t, d)
      /\ Rate!After(Rate!After(t, k), MinuteTicks) = Rate!After(t, k + MinuteTicks)
  <2>1. \A i \in Int, j \in Int : Rate!After(Rate!After(t, i), j) = Rate!After(t, i + j)
    BY TicksLater
  <2>2. Rate!After(Rate!After(t, k), d - k) = Rate!After(t, k + (d - k))
    BY <1>1, <2>1
  <2>3. Rate!After(Rate!After(t, k), MinuteTicks) = Rate!After(t, k + MinuteTicks)
    BY <1>1, <2>1
  <2> QED
    BY <1>1, <2>2, <2>3
<1>4. Wall[Rate!After(t, d)] \in {Wall[Rate!After(t, k)], Wall[Rate!After(t, k + MinuteTicks)]}
  BY <1>1, <1>2, <1>3, RateAssumption
<1>5. Rate!LimitedAt(p, Rate!After(t, d)) = Rate!LimitedAt(p, Rate!After(t, k))
      \/ Rate!LimitedAt(p, Rate!After(t, d)) = Rate!LimitedAt(p, Rate!After(t, k + MinuteTicks))
  BY <1>4 DEF Rate!LimitedAt
<1> QED
  BY <1>5 DEF Differs

(* Every instant that is looked at lies in a minute between two probes. *)
LEMMA ProbesCover ==
    ASSUME Counting, NEW d \in 1 .. Lookahead
    PROVE  \E k \in 1 .. Lookahead \div MinuteTicks :
              (k - 1) * MinuteTicks < d /\ d <= k * MinuteTicks
<1> DEFINE K == Lookahead \div MinuteTicks
           S == {k \in Nat : d <= k * MinuteTicks}
<1>1. K \in Nat /\ K * MinuteTicks = Lookahead
  BY RateAssumption, SMTT(30)
<1> HIDE DEF K
<1>2. d <= K * MinuteTicks /\ d >= 1 /\ d \in Nat
  BY <1>1, RateAssumption, SMTT(30)
<1>3. S \in SUBSET Nat /\ S # {}
  BY <1>1, <1>2
<1>4. PICK k \in S : \A y \in S : k <= y
  <2>1. Rate!Min(S) \in S /\ \A y \in S : Rate!Min(S) <= y
    BY <1>3, LeastFacts
  <2> QED
    BY <2>1
<1>5. k \in Nat /\ d <= k * MinuteTicks /\ k <= K
  BY <1>1, <1>2, <1>4
<1>6. k >= 1
  <2>1. k # 0
    BY <1>2, <1>5, RateAssumption, SMTT(30)
  <2> QED
    BY <1>5, <2>1, SMTT(30)
<1>7. k - 1 \in Nat /\ ~(k <= k - 1)
  BY <1>5, <1>6, SMTT(30)
<1>8. k - 1 \notin S
  BY <1>4, <1>7
<1>9. ~(d <= (k - 1) * MinuteTicks)
  BY <1>7, <1>8
<1>10. (k - 1) * MinuteTicks < d /\ k \in 1 .. K
  BY <1>1, <1>2, <1>5, <1>6, <1>7, <1>9, RateAssumption, SMTT(30)
<1> QED
  BY <1>5, <1>10 DEF K

(* The instants at which nextTransition compares the limit, and all at which *)
(* the limit differs.                                                        *)
Flips(p, t) == {d \in {k * MinuteTicks : k \in 1 .. Lookahead \div MinuteTicks} : Differs(p, t, d)}
Changes(p, t) == {d \in 1 .. Lookahead : Differs(p, t, d)}

(* A change by d shows at the first probe that is not before d. *)
LEMMA ChangeIsProbed ==
    ASSUME Counting, NEW p, NEW t \in Rate!Ticks, NEW d \in Changes(p, t)
    PROVE  \E f \in Flips(p, t) : f < d + MinuteTicks
<1>1. d \in 1 .. Lookahead /\ Differs(p, t, d)
  BY DEF Changes
<1>2. PICK k \in 1 .. Lookahead \div MinuteTicks :
         (k - 1) * MinuteTicks < d /\ d <= k * MinuteTicks
  BY <1>1, ProbesCover
<1> DEFINE g == (k - 1) * MinuteTicks
<1>3. /\ k \in Nat /\ g \in Nat /\ g + MinuteTicks = k * MinuteTicks
      /\ d \in g .. g + MinuteTicks
  BY <1>1, <1>2, RateAssumption, SMTT(30)
<1>4. CASE Differs(p, t, g)
  <2>1. g # 0
    <3>1. ~Differs(p, t, 0)
      BY TicksLater DEF Differs
    <3> QED
      BY <1>4, <3>1
  <2>2. k - 1 \in 1 .. Lookahead \div MinuteTicks
    <3>1. k # 1
      BY <2>1, RateAssumption, SMTT(30)
    <3>2. ASSUME NEW K \in Int, k \in 1 .. K PROVE k - 1 \in 1 .. K
      BY <1>3, <3>1, <3>2, SMTT(30)
    <3>3. Lookahead \div MinuteTicks \in Int
      BY RateAssumption, SMTT(30)
    <3> QED
      BY <1>2, <3>2, <3>3
  <2>3. g \in Flips(p, t)
    BY <1>4, <2>2 DEF Flips
  <2>4. g < d + MinuteTicks
    BY <1>1, <1>2, <1>3, RateAssumption, SMTT(30)
  <2> QED
    BY <2>3, <2>4
<1>5. CASE ~Differs(p, t, g)
  <2>1. Differs(p, t, g + MinuteTicks)
    BY <1>1, <1>3, <1>5, ChangesOnce
  <2>2. k * MinuteTicks \in Flips(p, t)
    BY <1>3, <2>1 DEF Flips
  <2>3. k * MinuteTicks < d + MinuteTicks
    BY <1>1, <1>2, <1>3, RateAssumption, SMTT(30)
  <2> QED
    BY <2>2, <2>3
<1> QED
  BY <1>4, <1>5

(* nextTransition finds the first change. *)
LEMMA FirstChangeFound ==
    ASSUME Counting, NEW p, p.scheduled, NEW t \in Rate!Ticks
    PROVE  Rate!NextTransition(p, t) = IF Changes(p, t) = {} THEN Lookahead ELSE Rate!Min(Changes(p, t))
<1> DEFINE F == Flips(p, t)
           C == Changes(p, t)
           W(f) == {d \in f - MinuteTicks + 1 .. f : Differs(p, t, d)}
<1>1. Rate!NextTransition(p, t) = IF F = {} THEN Lookahead ELSE Rate!Min(W(Rate!Min(F)))
  BY DEF Rate!NextTransition, Flips, Differs
<1>2. C \in SUBSET Nat /\ C \subseteq 1 .. Lookahead
  <2>1. 1 .. Lookahead \subseteq Nat
    BY RateAssumption, SMTT(30)
  <2> QED
    BY <2>1 DEF Changes
<1>3. ASSUME NEW f \in F PROVE f \in C /\ f >= MinuteTicks
  <2>1. PICK k \in 1 .. Lookahead \div MinuteTicks : f = k * MinuteTicks /\ Differs(p, t, f)
    BY <1>3 DEF Flips
  <2> DEFINE K == Lookahead \div MinuteTicks
  <2>2. K \in Int /\ K * MinuteTicks = Lookahead
    BY RateAssumption, SMTT(30)
  <2>3. k \in 1 .. K
    BY <2>1
  <2> HIDE DEF K
  <2>4. k \in Nat /\ k >= 1 /\ K - k \in Nat
    BY <2>2, <2>3, SMTT(30)
  <2>5. (K - k) * MinuteTicks >= 0 /\ (k - 1) * MinuteTicks >= 0
    BY <2>4, RateAssumption, SMTT(30)
  <2>6. k * MinuteTicks <= K * MinuteTicks /\ k * MinuteTicks >= MinuteTicks /\ k * MinuteTicks \in Int
    BY <2>2, <2>4, <2>5, RateAssumption, SMTT(30)
  <2>7. f \in 1 .. Lookahead /\ f >= MinuteTicks
    BY <2>1, <2>2, <2>6, RateAssumption, SMTT(30)
  <2> QED
    BY <2>1, <2>7 DEF Changes
<1>4. CASE F = {}
  <2>1. C = {}
    BY <1>4, ChangeIsProbed
  <2> QED
    BY <1>1, <1>4, <2>1
<1>5. CASE F # {}
  <2>1. F \in SUBSET Nat
    BY <1>2, <1>3
  <2>2. PICK f \in F : f = Rate!Min(F) /\ \A g \in F : f <= g
    BY <1>5, <2>1, LeastFacts
  <2>3. f \in C /\ f >= MinuteTicks /\ f \in Nat
    BY <1>2, <1>3
  <2>4. PICK c \in C : c = Rate!Min(C) /\ \A d \in C : c <= d
    BY <1>2, <2>3, LeastFacts
  <2>5. c <= f /\ c \in Nat
    BY <1>2, <2>3, <2>4
  <2>6. f < c + MinuteTicks
    <3>1. PICK g \in F : g < c + MinuteTicks
      BY <2>4, ChangeIsProbed
    <3>2. f <= g /\ g \in Nat
      BY <2>1, <2>2
    <3> QED
      BY <2>3, <2>5, <3>1, <3>2, RateAssumption, SMTT(30)
  <2>7. c \in f - MinuteTicks + 1 .. f
    BY <2>3, <2>5, <2>6, RateAssumption, SMTT(30)
  <2>8. c \in W(f)
    BY <2>7 DEF Changes
  <2>9. f - MinuteTicks + 1 .. f \subseteq 1 .. Lookahead
    <3>1. f \in 1 .. Lookahead
      BY <1>2, <2>3
    <3> QED
      BY <2>3, <3>1, RateAssumption, SMTT(30)
  <2>10. W(f) \subseteq C
    BY <2>9 DEF Changes
  <2>11. PICK w \in W(f) : w = Rate!Min(W(f)) /\ \A d \in W(f) : w <= d
    <3>1. W(f) \in SUBSET Nat /\ W(f) # {}
      BY <1>2, <2>8, <2>10
    <3> HIDE DEF W
    <3> QED
      BY <3>1, LeastFacts
  <2>12. w <= c /\ c <= w /\ w \in Nat
    BY <1>2, <2>4, <2>8, <2>10, <2>11
  <2>13. w = c
    BY <2>5, <2>12, SMTT(30)
  <2> QED
    BY <1>1, <1>5, <2>2, <2>3, <2>4, <2>11, <2>13
<1> QED
  BY <1>4, <1>5

(* Before it, the limit is what it was. *)
LEMMA SameBefore ==
    ASSUME Counting, NEW p, p.scheduled, NEW t \in Rate!Ticks
    PROVE  /\ Rate!NextTransition(p, t) \in 1 .. Lookahead
           /\ \A d \in Nat : d < Rate!NextTransition(p, t) => ~Differs(p, t, d)
<1> DEFINE C == Changes(p, t)
<1>1. Rate!NextTransition(p, t) = IF C = {} THEN Lookahead ELSE Rate!Min(C)
  BY FirstChangeFound
<1>2. C \in SUBSET Nat /\ C \subseteq 1 .. Lookahead
  <2>1. 1 .. Lookahead \subseteq Nat
    BY RateAssumption, SMTT(30)
  <2> QED
    BY <2>1 DEF Changes
<1>3. C # {} => Rate!Min(C) \in C /\ \A d \in C : Rate!Min(C) <= d
  BY <1>2, LeastFacts
<1>4. Rate!NextTransition(p, t) \in 1 .. Lookahead
  <2>1. Lookahead \in 1 .. Lookahead
    BY RateAssumption, SMTT(30)
  <2> QED
    BY <1>1, <1>2, <1>3, <2>1
<1>5. ASSUME NEW d \in Nat, d < Rate!NextTransition(p, t) PROVE ~Differs(p, t, d)
  <2>1. CASE d = 0
    BY <2>1, TicksLater DEF Differs
  <2>2. CASE d # 0
    <3>1. d \in 1 .. Lookahead /\ ~(Rate!NextTransition(p, t) <= d)
      BY <1>4, <1>5, <2>2, RateAssumption, SMTT(30)
    <3>2. d \notin C
      <4>1. ASSUME d \in C PROVE FALSE
        <5>1. Rate!Min(C) <= d /\ Rate!NextTransition(p, t) = Rate!Min(C)
          BY <1>1, <1>3, <4>1
        <5> QED
          BY <3>1, <5>1
      <4> QED
        BY <4>1
    <3> QED
      BY <3>1, <3>2 DEF Changes
  <2> QED
    BY <2>1, <2>2
<1> QED
  BY <1>4, <1>5

(* So the limit stays right for any number of ticks short of it. *)
LEMMA LimitStays ==
    ASSUME Counting, NEW p, NEW t \in Rate!Ticks, NEW e \in Nat,
           p.scheduled => e < Rate!NextTransition(p, t)
    PROVE  Rate!EffectiveLimit(p, Rate!After(t, e)) = Rate!EffectiveLimit(p, t)
<1>1. CASE ~p.scheduled
  BY <1>1 DEF Rate!EffectiveLimit, Rate!LimitedAt
<1>2. CASE p.scheduled
  <2>1. ~Differs(p, t, e)
    BY <1>2, SameBefore
  <2> QED
    BY <2>1 DEF Differs, Rate!EffectiveLimit
<1> QED
  BY <1>1, <1>2

-----------------------------------------------------------------------------
(* The limits a policy may have are those of the settings. *)
LEMMA LimitsKnown ==
    /\ \A s \in Settings \cup {[rate |-> 0, window |-> None]} :
          Rate!Compile(s).limit \in {0} \cup {u.rate : u \in Settings}
    /\ \A p, t : p.limit \in {0} \cup {u.rate : u \in Settings}
          => Rate!EffectiveLimit(p, t) \in {0} \cup {u.rate : u \in Settings}
<1> DEFINE L == {0} \cup {u.rate : u \in Settings}
<1>1. Rate!NoPolicy.limit \in L
  BY DEF Rate!NoPolicy
<1>2. ASSUME NEW s \in Settings PROVE Rate!Compile(s).limit \in L
  <2>1. s.rate \in L
    OBVIOUS
  <2>2. [Rate!NoPolicy EXCEPT !.limit = s.rate].limit = s.rate
    BY DEF Rate!NoPolicy
  <2>3. [limit |-> s.rate, scheduled |-> TRUE, start |-> s.window[1], end |-> s.window[2]].limit = s.rate
    OBVIOUS
  <2> HIDE DEF L
  <2> QED
    BY <1>1, <2>1, <2>2, <2>3 DEF Rate!Compile
<1>3. Rate!Compile([rate |-> 0, window |-> None]).limit \in L
  <2>1. 0 <= 0 /\ ~(0 > 0)
    BY SMTT(30)
  <2>2. [rate |-> 0, window |-> None].rate = 0
    OBVIOUS
  <2>3. Rate!Compile([rate |-> 0, window |-> None]) = Rate!NoPolicy
    BY <2>1, <2>2 DEF Rate!Compile
  <2> QED
    BY <1>1, <2>3
<1>4. ASSUME NEW p, NEW t, p.limit \in L PROVE Rate!EffectiveLimit(p, t) \in L
  BY <1>4 DEF Rate!EffectiveLimit, Rate!Unlimited
<1> QED
  BY <1>2, <1>3, <1>4

(* What the settings file holds is valid, and so is what is used instead. *)
LEMMA LoadedSound ==
    ASSUME Rate!FileSound
    PROVE  Rate!Loaded # None /\ Rate!Valid(Rate!Loaded) /\ Rate!Loaded \in Settings \cup {[rate |-> 0, window |-> None]}
<1>1. Rate!Valid([rate |-> 0, window |-> None])
  <2>1. 0 >= 0
    BY SMTT(30)
  <2> QED
    BY <2>1 DEF Rate!Valid
<1>2. [rate |-> 0, window |-> None] # None
  BY RateAssumption
<1> QED
  BY <1>1, <1>2 DEF Rate!Loaded, Rate!FileSound

(* No update is under way. *)
LEMMA IdleSetter == Rate!NoSet.pc = "idle" /\ Rate!NoSet.to = None /\ Rate!NoSet.age = 0
  BY DEF Rate!NoSet

(* What says nothing of the runner leaves its timer right. *)
LEMMA RunnerKept ==
    ASSUME Rate!RunnerSound, UNCHANGED <<v1, v5, v4, v8>>,
           v6 \/ v9.pc = "wake" => v6' \/ v9'.pc = "wake"
    PROVE  Rate!RunnerSound'
<1>1. Rate!TimerSet' <=> Rate!TimerSet
  BY DEF Rate!TimerSet
<1> QED
  BY <1>1 DEF Rate!RunnerSound

(* A stutter changes nothing. *)
LEMMA RateStutter ==
    ASSUME Rate!Inductive, UNCHANGED Rate!vars
    PROVE  Rate!Inductive'
<1> USE DEF Rate!vars
<1>1. Rate!TypeOK'
  BY DEF Rate!Inductive, Rate!TypeOK
<1>2. Rate!FileSound' /\ Rate!SetterSound' /\ Rate!PolicySound'
  BY DEF Rate!Inductive, Rate!FileSound, Rate!SetterSound, Rate!PolicySound, Rate!Loaded
<1>3. Rate!RunnerSound'
  BY RunnerKept DEF Rate!Inductive
<1> QED
  BY <1>1, <1>2, <1>3 DEF Rate!Inductive

(* No session runs, and there is no file. *)
LEMMA RateInit == Rate!Init => Rate!Inductive
<1> SUFFICES ASSUME Rate!Init PROVE Rate!Inductive
  OBVIOUS
<1>1. PICK v \in {s \in Settings : Rate!Valid(s)} \cup {None} : v2 = Rate!FileOf(v)
  BY DEF Rate!Init
<1>2. v2.now = v /\ v2.older = {}
  BY <1>1 DEF Rate!FileOf
<1>3. Rate!FileSound
  BY <1>2 DEF Rate!FileSound
<1>4. v9 = [pc |-> "idle", to |-> None, age |-> 0] /\ v3 = None /\ ~v7 /\ v6 = FALSE
  BY DEF Rate!Init, Rate!Off, Rate!NoSet
<1>5. 0 \in Nat /\ 0 \in Rate!Ticks
  <2>1. 0 \in Nat
    BY SMTT(30)
  <2>2. 0 \in 0 .. Rate!Cardinality(Rate!Ticks) - 1
    BY TicksNumbered, SMTT(30)
  <2> QED
    BY <2>1, <2>2, TicksNumbered
<1>6. Rate!SetterSound
  BY <1>4, <1>5 DEF Rate!SetterSound, Rate!NoSet
<1>7. Rate!PolicySound
  BY <1>4 DEF Rate!PolicySound, Rate!Init, Rate!Off, Rate!NoPolicy
<1>8. v8 = [pc |-> "done", age |-> 0, fire |-> None, lag |-> 0]
  BY DEF Rate!Init, Rate!Off, Rate!Stopped, Rate!Asleep
<1>9. Rate!RunnerSound
  BY <1>5, <1>8 DEF Rate!RunnerSound
<1>10. Rate!TypeOK
  <2>1. v5 = 0 /\ v1 = 0 /\ v7 = FALSE
    BY DEF Rate!Init, Rate!Off, Rate!Unlimited
  <2> QED
    BY <1>2, <1>4, <1>5, <1>8, <2>1 DEF Rate!TypeOK
<1> QED
  BY <1>3, <1>6, <1>7, <1>9, <1>10 DEF Rate!Inductive

(* The session starts, closes, and is cut off. *)
LEMMA RateStart ==
    ASSUME Rate!Inductive, Rate!Start
    PROVE  Rate!Inductive'
<1>1. /\ v3 = None /\ v9 = Rate!NoSet /\ UNCHANGED <<v1, v2, v9>>
      /\ v3' = Rate!Loaded /\ v4' = Rate!Compile(Rate!Loaded) /\ v6' = FALSE /\ v7' = TRUE
      /\ v5' = Rate!EffectiveLimit(v4', v1) /\ v8' = Rate!Asleep
  BY DEF Rate!Start, Rate!Inductive, Rate!SetterSound
<1>2. Rate!Loaded # None /\ Rate!Valid(Rate!Loaded) /\ Rate!Loaded \in Settings \cup {[rate |-> 0, window |-> None]}
  BY LoadedSound DEF Rate!Inductive
<1>3. Rate!Loaded' = Rate!Loaded
  BY <1>1 DEF Rate!Loaded
<1>4. v8' = [pc |-> "read", age |-> 0, fire |-> None, lag |-> 0]
  BY <1>1 DEF Rate!Asleep
<1>5. v4'.limit \in {0} \cup {s.rate : s \in Settings}
  BY <1>1, <1>2, LimitsKnown
<1>6. v5' \in {0} \cup {s.rate : s \in Settings}
  BY <1>1, <1>5, LimitsKnown
<1>7. Rate!TypeOK'
  <2>1. v1' \in Rate!Ticks /\ v6' \in BOOLEAN /\ v7' \in BOOLEAN /\ (v2'.now # None => Rate!Valid(v2'.now))
    BY <1>1 DEF Rate!Inductive, Rate!TypeOK
  <2>2. Rate!Valid(v3')
    BY <1>1, <1>2
  <2>3. v8'.fire = None
    BY <1>4
  <2> QED
    BY <1>6, <2>1, <2>2, <2>3 DEF Rate!TypeOK, Rate!Valid
<1>8. Rate!FileSound'
  BY <1>1 DEF Rate!Inductive, Rate!FileSound
<1>9. Rate!SetterSound'
  BY <1>1, <1>2 DEF Rate!Inductive, Rate!SetterSound
<1>10. Rate!PolicySound'
  BY <1>1, <1>2, <1>3, <1>5 DEF Rate!PolicySound
<1>11. Rate!RunnerSound'
  <2>1. 0 \in Nat
    BY SMTT(30)
  <2> QED
    BY <1>4, <2>1 DEF Rate!RunnerSound
<1> QED
  BY <1>7, <1>8, <1>9, <1>10, <1>11 DEF Rate!Inductive

(* The session closes: the runner is told to stop. *)
LEMMA RateClose ==
    ASSUME Rate!Inductive, Rate!Close
    PROVE  Rate!Inductive'
<1>1. /\ v9 = Rate!NoSet /\ UNCHANGED <<v1, v2, v4, v5, v6, v8, v9>>
      /\ v3' = None /\ v7' = FALSE
  BY DEF Rate!Close
<1>2. Rate!TypeOK'
  BY <1>1 DEF Rate!Inductive, Rate!TypeOK
<1>3. Rate!FileSound' /\ Rate!SetterSound' /\ Rate!PolicySound'
  BY <1>1 DEF Rate!Inductive, Rate!FileSound, Rate!SetterSound, Rate!PolicySound
<1>4. Rate!RunnerSound'
  BY <1>1, RunnerKept DEF Rate!Inductive
<1> QED
  BY <1>2, <1>3, <1>4 DEF Rate!Inductive

(* A power failure: the file is one of those it may be. *)
LEMMA RatePowerFailure ==
    ASSUME Rate!Inductive, Rate!PowerFailure
    PROVE  Rate!Inductive'
<1>1. PICK v \in v2.older \cup {v2.now} : v2' = Rate!FileOf(v)
  BY DEF Rate!PowerFailure, Rate!AfterPowerFailure
<1>2. v2'.now = v /\ v2'.older = {}
  BY <1>1 DEF Rate!FileOf
<1>3. Rate!FileSound'
  BY <1>2 DEF Rate!Inductive, Rate!FileSound
<1>4. /\ v9' = [pc |-> "idle", to |-> None, age |-> 0] /\ v3' = None /\ v7' = FALSE /\ v6' = FALSE
      /\ v1' = v1 /\ v5' = 0 /\ v4' = Rate!NoPolicy
      /\ v8' = [pc |-> "done", age |-> 0, fire |-> None, lag |-> 0]
  BY DEF Rate!PowerFailure, Rate!NoSet, Rate!Stopped, Rate!Asleep, Rate!Unlimited
<1>5. 0 \in Nat
  BY SMTT(30)
<1>6. Rate!SetterSound'
  BY <1>4, <1>5 DEF Rate!SetterSound, Rate!NoSet
<1>7. Rate!PolicySound'
  BY <1>4 DEF Rate!PolicySound, Rate!NoPolicy
<1>8. Rate!RunnerSound'
  BY <1>4, <1>5 DEF Rate!RunnerSound
<1>9. v # None => Rate!Valid(v)
  BY DEF Rate!Inductive, Rate!FileSound
<1>10. Rate!TypeOK'
  BY <1>2, <1>4, <1>9 DEF Rate!Inductive, Rate!TypeOK
<1> QED
  BY <1>3, <1>6, <1>7, <1>8, <1>10 DEF Rate!Inductive

-----------------------------------------------------------------------------
(* The stages of an update. *)
LEMMA RateSetSaved ==
    ASSUME Rate!Inductive, NEW s \in Settings, Rate!SetSaved(s)
    PROVE  Rate!Inductive'
<1>1. /\ v3 # None /\ v9 = Rate!NoSet /\ Rate!Valid(s) /\ v2' = Rate!Renamed(v2, s)
      /\ v9' = [pc |-> "sync", to |-> s, age |-> 0]
      /\ UNCHANGED <<v1, v3, v4, v5, v6, v7, v8>>
  BY DEF Rate!SetSaved, Rate!NoSet
<1>2. v2'.now = s /\ v2'.older \subseteq v2.older \cup {v2.now}
  BY <1>1 DEF Rate!Renamed
<1>3. s # None /\ 0 \in Nat
  <2>1. 0 \in Nat
    BY SMTT(30)
  <2> QED
    BY <2>1, RateAssumption
<1>4. Rate!TypeOK'
  BY <1>1, <1>2 DEF Rate!Inductive, Rate!TypeOK
<1>5. Rate!FileSound'
  BY <1>1, <1>2 DEF Rate!Inductive, Rate!FileSound
<1>6. Rate!SetterSound'
  BY <1>1, <1>2, <1>3 DEF Rate!SetterSound
<1>7. Rate!PolicySound'
  <2>1. v9.pc = "idle" /\ v9'.pc = "sync"
    BY <1>1 DEF Rate!NoSet
  <2> QED
    BY <1>1, <2>1 DEF Rate!Inductive, Rate!PolicySound
<1>8. Rate!RunnerSound'
  <2>1. v9.pc = "idle"
    BY <1>1 DEF Rate!NoSet
  <2> QED
    BY <1>1, <2>1, RunnerKept DEF Rate!Inductive
<1> QED
  BY <1>4, <1>5, <1>6, <1>7, <1>8 DEF Rate!Inductive

(* An update is on disk: the settings in memory follow it, *)
LEMMA RateSetSynced ==
    ASSUME Rate!Inductive, NEW ok \in BOOLEAN, Rate!SetSynced(ok)
    PROVE  Rate!Inductive'
<1>1. /\ v9.pc = "sync" /\ v2' = (IF ok THEN Rate!Synced(v2) ELSE v2) /\ v3' = v9.to
      /\ v9' = [v9 EXCEPT !.pc = "applies"]
      /\ UNCHANGED <<v1, v4, v5, v6, v7, v8>>
  BY DEF Rate!SetSynced
<1>2. v2'.now = v2.now /\ v2'.older \subseteq v2.older
  BY <1>1 DEF Rate!Synced, Rate!FileOf
<1>3. /\ v9.to \in Settings /\ v9.to # None /\ v2.now = v9.to /\ v9.age \in Nat
      /\ v3 # None
  <2>1. v9 # Rate!NoSet
    BY <1>1, IdleSetter
  <2> QED
    BY <1>1, <2>1 DEF Rate!Inductive, Rate!SetterSound
<1>4. v9'.pc = "applies" /\ v9'.to = v9.to /\ v9'.age = v9.age
      /\ v9' \in [pc : {"idle", "sync", "applies", "wake"}, to : Settings \cup {None}, age : Nat]
  BY <1>1 DEF Rate!Inductive, Rate!SetterSound
<1>5. Rate!Valid(v9.to)
  BY <1>3 DEF Rate!Inductive, Rate!TypeOK
<1>6. Rate!TypeOK'
  BY <1>1, <1>2, <1>5 DEF Rate!Inductive, Rate!TypeOK
<1>7. Rate!FileSound'
  BY <1>1, <1>2 DEF Rate!Inductive, Rate!FileSound
<1>8. Rate!SetterSound'
  BY <1>1, <1>2, <1>3, <1>4 DEF Rate!SetterSound
<1>9. Rate!PolicySound'
  <2>1. Rate!Loaded' = v9.to
    BY <1>2, <1>3 DEF Rate!Loaded
  <2>2. v7
    BY <1>3 DEF Rate!Inductive, Rate!PolicySound
  <2> QED
    BY <1>1, <1>3, <1>4, <2>1, <2>2 DEF Rate!Inductive, Rate!PolicySound
<1>10. Rate!RunnerSound'
  BY <1>1, RunnerKept DEF Rate!Inductive
<1> QED
  BY <1>6, <1>7, <1>8, <1>9, <1>10 DEF Rate!Inductive

(* then the policy and the limit, *)
LEMMA RateSetPolicy ==
    ASSUME Rate!Inductive, Rate!SetPolicy
    PROVE  Rate!Inductive'
<1>1. /\ v9.pc = "applies" /\ v4' = Rate!Compile(v9.to)
      /\ v9' = [pc |-> "wake", to |-> None, age |-> 0]
      /\ UNCHANGED <<v1, v2, v3, v6, v7, v8>>
      /\ \E t : v5' = Rate!EffectiveLimit(v4', t)
  BY DEF Rate!SetPolicy, Rate!NoSet
<1>2. /\ v9.to \in Settings /\ v3 # None /\ v2.now = v9.to /\ v3 = Rate!Loaded
      /\ v2.now # None
  <2>1. v9 # Rate!NoSet
    BY <1>1, IdleSetter
  <2>2. v9.to \in Settings /\ v9.to # None /\ v3 # None /\ v2.now = v9.to
    BY <1>1, <2>1 DEF Rate!Inductive, Rate!SetterSound
  <2>3. v3 = Rate!Loaded
    BY <1>1, <2>2 DEF Rate!Inductive, Rate!PolicySound
  <2> QED
    BY <2>2, <2>3
<1>3. Rate!Loaded' = Rate!Loaded /\ Rate!Loaded = v9.to
  BY <1>1, <1>2 DEF Rate!Loaded
<1>4. v4'.limit \in {0} \cup {s.rate : s \in Settings}
  BY <1>1, <1>2, LimitsKnown
<1>5. v5' \in {0} \cup {s.rate : s \in Settings}
  BY <1>1, <1>4, LimitsKnown
<1>6. Rate!TypeOK'
  BY <1>1, <1>5 DEF Rate!Inductive, Rate!TypeOK
<1>7. Rate!FileSound'
  BY <1>1 DEF Rate!Inductive, Rate!FileSound
<1>8. Rate!SetterSound'
  <2>1. 0 \in Nat
    BY SMTT(30)
  <2> QED
    BY <1>1, <1>2, <2>1 DEF Rate!SetterSound
<1>9. Rate!PolicySound'
  BY <1>1, <1>2, <1>3, <1>4 DEF Rate!Inductive, Rate!PolicySound
<1>10. Rate!RunnerSound'
  BY <1>1 DEF Rate!Inductive, Rate!RunnerSound
<1> QED
  BY <1>6, <1>7, <1>8, <1>9, <1>10 DEF Rate!Inductive

(* and then the runner is woken. *)
LEMMA RateSignalWake ==
    ASSUME Rate!Inductive, Rate!SignalWake
    PROVE  Rate!Inductive'
<1>1. /\ v9.pc = "wake" /\ v6' = TRUE /\ v9' = [pc |-> "idle", to |-> None, age |-> 0]
      /\ UNCHANGED <<v1, v2, v3, v4, v5, v7, v8>>
  BY DEF Rate!SignalWake, Rate!NoSet
<1>2. Rate!TypeOK'
  BY <1>1 DEF Rate!Inductive, Rate!TypeOK
<1>3. Rate!FileSound'
  BY <1>1 DEF Rate!Inductive, Rate!FileSound
<1>4. Rate!SetterSound'
  <2>1. 0 \in Nat
    BY SMTT(30)
  <2> QED
    BY <1>1, <2>1 DEF Rate!SetterSound, Rate!NoSet
<1>5. Rate!PolicySound'
  BY <1>1 DEF Rate!Inductive, Rate!PolicySound, Rate!Loaded
<1>6. Rate!RunnerSound'
  BY <1>1 DEF Rate!Inductive, Rate!RunnerSound
<1> QED
  BY <1>2, <1>3, <1>4, <1>5, <1>6 DEF Rate!Inductive

-----------------------------------------------------------------------------
(* The runner: what only it changes. *)
LEMMA RunnerMoves ==
    ASSUME Rate!Inductive, UNCHANGED <<v1, v2, v3, v4, v7, v9>>,
           v6' \in BOOLEAN, v5' \in {0} \cup {s.rate : s \in Settings},
           v8'.fire \in {None} \cup 0 .. Lookahead, Rate!RunnerSound'
    PROVE  Rate!Inductive'
<1>1. Rate!TypeOK'
  BY DEF Rate!Inductive, Rate!TypeOK
<1>2. Rate!FileSound' /\ Rate!SetterSound' /\ Rate!PolicySound'
  BY DEF Rate!Inductive, Rate!FileSound, Rate!SetterSound, Rate!PolicySound, Rate!Loaded
<1> QED
  BY <1>1, <1>2 DEF Rate!Inductive

(* The runner wakes and begins again, *)
LEMMA RateRunAgain ==
    ASSUME Rate!Inductive, Rate!RunRead \/ Rate!RunWoken \/ Rate!RunTimer
    PROVE  Rate!Inductive'
<1>1. /\ UNCHANGED <<v1, v2, v3, v4, v7, v9>> /\ v5' = v5 /\ v6' \in BOOLEAN
      /\ \E pc \in {"read", "apply"} : v8' = [pc |-> pc, age |-> 0, fire |-> None, lag |-> 0]
  BY DEF Rate!RunRead, Rate!RunWoken, Rate!RunTimer, Rate!Ended, Rate!Asleep,
     Rate!Inductive, Rate!TypeOK
<1>2. 0 \in Nat
  BY SMTT(30)
<1>3. Rate!RunnerSound' /\ v8'.fire = None
  <2>1. PICK pc \in {"read", "apply"} : v8' = [pc |-> pc, age |-> 0, fire |-> None, lag |-> 0]
    BY <1>1
  <2>2. v8' \in [pc : {"read", "apply", "arm", "wait", "done"}, age : Nat, fire : {None} \cup Nat, lag : Nat]
    BY <1>2, <2>1
  <2>3. v8'.pc \notin {"arm", "wait"} /\ v8'.fire = None
    BY <2>1
  <2> QED
    BY <2>2, <2>3 DEF Rate!RunnerSound
<1>4. v5' \in {0} \cup {s.rate : s \in Settings}
  BY <1>1 DEF Rate!Inductive, Rate!TypeOK
<1> QED
  BY <1>1, <1>3, <1>4, RunnerMoves

(* or ends, *)
LEMMA RateRunStop ==
    ASSUME Rate!Inductive, Rate!RunStop
    PROVE  Rate!Inductive'
<1>1. /\ UNCHANGED <<v1, v2, v3, v7, v9>> /\ v5' = 0 /\ v4' = Rate!NoPolicy
      /\ v6' = FALSE /\ v8' = [pc |-> "done", age |-> 0, fire |-> None, lag |-> 0] /\ ~v7
  BY DEF Rate!RunStop, Rate!Ends, Rate!Stopped, Rate!Asleep, Rate!Unlimited
<1>2. v3 = None
  BY <1>1 DEF Rate!Inductive, Rate!PolicySound
<1>3. Rate!TypeOK'
  BY <1>1, <1>2 DEF Rate!Inductive, Rate!TypeOK
<1>4. Rate!FileSound' /\ Rate!SetterSound'
  BY <1>1 DEF Rate!Inductive, Rate!FileSound, Rate!SetterSound
<1>5. Rate!PolicySound'
  BY <1>1, <1>2 DEF Rate!Inductive, Rate!PolicySound, Rate!NoPolicy
<1>6. Rate!RunnerSound'
  <2>1. 0 \in Nat
    BY SMTT(30)
  <2> QED
    BY <1>1, <2>1 DEF Rate!RunnerSound
<1> QED
  BY <1>3, <1>4, <1>5, <1>6 DEF Rate!Inductive

(* It applies the limit of the instant it has read, and looks for the next   *)
(* boundary from there;                                                      *)
LEMMA RateRunApply ==
    ASSUME Counting, Rate!Inductive, Rate!RunApply
    PROVE  Rate!Inductive'
<1> DEFINE now == Rate!After(v1, Rate!Cardinality(Rate!Ticks) - v8.age)
<1>1. /\ v8.pc = "apply" /\ v5' = Rate!EffectiveLimit(v4, now)
      /\ v8' = [v8 EXCEPT !.pc = "arm", !.fire = Rate!NextTransition(v4, now)]
      /\ UNCHANGED <<v1, v2, v3, v4, v6, v7, v9>>
  BY DEF Rate!RunApply
<1>2. v8.age \in Nat /\ v8.age \in Int /\ Rate!Cardinality(Rate!Ticks) - v8.age \in Int
  <2>1. v8.age \in Nat
    BY DEF Rate!Inductive, Rate!RunnerSound
  <2> QED
    BY <2>1, TicksNumbered, SMTT(30)
<1>3. v1 \in Rate!Ticks
  BY DEF Rate!Inductive, Rate!TypeOK
<1>4. now \in Rate!Ticks /\ Rate!After(now, v8.age) = v1
  BY <1>2, <1>3, TicksLater
<1> HIDE DEF now
<1>5. Rate!NextTransition(v4, now) \in {None} \cup 0 .. Lookahead
  <2>1. CASE v4.scheduled
    <3>1. Rate!NextTransition(v4, now) \in 1 .. Lookahead
      BY <1>4, <2>1, SameBefore
    <3> QED
      BY <3>1, RateAssumption, SMTT(30)
  <2>2. CASE ~v4.scheduled
    BY <2>2 DEF Rate!NextTransition
  <2> QED
    BY <2>1, <2>2
<1>6. Rate!NextTransition(v4, now) \in {None} \cup Nat
  BY <1>5, RateAssumption, SMTT(30)
<1>7. /\ v8' \in [pc : {"read", "apply", "arm", "wait", "done"}, age : Nat, fire : {None} \cup Nat, lag : Nat]
      /\ v8'.pc = "arm" /\ v8'.age = v8.age /\ v8'.fire = Rate!NextTransition(v4, now)
  BY <1>1, <1>6 DEF Rate!Inductive, Rate!RunnerSound
<1>8. Rate!TimerSet'
  <2>1. v5' = Rate!EffectiveLimit(v4', now) /\ v1' = Rate!After(now, v8.age)
        /\ Rate!NextTransition(v4', now) = Rate!NextTransition(v4, now)
    BY <1>1, <1>4
  <2> QED
    BY <1>2, <1>4, <1>7, <2>1 DEF Rate!TimerSet
<1>9. Rate!RunnerSound'
  BY <1>7, <1>8 DEF Rate!RunnerSound
<1>10. v5' \in {0} \cup {s.rate : s \in Settings}
  BY <1>1, LimitsKnown DEF Rate!Inductive, Rate!PolicySound
<1>11. v6' \in BOOLEAN
  BY <1>1 DEF Rate!Inductive, Rate!TypeOK
<1> QED
  BY <1>1, <1>5, <1>7, <1>9, <1>10, <1>11, RunnerMoves

(* it arms the timer late by the age of the reading. *)
LEMMA RateRunArm ==
    ASSUME Rate!Inductive, Rate!RunArm
    PROVE  Rate!Inductive'
<1>1. /\ v8.pc = "arm" /\ v8' = [v8 EXCEPT !.pc = "wait", !.lag = v8.age, !.age = 0]
      /\ UNCHANGED <<v1, v2, v3, v4, v5, v6, v7, v9>>
  BY DEF Rate!RunArm, Rate!Ended
<1>2. 0 \in Nat
  BY SMTT(30)
<1>3. /\ v8' \in [pc : {"read", "apply", "arm", "wait", "done"}, age : Nat, fire : {None} \cup Nat, lag : Nat]
      /\ v8'.pc = "wait" /\ v8'.lag = v8.age /\ v8'.fire = v8.fire
      /\ v8.age \in Nat /\ v8.fire \in {None} \cup Nat
  BY <1>1, <1>2 DEF Rate!Inductive, Rate!RunnerSound
<1>4. ASSUME ~v6, v9.pc # "wake" PROVE Rate!TimerSet'
  <2>1. Rate!TimerSet
    BY <1>1, <1>4 DEF Rate!Inductive, Rate!RunnerSound
  <2>2. PICK t \in Rate!Ticks, e \in Nat :
          /\ v1 = Rate!After(t, e) /\ v5 = Rate!EffectiveLimit(v4, t)
          /\ e = v8.age /\ v8.fire = Rate!NextTransition(v4, t)
    BY <1>1, <2>1 DEF Rate!TimerSet
  <2>3. /\ v1' = Rate!After(t, e) /\ v5' = Rate!EffectiveLimit(v4', t)
        /\ v8'.fire = Rate!NextTransition(v4', t) /\ e = v8'.lag
    BY <1>1, <1>3, <2>2
  <2>4. e >= e
    BY SMTT(30)
  <2>5. v8.fire # None => v8.fire + e - e = v8.fire
    BY <1>3, <2>2, SMTT(30)
  <2> QED
    BY <1>3, <2>3, <2>4, <2>5 DEF Rate!TimerSet
<1>5. Rate!RunnerSound'
  BY <1>1, <1>3, <1>4 DEF Rate!RunnerSound
<1>6. v6' \in BOOLEAN /\ v5' \in {0} \cup {s.rate : s \in Settings}
      /\ v8'.fire \in {None} \cup 0 .. Lookahead
  BY <1>1, <1>3 DEF Rate!Inductive, Rate!TypeOK
<1> QED
  BY <1>1, <1>5, <1>6, RunnerMoves

(* Time passes: what holds a reading gets older, the timer nearer. *)
LEMMA RateTick ==
    ASSUME Rate!Inductive, Rate!Tick
    PROVE  Rate!Inductive'
<1>1. /\ v1' = Rate!After(v1, 1) /\ UNCHANGED <<v2, v3, v4, v5, v6, v7>>
      /\ v9' = IF Rate!Held(v9) THEN [v9 EXCEPT !.age = @ + 1] ELSE v9
      /\ v8' = CASE Rate!Held(v8) -> [v8 EXCEPT !.age = @ + 1]
                     [] v8.pc = "wait" /\ v8.fire \notin {None, 0} -> [v8 EXCEPT !.fire = @ - 1]
                     [] OTHER -> v8
  BY DEF Rate!Tick
<1> DEFINE R == [pc : {"read", "apply", "arm", "wait", "done"}, age : Nat, fire : {None} \cup Nat, lag : Nat]
           S == [pc : {"idle", "sync", "applies", "wake"}, to : Settings \cup {None}, age : Nat]
<1>2. v8 \in R /\ v9 \in S
  BY DEF Rate!Inductive, Rate!RunnerSound, Rate!SetterSound
<1>3. v8.age + 1 \in Nat /\ v9.age + 1 \in Nat
  BY <1>2, SMTT(30)
<1>4. /\ v9'.pc = v9.pc /\ v9'.to = v9.to /\ v9' \in S
      /\ v9.pc # "applies" => v9' = v9
  BY <1>1, <1>2, <1>3 DEF Rate!Held
<1>5. \/ v8' = v8 /\ v8.pc \notin {"apply", "arm"} /\ (v8.pc = "wait" => v8.fire \in {None, 0})
      \/ v8' = [v8 EXCEPT !.age = @ + 1] /\ v8.pc \in {"apply", "arm"}
      \/ v8.pc = "wait" /\ v8.fire \notin {None, 0} /\ v8' = [v8 EXCEPT !.fire = @ - 1]
  BY <1>1, <1>2 DEF Rate!Held
<1>6. v8.fire \in {None} \cup 0 .. Lookahead
  BY DEF Rate!Inductive, Rate!TypeOK
<1>7. v8.fire \notin {None, 0} => v8.fire \in Nat /\ v8.fire - 1 \in Nat /\ v8.fire - 1 \in 0 .. Lookahead
  BY <1>6, RateAssumption, SMTT(30)
<1>8. v8' \in R /\ v8'.pc = v8.pc /\ v8'.lag = v8.lag /\ v8'.fire \in {None} \cup 0 .. Lookahead
  BY <1>2, <1>3, <1>5, <1>6, <1>7
<1>9. v1 \in Rate!Ticks /\ 1 \in Int /\ v1' \in Rate!Ticks
  <2>1. v1 \in Rate!Ticks /\ 1 \in Int
    BY SMTT(30) DEF Rate!Inductive, Rate!TypeOK
  <2> QED
    BY <1>1, <2>1, TicksLater
<1>10. Rate!TypeOK'
  BY <1>1, <1>8, <1>9 DEF Rate!Inductive, Rate!TypeOK
<1>11. Rate!FileSound'
  BY <1>1 DEF Rate!Inductive, Rate!FileSound
<1>12. Rate!SetterSound'
  <2>1. CASE v9.pc = "applies"
    <3>1. v3 # None /\ v9.to # None /\ v2.now = v9.to
      BY <2>1, IdleSetter DEF Rate!Inductive, Rate!SetterSound
    <3> QED
      BY <1>1, <1>4, <2>1, <3>1 DEF Rate!SetterSound
  <2>2. CASE v9.pc # "applies"
    BY <1>1, <1>4, <2>2 DEF Rate!Inductive, Rate!SetterSound
  <2> QED
    BY <2>1, <2>2
<1>13. Rate!PolicySound'
  BY <1>1, <1>4 DEF Rate!Inductive, Rate!PolicySound, Rate!Loaded
<1>14. ASSUME v8.pc \in {"arm", "wait"}, ~v6, v9.pc # "wake",
              v8.pc = "wait" => v8'.fire = None \/ v8'.fire > v8'.lag
       PROVE  Rate!TimerSet'
  <2>1. v8.pc = "wait" => v8.fire = None \/ v8.fire > v8.lag
    <3>1. ASSUME v8.pc = "wait", v8.fire # None PROVE v8.fire > v8.lag
      <4>1. CASE v8' = v8
        BY <1>14, <3>1, <4>1
      <4>2. CASE v8' # v8
        <5>1. v8'.fire = v8.fire - 1 /\ v8.fire \in Nat /\ v8.lag \in Nat /\ v8.fire # 0
          BY <1>2, <1>5, <3>1, <4>2
        <5>2. v8'.fire # None
          BY <1>7, <3>1, <5>1, RateAssumption
        <5>3. v8.fire - 1 > v8.lag
          BY <1>8, <1>14, <3>1, <5>1, <5>2
        <5> QED
          BY <5>1, <5>3, SMTT(30)
      <4> QED
        BY <4>1, <4>2
    <3> QED
      BY <3>1
  <2>2. Rate!TimerSet
    BY <1>14, <2>1 DEF Rate!Inductive, Rate!RunnerSound
  <2>3. PICK t \in Rate!Ticks, e \in Nat :
          /\ v1 = Rate!After(t, e) /\ v5 = Rate!EffectiveLimit(v4, t)
          /\ v8.pc = "arm" => e = v8.age /\ v8.fire = Rate!NextTransition(v4, t)
          /\ v8.pc = "wait" =>
               IF v8.fire = None THEN Rate!NextTransition(v4, t) = None
               ELSE e >= v8.lag /\ v8.fire + e - v8.lag = Rate!NextTransition(v4, t)
    BY <2>2 DEF Rate!TimerSet
  <2>4. e + 1 \in Nat /\ e \in Int /\ v1' = Rate!After(t, e + 1)
    <3>1. e + 1 \in Nat /\ e \in Int
      BY SMTT(30)
    <3>2. \A i \in Int, j \in Int : Rate!After(Rate!After(t, i), j) = Rate!After(t, i + j)
      BY TicksLater
    <3>3. Rate!After(Rate!After(t, e), 1) = Rate!After(t, e + 1)
      BY <1>9, <3>1, <3>2
    <3> QED
      BY <1>1, <2>3, <3>1, <3>3
  <2>5. v5' = Rate!EffectiveLimit(v4', t) /\ Rate!NextTransition(v4', t) = Rate!NextTransition(v4, t)
    BY <1>1, <2>3
  <2>6. CASE v8.pc = "arm"
    <3>1. v8'.age = e + 1 /\ v8'.fire = Rate!NextTransition(v4, t)
      BY <1>2, <1>5, <2>3, <2>6
    <3> QED
      BY <1>8, <2>4, <2>5, <2>6, <3>1 DEF Rate!TimerSet
  <2>7. CASE v8.pc = "wait" /\ v8.fire = None
    <3>1. v8'.fire = None /\ Rate!NextTransition(v4, t) = None
      BY <1>2, <1>5, <2>3, <2>7
    <3> QED
      BY <1>8, <2>4, <2>5, <2>7, <3>1 DEF Rate!TimerSet
  <2>8. CASE v8.pc = "wait" /\ v8.fire # None
    <3>1. v8.fire > v8.lag /\ v8.fire \in Nat /\ v8.lag \in Nat
      BY <1>2, <2>1, <2>8
    <3>2. v8.fire # 0
      BY <3>1, SMTT(30)
    <3>3. v8'.fire = v8.fire - 1 /\ v8'.fire # None
      <4>1. v8'.fire = v8.fire - 1
        BY <1>2, <1>5, <2>8, <3>2
      <4> QED
        BY <1>7, <2>8, <3>2, <4>1, RateAssumption
    <3>4. e >= v8.lag /\ v8.fire + e - v8.lag = Rate!NextTransition(v4, t)
      BY <2>3, <2>8
    <3>5. e + 1 >= v8.lag /\ (v8.fire - 1) + (e + 1) - v8.lag = v8.fire + e - v8.lag
      BY <3>1, <3>4, SMTT(30)
    <3>6. e + 1 >= v8'.lag /\ v8'.fire + (e + 1) - v8'.lag = Rate!NextTransition(v4', t)
      BY <1>8, <2>5, <3>3, <3>4, <3>5
    <3> QED
      BY <1>8, <2>4, <2>5, <2>8, <3>3, <3>6 DEF Rate!TimerSet
  <2> QED
    BY <1>14, <2>6, <2>7, <2>8
<1>15. Rate!RunnerSound'
  BY <1>1, <1>4, <1>8, <1>14 DEF Rate!RunnerSound
<1> QED
  BY <1>10, <1>11, <1>12, <1>13, <1>15 DEF Rate!Inductive

(* Every step keeps the invariant. *)
LEMMA RateNext ==
    ASSUME Counting, Rate!Inductive, Rate!Next
    PROVE  Rate!Inductive'
<1>1. CASE Rate!Run
  BY <1>1, RateRunAgain, RateRunApply, RateRunArm, RateRunStop DEF Rate!Run
<1>2. CASE Rate!Set
  BY <1>2, RateSetPolicy, RateSignalWake, RateSetSynced DEF Rate!Set
<1>3. CASE \E s \in Settings : Rate!SetSaved(s) \/ Rate!SetRejected(s)
  <2>1. PICK s \in Settings : Rate!SetSaved(s) \/ Rate!SetRejected(s)
    BY <1>3
  <2>2. CASE Rate!SetSaved(s)
    BY <2>2, RateSetSaved
  <2>3. CASE Rate!SetRejected(s)
    BY <2>3, RateStutter DEF Rate!SetRejected
  <2> QED
    BY <2>1, <2>2, <2>3
<1> QED
  BY <1>1, <1>2, <1>3, RateStart, RateClose, RatePowerFailure, RateTick DEF Rate!Next

(* What it implies. *)
LEMMA RateSafe ==
    ASSUME Counting, Rate!Inductive
    PROVE  Rate!TypeOK /\ Rate!MemoryFollowsFile /\ Rate!RightUntilBoundary /\ Rate!TransitionExact
<1>1. Rate!TypeOK
  BY DEF Rate!Inductive
<1>2. Rate!MemoryFollowsFile
  BY IdleSetter DEF Rate!Inductive, Rate!PolicySound, Rate!MemoryFollowsFile
<1>3. Rate!RightUntilBoundary
  <2> SUFFICES ASSUME v8.pc = "wait", ~v6, v9.pc \notin {"applies", "wake"},
                      v8.fire = None \/ v8.fire > v8.lag
               PROVE  v5 = Rate!EffectiveLimit(v4, v1)
    BY DEF Rate!RightUntilBoundary
  <2>1. PICK t \in Rate!Ticks, e \in Nat :
          /\ v1 = Rate!After(t, e) /\ v5 = Rate!EffectiveLimit(v4, t)
          /\ IF v8.fire = None THEN Rate!NextTransition(v4, t) = None
             ELSE e >= v8.lag /\ v8.fire + e - v8.lag = Rate!NextTransition(v4, t)
    BY DEF Rate!Inductive, Rate!RunnerSound, Rate!TimerSet
  <2>2. v8.fire \in {None} \cup Nat /\ v8.lag \in Nat
    BY DEF Rate!Inductive, Rate!RunnerSound
  <2>3. ASSUME v4.scheduled PROVE e < Rate!NextTransition(v4, t)
    <3>1. Rate!NextTransition(v4, t) \in 1 .. Lookahead
      BY <2>3, SameBefore
    <3>2. Rate!NextTransition(v4, t) # None
      BY <3>1, RateAssumption, SMTT(30)
    <3>3. v8.fire \in Nat /\ v8.fire > v8.lag /\ v8.fire + e - v8.lag = Rate!NextTransition(v4, t)
      BY <2>1, <2>2, <3>2
    <3>4. e < v8.fire + e - v8.lag
      BY <2>2, <3>3, SMTT(30)
    <3> QED
      BY <3>3, <3>4
  <2> QED
    BY <2>1, <2>3, LimitStays
<1>4. Rate!TransitionExact
  <2>1. v1 \in Rate!Ticks
    BY DEF Rate!Inductive, Rate!TypeOK
  <2>2. v4.scheduled => Rate!NextTransition(v4, v1)
          = IF Changes(v4, v1) = {} THEN Lookahead ELSE Rate!Min(Changes(v4, v1))
    BY <2>1, FirstChangeFound
  <2> QED
    BY <2>2 DEF Rate!TransitionExact, Changes, Differs
<1> QED
  BY <1>1, <1>2, <1>3, <1>4

-----------------------------------------------------------------------------
(* The migration of an older layout *)

(* The scan gives a torrent file before a magnet, and nothing for no file. *)
LEMMA KindFacts ==
    ASSUME NEW files \in SUBSET {"torrent", "magnet"}
    PROVE  /\ Migrate!KindOf(files) \in {None, "torrent", "magnet"}
           /\ Migrate!KindOf(files) = None <=> files = {}
           /\ Migrate!KindOf(files) = "torrent" <=> "torrent" \in files
           /\ Migrate!KindOf(files) = "magnet" => files = {"magnet"}
BY MigrateAssumption DEF Migrate!KindOf

(* The passes in their order. *)
LEMMA AfterFacts ==
    /\ Migrate!After("entries") = "move" /\ Migrate!After("move") = "marker"
    /\ Migrate!After("marker") = "restore"
BY DEF Migrate!After

(* The start finds what the older version left. *)
LEMMA MigrateInit == Migrate!Init => Migrate!Inductive
<1> SUFFICES ASSUME Migrate!Init PROVE Migrate!Inductive
  OBVIOUS
<1>1. Migrate!TypeOK
  BY KindFacts DEF Migrate!Init, Migrate!TypeOK
<1>2. Migrate!PassSound
  BY DEF Migrate!Init, Migrate!PassSound
<1>3. ASSUME NEW h \in Hashes PROVE Migrate!HashSound(h)
  <2>1. /\ h \notin v2 \cup v3 /\ v7[h] = None /\ v6 = "down" /\ ~v5
        /\ v10[h] = Migrate!KindOf(v1[h]) /\ (h \in v11 <=> v4[h] = "deleting")
        /\ v1[h] \in SUBSET {"torrent", "magnet"}
    BY DEF Migrate!Init
  <2>2. Migrate!KindsKept(h)
    BY <2>1, KindFacts DEF Migrate!KindsKept
  <2>3. Migrate!Scanned(h)
    BY <2>1 DEF Migrate!Scanned
  <2>4. ASSUME h \notin v11 PROVE Migrate!Registered(h)
    <3>1. /\ v4[h] \in {None, "adding", "ready"}
          /\ v4[h] = "ready" => "torrent" \in v1[h]
          /\ v4[h] = "adding" => v1[h] # {}
      BY <2>1, <2>4 DEF Migrate!Init
    <3>2. /\ v10[h] = None <=> v1[h] = {}
          /\ v10[h] = "torrent" <=> "torrent" \in v1[h]
          /\ v10[h] = "magnet" => v1[h] = {"magnet"}
      BY ONLY <2>1, KindFacts, SMTT(30)
    <3>3. v4[h] \in {None, "adding", Migrate!EntryDue(h)}
      <4>1. v4[h] = "ready" => Migrate!EntryDue(h) = "ready"
        BY <3>1, <3>2 DEF Migrate!EntryDue
      <4> QED
        BY <3>1, <4>1, SMTT(30)
    <3>4. v10[h] = None => v4[h] = None
      <4>1. v10[h] = None => v4[h] # "ready" /\ v4[h] # "adding"
        BY <3>1, <3>2
      <4> QED
        BY <3>1, <4>1
    <3> QED
      BY <2>1, <3>2, <3>3, <3>4 DEF Migrate!Registered
  <2> QED
    BY <2>1, <2>2, <2>3, <2>4 DEF Migrate!HashSound
<1> QED
  BY <1>1, <1>2, <1>3 DEF Migrate!Inductive

(* What a step keeps of the types. *)
LEMMA MigrateTypes == Migrate!TypeOK /\ Migrate!Next => Migrate!TypeOK'
<1> SUFFICES ASSUME Migrate!TypeOK, Migrate!Next PROVE Migrate!TypeOK'
  OBVIOUS
<1> USE DEF Migrate!TypeOK
<1>1. ASSUME Migrate!Start PROVE Migrate!TypeOK'
  BY <1>1, KindFacts DEF Migrate!Start
<1>2. ASSUME Migrate!PassDone PROVE Migrate!TypeOK'
  BY <1>2, AfterFacts DEF Migrate!PassDone, Migrate!disk
<1>3. ASSUME Migrate!WriteMarker PROVE Migrate!TypeOK'
  BY <1>3, AfterFacts DEF Migrate!WriteMarker
<1>4. ASSUME Migrate!Crash PROVE Migrate!TypeOK'
  BY <1>4 DEF Migrate!Crash, Migrate!disk
<1>5. ASSUME NEW stuck \in SUBSET Hashes, Migrate!Restore(stuck) PROVE Migrate!TypeOK'
  BY <1>5 DEF Migrate!Restore
<1>6. ASSUME NEW h \in Hashes, Migrate!WriteEntry(h) PROVE Migrate!TypeOK'
  <2>1. Migrate!MigratedState(v4[h], v7[h]) \in {None, "adding", "ready", "deleting"}
    BY DEF Migrate!MigratedState
  <2> QED
    BY <1>6, <2>1 DEF Migrate!WriteEntry
<1>7. ASSUME NEW h \in Hashes, NEW file, Migrate!Unlink(h, file)
      PROVE  v1' \in [Hashes -> SUBSET {"torrent", "magnet"}]
  BY <1>7 DEF Migrate!Unlink
<1>8. ASSUME NEW h \in Hashes, Migrate!Put(h) PROVE v2' \subseteq Hashes /\ v3' \subseteq Hashes
  BY <1>8 DEF Migrate!Put
<1>9. ASSUME NEW h \in Hashes, Migrate!Moved(h) PROVE v8' \subseteq Hashes
  BY <1>9 DEF Migrate!Moved
<1>10. ASSUME NEW h \in Hashes, Migrate!Rename(h) PROVE Migrate!TypeOK'
  BY <1>10, <1>7, <1>8, <1>9 DEF Migrate!Rename
<1>11. ASSUME NEW h \in Hashes, Migrate!Link(h) PROVE Migrate!TypeOK'
  BY <1>11, <1>8 DEF Migrate!Link
<1>12. ASSUME NEW h \in Hashes, Migrate!RemoveSource(h) PROVE Migrate!TypeOK'
  BY <1>12, <1>7, <1>9 DEF Migrate!RemoveSource
<1>13. ASSUME NEW h \in Hashes, Migrate!RemoveLegacyMagnet(h) PROVE Migrate!TypeOK'
  BY <1>13, <1>7 DEF Migrate!RemoveLegacyMagnet
<1>14. ASSUME NEW h \in Hashes, Migrate!RemovePending(h) PROVE Migrate!TypeOK'
  BY <1>14 DEF Migrate!RemovePending
<1> HIDE DEF Migrate!TypeOK
<1> QED
  BY <1>1, <1>2, <1>3, <1>4, <1>5, <1>6, <1>10, <1>11, <1>12, <1>13, <1>14 DEF Migrate!Next

(* A step on the file of one hash keeps what holds of the others. *)
LEMMA OthersSound ==
    ASSUME Migrate!TypeOK, NEW h \in Hashes, NEW k \in Hashes \ {h},
           Migrate!HashSound(k), ~Migrate!MoveSound(k),
           UNCHANGED <<v5, v6, v7, v10, v11>>,
           v1'[k] = v1[k], v4'[k] = v4[k], k \in v2' <=> k \in v2,
           k \in v3' <=> k \in v3, k \in v8' <=> k \in v8
    PROVE  Migrate!HashSound(k)'
<1>1. Migrate!KindsKept(k)'
  BY DEF Migrate!HashSound, Migrate!KindsKept
<1>2. Migrate!Scanned(k)'
  BY DEF Migrate!HashSound, Migrate!Scanned
<1>3. Migrate!Registered(k) => Migrate!Registered(k)'
  BY DEF Migrate!Registered, Migrate!EntryDue
<1> QED
  BY <1>1, <1>2, <1>3 DEF Migrate!HashSound

(* The mover works on one hash. *)
LEMMA OneMoves ==
    ASSUME Migrate!PassSound, NEW h \in Hashes, NEW k \in Hashes \ {h},
           v9 = None \/ \E step \in {"unlink", "magnet", "pending"} : v9 = <<h, step>>
    PROVE  ~Migrate!MoveSound(k)
<1>1. ASSUME NEW s \in {"unlink", "magnet", "pending"}, NEW r \in {"unlink", "magnet", "pending"}
      PROVE  <<k, s>> # <<h, r>> /\ <<k, s>> # None
  BY MigrateAssumption
<1> QED
  BY <1>1 DEF Migrate!MoveSound

(* The scan at the start. *)
LEMMA StartSound ==
    ASSUME Migrate!Inductive, Migrate!Start
    PROVE  Migrate!PassSound' /\ \A h \in Hashes : Migrate!HashSound(h)'
<1>0. Migrate!TypeOK /\ Migrate!PassSound
  BY DEF Migrate!Inductive
<1>1. v9 = None /\ v9' = None
  BY <1>0 DEF Migrate!Start, Migrate!PassSound
<1>2. v6' = (IF v5 THEN "restore" ELSE "entries") /\ v5' = v5
  BY DEF Migrate!Start
<1>3. Migrate!PassSound'
  BY <1>0, <1>1, <1>2 DEF Migrate!PassSound, Migrate!TypeOK
<1>4. ASSUME NEW h \in Hashes PROVE Migrate!HashSound(h)'
  <2>1. Migrate!HashSound(h) /\ v1[h] \in SUBSET {"torrent", "magnet"}
    BY DEF Migrate!Inductive, Migrate!TypeOK
  <2>2. v7'[h] = IF v5 THEN None ELSE Migrate!KindOf(v1[h])
    BY DEF Migrate!Start
  <2>3. /\ v1' = v1 /\ v2' = v2 /\ v3' = v3 /\ v4' = v4
        /\ v10' = v10 /\ v11' = v11 /\ (h \in v8' <=> v7'[h] # None)
    BY DEF Migrate!Start
  <2>4. Migrate!KindsKept(h)'
    BY <2>1, <2>2, <2>3, KindFacts, MigrateAssumption DEF Migrate!HashSound,
       Migrate!KindsKept
  <2>5. Migrate!Scanned(h)'
    BY <1>2, <2>1, <2>2, <2>3, MigrateAssumption DEF Migrate!HashSound, Migrate!Scanned
  <2>6. Migrate!Registered(h) => Migrate!Registered(h)'
    BY <1>2, <2>3, MigrateAssumption DEF Migrate!Registered, Migrate!EntryDue
  <2> QED
    BY <1>2, <2>1, <2>3, <2>4, <2>5, <2>6 DEF Migrate!HashSound
<1> QED
  BY <1>3, <1>4

(* A pass of the loop over the hashes ends. *)
LEMMA PassEnds ==
    ASSUME Migrate!Inductive, Migrate!PassDone
    PROVE  Migrate!PassSound' /\ \A h \in Hashes : Migrate!HashSound(h)'
<1>0. Migrate!TypeOK /\ Migrate!PassSound
  BY DEF Migrate!Inductive
<1>1. /\ v9 = None /\ v9' = None /\ v8 = {} /\ ~v5
      /\ v1' = v1 /\ v2' = v2 /\ v3' = v3 /\ v4' = v4
      /\ v10' = v10 /\ v11' = v11 /\ v5' = v5 /\ v7' = v7
  BY <1>0 DEF Migrate!PassDone, Migrate!PassSound, Migrate!disk
<1>2. \/ v6 = "entries" /\ v6' = "move" /\ v8' = {h \in Hashes : v7[h] # None}
      \/ v6 = "move" /\ v6' = "marker" /\ v8' = {}
  BY AfterFacts DEF Migrate!PassDone
<1>3. Migrate!PassSound'
  BY <1>1, <1>2 DEF Migrate!PassSound
<1>4. ASSUME NEW h \in Hashes PROVE Migrate!HashSound(h)'
  <2>1. Migrate!HashSound(h) /\ v1[h] \in SUBSET {"torrent", "magnet"}
    BY DEF Migrate!Inductive, Migrate!TypeOK
  <2>2. Migrate!KindsKept(h)'
    BY <1>1, <2>1 DEF Migrate!HashSound, Migrate!KindsKept
  <2>3. Migrate!Scanned(h)'
    BY <1>1, <1>2, <2>1, KindFacts DEF Migrate!HashSound, Migrate!Scanned
  <2>4. Migrate!Registered(h) => Migrate!Registered(h)'
    BY <1>1, <1>2 DEF Migrate!Registered, Migrate!EntryDue
  <2> QED
    BY <1>1, <2>1, <2>2, <2>3, <2>4 DEF Migrate!HashSound
<1> QED
  BY <1>3, <1>4

(* The marker is written. *)
LEMMA MarkerSound ==
    ASSUME Migrate!Inductive, Migrate!WriteMarker
    PROVE  Migrate!PassSound' /\ \A h \in Hashes : Migrate!HashSound(h)'
<1>0. Migrate!TypeOK /\ Migrate!PassSound
  BY DEF Migrate!Inductive
<1>1. /\ v9 = None /\ v9' = None /\ v5' = TRUE /\ v6 = "marker" /\ v6' = "restore"
      /\ v1' = v1 /\ v2' = v2 /\ v3' = v3 /\ v4' = v4
      /\ v10' = v10 /\ v11' = v11 /\ v7' = v7
  BY <1>0, AfterFacts DEF Migrate!WriteMarker, Migrate!PassSound
<1>2. Migrate!PassSound'
  BY <1>1 DEF Migrate!PassSound
<1>3. ASSUME NEW h \in Hashes PROVE Migrate!HashSound(h)'
  <2>1. Migrate!HashSound(h)
    BY DEF Migrate!Inductive
  <2>2. Migrate!KindsKept(h)'
    BY <1>1, <2>1 DEF Migrate!HashSound, Migrate!KindsKept
  <2>3. Migrate!Scanned(h)'
    BY <1>1, <2>1 DEF Migrate!HashSound, Migrate!Scanned
  <2>4. Migrate!Registered(h) => Migrate!Registered(h)'
    BY <1>1 DEF Migrate!Registered, Migrate!EntryDue
  <2> QED
    BY <1>1, <2>1, <2>2, <2>3, <2>4 DEF Migrate!HashSound
<1> QED
  BY <1>2, <1>3

(* The process dies, or the start fails. *)
LEMMA CrashSound ==
    ASSUME Migrate!Inductive, Migrate!Crash
    PROVE  Migrate!PassSound' /\ \A h \in Hashes : Migrate!HashSound(h)'
<1>1. /\ v9' = None /\ v6' = "down" /\ v7' = [h \in Hashes |-> None] /\ v8' = {}
      /\ v1' = v1 /\ v2' = v2 /\ v3' = v3 /\ v4' = v4
      /\ v10' = v10 /\ v11' = v11 /\ v5' = v5
  BY DEF Migrate!Crash, Migrate!disk
<1>2. Migrate!PassSound'
  BY <1>1 DEF Migrate!PassSound
<1>3. ASSUME NEW h \in Hashes PROVE Migrate!HashSound(h)'
  <2>1. Migrate!HashSound(h) /\ v7'[h] = None
    BY <1>1 DEF Migrate!Inductive
  <2>2. Migrate!KindsKept(h)'
    BY <1>1, <2>1, MigrateAssumption DEF Migrate!HashSound, Migrate!KindsKept
  <2>3. Migrate!Scanned(h)'
    BY <1>1, <2>1 DEF Migrate!HashSound, Migrate!Scanned
  <2>4. Migrate!Registered(h) => Migrate!Registered(h)'
    BY <1>1, <2>1 DEF Migrate!Registered, Migrate!EntryDue
  <2> QED
    BY <1>1, <2>1, <2>2, <2>3, <2>4 DEF Migrate!HashSound
<1> QED
  BY <1>2, <1>3

(* The entry of a hash is written. *)
LEMMA EntrySound ==
    ASSUME Migrate!Inductive, NEW h \in Hashes, Migrate!WriteEntry(h)
    PROVE  Migrate!PassSound' /\ \A k \in Hashes : Migrate!HashSound(k)'
<1>0. Migrate!TypeOK /\ Migrate!PassSound
  BY DEF Migrate!Inductive
<1>1. /\ v9 = None /\ v9' = None /\ v6 = "entries" /\ v6' = v6 /\ h \in v8
      /\ v1' = v1 /\ v2' = v2 /\ v3' = v3 /\ v7' = v7
      /\ v10' = v10 /\ v11' = v11 /\ v5' = v5 /\ v8' = v8 \ {h}
      /\ v4' = [v4 EXCEPT ![h] = Migrate!MigratedState(v4[h], v7[h])]
  BY <1>0 DEF Migrate!WriteEntry, Migrate!PassSound
<1>2. Migrate!PassSound'
  BY <1>0, <1>1 DEF Migrate!PassSound
<1>3. Migrate!HashSound(h)'
  <2>1. Migrate!HashSound(h) /\ v4'[h] = Migrate!MigratedState(v4[h], v7[h])
    BY <1>0, <1>1 DEF Migrate!Inductive, Migrate!TypeOK
  <2>2. Migrate!KindsKept(h)'
    BY <1>1, <2>1 DEF Migrate!HashSound, Migrate!KindsKept
  <2>3. Migrate!Scanned(h)'
    BY <1>1, <2>1 DEF Migrate!HashSound, Migrate!Scanned
  <2>4. ASSUME h \notin v11 PROVE Migrate!Registered(h)'
    <3>1. Migrate!Registered(h) /\ v7[h] # None /\ v7[h] = Migrate!KindOf(v1[h])
      BY <1>1, <2>1, <2>4 DEF Migrate!HashSound, Migrate!Scanned
    <3>2. v10[h] # None /\ (v7[h] = "torrent" => v10[h] = "torrent")
      BY <2>1, <3>1 DEF Migrate!HashSound, Migrate!KindsKept
    <3>3. v4[h] = "ready" => v10[h] = "torrent"
      BY <3>1, MigrateAssumption DEF Migrate!Registered, Migrate!EntryDue
    <3>4. v4[h] # "deleting"
      BY <3>1, MigrateAssumption DEF Migrate!Registered, Migrate!EntryDue
    <3>5. h \in v2 => v10[h] = "torrent"
      BY <2>1 DEF Migrate!HashSound, Migrate!KindsKept
    <3>6. v10[h] = "torrent" => v7[h] = "torrent" \/ v4[h] = "ready"
      <4>1. "torrent" \in v1[h] => v7[h] = "torrent"
        BY <1>0, <3>1, KindFacts DEF Migrate!TypeOK
      <4>2. h \in v2 => v4[h] = Migrate!EntryDue(h)
        BY <3>1 DEF Migrate!Registered
      <4> QED
        BY <4>1, <4>2, <3>1 DEF Migrate!Registered, Migrate!EntryDue
    <3>7. v4'[h] = Migrate!EntryDue(h)
      BY <2>1, <3>2, <3>3, <3>4, <3>6 DEF Migrate!MigratedState, Migrate!EntryDue
    <3>8. Migrate!EntryDue(h)' = Migrate!EntryDue(h)
      BY <1>1 DEF Migrate!EntryDue
    <3> QED
      BY <1>1, <3>1, <3>2, <3>7, <3>8 DEF Migrate!Registered
  <2>5. h \in v11 => v4'[h] = "deleting"
    BY <1>0, <1>1, <2>1 DEF Migrate!HashSound, Migrate!MigratedState, Migrate!PassSound
  <2> QED
    BY <1>1, <2>1, <2>2, <2>3, <2>4, <2>5 DEF Migrate!HashSound
<1>4. ASSUME NEW k \in Hashes \ {h} PROVE Migrate!HashSound(k)'
  <2>1. ~Migrate!MoveSound(k)
    BY <1>0, <1>1, OneMoves
  <2>2. Migrate!HashSound(k) /\ v4'[k] = v4[k]
    BY <1>0, <1>1 DEF Migrate!Inductive, Migrate!TypeOK
  <2> QED
    BY <1>0, <1>1, <2>1, <2>2, OthersSound
<1> QED
  BY <1>2, <1>3, <1>4

(* What the removal of a file in the old place leaves. *)
LEMMA UnlinkLeaves ==
    ASSUME Migrate!TypeOK, NEW h \in Hashes, NEW file, Migrate!Unlink(h, file)
    PROVE  v1'[h] = v1[h] \ {file} /\ \A k \in Hashes \ {h} : v1'[k] = v1[k]
BY DEF Migrate!Unlink, Migrate!TypeOK

(* What a link or a rename puts in the new place. *)
LEMMA PutPlaces ==
    ASSUME NEW h \in Hashes, Migrate!Put(h)
    PROVE  /\ h \in v2' <=> h \in v2 \/ v7[h] = "torrent"
           /\ h \in v3' <=> h \in v3 \/ v7[h] # "torrent"
           /\ \A k \in Hashes \ {h} :
                (k \in v2' <=> k \in v2) /\ (k \in v3' <=> k \in v3)
BY DEF Migrate!Put

(* A hash whose file is to be moved, and what is known of it. *)
LEMMA FileKnown ==
    ASSUME Migrate!Inductive, NEW h \in Hashes, v6 = "move", h \in v8,
           v9 = None \/ v9 = <<h, "unlink">>
    PROVE  /\ v7[h] \in {"torrent", "magnet"} /\ v7[h] = Migrate!KindOf(v1[h])
           /\ v1[h] \in SUBSET {"torrent", "magnet"} /\ v7[h] \in v1[h]
           /\ v7[h] = "magnet" => v1[h] = {"magnet"}
           /\ v7[h] = "torrent" => v10[h] = "torrent"
           /\ v10[h] = "magnet" => v7[h] = "magnet"
           /\ v10[h] # None /\ ~v5 /\ Migrate!HashSound(h)
<1>0. Migrate!TypeOK /\ Migrate!PassSound /\ Migrate!HashSound(h)
  BY DEF Migrate!Inductive
<1>1. v7[h] # None /\ ~v5
  BY <1>0 DEF Migrate!HashSound, Migrate!Scanned, Migrate!PassSound
<1>2. v7[h] = Migrate!KindOf(v1[h])
  <2>1. <<h, "unlink">> # <<h, "magnet">> /\ <<h, "unlink">> # <<h, "pending">>
    OBVIOUS
  <2>2. \A step \in {"unlink", "magnet", "pending"} : <<h, step>> # None
    BY MigrateAssumption
  <2> QED
    BY <1>0, <2>1, <2>2 DEF Migrate!HashSound, Migrate!Scanned, Migrate!MoveSound
<1>3. v1[h] \in SUBSET {"torrent", "magnet"} /\ v10[h] \in {None, "torrent", "magnet"}
  BY <1>0 DEF Migrate!TypeOK
<1>4. /\ v7[h] \in {"torrent", "magnet"}
      /\ v7[h] = "torrent" => "torrent" \in v1[h]
      /\ v7[h] = "magnet" => v1[h] = {"magnet"}
  BY <1>1, <1>2, <1>3, KindFacts
<1>5. (v7[h] = "torrent" => v10[h] = "torrent") /\ v10[h] # None
  BY <1>0, <1>1 DEF Migrate!HashSound, Migrate!KindsKept
<1> QED
  BY <1>0, <1>1, <1>2, <1>3, <1>4, <1>5

(* A file is put in its new place, and the old one is not removed yet. *)
LEMMA LinkSound ==
    ASSUME Migrate!Inductive, NEW h \in Hashes, Migrate!Link(h)
    PROVE  Migrate!PassSound' /\ \A k \in Hashes : Migrate!HashSound(k)'
<1>0. Migrate!TypeOK /\ Migrate!PassSound
  BY DEF Migrate!Inductive
<1>1. /\ v9 = None /\ v9' = <<h, "unlink">> /\ v6 = "move" /\ h \in v8 /\ Migrate!Put(h)
      /\ v1' = v1 /\ v4' = v4 /\ v5' = v5 /\ v6' = v6 /\ v7' = v7
      /\ v8' = v8 /\ v10' = v10 /\ v11' = v11
  BY DEF Migrate!Link, Migrate!AtFile
<1>2. /\ v7[h] \in {"torrent", "magnet"} /\ v7[h] = Migrate!KindOf(v1[h])
      /\ v7[h] = "torrent" => v10[h] = "torrent"
      /\ v10[h] = "magnet" => v7[h] = "magnet"
      /\ v10[h] # None /\ ~v5 /\ Migrate!HashSound(h)
  BY <1>1, FileKnown
<1>3. /\ h \in v2' <=> h \in v2 \/ v7[h] = "torrent"
      /\ h \in v3' <=> h \in v3 \/ v7[h] # "torrent"
  BY <1>1, PutPlaces
<1>4. Migrate!MoveSound(h)'
  BY <1>1, <1>2, <1>3 DEF Migrate!MoveSound, Migrate!InPlace
<1>5. Migrate!PassSound'
  BY <1>0, <1>1, <1>4 DEF Migrate!PassSound
<1>6. Migrate!HashSound(h)'
  <2>1. Migrate!KindsKept(h)'
    BY <1>1, <1>2, <1>3 DEF Migrate!HashSound, Migrate!KindsKept
  <2>2. Migrate!Scanned(h)'
    BY <1>1, <1>2, <1>4 DEF Migrate!HashSound, Migrate!Scanned
  <2>3. ASSUME h \notin v11 PROVE Migrate!Registered(h)'
    <3>1. /\ Migrate!Registered(h) /\ v4[h] = Migrate!EntryDue(h)
          /\ Migrate!EntryDue(h)' = Migrate!EntryDue(h)
      BY <1>1, <1>2, <2>3, MigrateAssumption DEF Migrate!HashSound, Migrate!Registered,
         Migrate!EntryDue
    <3> QED
      BY <1>1, <1>3, <3>1 DEF Migrate!Registered
  <2>4. h \in v11 => v4'[h] = "deleting"
    BY <1>1, <1>2 DEF Migrate!HashSound
  <2> QED
    BY <1>1, <2>1, <2>2, <2>3, <2>4 DEF Migrate!HashSound
<1>7. ASSUME NEW k \in Hashes \ {h} PROVE Migrate!HashSound(k)'
  <2>1. ~Migrate!MoveSound(k)
    BY <1>0, <1>1, OneMoves
  <2>2. Migrate!HashSound(k) /\ (k \in v2' <=> k \in v2) /\ (k \in v3' <=> k \in v3)
    BY <1>1, PutPlaces DEF Migrate!Inductive
  <2> QED
    BY <1>0, <1>1, <2>1, <2>2, OthersSound
<1> QED
  BY <1>5, <1>6, <1>7

(* A file leaves its old place, the new one having it. *)
LEMMA UnlinkSound ==
    ASSUME Migrate!Inductive, NEW h \in Hashes, v6 = "move", h \in v8,
           v9 = None \/ v9 = <<h, "unlink">>, Migrate!Unlink(h, v7[h]), Migrate!Moved(h),
           v7[h] = "torrent" => h \in v2', v7[h] # "torrent" => h \in v3',
           h \in v2 => h \in v2', h \in v2' => h \in v2 \/ v7[h] = "torrent",
           h \in v3 => h \in v3', h \in v3' => h \in v3 \/ v7[h] # "torrent",
           \A k \in Hashes \ {h} :
               (k \in v2' <=> k \in v2) /\ (k \in v3' <=> k \in v3),
           UNCHANGED <<v4, v5, v6, v7, v10, v11>>
    PROVE  Migrate!PassSound' /\ \A k \in Hashes : Migrate!HashSound(k)'
<1>0. Migrate!TypeOK /\ Migrate!PassSound
  BY DEF Migrate!Inductive
<1>1. /\ v7[h] \in {"torrent", "magnet"} /\ v7[h] = Migrate!KindOf(v1[h])
      /\ v7[h] = "torrent" => v10[h] = "torrent"
      /\ v7[h] = "magnet" => v1[h] = {"magnet"}
      /\ v10[h] = "magnet" => v7[h] = "magnet"
      /\ v10[h] # None /\ ~v5 /\ Migrate!HashSound(h)
  BY FileKnown
<1>2. v1'[h] = v1[h] \ {v7[h]} /\ \A k \in Hashes \ {h} : v1'[k] = v1[k]
  BY <1>0, UnlinkLeaves
<1>3. \/ v7[h] = "torrent" /\ v9' = <<h, "magnet">> /\ v8' = v8
      \/ v7[h] # "torrent" /\ v9' = None /\ v8' = v8 \ {h} /\ v1'[h] = {}
  BY <1>1, <1>2 DEF Migrate!Moved
<1>4. v7[h] = "torrent" => Migrate!MoveSound(h)'
  BY <1>2, <1>3 DEF Migrate!MoveSound
<1>5. Migrate!PassSound'
  BY <1>0, <1>1, <1>3, <1>4 DEF Migrate!PassSound
<1>6. Migrate!HashSound(h)'
  <2>1. Migrate!KindsKept(h)'
    BY <1>1, <1>2 DEF Migrate!HashSound, Migrate!KindsKept
  <2>2. Migrate!Scanned(h)'
    BY <1>1, <1>3, <1>4 DEF Migrate!Scanned
  <2>3. ASSUME h \notin v11 PROVE Migrate!Registered(h)'
    <3>1. /\ Migrate!Registered(h) /\ v4[h] = Migrate!EntryDue(h)
          /\ Migrate!EntryDue(h)' = Migrate!EntryDue(h)
      BY <1>1, <2>3, MigrateAssumption DEF Migrate!HashSound, Migrate!Registered,
         Migrate!EntryDue
    <3>2. /\ v10[h] = "torrent" => h \in v2' \/ "torrent" \in v1'[h]
          /\ v10[h] = "magnet" => h \in v3' \/ "magnet" \in v1'[h]
      BY <1>1, <1>2, <3>1 DEF Migrate!Registered
    <3> QED
      BY <3>1, <3>2, <1>1 DEF Migrate!Registered
  <2>4. h \in v11 => v4'[h] = "deleting"
    BY <1>1 DEF Migrate!HashSound
  <2> QED
    BY <1>1, <2>1, <2>2, <2>3, <2>4 DEF Migrate!HashSound
<1>7. ASSUME NEW k \in Hashes \ {h} PROVE Migrate!HashSound(k)'
  <2>1. ~Migrate!MoveSound(k)
    BY <1>0, OneMoves
  <2>2. Migrate!HashSound(k) /\ (k \in v8' <=> k \in v8)
    BY <1>3 DEF Migrate!Inductive
  <2> QED
    BY <1>0, <1>2, <2>1, <2>2, OthersSound
<1> QED
  BY <1>5, <1>6, <1>7

(* A rename, or the removal of what is in place already or has been linked. *)
LEMMA FileSound ==
    ASSUME Migrate!Inductive, NEW h \in Hashes, Migrate!Rename(h) \/ Migrate!RemoveSource(h)
    PROVE  Migrate!PassSound' /\ \A k \in Hashes : Migrate!HashSound(k)'
<1>1. CASE Migrate!Rename(h)
  <2>1. v6 = "move" /\ h \in v8 /\ v9 = None /\ Migrate!Unlink(h, v7[h]) /\ Migrate!Moved(h)
    BY <1>1 DEF Migrate!Rename, Migrate!AtFile
  <2>2. UNCHANGED <<v4, v5, v6, v7, v10, v11>>
    BY <1>1 DEF Migrate!Rename
  <2>3. /\ h \in v2' <=> h \in v2 \/ v7[h] = "torrent"
        /\ h \in v3' <=> h \in v3 \/ v7[h] # "torrent"
        /\ \A k \in Hashes \ {h} :
             (k \in v2' <=> k \in v2) /\ (k \in v3' <=> k \in v3)
    BY <1>1, PutPlaces DEF Migrate!Rename
  <2> QED
    BY <2>1, <2>2, <2>3, UnlinkSound
<1>2. CASE Migrate!RemoveSource(h)
  <2>0. Migrate!PassSound
    BY DEF Migrate!Inductive
  <2>1. /\ v6 = "move" /\ Migrate!Unlink(h, v7[h]) /\ Migrate!Moved(h) /\ v2' = v2 /\ v3' = v3
        /\ UNCHANGED <<v4, v5, v6, v7, v10, v11>>
    BY <1>2 DEF Migrate!RemoveSource
  <2>2. h \in v8 /\ Migrate!InPlace(h) /\ (v9 = None \/ v9 = <<h, "unlink">>)
    <3>1. CASE Migrate!AtFile(h) /\ Migrate!InPlace(h)
      BY <3>1 DEF Migrate!AtFile
    <3>2. CASE v9 = <<h, "unlink">>
      <4>1. PICK k \in v8 : Migrate!MoveSound(k)
        BY <2>0, <3>2, MigrateAssumption DEF Migrate!PassSound
      <4>2. k = h /\ Migrate!InPlace(k)
        <5>1. \A step \in {"magnet", "pending"} : <<h, "unlink">> # <<k, step>>
          OBVIOUS
        <5>2. <<h, "unlink">> = <<k, "unlink">> => h = k
          OBVIOUS
        <5> QED
          BY <3>2, <4>1, <5>1, <5>2 DEF Migrate!MoveSound
      <4> QED
        BY <3>2, <4>1, <4>2
    <3> QED
      BY <1>2, <3>1, <3>2 DEF Migrate!RemoveSource
  <2>3. (v7[h] = "torrent" => h \in v2) /\ (v7[h] # "torrent" => h \in v3)
    BY <2>2 DEF Migrate!InPlace
  <2> QED
    BY <2>1, <2>2, <2>3, UnlinkSound
<1> QED
  BY <1>1, <1>2

(* The mover at the files that follow the torrent file. *)
LEMMA StepKnown ==
    ASSUME Migrate!PassSound, NEW h \in Hashes, NEW step \in {"magnet", "pending"},
    v9 = <<h, step>>
    PROVE  /\ v6 = "move" /\ h \in v8 /\ ~v5 /\ v7[h] = "torrent"
           /\ "torrent" \notin v1[h] /\ h \in v2
           /\ step = "pending" => v1[h] = {}
<1>1. v6 = "move" /\ ~v5 /\ \E k \in v8 : Migrate!MoveSound(k)
  BY MigrateAssumption DEF Migrate!PassSound
<1>2. PICK k \in v8 : Migrate!MoveSound(k)
  BY <1>1
<1>3. \A s \in {"unlink", "magnet", "pending"} : <<h, step>> = <<k, s>> => h = k /\ step = s
  OBVIOUS
<1> QED
  BY <1>1, <1>2, <1>3 DEF Migrate!MoveSound

(* The magnet of a torrent whose file has moved is removed. *)
LEMMA MagnetSound ==
    ASSUME Migrate!Inductive, NEW h \in Hashes,
           Migrate!RemoveLegacyMagnet(h) \/ Migrate!RemovePending(h)
    PROVE  Migrate!PassSound' /\ \A k \in Hashes : Migrate!HashSound(k)'
<1>0. Migrate!TypeOK /\ Migrate!PassSound /\ Migrate!HashSound(h)
  BY DEF Migrate!Inductive
<1>1. /\ v6 = "move" /\ h \in v8 /\ ~v5 /\ v7[h] = "torrent"
      /\ "torrent" \notin v1[h] /\ h \in v2
      /\ UNCHANGED <<v4, v5, v6, v7, v10, v11, v2>>
      /\ \E step \in {"magnet", "pending"} : v9 = <<h, step>>
  BY <1>0, StepKnown DEF Migrate!RemoveLegacyMagnet, Migrate!RemovePending
<1>2. v1'[h] = {} /\ \A k \in Hashes \ {h} : v1'[k] = v1[k]
  <2>1. CASE Migrate!RemoveLegacyMagnet(h)
    <3>1. v1'[h] = v1[h] \ {"magnet"} /\ \A k \in Hashes \ {h} : v1'[k] = v1[k]
      BY <1>0, <2>1, UnlinkLeaves DEF Migrate!RemoveLegacyMagnet
    <3>2. v1[h] \in SUBSET {"torrent", "magnet"}
      BY <1>0 DEF Migrate!TypeOK
    <3> QED
      BY <1>1, <3>1, <3>2
  <2>2. CASE Migrate!RemovePending(h)
    BY <1>0, <2>2, StepKnown DEF Migrate!RemovePending
  <2> QED
    BY <2>1, <2>2
<1>3. /\ h \in v3' => h \in v3
      /\ \A k \in Hashes \ {h} : k \in v3' <=> k \in v3
  BY DEF Migrate!RemoveLegacyMagnet, Migrate!RemovePending
<1>4. \/ v9' = <<h, "pending">> /\ v8' = v8
      \/ v9' = None /\ v8' = v8 \ {h}
  BY DEF Migrate!RemoveLegacyMagnet, Migrate!RemovePending
<1>5. v9' = <<h, "pending">> => Migrate!MoveSound(h)'
  BY <1>1, <1>2 DEF Migrate!MoveSound
<1>6. Migrate!PassSound'
  BY <1>0, <1>1, <1>4, <1>5 DEF Migrate!PassSound
<1>7. v10[h] = "torrent"
  BY <1>0, <1>1 DEF Migrate!HashSound, Migrate!KindsKept
<1>8. Migrate!HashSound(h)'
  <2>1. Migrate!KindsKept(h)'
    BY <1>1, <1>7, MigrateAssumption DEF Migrate!KindsKept
  <2>2. Migrate!Scanned(h)'
    BY <1>1, <1>2, <1>4, <1>5, MigrateAssumption DEF Migrate!Scanned
  <2>3. ASSUME h \notin v11 PROVE Migrate!Registered(h)'
    <3>1. /\ Migrate!Registered(h) /\ v4[h] = Migrate!EntryDue(h)
          /\ Migrate!EntryDue(h)' = Migrate!EntryDue(h)
      BY <1>0, <1>1, <2>3 DEF Migrate!HashSound, Migrate!Registered, Migrate!EntryDue
    <3> QED
      BY <1>1, <1>7, <3>1, MigrateAssumption DEF Migrate!Registered
  <2>4. h \in v11 => v4'[h] = "deleting"
    BY <1>0, <1>1 DEF Migrate!HashSound
  <2> QED
    BY <1>1, <2>1, <2>2, <2>3, <2>4 DEF Migrate!HashSound
<1>9. ASSUME NEW k \in Hashes \ {h} PROVE Migrate!HashSound(k)'
  <2>1. ~Migrate!MoveSound(k)
    BY <1>0, <1>1, OneMoves
  <2>2. Migrate!HashSound(k) /\ (k \in v8' <=> k \in v8)
    BY <1>4 DEF Migrate!Inductive
  <2> QED
    BY <1>0, <1>1, <1>2, <1>3, <2>1, <2>2, OthersSound
<1> QED
  BY <1>6, <1>8, <1>9

(* Deletions are finished, and what the entries ask for is there. *)
LEMMA RestoreSound ==
    ASSUME Migrate!Inductive, NEW stuck \in SUBSET Hashes, Migrate!Restore(stuck)
    PROVE  Migrate!PassSound' /\ \A k \in Hashes : Migrate!HashSound(k)'
<1> DEFINE deleted == {h \in Hashes \ stuck : v4[h] = "deleting"}
           accepted == \A h \in Hashes : Migrate!Restorable(h)
           restored == {h \in v2 : accepted /\ v4[h] \in {"adding", "ready"}}
<1>0. Migrate!TypeOK /\ Migrate!PassSound
  BY DEF Migrate!Inductive
<1>1. /\ v6 = "restore" /\ v5 /\ v9 = None
      /\ UNCHANGED <<v1, v5, v7, v8, v9, v10, v11>>
  BY <1>0 DEF Migrate!Restore, Migrate!PassSound
<1>2. \A h \in Hashes : Migrate!Restorable(h)
  <2>1. SUFFICES ASSUME NEW h \in Hashes PROVE Migrate!Restorable(h)
    OBVIOUS
  <2>2. Migrate!HashSound(h) /\ v1[h] = {}
    BY <1>1 DEF Migrate!Inductive, Migrate!HashSound, Migrate!Scanned
  <2>3. CASE h \in v11
    BY <2>2, <2>3, MigrateAssumption DEF Migrate!HashSound, Migrate!Restorable
  <2>4. CASE h \notin v11
    <3>1. Migrate!Registered(h) /\ v10[h] \in {None, "torrent", "magnet"}
      BY <1>0, <2>2, <2>4 DEF Migrate!HashSound, Migrate!TypeOK
    <3>2. CASE v10[h] = "torrent"
      BY <2>2, <3>1, <3>2 DEF Migrate!Registered, Migrate!Restorable
    <3>3. CASE v10[h] = "magnet"
      BY <2>2, <3>1, <3>3, MigrateAssumption DEF Migrate!Registered, Migrate!Restorable,
         Migrate!EntryDue
    <3>4. CASE v10[h] = None
      BY <3>1, <3>4, MigrateAssumption DEF Migrate!Registered, Migrate!Restorable
    <3> QED
      BY <3>1, <3>2, <3>3, <3>4
  <2> QED
    BY <2>3, <2>4
<1>3. /\ v6' = "active" /\ v2' = v2 \ deleted
      /\ v3' = v3 \ (deleted \cup restored)
      /\ v4' = [h \in Hashes |-> IF h \in deleted THEN None
                                    ELSE IF h \in restored THEN "ready" ELSE v4[h]]
  BY <1>2 DEF Migrate!Restore
<1>4. Migrate!PassSound'
  BY <1>1, <1>3 DEF Migrate!PassSound
<1>5. ASSUME NEW h \in Hashes PROVE Migrate!HashSound(h)'
  <2>1. Migrate!HashSound(h) /\ v1[h] = {}
    BY <1>1 DEF Migrate!Inductive, Migrate!HashSound, Migrate!Scanned
  <2>2. Migrate!KindsKept(h)'
    BY <1>1, <1>3, <2>1 DEF Migrate!HashSound, Migrate!KindsKept
  <2>3. Migrate!Scanned(h)'
    BY <1>1, <1>3, <2>1 DEF Migrate!Scanned
  <2>4. ASSUME h \notin v11 PROVE Migrate!Registered(h)'
    <3>1. Migrate!Registered(h) /\ Migrate!EntryDue(h)' = Migrate!EntryDue(h)
      BY <1>1, <2>1, <2>4 DEF Migrate!HashSound, Migrate!EntryDue
    <3>2. h \notin deleted
      BY <3>1, MigrateAssumption DEF Migrate!Registered, Migrate!EntryDue
    <3>3. h \in restored => v10[h] = "torrent" /\ v4[h] = "ready"
      BY <2>1, <3>1 DEF Migrate!HashSound, Migrate!KindsKept, Migrate!Registered,
         Migrate!EntryDue
    <3>4. v4'[h] = v4[h] /\ (h \in v2' <=> h \in v2)
      BY <1>3, <3>2, <3>3
    <3>5. v10[h] # "torrent" => (h \in v3' <=> h \in v3)
      BY <1>3, <3>2, <3>3
    <3> HIDE DEF deleted, restored
    <3>6. v6' = "active" /\ UNCHANGED <<v1, v7, v10>>
      BY <1>1, <1>3
    <3> QED
      BY <3>1, <3>4, <3>5, <3>6 DEF Migrate!Registered
  <2>5. ASSUME h \in v11
        PROVE  v4'[h] = "deleting" \/ (v4'[h] = None /\ h \notin v2' \cup v3')
    <3>1. CASE v4[h] = "deleting"
      BY <1>3, <3>1
    <3>2. CASE v4[h] = None /\ h \notin v2 \cup v3
      BY <1>3, <3>2
    <3> QED
      BY <2>1, <2>5, <3>1, <3>2 DEF Migrate!HashSound
  <2> QED
    BY <1>1, <2>1, <2>2, <2>3, <2>4, <2>5 DEF Migrate!HashSound
<1> QED
  BY <1>4, <1>5

(* Every step of the start keeps the invariant, *)
LEMMA MigrateNext == Migrate!Inductive /\ Migrate!Next => Migrate!Inductive'
<1> SUFFICES ASSUME Migrate!Inductive, Migrate!Next PROVE Migrate!Inductive'
  OBVIOUS
<1>1. Migrate!TypeOK'
  BY MigrateTypes DEF Migrate!Inductive
<1>2. Migrate!PassSound' /\ \A h \in Hashes : Migrate!HashSound(h)'
  <2>1. ASSUME NEW h \in Hashes,
               \/ Migrate!WriteEntry(h) \/ Migrate!Rename(h) \/ Migrate!Link(h)
               \/ Migrate!RemoveSource(h) \/ Migrate!RemoveLegacyMagnet(h) \/ Migrate!RemovePending(h)
        PROVE  Migrate!PassSound' /\ \A k \in Hashes : Migrate!HashSound(k)'
    BY <2>1, EntrySound, LinkSound, FileSound, MagnetSound
  <2> QED
    BY <2>1, StartSound, PassEnds, MarkerSound, CrashSound, RestoreSound DEF Migrate!Next
<1> QED
  BY <1>1, <1>2 DEF Migrate!Inductive

(* which gives what the migration promises. *)
LEMMA MigrateSafe == Migrate!Inductive => Migrate!MigratedWhole /\ Migrate!DeletedStaysDeleted
<1> SUFFICES ASSUME Migrate!Inductive PROVE Migrate!MigratedWhole /\ Migrate!DeletedStaysDeleted
  OBVIOUS
<1>1. ASSUME NEW h \in Hashes \ v11
      PROVE  /\ v10[h] = "torrent" => h \in v2 \/ "torrent" \in v1[h]
             /\ v10[h] = "magnet" => h \in v3 \/ "magnet" \in v1[h]
             /\ v6 # "refused"
             /\ v6 = "active" => /\ v10[h] = "torrent" => v4[h] = "ready" /\ h \in v2
                                 /\ v10[h] = "magnet" => v4[h] = "adding" /\ h \in v3
                                 /\ v1[h] = {}
  <2>1. Migrate!Registered(h) /\ Migrate!Scanned(h) /\ Migrate!PassSound
    BY DEF Migrate!Inductive, Migrate!HashSound
  <2>2. v6 = "active" => v1[h] = {}
    BY <2>1 DEF Migrate!PassSound, Migrate!Scanned
  <2> QED
    BY <2>1, <2>2 DEF Migrate!PassSound, Migrate!Registered, Migrate!EntryDue
<1>2. Migrate!DeletedStaysDeleted
  BY DEF Migrate!Inductive, Migrate!TypeOK, Migrate!HashSound, Migrate!DeletedStaysDeleted
<1> QED
  BY <1>1, <1>2 DEF Migrate!MigratedWhole

-----------------------------------------------------------------------------
(* The lock on the directory.  That one process manages it follows from who  *)
(* holds the lock (LockHeld); that a client's identity is durable, from what *)
(* each stage has settled (KeySettled, IdSettled).                           *)

(* Initially nobody has started. *)
LEMMA LockInit == Lock!Init => Lock!Inductive
BY SMTT(30) DEF Lock!Init, Lock!Inductive, Lock!TypeOK, Lock!Stages, Lock!Ids, Lock!Keys, Lock!NoMemory, Lock!NoConfig, Lock!FileOf,
       Lock!LockHeld, Lock!KeySettled, Lock!IdSettled, Lock!Idle, Lock!HasKey, Lock!HasId

(* The lock tells who manages the directory. *)
LEMMA LockAdmitsOne ==
    ASSUME Lock!LockHeld PROVE Lock!OneManager
BY DEF Lock!LockHeld, Lock!OneManager, Lock!Idle

(* The stages before the close settle a client's identity. *)
LEMMA SettledIsDurable ==
    ASSUME Lock!KeySettled, Lock!IdSettled PROVE Lock!IdentityDurable
BY DEF Lock!KeySettled, Lock!IdSettled, Lock!IdentityDurable, Lock!HasClient, Lock!HasKey, Lock!HasId

(* A file that is written well, and one that was synced, has its content for *)
(* good.                                                                     *)
LEMMA WrittenOk ==
    ASSUME NEW f, NEW v PROVE Lock!Written(f, v, "ok") = Lock!FileOf(v)
BY DEF Lock!Written, Lock!Renamed, Lock!Synced, Lock!FileOf

(* Syncing the other file changes nothing of one that is durable. *)
LEMMA OtherKept ==
    ASSUME NEW v, NEW o PROVE Lock!OtherSynced(Lock!FileOf(v), o) = Lock!FileOf(v)
BY DEF Lock!OtherSynced, Lock!Synced, Lock!FileOf

(* What a process keeps of its files' values is typed. *)
LEMMA WrittenType ==
    ASSUME NEW S, NEW f \in [now : S, older : SUBSET S], NEW v \in S,
           NEW o \in {"ok", "failed", "unsynced"}
    PROVE  /\ Lock!Written(f, v, o) \in [now : S, older : SUBSET S]
           /\ Lock!OtherSynced(f, o) \in [now : S, older : SUBSET S]
           /\ \A g \in Lock!AfterPowerFailure(f) : g \in [now : S, older : SUBSET S]
BY SMTT(30) DEF Lock!Written, Lock!Renamed, Lock!Synced, Lock!FileOf, Lock!OtherSynced, Lock!AfterPowerFailure

(* Every step keeps the types. *)
LEMMA LockTypes == Lock!TypeOK /\ Lock!Next => Lock!TypeOK'
<1> DEFINE Config == [prefix : PeerPrefixes \cup {None}, signs : BOOLEAN]
           Memory == [id : Lock!Ids, key : Lock!Keys, unsynced : BOOLEAN]
           IdFile == [now : Lock!Ids, older : SUBSET Lock!Ids]
           KeyFile == [now : Lock!Keys, older : SUBSET Lock!Keys]
<1> SUFFICES ASSUME Lock!TypeOK, Lock!Next PROVE Lock!TypeOK'
  OBVIOUS
<1>1. Lock!NoMemory \in Memory /\ Lock!NoConfig \in Config
  BY DEF Lock!Keys, Lock!Ids, Lock!NoMemory, Lock!NoConfig
<1>2. CASE Lock!PowerFailure
  <2>1. v4' \in IdFile
    BY <1>2, WrittenType DEF Lock!PowerFailure, Lock!TypeOK
  <2>2. v5' \in KeyFile
    BY <1>2, WrittenType DEF Lock!PowerFailure, Lock!TypeOK
  <2> QED
    BY <1>1, <1>2, <2>1, <2>2 DEF Lock!PowerFailure, Lock!TypeOK, Lock!Stages
<1>3. ASSUME NEW p \in Processes, NEW c \in [prefix : PeerPrefixes, signs : BOOLEAN],
             Lock!LockInstance(p, c)
      PROVE  Lock!TypeOK'
  BY <1>3 DEF Lock!LockInstance, Lock!TypeOK, Lock!Stages, Lock!Goes
<1>4. ASSUME NEW p \in Processes, NEW ok \in BOOLEAN, Lock!Stage(p, ok) PROVE Lock!TypeOK'
  BY <1>4, SMTT(30) DEF Lock!Stage, Lock!StageAfter, Lock!Fail, Lock!TypeOK, Lock!Stages, Lock!Goes
<1>5. ASSUME NEW p \in Processes, NEW n \in Randoms, NEW o \in {"ok", "failed", "unsynced"},
             Lock!ResolveStreamSigner(p, n, o)
      PROVE  Lock!TypeOK'
  <2>1. v5.now \in Lock!Keys /\ n \in Lock!Keys
    BY DEF Lock!TypeOK, Lock!Keys
  <2>2. v5' \in KeyFile
    <3>1. v5 \in KeyFile
      BY DEF Lock!TypeOK
    <3>2. Lock!Written(v5, n, o) \in KeyFile
      BY <2>1, <3>1, WrittenType
    <3>3. v5' \in {v5, Lock!Written(v5, n, o)}
      BY <1>5 DEF Lock!ResolveStreamSigner
    <3> QED
      BY <3>1, <3>2, <3>3
  <2>3. v4' \in IdFile
    BY <1>5, SMTT(30) DEF Lock!ResolveStreamSigner, Lock!OtherSynced, Lock!Synced, Lock!FileOf, Lock!TypeOK
  <2>4. v6' \in [Processes -> Memory]
    BY <1>5, <2>1, SMTT(30) DEF Lock!ResolveStreamSigner, Lock!TypeOK
  <2> QED
    BY <1>5, <2>2, <2>3, <2>4 DEF Lock!ResolveStreamSigner, Lock!Fail, Lock!TypeOK, Lock!Stages, Lock!Goes
<1>6. ASSUME NEW p \in Processes, NEW n \in Randoms, NEW o \in {"ok", "failed", "unsynced"},
             Lock!ResolvePeerID(p, n, o)
      PROVE  Lock!TypeOK'
  <2> DEFINE id == [prefix |-> v2[p].prefix, random |-> n]
  <2>1. v4.now \in Lock!Ids /\ id \in Lock!Ids
    BY DEF Lock!TypeOK, Lock!Ids
  <2> HIDE DEF id
  <2>2. v4' \in IdFile
    <3>1. v4 \in IdFile
      BY DEF Lock!TypeOK
    <3>2. Lock!Written(v4, id, o) \in IdFile
      BY <2>1, <3>1, WrittenType
    <3>3. v4' \in {v4, Lock!Written(v4, id, o)}
      BY <1>6 DEF Lock!ResolvePeerID, id
    <3> QED
      BY <3>1, <3>2, <3>3
  <2>3. v5' \in KeyFile
    BY <1>6, SMTT(30) DEF Lock!ResolvePeerID, Lock!OtherSynced, Lock!Synced, Lock!FileOf, Lock!TypeOK
  <2>4. v6' \in [Processes -> Memory]
    <3>1. \/ v6' = v6
          \/ v6' = [v6 EXCEPT ![p].id = v4.now,
                                      ![p].unsynced = @ \/ v4.older # {}]
          \/ v6' = [v6 EXCEPT ![p].id = id]
      BY <1>6 DEF Lock!ResolvePeerID, id
    <3>2. v6 \in [Processes -> Memory]
      BY DEF Lock!TypeOK
    <3>3. CASE v6' = [v6 EXCEPT ![p].id = v4.now,
                                        ![p].unsynced = @ \/ v4.older # {}]
      BY <2>1, <3>2, <3>3
    <3>4. CASE v6' = [v6 EXCEPT ![p].id = id]
      BY <2>1, <3>2, <3>4
    <3> QED
      BY <3>1, <3>2, <3>3, <3>4
  <2>5. v1' \in [Processes -> Lock!Stages] /\ v3' \in Processes \cup {None}
    BY <1>6 DEF Lock!ResolvePeerID, Lock!Fail, Lock!TypeOK, Lock!Stages, Lock!Goes
  <2>6. v2' = v2
    BY <1>6 DEF Lock!ResolvePeerID
  <2> QED
    BY <2>2, <2>3, <2>4, <2>5, <2>6 DEF Lock!TypeOK
<1>7. ASSUME NEW p \in Processes, Lock!Restored(p) \/ Lock!Close(p) \/ Lock!CloseClient(p) PROVE Lock!TypeOK'
  <2>1. /\ Lock!Goes(p, "active") \/ Lock!Goes(p, "closing") \/ Lock!Goes(p, "unlock")
        /\ UNCHANGED <<v2, v3, v4, v5, v6>>
    BY <1>7 DEF Lock!Restored, Lock!Close, Lock!CloseClient
  <2>2. v1' \in [Processes -> Lock!Stages]
    BY <2>1 DEF Lock!Goes, Lock!Stages, Lock!TypeOK
  <2> QED
    BY <2>1, <2>2 DEF Lock!TypeOK
<1>8. ASSUME NEW p \in Processes, Lock!ReleaseInstanceLock(p) \/ Lock!Exit(p) PROVE Lock!TypeOK'
  <2>1. Lock!Gone(p) /\ v3' \in {v3, None}
    BY <1>8 DEF Lock!ReleaseInstanceLock, Lock!Exit
  <2>2. v6' \in [Processes -> Memory] /\ v2' \in [Processes -> Config]
    <3> HIDE DEF Memory, Config
    <3>1. v6 \in [Processes -> Memory] /\ v2 \in [Processes -> Config]
      BY DEF Lock!TypeOK, Memory, Config
    <3> QED
      BY <1>1, <2>1, <3>1 DEF Lock!Gone
  <2> QED
    BY <2>1, <2>2 DEF Lock!Gone, Lock!TypeOK, Lock!Stages, Lock!Goes
<1> QED
  BY <1>2, <1>3, <1>4, <1>5, <1>6, <1>7, <1>8 DEF Lock!Next

(* Every step keeps the lock with the process that manages the directory.    *)
LEMMA LockKept ==
    ASSUME Lock!TypeOK, Lock!LockHeld, Lock!Next
    PROVE  Lock!LockHeld'
<1> USE DEF Lock!TypeOK, Lock!LockHeld, Lock!Idle, Lock!Goes
<1>1. CASE Lock!PowerFailure
  BY <1>1 DEF Lock!PowerFailure
<1>2. ASSUME NEW p \in Processes, NEW c \in [prefix : PeerPrefixes, signs : BOOLEAN],
             Lock!LockInstance(p, c)
      PROVE  Lock!LockHeld'
  BY <1>2, LockAssumption DEF Lock!LockInstance
<1>3. ASSUME NEW p \in Processes, NEW ok \in BOOLEAN, Lock!Stage(p, ok) PROVE Lock!LockHeld'
  BY <1>3, SMTT(30) DEF Lock!Stage, Lock!StageAfter, Lock!Fail
<1>4. ASSUME NEW p \in Processes, NEW n \in Randoms, NEW o \in {"ok", "failed", "unsynced"},
             Lock!ResolveStreamSigner(p, n, o) \/ Lock!ResolvePeerID(p, n, o)
      PROVE  Lock!LockHeld'
  BY <1>4, SMTT(30) DEF Lock!ResolveStreamSigner, Lock!ResolvePeerID, Lock!Fail
<1>5. ASSUME NEW p \in Processes, Lock!Restored(p) \/ Lock!Close(p) \/ Lock!CloseClient(p) PROVE Lock!LockHeld'
  BY <1>5 DEF Lock!Restored, Lock!Close, Lock!CloseClient
<1>6. ASSUME NEW p \in Processes, Lock!ReleaseInstanceLock(p) \/ Lock!Exit(p) PROVE Lock!LockHeld'
  BY <1>6, SMTT(30) DEF Lock!ReleaseInstanceLock, Lock!Exit, Lock!Gone
<1> QED
  BY <1>1, <1>2, <1>3, <1>4, <1>5, <1>6, SMTT(30) DEF Lock!Next

(* A process that manages the directory is the only one that does. *)
LEMMA OthersIdle ==
    ASSUME Lock!LockHeld, NEW p \in Processes, NEW q \in Processes,
           v1[p] \notin Lock!Idle, v1[q] \notin Lock!Idle
    PROVE  p = q
BY DEF Lock!LockHeld

(* Every step keeps what the managing process has settled. *)
LEMMA SettledPreserved ==
    ASSUME Lock!Inductive, Lock!Next
    PROVE  Lock!KeySettled' /\ Lock!IdSettled'
<1> USE DEF Lock!Inductive, Lock!TypeOK, Lock!KeySettled, Lock!IdSettled, Lock!Idle, Lock!HasKey, Lock!HasId, Lock!Goes
<1>1. CASE Lock!PowerFailure
  BY <1>1 DEF Lock!PowerFailure
<1>2. ASSUME NEW p \in Processes, NEW c \in [prefix : PeerPrefixes, signs : BOOLEAN],
             Lock!LockInstance(p, c)
      PROVE  Lock!KeySettled' /\ Lock!IdSettled'
  BY <1>2 DEF Lock!LockInstance
<1>3. ASSUME NEW p \in Processes, NEW ok \in BOOLEAN, Lock!Stage(p, ok)
      PROVE  Lock!KeySettled' /\ Lock!IdSettled'
  BY <1>3, SMTT(30) DEF Lock!Stage, Lock!StageAfter, Lock!Fail
<1>4. ASSUME NEW p \in Processes, NEW n \in Randoms, NEW o \in {"ok", "failed", "unsynced"},
             Lock!ResolveStreamSigner(p, n, o)
      PROVE  Lock!KeySettled' /\ Lock!IdSettled'
  <2>1. \A q \in Processes \ {p} : v1[q] \in Lock!Idle /\ v1'[q] = v1[q]
    BY <1>4, OthersIdle DEF Lock!ResolveStreamSigner, Lock!Fail
  <2>2. v1'[p] \notin Lock!HasId
    BY <1>4 DEF Lock!ResolveStreamSigner, Lock!Fail
  <2>3. ASSUME v1'[p] \in Lock!HasKey, ~v6'[p].unsynced PROVE v5' = Lock!FileOf(v6'[p].key)
    BY <1>4, <2>3, WrittenOk, SMTT(30) DEF Lock!ResolveStreamSigner, Lock!Fail, Lock!Adopted, Lock!FileOf
  <2> QED
    BY <2>1, <2>2, <2>3
<1>5. ASSUME NEW p \in Processes, NEW n \in Randoms, NEW o \in {"ok", "failed", "unsynced"},
             Lock!ResolvePeerID(p, n, o)
      PROVE  Lock!KeySettled' /\ Lock!IdSettled'
  <2>1. \A q \in Processes \ {p} : v1[q] \in Lock!Idle /\ v1'[q] = v1[q]
    BY <1>5, OthersIdle DEF Lock!ResolvePeerID, Lock!Fail
  <2>2. ASSUME v1'[p] \in Lock!HasKey, ~v6'[p].unsynced, v2'[p].signs
        PROVE  v5' = Lock!FileOf(v6'[p].key)
    <3>1. v5 = Lock!FileOf(v6[p].key) /\ v6'[p].key = v6[p].key
      BY <1>5, <2>2, SMTT(30) DEF Lock!ResolvePeerID, Lock!Fail
    <3>2. v5' \in {v5, Lock!OtherSynced(v5, o)}
      BY <1>5 DEF Lock!ResolvePeerID
    <3> QED
      BY <3>1, <3>2, OtherKept
  <2>3. ASSUME v1'[p] \in Lock!HasId, ~v6'[p].unsynced PROVE v4' = Lock!FileOf(v6'[p].id)
    <3>1. v1[p] = "identity" /\ v1'[p] # "failed"
      BY <1>5, <2>3 DEF Lock!ResolvePeerID
    <3>2. CASE v4.now # None /\ Lock!HasPrefix(v4.now, v2[p].prefix)
      <4>1. v6'[p].id = v4.now /\ v4.older = {} /\ v4' = v4
        BY <1>5, <2>3, <3>2, SMTT(30) DEF Lock!ResolvePeerID
      <4> QED
        BY <4>1 DEF Lock!FileOf
    <3>3. CASE ~(v4.now # None /\ Lock!HasPrefix(v4.now, v2[p].prefix))
      <4> DEFINE id == [prefix |-> v2[p].prefix, random |-> n]
      <4>1. o = "ok" /\ v4' = Lock!Written(v4, id, o) /\ v6' = [v6 EXCEPT ![p].id = id]
        BY <1>5, <3>1, <3>3 DEF Lock!ResolvePeerID, Lock!Adopted, Lock!Fail
      <4> HIDE DEF id
      <4> QED
        BY <4>1, WrittenOk, SMTT(30)
    <3> QED
      BY <3>2, <3>3
  <2> QED
    BY <2>1, <2>2, <2>3
<1>6. ASSUME NEW p \in Processes, Lock!Restored(p) \/ Lock!Close(p) \/ Lock!CloseClient(p)
      PROVE  Lock!KeySettled' /\ Lock!IdSettled'
  <2>1. v2' = v2 /\ v4' = v4 /\ v5' = v5 /\ v6' = v6
    BY <1>6 DEF Lock!Restored, Lock!Close, Lock!CloseClient
  <2>2. \A q \in Processes :
          /\ v1'[q] \in Lock!HasId => v1[q] \in Lock!HasId
          /\ v1'[q] \in Lock!HasKey => v1[q] \in Lock!HasKey
    BY <1>6 DEF Lock!Restored, Lock!Close, Lock!CloseClient
  <2> HIDE DEF Lock!TypeOK
  <2> QED
    BY <2>1, <2>2
<1>7. ASSUME NEW p \in Processes, Lock!ReleaseInstanceLock(p) \/ Lock!Exit(p)
      PROVE  Lock!KeySettled' /\ Lock!IdSettled'
  <2>1. UNCHANGED <<v4, v5>> /\ v1'[p] = "down"
    BY <1>7 DEF Lock!ReleaseInstanceLock, Lock!Exit, Lock!Gone
  <2>2. \A q \in Processes \ {p} :
          v1'[q] = v1[q] /\ v2'[q] = v2[q] /\ v6'[q] = v6[q]
    BY <1>7 DEF Lock!ReleaseInstanceLock, Lock!Exit, Lock!Gone
  <2> HIDE DEF Lock!TypeOK
  <2> QED
    BY <2>1, <2>2
<1> HIDE DEF Lock!Inductive, Lock!KeySettled, Lock!IdSettled
<1> QED
  BY <1>1, <1>2, <1>3, <1>4, <1>5, <1>6, <1>7 DEF Lock!Next

(* Every step on the directory keeps the invariant. *)
LEMMA LockNext == Lock!Inductive /\ Lock!Next => Lock!Inductive'
BY LockTypes, LockKept, SettledPreserved DEF Lock!Inductive

(* One process manages the directory, and its identity is durable. *)
LEMMA LockSafe == Lock!Inductive => Lock!OneManager /\ Lock!IdentityDurable
BY LockAdmitsOne, SettledIsDurable DEF Lock!Inductive

-----------------------------------------------------------------------------
(* The parts together *)

(* Whichever part was chosen starts in its invariant, *)
LEMMA StateStart ==
    ASSUME Counting, StateInit
    PROVE  StateInductive
BY NamesInit, RateInit, MigrateInit, LockInit DEF StateInit, StateInductive

(* and keeps it, *)
LEMMA StateStep ==
    ASSUME Counting, StateInductive, StateNext
    PROVE  StateInductive'
<1> USE DEF StateInductive
<1>1. CASE component = "names" /\ Names!Next /\ UNCHANGED component
  BY <1>1, NamesNext
<1>2. CASE component = "rate" /\ Rate!Next /\ UNCHANGED <<component, rest10>>
  BY <1>2, RateNext
<1>3. CASE component = "migrate" /\ Migrate!Next /\ UNCHANGED <<component, rest11>>
  BY <1>3, MigrateNext
<1>4. CASE component = "lock" /\ Lock!Next /\ UNCHANGED <<component, rest6>>
  BY <1>4, LockNext
<1> QED
  BY <1>1, <1>2, <1>3, <1>4 DEF StateNext

(* a step of none of its parts included. *)
LEMMA StateStutter ==
    ASSUME StateInductive, UNCHANGED vars
    PROVE  StateInductive'
<1>1. UNCHANGED <<component, v1, v2, v3, v4, v5, v6, v7, v8, v9, v10, v11, v12, v13, v14>>
  BY DEF vars
<1>2. component = "names" => Names!Inductive'
  BY <1>1, NamesStutter DEF StateInductive, Names!vars
<1>3. component = "rate" => Rate!Inductive'
  BY <1>1, RateStutter DEF StateInductive, Rate!vars
<1>4. component = "migrate" => Migrate!Inductive'
  BY <1>1 DEF StateInductive, Migrate!Inductive, Migrate!TypeOK, Migrate!PassSound,
     Migrate!MoveSound, Migrate!InPlace, Migrate!HashSound, Migrate!KindsKept,
     Migrate!Scanned, Migrate!Registered, Migrate!EntryDue
<1>5. component = "lock" => Lock!Inductive'
  BY <1>1 DEF StateInductive, Lock!Inductive, Lock!TypeOK, Lock!LockHeld, Lock!KeySettled,
     Lock!IdSettled
<1> QED
  BY <1>1, <1>2, <1>3, <1>4, <1>5 DEF StateInductive

(* The invariant gives what the parts promise. *)
LEMMA StateSafe ==
    ASSUME Counting, StateInductive
    PROVE  StateTypeOK /\ NamesSound /\ LimitInForce /\ MigrationKeepsAll /\ DirectoryOwned
BY RateSafe, MigrateSafe, LockSafe
DEF StateInductive, StateTypeOK, NamesSound, LimitInForce, MigrationKeepsAll, DirectoryOwned,
    Names!Inductive, Migrate!Inductive, Lock!Inductive

=============================================================================
