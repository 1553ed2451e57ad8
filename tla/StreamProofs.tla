----------------------------- MODULE StreamProofs ----------------------------
(* Proofs about the parts a client that streams passes (StrmCache, Fetcher,  *)
(* AuthService), under Counting.                                             *)
EXTENDS StreamParts, Counting, TLAPS

USE ZenonT(40)

-----------------------------------------------------------------------------
(* The link files of a torrent *)

(* What the component counts is what the theorems on finite sets count. *)
LEMMA StrmCounts == \A S : Strm!Cardinality(S) = Cardinality(S)
BY DEF Strm!Cardinality, Cardinality, Strm!IsFiniteSet, IsFiniteSet

(* What an operation that is over, and an entry that is free, show. *)
LEMMA StrmIdle ==
    /\ Strm!Idle \in Strm!Op /\ Strm!Idle.pc = "idle" /\ Strm!Idle.kind = None /\ Strm!Idle.epoch = 0 /\ Strm!Idle.entry = None
    /\ Strm!NoEntry \in Strm!Entry /\ Strm!NoEntry.projected = None /\ Strm!NoEntry.content = None
<1>1. 0 \in Nat
  BY SMTT(30)
<1> QED
  BY <1>1 DEF Strm!Idle, Strm!NoEntry, Strm!Op, Strm!Entry

(* Nothing is an entry. *)
LEMMA NoneIsNoEntry ==
    ASSUME Counting
    PROVE  None \notin Strm!Entries
<1>1. \A n : n \in Strm!Entries => n \in Nat
  <2>1. Cardinality(Ops) \in Nat
    BY StrmAssumption DEF Counting, CountIsNatural
  <2> QED
    BY StrmCounts, <2>1, SMTT(30) DEF Strm!Entries
<1> QED
  BY <1>1, StrmAssumption

(* Initially nothing is cached and nobody reads. *)
LEMMA StrmInit == Strm!Init => Strm!Inductive
<1> SUFFICES ASSUME Strm!Init PROVE Strm!Inductive
  OBVIOUS
<1>1. 0 \in 0 .. MaxChanges /\ 0 \in Nat /\ 0 <= 0
  BY StrmAssumption, SMTT(30)
<1>2. Strm!TypeOK
  BY <1>1, StrmIdle DEF Strm!Init, Strm!TypeOK, Strm!Empty, Strm!Caches
<1>3. v3.value = None /\ ~v3.slot /\ \A r \in Ops : v3.obs[r] = "none" /\ v5[r] = Strm!Idle
  BY DEF Strm!Init, Strm!Empty
<1>4. Strm!CacheSound
  <2>1. "idle" \notin Strm!Observing /\ "idle" # "project"
    BY DEF Strm!Observing
  <2>2. ASSUME NEW r \in Ops PROVE Strm!ReadSound(r) /\ Strm!AnswerSound(r)
    BY <1>1, <1>3, <2>1, StrmIdle DEF Strm!ReadSound, Strm!AnswerSound, Strm!Init
  <2> QED
    BY <1>1, <1>3, <2>2 DEF Strm!CacheSound, Strm!PlaceholdersOwned, Strm!Init
<1>5. Strm!EntriesSound
  <2>1. Strm!ProjectionFresh
    BY StrmIdle DEF Strm!Init, Strm!ProjectionFresh, Strm!Fresh
  <2>2. ASSUME NEW r \in Ops PROVE Strm!OperandsKnown(v5[r], v4)
    BY <1>3, StrmIdle DEF Strm!OperandsKnown
  <2> QED
    BY <1>3, <2>1, <2>2 DEF Strm!EntriesSound
<1> QED
  BY <1>2, <1>4, <1>5 DEF Strm!Inductive

(* Entries that nobody can reach are garbage: collecting them takes nothing  *)
(* from the cache or a read.                                                 *)
LEMMA CollectingEntries ==
    ASSUME NEW c, NEW entries \in [Strm!Entries -> Strm!Entry], NEW ops \in [Ops -> Strm!Op], Strm!Becomes(c, entries, ops),
           c.value \in Strm!Entries \cup {None},
           c.value # None => entries[c.value].content # None,
           \A e \in Strm!Entries : Strm!Fresh(entries[e]),
           \A q \in Ops : Strm!OperandsKnown(ops[q], entries)
    PROVE  v3' = c /\ v5' = ops /\ v4' \in [Strm!Entries -> Strm!Entry] /\ Strm!EntriesSound'
<1>1. v3' = c /\ v5' = ops /\ v4' \in [Strm!Entries -> Strm!Entry]
  BY StrmIdle DEF Strm!Becomes, Strm!Collected
<1>2. ASSUME NEW e \in Strm!Entries
      PROVE  /\ Strm!Held(e, c, ops) => v4'[e] = entries[e]
             /\ ~Strm!Held(e, c, ops) => v4'[e] = Strm!NoEntry
  BY <1>2 DEF Strm!Becomes, Strm!Collected
<1>3. c.value # None => v4'[c.value].content # None
  <2>1. SUFFICES ASSUME c.value # None PROVE v4'[c.value].content # None
    OBVIOUS
  <2>2. c.value \in Strm!Entries /\ Strm!Held(c.value, c, ops)
    BY <2>1 DEF Strm!Held
  <2>3. v4'[c.value] = entries[c.value]
    BY <2>2, <1>2
  <2>4. entries[c.value].content # None
    BY <2>1
  <2> QED
    BY <2>3, <2>4
<1>4. ASSUME NEW e \in Strm!Entries PROVE Strm!Fresh(v4'[e])
  <2>1. Strm!Fresh(Strm!NoEntry)
    BY StrmIdle DEF Strm!Fresh
  <2>2. v4'[e] = entries[e] \/ v4'[e] = Strm!NoEntry
    BY <1>2
  <2>3. Strm!Fresh(entries[e])
    OBVIOUS
  <2> QED
    BY <2>1, <2>2, <2>3
<1>5. ASSUME NEW q \in Ops PROVE Strm!OperandsKnown(v5'[q], v4')
  <2>1. ops[q] \in Strm!Op /\ Strm!OperandsKnown(ops[q], entries) /\ v5'[q] = ops[q]
    BY <1>1
  <2>2. ops[q].entry # None => ops[q].entry \in Strm!Entries
    BY <2>1 DEF Strm!Op
  <2>3. ops[q].entry # None => v4'[ops[q].entry] = entries[ops[q].entry]
    BY <2>2, <1>2 DEF Strm!Held
  <2> QED
    BY <2>1, <2>3 DEF Strm!OperandsKnown
<1> QED
  BY <1>1, <1>3, <1>4, <1>5 DEF Strm!EntriesSound, Strm!ProjectionFresh

(* A step of a read that leaves the cache alone, and its answer. *)
LEMMA QuietCache ==
    ASSUME NEW r \in Ops, Strm!Inductive, v3' = v3, v6' = v6, v2' = v2,
           \A q \in Ops \ {r} :
              /\ v5'[q].kind = v5[q].kind /\ v5'[q].epoch = v5[q].epoch
              /\ v5'[q].pc = v5[q].pc \/ (v5[q].pc = "pending" /\ v5'[q].pc = "shared"),
           v5'[r].pc # "project", v5'[r].epoch <= v2,
           v5[r].pc \in Strm!Observing <=> v5'[r].pc \in Strm!Observing,
           v5[r].pc \in Strm!Observing => v5'[r].kind = v5[r].kind
    PROVE  Strm!CacheSound'
<1>1. Strm!CacheSound
  BY DEF Strm!Inductive
<1>2. "pending" \in Strm!Observing /\ "shared" \in Strm!Observing
  BY DEF Strm!Observing
<1>3. ASSUME NEW q \in Ops PROVE Strm!ReadSound(q)'
  <2>1. Strm!ReadSound(q)
    BY <1>1 DEF Strm!CacheSound
  <2>2. CASE q = r
    BY <2>1, <2>2 DEF Strm!ReadSound
  <2>3. CASE q # r
    <3>1. v5'[q].kind = v5[q].kind /\ v5'[q].epoch = v5[q].epoch /\ (v5'[q].pc \in Strm!Observing <=> v5[q].pc \in Strm!Observing)
      BY <2>3, <1>2
    <3> QED
      BY <2>1, <3>1 DEF Strm!ReadSound
  <2> QED
    BY <2>2, <2>3
<1>4. ASSUME NEW q \in Ops PROVE Strm!AnswerSound(q)'
  <2>1. Strm!AnswerSound(q)
    BY <1>1 DEF Strm!CacheSound
  <2>2. CASE q = r
    BY <2>2 DEF Strm!AnswerSound
  <2>3. CASE q # r
    <3>1. v5'[q].epoch = v5[q].epoch /\ (v5'[q].pc = "project" => v5[q].pc = "project")
      BY <2>3
    <3> QED
      BY <2>1, <3>1 DEF Strm!AnswerSound, Strm!Fenced
  <2> QED
    BY <2>2, <2>3
<1>5. Strm!PlaceholdersOwned'
  <2>1. SUFFICES ASSUME v3.slot, v3.value = None
                 PROVE  \E q \in Ops : v5'[q].kind \in {"narrow", "stat"} /\ v3.obs[q] = "same"
    BY DEF Strm!PlaceholdersOwned
  <2>2. PICK q \in Ops : v5[q].kind \in {"narrow", "stat"} /\ v3.obs[q] = "same"
    BY <2>1, <1>1 DEF Strm!CacheSound, Strm!PlaceholdersOwned
  <2>3. Strm!ReadSound(q)
    BY <1>1 DEF Strm!CacheSound
  <2>4. v5[q].pc \in Strm!Observing
    BY <2>2, <2>3 DEF Strm!ReadSound
  <2>5. v5'[q].kind = v5[q].kind
    BY <2>4
  <2> QED
    BY <2>2, <2>5
<1>6. v6' <= v2' /\ (v3'.value # None => v3'.slot)
  BY <1>1 DEF Strm!CacheSound
<1> QED
  BY <1>3, <1>4, <1>5, <1>6 DEF Strm!CacheSound

(* a read that another one's step leaves where it is, or wakes *)
Follows(o, n) ==
    /\ n.kind = o.kind /\ n.epoch = o.epoch /\ n.entry = o.entry /\ n.view = o.view
    /\ n.pc = o.pc \/ (o.pc = "pending" /\ n.pc = "shared")

(* What the steps that leave the cache alone have in common. *)
LEMMA QuietStep ==
    ASSUME NEW r \in Ops, Strm!Inductive, NEW entries \in [Strm!Entries -> Strm!Entry],
    NEW ops \in [Ops -> Strm!Op],
           Strm!Becomes(v3, entries, ops), UNCHANGED <<v1, v2, v6>>,
           \A e \in Strm!Entries : Strm!Fresh(entries[e]) /\ entries[e].content = v4[e].content,
           \A q \in Ops \ {r} : Follows(v5[q], ops[q]),
           ops[r].pc # "project", ops[r].epoch <= v2,
           v5[r].pc \in Strm!Observing <=> ops[r].pc \in Strm!Observing,
           v5[r].pc \in Strm!Observing => ops[r].kind = v5[r].kind,
           ops[r].entry \in {v5[r].entry, v3.value, None},
           ops[r].pc \in {"cached", "build", "mapping", "sizes", "pending", "signed", "shared", "link", "remember"}
             => ops[r].entry # None
    PROVE  Strm!Inductive'
<1>1. Strm!EntriesSound /\ Strm!TypeOK
  BY DEF Strm!Inductive
<1>2. v3.value \in Strm!Entries \cup {None} /\ v5 \in [Ops -> Strm!Op]
  BY <1>1 DEF Strm!TypeOK, Strm!Caches
<1>3. v3.value # None => entries[v3.value].content # None
  BY <1>1, <1>2 DEF Strm!EntriesSound
<1>4. ASSUME NEW q \in Ops PROVE Strm!OperandsKnown(ops[q], entries)
  <2>1. Strm!OperandsKnown(v5[q], v4) /\ v5[q] \in Strm!Op
    BY <1>1, <1>2 DEF Strm!EntriesSound
  <2>2. v5[q].entry # None => v5[q].entry \in Strm!Entries /\ entries[v5[q].entry].content # None
    BY <2>1 DEF Strm!OperandsKnown, Strm!Op
  <2>3. CASE q = r
    BY <2>2, <2>3, <1>3 DEF Strm!OperandsKnown
  <2>4. CASE q # r
    <3>1. ops[q].entry = v5[q].entry /\ ops[q].view = v5[q].view
      BY <2>4 DEF Follows
    <3>2. ops[q].pc = v5[q].pc \/ (v5[q].pc = "pending" /\ ops[q].pc = "shared")
      BY <2>4 DEF Follows
    <3> QED
      BY <2>1, <2>2, <3>1, <3>2 DEF Strm!OperandsKnown
  <2> QED
    BY <2>3, <2>4
<1>5. v3' = v3 /\ v5' = ops /\ v4' \in [Strm!Entries -> Strm!Entry] /\ Strm!EntriesSound'
  BY <1>2, <1>3, <1>4, CollectingEntries
<1>6. Strm!CacheSound'
  <2>1. \A q \in Ops \ {r} :
           /\ v5'[q].kind = v5[q].kind /\ v5'[q].epoch = v5[q].epoch
           /\ v5'[q].pc = v5[q].pc \/ (v5[q].pc = "pending" /\ v5'[q].pc = "shared")
    BY <1>5 DEF Follows
  <2> QED
    BY <1>5, <2>1, QuietCache
<1>7. Strm!TypeOK'
  BY <1>1, <1>5 DEF Strm!TypeOK
<1> QED
  BY <1>5, <1>6, <1>7 DEF Strm!Inductive

(* One entry is written to. *)
LEMMA EntryWritten ==
    ASSUME Strm!Inductive, NEW e \in Strm!Entries, NEW n \in Strm!Entry, Strm!Fresh(n), n.content = v4[e].content
    PROVE  /\ [v4 EXCEPT ![e] = n] \in [Strm!Entries -> Strm!Entry]
           /\ \A d \in Strm!Entries : /\ Strm!Fresh([v4 EXCEPT ![e] = n][d])
                                      /\ [v4 EXCEPT ![e] = n][d].content = v4[d].content
<1>1. v4 \in [Strm!Entries -> Strm!Entry] /\ \A d \in Strm!Entries : Strm!Fresh(v4[d])
  BY DEF Strm!Inductive, Strm!TypeOK, Strm!EntriesSound, Strm!ProjectionFresh
<1>2. [v4 EXCEPT ![e] = n] \in [Strm!Entries -> Strm!Entry]
  BY <1>1
<1>3. ASSUME NEW d \in Strm!Entries
      PROVE  Strm!Fresh([v4 EXCEPT ![e] = n][d]) /\ [v4 EXCEPT ![e] = n][d].content = v4[d].content
  <2>1. CASE d = e
    <3>1. [v4 EXCEPT ![e] = n][d] = n
      BY <2>1, <1>1
    <3> QED
      BY <2>1, <3>1
  <2>2. CASE d # e
    <3>1. [v4 EXCEPT ![e] = n][d] = v4[d]
      BY <2>2, <1>1
    <3> QED
      BY <3>1, <1>1
  <2> QED
    BY <2>1, <2>2
<1> QED
  BY <1>2, <1>3

(* One read goes on, without or with an entry written to. *)
LEMMA QuietOne ==
    ASSUME NEW r \in Ops, Strm!Inductive, NEW entries \in [Strm!Entries -> Strm!Entry],
    NEW o \in Strm!Op,
           Strm!Becomes(v3, entries, [v5 EXCEPT ![r] = o]), UNCHANGED <<v1, v2, v6>>,
           \A e \in Strm!Entries : Strm!Fresh(entries[e]) /\ entries[e].content = v4[e].content,
           o.pc # "project", o.epoch <= v2,
           v5[r].pc \in Strm!Observing <=> o.pc \in Strm!Observing,
           v5[r].pc \in Strm!Observing => o.kind = v5[r].kind,
           o.entry \in {v5[r].entry, v3.value, None},
           o.pc \in {"cached", "build", "mapping", "sizes", "pending", "signed", "shared", "link", "remember"}
             => o.entry # None
    PROVE  Strm!Inductive'
<1>1. v5 \in [Ops -> Strm!Op]
  BY DEF Strm!Inductive, Strm!TypeOK
<1>2. PICK ops : ops = [v5 EXCEPT ![r] = o]
  OBVIOUS
<1>3. ops \in [Ops -> Strm!Op] /\ ops[r] = o /\ \A q \in Ops \ {r} : ops[q] = v5[q]
  BY <1>1, <1>2
<1>4. \A q \in Ops \ {r} : Follows(v5[q], ops[q])
  BY <1>3 DEF Follows
<1>5. Strm!Becomes(v3, entries, ops)
  BY <1>2
<1>6. /\ ops[r].pc # "project" /\ ops[r].epoch <= v2
      /\ v5[r].pc \in Strm!Observing <=> ops[r].pc \in Strm!Observing
      /\ v5[r].pc \in Strm!Observing => ops[r].kind = v5[r].kind
      /\ ops[r].entry \in {v5[r].entry, v3.value, None}
      /\ ops[r].pc \in {"cached", "build", "mapping", "sizes", "pending", "signed", "shared", "link", "remember"}
           => ops[r].entry # None
  BY <1>3
<1> QED
  BY <1>3, <1>4, <1>5, <1>6, QuietStep

(* What is known of a read and of the entries. *)
LEMMA StrmKnown ==
    ASSUME NEW r \in Ops, Strm!Inductive
    PROVE  /\ v5 \in [Ops -> Strm!Op] /\ v5[r] \in Strm!Op /\ v4 \in [Strm!Entries -> Strm!Entry] /\ v3 \in Strm!Caches(Strm!Entries)
           /\ v3.value \in Strm!Entries \cup {None}
           /\ \A e \in Strm!Entries : Strm!Fresh(v4[e]) /\ v4[e].content = v4[e].content
           /\ Strm!ReadSound(r) /\ Strm!AnswerSound(r) /\ Strm!OperandsKnown(v5[r], v4)
           /\ v5[r].epoch <= v2 /\ v5[r].entry \in Strm!Entries \cup {None}
           /\ v1 \in Strm!Views \cup {None} /\ v2 \in 0 .. MaxChanges /\ v6 \in Nat
           /\ 0 <= v2 /\ v2 \in Nat /\ v2 <= v2 /\ v5[r].epoch \in Nat
<1>1. Strm!TypeOK /\ Strm!CacheSound /\ Strm!EntriesSound
  BY DEF Strm!Inductive
<1>2. v5 \in [Ops -> Strm!Op] /\ v5[r] \in Strm!Op /\ v4 \in [Strm!Entries -> Strm!Entry] /\ v3 \in Strm!Caches(Strm!Entries)
      /\ v1 \in Strm!Views \cup {None} /\ v2 \in 0 .. MaxChanges /\ v6 \in Nat
  BY <1>1 DEF Strm!TypeOK
<1>3. v3.value \in Strm!Entries \cup {None} /\ v5[r].entry \in Strm!Entries \cup {None} /\ v5[r].epoch \in Nat
  BY <1>2 DEF Strm!Caches, Strm!Op
<1>4. Strm!ReadSound(r) /\ Strm!AnswerSound(r) /\ Strm!OperandsKnown(v5[r], v4) /\ Strm!ProjectionFresh
  BY <1>1 DEF Strm!CacheSound, Strm!EntriesSound
<1>5. v5[r].epoch <= v2
  BY <1>4 DEF Strm!ReadSound
<1>6. 0 <= v2 /\ v2 \in Nat /\ v2 <= v2
  BY ONLY <1>2, StrmAssumption, SMTT(30)
<1> QED
  BY <1>2, <1>3, <1>4, <1>5, <1>6 DEF Strm!ProjectionFresh

(* FileStat and OpenFileSnapshot, on what is cached and on the link. *)
LEMMA StatSound ==
    ASSUME NEW r \in Ops, Strm!Inductive,
           Strm!StatBegin(r) \/ Strm!StatCached(r) \/ Strm!LinkFails(r) \/ \E size \in Sizes : Strm!Link(r, size)
    PROVE  Strm!Inductive'
<1>1. UNCHANGED <<v1, v2, v6>>
  BY DEF Strm!StatBegin, Strm!StatCached, Strm!LinkFails, Strm!Link
<1>2. CASE Strm!StatBegin(r)
  <2>1. v5[r].pc = "idle" /\ v3.value # None
    BY <1>2 DEF Strm!StatBegin
  <2>2. PICK o : o = [Strm!Idle EXCEPT !.pc = "cached", !.kind = "stat", !.entry = v3.value]
    OBVIOUS
  <2>3. v3.value \in Strm!Entries \cup {None}
    BY StrmKnown
  <2>4. o \in Strm!Op /\ o.pc = "cached" /\ o.epoch = 0 /\ o.entry = v3.value
    BY <2>2, <2>3, StrmIdle DEF Strm!Op, Strm!Idle
  <2>5. v5[r].pc \notin Strm!Observing /\ o.pc \notin Strm!Observing
    BY <2>1, <2>4 DEF Strm!Observing
  <2>6. Strm!Becomes(v3, v4, [v5 EXCEPT ![r] = o])
    BY <1>2, <2>2 DEF Strm!StatBegin
  <2> QED
    BY <1>1, <2>1, <2>4, <2>5, <2>6, StrmKnown, QuietOne
<1>3. CASE Strm!StatCached(r)
  <2>1. v5[r].pc = "cached" /\ v5[r].entry # None
    BY <1>3, StrmKnown DEF Strm!StatCached, Strm!OperandsKnown
  <2>2. PICK o : o = [v5[r] EXCEPT !.pc = "link", !.sameSize = TRUE]
    OBVIOUS
  <2>3. v5[r] \in Strm!Op /\ v5 \in [Ops -> Strm!Op]
    BY StrmKnown
  <2>4. o \in Strm!Op /\ o.pc = "link" /\ o.epoch = v5[r].epoch /\ o.entry = v5[r].entry
    BY <2>2, <2>3 DEF Strm!Op
  <2>5. v5[r].pc \notin Strm!Observing /\ o.pc \notin Strm!Observing
    BY <2>1, <2>4 DEF Strm!Observing
  <2>6. [v5 EXCEPT ![r].pc = "link", ![r].sameSize = TRUE] = [v5 EXCEPT ![r] = o]
    BY <2>2, <2>3
  <2>7. Strm!Becomes(v3, v4, [v5 EXCEPT ![r] = o])
    BY <1>3, <2>6 DEF Strm!StatCached
  <2> QED
    BY <1>1, <2>1, <2>4, <2>5, <2>7, StrmKnown, QuietOne
<1>4. CASE Strm!LinkFails(r)
  <2>1. v5[r].pc = "link" /\ Strm!Becomes(v3, v4, [v5 EXCEPT ![r] = Strm!Idle])
    BY <1>4 DEF Strm!LinkFails, Strm!Ended
  <2>2. v5[r].pc \notin Strm!Observing /\ "idle" \notin Strm!Observing
    BY <2>1 DEF Strm!Observing
  <2> QED
    BY <1>1, <2>1, <2>2, StrmIdle, StrmKnown, QuietOne
<1>5. ASSUME NEW size \in Sizes, Strm!Link(r, size) PROVE Strm!Inductive'
  <2>1. v5[r].pc = "link" /\ v5[r].entry # None
    BY <1>5, StrmKnown DEF Strm!Link, Strm!OperandsKnown
  <2>2. PICK o : o = [v5[r] EXCEPT !.pc = "remember", !.signed = size]
    OBVIOUS
  <2>3. v5[r] \in Strm!Op /\ v5 \in [Ops -> Strm!Op]
    BY StrmKnown
  <2>4. o \in Strm!Op /\ o.pc = "remember" /\ o.epoch = v5[r].epoch /\ o.entry = v5[r].entry
    BY <2>2, <2>3 DEF Strm!Op
  <2>5. v5[r].pc \notin Strm!Observing /\ o.pc \notin Strm!Observing
    BY <2>1, <2>4 DEF Strm!Observing
  <2>6. [v5 EXCEPT ![r].pc = "remember", ![r].signed = size] = [v5 EXCEPT ![r] = o]
    BY <2>2, <2>3
  <2>7. Strm!Becomes(v3, v4, [v5 EXCEPT ![r] = o])
    BY <1>5, <2>6 DEF Strm!Link
  <2> QED
    BY <1>1, <2>1, <2>4, <2>5, <2>7, StrmKnown, QuietOne
<1> QED
  BY <1>2, <1>3, <1>4, <1>5


(* projectionLocked shows the size that is known. *)
LEMMA ProjectionShows ==
    ASSUME NEW n \in Strm!Entry, Strm!Fresh(n)
    PROVE  /\ Strm!Projection(n) \in Strm!Entry /\ Strm!Fresh(Strm!Projection(n)) /\ Strm!Projection(n).content = n.content
           /\ [Strm!Projection(n) EXCEPT !.projecting = FALSE] \in Strm!Entry
           /\ Strm!Fresh([Strm!Projection(n) EXCEPT !.projecting = FALSE])
           /\ [Strm!Projection(n) EXCEPT !.projecting = FALSE].content = n.content
<1>1. /\ Strm!Projection(n) \in Strm!Entry /\ Strm!Projection(n).content = n.content
      /\ Strm!Projection(n).projected # None =>
           Strm!Projection(n).projected = Strm!Projection(n).size /\ Strm!Projection(n).complete = (Strm!Projection(n).size # 0)
  <2>1. CASE n.projected # None
    <3>1. Strm!Projection(n) = n
      BY <2>1 DEF Strm!Projection
    <3> QED
      BY <3>1 DEF Strm!Fresh
  <2>2. CASE n.projected = None
    <3>1. Strm!Projection(n) = [n EXCEPT !.projected = n.size, !.complete = n.size # 0]
      BY <2>2 DEF Strm!Projection
    <3>2. PICK p : p = [n EXCEPT !.projected = n.size, !.complete = n.size # 0]
      OBVIOUS
    <3>3. p \in Strm!Entry /\ p.content = n.content /\ p.projected = n.size /\ p.size = n.size
          /\ p.complete = (n.size # 0)
      BY <3>2 DEF Strm!Entry
    <3> QED
      BY <3>1, <3>2, <3>3
  <2> QED
    BY <2>1, <2>2
<1>2. PICK p : p = Strm!Projection(n)
  OBVIOUS
<1>3. PICK k : k = [p EXCEPT !.projecting = FALSE]
  OBVIOUS
<1>4. k \in Strm!Entry /\ k.content = p.content /\ k.projected = p.projected /\ k.size = p.size
      /\ k.complete = p.complete
  BY <1>1, <1>2, <1>3 DEF Strm!Entry
<1>5. Strm!Fresh(p) /\ Strm!Fresh(k)
  BY <1>1, <1>2, <1>4 DEF Strm!Fresh
<1> QED
  BY <1>1, <1>2, <1>3, <1>4, <1>5

(* The mapping is built, and read. *)
LEMMA MappingSound ==
    ASSUME NEW r \in Ops, Strm!Inductive, Strm!Build(r) \/ Strm!Mapped(r)
    PROVE  Strm!Inductive'
<1>1. UNCHANGED <<v1, v2, v6>>
  BY DEF Strm!Build, Strm!Mapped
<1>2. v5[r] \in Strm!Op /\ v5 \in [Ops -> Strm!Op] /\ v4 \in [Strm!Entries -> Strm!Entry]
  BY StrmKnown
<1>3. v5[r].pc \in {"build", "mapping"}
  BY DEF Strm!Build, Strm!Mapped
<1>4. v5[r].entry # None /\ v5[r].entry \in Strm!Entries /\ v5[r].pc \in Strm!Observing
  BY <1>3, StrmKnown DEF Strm!OperandsKnown, Strm!Observing
<1>5. CASE Strm!Build(r)
  <2>1. PICK e, n : e = v5[r].entry /\ n = [v4[e] EXCEPT !.ready = TRUE]
    OBVIOUS
  <2>2. n \in Strm!Entry /\ n.content = v4[e].content /\ n.projected = v4[e].projected
        /\ n.size = v4[e].size /\ n.complete = v4[e].complete
    BY <2>1, <1>2, <1>4 DEF Strm!Entry
  <2>3. Strm!Fresh(v4[e])
    BY <2>1, <1>4, StrmKnown
  <2>4. Strm!Fresh(n) /\ e \in Strm!Entries
    BY <2>1, <2>2, <2>3, <1>4 DEF Strm!Fresh
  <2>5. PICK entries : entries = [v4 EXCEPT ![e] = n]
    OBVIOUS
  <2>6. entries \in [Strm!Entries -> Strm!Entry]
        /\ \A d \in Strm!Entries : Strm!Fresh(entries[d]) /\ entries[d].content = v4[d].content
    BY <2>2, <2>4, <2>5, EntryWritten
  <2>7. PICK o : o = [v5[r] EXCEPT !.pc = "mapping"]
    OBVIOUS
  <2>8. o \in Strm!Op /\ o.pc = "mapping" /\ o.epoch = v5[r].epoch /\ o.entry = v5[r].entry /\ o.kind = v5[r].kind
    BY <2>7, <1>2 DEF Strm!Op, Strm!Observing
  <2>9. Strm!Becomes(v3, entries, [v5 EXCEPT ![r] = o])
    <3>1. [v4 EXCEPT ![e].ready = TRUE] = entries
      BY <2>1, <2>5, <1>2, <1>4
    <3>2. Strm!Goes(r, "mapping") = [v5 EXCEPT ![r] = o]
      BY <2>7, <1>2 DEF Strm!Goes
    <3> QED
      BY <3>1, <3>2, <2>1, <1>5 DEF Strm!Build
  <2>10. o.pc \in Strm!Observing
    BY <2>8 DEF Strm!Observing
  <2> QED
    BY <1>1, <1>4, <2>6, <2>8, <2>9, <2>10, StrmKnown, QuietOne
<1>6. CASE Strm!Mapped(r)
  <2>1. PICK o : o = IF v5[r].kind # "stat" THEN [v5[r] EXCEPT !.pc = "sizes"]
                     ELSE [v5[r] EXCEPT !.pc = "finish", !.sameSize = TRUE,
                             !.entry = IF v4[v5[r].entry].content \in WithFile THEN v5[r].entry ELSE None]
    OBVIOUS
  <2>2. /\ o \in Strm!Op /\ o.epoch = v5[r].epoch /\ o.kind = v5[r].kind
        /\ \/ o.pc = "sizes" /\ o.entry = v5[r].entry
           \/ o.pc = "finish" /\ o.entry \in {v5[r].entry, None}
    BY <2>1, <1>2, <1>4 DEF Strm!Op, Strm!Observing
  <2>3. Strm!Becomes(v3, v4, [v5 EXCEPT ![r] = o])
    <3>1. CASE v5[r].kind # "stat"
      <4>1. Strm!Goes(r, "sizes") = [v5 EXCEPT ![r] = o]
        BY <2>1, <1>2, <3>1 DEF Strm!Goes
      <4> QED
        BY <4>1, <1>6, <3>1 DEF Strm!Mapped
    <3>2. CASE v5[r].kind = "stat"
      <4>1. [v5 EXCEPT ![r].pc = "finish", ![r].sameSize = TRUE,
                       ![r].entry = IF v4[@].content \in WithFile THEN @ ELSE None] = [v5 EXCEPT ![r] = o]
        BY <2>1, <1>2, <3>2
      <4> QED
        BY <4>1, <1>6, <3>2 DEF Strm!Mapped
    <3> QED
      BY <3>1, <3>2
  <2>4. o.pc \in Strm!Observing
    BY <2>2 DEF Strm!Observing
  <2>5. /\ o.pc # "project"
        /\ o.pc \in {"cached", "build", "mapping", "sizes", "pending", "signed", "shared", "link", "remember"}
             => o.entry # None
        /\ o.entry \in {v5[r].entry, v3.value, None}
    <3>1. CASE o.pc = "sizes" /\ o.entry = v5[r].entry
      BY <3>1, <1>4
    <3>2. CASE o.pc = "finish" /\ o.entry \in {v5[r].entry, None}
      <4>1. o.pc \notin {"cached", "build", "mapping", "sizes", "pending", "signed", "shared", "link", "remember"}
        BY <3>2
      <4> QED
        BY <4>1, <3>2
    <3> QED
      BY <3>1, <3>2, <2>2
  <2> QED
    BY <1>1, <1>4, <2>2, <2>3, <2>4, <2>5, StrmKnown, QuietOne
<1> QED
  BY <1>5, <1>6

(* projectedFiles, up to the signed link. *)
LEMMA SizesSound ==
    ASSUME NEW r \in Ops, Strm!Inductive,
           Strm!SizesShared(r) \/ Strm!SizesWaited(r) \/ \E size \in Sizes \cup {0} : Strm!SizesAttempt(r, size)
    PROVE  Strm!Inductive'
<1>1. UNCHANGED <<v1, v2, v6>>
  BY DEF Strm!SizesShared, Strm!SizesWaited, Strm!SizesAttempt
<1>2. v5[r] \in Strm!Op /\ v5 \in [Ops -> Strm!Op] /\ v4 \in [Strm!Entries -> Strm!Entry]
  BY StrmKnown
<1>3. v5[r].pc \in {"sizes", "shared"}
  BY DEF Strm!SizesShared, Strm!SizesWaited, Strm!SizesAttempt
<1>4. v5[r].entry # None /\ v5[r].entry \in Strm!Entries /\ v5[r].pc \in Strm!Observing
  BY <1>3, StrmKnown DEF Strm!OperandsKnown, Strm!Observing
<1>5. PICK e : e = v5[r].entry
  OBVIOUS
<1>6. e \in Strm!Entries /\ v4[e] \in Strm!Entry /\ Strm!Fresh(v4[e])
  BY <1>2, <1>4, <1>5, StrmKnown
<1>7. ASSUME NEW n \in Strm!Entry, Strm!Fresh(n), n.content = v4[e].content,
             NEW pc \in {"finish", "pending", "signed"}, NEW size \in Sizes \cup {0},
             NEW entries, entries = v4 \/ entries = [v4 EXCEPT ![e] = n],
             NEW o, o = [v5[r] EXCEPT !.pc = pc] \/ o = [v5[r] EXCEPT !.pc = pc, !.signed = size],
             Strm!Becomes(v3, entries, [v5 EXCEPT ![r] = o])
      PROVE  Strm!Inductive'
  <2>1. o \in Strm!Op /\ o.pc = pc /\ o.epoch = v5[r].epoch /\ o.entry = v5[r].entry /\ o.kind = v5[r].kind
    BY <1>2, <1>7 DEF Strm!Op, Strm!Observing
  <2>2. o.pc \in Strm!Observing /\ o.pc # "project"
    BY <2>1 DEF Strm!Observing
  <2>3. entries \in [Strm!Entries -> Strm!Entry]
        /\ \A d \in Strm!Entries : Strm!Fresh(entries[d]) /\ entries[d].content = v4[d].content
    <3>1. CASE entries = v4
      BY <3>1, StrmKnown
    <3>2. CASE entries = [v4 EXCEPT ![e] = n]
      BY <3>2, <1>6, <1>7, EntryWritten
    <3> QED
      BY <3>1, <3>2, <1>7
  <2>4. o.epoch <= v2 /\ o.entry # None /\ o.entry \in {v5[r].entry, v3.value, None}
    BY <2>1, <1>4, StrmKnown
  <2> QED
    BY ONLY Strm!Inductive, r \in Ops, <1>1, <1>4, <1>7, <2>1, <2>2, <2>3, <2>4, QuietOne,
       ZenonT(40)
<1>8. ASSUME NEW pc \in {"finish", "pending", "signed"}
      PROVE  Strm!Goes(r, pc) = [v5 EXCEPT ![r] = [v5[r] EXCEPT !.pc = pc]]
  BY <1>2 DEF Strm!Goes
<1>9. [v4 EXCEPT ![e] = Strm!Projection(@)] = [v4 EXCEPT ![e] = Strm!Projection(v4[e])]
  BY <1>2, <1>6
<1>10. Strm!Projection(v4[e]) \in Strm!Entry /\ Strm!Fresh(Strm!Projection(v4[e])) /\ Strm!Projection(v4[e]).content = v4[e].content
  BY <1>6, ProjectionShows
<1>11. CASE Strm!SizesShared(r)
  <2>1. CASE v4[e].complete
    <3>1. Strm!Becomes(v3, [v4 EXCEPT ![e] = Strm!Projection(v4[e])],
                  [v5 EXCEPT ![r] = [v5[r] EXCEPT !.pc = "finish"]])
      BY <1>11, <2>1, <1>5, <1>8, <1>9 DEF Strm!SizesShared
    <3> QED
      BY <3>1, <1>7, <1>10
  <2>2. CASE ~v4[e].complete
    <3>1. Strm!Becomes(v3, v4, [v5 EXCEPT ![r] = [v5[r] EXCEPT !.pc = "pending"]])
      BY <1>11, <2>2, <1>5, <1>8 DEF Strm!SizesShared
    <3> QED
      BY <3>1, <1>7, <1>10
  <2> QED
    BY <2>1, <2>2
<1>12. CASE Strm!SizesWaited(r)
  <2>1. Strm!Becomes(v3, [v4 EXCEPT ![e] = Strm!Projection(v4[e])],
                [v5 EXCEPT ![r] = [v5[r] EXCEPT !.pc = "finish"]])
    BY <1>12, <1>5, <1>8, <1>9 DEF Strm!SizesWaited
  <2> QED
    BY <2>1, <1>7, <1>10
<1>13. ASSUME NEW size \in Sizes \cup {0}, Strm!SizesAttempt(r, size) PROVE Strm!Inductive'
  <2>1. PICK n : n = [v4[e] EXCEPT !.projecting = TRUE]
    OBVIOUS
  <2>2. n \in Strm!Entry /\ n.content = v4[e].content /\ n.projected = v4[e].projected
        /\ n.size = v4[e].size /\ n.complete = v4[e].complete
    BY <2>1, <1>6 DEF Strm!Entry
  <2>3. Strm!Fresh(n)
    BY <2>2, <1>6 DEF Strm!Fresh
  <2>4. [v4 EXCEPT ![e].projecting = TRUE] = [v4 EXCEPT ![e] = n]
    BY <2>1, <1>2, <1>6
  <2>5. PICK o : o = [v5[r] EXCEPT !.pc = "signed", !.signed = size]
    OBVIOUS
  <2>6. [v5 EXCEPT ![r].pc = "signed", ![r].signed = size] = [v5 EXCEPT ![r] = o]
    BY <2>5, <1>2
  <2>7. Strm!Becomes(v3, [v4 EXCEPT ![e] = n], [v5 EXCEPT ![r] = o])
    BY <2>4, <2>6, <1>5, <1>13 DEF Strm!SizesAttempt
  <2> QED
    BY <2>2, <2>3, <2>5, <2>7, <1>7
<1> QED
  BY <1>11, <1>12, <1>13


(* The reads that an attempt releases, and those whose size is another now,  *)
(* are where they were.                                                      *)
LEMMA OthersFollow ==
    ASSUME NEW e, NEW ops \in [Ops -> Strm!Op]
    PROVE  /\ Strm!Released(e, ops) \in [Ops -> Strm!Op] /\ Strm!Resized(e, ops) \in [Ops -> Strm!Op]
           /\ \A q \in Ops : /\ Follows(ops[q], Strm!Released(e, ops)[q])
                             /\ ops[q].pc # "pending" => Strm!Released(e, ops)[q].pc = ops[q].pc
           /\ \A q \in Ops : /\ Follows(ops[q], Strm!Resized(e, ops)[q])
                             /\ Strm!Resized(e, ops)[q].pc = ops[q].pc
<1>1. ASSUME NEW q \in Ops
      PROVE  /\ Strm!Released(e, ops)[q] \in Strm!Op /\ Follows(ops[q], Strm!Released(e, ops)[q])
             /\ ops[q].pc # "pending" => Strm!Released(e, ops)[q].pc = ops[q].pc
  <2>1. ops[q] \in Strm!Op
    OBVIOUS
  <2>2. CASE ops[q].pc = "pending" /\ ops[q].entry = e
    <3>1. Strm!Released(e, ops)[q] = [ops[q] EXCEPT !.pc = "shared"]
      BY <2>2 DEF Strm!Released
    <3> QED
      BY <2>1, <2>2, <3>1 DEF Strm!Op, Strm!Observing, Follows
  <2>3. CASE ~(ops[q].pc = "pending" /\ ops[q].entry = e)
    <3>1. Strm!Released(e, ops)[q] = ops[q]
      BY <2>3 DEF Strm!Released
    <3> QED
      BY <2>1, <3>1 DEF Follows
  <2> QED
    BY <2>2, <2>3
<1>2. ASSUME NEW q \in Ops
      PROVE  /\ Strm!Resized(e, ops)[q] \in Strm!Op /\ Follows(ops[q], Strm!Resized(e, ops)[q])
             /\ Strm!Resized(e, ops)[q].pc = ops[q].pc
  <2>1. ops[q] \in Strm!Op
    OBVIOUS
  <2>2. CASE ops[q].entry = e
    <3>1. Strm!Resized(e, ops)[q] = [ops[q] EXCEPT !.sameSize = FALSE]
      BY <2>2 DEF Strm!Resized
    <3> QED
      BY <2>1, <3>1 DEF Strm!Op, Follows
  <2>3. CASE ops[q].entry # e
    <3>1. Strm!Resized(e, ops)[q] = ops[q]
      BY <2>3 DEF Strm!Resized
    <3> QED
      BY <2>1, <3>1 DEF Follows
  <2> QED
    BY <2>2, <2>3
<1>3. Strm!Released(e, ops) \in [Ops -> Strm!Op]
  <2>1. Strm!Released(e, ops) = [q \in Ops |-> Strm!Released(e, ops)[q]]
    BY DEF Strm!Released
  <2> QED
    BY <2>1, <1>1
<1>4. Strm!Resized(e, ops) \in [Ops -> Strm!Op]
  <2>1. Strm!Resized(e, ops) = [q \in Ops |-> Strm!Resized(e, ops)[q]]
    BY DEF Strm!Resized
  <2> QED
    BY <2>1, <1>2
<1> QED
  BY <1>1, <1>2, <1>3, <1>4

(* The link is signed: its size is recorded unless a live stat was faster,   *)
(* and those who waited go on.                                               *)
LEMMA SignedSound ==
    ASSUME NEW r \in Ops, Strm!Inductive, Strm!SizesSigned(r)
    PROVE  Strm!Inductive'
<1>1. UNCHANGED <<v1, v2, v6>> /\ v5[r].pc = "signed"
  BY DEF Strm!SizesSigned
<1>2. v5[r] \in Strm!Op /\ v5 \in [Ops -> Strm!Op] /\ v4 \in [Strm!Entries -> Strm!Entry]
  BY StrmKnown
<1>3. v5[r].entry # None /\ v5[r].entry \in Strm!Entries /\ v5[r].pc \in Strm!Observing
  BY <1>1, StrmKnown DEF Strm!OperandsKnown, Strm!Observing
<1>4. PICK e : e = v5[r].entry
  OBVIOUS
<1>5. e \in Strm!Entries /\ v4[e] \in Strm!Entry /\ Strm!Fresh(v4[e])
  BY <1>2, <1>3, <1>4, StrmKnown
<1>6. PICK known : known = IF v5[r].signed # 0 /\ v4[e].size = 0
                           THEN [v4[e] EXCEPT !.size = v5[r].signed, !.projected = None] ELSE v4[e]
  OBVIOUS
<1>7. known \in Strm!Entry /\ Strm!Fresh(known) /\ known.content = v4[e].content
  <2>1. CASE v5[r].signed # 0 /\ v4[e].size = 0
    <3>1. known = [v4[e] EXCEPT !.size = v5[r].signed, !.projected = None]
      BY <2>1, <1>6
    <3>2. v5[r].signed \in Sizes \cup {0}
      BY <1>2 DEF Strm!Op
    <3>3. known \in Strm!Entry /\ known.projected = None /\ known.content = v4[e].content
      BY <3>1, <3>2, <1>5 DEF Strm!Entry
    <3> QED
      BY <3>3 DEF Strm!Fresh
  <2>2. CASE ~(v5[r].signed # 0 /\ v4[e].size = 0)
    <3>1. known = v4[e]
      BY <2>2, <1>6
    <3> QED
      BY <3>1, <1>5
  <2> QED
    BY <2>1, <2>2
<1>8. PICK n : n = [Strm!Projection(known) EXCEPT !.projecting = FALSE]
  OBVIOUS
<1>9. n \in Strm!Entry /\ Strm!Fresh(n) /\ n.content = v4[e].content
  BY <1>7, <1>8, ProjectionShows
<1>10. PICK entries : entries = [v4 EXCEPT ![e] = n]
  OBVIOUS
<1>11. entries \in [Strm!Entries -> Strm!Entry]
       /\ \A d \in Strm!Entries : Strm!Fresh(entries[d]) /\ entries[d].content = v4[d].content
  BY <1>5, <1>9, <1>10, EntryWritten
<1>12. PICK going : going = Strm!Goes(r, "finish")
  OBVIOUS
<1>13. /\ going \in [Ops -> Strm!Op] /\ \A q \in Ops \ {r} : going[q] = v5[q]
       /\ going[r].pc = "finish" /\ going[r].kind = v5[r].kind /\ going[r].epoch = v5[r].epoch
       /\ going[r].entry = v5[r].entry
  <2>1. PICK o : o = [v5[r] EXCEPT !.pc = "finish"]
    OBVIOUS
  <2>2. o \in Strm!Op /\ o.pc = "finish" /\ o.kind = v5[r].kind /\ o.epoch = v5[r].epoch /\ o.entry = v5[r].entry
    BY <2>1, <1>2 DEF Strm!Op, Strm!Observing
  <2>3. going = [v5 EXCEPT ![r] = o]
    BY <2>1, <1>2, <1>12 DEF Strm!Goes
  <2>4. going \in [Ops -> Strm!Op] /\ going[r] = o /\ \A q \in Ops \ {r} : going[q] = v5[q]
    BY <2>2, <2>3, <1>2
  <2> QED
    BY <2>2, <2>4
<1>14. PICK freed : freed = Strm!Released(e, going)
  OBVIOUS
<1>15. PICK ops : ops = IF v5[r].signed # 0 /\ v4[e].size = 0 THEN Strm!Resized(e, freed) ELSE freed
  OBVIOUS
<1>16. /\ freed \in [Ops -> Strm!Op]
       /\ \A q \in Ops : /\ Follows(going[q], freed[q])
                         /\ going[q].pc # "pending" => freed[q].pc = going[q].pc
  BY <1>13, <1>14, OthersFollow
<1>17. /\ ops \in [Ops -> Strm!Op]
       /\ \A q \in Ops : Follows(freed[q], ops[q]) /\ ops[q].pc = freed[q].pc
  <2>1. /\ Strm!Resized(e, freed) \in [Ops -> Strm!Op]
        /\ \A q \in Ops : Follows(freed[q], Strm!Resized(e, freed)[q]) /\ Strm!Resized(e, freed)[q].pc = freed[q].pc
    BY <1>16, OthersFollow
  <2>2. \A q \in Ops : Follows(freed[q], freed[q])
    BY DEF Follows
  <2> QED
    BY <2>1, <2>2, <1>15, <1>16
<1>18. /\ ops[r].kind = v5[r].kind /\ ops[r].epoch = v5[r].epoch
       /\ ops[r].entry = v5[r].entry /\ ops[r].pc = "finish"
  BY <1>13, <1>16, <1>17 DEF Follows
<1>19. ASSUME NEW q \in Ops \ {r} PROVE Follows(v5[q], ops[q])
  <2>1. going[q] = v5[q]
    BY <1>13
  <2>2. Follows(v5[q], freed[q]) /\ Follows(freed[q], ops[q]) /\ ops[q].pc = freed[q].pc
    BY <2>1, <1>16, <1>17
  <2> QED
    BY <2>2 DEF Follows
<1>20. Strm!Becomes(v3, entries, ops)
  BY <1>4, <1>6, <1>8, <1>10, <1>12, <1>14, <1>15 DEF Strm!SizesSigned
<1>21. /\ "finish" \in Strm!Observing /\ v5[r].epoch <= v2
  BY StrmKnown DEF Strm!Observing
<1>22. ops[r].entry \in {v5[r].entry, v3.value, None} /\ ops[r].entry # None /\ ops[r].pc # "project"
  BY <1>18, <1>3
<1> QED
  BY ONLY Strm!Inductive, r \in Ops, <1>1, <1>3, <1>11, <1>17, <1>18, <1>19, <1>20, <1>21,
     <1>22, QuietStep, SMTT(30)

(* rememberTextSize: the size changes if the entry is still the one cached   *)
(* and nobody was faster.                                                    *)
LEMMA RememberSound ==
    ASSUME NEW r \in Ops, Strm!Inductive, Strm!Remember(r)
    PROVE  Strm!Inductive'
<1>1. UNCHANGED <<v1, v2, v6>> /\ v5[r].pc = "remember"
  BY DEF Strm!Remember
<1>2. v5[r] \in Strm!Op /\ v5 \in [Ops -> Strm!Op] /\ v4 \in [Strm!Entries -> Strm!Entry]
  BY StrmKnown
<1>3. v5[r].entry # None /\ v5[r].entry \in Strm!Entries /\ v5[r].pc \notin Strm!Observing /\ "idle" \notin Strm!Observing
  BY <1>1, StrmKnown DEF Strm!OperandsKnown, Strm!Observing
<1>4. PICK e : e = v5[r].entry
  OBVIOUS
<1>5. e \in Strm!Entries /\ v4[e] \in Strm!Entry /\ v5[r].signed \in Sizes \cup {0}
  BY <1>2, <1>3, <1>4 DEF Strm!Op
<1>6. CASE v3.value = e /\ v5[r].sameSize /\ v4[e].size # v5[r].signed
  <2>1. PICK n : n = [v4[e] EXCEPT !.size = v5[r].signed, !.projected = None, !.complete = FALSE]
    OBVIOUS
  <2>2. n \in Strm!Entry /\ n.projected = None /\ n.content = v4[e].content
    BY <2>1, <1>5 DEF Strm!Entry
  <2>3. Strm!Fresh(n)
    BY <2>2 DEF Strm!Fresh
  <2>4. PICK entries : entries = [v4 EXCEPT ![e] = n]
    OBVIOUS
  <2>5. entries \in [Strm!Entries -> Strm!Entry]
        /\ \A d \in Strm!Entries : Strm!Fresh(entries[d]) /\ entries[d].content = v4[d].content
    BY <1>5, <2>2, <2>3, <2>4, EntryWritten
  <2>6. [v4 EXCEPT ![e].size = v5[r].signed, ![e].projected = None, ![e].complete = FALSE] = entries
    BY <2>1, <2>4, <1>2, <1>5
  <2>7. PICK sized : sized = Strm!Resized(e, v5)
    OBVIOUS
  <2>8. PICK ops : ops = [sized EXCEPT ![r] = Strm!Idle]
    OBVIOUS
  <2>9. sized \in [Ops -> Strm!Op] /\ \A q \in Ops : Follows(v5[q], sized[q])
    BY <2>7, <1>2, OthersFollow
  <2>10. ops \in [Ops -> Strm!Op] /\ ops[r] = Strm!Idle /\ \A q \in Ops \ {r} : ops[q] = sized[q]
    BY <2>8, <2>9, StrmIdle
  <2>11. ASSUME NEW q \in Ops \ {r} PROVE Follows(v5[q], ops[q])
    BY <2>9, <2>10
  <2>12. Strm!Becomes(v3, entries, ops)
    BY <2>6, <2>7, <2>8, <1>4, <1>6 DEF Strm!Remember
  <2>13. ops[r].pc = "idle" /\ ops[r].epoch <= v2 /\ ops[r].entry \in {v5[r].entry, v3.value, None}
    BY <2>10, StrmIdle, StrmKnown
  <2> QED
    BY ONLY Strm!Inductive, r \in Ops, <1>1, <1>3, <2>5, <2>10, <2>11, <2>12, <2>13,
       QuietStep, ZenonT(40)
<1>7. CASE ~(v3.value = e /\ v5[r].sameSize /\ v4[e].size # v5[r].signed)
  <2>1. Strm!Becomes(v3, v4, [v5 EXCEPT ![r] = Strm!Idle])
    BY <1>4, <1>7 DEF Strm!Remember, Strm!Ended
  <2> QED
    BY <1>1, <1>3, <2>1, StrmIdle, StrmKnown, QuietOne
<1> QED
  BY <1>6, <1>7

(* The source changes; no read knows yet. *)
LEMMA SourceSound ==
    ASSUME Strm!Inductive, (\E c \in Contents : Strm!Add(c) \/ Strm!Update(c)) \/ Strm!Delete
    PROVE  Strm!Inductive'
<1>1. PICK s : Strm!Change(s) /\ s \in Strm!Views \cup {None}
  <2>1. v1 \in Strm!Views \cup {None} /\ v2 \in 0 .. MaxChanges
    BY DEF Strm!Inductive, Strm!TypeOK
  <2>2. ASSUME NEW c \in Contents, Strm!Add(c) PROVE Strm!Change([content |-> c, created |-> v2])
                                                 /\ [content |-> c, created |-> v2] \in Strm!Views
    BY <2>1, <2>2 DEF Strm!Add, Strm!Views
  <2>3. ASSUME NEW c \in Contents, Strm!Update(c) PROVE Strm!Change([v1 EXCEPT !.content = c])
                                                    /\ [v1 EXCEPT !.content = c] \in Strm!Views
    BY <2>1, <2>3 DEF Strm!Update, Strm!Views
  <2>4. Strm!Delete => Strm!Change(None)
    BY DEF Strm!Delete
  <2> QED
    BY <2>2, <2>3, <2>4
<1>2. /\ v2 < MaxChanges /\ v2' = v2 + 1 /\ v1' = s
      /\ v3' = v3 /\ v4' = v4 /\ v5' = v5 /\ v6' = v6
  BY <1>1 DEF Strm!Change
<1>3. Strm!TypeOK /\ Strm!CacheSound /\ Strm!EntriesSound
  BY DEF Strm!Inductive
<1>4. v2 \in 0 .. MaxChanges /\ v6 \in Nat /\ v6 <= v2
  BY <1>3 DEF Strm!TypeOK, Strm!CacheSound
<1>5. v2' \in 0 .. MaxChanges /\ v6 <= v2' /\ \A n \in Nat : n <= v2 => n <= v2'
  BY ONLY <1>2, <1>4, StrmAssumption, SMTT(30)
<1>6. Strm!TypeOK'
  BY <1>1, <1>2, <1>3, <1>5 DEF Strm!TypeOK
<1>7. Strm!EntriesSound'
  BY <1>2, <1>3 DEF Strm!EntriesSound, Strm!ProjectionFresh
<1>8. Strm!CacheSound'
  <2>1. ASSUME NEW r \in Ops PROVE Strm!ReadSound(r)' /\ Strm!AnswerSound(r)'
    <3>1. Strm!ReadSound(r) /\ Strm!AnswerSound(r)
      BY <1>3 DEF Strm!CacheSound
    <3>2. v5[r].epoch \in Nat /\ v5[r].epoch <= v2
      BY <3>1, StrmKnown DEF Strm!ReadSound
    <3>3. v5[r].epoch <= v2'
      BY <3>2, <1>5
    <3> QED
      BY <1>2, <3>1, <3>3 DEF Strm!ReadSound, Strm!AnswerSound, Strm!Fenced
  <2> QED
    BY <1>2, <1>3, <1>5, <2>1 DEF Strm!CacheSound, Strm!PlaceholdersOwned
<1> QED
  BY <1>6, <1>7, <1>8 DEF Strm!Inductive


(* what a read that takes no step sees of a step: d is the cache after it,   *)
(* a the epoch of the last answer the cache acted on                         *)
Undisturbed(q, d, a) ==
    /\ d.obs[q] = v3.obs[q] \/ (v3.obs[q] = "same" /\ d.obs[q] = "changed")
    /\ v3.listing[q] # None => d.listing[q] # None
    /\ d.obs[q] = "same" => d.slot
    /\ v5[q].pc = "project" /\ d.obs[q] = "same" => a <= v5[q].epoch
    /\ v5[q].pc = "project" /\ d.obs[q] = "none" /\ ~Strm!Fenced(d, q) => d.value # None \/ a <= v5[q].epoch

(* what the read that takes the step leaves *)
Moves(r, o, d, a) ==
    /\ o.pc \notin Strm!Observing => d.obs[r] = "none"
    /\ o.pc \in Strm!Observing =>
         \/ o.kind = "list" /\ d.listing[r] # None
         \/ o.kind \in {"narrow", "stat"} /\ d.obs[r] # "none"
    /\ d.obs[r] = "same" => d.slot
    /\ o.pc = "project" => a <= o.epoch

Owned(r, o, d) ==
    \/ o.kind \in {"narrow", "stat"} /\ d.obs[r] = "same"
    \/ \E q \in Ops \ {r} : v5[q].kind \in {"narrow", "stat"} /\ d.obs[q] = "same"

(* What the steps that change the cache have in common. *)
LEMMA CacheStep ==
    ASSUME NEW r \in Ops, Strm!Inductive, NEW d \in Strm!Caches(Strm!Entries), NEW entries \in [Strm!Entries -> Strm!Entry], NEW o \in Strm!Op,
           Strm!Becomes(d, entries, [v5 EXCEPT ![r] = o]), UNCHANGED <<v1, v2>>,
           v6' \in Nat, v6' <= v2, o.epoch <= v2,
           \A e \in Strm!Entries : Strm!Fresh(entries[e]),
           \A q \in Ops \ {r} : v5[q].entry # None => entries[v5[q].entry].content # None,
           Strm!OperandsKnown(o, entries),
           d.value # None => d.slot /\ entries[d.value].content # None,
           d.slot /\ d.value = None => Owned(r, o, d),
           \A q \in Ops \ {r} : Undisturbed(q, d, v6'),
           Moves(r, o, d, v6')
    PROVE  Strm!Inductive'
<1>1. Strm!TypeOK /\ Strm!CacheSound /\ Strm!EntriesSound
  BY DEF Strm!Inductive
<1>2. v5 \in [Ops -> Strm!Op]
  BY <1>1 DEF Strm!TypeOK
<1>3. PICK ops : ops = [v5 EXCEPT ![r] = o]
  OBVIOUS
<1>4. ops \in [Ops -> Strm!Op] /\ ops[r] = o /\ \A q \in Ops \ {r} : ops[q] = v5[q]
  BY <1>2, <1>3
<1>5. ASSUME NEW q \in Ops PROVE Strm!OperandsKnown(ops[q], entries)
  <2>1. CASE q = r
    BY <2>1, <1>4
  <2>2. CASE q # r
    <3>1. Strm!OperandsKnown(v5[q], v4) /\ ops[q] = v5[q]
      BY <2>2, <1>1, <1>4 DEF Strm!EntriesSound
    <3>2. v5[q].entry # None => entries[v5[q].entry].content # None
      BY <2>2
    <3> QED
      BY <3>1, <3>2 DEF Strm!OperandsKnown
  <2> QED
    BY <2>1, <2>2
<1>6. d.value \in Strm!Entries \cup {None}
  BY DEF Strm!Caches
<1>7. v3' = d /\ v5' = ops /\ v4' \in [Strm!Entries -> Strm!Entry] /\ Strm!EntriesSound'
  <2>1. Strm!Becomes(d, entries, ops)
    BY <1>3
  <2> QED
    BY <2>1, <1>4, <1>5, <1>6, CollectingEntries
<1>8. Strm!TypeOK'
  BY <1>1, <1>4, <1>7 DEF Strm!TypeOK
<1>9. ASSUME NEW q \in Ops PROVE Strm!ReadSound(q)' /\ Strm!AnswerSound(q)'
  <2>1. CASE q = r
    <3>1. Moves(q, v5'[q], v3', v6') /\ v5'[q].epoch <= v2'
      BY <2>1, <1>4, <1>7
    <3>2. Strm!ReadSound(q)'
      BY <3>1 DEF Strm!ReadSound, Moves
    <3>3. Strm!AnswerSound(q)'
      BY <3>1 DEF Strm!AnswerSound, Moves
    <3> QED
      BY <3>2, <3>3
  <2>2. CASE q # r
    <3>1. Strm!ReadSound(q) /\ v5'[q] = v5[q] /\ Undisturbed(q, d, v6') /\ v3' = d
      BY <2>2, <1>1, <1>4, <1>7 DEF Strm!CacheSound
    <3>2. Strm!ReadSound(q)'
      BY <3>1 DEF Strm!ReadSound, Undisturbed
    <3>3. Strm!AnswerSound(q)'
      <4>1. Strm!Fenced(v3, q)' <=> Strm!Fenced(d, q)
        BY <3>1 DEF Strm!Fenced
      <4> QED
        BY <3>1, <4>1 DEF Strm!AnswerSound, Undisturbed
    <3> QED
      BY <3>2, <3>3
  <2> QED
    BY <2>1, <2>2
<1>10. Strm!PlaceholdersOwned'
  <2>1. SUFFICES ASSUME d.slot, d.value = None
                 PROVE  \E q \in Ops : v5'[q].kind \in {"narrow", "stat"} /\ d.obs[q] = "same"
    BY <1>7 DEF Strm!PlaceholdersOwned
  <2>2. CASE o.kind \in {"narrow", "stat"} /\ d.obs[r] = "same"
    BY <2>2, <1>4, <1>7
  <2>3. CASE \E q \in Ops \ {r} : v5[q].kind \in {"narrow", "stat"} /\ d.obs[q] = "same"
    <3>1. PICK q \in Ops \ {r} : v5[q].kind \in {"narrow", "stat"} /\ d.obs[q] = "same"
      BY <2>3
    <3> QED
      BY <3>1, <1>4, <1>7
  <2> QED
    BY <2>1, <2>2, <2>3 DEF Owned
<1>11. Strm!CacheSound'
  BY <1>7, <1>9, <1>10 DEF Strm!CacheSound
<1> QED
  BY <1>7, <1>8, <1>11 DEF Strm!Inductive

(* A step in which the cache changes less than a value: entries, and the     *)
(* reads that hold them, are as they were.                                   *)
LEMMA EntriesStay ==
    ASSUME NEW r \in Ops, Strm!Inductive
    PROVE  /\ v4 \in [Strm!Entries -> Strm!Entry] /\ \A e \in Strm!Entries : Strm!Fresh(v4[e])
           /\ \A q \in Ops \ {r} : v5[q].entry # None => v4[v5[q].entry].content # None
           /\ v3.value # None => v3.slot /\ v4[v3.value].content # None
           /\ v6 \in Nat /\ v6 <= v2
           /\ v3.slot /\ v3.value = None =>
                \E q \in Ops : v5[q].kind \in {"narrow", "stat"} /\ v3.obs[q] = "same"
<1>1. Strm!TypeOK /\ Strm!CacheSound /\ Strm!EntriesSound
  BY DEF Strm!Inductive
<1>2. ASSUME NEW q \in Ops, v5[q].entry # None PROVE v4[v5[q].entry].content # None
  BY <1>1, <1>2 DEF Strm!EntriesSound, Strm!OperandsKnown
<1>3. \A e \in Strm!Entries : Strm!Fresh(v4[e])
  BY <1>1 DEF Strm!EntriesSound, Strm!ProjectionFresh
<1>4. v6 \in Nat /\ v6 <= v2 /\ v4 \in [Strm!Entries -> Strm!Entry]
  BY <1>1 DEF Strm!TypeOK, Strm!CacheSound
<1>5. v3.value # None => v3.slot /\ v4[v3.value].content # None
  BY <1>1 DEF Strm!EntriesSound, Strm!CacheSound
<1>6. v3.slot /\ v3.value = None =>
                \E q \in Ops : v5[q].kind \in {"narrow", "stat"} /\ v3.obs[q] = "same"
  BY <1>1 DEF Strm!CacheSound, Strm!PlaceholdersOwned
<1> QED
  BY <1>2, <1>3, <1>4, <1>5, <1>6

(* A step that shows a read neither another value nor a change. *)
LEMMA StillUndisturbed ==
    ASSUME NEW q \in Ops, Strm!Inductive, NEW d, d.obs[q] = v3.obs[q], d.listing[q] = v3.listing[q],
           d.value = v3.value \/ d.value # None, d.obs[q] = "same" => d.slot
    PROVE  Undisturbed(q, d, v6)
<1>1. Strm!AnswerSound(q)
  BY StrmKnown
<1>2. Strm!Fenced(d, q) <=> Strm!Fenced(v3, q)
  BY DEF Strm!Fenced
<1> QED
  BY <1>1, <1>2 DEF Undisturbed, Strm!AnswerSound

(* The source answers. *)
LEMMA AskSound ==
    ASSUME NEW r \in Ops, Strm!Inductive, Strm!Ask(r)
    PROVE  Strm!Inductive'
<1>1. v5[r] \in Strm!Op /\ v5 \in [Ops -> Strm!Op] /\ v3 \in Strm!Caches(Strm!Entries) /\ Strm!ReadSound(r)
      /\ v1 \in Strm!Views \cup {None} /\ v2 \in Nat /\ v2 <= v2 /\ Strm!OperandsKnown(v5[r], v4)
  BY StrmKnown
<1>2. PICK o : o = [v5[r] EXCEPT !.view = v1, !.epoch = v2,
                       !.pc = IF v1 # None THEN "project" ELSE IF v5[r].kind = "list" THEN "finish" ELSE "forget"]
  OBVIOUS
<1>3. /\ o \in Strm!Op /\ o.epoch = v2 /\ o.kind = v5[r].kind /\ o.entry = v5[r].entry /\ o.view = v1
      /\ o.pc \in {"project", "finish", "forget"} /\ (o.pc = "project" => v1 # None)
  BY <1>1, <1>2 DEF Strm!Op, Strm!Observing
<1>4. v5' = [v5 EXCEPT ![r] = o]
  <2>1. [v5 EXCEPT ![r].view = v1, ![r].epoch = v2,
                   ![r].pc = IF v1 # None THEN "project" ELSE IF v5[r].kind = "list" THEN "finish" ELSE "forget"]
          = [v5 EXCEPT ![r] = o]
    BY <1>1, <1>2
  <2> QED
    BY <2>1 DEF Strm!Ask
<1>5. v3' = v3 /\ v4' = v4 /\ v6' = v6 /\ v1' = v1 /\ v2' = v2
      /\ v5[r].pc = "ask"
  BY DEF Strm!Ask
<1>6. v5' \in [Ops -> Strm!Op] /\ v5'[r] = o /\ \A q \in Ops \ {r} : v5'[q] = v5[q]
  BY <1>1, <1>3, <1>4
<1>7. Strm!TypeOK /\ Strm!CacheSound /\ Strm!EntriesSound
  BY DEF Strm!Inductive
<1>8. Strm!TypeOK'
  BY <1>5, <1>6, <1>7 DEF Strm!TypeOK
<1>9. Strm!EntriesSound'
  <2>1. ASSUME NEW q \in Ops PROVE Strm!OperandsKnown(v5'[q], v4)
    <3>1. CASE q = r
      <4>1. o.entry # None => v4[o.entry].content # None
        BY <1>1, <1>3 DEF Strm!OperandsKnown
      <4>2. o.pc \notin {"cached", "build", "mapping", "sizes", "pending", "signed", "shared", "link", "remember"}
        BY <1>3
      <4> QED
        BY <3>1, <4>1, <4>2, <1>3, <1>6 DEF Strm!OperandsKnown
    <3>2. CASE q # r
      BY <3>2, <1>6, <1>7 DEF Strm!EntriesSound
    <3> QED
      BY <3>1, <3>2
  <2> QED
    BY <2>1, <1>5, <1>7 DEF Strm!EntriesSound, Strm!ProjectionFresh
<1>10. ASSUME NEW q \in Ops PROVE Strm!ReadSound(q)' /\ Strm!AnswerSound(q)'
  <2>1. CASE q = r
    <3>1. v5[r].pc \in Strm!Observing /\ o.pc \in Strm!Observing /\ v6 <= v2
      BY <1>3, <1>5, <1>7 DEF Strm!Observing, Strm!CacheSound
    <3>2. v5'[q] = o /\ v3' = v3 /\ v2' = v2 /\ v6' = v6 /\ Strm!ReadSound(q)
      BY <2>1, <1>1, <1>5, <1>6
    <3>3. Strm!ReadSound(q)'
      BY <2>1, <3>1, <3>2, <1>1, <1>3 DEF Strm!ReadSound
    <3>4. Strm!AnswerSound(q)'
      BY <3>1, <3>2, <1>3 DEF Strm!AnswerSound
    <3> QED
      BY <3>3, <3>4
  <2>2. CASE q # r
    <3>1. Strm!ReadSound(q) /\ Strm!AnswerSound(q) /\ v5'[q] = v5[q]
      BY <2>2, <1>6, <1>7 DEF Strm!CacheSound
    <3> QED
      BY <3>1, <1>5 DEF Strm!ReadSound, Strm!AnswerSound, Strm!Fenced
  <2> QED
    BY <2>1, <2>2
<1>11. Strm!CacheSound'
  <2>1. \A q \in Ops : v5'[q].kind = v5[q].kind
    BY <1>3, <1>6
  <2>2. Strm!PlaceholdersOwned'
    BY <2>1, <1>5, <1>7 DEF Strm!CacheSound, Strm!PlaceholdersOwned
  <2> QED
    BY <2>2, <1>5, <1>7, <1>10 DEF Strm!CacheSound
<1> QED
  BY <1>8, <1>9, <1>11 DEF Strm!Inductive


(* What the operations of the snapshot cache show. *)
LEMMA AlteredFields ==
    ASSUME NEW c \in Strm!Caches(Strm!Entries)
    PROVE  /\ Strm!Altered(c) \in Strm!Caches(Strm!Entries) /\ Strm!Altered(c).slot = c.slot /\ Strm!Altered(c).value = c.value
           /\ Strm!Altered(c).listing = c.listing
           /\ \A q \in Ops : Strm!Altered(c).obs[q] = IF c.obs[q] = "same" THEN "changed" ELSE c.obs[q]
<1>1. c.obs \in [Ops -> {"none", "same", "changed"}]
  BY DEF Strm!Caches
<1>2. PICK seen : seen = [r \in Ops |-> IF c.obs[r] = "same" THEN "changed" ELSE c.obs[r]]
  OBVIOUS
<1>3. seen \in [Ops -> {"none", "same", "changed"}]
  BY <1>1, <1>2
<1>4. Strm!Altered(c) = [c EXCEPT !.obs = seen]
  BY <1>2 DEF Strm!Altered
<1>5. /\ [c EXCEPT !.obs = seen] \in Strm!Caches(Strm!Entries) /\ [c EXCEPT !.obs = seen].slot = c.slot
      /\ [c EXCEPT !.obs = seen].value = c.value /\ [c EXCEPT !.obs = seen].listing = c.listing
      /\ [c EXCEPT !.obs = seen].obs = seen
  BY <1>3 DEF Strm!Caches
<1> QED
  BY <1>2, <1>4, <1>5

(* What publishing an entry leaves of the cache. *)
LEMMA PublishedFields ==
    ASSUME NEW c \in Strm!Caches(Strm!Entries), NEW r \in Ops, NEW v \in Strm!Entries, Strm!Unchanged(c, r)
    PROVE  /\ Strm!Publish(c, r, v) \in Strm!Caches(Strm!Entries) /\ Strm!Publish(c, r, v).slot /\ Strm!Publish(c, r, v).value = v
           /\ Strm!Publish(c, r, v).listing = c.listing /\ Strm!Publish(c, r, v).obs = Strm!Altered(c).obs
<1>1. Strm!Publish(c, r, v) = [Strm!Altered(c) EXCEPT !.slot = TRUE, !.value = v] /\ Strm!Altered(c) \in Strm!Caches(Strm!Entries)
      /\ Strm!Altered(c).listing = c.listing
  BY AlteredFields DEF Strm!Publish
<1> QED
  BY <1>1 DEF Strm!Caches

(* Forgetting a hash fences every listing in flight. *)
LEMMA ForgottenFields ==
    ASSUME NEW c \in Strm!Caches(Strm!Entries)
    PROVE  /\ Strm!Forgotten(c) \in Strm!Caches(Strm!Entries) /\ ~Strm!Forgotten(c).slot /\ Strm!Forgotten(c).value = None
           /\ Strm!Forgotten(c).obs = Strm!Altered(c).obs
           /\ \A q \in Ops :
                /\ c.listing[q] # None => Strm!Forgotten(c).listing[q] # None /\ Strm!Fenced(Strm!Forgotten(c), q)
                /\ c.listing[q] = None => Strm!Forgotten(c).listing[q] = None
<1>1. Strm!Altered(c) \in Strm!Caches(Strm!Entries) /\ Strm!Altered(c).listing = c.listing
  BY AlteredFields
<1>2. PICK ls : ls = [q \in Ops |-> IF c.listing[q] = None THEN None ELSE [c.listing[q] EXCEPT !.invalidated = TRUE]]
  OBVIOUS
<1>3. c.listing \in [Ops -> {None} \cup [invalidated : BOOLEAN, restricted : BOOLEAN, allowed : BOOLEAN]]
  BY DEF Strm!Caches
<1>4. /\ ls \in [Ops -> {None} \cup [invalidated : BOOLEAN, restricted : BOOLEAN, allowed : BOOLEAN]]
      /\ \A q \in Ops : c.listing[q] # None =>
           /\ ls[q] \in [invalidated : BOOLEAN, restricted : BOOLEAN, allowed : BOOLEAN]
           /\ ls[q].invalidated
      /\ \A q \in Ops : c.listing[q] = None => ls[q] = None
  BY <1>2, <1>3
<1>5. Strm!Forgotten(c) = [Strm!Altered(c) EXCEPT !.slot = FALSE, !.value = None, !.listing = ls]
  BY <1>1, <1>2 DEF Strm!Forgotten
<1>6. PICK f : f = Strm!Forgotten(c)
  OBVIOUS
<1>7. f \in Strm!Caches(Strm!Entries) /\ f.slot = FALSE /\ f.value = None /\ f.obs = Strm!Altered(c).obs /\ f.listing = ls
  BY <1>1, <1>4, <1>5, <1>6 DEF Strm!Caches
<1>8. ASSUME NEW q \in Ops, c.listing[q] # None PROVE f.listing[q] # None /\ Strm!Fenced(f, q)
  <2>1. f.listing[q] = ls[q] /\ ls[q] # None /\ ls[q].invalidated
    BY <1>4, <1>7, <1>8, StrmAssumption
  <2>2. f.listing[q].invalidated
    BY <2>1
  <2> QED
    BY <2>1, <2>2 DEF Strm!Fenced
<1> QED
  BY <1>4, <1>6, <1>7, <1>8

(* strmBackend.Torrents begins. *)
LEMMA ListBeginSound ==
    ASSUME NEW r \in Ops, Strm!Inductive, Strm!ListBegin(r)
    PROVE  Strm!Inductive'
<1>1. v5[r] \in Strm!Op /\ v5 \in [Ops -> Strm!Op] /\ v3 \in Strm!Caches(Strm!Entries)
      /\ UNCHANGED <<v1, v2, v6>> /\ v5[r].pc = "idle" /\ 0 <= v2
  BY StrmKnown DEF Strm!ListBegin
<1>2. PICK d : d = Strm!ObserveListing(v3, r)
  OBVIOUS
<1>3. PICK seen : seen = IF v3.slot THEN "same" ELSE "none"
  OBVIOUS
<1>4. d = [v3 EXCEPT !.listing[r] = Strm!Listing, !.obs[r] = seen]
  BY <1>2, <1>3 DEF Strm!ObserveListing
<1>5. Strm!Listing \in [invalidated : BOOLEAN, restricted : BOOLEAN, allowed : BOOLEAN] /\ Strm!Listing # None
      /\ seen \in {"none", "same", "changed"}
  <2>1. Strm!Listing \in [invalidated : BOOLEAN, restricted : BOOLEAN, allowed : BOOLEAN]
    BY DEF Strm!Listing
  <2>2. Strm!Listing # None
    BY <2>1, StrmAssumption
  <2> QED
    BY <2>1, <2>2, <1>3
<1>6. /\ d \in Strm!Caches(Strm!Entries) /\ d.slot = v3.slot /\ d.value = v3.value
      /\ d.obs[r] = seen /\ d.listing[r] = Strm!Listing
      /\ \A q \in Ops \ {r} : d.obs[q] = v3.obs[q] /\ d.listing[q] = v3.listing[q]
  BY <1>1, <1>4, <1>5 DEF Strm!Caches
<1>7. PICK o : o = [Strm!Idle EXCEPT !.pc = "ask", !.kind = "list"]
  OBVIOUS
<1>8. o \in Strm!Op /\ o.pc = "ask" /\ o.kind = "list" /\ o.epoch = 0 /\ o.entry = None
  BY <1>7, StrmIdle DEF Strm!Idle, Strm!Op, Strm!Observing
<1>9. Strm!OperandsKnown(o, v4) /\ o.pc \in Strm!Observing /\ o.epoch <= v2
  BY <1>1, <1>8 DEF Strm!OperandsKnown, Strm!Observing
<1>10. Strm!Becomes(d, v4, [v5 EXCEPT ![r] = o])
  BY <1>2, <1>7 DEF Strm!ListBegin
<1>11. ASSUME NEW q \in Ops \ {r} PROVE Undisturbed(q, d, v6')
  <2>1. d.obs[q] = "same" => d.slot
    BY <1>6, StrmKnown DEF Strm!ReadSound
  <2> QED
    BY <2>1, <1>1, <1>6, StillUndisturbed
<1>12. Moves(r, o, d, v6')
  BY <1>3, <1>5, <1>6, <1>8, <1>9 DEF Moves
<1>13. d.slot /\ d.value = None => Owned(r, o, d)
  <2>1. SUFFICES ASSUME v3.slot, v3.value = None PROVE Owned(r, o, d)
    BY <1>6
  <2>2. PICK q \in Ops : v5[q].kind \in {"narrow", "stat"} /\ v3.obs[q] = "same"
    BY <2>1, EntriesStay
  <2>3. q # r
    BY <2>2, <1>1, StrmKnown DEF Strm!ReadSound, Strm!Observing
  <2> QED
    BY <2>2, <2>3, <1>6 DEF Owned
<1>14. d.value # None => d.slot /\ v4[d.value].content # None
  BY <1>6, EntriesStay
<1>15. v6' \in Nat /\ v6' <= v2
  BY <1>1, EntriesStay
<1> QED
  BY <1>1, <1>6, <1>8, <1>9, <1>10, <1>11, <1>12, <1>13, <1>14, <1>15, EntriesStay,
     CacheStep

(* A read of the one torrent begins to ask: it leaves a placeholder. *)
LEMMA ObservesSound ==
    ASSUME NEW r \in Ops, Strm!Inductive, Strm!NarrowBegin(r) \/ Strm!StatMisses(r)
    PROVE  Strm!Inductive'
<1>1. PICK kind \in {"narrow", "stat"} : Strm!Observes(r, kind)
  BY DEF Strm!NarrowBegin, Strm!StatMisses
<1>2. v5[r].pc \notin Strm!Observing /\ UNCHANGED <<v1, v2, v6>>
  BY DEF Strm!NarrowBegin, Strm!StatMisses, Strm!Observing
<1>3. v5[r] \in Strm!Op /\ v5 \in [Ops -> Strm!Op] /\ v3 \in Strm!Caches(Strm!Entries) /\ 0 <= v2
  BY StrmKnown
<1>4. PICK d : d = Strm!Observe(v3, r)
  OBVIOUS
<1>5. /\ d \in Strm!Caches(Strm!Entries) /\ d.slot = TRUE /\ d.value = v3.value /\ d.listing = v3.listing
      /\ d.obs[r] = "same" /\ \A q \in Ops \ {r} : d.obs[q] = v3.obs[q]
  BY <1>3, <1>4 DEF Strm!Caches, Strm!Observe
<1>6. PICK o : o = [Strm!Idle EXCEPT !.pc = "ask", !.kind = kind]
  OBVIOUS
<1>7. o \in Strm!Op /\ o.pc = "ask" /\ o.kind = kind /\ o.epoch = 0 /\ o.entry = None
  BY <1>6, StrmIdle DEF Strm!Idle, Strm!Op, Strm!Observing
<1>8. Strm!OperandsKnown(o, v4) /\ o.pc \in Strm!Observing /\ o.epoch <= v2
  BY <1>3, <1>7 DEF Strm!OperandsKnown, Strm!Observing
<1>9. Strm!Becomes(d, v4, [v5 EXCEPT ![r] = o])
  BY <1>1, <1>4, <1>6 DEF Strm!Observes
<1>10. ASSUME NEW q \in Ops \ {r} PROVE Undisturbed(q, d, v6')
  BY <1>2, <1>5, StillUndisturbed
<1>11. Moves(r, o, d, v6') /\ Owned(r, o, d)
  BY <1>5, <1>7, <1>8 DEF Moves, Owned
<1>12. d.value # None => d.slot /\ v4[d.value].content # None
  BY <1>5, EntriesStay
<1>13. v6' \in Nat /\ v6' <= v2
  BY <1>2, EntriesStay
<1> QED
  BY <1>2, <1>5, <1>7, <1>8, <1>9, <1>10, <1>11, <1>12, <1>13, EntriesStay, CacheStep


(* There is always an entry that neither the cache nor a read holds. *)
LEMMA FreshEntryFree ==
    ASSUME Counting, Strm!Inductive
    PROVE  Strm!FreshEntry \in Strm!Entries /\ ~Strm!Held(Strm!FreshEntry, v3, v5)
<1>1. PICK n : n = Cardinality(Ops)
  OBVIOUS
<1>2. n \in Nat
  BY <1>1, StrmAssumption DEF Counting, CountIsNatural
<1>3. PICK H : H = {v5[q].entry : q \in Ops}
  OBVIOUS
<1>4. IsFiniteSet(H) /\ Cardinality(H) <= n /\ Cardinality(H) \in Nat
  <2>1. PICK h : h = [q \in Ops |-> v5[q].entry]
    OBVIOUS
  <2>2. h \in Onto(Ops, H)
    BY <2>1, <1>3 DEF Onto
  <2>3. IsFiniteSet(H) /\ Cardinality(H) <= Cardinality(Ops)
    BY <2>2, StrmAssumption DEF Counting, ImageCount
  <2> QED
    BY <2>3, <1>1 DEF Counting, CountIsNatural
<1>5. IsFiniteSet(H \cup {v3.value}) /\ Cardinality(H \cup {v3.value}) <= n + 1
  <2>1. IsFiniteSet(H \cup {v3.value})
        /\ (Cardinality(H \cup {v3.value}) = Cardinality(H) \/ Cardinality(H \cup {v3.value}) = Cardinality(H) + 1)
    BY <1>4 DEF Counting, AddedCount
  <2> QED
    BY <2>1, <1>4, <1>2, SMTT(30)
<1>6. IsFiniteSet(Strm!Entries) /\ Cardinality(Strm!Entries) = n + 2
  <2>1. PICK a, b : a = 1 /\ b = n + 2
    OBVIOUS
  <2>2. a \in Int /\ b \in Int /\ ~(a > b) /\ b - a + 1 = n + 2
    BY <2>1, <1>2, SMTT(30)
  <2>3. IsFiniteSet(a .. b) /\ Cardinality(a .. b) = b - a + 1
    BY <2>2 DEF Counting, IntervalCount
  <2>4. Strm!Entries = a .. b
    BY StrmCounts, <2>1, <1>1 DEF Strm!Entries
  <2> QED
    BY <2>2, <2>3, <2>4
<1>7. PICK e \in Strm!Entries : e \notin H \cup {v3.value}
  <2>1. ASSUME Strm!Entries \subseteq H \cup {v3.value} PROVE FALSE
    <3>1. Cardinality(Strm!Entries) <= Cardinality(H \cup {v3.value})
      BY <2>1, <1>5 DEF Counting, SubsetCount
    <3>2. Cardinality(H \cup {v3.value}) \in Nat
      BY <1>5 DEF Counting, CountIsNatural
    <3> QED
      BY <3>1, <3>2, <1>2, <1>5, <1>6, SMTT(30)
  <2> QED
    BY <2>1
<1>8. ~Strm!Held(e, v3, v5)
  BY <1>3, <1>7 DEF Strm!Held
<1> QED
  BY <1>7, <1>8 DEF Strm!FreshEntry

(* What a read that has its answer may rely on when it finds the hash as it  *)
(* saw it: the cache has acted on nothing newer.                             *)
LEMMA AnswerNewer ==
    ASSUME NEW r \in Ops, Strm!Inductive, v5[r].pc = "project", Strm!Unchanged(v3, r)
    PROVE  v6 <= v5[r].epoch
<1>1. Strm!AnswerSound(r) /\ (v3.value # None => v3.slot)
  BY StrmKnown, EntriesStay
<1>2. ~Strm!Fenced(v3, r) /\ (v3.obs[r] = "same" \/ (v3.obs[r] = "none" /\ ~v3.slot))
  BY DEF Strm!Unchanged
<1> QED
  BY <1>1, <1>2 DEF Strm!AnswerSound

(* projectTorrent, when another read has built the mapping or is building it. *)
LEMMA SharedSound ==
    ASSUME NEW r \in Ops, Strm!Inductive, Strm!ProjectShared(r)
    PROVE  Strm!Inductive' /\ (v6' = v6 \/ (v6' = v5[r].epoch /\ v6 <= v5[r].epoch))
<1>1. PICK e : e = v3.value
  OBVIOUS
<1>2. /\ v5[r] \in Strm!Op /\ v5 \in [Ops -> Strm!Op] /\ v3 \in Strm!Caches(Strm!Entries) /\ v4 \in [Strm!Entries -> Strm!Entry]
      /\ v5[r].epoch <= v2 /\ v5[r].epoch \in Nat /\ e \in Strm!Entries \cup {None} /\ Strm!ReadSound(r)
      /\ Strm!OperandsKnown(v5[r], v4)
  BY <1>1, StrmKnown
<1>3. v5[r].pc = "project" /\ e # None /\ UNCHANGED <<v1, v2>>
  BY <1>1 DEF Strm!ProjectShared, Strm!Matches
<1>4. e \in Strm!Entries /\ v5[r].view \in Strm!Views /\ v5[r].pc \in Strm!Observing
  BY <1>2, <1>3 DEF Strm!OperandsKnown, Strm!Op, Strm!Observing
<1>5. PICK o : o = [v5[r] EXCEPT !.pc = "mapping", !.entry = e]
  OBVIOUS
<1>6. [v5 EXCEPT ![r].pc = "mapping", ![r].entry = e] = [v5 EXCEPT ![r] = o]
  BY <1>2, <1>5
<1>7. o \in Strm!Op /\ o.pc = "mapping" /\ o.kind = v5[r].kind /\ o.epoch = v5[r].epoch /\ o.entry = e
  BY <1>2, <1>4, <1>5 DEF Strm!Op, Strm!Observing
<1>8. o.pc \in Strm!Observing
  BY <1>7 DEF Strm!Observing
<1>9. CASE ~Strm!Refreshes(r)
  <2>1. Strm!Becomes(v3, v4, [v5 EXCEPT ![r] = o]) /\ v6' = v6
    BY <1>1, <1>6, <1>9 DEF Strm!ProjectShared
  <2>2. Strm!Inductive'
    BY <1>1, <1>2, <1>3, <1>4, <1>7, <1>8, <2>1, StrmKnown, QuietOne
  <2> QED
    BY <2>1, <2>2
<1>10. CASE Strm!Refreshes(r)
  <2>1. PICK d : d = Strm!Altered(v3)
    OBVIOUS
  <2>2. PICK n : n = [v4[e] EXCEPT !.created = v5[r].view.created]
    OBVIOUS
  <2>3. PICK entries : entries = [v4 EXCEPT ![e] = n]
    OBVIOUS
  <2>4. v5[r].view.created \in Nat
    <3>1. v5[r].view.created \in 0 .. MaxChanges
      BY <1>4 DEF Strm!Views
    <3> QED
      BY ONLY <3>1, StrmAssumption, SMTT(30)
  <2>5. n \in Strm!Entry /\ n.content = v4[e].content /\ n.projected = v4[e].projected
        /\ n.size = v4[e].size /\ n.complete = v4[e].complete
    BY <2>2, <2>4, <1>2, <1>4 DEF Strm!Entry
  <2>6. Strm!Fresh(v4[e])
    BY <1>4, StrmKnown
  <2>7. Strm!Fresh(n)
    BY <2>5, <2>6 DEF Strm!Fresh
  <2>8. entries \in [Strm!Entries -> Strm!Entry]
        /\ \A x \in Strm!Entries : Strm!Fresh(entries[x]) /\ entries[x].content = v4[x].content
    BY <2>3, <2>5, <2>7, <1>4, EntryWritten
  <2>9. [v4 EXCEPT ![e].created = v5[r].view.created] = entries
    BY <2>2, <2>3, <1>2, <1>4
  <2>10. Strm!Becomes(d, entries, [v5 EXCEPT ![r] = o]) /\ v6' = v5[r].epoch
    BY <2>1, <2>9, <1>1, <1>6, <1>10 DEF Strm!ProjectShared
  <2>11. /\ d \in Strm!Caches(Strm!Entries) /\ d.slot = v3.slot /\ d.value = e /\ d.listing = v3.listing
         /\ \A q \in Ops : d.obs[q] = IF v3.obs[q] = "same" THEN "changed" ELSE v3.obs[q]
    BY <2>1, <1>1, <1>2, AlteredFields
  <2>12. v6 <= v5[r].epoch
    BY <1>3, <1>10, AnswerNewer DEF Strm!Refreshes
  <2>13. ASSUME NEW q \in Ops PROVE d.obs[q] # "same"
    BY <2>11
  <2>14. ASSUME NEW q \in Ops \ {r} PROVE Undisturbed(q, d, v6')
    BY <2>11, <2>13, <1>3 DEF Undisturbed
  <2>15. Moves(r, o, d, v6')
    <3>1. \/ o.kind = "list" /\ d.listing[r] # None
          \/ o.kind \in {"narrow", "stat"} /\ d.obs[r] # "none"
      BY <2>11, <1>2, <1>4, <1>7 DEF Strm!ReadSound
    <3> QED
      BY <2>13, <3>1, <1>7, <1>8 DEF Moves
  <2>16. v3.slot /\ v4[e].content # None
    BY <1>1, <1>3, EntriesStay
  <2>17. d.value # None => d.slot /\ entries[d.value].content # None
    BY <2>8, <2>11, <2>16, <1>4
  <2>18. Strm!OperandsKnown(o, entries)
    <3>1. entries[e].content # None
      BY <2>8, <2>16, <1>4
    <3> QED
      BY <3>1, <1>3, <1>7 DEF Strm!OperandsKnown
  <2>19. ASSUME NEW q \in Ops \ {r}, v5[q].entry # None PROVE entries[v5[q].entry].content # None
    <3>1. v5[q].entry \in Strm!Entries \cup {None} /\ v4[v5[q].entry].content # None
      BY <2>19, EntriesStay, StrmKnown
    <3> QED
      BY <3>1, <2>8, <2>19
  <2>20. d.slot /\ d.value = None => Owned(r, o, d)
    BY <2>11, <1>3
  <2>21. Strm!Inductive'
    BY ONLY Strm!Inductive, r \in Ops, <1>2, <1>3, <1>7, <2>8, <2>10, <2>11, <2>14, <2>15,
       <2>17, <2>18, <2>19, <2>20, CacheStep, ZenonT(40)
  <2> QED
    BY <2>10, <2>12, <2>21
<1> QED
  BY <1>9, <1>10

(* projectTorrent, when the read has to build the mapping. *)
LEMMA NewSound ==
    ASSUME Counting, NEW r \in Ops, Strm!Inductive, Strm!ProjectNew(r)
    PROVE  Strm!Inductive' /\ (v6' = v6 \/ (v6' = v5[r].epoch /\ v6 <= v5[r].epoch))
<1>1. PICK v : v = Strm!FreshEntry
  OBVIOUS
<1>2. v \in Strm!Entries /\ ~Strm!Held(v, v3, v5) /\ v # None
  BY <1>1, FreshEntryFree, NoneIsNoEntry
<1>3. /\ v5[r] \in Strm!Op /\ v5 \in [Ops -> Strm!Op] /\ v3 \in Strm!Caches(Strm!Entries) /\ v4 \in [Strm!Entries -> Strm!Entry]
      /\ v5[r].epoch <= v2 /\ v5[r].epoch \in Nat /\ Strm!ReadSound(r) /\ Strm!OperandsKnown(v5[r], v4)
      /\ v3.value \in Strm!Entries \cup {None}
  BY StrmKnown
<1>4. v5[r].pc = "project" /\ UNCHANGED <<v1, v2>>
  BY DEF Strm!ProjectNew
<1>5. v5[r].view \in Strm!Views /\ v5[r].pc \in Strm!Observing
  BY <1>3, <1>4 DEF Strm!OperandsKnown, Strm!Op, Strm!Observing
<1>6. PICK o : o = [v5[r] EXCEPT !.pc = "build", !.entry = v]
  OBVIOUS
<1>7. [v5 EXCEPT ![r].pc = "build", ![r].entry = v] = [v5 EXCEPT ![r] = o]
  BY <1>3, <1>6
<1>8. o \in Strm!Op /\ o.pc = "build" /\ o.kind = v5[r].kind /\ o.epoch = v5[r].epoch /\ o.entry = v
  BY <1>2, <1>3, <1>6 DEF Strm!Op, Strm!Observing
<1>9. o.pc \in Strm!Observing
  BY <1>8 DEF Strm!Observing
<1>10. PICK n : n = [Strm!NoEntry EXCEPT !.content = v5[r].view.content, !.created = v5[r].view.created]
  OBVIOUS
<1>11. n \in Strm!Entry /\ n.content # None /\ n.projected = None
  <2>1. v5[r].view.content \in Contents /\ v5[r].view.created \in 0 .. MaxChanges
    BY <1>5 DEF Strm!Views
  <2>2. v5[r].view.created \in Nat
    BY ONLY <2>1, StrmAssumption, SMTT(30)
  <2>3. n \in Strm!Entry /\ n.content = v5[r].view.content /\ n.projected = None
    BY <2>1, <2>2, <1>10, StrmIdle DEF Strm!Entry, Strm!NoEntry
  <2> QED
    BY <2>1, <2>3, StrmAssumption
<1>12. PICK entries : entries = [v4 EXCEPT ![v] = n]
  OBVIOUS
<1>13. /\ entries \in [Strm!Entries -> Strm!Entry] /\ entries[v] = n
       /\ \A x \in Strm!Entries \ {v} : entries[x] = v4[x]
  BY <1>2, <1>3, <1>11, <1>12
<1>14. ASSUME NEW x \in Strm!Entries PROVE Strm!Fresh(entries[x])
  <2>1. Strm!Fresh(n) /\ Strm!Fresh(v4[x])
    BY <1>11, EntriesStay DEF Strm!Fresh
  <2> QED
    BY <2>1, <1>13
<1>15. ASSUME NEW q \in Ops \ {r}, v5[q].entry # None PROVE entries[v5[q].entry].content # None
  <2>1. v5[q].entry \in Strm!Entries \cup {None} /\ v4[v5[q].entry].content # None
    BY <1>15, EntriesStay, StrmKnown
  <2>2. v5[q].entry # v
    BY <1>2 DEF Strm!Held
  <2> QED
    BY <2>1, <2>2, <1>13, <1>15
<1>16. Strm!OperandsKnown(o, entries)
  BY <1>2, <1>8, <1>11, <1>13 DEF Strm!OperandsKnown
<1>17. PICK d : d = Strm!Publish(v3, r, v)
  OBVIOUS
<1>18. /\ Strm!Becomes(d, entries, [v5 EXCEPT ![r] = o])
       /\ v6' = IF d # v3 THEN v5[r].epoch ELSE v6
  BY <1>1, <1>7, <1>10, <1>12, <1>17 DEF Strm!ProjectNew
<1>19. \/ v5[r].kind = "list" /\ v3.listing[r] # None
       \/ v5[r].kind \in {"narrow", "stat"} /\ v3.obs[r] # "none"
  BY <1>3, <1>5 DEF Strm!ReadSound
<1>20. CASE Strm!Unchanged(v3, r)
  <2>1. /\ d \in Strm!Caches(Strm!Entries) /\ d.slot /\ d.value = v /\ d.listing = v3.listing
        /\ \A q \in Ops : d.obs[q] = IF v3.obs[q] = "same" THEN "changed" ELSE v3.obs[q]
    <3>1. /\ d \in Strm!Caches(Strm!Entries) /\ d.slot /\ d.value = v /\ d.listing = v3.listing
          /\ d.obs = Strm!Altered(v3).obs
      BY <1>2, <1>3, <1>17, <1>20, PublishedFields
    <3>2. \A q \in Ops : Strm!Altered(v3).obs[q] = IF v3.obs[q] = "same" THEN "changed" ELSE v3.obs[q]
      BY <1>3, AlteredFields
    <3> QED
      BY <3>1, <3>2
  <2>2. v # v3.value
    BY <1>2 DEF Strm!Held
  <2>3. v6' = v5[r].epoch
    BY <2>1, <2>2, <1>18
  <2>4. v6 <= v5[r].epoch
    BY <1>4, <1>20, AnswerNewer
  <2>5. ASSUME NEW q \in Ops PROVE d.obs[q] # "same"
    BY <2>1
  <2>6. ASSUME NEW q \in Ops \ {r} PROVE Undisturbed(q, d, v6')
    BY <2>1, <2>5, <1>2 DEF Undisturbed
  <2>7. Moves(r, o, d, v6')
    <3>1. \/ o.kind = "list" /\ d.listing[r] # None
          \/ o.kind \in {"narrow", "stat"} /\ d.obs[r] # "none"
      BY <2>1, <1>8, <1>19
    <3> QED
      BY <2>5, <3>1, <1>8, <1>9 DEF Moves
  <2>8. d.value # None => d.slot /\ entries[d.value].content # None
    BY <2>1, <1>11, <1>13
  <2>9. d.slot /\ d.value = None => Owned(r, o, d)
    BY <2>1, <1>2
  <2>10. Strm!Inductive'
    BY ONLY Strm!Inductive, r \in Ops, <1>3, <1>4, <1>8, <1>13, <1>14, <1>15, <1>16, <1>18,
            <2>1, <2>3, <2>6, <2>7, <2>8, <2>9, CacheStep, ZenonT(40)
  <2> QED
    BY <2>3, <2>4, <2>10
<1>21. CASE ~Strm!Unchanged(v3, r)
  <2>1. d = v3 /\ v6' = v6
    BY <1>17, <1>18, <1>21 DEF Strm!Publish
  <2>2. ASSUME NEW q \in Ops PROVE v3.obs[q] = "same" => v3.slot
    BY StrmKnown DEF Strm!ReadSound
  <2>3. ASSUME NEW q \in Ops \ {r} PROVE Undisturbed(q, d, v6')
    BY <2>1, <2>2, StillUndisturbed
  <2>4. Moves(r, o, d, v6')
    BY <2>1, <2>2, <1>8, <1>9, <1>19 DEF Moves
  <2>5. d.value # None => d.slot /\ entries[d.value].content # None
    <3>1. v3.value # None => v3.slot /\ v4[v3.value].content # None
      BY EntriesStay
    <3>2. v # v3.value
      BY <1>2 DEF Strm!Held
    <3> QED
      BY <2>1, <3>1, <3>2, <1>3, <1>13
  <2>6. d.slot /\ d.value = None => Owned(r, o, d)
    <3>1. v3.slot /\ v3.value = None =>
                \E q \in Ops : v5[q].kind \in {"narrow", "stat"} /\ v3.obs[q] = "same"
      BY EntriesStay
    <3> QED
      BY <2>1, <3>1, <1>8 DEF Owned
  <2>7. v6' \in Nat /\ v6' <= v2
    BY <2>1, EntriesStay
  <2>8. Strm!Inductive'
    BY ONLY Strm!Inductive, r \in Ops, <1>3, <1>4, <1>8, <1>13, <1>14, <1>15, <1>16, <1>18,
            <2>1, <2>3, <2>4, <2>5, <2>6, <2>7, CacheStep, ZenonT(40)
  <2> QED
    BY <2>1, <2>8
<1> QED
  BY <1>20, <1>21


(* A narrow read found no torrent: the cache forgets the hash, unless it has *)
(* changed since.                                                            *)
LEMMA AbsentSound ==
    ASSUME NEW r \in Ops, Strm!Inductive, Strm!Absent(r)
    PROVE  Strm!Inductive' /\ v6' \in {v6, Strm!Max2(v6, v5[r].epoch)}
<1>1. /\ v5[r] \in Strm!Op /\ v5 \in [Ops -> Strm!Op] /\ v3 \in Strm!Caches(Strm!Entries)
      /\ v5[r].epoch <= v2 /\ v5[r].epoch \in Nat /\ Strm!ReadSound(r) /\ Strm!OperandsKnown(v5[r], v4)
      /\ v2 \in Nat /\ v6 \in Nat /\ v6 <= v2
  BY StrmKnown, EntriesStay
<1>2. v5[r].pc = "forget" /\ UNCHANGED <<v1, v2>> /\ v5[r].pc \in Strm!Observing
  BY DEF Strm!Absent, Strm!Observing
<1>3. PICK o : o = [v5[r] EXCEPT !.pc = "finish"]
  OBVIOUS
<1>4. Strm!Goes(r, "finish") = [v5 EXCEPT ![r] = o]
  BY <1>1, <1>3 DEF Strm!Goes
<1>5. o \in Strm!Op /\ o.pc = "finish" /\ o.kind = v5[r].kind /\ o.epoch = v5[r].epoch /\ o.entry = v5[r].entry
  BY <1>1, <1>3 DEF Strm!Op, Strm!Observing
<1>6. o.pc \in Strm!Observing /\ o.pc # "project"
      /\ o.pc \notin {"cached", "build", "mapping", "sizes", "pending", "signed", "shared", "link", "remember"}
  BY <1>5 DEF Strm!Observing
<1>7. PICK d : d = Strm!Forget(v3, r)
  OBVIOUS
<1>8. /\ Strm!Becomes(d, v4, [v5 EXCEPT ![r] = o])
      /\ v6' = IF Strm!Unchanged(v3, r) THEN Strm!Max2(v6, v5[r].epoch) ELSE v6
  BY <1>4, <1>7 DEF Strm!Absent
<1>9. CASE ~Strm!Unchanged(v3, r)
  <2>1. d = v3 /\ v6' = v6
    BY <1>7, <1>8, <1>9 DEF Strm!Forget
  <2>2. Strm!Inductive'
    BY <1>2, <1>5, <1>6, <1>8, <2>1, StrmKnown, QuietOne
  <2> QED
    BY <2>1, <2>2
<1>10. CASE Strm!Unchanged(v3, r)
  <2>1. d = Strm!Forgotten(v3) /\ v6' = Strm!Max2(v6, v5[r].epoch)
    BY <1>7, <1>8, <1>10 DEF Strm!Forget
  <2>2. v6' \in Nat /\ v6' <= v2
    BY ONLY <2>1, <1>1, SMTT(30) DEF Strm!Max2
  <2>3. /\ d \in Strm!Caches(Strm!Entries) /\ ~d.slot /\ d.value = None
        /\ \A q \in Ops : /\ v3.listing[q] # None => d.listing[q] # None /\ Strm!Fenced(d, q)
                          /\ d.obs[q] = IF v3.obs[q] = "same" THEN "changed" ELSE v3.obs[q]
    <3>1. /\ d \in Strm!Caches(Strm!Entries) /\ ~d.slot /\ d.value = None /\ d.obs = Strm!Altered(v3).obs
          /\ \A q \in Ops : v3.listing[q] # None => d.listing[q] # None /\ Strm!Fenced(d, q)
      BY <2>1, <1>1, ForgottenFields
    <3>2. \A q \in Ops : Strm!Altered(v3).obs[q] = IF v3.obs[q] = "same" THEN "changed" ELSE v3.obs[q]
      BY <1>1, AlteredFields
    <3> QED
      BY <3>1, <3>2
  <2>4. ASSUME NEW q \in Ops PROVE d.obs[q] # "same"
    BY <2>3
  <2>5. ASSUME NEW q \in Ops \ {r} PROVE Undisturbed(q, d, v6')
    <3>1. v5[q].pc = "project" /\ d.obs[q] = "none" => v3.listing[q] # None
      BY <2>3, StrmKnown DEF Strm!ReadSound, Strm!Observing
    <3>2. v5[q].pc = "project" /\ d.obs[q] = "none" => Strm!Fenced(d, q)
      BY <2>3, <3>1
    <3> QED
      BY <2>3, <2>4, <3>2 DEF Undisturbed
  <2>6. Moves(r, o, d, v6')
    <3>1. \/ o.kind = "list" /\ d.listing[r] # None
          \/ o.kind \in {"narrow", "stat"} /\ d.obs[r] # "none"
      BY <2>3, <1>1, <1>2, <1>5 DEF Strm!ReadSound
    <3> QED
      BY <2>4, <3>1, <1>6 DEF Moves
  <2>7. Strm!OperandsKnown(o, v4)
    BY <1>1, <1>5, <1>6 DEF Strm!OperandsKnown
  <2>8. Strm!Inductive'
    BY <1>1, <1>2, <1>5, <1>8, <2>2, <2>3, <2>5, <2>6, <2>7, EntriesStay, CacheStep
  <2> QED
    BY <2>1, <2>8
<1> QED
  BY <1>9, <1>10

(* The deferred finish of a narrow read takes its placeholder away. *)
LEMMA FinishSound ==
    ASSUME NEW r \in Ops, Strm!Inductive, Strm!FinishNarrow(r)
    PROVE  Strm!Inductive'
<1>1. /\ v5[r] \in Strm!Op /\ v5 \in [Ops -> Strm!Op] /\ v3 \in Strm!Caches(Strm!Entries)
      /\ Strm!ReadSound(r) /\ Strm!OperandsKnown(v5[r], v4) /\ v5[r].epoch <= v2 /\ 0 <= v2
      /\ v6 \in Nat /\ v6 <= v2
  BY StrmKnown, EntriesStay
<1>2. v5[r].pc = "finish" /\ UNCHANGED <<v1, v2, v6>>
  BY DEF Strm!FinishNarrow
<1>3. PICK o : o = IF v5[r].kind = "stat" /\ v5[r].entry # None
                   THEN [v5[r] EXCEPT !.pc = "link", !.view = None, !.epoch = 0] ELSE Strm!Idle
  OBVIOUS
<1>4. Strm!Returned(r) = [v5 EXCEPT ![r] = o]
  BY <1>1, <1>3 DEF Strm!Returned, Strm!Ended
<1>5. o \in Strm!Op /\ o.pc \in {"link", "idle"} /\ o.epoch = 0 /\ Strm!OperandsKnown(o, v4)
  <2>1. CASE v5[r].kind = "stat" /\ v5[r].entry # None
    <3>1. o = [v5[r] EXCEPT !.pc = "link", !.view = None, !.epoch = 0]
      BY <2>1, <1>3
    <3>2. o \in Strm!Op /\ o.pc = "link" /\ o.epoch = 0 /\ o.entry = v5[r].entry
      BY <3>1, <1>1, StrmIdle DEF Strm!Op, Strm!Idle
    <3> QED
      BY <2>1, <3>2, <1>1 DEF Strm!OperandsKnown
  <2>2. CASE ~(v5[r].kind = "stat" /\ v5[r].entry # None)
    <3>1. o = Strm!Idle
      BY <2>2, <1>3
    <3> QED
      BY <3>1, StrmIdle DEF Strm!OperandsKnown
  <2> QED
    BY <2>1, <2>2
<1>6. o.pc \notin Strm!Observing /\ o.pc # "project"
  BY <1>5 DEF Strm!Observing
<1>7. PICK d : d = Strm!Finish(v3, r)
  OBVIOUS
<1>8. Strm!Becomes(d, v4, [v5 EXCEPT ![r] = o])
  BY <1>4, <1>7 DEF Strm!FinishNarrow
<1>9. CASE v3.obs[r] = "same" /\ v3.value = None
  <2>1. d = [[Strm!Altered(v3) EXCEPT !.slot = FALSE] EXCEPT !.obs[r] = "none"]
    BY <1>7, <1>9 DEF Strm!Finish
  <2>2. /\ Strm!Altered(v3) \in Strm!Caches(Strm!Entries) /\ Strm!Altered(v3).value = v3.value
        /\ Strm!Altered(v3).listing = v3.listing
        /\ \A q \in Ops : Strm!Altered(v3).obs[q] = IF v3.obs[q] = "same" THEN "changed" ELSE v3.obs[q]
    BY <1>1, AlteredFields
  <2>3. /\ d \in Strm!Caches(Strm!Entries) /\ d.slot = FALSE /\ d.value = Strm!Altered(v3).value
        /\ d.listing = Strm!Altered(v3).listing /\ d.obs[r] = "none"
        /\ \A q \in Ops \ {r} : d.obs[q] = Strm!Altered(v3).obs[q]
    BY <2>1, <2>2 DEF Strm!Caches
  <2>4. d.value = None /\ d.listing = v3.listing /\ ~d.slot
    BY <2>2, <2>3, <1>9
  <2>5. ASSUME NEW q \in Ops \ {r} PROVE d.obs[q] # "same"
    BY <2>2, <2>3
  <2>6. ASSUME NEW q \in Ops \ {r} PROVE Undisturbed(q, d, v6')
    <3>1. Strm!AnswerSound(q)
      BY StrmKnown
    <3>2. Strm!Fenced(d, q) <=> Strm!Fenced(v3, q)
      BY <2>4 DEF Strm!Fenced
    <3>3. d.obs[q] = v3.obs[q] \/ (v3.obs[q] = "same" /\ d.obs[q] = "changed")
      BY <2>2, <2>3
    <3>4. d.obs[q] = "none" => v3.obs[q] = "none"
      BY <3>3
    <3>5. v5[q].pc = "project" /\ d.obs[q] = "none" /\ ~Strm!Fenced(d, q) => v6 <= v5[q].epoch
      BY <3>1, <3>2, <3>4, <1>9 DEF Strm!AnswerSound
    <3> QED
      BY <2>4, <2>5, <3>3, <3>5, <1>2 DEF Undisturbed
  <2>7. Moves(r, o, d, v6')
    BY <2>3, <1>6 DEF Moves
  <2>8. v6' \in Nat /\ v6' <= v2 /\ o.epoch <= v2
    BY <1>1, <1>2, <1>5
  <2> QED
    BY <1>2, <1>5, <1>8, <2>3, <2>4, <2>6, <2>7, <2>8, EntriesStay, CacheStep
<1>10. CASE ~(v3.obs[r] = "same" /\ v3.value = None)
  <2>1. d = [v3 EXCEPT !.obs[r] = "none"]
    BY <1>7, <1>10 DEF Strm!Finish
  <2>2. /\ d \in Strm!Caches(Strm!Entries) /\ d.slot = v3.slot /\ d.value = v3.value
        /\ d.listing = v3.listing /\ d.obs[r] = "none"
        /\ \A q \in Ops \ {r} : d.obs[q] = v3.obs[q]
    BY <2>1, <1>1 DEF Strm!Caches
  <2>3. ASSUME NEW q \in Ops \ {r} PROVE Undisturbed(q, d, v6')
    <3>1. d.obs[q] = "same" => d.slot
      BY <2>2, StrmKnown DEF Strm!ReadSound
    <3> QED
      BY <2>2, <3>1, <1>2, StillUndisturbed
  <2>4. Moves(r, o, d, v6')
    BY <2>2, <1>6 DEF Moves
  <2>5. d.slot /\ d.value = None => Owned(r, o, d)
    <3>1. SUFFICES ASSUME v3.slot, v3.value = None PROVE Owned(r, o, d)
      BY <2>2
    <3>2. PICK q \in Ops : v5[q].kind \in {"narrow", "stat"} /\ v3.obs[q] = "same"
      BY <3>1, EntriesStay
    <3>3. q # r
      BY <3>1, <3>2, <1>10
    <3> QED
      BY <3>2, <3>3, <2>2 DEF Owned
  <2>6. v6' \in Nat /\ v6' <= v2 /\ o.epoch <= v2
    BY <1>1, <1>2, <1>5
  <2>7. d.value # None => d.slot /\ v4[d.value].content # None
    BY <2>2, EntriesStay
  <2> QED
    BY <1>2, <1>5, <1>8, <2>2, <2>3, <2>4, <2>5, <2>6, <2>7, EntriesStay, CacheStep
<1> QED
  BY <1>9, <1>10

(* A listing still in flight stays fenced when another ends, and is fenced   *)
(* when that one did not have the torrent.                                   *)
LEMMA RestrictedFences ==
    ASSUME NEW l \in [invalidated : BOOLEAN, restricted : BOOLEAN, allowed : BOOLEAN],
    NEW live \in BOOLEAN
    PROVE  /\ Strm!Restricted(l, live) \in [invalidated : BOOLEAN, restricted : BOOLEAN, allowed : BOOLEAN]
           /\ \/ l.invalidated \/ (l.restricted /\ ~l.allowed) \/ ~live
              => \/ Strm!Restricted(l, live).invalidated
                 \/ Strm!Restricted(l, live).restricted /\ ~Strm!Restricted(l, live).allowed
<1>1. PICK a : a = (live /\ (l.allowed \/ ~l.restricted))
  OBVIOUS
<1>2. Strm!Restricted(l, live) = [l EXCEPT !.allowed = a, !.restricted = TRUE] /\ a \in BOOLEAN
  BY <1>1 DEF Strm!Restricted
<1>3. PICK n : n = [l EXCEPT !.allowed = a, !.restricted = TRUE]
  OBVIOUS
<1>4. n \in [invalidated : BOOLEAN, restricted : BOOLEAN, allowed : BOOLEAN]
      /\ n.allowed = a /\ n.restricted = TRUE /\ n.invalidated = l.invalidated
  BY <1>2, <1>3
<1> QED
  BY <1>1, <1>2, <1>3, <1>4

(* finishListing: what it did not list is forgotten, unless it has changed   *)
(* since the listing began; the listings in flight are told.                 *)
LEMMA FinishListSound ==
    ASSUME NEW r \in Ops, Strm!Inductive, Strm!FinishList(r)
    PROVE  Strm!Inductive' /\ v6' \in {v6, Strm!Max2(v6, v5[r].epoch)}
<1>1. /\ v5[r] \in Strm!Op /\ v5 \in [Ops -> Strm!Op] /\ v3 \in Strm!Caches(Strm!Entries)
      /\ v5[r].epoch <= v2 /\ v5[r].epoch \in Nat /\ Strm!ReadSound(r)
      /\ v2 \in Nat /\ v6 \in Nat /\ v6 <= v2 /\ 0 <= v2
  BY StrmKnown, EntriesStay
<1>2. v5[r].pc = "finish" /\ v5[r].kind = "list" /\ UNCHANGED <<v1, v2>>
  BY DEF Strm!FinishList
<1>3. PICK live : live = (v5[r].view # None)
  OBVIOUS
<1>4. PICK pruned : pruned = IF live \/ ~v3.slot THEN v3
                             ELSE IF v3.value = None THEN Strm!Forgotten(v3) ELSE Strm!Forget(v3, r)
  OBVIOUS
<1>5. PICK ls : ls = [q \in Ops |-> IF q = r \/ pruned.listing[q] = None THEN None
                                    ELSE Strm!Restricted(pruned.listing[q], live)]
  OBVIOUS
<1>6. PICK d : d = [pruned EXCEPT !.obs[r] = "none", !.listing = ls]
  OBVIOUS
<1>7. /\ Strm!Becomes(d, v4, [v5 EXCEPT ![r] = Strm!Idle])
      /\ v6' = IF v5[r].view = None /\ ~d.slot THEN Strm!Max2(v6, v5[r].epoch) ELSE v6
  <2>1. Strm!FinishListing(v3, r, v5[r].view # None) = d
    BY <1>3, <1>4, <1>5, <1>6 DEF Strm!FinishListing
  <2> QED
    BY <2>1 DEF Strm!FinishList, Strm!Ended
<1>8. pruned \in Strm!Caches(Strm!Entries) /\ (pruned = v3 \/ (pruned = Strm!Forgotten(v3) /\ ~live)) /\ live \in BOOLEAN
      /\ (live <=> v5[r].view # None)
  BY <1>1, <1>3, <1>4, ForgottenFields DEF Strm!Forget
<1>9. pruned.listing \in [Ops -> {None} \cup [invalidated : BOOLEAN, restricted : BOOLEAN, allowed : BOOLEAN]]
  BY <1>8 DEF Strm!Caches
<1>10. /\ ls \in [Ops -> {None} \cup [invalidated : BOOLEAN, restricted : BOOLEAN, allowed : BOOLEAN]]
       /\ \A q \in Ops \ {r} : pruned.listing[q] # None => ls[q] = Strm!Restricted(pruned.listing[q], live) /\ ls[q] # None
  <2>1. ASSUME NEW q \in Ops
        PROVE  /\ ls[q] \in {None} \cup [invalidated : BOOLEAN, restricted : BOOLEAN, allowed : BOOLEAN]
               /\ q # r /\ pruned.listing[q] # None => ls[q] = Strm!Restricted(pruned.listing[q], live) /\ ls[q] # None
    <3>1. CASE q = r \/ pruned.listing[q] = None
      BY <3>1, <1>5
    <3>2. CASE ~(q = r \/ pruned.listing[q] = None)
      <4>1. pruned.listing[q] \in [invalidated : BOOLEAN, restricted : BOOLEAN,
      allowed : BOOLEAN]
        BY <3>2, <1>9
      <4>2. Strm!Restricted(pruned.listing[q], live) \in [invalidated : BOOLEAN, restricted : BOOLEAN, allowed : BOOLEAN]
        BY <4>1, <1>8, RestrictedFences
      <4>3. ls[q] = Strm!Restricted(pruned.listing[q], live)
        BY <3>2, <1>5
      <4> QED
        BY <4>2, <4>3, StrmAssumption
    <3> QED
      BY <3>1, <3>2
  <2>2. ls = [q \in Ops |-> ls[q]]
    BY <1>5
  <2> QED
    BY <2>1, <2>2
<1>11. /\ d \in Strm!Caches(Strm!Entries) /\ d.slot = pruned.slot /\ d.value = pruned.value /\ d.listing = ls
       /\ d.obs[r] = "none" /\ \A q \in Ops \ {r} : d.obs[q] = pruned.obs[q]
  BY <1>6, <1>8, <1>10 DEF Strm!Caches
<1>12. ASSUME NEW q \in Ops \ {r}, pruned.listing[q] # None
       PROVE  /\ Strm!Fenced(pruned, q) => Strm!Fenced(d, q)
              /\ ~live => Strm!Fenced(d, q)
  <2>1. pruned.listing[q] \in [invalidated : BOOLEAN, restricted : BOOLEAN, allowed : BOOLEAN]
    BY <1>9, <1>12
  <2>2. d.listing[q] = Strm!Restricted(pruned.listing[q], live) /\ d.listing[q] # None
    BY <1>10, <1>11, <1>12
  <2>3. PICK l, n : l = pruned.listing[q] /\ n = d.listing[q]
    OBVIOUS
  <2>4. \/ l.invalidated \/ (l.restricted /\ ~l.allowed) \/ ~live
        => \/ n.invalidated \/ (n.restricted /\ ~n.allowed)
    <3>1. l \in [invalidated : BOOLEAN, restricted : BOOLEAN,
    allowed : BOOLEAN] /\ live \in BOOLEAN
      BY <2>1, <2>3, <1>8
    <3>2. n = Strm!Restricted(l, live)
      BY <2>2, <2>3
    <3>3. \/ l.invalidated \/ (l.restricted /\ ~l.allowed) \/ ~live
          => \/ Strm!Restricted(l, live).invalidated
             \/ Strm!Restricted(l, live).restricted /\ ~Strm!Restricted(l, live).allowed
      BY ONLY <3>1, RestrictedFences, ZenonT(40)
    <3> QED
      BY ONLY <3>2, <3>3, ZenonT(40)
  <2>5. Strm!Fenced(pruned, q) => l.invalidated \/ (l.restricted /\ ~l.allowed)
    BY <2>3 DEF Strm!Fenced
  <2>6. n.invalidated \/ (n.restricted /\ ~n.allowed) => Strm!Fenced(d, q)
    BY <2>2, <2>3 DEF Strm!Fenced
  <2> QED
    BY <2>4, <2>5, <2>6
<1>13. v6' \in Nat /\ v6' <= v2 /\ v6' \in {v6, Strm!Max2(v6, v5[r].epoch)}
  <2>1. Strm!Max2(v6, v5[r].epoch) \in Nat /\ Strm!Max2(v6, v5[r].epoch) <= v2
    BY ONLY <1>1, SMTT(30) DEF Strm!Max2
  <2> QED
    BY <2>1, <1>1, <1>7
<1>14. ASSUME NEW q \in Ops \ {r}
       PROVE  v5[q].pc = "project" /\ v3.obs[q] = "none" => v3.listing[q] # None
  BY StrmKnown DEF Strm!ReadSound, Strm!Observing
<1>15. Moves(r, Strm!Idle, d, v6') /\ Strm!OperandsKnown(Strm!Idle, v4) /\ Strm!Idle.epoch <= v2
  <2>1. Strm!Idle.pc \notin Strm!Observing /\ Strm!Idle.pc # "project"
    BY StrmIdle DEF Strm!Observing
  <2> QED
    BY <2>1, <1>1, <1>11, StrmIdle DEF Moves, Strm!OperandsKnown
<1>16. CASE pruned = v3
  <2>1. ASSUME NEW q \in Ops \ {r} PROVE Undisturbed(q, d, v6')
    <3>1. Strm!AnswerSound(q) /\ (v3.obs[q] = "same" => v3.slot)
      BY StrmKnown DEF Strm!ReadSound
    <3>2. /\ d.obs[q] = v3.obs[q] /\ d.slot = v3.slot /\ d.value = v3.value
          /\ v3.listing[q] # None => d.listing[q] # None
      BY <1>10, <1>11, <1>16
    <3>3. CASE ~live /\ ~v3.slot
      <4>1. d.obs[q] # "same"
        BY <3>1, <3>2, <3>3
      <4>2. v5[q].pc = "project" /\ d.obs[q] = "none" => Strm!Fenced(d, q)
        BY <3>2, <3>3, <1>12, <1>14, <1>16
      <4> QED
        BY <3>2, <4>1, <4>2 DEF Undisturbed
    <3>4. CASE live \/ v3.slot
      <4>1. v6' = v6
        BY <3>2, <3>4, <1>7, <1>8
      <4>2. v5[q].pc = "project" /\ d.obs[q] = "none" /\ ~Strm!Fenced(d, q) => ~Strm!Fenced(v3, q)
        BY <3>2, <1>12, <1>14, <1>16
      <4>3. v5[q].pc = "project" /\ d.obs[q] = "none" /\ ~Strm!Fenced(d, q) => d.value # None \/ v6 <= v5[q].epoch
        BY <3>1, <3>2, <4>2 DEF Strm!AnswerSound
      <4>4. v5[q].pc = "project" /\ d.obs[q] = "same" => v6 <= v5[q].epoch
        BY <3>1, <3>2 DEF Strm!AnswerSound
      <4> QED
        BY <3>1, <3>2, <4>1, <4>3, <4>4 DEF Undisturbed
    <3> QED
      BY <3>3, <3>4
  <2>2. d.value # None => d.slot /\ v4[d.value].content # None
    BY <1>11, <1>16, EntriesStay
  <2>3. d.slot /\ d.value = None => Owned(r, Strm!Idle, d)
    <3>1. SUFFICES ASSUME v3.slot, v3.value = None PROVE Owned(r, Strm!Idle, d)
      BY <1>11, <1>16
    <3>2. PICK q \in Ops : v5[q].kind \in {"narrow", "stat"} /\ v3.obs[q] = "same"
      BY <3>1, EntriesStay
    <3>3. q # r
      BY <3>2, <1>2
    <3> QED
      BY <3>2, <3>3, <1>11, <1>16 DEF Owned
  <2> QED
    BY <1>2, <1>7, <1>11, <1>13, <1>15, <2>1, <2>2, <2>3, StrmIdle, EntriesStay, CacheStep
<1>17. CASE pruned = Strm!Forgotten(v3) /\ ~live
  <2>1. /\ ~pruned.slot /\ pruned.value = None
        /\ \A q \in Ops : /\ v3.listing[q] # None => pruned.listing[q] # None
                          /\ pruned.obs[q] = IF v3.obs[q] = "same" THEN "changed" ELSE v3.obs[q]
    <3>1. /\ ~pruned.slot /\ pruned.value = None /\ pruned.obs = Strm!Altered(v3).obs
          /\ \A q \in Ops : v3.listing[q] # None => pruned.listing[q] # None
      BY <1>1, <1>17, ForgottenFields
    <3>2. \A q \in Ops : Strm!Altered(v3).obs[q] = IF v3.obs[q] = "same" THEN "changed" ELSE v3.obs[q]
      BY <1>1, AlteredFields
    <3> QED
      BY <3>1, <3>2
  <2>2. ~d.slot /\ d.value = None
    BY <2>1, <1>11
  <2>3. ASSUME NEW q \in Ops \ {r} PROVE Undisturbed(q, d, v6')
    <3>1. d.obs[q] = (IF v3.obs[q] = "same" THEN "changed" ELSE v3.obs[q])
          /\ (v3.listing[q] # None => d.listing[q] # None /\ Strm!Fenced(d, q))
      BY <2>1, <1>10, <1>11, <1>12, <1>17
    <3>2. d.obs[q] # "same" /\ (d.obs[q] = "none" => v3.obs[q] = "none")
      BY <3>1
    <3>3. v5[q].pc = "project" /\ d.obs[q] = "none" => Strm!Fenced(d, q)
      BY <3>1, <3>2, <1>14
    <3> QED
      BY <3>1, <3>2, <3>3 DEF Undisturbed
  <2> QED
    BY <1>2, <1>7, <1>11, <1>13, <1>15, <2>2, <2>3, StrmIdle, EntriesStay, CacheStep
<1> QED
  BY <1>8, <1>13, <1>16, <1>17

(* Every step of the link files keeps the invariant, and the cache acts only *)
(* on answers at least as new as the last it acted on.                       *)
LEMMA StrmNext ==
    ASSUME Counting
    PROVE  Strm!Inductive /\ Strm!Next => Strm!Inductive' /\ Strm!ActsOnNewer
<1> SUFFICES ASSUME Strm!Inductive, Strm!Next PROVE Strm!Inductive' /\ Strm!ActsOnNewer
  OBVIOUS
<1>1. v6 \in Nat
  BY DEF Strm!Inductive, Strm!TypeOK
<1>2. v6' = v6 => Strm!ActsOnNewer
  BY <1>1, SMTT(30) DEF Strm!ActsOnNewer
<1>3. ASSUME NEW r \in Ops,
             Strm!ListBegin(r) \/ Strm!NarrowBegin(r) \/ Strm!StatBegin(r) \/ Strm!StatMisses(r) \/ Strm!StatCached(r) \/ Strm!Ask(r)
      PROVE  Strm!Inductive' /\ Strm!ActsOnNewer
  <2>1. v6' = v6
    BY <1>3 DEF Strm!ListBegin, Strm!NarrowBegin, Strm!StatBegin, Strm!StatMisses,
       Strm!StatCached, Strm!Ask
  <2> QED
    BY <2>1, <1>2, <1>3, ListBeginSound, ObservesSound, StatSound, AskSound
<1>4. ASSUME NEW r \in Ops, Strm!Build(r) \/ Strm!Mapped(r) \/ Strm!SizesShared(r) \/ Strm!SizesSigned(r) \/ Strm!SizesWaited(r)
      PROVE  Strm!Inductive' /\ Strm!ActsOnNewer
  <2>1. v6' = v6
    BY <1>4 DEF Strm!Build, Strm!Mapped, Strm!SizesShared, Strm!SizesSigned,
       Strm!SizesWaited
  <2> QED
    BY <2>1, <1>2, <1>4, MappingSound, SizesSound, SignedSound
<1>5. ASSUME NEW r \in Ops, Strm!FinishNarrow(r) \/ Strm!LinkFails(r) \/ Strm!Remember(r) PROVE Strm!Inductive' /\ Strm!ActsOnNewer
  <2>1. v6' = v6
    BY <1>5 DEF Strm!FinishNarrow, Strm!LinkFails, Strm!Remember
  <2> QED
    BY <2>1, <1>2, <1>5, FinishSound, StatSound, RememberSound
<1>6. ASSUME NEW r \in Ops, NEW size \in Sizes \cup {0}, Strm!SizesAttempt(r, size) PROVE Strm!Inductive' /\ Strm!ActsOnNewer
  <2>1. v6' = v6
    BY <1>6 DEF Strm!SizesAttempt
  <2> QED
    BY <2>1, <1>2, <1>6, SizesSound
<1>7. ASSUME NEW r \in Ops, NEW size \in Sizes, Strm!Link(r, size) PROVE Strm!Inductive' /\ Strm!ActsOnNewer
  <2>1. v6' = v6
    BY <1>7 DEF Strm!Link
  <2> QED
    BY <2>1, <1>2, <1>7, StatSound
<1>8. ASSUME NEW r \in Ops, Strm!ProjectShared(r) \/ Strm!ProjectNew(r) PROVE Strm!Inductive' /\ Strm!ActsOnNewer
  <2>1. Strm!Inductive' /\ (v6' = v6 \/ (v6' = v5[r].epoch /\ v6 <= v5[r].epoch))
    BY <1>8, SharedSound, NewSound
  <2>2. v5[r].epoch \in Nat
    BY StrmKnown
  <2>3. Strm!ActsOnNewer
    BY ONLY <1>1, <2>1, <2>2, SMTT(30) DEF Strm!ActsOnNewer
  <2> QED
    BY <2>1, <2>3
<1>9. ASSUME NEW r \in Ops, Strm!Absent(r) \/ Strm!FinishList(r) PROVE Strm!Inductive' /\ Strm!ActsOnNewer
  <2>1. Strm!Inductive' /\ v6' \in {v6, Strm!Max2(v6, v5[r].epoch)}
    BY <1>9, AbsentSound, FinishListSound
  <2>2. v5[r].epoch \in Nat
    BY StrmKnown
  <2>3. Strm!ActsOnNewer
    BY ONLY <1>1, <2>1, <2>2, SMTT(30) DEF Strm!ActsOnNewer, Strm!Max2
  <2> QED
    BY <2>1, <2>3
<1>10. ASSUME (\E c \in Contents : Strm!Add(c) \/ Strm!Update(c)) \/ Strm!Delete PROVE Strm!Inductive' /\ Strm!ActsOnNewer
  <2>1. v6' = v6
    BY <1>10 DEF Strm!Add, Strm!Update, Strm!Delete, Strm!Change
  <2> QED
    BY <2>1, <1>2, <1>10, SourceSound
<1>11. ASSUME NEW r \in Ops, Strm!Begin(r) PROVE Strm!Inductive' /\ Strm!ActsOnNewer
  BY <1>11, <1>3 DEF Strm!Begin
<1>12. ASSUME NEW r \in Ops, Strm!Step(r) PROVE Strm!Inductive' /\ Strm!ActsOnNewer
  BY <1>12, <1>3, <1>4, <1>5, <1>6, <1>7, <1>8, <1>9 DEF Strm!Step
<1> QED
  BY <1>10, <1>11, <1>12 DEF Strm!Next

(* No placeholder is left behind, and a projection that is kept is fresh. *)
LEMMA StrmSafe == Strm!Inductive => Strm!TypeOK /\ Strm!PlaceholdersOwned /\ Strm!ProjectionFresh
BY DEF Strm!Inductive, Strm!CacheSound, Strm!EntriesSound

-----------------------------------------------------------------------------
(* The flights of a torrent *)

(* What the component counts is what the theorems on finite sets count. *)
LEMMA FetchCounts == \A S : Fetch!Cardinality(S) = Cardinality(S)
BY DEF Fetch!Cardinality, Cardinality, Fetch!IsFiniteSet, IsFiniteSet

(* The reads that wait for a flight can be counted. *)
LEMMA WaitingFinite ==
    ASSUME Counting, NEW f
    PROVE  /\ IsFiniteSet(Fetch!Waiting(f)) /\ Cardinality(Fetch!Waiting(f)) \in 0 .. Cardinality(Readers)
           /\ IsFiniteSet(Fetch!Waiting(f)') /\ Cardinality(Fetch!Waiting(f)') \in 0 .. Cardinality(Readers)
           /\ Cardinality(Fetch!Waiting(f)) \in Nat /\ Cardinality(Fetch!Waiting(f)') \in Nat
<1>1. ASSUME NEW S \in SUBSET Readers
      PROVE  IsFiniteSet(S) /\ Cardinality(S) \in Nat /\ Cardinality(S) \in 0 .. Cardinality(Readers)
  <2>1. IsFiniteSet(S) /\ Cardinality(S) <= Cardinality(Readers)
    BY FetchAssumption DEF Counting, SubsetCount
  <2>2. Cardinality(S) \in Nat /\ Cardinality(Readers) \in Nat
    BY <2>1, FetchAssumption DEF Counting, CountIsNatural
  <2> QED
    BY <2>1, <2>2, SMTT(30)
<1>2. Fetch!Waiting(f) \in SUBSET Readers /\ Fetch!Waiting(f)' \in SUBSET Readers
  BY DEF Fetch!Waiting
<1> QED
  BY <1>1, <1>2

(* A flight somebody waits for counts at least that read. *)
LEMMA WaitingCounted ==
    ASSUME Counting, NEW f \in Flights, Fetch!FlightSound(f)
    PROVE  /\ v2[f].waiters \in Nat
           /\ Fetch!Waiting(f) = {} <=> v2[f].waiters = 0
<1>1. v2[f].waiters = Cardinality(Fetch!Waiting(f)) /\ IsFiniteSet(Fetch!Waiting(f))
  BY FetchCounts, WaitingFinite DEF Fetch!FlightSound
<1>2. Cardinality(Fetch!Waiting(f)) \in Nat /\ (Cardinality(Fetch!Waiting(f)) = 0 <=> Fetch!Waiting(f) = {})
  BY <1>1 DEF Counting, CountIsNatural, EmptyCount
<1> QED
  BY <1>1, <1>2

(* The count when a read joins, *)
LEMMA WaitingJoined ==
    ASSUME Counting, NEW f, NEW r \in Readers \ Fetch!Waiting(f), Fetch!Waiting(f)' = Fetch!Waiting(f) \cup {r}
    PROVE  Cardinality(Fetch!Waiting(f)') = Cardinality(Fetch!Waiting(f)) + 1
BY WaitingFinite DEF Counting, AddedCount
(* and when one leaves. *)
LEMMA WaitingLeft ==
    ASSUME Counting, NEW f, NEW r \in Fetch!Waiting(f), Fetch!Waiting(f)' = Fetch!Waiting(f) \ {r}
    PROVE  /\ Cardinality(Fetch!Waiting(f)') = Cardinality(Fetch!Waiting(f)) - 1
           /\ Cardinality(Fetch!Waiting(f)) \in Nat \ {0}
           /\ \A k \in Fetch!Waiting(f) \ {r} : Cardinality(Fetch!Waiting(f)) # 1
<1>1. Cardinality(Fetch!Waiting(f)') = Cardinality(Fetch!Waiting(f)) - 1
  BY WaitingFinite DEF Counting, RemovedCount
<1>2. Cardinality(Fetch!Waiting(f)) # 0
  BY WaitingFinite DEF Counting, EmptyCount
<1>3. ASSUME NEW k \in Fetch!Waiting(f) \ {r}, Cardinality(Fetch!Waiting(f)) = 1 PROVE FALSE
  <2>1. Cardinality(Fetch!Waiting(f)') = 0
    BY <1>1, <1>3, SMTT(30)
  <2>2. Fetch!Waiting(f)' = {}
    BY <2>1, WaitingFinite DEF Counting, EmptyCount
  <2> QED
    BY <2>2, <1>3
<1>4. Cardinality(Fetch!Waiting(f)) \in Nat \ {0}
  BY <1>2, WaitingFinite
<1> QED
  BY <1>1, <1>3, <1>4

(* What a vacant identity shows, *)
LEMMA NoFlightFields ==
    ASSUME Counting
    PROVE  Fetch!NoFlight.waiters = 0 /\ Fetch!NoFlight.pc = "none" /\ Fetch!NoFlight \in Fetch!Flight
<1>1. Cardinality(Readers) \in Nat
  BY FetchAssumption DEF Counting, CountIsNatural
<1>2. 0 \in 0 .. Cardinality(Readers)
  BY <1>1, SMTT(30)
<1> QED
  BY FetchCounts, <1>2 DEF Fetch!NoFlight, Fetch!Flight

(* what joining makes of the record of a flight, *)
LEMMA JoinedRecord ==
    ASSUME NEW old \in Fetch!Flight, old.waiters + 1 \in 0 .. Cardinality(Readers)
    PROVE  /\ Fetch!Joined(old) \in Fetch!Flight /\ Fetch!Joined(old).waiters = old.waiters + 1
           /\ Fetch!Joined(old).pc = old.pc /\ Fetch!Joined(old).piece = old.piece
           /\ Fetch!Joined(old).cancelled = old.cancelled
BY FetchCounts DEF Fetch!Joined, Fetch!Flight

(* what leaving does, *)
LEMMA LeftRecord ==
    ASSUME Counting, NEW old \in Fetch!Flight, old.waiters - 1 \in 0 .. Cardinality(Readers)
    PROVE  /\ Fetch!Left(old) \in Fetch!Flight
           /\ old.pc = "done" /\ old.waiters - 1 = 0 => Fetch!Left(old) = Fetch!NoFlight
           /\ old.pc # "done" \/ old.waiters - 1 # 0 =>
                /\ Fetch!Left(old).pc = old.pc /\ Fetch!Left(old).piece = old.piece
                /\ Fetch!Left(old).waiters = old.waiters - 1
                /\ Fetch!Left(old).cancelled = (old.cancelled \/ Fetch!Abandoned(old))
<1> DEFINE new == [old EXCEPT !.waiters = old.waiters - 1,
                              !.cancelled = old.cancelled \/ Fetch!Abandoned(old)]
<1>1. Fetch!Left(old) = Fetch!Collect(new)
  BY DEF Fetch!Left
<1>2. (old.cancelled \/ Fetch!Abandoned(old)) \in BOOLEAN
  BY DEF Fetch!Flight, Fetch!Abandoned
<1>3. new \in Fetch!Flight
  BY FetchCounts, <1>2 DEF Fetch!Flight
<1>4. /\ new.pc = old.pc /\ new.piece = old.piece /\ new.waiters = old.waiters - 1
      /\ new.cancelled = (old.cancelled \/ Fetch!Abandoned(old))
  BY DEF Fetch!Flight
<1> HIDE DEF new
<1>5. Fetch!Collect(new) = IF old.pc = "done" /\ old.waiters - 1 = 0 THEN Fetch!NoFlight ELSE new
  BY <1>4 DEF Fetch!Collect
<1> QED
  BY <1>1, <1>3, <1>4, <1>5, NoFlightFields

(* and what ending does. *)
LEMMA EndedRecord ==
    ASSUME Counting, NEW old \in Fetch!Flight, NEW new,
           new = Fetch!Collect([old EXCEPT !.pc = "done", !.cancelled = TRUE])
    PROVE  /\ new \in Fetch!Flight
           /\ new = Fetch!NoFlight \/ (new.pc = "done" /\ new.piece = old.piece)
           /\ new.waiters = old.waiters
           /\ old.waiters # 0 => new.pc = "done" /\ new.piece = old.piece
<1> DEFINE ended == [old EXCEPT !.pc = "done", !.cancelled = TRUE]
<1>1. ended \in Fetch!Flight
  BY DEF Fetch!Flight
<1>2. ended.pc = "done" /\ ended.piece = old.piece /\ ended.waiters = old.waiters
  BY DEF Fetch!Flight
<1>3. new = Fetch!Collect(ended)
  OBVIOUS
<1> HIDE DEF ended
<1>4. new = IF old.waiters = 0 THEN Fetch!NoFlight ELSE ended
  BY <1>2, <1>3 DEF Fetch!Collect
<1> QED
  BY <1>1, <1>2, <1>4, NoFlightFields

(* The start: no read, no flight. *)
LEMMA FetchInit ==
    ASSUME Counting
    PROVE  Fetch!Init => Fetch!Inductive
<1> SUFFICES ASSUME Fetch!Init PROVE Fetch!Inductive
  OBVIOUS
<1>1. Fetch!TypeOK
  <2>1. Cardinality(Readers) \in Nat
    BY FetchAssumption DEF Counting, CountIsNatural
  <2>2. 0 \in 0 .. Attempts /\ 0 \in 0 .. Cardinality(Readers)
    BY <2>1, FetchAssumption, SMTT(30)
  <2>3. Fetch!Idle \in Fetch!Read /\ Fetch!NoFlight \in Fetch!Flight
    BY FetchCounts, <2>2 DEF Fetch!Idle, Fetch!NoFlight, Fetch!Read, Fetch!Flight
  <2> QED
    BY <2>3 DEF Fetch!Init, Fetch!TypeOK
<1>2. \A f \in Flights : Fetch!Waiting(f) = {} /\ f \notin Fetch!Running /\ v2[f] = Fetch!NoFlight
  BY FetchAssumption DEF Fetch!Init, Fetch!Idle, Fetch!NoFlight, Fetch!Waiting,
     Fetch!Running
<1>3. Fetch!CloseSound
  BY <1>2 DEF Fetch!Init, Fetch!CloseSound, Fetch!Running
<1>4. \A r \in Readers : Fetch!ReadSound(r)
  BY DEF Fetch!Init, Fetch!Idle, Fetch!ReadSound
<1>5. ASSUME NEW f \in Flights PROVE Fetch!FlightSound(f)
  <2>1. Fetch!NoFlight.waiters = 0
    BY DEF Fetch!NoFlight
  <2>2. Cardinality(Fetch!Waiting(f)) = 0
    BY <1>2 DEF Counting, EmptyCount
  <2> QED
    BY FetchCounts, <1>2, <2>1, <2>2 DEF Fetch!FlightSound, Fetch!Vacant
<1>6. \A p \in Pieces : Fetch!InflightSound(p)
  BY DEF Fetch!Init, Fetch!InflightSound
<1> QED
  BY <1>1, <1>3, <1>4, <1>5, <1>6 DEF Fetch!Inductive

(* A step of a read that holds no flight leaves the flights alone. *)
LEMMA FlightsUntouched ==
    ASSUME Fetch!Inductive, NEW r \in Readers, v1' \in [Readers -> Fetch!Read],
           UNCHANGED <<v2, v3, v4>>,
           \A k \in Readers \ {r} : v1'[k] = v1[k],
           v1[r].flight = None, v1'[r].flight = None, Fetch!ReadSound(r)'
    PROVE  /\ \A k \in Readers : Fetch!ReadSound(k)'
           /\ \A f \in Flights : Fetch!FlightSound(f)'
           /\ \A p \in Pieces : Fetch!InflightSound(p)'
           /\ Fetch!Running' = Fetch!Running
<1>1. \A k \in Readers : v1'[k].flight = v1[k].flight
  OBVIOUS
<1>2. Fetch!Running' = Fetch!Running /\ \A f \in Flights : Fetch!Waiting(f)' = Fetch!Waiting(f)
  BY <1>1 DEF Fetch!Running, Fetch!Waiting
<1>3. ASSUME NEW k \in Readers \ {r} PROVE Fetch!ReadSound(k)'
  BY DEF Fetch!Inductive, Fetch!ReadSound, Fetch!AttemptsLeft
<1>4. ASSUME NEW f \in Flights PROVE Fetch!FlightSound(f)'
  <2>1. Fetch!FlightSound(f)
    BY DEF Fetch!Inductive
  <2> QED
    BY <1>2, <2>1 DEF Fetch!FlightSound, Fetch!Vacant
<1>5. ASSUME NEW p \in Pieces PROVE Fetch!InflightSound(p)'
  BY <1>2 DEF Fetch!Inductive, Fetch!InflightSound
<1> QED
  BY <1>2, <1>3, <1>4, <1>5

(* A read that ends. *)
LEMMA EndSound ==
    ASSUME Fetch!TypeOK, NEW r \in Readers, Fetch!Ends(r)
    PROVE  /\ v1' \in [Readers -> Fetch!Read] /\ v1'[r].flight = None /\ Fetch!ReadSound(r)'
           /\ \A k \in Readers \ {r} : v1'[k] = v1[k]
<1>1. v1' = [v1 EXCEPT ![r] = Fetch!Idle] /\ v1 \in [Readers -> Fetch!Read]
  BY DEF Fetch!Ends, Fetch!TypeOK
<1>2. 0 \in 0 .. Attempts
  BY FetchAssumption, SMTT(30)
<1>3. Fetch!Idle \in Fetch!Read
  BY <1>2 DEF Fetch!Idle, Fetch!Read
<1>4. v1'[r] = Fetch!Idle /\ v1' \in [Readers -> Fetch!Read]
  BY <1>1, <1>3
<1>5. v1'[r].pc = "idle" /\ v1'[r].flight = None
  <2>1. Fetch!Idle.pc = "idle" /\ Fetch!Idle.flight = None
    BY DEF Fetch!Idle
  <2> QED
    BY <1>4, <2>1
<1>6. Fetch!ReadSound(r)'
  BY <1>5 DEF Fetch!ReadSound
<1> QED
  BY <1>1, <1>4, <1>5, <1>6

(* The steps of a read that take no flight and leave none. *)
LEMMA ReadsSound ==
    ASSUME Fetch!Inductive, NEW r \in Readers,
           \/ Fetch!Lookup(r) \/ Fetch!JoinRefused(r) \/ Fetch!Retry(r) \/ Fetch!Put(r) \/ Fetch!Expire(r)
           \/ \E p \in Pieces : Fetch!ReadAt(r, p)
    PROVE  Fetch!Inductive'
<1>0. Fetch!TypeOK /\ Fetch!ReadSound(r) /\ v1[r] \in Fetch!Read /\ Fetch!CloseSound
  BY DEF Fetch!Inductive, Fetch!TypeOK
<1>1. UNCHANGED <<v2, v3, v4, v5, v6>>
  BY DEF Fetch!Lookup, Fetch!JoinRefused, Fetch!Retry, Fetch!Put, Fetch!Expire, Fetch!ReadAt
<1>2. CASE Fetch!Lookup(r) \/ Fetch!JoinRefused(r) \/ Fetch!Retry(r) \/ Fetch!Put(r) \/ \E p \in Pieces : Fetch!ReadAt(r, p)
  <2>1. v1[r].flight = None /\ v1[r].pc # "wait"
    BY <1>0, <1>2 DEF Fetch!ReadSound, Fetch!Lookup, Fetch!JoinRefused, Fetch!Retry,
       Fetch!Put, Fetch!ReadAt
  <2>2. /\ v1' \in [Readers -> Fetch!Read] /\ v1'[r].flight = None /\ Fetch!ReadSound(r)'
        /\ \A k \in Readers \ {r} : v1'[k] = v1[k]
    <3>1. CASE Fetch!Ends(r)
      BY <1>0, <3>1, EndSound
    <3>2. CASE Fetch!Lookup(r) /\ ~Fetch!Ends(r)
      <4>1. v1' = [v1 EXCEPT ![r].pc = "join"]
        BY <3>2 DEF Fetch!Lookup, Fetch!To
      <4>2. /\ v1'[r].pc = "join" /\ v1'[r].flight = v1[r].flight
            /\ v1'[r].piece = v1[r].piece /\ \A k \in Readers \ {r} : v1'[k] = v1[k]
        BY <1>0, <4>1 DEF Fetch!TypeOK, Fetch!Read
      <4>3. v1' \in [Readers -> Fetch!Read]
        BY <1>0, <4>1 DEF Fetch!TypeOK, Fetch!Read
      <4>4. v1[r].piece # None
        BY <1>0, <3>2 DEF Fetch!ReadSound, Fetch!Lookup
      <4>5. Fetch!ReadSound(r)'
        BY <2>1, <4>2, <4>4 DEF Fetch!ReadSound
      <4> QED
        BY <2>1, <4>2, <4>3, <4>5
    <3>3. CASE Fetch!Retry(r) /\ ~Fetch!Ends(r)
      <4>1. v1' = [v1 EXCEPT ![r].pc = "join", ![r].attempt = @ + 1]
        BY <3>3 DEF Fetch!Retry
      <4>2. v1[r].attempt < Attempts /\ v1[r].attempt \in 0 .. Attempts
        BY <1>0, <3>3 DEF Fetch!ReadSound, Fetch!Retry, Fetch!AttemptsLeft, Fetch!Read
      <4>3. v1[r].attempt + 1 \in 0 .. Attempts
        BY <4>2, FetchAssumption, SMTT(30)
      <4>4. v1' \in [Readers -> Fetch!Read]
        BY <1>0, <4>1, <4>3 DEF Fetch!TypeOK, Fetch!Read
      <4>5. /\ v1'[r].pc = "join" /\ v1'[r].flight = v1[r].flight
            /\ v1'[r].piece = v1[r].piece /\ \A k \in Readers \ {r} : v1'[k] = v1[k]
        BY <1>0, <4>1 DEF Fetch!TypeOK, Fetch!Read
      <4>6. v1[r].piece # None
        BY <1>0, <3>3 DEF Fetch!ReadSound, Fetch!Retry
      <4>7. Fetch!ReadSound(r)'
        BY <2>1, <4>5, <4>6 DEF Fetch!ReadSound
      <4> QED
        BY <2>1, <4>4, <4>5, <4>7
    <3>4. CASE \E p \in Pieces : Fetch!ReadAt(r, p)
      <4>0. PICK p \in Pieces : Fetch!ReadAt(r, p)
        BY <3>4
      <4> DEFINE new == [Fetch!Idle EXCEPT !.pc = "lookup", !.piece = p, !.attempt = 1]
      <4>1. v1' = [v1 EXCEPT ![r] = new]
        BY <4>0 DEF Fetch!ReadAt
      <4>2. 1 \in 0 .. Attempts
        BY FetchAssumption, SMTT(30)
      <4>3. new \in Fetch!Read
        BY <4>2 DEF Fetch!Idle, Fetch!Read
      <4>4. new.pc = "lookup" /\ new.flight = None /\ new.piece = p
        BY DEF Fetch!Idle
      <4> HIDE DEF new
      <4>5. v1'[r] = new /\ v1' \in [Readers -> Fetch!Read]
        BY <1>0, <4>1, <4>3 DEF Fetch!TypeOK
      <4>6. \A k \in Readers \ {r} : v1'[k] = v1[k]
        BY <1>0, <4>1 DEF Fetch!TypeOK
      <4>7. Fetch!ReadSound(r)'
        BY <4>4, <4>5, FetchAssumption DEF Fetch!ReadSound
      <4> QED
        BY <4>4, <4>5, <4>6, <4>7
    <3> QED
      BY <1>2, <3>1, <3>2, <3>3, <3>4 DEF Fetch!JoinRefused, Fetch!Put
  <2>3. /\ \A k \in Readers : Fetch!ReadSound(k)'
        /\ \A f \in Flights : Fetch!FlightSound(f)'
        /\ \A p \in Pieces : Fetch!InflightSound(p)'
        /\ Fetch!Running' = Fetch!Running
    BY <1>1, <2>1, <2>2, FlightsUntouched
  <2>4. v7' = v7 \/ (Fetch!Put(r) /\ ~v5 /\ v7' = v7 \cup {v1[r].piece})
    BY <1>2 DEF Fetch!Lookup, Fetch!JoinRefused, Fetch!Retry, Fetch!Put, Fetch!ReadAt
  <2>5. v7' \subseteq Pieces
    <3>1. Fetch!Put(r) => v1[r].piece \in Pieces
      BY <1>0 DEF Fetch!Put, Fetch!ReadSound, Fetch!Read
    <3> QED
      BY <1>0, <2>4, <3>1 DEF Fetch!TypeOK
  <2>6. Fetch!CloseSound'
    BY <1>0, <1>1, <2>3, <2>4 DEF Fetch!CloseSound
  <2>7. Fetch!TypeOK'
    BY <1>0, <1>1, <2>2, <2>5 DEF Fetch!TypeOK
  <2> QED
    BY <2>3, <2>6, <2>7 DEF Fetch!Inductive
<1>3. CASE Fetch!Expire(r)
  <2>1. v1' = [v1 EXCEPT ![r].live = FALSE] /\ v7' = v7
    BY <1>3 DEF Fetch!Expire
  <2>2. v1' \in [Readers -> Fetch!Read]
    BY <1>0, <2>1 DEF Fetch!TypeOK, Fetch!Read
  <2>3. \A k \in Readers : /\ v1'[k].pc = v1[k].pc /\ v1'[k].flight = v1[k].flight
                           /\ v1'[k].piece = v1[k].piece /\ v1'[k].attempt = v1[k].attempt
    BY <1>0, <2>1 DEF Fetch!TypeOK, Fetch!Read
  <2>4. Fetch!Running' = Fetch!Running /\ \A f \in Flights : Fetch!Waiting(f)' = Fetch!Waiting(f)
    BY <1>1, <2>3 DEF Fetch!Running, Fetch!Waiting
  <2>5. ASSUME NEW k \in Readers PROVE Fetch!ReadSound(k)'
    <3>1. Fetch!ReadSound(k)
      BY DEF Fetch!Inductive
    <3> QED
      BY <1>1, <2>3, <3>1 DEF Fetch!ReadSound, Fetch!AttemptsLeft
  <2>6. ASSUME NEW f \in Flights PROVE Fetch!FlightSound(f)'
    <3>1. Fetch!FlightSound(f)
      BY DEF Fetch!Inductive
    <3> QED
      BY <1>1, <2>4, <3>1 DEF Fetch!FlightSound, Fetch!Vacant
  <2>7. ASSUME NEW p \in Pieces PROVE Fetch!InflightSound(p)'
    BY <1>1, <2>4 DEF Fetch!Inductive, Fetch!InflightSound
  <2>8. Fetch!CloseSound'
    BY <1>0, <1>1, <2>1, <2>4 DEF Fetch!CloseSound
  <2>9. Fetch!TypeOK'
    BY <1>0, <1>1, <2>1, <2>2 DEF Fetch!TypeOK
  <2> QED
    BY <2>5, <2>6, <2>7, <2>8, <2>9 DEF Fetch!Inductive
<1> QED
  BY <1>2, <1>3

(* A read starts a flight, or joins the one its piece has. *)
LEMMA JoinSound ==
    ASSUME Counting, Fetch!Inductive, NEW r \in Readers, NEW f \in Flights, Fetch!JoinFlight(r, f)
    PROVE  Fetch!Inductive'
<1>0. Fetch!TypeOK /\ Fetch!ReadSound(r) /\ v1[r] \in Fetch!Read /\ Fetch!CloseSound /\ Fetch!FlightSound(f)
  BY DEF Fetch!Inductive, Fetch!TypeOK
<1>1. PICK p \in Pieces : p = v1[r].piece
  BY <1>0 DEF Fetch!JoinFlight, Fetch!ReadSound, Fetch!Read
<1>2. /\ v1[r].pc = "join" /\ v1[r].flight = None /\ ~v4
      /\ IF v3[p] # None THEN f = v3[p] ELSE Fetch!Vacant(f)
      /\ v3' = [v3 EXCEPT ![p] = f]
      /\ v1' = [v1 EXCEPT ![r].pc = "wait", ![r].flight = f]
      /\ UNCHANGED <<v4, v5, v6, v7>>
  BY <1>0, <1>1 DEF Fetch!JoinFlight, Fetch!ReadSound
<1>3. /\ v1' \in [Readers -> Fetch!Read] /\ v1'[r].pc = "wait" /\ v1'[r].flight = f
      /\ v1'[r].piece = p /\ \A k \in Readers \ {r} : v1'[k] = v1[k]
  BY <1>0, <1>1, <1>2 DEF Fetch!TypeOK, Fetch!Read
<1>4. /\ Fetch!Waiting(f)' = Fetch!Waiting(f) \cup {r} /\ r \notin Fetch!Waiting(f)
      /\ \A g \in Flights \ {f} : Fetch!Waiting(g)' = Fetch!Waiting(g)
  <2>1. \A k \in Readers, g \in Flights :
          v1'[k].flight = g <=> v1[k].flight = g \/ (k = r /\ g = f)
    BY <1>2, <1>3, FetchAssumption
  <2>2. r \notin Fetch!Waiting(f)
    BY <1>2, FetchAssumption DEF Fetch!Waiting
  <2> QED
    BY <2>1, <2>2 DEF Fetch!Waiting
<1>5. Cardinality(Fetch!Waiting(f)') = Cardinality(Fetch!Waiting(f)) + 1
  BY <1>4, WaitingJoined
<1>6. /\ v2'[f].waiters = Cardinality(Fetch!Waiting(f)') /\ v2'[f].piece = p
      /\ v2'[f].pc \in {"reading", "read"} /\ ~v2'[f].cancelled /\ v2'[f] \in Fetch!Flight
      /\ v3[p] # None => /\ v2'[f].pc = v2[f].pc
                         /\ v2'[f].piece = v2[f].piece
      /\ v3[p] = None => Fetch!Waiting(f) = {}
      /\ \A g \in Flights \ {f} : v2'[g] = v2[g]
  <2>0. v2[f] \in Fetch!Flight /\ v2 \in [Flights -> Fetch!Flight]
    BY <1>0 DEF Fetch!TypeOK
  <2>1. Cardinality(Fetch!Waiting(f)') \in 0 .. Cardinality(Readers)
    BY WaitingFinite
  <2>2. PICK old \in Fetch!Flight :
          /\ v2' = [v2 EXCEPT ![f] = Fetch!Joined(old)]
          /\ v3[p] # None => old = v2[f]
          /\ v3[p] = None =>
               old.pc = "reading" /\ old.piece = p /\ old.waiters = 0 /\ old.cancelled = FALSE
    <3>1. v2' = [v2 EXCEPT ![f] =
            Fetch!Joined(IF v3[p] # None THEN v2[f]
                   ELSE [Fetch!NoFlight EXCEPT !.pc = "reading", !.piece = p])]
      BY <1>1 DEF Fetch!JoinFlight
    <3>2. [Fetch!NoFlight EXCEPT !.pc = "reading", !.piece = p] \in Fetch!Flight
      BY NoFlightFields DEF Fetch!Flight
    <3> DEFINE new == [Fetch!NoFlight EXCEPT !.pc = "reading", !.piece = p]
    <3>3. new.pc = "reading" /\ new.piece = p /\ new.waiters = 0 /\ new.cancelled = FALSE
      BY DEF Fetch!NoFlight
    <3>4. CASE v3[p] # None
      BY <2>0, <3>1, <3>4
    <3>5. CASE v3[p] = None
      BY <3>1, <3>2, <3>3, <3>5
    <3> QED
      BY <3>4, <3>5
  <2>3. /\ old.waiters + 1 = Cardinality(Fetch!Waiting(f)') /\ old.piece = p
        /\ old.pc \in {"reading", "read"} /\ ~old.cancelled
        /\ v3[p] = None => Fetch!Waiting(f) = {}
    <3>1. CASE v3[p] # None
      <4>1. f \in Fetch!Running /\ v2[f].piece = p /\ ~v2[f].cancelled
        BY <1>2, <3>1 DEF Fetch!Inductive, Fetch!InflightSound
      <4>2. v2[f].waiters + 1 = Cardinality(Fetch!Waiting(f)')
        BY FetchCounts, <1>0, <1>5 DEF Fetch!FlightSound
      <4> QED
        BY <2>2, <3>1, <4>1, <4>2 DEF Fetch!Running
    <3>2. CASE v3[p] = None
      <4>1. v2[f].waiters = 0 /\ Cardinality(Fetch!Waiting(f)) = 0
        BY FetchCounts, <1>0, <1>2, <3>2, NoFlightFields DEF Fetch!Vacant, Fetch!FlightSound
      <4>2. Fetch!Waiting(f) = {}
        BY <1>0, <4>1, WaitingCounted
      <4> QED
        BY <1>5, <2>2, <3>2, <4>1, <4>2
    <3> QED
      BY <3>1, <3>2
  <2>4. /\ Fetch!Joined(old) \in Fetch!Flight /\ Fetch!Joined(old).waiters = Cardinality(Fetch!Waiting(f)')
        /\ Fetch!Joined(old).pc = old.pc /\ Fetch!Joined(old).piece = old.piece
        /\ Fetch!Joined(old).cancelled = old.cancelled
    BY <2>1, <2>3, JoinedRecord
  <2>5. v2'[f] = Fetch!Joined(old) /\ \A g \in Flights \ {f} : v2'[g] = v2[g]
    BY <2>0, <2>2
  <2> QED
    BY <2>2, <2>3, <2>4, <2>5
<1>7. /\ v3'[p] = f /\ \A q \in Pieces \ {p} : v3'[q] = v3[q]
      /\ v3' \in [Pieces -> Flights \cup {None}]
  BY <1>0, <1>2 DEF Fetch!TypeOK
<1>8. /\ f \in Fetch!Running' /\ r \in Fetch!Waiting(f)'
      /\ \A g \in Flights \ {f} : g \in Fetch!Running' <=> g \in Fetch!Running
  BY <1>4, <1>6 DEF Fetch!Running
<1>9. Fetch!TypeOK'
  <2>1. v2' \in [Flights -> Fetch!Flight]
    BY <1>0, <1>1, <1>6 DEF Fetch!JoinFlight, Fetch!TypeOK
  <2> QED
    BY <1>0, <1>2, <1>3, <1>7, <2>1 DEF Fetch!TypeOK
<1>10. Fetch!CloseSound'
  BY <1>0, <1>2 DEF Fetch!CloseSound
<1>11. ASSUME NEW k \in Readers PROVE Fetch!ReadSound(k)'
  <2>1. CASE k = r
    <3>1. f # None /\ p # None
      BY FetchAssumption
    <3> QED
      BY <1>3, <1>6, <2>1, <3>1 DEF Fetch!ReadSound
  <2>2. CASE k # r
    <3>1. Fetch!ReadSound(k) /\ v1'[k] = v1[k]
      BY <1>3, <2>2 DEF Fetch!Inductive
    <3>2. CASE v1[k].pc = "wait"
      <4>1. v1[k].flight \in Flights
        BY <1>0, <3>1, <3>2 DEF Fetch!ReadSound, Fetch!TypeOK, Fetch!Read
      <4>2. CASE v1[k].flight = f
        <5>1. Fetch!Waiting(f) # {}
          BY <4>2 DEF Fetch!Waiting
        <5> QED
          BY <1>6, <3>1, <3>2, <4>2, <5>1 DEF Fetch!ReadSound
      <4>3. CASE v1[k].flight # f
        BY <1>2, <1>6, <3>1, <3>2, <4>1, <4>3 DEF Fetch!ReadSound
      <4> QED
        BY <4>2, <4>3
    <3>3. CASE v1[k].pc # "wait"
      BY <3>1, <3>3 DEF Fetch!ReadSound, Fetch!AttemptsLeft
    <3> QED
      BY <3>2, <3>3
  <2> QED
    BY <2>1, <2>2
<1>12. ASSUME NEW g \in Flights PROVE Fetch!FlightSound(g)'
  <2>1. CASE g = f
    <3>1. p # None
      BY FetchAssumption
    <3> QED
      BY FetchCounts, <1>6, <1>7, <1>8, <2>1, <3>1 DEF Fetch!FlightSound
  <2>2. CASE g # f
    <3>1. /\ Fetch!FlightSound(g) /\ v2'[g] = v2[g] /\ Fetch!Waiting(g)' = Fetch!Waiting(g)
          /\ g \in Fetch!Running' <=> g \in Fetch!Running
      BY <1>4, <1>6, <1>8, <2>2 DEF Fetch!Inductive
    <3>2. ASSUME g \in Fetch!Running, ~v2[g].cancelled, ~v4 PROVE v2[g].piece # p
      BY <1>2, <2>2, <3>1, <3>2, FetchAssumption DEF Fetch!FlightSound
    <3>3. g \in Fetch!Running => v2[g].piece \in Pieces
      BY <1>0, <3>1 DEF Fetch!FlightSound, Fetch!TypeOK, Fetch!Flight
    <3> QED
      BY <1>2, <1>7, <3>1, <3>2, <3>3 DEF Fetch!FlightSound, Fetch!Vacant
  <2> QED
    BY <2>1, <2>2
<1>13. ASSUME NEW q \in Pieces PROVE Fetch!InflightSound(q)'
  <2>1. CASE q = p
    BY <1>6, <1>7, <1>8, <2>1 DEF Fetch!InflightSound
  <2>2. CASE q # p
    <3>1. Fetch!InflightSound(q) /\ v3'[q] = v3[q] /\ v3[q] \in Flights \cup {None}
      BY <1>0, <1>7, <2>2 DEF Fetch!Inductive, Fetch!TypeOK
    <3>2. v3[q] # f
      <4>1. CASE v3[p] # None
        <5>1. v2[f].piece = p
          BY <1>2, <4>1 DEF Fetch!Inductive, Fetch!InflightSound
        <5> QED
          BY <2>2, <3>1, <5>1, FetchAssumption DEF Fetch!InflightSound
      <4>2. CASE v3[p] = None
        <5>1. f \notin Fetch!Running
          BY <1>2, <4>2, NoFlightFields DEF Fetch!Vacant, Fetch!Running
        <5> QED
          BY <3>1, <5>1, FetchAssumption DEF Fetch!InflightSound
      <4> QED
        BY <4>1, <4>2
    <3> QED
      BY <1>2, <1>6, <1>8, <3>1, <3>2 DEF Fetch!InflightSound
  <2> QED
    BY <2>1, <2>2
<1> QED
  BY <1>9, <1>10, <1>11, <1>12, <1>13 DEF Fetch!Inductive

(* What a read's leaving makes of the record of its flight. *)
LEMMA LeavingRecord ==
    ASSUME Counting, Fetch!Inductive, NEW r \in Readers, NEW f \in Flights, v1[r].pc = "wait",
           v1[r].flight = f, Fetch!DetachFlight(f), Fetch!Waiting(f)' = Fetch!Waiting(f) \ {r}
    PROVE  /\ v2' \in [Flights -> Fetch!Flight] /\ v3' \in [Pieces -> Flights \cup {None}]
           /\ \A g \in Flights \ {f} : v2'[g] = v2[g]
           /\ v2'[f].waiters = Cardinality(Fetch!Waiting(f)')
           /\ v2[f].pc = "done" /\ v2'[f] # Fetch!NoFlight => v2'[f].pc = "done"
           /\ v2[f].pc # "done" \/ Fetch!Waiting(f)' # {} =>
                v2'[f].pc = v2[f].pc /\ v2'[f].piece = v2[f].piece
           /\ Fetch!Waiting(f)' # {} => v2'[f].cancelled = v2[f].cancelled
           /\ Fetch!Waiting(f)' = {} /\ v2[f].pc # "done" => v2'[f].cancelled
           /\ \A p \in Pieces : v3'[p] =
                IF Fetch!Waiting(f)' = {} /\ v2[f].pc # "done" /\ v3[p] = f THEN None
                ELSE v3[p]
<1>0. Fetch!TypeOK /\ Fetch!FlightSound(f) /\ v2[f] \in Fetch!Flight /\ r \in Fetch!Waiting(f)
  BY DEF Fetch!Inductive, Fetch!TypeOK, Fetch!Waiting
<1>1. /\ v2[f].waiters = Cardinality(Fetch!Waiting(f)) /\ Cardinality(Fetch!Waiting(f)) \in Nat \ {0}
      /\ Cardinality(Fetch!Waiting(f)') = Cardinality(Fetch!Waiting(f)) - 1
  BY FetchCounts, <1>0, WaitingLeft DEF Fetch!FlightSound
<1>2. v2[f].waiters - 1 = Cardinality(Fetch!Waiting(f)')
  BY <1>1
<1>3. v2[f].waiters = 1 <=> Fetch!Waiting(f)' = {}
  <2>1. v2[f].waiters = 1 <=> Cardinality(Fetch!Waiting(f)') = 0
    BY ONLY <1>1, SMTT(30)
  <2> QED
    BY <2>1, WaitingFinite DEF Counting, EmptyCount
<1>4. /\ Fetch!Left(v2[f]) \in Fetch!Flight
      /\ v2[f].pc = "done" /\ v2[f].waiters - 1 = 0 => Fetch!Left(v2[f]) = Fetch!NoFlight
      /\ v2[f].pc # "done" \/ v2[f].waiters - 1 # 0 =>
           /\ Fetch!Left(v2[f]).pc = v2[f].pc /\ Fetch!Left(v2[f]).piece = v2[f].piece
           /\ Fetch!Left(v2[f]).waiters = v2[f].waiters - 1
           /\ Fetch!Left(v2[f]).cancelled = (v2[f].cancelled \/ Fetch!Abandoned(v2[f]))
  <2>1. v2[f].waiters - 1 \in 0 .. Cardinality(Readers)
    BY <1>2, WaitingFinite
  <2> QED
    BY ONLY Counting, <1>0, <2>1, LeftRecord, ZenonT(40)
<1>5. /\ v2' = [v2 EXCEPT ![f] = Fetch!Left(v2[f])]
      /\ v3' = [p \in Pieces |-> IF Fetch!Abandoned(v2[f]) /\ v3[p] = f THEN None
                                       ELSE v3[p]]
  BY DEF Fetch!DetachFlight
<1>6. /\ v2' \in [Flights -> Fetch!Flight] /\ v2'[f] = Fetch!Left(v2[f])
      /\ \A g \in Flights \ {f} : v2'[g] = v2[g]
  BY <1>0, <1>4, <1>5 DEF Fetch!TypeOK
<1>7. v3' \in [Pieces -> Flights \cup {None}]
  BY <1>0, <1>5 DEF Fetch!TypeOK
<1>8. v2[f].waiters - 1 = 0 <=> Fetch!Waiting(f)' = {}
  BY <1>2, WaitingFinite DEF Counting, EmptyCount
<1>9. v2'[f].waiters = Cardinality(Fetch!Waiting(f)')
  BY <1>2, <1>4, <1>6, NoFlightFields
<1>10. Fetch!Abandoned(v2[f]) <=> Fetch!Waiting(f)' = {} /\ v2[f].pc # "done"
  BY <1>3 DEF Fetch!Abandoned
<1>11. \A p \in Pieces : v3'[p] =
         IF Fetch!Waiting(f)' = {} /\ v2[f].pc # "done" /\ v3[p] = f THEN None
         ELSE v3[p]
  BY <1>5, <1>10
<1>12. /\ v2[f].pc = "done" /\ v2'[f] # Fetch!NoFlight => v2'[f].pc = "done"
       /\ v2[f].pc # "done" \/ Fetch!Waiting(f)' # {} =>
            v2'[f].pc = v2[f].pc /\ v2'[f].piece = v2[f].piece
  BY <1>4, <1>6, <1>8
<1>13. /\ Fetch!Waiting(f)' # {} => v2'[f].cancelled = v2[f].cancelled
       /\ Fetch!Waiting(f)' = {} /\ v2[f].pc # "done" => v2'[f].cancelled
  <2>1. v2[f].cancelled \in BOOLEAN
    BY <1>0 DEF Fetch!Flight
  <2> QED
    BY <1>4, <1>6, <1>8, <1>10, <2>1
<1> QED
  BY <1>6, <1>7, <1>9, <1>11, <1>12, <1>13

(* A read leaves its flight: the last one cancels it. *)
LEMMA DetachSound ==
    ASSUME Counting, Fetch!Inductive, NEW r \in Readers, v1[r].pc = "wait", Fetch!DetachFlight(v1[r].flight),
           UNCHANGED <<v4, v5, v6, v7>>,
           v1' \in [Readers -> Fetch!Read], v1'[r].flight = None, Fetch!ReadSound(r)',
           \A k \in Readers \ {r} : v1'[k] = v1[k]
    PROVE  Fetch!Inductive'
<1>0. Fetch!TypeOK /\ Fetch!ReadSound(r) /\ Fetch!CloseSound
  BY DEF Fetch!Inductive
<1>1. PICK f \in Flights : f = v1[r].flight
  BY <1>0 DEF Fetch!ReadSound, Fetch!TypeOK, Fetch!Read
<1>2. Fetch!DetachFlight(f) /\ f # None /\ v2[f].pc # "none"
  BY <1>0, <1>1, FetchAssumption DEF Fetch!ReadSound
<1>3. Fetch!Waiting(f)' = Fetch!Waiting(f) \ {r} /\ \A g \in Flights \ {f} : Fetch!Waiting(g)' = Fetch!Waiting(g)
  <2>1. \A k \in Readers, g \in Flights :
          v1'[k].flight = g <=> v1[k].flight = g /\ k # r
    BY <1>1, FetchAssumption
  <2> QED
    BY <1>1, <2>1 DEF Fetch!Waiting
<1>4. /\ v2' \in [Flights -> Fetch!Flight] /\ v3' \in [Pieces -> Flights \cup {None}]
      /\ \A g \in Flights \ {f} : v2'[g] = v2[g]
      /\ v2'[f].waiters = Cardinality(Fetch!Waiting(f)')
      /\ v2[f].pc = "done" /\ v2'[f] # Fetch!NoFlight => v2'[f].pc = "done"
      /\ v2[f].pc # "done" \/ Fetch!Waiting(f)' # {} =>
           v2'[f].pc = v2[f].pc /\ v2'[f].piece = v2[f].piece
      /\ Fetch!Waiting(f)' # {} => v2'[f].cancelled = v2[f].cancelled
      /\ Fetch!Waiting(f)' = {} /\ v2[f].pc # "done" => v2'[f].cancelled
      /\ \A p \in Pieces : v3'[p] =
           IF Fetch!Waiting(f)' = {} /\ v2[f].pc # "done" /\ v3[p] = f THEN None
           ELSE v3[p]
  <2>1. v1[r].flight = f /\ Fetch!Waiting(f)' = Fetch!Waiting(f) \ {r}
    BY <1>1, <1>3
  <2> QED
    BY ONLY Counting, Fetch!Inductive, v1[r].pc = "wait", <1>2, <2>1, LeavingRecord, ZenonT(40)
<1>5. Fetch!Running' = Fetch!Running
  <2>1. f \in Fetch!Running' <=> f \in Fetch!Running
    BY <1>2, <1>4, NoFlightFields DEF Fetch!Running
  <2>2. \A g \in Flights \ {f} : g \in Fetch!Running' <=> g \in Fetch!Running
    BY <1>4 DEF Fetch!Running
  <2>3. Fetch!Running \subseteq Flights /\ Fetch!Running' \subseteq Flights
    BY DEF Fetch!Running
  <2>4. \A g : g \in Fetch!Running' <=> g \in Fetch!Running
    BY <2>1, <2>2, <2>3
  <2> QED
    BY <2>4
<1>6. Fetch!TypeOK' /\ Fetch!CloseSound'
  BY <1>0, <1>4, <1>5 DEF Fetch!TypeOK, Fetch!CloseSound
<1>7. ASSUME NEW k \in Readers \ {r} PROVE Fetch!ReadSound(k)'
  <2>1. Fetch!ReadSound(k) /\ v1'[k] = v1[k]
    BY DEF Fetch!Inductive
  <2>2. CASE v1[k].pc = "wait" /\ v1[k].flight = f
    <3>1. k \in Fetch!Waiting(f)'
      BY <1>3, <2>2 DEF Fetch!Waiting
    <3>2. /\ v2'[f].pc = v2[f].pc /\ v2'[f].piece = v2[f].piece
          /\ v2'[f].cancelled = v2[f].cancelled
      BY <1>4, <3>1
    <3> QED
      BY <2>1, <2>2, <3>2 DEF Fetch!ReadSound
  <2>3. CASE v1[k].pc = "wait" /\ v1[k].flight # f
    <3>1. v1[k].flight \in Flights
      BY <1>0, <2>1, <2>3 DEF Fetch!ReadSound, Fetch!TypeOK, Fetch!Read
    <3>2. v2'[v1[k].flight] = v2[v1[k].flight]
      BY <1>4, <2>3, <3>1
    <3> QED
      BY <2>1, <2>3, <3>2 DEF Fetch!ReadSound
  <2>4. CASE v1[k].pc # "wait"
    BY <2>1, <2>4 DEF Fetch!ReadSound, Fetch!AttemptsLeft
  <2> QED
    BY <2>2, <2>3, <2>4
<1>8. ASSUME NEW g \in Flights PROVE Fetch!FlightSound(g)'
  <2>1. CASE g = f
    <3>1. Fetch!FlightSound(f)
      BY DEF Fetch!Inductive
    <3>2. v2'[f].pc = "none" => v2'[f] = Fetch!NoFlight
      BY <1>2, <1>4
    <3>3. f \in Fetch!Running => v2[f].pc # "done" /\ v2[f].piece \in Pieces
      BY <1>0, <3>1 DEF Fetch!Running, Fetch!FlightSound, Fetch!TypeOK, Fetch!Flight
    <3> QED
      BY FetchCounts, <1>4, <1>5, <2>1, <3>1, <3>2, <3>3 DEF Fetch!FlightSound, Fetch!Vacant
  <2>2. CASE g # f
    <3>1. Fetch!FlightSound(g) /\ v2'[g] = v2[g] /\ Fetch!Waiting(g)' = Fetch!Waiting(g)
      BY <1>3, <1>4, <2>2 DEF Fetch!Inductive
    <3>2. g \in Fetch!Running => v2[g].piece \in Pieces
      BY <1>0, <3>1 DEF Fetch!FlightSound, Fetch!TypeOK, Fetch!Flight
    <3>3. \A p \in Pieces : v3[p] = g => v3'[p] = g
      BY <1>4, <2>2
    <3> QED
      BY <1>5, <3>1, <3>2, <3>3 DEF Fetch!FlightSound, Fetch!Vacant
  <2> QED
    BY <2>1, <2>2
<1>9. ASSUME NEW p \in Pieces PROVE Fetch!InflightSound(p)'
  <2>1. SUFFICES ASSUME v3'[p] # None PROVE Fetch!InflightSound(p)'
    BY DEF Fetch!InflightSound
  <2>2. v3'[p] = v3[p] /\ Fetch!InflightSound(p) /\ v3[p] \in Flights
    BY <1>0, <1>4, <2>1 DEF Fetch!Inductive, Fetch!TypeOK
  <2>3. CASE v3[p] = f
    <3>1. f \in Fetch!Running /\ v2[f].pc # "done" /\ Fetch!Waiting(f)' # {}
      BY <1>2, <1>4, <2>1, <2>2, <2>3 DEF Fetch!InflightSound, Fetch!Running
    <3>2. v2'[f].piece = v2[f].piece /\ v2'[f].cancelled = v2[f].cancelled
      BY <1>4, <3>1
    <3> QED
      BY <1>5, <2>2, <2>3, <3>2 DEF Fetch!InflightSound
  <2>4. CASE v3[p] # f
    <3>1. v2'[v3[p]] = v2[v3[p]]
      BY <1>4, <2>2, <2>4
    <3> QED
      BY <1>5, <2>2, <3>1 DEF Fetch!InflightSound
  <2> QED
    BY <2>3, <2>4
<1> QED
  BY <1>6, <1>7, <1>8, <1>9 DEF Fetch!Inductive

(* A read is answered, or its request ends: both leave the flight. *)
LEMMA LeaveSound ==
    ASSUME Counting, Fetch!Inductive, NEW r \in Readers, Fetch!Delivered(r) \/ Fetch!GiveUp(r)
    PROVE  Fetch!Inductive'
<1>0. Fetch!TypeOK /\ Fetch!ReadSound(r) /\ v1[r] \in Fetch!Read
  BY DEF Fetch!Inductive, Fetch!TypeOK
<1>1. /\ v1[r].pc = "wait" /\ Fetch!DetachFlight(v1[r].flight)
      /\ UNCHANGED <<v4, v5, v6, v7>>
  BY DEF Fetch!Delivered, Fetch!GiveUp
<1>2. \/ Fetch!Ends(r)
      \/ /\ v1' = [v1 EXCEPT ![r].pc = "put", ![r].flight = None]
      \/ /\ v1' = [v1 EXCEPT ![r].pc = "retry", ![r].flight = None] /\ Fetch!AttemptsLeft(r)
  BY DEF Fetch!Delivered, Fetch!GiveUp
<1>3. CASE Fetch!Ends(r)
  BY <1>0, <1>1, <1>3, EndSound, DetachSound
<1>4. ASSUME NEW pc \in {"put", "retry"}, pc = "retry" => Fetch!AttemptsLeft(r),
             v1' = [v1 EXCEPT ![r].pc = pc, ![r].flight = None]
      PROVE  Fetch!Inductive'
  <2>1. v1' \in [Readers -> Fetch!Read]
    BY <1>0, <1>4 DEF Fetch!TypeOK, Fetch!Read
  <2>2. /\ v1'[r].pc = pc /\ v1'[r].flight = None /\ v1'[r].piece = v1[r].piece
        /\ v1'[r].attempt = v1[r].attempt /\ \A k \in Readers \ {r} : v1'[k] = v1[k]
    BY <1>0, <1>4 DEF Fetch!TypeOK, Fetch!Read
  <2>3. v1[r].piece # None
    BY <1>0, <1>1 DEF Fetch!ReadSound
  <2>4. Fetch!ReadSound(r)'
    BY <1>4, <2>2, <2>3 DEF Fetch!ReadSound, Fetch!AttemptsLeft
  <2> QED
    BY <1>1, <2>1, <2>2, <2>4, DetachSound
<1> QED
  BY <1>2, <1>3, <1>4

(* The Reader of a flight returns. *)
LEMMA FlightReadSound ==
    ASSUME Fetch!Inductive, NEW f \in Flights, NEW err \in Fetch!Outcomes, Fetch!FlightRead(f, err)
    PROVE  Fetch!Inductive'
<1>0. Fetch!TypeOK /\ Fetch!FlightSound(f) /\ v2[f] \in Fetch!Flight /\ Fetch!CloseSound
  BY DEF Fetch!Inductive, Fetch!TypeOK
<1>1. /\ v2[f].pc = "reading" /\ v2' = [v2 EXCEPT ![f].pc = "read", ![f].err = err]
      /\ v7' = (IF err = "ok" THEN v7 \cup {v2[f].piece} ELSE v7)
      /\ UNCHANGED <<v1, v3, v4, v5, v6>>
  BY DEF Fetch!FlightRead
<1>2. v2' \in [Flights -> Fetch!Flight]
  BY <1>0, <1>1 DEF Fetch!TypeOK, Fetch!Flight
<1>3. /\ v2'[f].pc = "read" /\ \A g \in Flights \ {f} : v2'[g] = v2[g]
      /\ \A g \in Flights : /\ v2'[g].waiters = v2[g].waiters
                            /\ v2'[g].piece = v2[g].piece
                            /\ v2'[g].cancelled = v2[g].cancelled
  BY <1>0, <1>1 DEF Fetch!TypeOK, Fetch!Flight
<1>4. f \in Fetch!Running /\ Fetch!Running' = Fetch!Running
  <2>1. f \in Fetch!Running /\ f \in Fetch!Running'
    BY <1>1, <1>3 DEF Fetch!Running
  <2>2. \A g \in Flights \ {f} : g \in Fetch!Running' <=> g \in Fetch!Running
    BY <1>3 DEF Fetch!Running
  <2>3. \A g : g \in Fetch!Running' <=> g \in Fetch!Running
    BY <2>1, <2>2 DEF Fetch!Running
  <2> QED
    BY <2>1, <2>3
<1>5. v2[f].piece \in Pieces
  BY <1>0, <1>4 DEF Fetch!FlightSound, Fetch!Flight
<1>6. Fetch!TypeOK' /\ Fetch!CloseSound'
  BY <1>0, <1>1, <1>2, <1>4, <1>5 DEF Fetch!TypeOK, Fetch!CloseSound
<1>7. ASSUME NEW k \in Readers PROVE Fetch!ReadSound(k)'
  <2>1. Fetch!ReadSound(k) /\ v1' = v1
    BY <1>1 DEF Fetch!Inductive
  <2>2. CASE v1[k].pc = "wait"
    <3>1. v1[k].flight \in Flights
      BY <1>0, <2>1, <2>2 DEF Fetch!ReadSound, Fetch!TypeOK, Fetch!Read
    <3>2. /\ v2'[v1[k].flight].piece = v2[v1[k].flight].piece
          /\ v2'[v1[k].flight].cancelled = v2[v1[k].flight].cancelled
          /\ \/ v2'[v1[k].flight].pc = v2[v1[k].flight].pc
             \/ v2'[v1[k].flight].pc = "read" /\ v2[v1[k].flight].pc = "reading"
      BY <1>1, <1>3, <3>1
    <3> QED
      BY <1>1, <2>1, <2>2, <3>2 DEF Fetch!ReadSound
  <2>3. CASE v1[k].pc # "wait"
    BY <2>1, <2>3 DEF Fetch!ReadSound, Fetch!AttemptsLeft
  <2> QED
    BY <2>2, <2>3
<1>8. ASSUME NEW g \in Flights PROVE Fetch!FlightSound(g)'
  <2>1. Fetch!FlightSound(g) /\ Fetch!Waiting(g)' = Fetch!Waiting(g)
    BY <1>1 DEF Fetch!Inductive, Fetch!Waiting
  <2>2. v2'[g].pc = "none" => v2'[g] = v2[g]
    BY <1>3
  <2> QED
    BY <1>1, <1>3, <1>4, <2>1, <2>2 DEF Fetch!FlightSound, Fetch!Vacant
<1>9. ASSUME NEW p \in Pieces PROVE Fetch!InflightSound(p)'
  <2>1. Fetch!InflightSound(p) /\ v3[p] \in Flights \cup {None}
    BY <1>0 DEF Fetch!Inductive, Fetch!TypeOK
  <2> QED
    BY <1>1, <1>3, <1>4, <2>1 DEF Fetch!InflightSound
<1> QED
  BY <1>6, <1>7, <1>8, <1>9 DEF Fetch!Inductive

(* A flight ends, and the map forgets it. *)
LEMMA FlightDoneSound ==
    ASSUME Counting, Fetch!Inductive, NEW f \in Flights, Fetch!FlightDone(f)
    PROVE  Fetch!Inductive'
<1>0. Fetch!TypeOK /\ Fetch!FlightSound(f) /\ v2[f] \in Fetch!Flight /\ Fetch!CloseSound
  BY DEF Fetch!Inductive, Fetch!TypeOK
<1>1. PICK new : new = Fetch!Collect([v2[f] EXCEPT !.pc = "done", !.cancelled = TRUE])
  OBVIOUS
<1>2. /\ v2[f].pc = "read" /\ v2' = [v2 EXCEPT ![f] = new]
      /\ v3' = [p \in Pieces |-> IF v3[p] = f THEN None ELSE v3[p]]
      /\ UNCHANGED <<v1, v4, v5, v6, v7>>
  BY <1>1 DEF Fetch!FlightDone
<1>3. /\ new \in Fetch!Flight
      /\ new = Fetch!NoFlight \/ (new.pc = "done" /\ new.piece = v2[f].piece)
      /\ new.waiters = v2[f].waiters
      /\ v2[f].waiters # 0 => new.pc = "done" /\ new.piece = v2[f].piece
  BY <1>0, <1>1, EndedRecord
<1>4. /\ v2' \in [Flights -> Fetch!Flight] /\ v2'[f] = new
      /\ \A g \in Flights \ {f} : v2'[g] = v2[g]
  BY <1>0, <1>2, <1>3 DEF Fetch!TypeOK
<1>5. /\ v3' \in [Pieces -> Flights \cup {None}]
      /\ \A p \in Pieces : v3'[p] = IF v3[p] = f THEN None ELSE v3[p]
  BY <1>0, <1>2 DEF Fetch!TypeOK
<1>6. f \notin Fetch!Running' /\ \A g \in Flights \ {f} : g \in Fetch!Running' <=> g \in Fetch!Running
  BY <1>3, <1>4, NoFlightFields DEF Fetch!Running
<1>7. Fetch!Running' \subseteq Fetch!Running
  BY <1>6 DEF Fetch!Running
<1>8. Fetch!TypeOK' /\ Fetch!CloseSound'
  BY <1>0, <1>2, <1>4, <1>5, <1>7 DEF Fetch!TypeOK, Fetch!CloseSound
<1>9. ASSUME NEW k \in Readers PROVE Fetch!ReadSound(k)'
  <2>1. Fetch!ReadSound(k) /\ v1' = v1
    BY <1>2 DEF Fetch!Inductive
  <2>2. CASE v1[k].pc = "wait" /\ v1[k].flight = f
    <3>1. v2[f].waiters # 0
      <4>1. k \in Fetch!Waiting(f)
        BY <2>2 DEF Fetch!Waiting
      <4> QED
        BY <1>0, <4>1, WaitingCounted
    <3> QED
      BY <1>3, <1>4, <2>1, <2>2, <3>1 DEF Fetch!ReadSound
  <2>3. CASE v1[k].pc = "wait" /\ v1[k].flight # f
    <3>1. v1[k].flight \in Flights
      BY <1>0, <2>1, <2>3 DEF Fetch!ReadSound, Fetch!TypeOK, Fetch!Read
    <3>2. v2'[v1[k].flight] = v2[v1[k].flight]
      BY <1>4, <2>3, <3>1
    <3> QED
      BY <1>2, <2>1, <2>3, <3>2 DEF Fetch!ReadSound
  <2>4. CASE v1[k].pc # "wait"
    BY <2>1, <2>4 DEF Fetch!ReadSound, Fetch!AttemptsLeft
  <2> QED
    BY <2>2, <2>3, <2>4
<1>10. ASSUME NEW g \in Flights PROVE Fetch!FlightSound(g)'
  <2>1. Fetch!FlightSound(g) /\ Fetch!Waiting(g)' = Fetch!Waiting(g)
    BY <1>2 DEF Fetch!Inductive, Fetch!Waiting
  <2>2. CASE g = f
    <3>1. v2'[f].pc = "none" => v2'[f] = Fetch!NoFlight
      BY <1>3, <1>4
    <3> QED
      BY <1>3, <1>4, <1>6, <2>1, <2>2, <3>1 DEF Fetch!FlightSound, Fetch!Vacant
  <2>3. CASE g # f
    <3>1. v2'[g] = v2[g] /\ (g \in Fetch!Running' <=> g \in Fetch!Running)
      BY <1>4, <1>6, <2>3
    <3>2. g \in Fetch!Running => v2[g].piece \in Pieces
      BY <1>0, <2>1 DEF Fetch!FlightSound, Fetch!TypeOK, Fetch!Flight
    <3>3. \A p \in Pieces : v3[p] = g => v3'[p] = g
      BY <1>5, <2>3
    <3> QED
      BY <1>2, <2>1, <3>1, <3>2, <3>3 DEF Fetch!FlightSound, Fetch!Vacant
  <2> QED
    BY <2>2, <2>3
<1>11. ASSUME NEW p \in Pieces PROVE Fetch!InflightSound(p)'
  <2>1. SUFFICES ASSUME v3'[p] # None PROVE Fetch!InflightSound(p)'
    BY DEF Fetch!InflightSound
  <2>2. v3'[p] = v3[p] /\ Fetch!InflightSound(p) /\ v3[p] \in Flights \ {f}
    BY <1>0, <1>5, <2>1 DEF Fetch!Inductive, Fetch!TypeOK
  <2>3. v2'[v3[p]] = v2[v3[p]] /\ v3[p] \in Fetch!Running'
    BY <1>4, <1>6, <2>1, <2>2 DEF Fetch!InflightSound
  <2> QED
    BY <1>2, <2>1, <2>2, <2>3 DEF Fetch!InflightSound
<1> QED
  BY <1>8, <1>9, <1>10, <1>11 DEF Fetch!Inductive

(* The torrent is closed, step by step. *)
LEMMA ClosingSound ==
    ASSUME Fetch!Inductive, \/ Fetch!CloseFiles \/ Fetch!CloseStep
                            \/ \E p \in Pieces : Fetch!Evict(p) \/ Fetch!StorePut(p)
    PROVE  Fetch!Inductive'
<1>0. Fetch!TypeOK /\ Fetch!CloseSound
  BY DEF Fetch!Inductive
<1>1. CASE Fetch!CloseFetcher
  <2>1. /\ v6 = "fetcher" /\ v4' /\ v6' = "flights"
        /\ UNCHANGED <<v1, v3, v5, v7>>
        /\ v2' = [f \in Flights |->
             IF f \in Fetch!Running THEN [v2[f] EXCEPT !.cancelled = TRUE] ELSE v2[f]]
    BY <1>1 DEF Fetch!CloseFetcher
  <2>2. ASSUME NEW f \in Flights
        PROVE  /\ v2'[f] \in Fetch!Flight /\ v2'[f].pc = v2[f].pc
               /\ v2'[f].piece = v2[f].piece /\ v2'[f].waiters = v2[f].waiters
               /\ f \notin Fetch!Running => v2'[f] = v2[f]
    <3>1. v2[f] \in Fetch!Flight
      BY <1>0 DEF Fetch!TypeOK
    <3>2. CASE f \in Fetch!Running
      <4>1. v2'[f] = [v2[f] EXCEPT !.cancelled = TRUE]
        BY <2>1, <3>2
      <4> QED
        BY <3>1, <3>2, <4>1 DEF Fetch!Flight
    <3>3. CASE f \notin Fetch!Running
      BY <2>1, <3>1, <3>3
    <3> QED
      BY <3>2, <3>3
  <2>3. Fetch!Running' = Fetch!Running
    BY <2>2 DEF Fetch!Running
  <2>4. v2' \in [Flights -> Fetch!Flight]
    BY <2>1, <2>2
  <2>5. Fetch!TypeOK' /\ Fetch!CloseSound'
    BY <1>0, <2>1, <2>4 DEF Fetch!TypeOK, Fetch!CloseSound
  <2>6. ASSUME NEW k \in Readers PROVE Fetch!ReadSound(k)'
    <3>1. Fetch!ReadSound(k) /\ v1' = v1
      BY <2>1 DEF Fetch!Inductive
    <3>2. v1[k].pc = "wait" => v1[k].flight \in Flights
      BY <1>0, <3>1 DEF Fetch!ReadSound, Fetch!TypeOK, Fetch!Read
    <3> QED
      BY <2>1, <2>2, <3>1, <3>2 DEF Fetch!ReadSound, Fetch!AttemptsLeft
  <2>7. ASSUME NEW f \in Flights PROVE Fetch!FlightSound(f)'
    <3>1. Fetch!FlightSound(f) /\ Fetch!Waiting(f)' = Fetch!Waiting(f)
      BY <2>1 DEF Fetch!Inductive, Fetch!Waiting
    <3>2. v2[f].pc = "none" => f \notin Fetch!Running
      BY DEF Fetch!Running
    <3> QED
      BY <2>1, <2>2, <2>3, <3>1, <3>2 DEF Fetch!FlightSound, Fetch!Vacant
  <2>8. ASSUME NEW p \in Pieces PROVE Fetch!InflightSound(p)'
    <3>1. Fetch!InflightSound(p) /\ v3[p] \in Flights \cup {None}
      BY <1>0 DEF Fetch!Inductive, Fetch!TypeOK
    <3> QED
      BY <2>1, <2>2, <2>3, <3>1 DEF Fetch!InflightSound
  <2> QED
    BY <2>5, <2>6, <2>7, <2>8 DEF Fetch!Inductive
<1>2. CASE \/ Fetch!CloseFiles \/ Fetch!CloseWaits \/ Fetch!CloseStore \/ Fetch!Invalidate
           \/ \E p \in Pieces : Fetch!Evict(p) \/ Fetch!StorePut(p)
  <2>1. UNCHANGED <<v1, v2, v3, v4>>
    BY <1>2 DEF Fetch!CloseFiles, Fetch!CloseWaits, Fetch!CloseStore, Fetch!Invalidate,
       Fetch!Evict, Fetch!StorePut
  <2>2. Fetch!Running' = Fetch!Running /\ \A f \in Flights : Fetch!Waiting(f)' = Fetch!Waiting(f)
    BY <2>1 DEF Fetch!Running, Fetch!Waiting
  <2>3. Fetch!TypeOK'
    BY <1>0, <1>2, <2>1
    DEF Fetch!TypeOK, Fetch!CloseFiles, Fetch!CloseWaits, Fetch!CloseStore,
    Fetch!Invalidate, Fetch!Evict, Fetch!StorePut
  <2>4. Fetch!CloseSound'
    BY <1>0, <1>2, <2>1, <2>2
    DEF Fetch!CloseSound, Fetch!CloseFiles, Fetch!CloseWaits, Fetch!CloseStore,
    Fetch!Invalidate, Fetch!Evict, Fetch!StorePut
  <2>5. ASSUME NEW k \in Readers PROVE Fetch!ReadSound(k)'
    BY <2>1 DEF Fetch!Inductive, Fetch!ReadSound, Fetch!AttemptsLeft
  <2>6. ASSUME NEW f \in Flights PROVE Fetch!FlightSound(f)'
    <3>1. Fetch!FlightSound(f)
      BY DEF Fetch!Inductive
    <3> QED
      BY <2>1, <2>2, <3>1 DEF Fetch!FlightSound, Fetch!Vacant
  <2>7. ASSUME NEW p \in Pieces PROVE Fetch!InflightSound(p)'
    BY <2>1, <2>2 DEF Fetch!Inductive, Fetch!InflightSound
  <2> QED
    BY <2>3, <2>4, <2>5, <2>6, <2>7 DEF Fetch!Inductive
<1> QED
  BY <1>1, <1>2 DEF Fetch!CloseStep

(* Every step of the fetcher keeps the invariant, *)
LEMMA FetchNext ==
    ASSUME Counting
    PROVE  Fetch!Inductive /\ Fetch!Next => Fetch!Inductive'
<1> SUFFICES ASSUME Fetch!Inductive, Fetch!Next PROVE Fetch!Inductive'
  OBVIOUS
<1>1. ASSUME NEW r \in Readers, Fetch!ReadStep(r) \/ Fetch!Expire(r) \/ \E p \in Pieces : Fetch!ReadAt(r, p)
      PROVE  Fetch!Inductive'
  BY <1>1, ReadsSound, JoinSound, LeaveSound DEF Fetch!ReadStep
<1>2. ASSUME NEW f \in Flights, Fetch!FlightDone(f) \/ \E err \in Fetch!Outcomes : Fetch!FlightRead(f, err)
      PROVE  Fetch!Inductive'
  BY <1>2, FlightReadSound, FlightDoneSound
<1> QED
  BY <1>1, <1>2, ClosingSound DEF Fetch!Next

(* which gives what it promises. *)
LEMMA FetchSafe == Fetch!Inductive => Fetch!OthersUndisturbed /\ Fetch!OneReaderPerPiece /\ Fetch!ClosedStaysEmpty
<1> SUFFICES ASSUME Fetch!Inductive PROVE Fetch!OthersUndisturbed /\ Fetch!OneReaderPerPiece /\ Fetch!ClosedStaysEmpty
  OBVIOUS
<1>1. Fetch!OthersUndisturbed
  BY DEF Fetch!Inductive, Fetch!ReadSound, Fetch!OthersUndisturbed
<1>2. Fetch!OneReaderPerPiece
  BY DEF Fetch!Inductive, Fetch!FlightSound, Fetch!OneReaderPerPiece, Fetch!Running
<1>3. Fetch!ClosedStaysEmpty
  BY DEF Fetch!Inductive, Fetch!CloseSound, Fetch!ClosedStaysEmpty
<1> QED
  BY <1>1, <1>2, <1>3

(* Nothing happens. *)
LEMMA FetchStutter ==
    ASSUME Fetch!Inductive, UNCHANGED Fetch!vars
    PROVE  Fetch!Inductive'
<1>1. UNCHANGED <<v1, v2, v3, v4, v5, v6, v7>>
  BY DEF Fetch!vars
<1>2. Fetch!Running' = Fetch!Running /\ \A f : Fetch!Waiting(f)' = Fetch!Waiting(f)
  BY <1>1 DEF Fetch!Running, Fetch!Waiting
<1>3. ASSUME NEW r \in Readers PROVE Fetch!ReadSound(r)'
  <2>1. Fetch!ReadSound(r)
    BY DEF Fetch!Inductive
  <2> QED
    BY <1>1, <2>1 DEF Fetch!ReadSound, Fetch!AttemptsLeft
<1>4. ASSUME NEW f \in Flights PROVE Fetch!FlightSound(f)'
  <2>1. Fetch!FlightSound(f)
    BY DEF Fetch!Inductive
  <2> QED
    BY <1>1, <1>2, <2>1 DEF Fetch!FlightSound, Fetch!Vacant
<1>5. ASSUME NEW p \in Pieces PROVE Fetch!InflightSound(p)'
  <2>1. Fetch!InflightSound(p)
    BY DEF Fetch!Inductive
  <2> QED
    BY <1>1, <1>2, <2>1 DEF Fetch!InflightSound
<1>6. Fetch!TypeOK' /\ Fetch!CloseSound'
  BY <1>1, <1>2 DEF Fetch!Inductive, Fetch!TypeOK, Fetch!CloseSound
<1> QED
  BY <1>3, <1>4, <1>5, <1>6 DEF Fetch!Inductive

-----------------------------------------------------------------------------
(* The tokens of the HTTP API *)

(* A new service knows no token. *)
LEMMA AuthInit == Auth!Init => Auth!Inductive
<1>1. 0 \in 0..MaxTime
  BY AuthAssumption, SMTT(30)
<1> QED
  BY <1>1, AuthAssumption DEF Auth!Init, Auth!Inductive, Auth!TypeOK, Auth!ClosedForgets,
     Auth!TokensUnshared, Auth!IdleExpires, Auth!ExpiresAfterUse

(* Dropping the tokens that have expired keeps what is known of the others.  *)
LEMMA UnexpiredFacts ==
    ASSUME Auth!Inductive
    PROVE  /\ Auth!Unexpired \in [Tokens -> 0..(MaxTime + TTL) \cup {None}]
           /\ \A t \in Tokens : Auth!Unexpired[t] # None =>
                Auth!Unexpired[t] = v2[t] /\ v2[t] # None /\ v3 < v2[t]
BY DEF Auth!Inductive, Auth!TypeOK, Auth!Unexpired

(* A step that issues no token leaves at most fewer logins with one.         *)
LEMMA UnsharedKept ==
    ASSUME Auth!Inductive,
           \A l \in Logins : v4'[l] = v4[l] \/ v4'[l] \in {"idle", "comparing", "ended"}
    PROVE  Auth!TokensUnshared'
BY AuthAssumption DEF Auth!Inductive, Auth!TokensUnshared

(* A token that is issued belongs to that login alone. *)
LEMMA AuthIssue ==
    ASSUME Auth!Inductive, ~v1, NEW l \in Logins, NEW t \in Tokens, Auth!Unexpired[t] = None,
           Auth!Issue(l, t), v6' = None, UNCHANGED <<v1, v3>>
    PROVE  Auth!Inductive'
<1>1. Auth!Unexpired \in [Tokens -> 0..(MaxTime + TTL) \cup {None}]
  BY UnexpiredFacts
<1>2. v3 \in 0..MaxTime /\ v3 + TTL \in 0..(MaxTime + TTL)
  BY AuthAssumption, SMTT(30) DEF Auth!Inductive, Auth!TypeOK
<1>3. v2' \in [Tokens -> 0..(MaxTime + TTL) \cup {None}]
  BY <1>1, <1>2 DEF Auth!Issue
<1>4. v5' \in [Tokens -> 0..MaxTime \cup {None}]
  BY <1>2 DEF Auth!Issue, Auth!Inductive, Auth!TypeOK
<1>5. /\ v4' \in [Logins -> {"idle", "comparing", "ended"} \cup Tokens]
      /\ v4'[l] = t
      /\ \A k \in Logins : k # l => v4'[k] \in {v4[k], "ended"} /\ v4'[k] # t
  BY AuthAssumption DEF Auth!Issue, Auth!Inductive, Auth!TypeOK
<1>6. Auth!TypeOK'
  BY <1>3, <1>4, <1>5 DEF Auth!Inductive, Auth!TypeOK
<1>7. Auth!TokensUnshared'
  <2> SUFFICES ASSUME NEW k \in Logins, NEW j \in Logins, k # j, v4'[k] = v4'[j]
               PROVE  v4'[k] \notin Tokens
    BY DEF Auth!TokensUnshared
  <2>1. k # l /\ j # l
    BY <1>5
  <2>2. v4'[k] = "ended" \/ (v4[k] = v4[j] /\ v4'[k] = v4[k])
    BY <1>5, <2>1
  <2>3. v4[k] = v4[j] => v4[k] \notin Tokens
    BY DEF Auth!Inductive, Auth!TokensUnshared
  <2> QED
    BY <2>2, <2>3, AuthAssumption
<1>8. Auth!ExpiresAfterUse'
  <2> SUFFICES ASSUME NEW s \in Tokens, v2'[s] # None
               PROVE  v5'[s] # None /\ v5'[s] <= v3' /\ v2'[s] = v5'[s] + TTL
    BY DEF Auth!ExpiresAfterUse
  <2>1. CASE s = t
    <3>1. v2'[t] = v3 + TTL /\ v5'[t] = v3
      BY <1>1 DEF Auth!Issue, Auth!Inductive, Auth!TypeOK
    <3>2. v3 # None /\ v3 <= v3
      BY <1>2, AuthAssumption, SMTT(30)
    <3> QED
      BY <2>1, <3>1, <3>2
  <2>2. CASE s # t
    <3>1. v2'[s] = Auth!Unexpired[s] /\ v5'[s] = v5[s]
      BY <1>1, <2>2 DEF Auth!Issue, Auth!Inductive, Auth!TypeOK
    <3> QED
      BY <3>1, UnexpiredFacts DEF Auth!Inductive, Auth!ExpiresAfterUse
  <2> QED
    BY <2>1, <2>2
<1>9. Auth!ClosedForgets' /\ Auth!IdleExpires'
  BY DEF Auth!ClosedForgets, Auth!IdleExpires, Auth!Inductive
<1> QED
  BY <1>6, <1>7, <1>8, <1>9 DEF Auth!Inductive

(* Every step of a login keeps the invariant. *)
LEMMA AuthLogin ==
    ASSUME Auth!Inductive, NEW l \in Logins,
           \/ Auth!LoginBegin(l) \/ Auth!WrongPassword(l)
           \/ \E t \in Tokens : Auth!LoginIssue(l, t)
    PROVE  Auth!Inductive'
<1>1. ASSUME UNCHANGED <<v1, v2, v3, v5>>, v6' = None,
             \E s \in {"idle", "comparing", "ended"} : v4' = [v4 EXCEPT ![l] = s]
      PROVE  Auth!Inductive'
  <2>1. \A k \in Logins : v4'[k] = v4[k] \/ v4'[k] \in {"idle", "comparing", "ended"}
    BY <1>1 DEF Auth!Inductive, Auth!TypeOK
  <2>2. Auth!TypeOK'
    BY <1>1 DEF Auth!Inductive, Auth!TypeOK
  <2> QED
    BY <1>1, <2>1, <2>2, UnsharedKept
    DEF Auth!Inductive, Auth!ClosedForgets, Auth!IdleExpires, Auth!ExpiresAfterUse
<1>2. CASE Auth!LoginBegin(l) \/ Auth!WrongPassword(l)
  BY <1>1, <1>2 DEF Auth!LoginBegin, Auth!WrongPassword
<1>3. ASSUME NEW t \in Tokens, Auth!LoginIssue(l, t) PROVE Auth!Inductive'
  <2>1. CASE v1
    BY <1>1, <1>3, <2>1 DEF Auth!LoginIssue
  <2>2. CASE ~v1 /\ Auth!Unexpired[t] # None
    <3>1. v2' = Auth!Unexpired /\ v6' = None /\ UNCHANGED <<v1, v3, v4, v5>>
      BY <1>3, <2>2 DEF Auth!LoginIssue
    <3>2. Auth!TypeOK'
      BY <3>1, UnexpiredFacts DEF Auth!Inductive, Auth!TypeOK
    <3>3. Auth!ExpiresAfterUse'
      BY <3>1, UnexpiredFacts DEF Auth!Inductive, Auth!ExpiresAfterUse
    <3> QED
      BY <2>2, <3>1, <3>2, <3>3, UnsharedKept
      DEF Auth!Inductive, Auth!ClosedForgets, Auth!IdleExpires
  <2>3. CASE ~v1 /\ Auth!Unexpired[t] = None
    BY <1>3, <2>3, AuthIssue DEF Auth!LoginIssue
  <2> QED
    BY <2>1, <2>2, <2>3
<1> QED
  BY <1>2, <1>3

(* A token that is used was within its time, and stays within it. *)
LEMMA AuthAuthenticate ==
    ASSUME Auth!Inductive, NEW t \in Tokens, NEW renew \in BOOLEAN, Auth!Authenticate(t, renew)
    PROVE  Auth!Inductive'
<1>1. UNCHANGED <<v1, v3, v4>>
  BY DEF Auth!Authenticate
<1>2. Auth!TokensUnshared'
  BY <1>1, UnsharedKept
<1>3. CASE v1
  <2>1. v6' = None /\ UNCHANGED <<v2, v5>>
    BY <1>3 DEF Auth!Authenticate
  <2> QED
    BY <1>1, <1>2, <2>1
    DEF Auth!Inductive, Auth!TypeOK, Auth!ClosedForgets, Auth!IdleExpires, Auth!ExpiresAfterUse
<1>4. CASE ~v1 /\ Auth!Unexpired[t] = None
  <2>1. v2' = Auth!Unexpired /\ v6' = None /\ UNCHANGED v5
    BY <1>4 DEF Auth!Authenticate
  <2>2. Auth!TypeOK'
    BY <1>1, <2>1, UnexpiredFacts DEF Auth!Inductive, Auth!TypeOK
  <2>3. Auth!ExpiresAfterUse'
    BY <1>1, <2>1, UnexpiredFacts DEF Auth!Inductive, Auth!ExpiresAfterUse
  <2> QED
    BY <1>1, <1>2, <1>4, <2>1, <2>2, <2>3 DEF Auth!Inductive, Auth!ClosedForgets, Auth!IdleExpires
<1>5. CASE ~v1 /\ Auth!Unexpired[t] # None
  <2>1. /\ v2' = Auth!Renewed(t, renew) /\ v6' = t
        /\ v5' = IF renew THEN [v5 EXCEPT ![t] = v3] ELSE v5
    BY <1>5 DEF Auth!Authenticate
  <2>2. /\ v2[t] # None /\ v3 < v2[t]
        /\ v5[t] # None /\ v5[t] <= v3 /\ v2[t] = v5[t] + TTL
    BY <1>5, UnexpiredFacts DEF Auth!Inductive, Auth!ExpiresAfterUse
  <2>3. v3 \in 0..MaxTime /\ v3 + TTL \in 0..(MaxTime + TTL) /\ v3 # None /\ v3 <= v3
    BY AuthAssumption, SMTT(30) DEF Auth!Inductive, Auth!TypeOK
  <2>4. Auth!TypeOK'
    BY <1>1, <2>1, <2>3, UnexpiredFacts DEF Auth!Inductive, Auth!TypeOK, Auth!Renewed
  <2>5. Auth!ExpiresAfterUse'
    <3> SUFFICES ASSUME NEW s \in Tokens, v2'[s] # None
                 PROVE  v5'[s] # None /\ v5'[s] <= v3' /\ v2'[s] = v5'[s] + TTL
      BY DEF Auth!ExpiresAfterUse
    <3>1. CASE s = t /\ renew
      BY <1>1, <2>1, <2>3, <3>1, UnexpiredFacts DEF Auth!Renewed, Auth!Inductive, Auth!TypeOK
    <3>2. CASE ~(s = t /\ renew)
      <4>1. v2'[s] = Auth!Unexpired[s] /\ v5'[s] = v5[s]
        BY <2>1, <3>2, UnexpiredFacts DEF Auth!Renewed, Auth!Inductive, Auth!TypeOK
      <4> QED
        BY <1>1, <4>1, UnexpiredFacts DEF Auth!Inductive, Auth!ExpiresAfterUse
    <3> QED
      BY <3>1, <3>2
  <2>6. v5'[t] # None /\ v3 < v5'[t] + TTL
    <3>1. CASE renew
      <4>1. v5'[t] = v3
        BY <2>1, <3>1 DEF Auth!Inductive, Auth!TypeOK
      <4>2. v5[t] \in 0..MaxTime
        BY <2>2 DEF Auth!Inductive, Auth!TypeOK
      <4>3. TTL > 0
        BY <2>2, <2>3, <4>2, AuthAssumption, SMTT(30)
      <4> QED
        BY <2>3, <4>1, <4>3, AuthAssumption, SMTT(30)
    <3>2. CASE ~renew
      BY <2>1, <2>2, <3>2
    <3> QED
      BY <3>1, <3>2
  <2> QED
    BY <1>1, <1>2, <1>5, <2>1, <2>4, <2>5, <2>6 DEF Auth!Inductive, Auth!ClosedForgets, Auth!IdleExpires
<1> QED
  BY <1>3, <1>4, <1>5

(* Every step of the service keeps the invariant. *)
LEMMA AuthNext == Auth!Inductive /\ Auth!Next => Auth!Inductive'
<1> SUFFICES ASSUME Auth!Inductive, Auth!Next PROVE Auth!Inductive'
  OBVIOUS
<1>1. CASE Auth!Close
  <2>1. v1' = TRUE /\ v2' = [t \in Tokens |-> None] /\ v6' = None /\ UNCHANGED <<v3, v4, v5>>
    BY <1>1 DEF Auth!Close
  <2>2. Auth!TypeOK'
    BY <2>1 DEF Auth!Inductive, Auth!TypeOK
  <2>3. Auth!TokensUnshared'
    BY <2>1, UnsharedKept
  <2> QED
    BY <2>1, <2>2, <2>3
    DEF Auth!Inductive, Auth!ClosedForgets, Auth!IdleExpires, Auth!ExpiresAfterUse
<1>2. CASE Auth!Tick
  <2>1. v3 < MaxTime /\ v3' = v3 + 1 /\ v6' = None /\ UNCHANGED <<v1, v2, v4, v5>>
    BY <1>2 DEF Auth!Tick
  <2>2. v3' \in 0..MaxTime /\ \A n \in 0..MaxTime : n <= v3 => n <= v3'
    BY <2>1, AuthAssumption, SMTT(30) DEF Auth!Inductive, Auth!TypeOK
  <2>3. Auth!TypeOK'
    BY <2>1, <2>2 DEF Auth!Inductive, Auth!TypeOK
  <2>4. Auth!ExpiresAfterUse'
    <3> SUFFICES ASSUME NEW t \in Tokens, v2[t] # None
                 PROVE  v5[t] # None /\ v5[t] <= v3' /\ v2[t] = v5[t] + TTL
      BY <2>1 DEF Auth!ExpiresAfterUse
    <3>1. v5[t] # None /\ v5[t] <= v3 /\ v2[t] = v5[t] + TTL
      BY DEF Auth!Inductive, Auth!ExpiresAfterUse
    <3>2. v5[t] \in 0..MaxTime
      BY <3>1 DEF Auth!Inductive, Auth!TypeOK
    <3> QED
      BY <2>2, <3>1, <3>2
  <2>5. Auth!TokensUnshared'
    BY <2>1, UnsharedKept
  <2> QED
    BY <2>1, <2>3, <2>4, <2>5 DEF Auth!Inductive, Auth!ClosedForgets, Auth!IdleExpires
<1>3. ASSUME NEW t \in Tokens, Auth!Revoke(t) PROVE Auth!Inductive'
  <2>1. /\ v6' = None /\ UNCHANGED <<v1, v3>>
        /\ \A l \in Logins : v4'[l] = v4[l] \/ v4'[l] \in {"idle", "comparing", "ended"}
    BY <1>3 DEF Auth!Revoke
  <2>2. Auth!TypeOK'
    <3>1. v2' \in [Tokens -> 0..(MaxTime + TTL) \cup {None}]
      BY <1>3, UnexpiredFacts DEF Auth!Revoke, Auth!Inductive, Auth!TypeOK
    <3>2. v5' \in [Tokens -> 0..MaxTime \cup {None}]
      BY <1>3 DEF Auth!Revoke, Auth!Inductive, Auth!TypeOK
    <3>3. v4' \in [Logins -> {"idle", "comparing", "ended"} \cup Tokens]
      BY <1>3 DEF Auth!Revoke, Auth!Inductive, Auth!TypeOK
    <3> QED
      BY <2>1, <3>1, <3>2, <3>3 DEF Auth!Inductive, Auth!TypeOK
  <2>3. Auth!ExpiresAfterUse'
    <3> SUFFICES ASSUME NEW s \in Tokens, v2'[s] # None
                 PROVE  v5'[s] # None /\ v5'[s] <= v3 /\ v2'[s] = v5'[s] + TTL
      BY <2>1 DEF Auth!ExpiresAfterUse
    <3>1. v2[s] # None /\ v2'[s] = v2[s] /\ v5'[s] = v5[s]
      BY <1>3, UnexpiredFacts DEF Auth!Revoke, Auth!Inductive, Auth!TypeOK
    <3> QED
      BY <3>1 DEF Auth!Inductive, Auth!ExpiresAfterUse
  <2>4. Auth!ClosedForgets'
    <3>1. v1' => v1 /\ v2' = v2
      BY <1>3 DEF Auth!Revoke
    <3> QED
      BY <3>1 DEF Auth!Inductive, Auth!ClosedForgets
  <2> QED
    BY <2>1, <2>2, <2>3, <2>4, UnsharedKept DEF Auth!Inductive, Auth!IdleExpires
<1> QED
  BY <1>1, <1>2, <1>3, AuthLogin, AuthAuthenticate DEF Auth!Next

-----------------------------------------------------------------------------
(* The parts together *)

(* Whichever part was chosen starts in its invariant, *)
LEMMA StreamStart ==
    ASSUME Counting, StreamInit
    PROVE  StreamInductive
BY StrmInit, FetchInit, AuthInit DEF StreamInit, StreamInductive

(* and keeps it, *)
LEMMA StreamStep ==
    ASSUME Counting, StreamInductive, StreamNext
    PROVE  StreamInductive' /\ (component = "strm" => Strm!ActsOnNewer)
<1> USE DEF StreamInductive
<1>1. CASE component = "strm" /\ Strm!Next /\ UNCHANGED <<component, rest6>>
  BY <1>1, StrmNext
<1>2. CASE component = "fetch" /\ Fetch!Next /\ UNCHANGED <<component, rest7>>
  BY <1>2, FetchNext
<1>3. CASE component = "auth" /\ Auth!Next /\ UNCHANGED <<component, rest6>>
  BY <1>3, AuthNext
<1> QED
  BY <1>1, <1>2, <1>3 DEF StreamNext

(* a step of none of its parts included. *)
LEMMA StreamStutter ==
    ASSUME StreamInductive, UNCHANGED vars
    PROVE  StreamInductive' /\ (component = "strm" => Strm!ActsOnNewer)
<1>1. UNCHANGED <<component, v1, v2, v3, v4, v5, v6, v7>>
  BY DEF vars
<1>2. component = "strm" => Strm!Inductive'
  BY <1>1 DEF StreamInductive, Strm!Inductive, Strm!TypeOK, Strm!CacheSound, Strm!ReadSound,
     Strm!AnswerSound, Strm!PlaceholdersOwned, Strm!EntriesSound, Strm!ProjectionFresh
<1>3. component = "strm" => Strm!ActsOnNewer
  <2>1. component = "strm" => v6 \in Nat
    BY DEF StreamInductive, Strm!Inductive, Strm!TypeOK
  <2> QED
    BY <1>1, <2>1, SMTT(30) DEF Strm!ActsOnNewer
<1>4. component = "fetch" => Fetch!Inductive'
  BY <1>1, FetchStutter DEF StreamInductive, Fetch!vars
<1>5. component = "auth" => Auth!Inductive'
  BY <1>1 DEF StreamInductive, Auth!Inductive, Auth!TypeOK, Auth!ClosedForgets,
     Auth!TokensUnshared, Auth!IdleExpires, Auth!ExpiresAfterUse
<1> QED
  BY <1>1, <1>2, <1>3, <1>4, <1>5 DEF StreamInductive

(* The invariant gives what the parts promise. *)
LEMMA StreamSafe ==
    ASSUME Counting, StreamInductive
    PROVE  StreamTypeOK /\ LinksFresh /\ FlightsShared /\ TokensOwned
BY StrmSafe, FetchSafe
DEF StreamInductive, StreamTypeOK, LinksFresh, FlightsShared, TokensOwned,
    Fetch!Inductive, Auth!Inductive

=============================================================================
