-------------------------- MODULE PieceStoreProofs --------------------------
(***************************************************************************)
(* Proofs that, for any torrents, pieces and activities of the client, only *)
(* pieces whose hash matched become resident, no read is served the zero    *)
(* fill, nothing of a closed torrent is left, and what is left over from an *)
(* ended lifetime harms no later one.                                       *)
(*                                                                          *)
(* The heart of the inductive invariant is VerifiedIsGood.  WriteTo records *)
(* a generation as verified whether or not the hash matches, so a verified  *)
(* buffer may be bad; but then the activity that hashed it has yet to reset *)
(* it, and until it has, no other one can be hashing the piece or about to  *)
(* promote it.                                                              *)
(***************************************************************************)
EXTENDS PieceStore, TLAPS

USE ZenonT(40)

(* A torrent is open in the store exactly while the session has it open.     *)
LivesOK ==
    \A t \in Torrents :
        /\ torrents[t] # 0 <=> phase[t] = "open"
        /\ torrents[t] \in {0, lives[t]}
        /\ \A n \in 0 .. MaxLives : <<t, n>> \in closedLives => 0 < n /\ n <= lives[t] /\ n # torrents[t]
        /\ closed => phase[t] = "closed"

(* The store keeps nothing of a torrent that is not open, and the cache      *)
(* nothing of one that is closed.                                            *)
ClosedIsEmpty ==
    \A k \in Keys :
        /\ phase[k[1]] # "open" =>
             /\ staging[k] = None
             /\ lastRead[k] = 0 /\ epochs[k] = 0 /\ verifiedEpoch[k] = 0
        /\ phase[k[1]] = "closed" => content[k] = None

(* An activity works on a piece, in a lifetime its torrent has had.          *)
BusyHasPiece ==
    \A a \in Agents : agent[a].op # "idle" => agent[a].key \in Keys /\ agent[a].life # 0

(* The client hashes a piece once at a time, until the piece is marked.      *)
HashOps == {"hash", "passed", "failed", "complete"}

HashesApart ==
    \A a, b \in Agents :
        /\ a # b
        /\ agent[a].op \in HashOps /\ agent[b].op \in HashOps
        /\ agent[a].key = agent[b].key
        => agent[a].life # agent[b].life

(* What a hash has been given comes from the buffer of its generation, if    *)
(* that is still there.                                                      *)
SeenAt(a) ==
    agent[a].op = "hash" =>
        LET k == agent[a].key
        IN  staging[k] # None /\ staging[k].generation = agent[a].gen =>
              \A i \in 1 .. Len(agent[a].seen) : agent[a].seen[i] = staging[k].data[i]

SeenIsStaged == \A a \in Agents : SeenAt(a)

(* the activity works on piece k in the current lifetime of its torrent *)
Current(a, k) == agent[a].key = k /\ agent[a].life = torrents[k[1]]

(* A verified buffer is complete; and it is good, or the hash that found it  *)
(* is not has yet to reset it, and nobody else may promote it.               *)
VerifiedAt(k) ==
    staging[k] # None /\ staging[k].generation = verifiedEpoch[k] =>
        /\ Covers(staging[k], Chunks)
        /\ \/ staging[k].data = AllGood
           \/ /\ \E b \in Agents : /\ agent[b].op \in {"failed", "incomplete"}
                                   /\ Current(b, k) /\ agent[b].gen = staging[k].generation
              /\ \A a \in Agents : agent[a].op \in {"hash", "passed", "complete"} => ~Current(a, k)

VerifiedIsGood == \A k \in Keys : VerifiedAt(k)

IInv ==
    /\ TypeOK /\ LivesOK /\ ClosedIsEmpty /\ BusyHasPiece /\ HashesApart
    /\ SeenIsStaged /\ VerifiedIsGood /\ OnlyVerifiedResident /\ NoZeroFillServed

-----------------------------------------------------------------------------
(* TypeOK by what the actions change together: lifetimes, pieces, activities *)
LifeTypes ==
    /\ torrents \in [Torrents -> 0 .. MaxLives]
    /\ lives \in [Torrents -> 0 .. MaxLives]
    /\ closedLives \subseteq Torrents \X (0 .. MaxLives)
    /\ closed \in BOOLEAN
    /\ phase \in [Torrents -> {"closed", "open", "closing"}]

PieceTypes ==
    /\ staging \in [Keys -> {None} \cup Buffers]
    /\ lastRead \in [Keys -> 0 .. MaxGeneration]
    /\ epochs \in [Keys -> 0 .. MaxGeneration]
    /\ verifiedEpoch \in [Keys -> 0 .. MaxGeneration]
    /\ nextGeneration \in 0 .. MaxGeneration
    /\ content \in [Keys -> {None} \cup Data]

AgentTypes ==
    /\ agent \in [Agents -> Activities]
    /\ \A a \in Agents : Len(agent[a].seen) <= NumChunks

(* TypeOK is these three and the agreement of the generations. *)
LEMMA TypeParts ==
    /\ TypeOK <=> LifeTypes /\ PieceTypes /\ AgentTypes /\ GenerationsAgree
    /\ TypeOK' <=> LifeTypes' /\ PieceTypes' /\ AgentTypes' /\ GenerationsAgree'
BY DEF TypeOK, LifeTypes, PieceTypes, AgentTypes

(* A key is a torrent and a piece. *)
LEMMA KeyFacts ==
    /\ \A k \in Keys : k[1] \in Torrents
    /\ \A t \in Torrents : KeysOf(t) \subseteq Keys
    /\ \A t \in Torrents, k \in Keys : k \in KeysOf(t) <=> k[1] = t
BY DEF Keys, KeysOf

(* An idle activity is one. *)
LEMMA IdleFacts ==
    /\ Idle \in Activities /\ Idle.op = "idle" /\ Idle.gen = 0 /\ Idle.seen = << >>
BY StoreAssumption, SMTT(30) DEF Idle, Activities

(* Initially there is nothing. *)
LEMMA InitIInv == Init => IInv
<1> SUFFICES ASSUME Init PROVE IInv
  OBVIOUS
<1>1. LifeTypes
  <2>1. closed \in BOOLEAN
    BY DEF Init
  <2> QED
    BY <2>1, StoreAssumption, SMTT(30) DEF Init, LifeTypes
<1>2. LivesOK
  <2>1. closed = FALSE /\ closedLives = {}
    BY DEF Init
  <2>2. \A t \in Torrents : torrents[t] = 0 /\ phase[t] = "closed"
    BY DEF Init
  <2> QED
    BY <2>1, <2>2 DEF LivesOK
<1>3. PieceTypes /\ ClosedIsEmpty /\ VerifiedIsGood /\ OnlyVerifiedResident
  BY StoreAssumption, KeyFacts, SMTT(30)
     DEF Init, Cache!Init, PieceTypes, ClosedIsEmpty, VerifiedIsGood, VerifiedAt, OnlyVerifiedResident
<1>4. AgentTypes /\ BusyHasPiece /\ HashesApart /\ SeenIsStaged /\ NoZeroFillServed
  BY StoreAssumption, IdleFacts, SMTT(30)
     DEF Init, AgentTypes, BusyHasPiece, HashesApart, HashOps, SeenIsStaged, SeenAt, NoZeroFillServed
<1>5. GenerationsAgree
  BY StoreAssumption, IdleFacts, SMTT(30) DEF Init, GenerationsAgree
<1> QED
  BY <1>1, <1>3, <1>4, <1>5, <1>2, TypeParts DEF IInv

-----------------------------------------------------------------------------
(* Steps of the session and of the cache, which leave the activities alone   *)

(* What such a step does to a piece is to forget its buffer, or nothing.     *)
Forgets(k) ==
    \/ staging'[k] = None
    \/ /\ staging'[k] = staging[k] /\ verifiedEpoch'[k] = verifiedEpoch[k]
       /\ torrents'[k[1]] = torrents[k[1]]

(* The invariants about activities survive such a step. *)
LEMMA ForgetsKeeps ==
    ASSUME IInv, agent' = agent, \A k \in Keys : Forgets(k)
    PROVE  /\ AgentTypes' /\ BusyHasPiece' /\ HashesApart' /\ NoZeroFillServed'
           /\ SeenIsStaged' /\ VerifiedIsGood'
<1>1. AgentTypes' /\ BusyHasPiece' /\ HashesApart' /\ NoZeroFillServed'
  BY TypeParts DEF IInv, AgentTypes, BusyHasPiece, HashesApart, NoZeroFillServed, HashOps
<1>2. SeenIsStaged'
  <2>1. SeenIsStaged /\ BusyHasPiece
    BY DEF IInv
  <2> SUFFICES ASSUME NEW a \in Agents PROVE SeenAt(a)'
    BY DEF SeenIsStaged
  <2>2. agent[a].op = "hash" => Forgets(agent[a].key)
    BY <2>1 DEF BusyHasPiece
  <2> QED
    BY <2>1, <2>2, SMTT(30) DEF SeenIsStaged, SeenAt, Forgets
<1>3. VerifiedIsGood'
  <2> SUFFICES ASSUME NEW k \in Keys, staging'[k] # None
               PROVE  VerifiedAt(k)'
    BY DEF VerifiedIsGood, VerifiedAt
  <2>1. /\ staging'[k] = staging[k] /\ verifiedEpoch'[k] = verifiedEpoch[k]
        /\ torrents'[k[1]] = torrents[k[1]]
    BY DEF Forgets
  <2>2. \A a \in Agents : Current(a, k)' <=> Current(a, k)
    BY <2>1 DEF Current
  <2> QED
    BY <2>1, <2>2 DEF IInv, VerifiedIsGood, VerifiedAt, Covers
<1> QED
  BY <1>1, <1>2, <1>3

(* OpenTorrent starts the next lifetime of a torrent of which nothing is left. *)
LEMMA OpenTorrentStep ==
    ASSUME IInv, NEW t \in Torrents, OpenTorrent(t)
    PROVE  IInv'
<1>1. /\ LifeTypes /\ PieceTypes /\ AgentTypes /\ GenerationsAgree
      /\ LivesOK /\ ClosedIsEmpty /\ OnlyVerifiedResident
  BY TypeParts DEF IInv
<1>2. /\ UNCHANGED <<staging, lastRead, epochs, verifiedEpoch, nextGeneration, content, agent>>
      /\ UNCHANGED <<closedLives, closed>>
      /\ ~closed /\ phase[t] = "closed" /\ lives[t] < MaxLives
      /\ torrents' = [torrents EXCEPT ![t] = lives[t] + 1]
      /\ lives' = [lives EXCEPT ![t] = lives[t] + 1]
      /\ phase' = [phase EXCEPT ![t] = "open"]
  BY DEF OpenTorrent, genVars
<1>3. LifeTypes'
  BY <1>1, <1>2, StoreAssumption, SMTT(30) DEF LifeTypes
<1>4. LivesOK'
  <2> SUFFICES ASSUME NEW u \in Torrents
               PROVE  /\ torrents'[u] # 0 <=> phase'[u] = "open"
                      /\ torrents'[u] \in {0, lives'[u]}
                      /\ \A n \in 0 .. MaxLives : <<u, n>> \in closedLives' => 0 < n /\ n <= lives'[u] /\ n # torrents'[u]
                      /\ closed' => phase'[u] = "closed"
    BY DEF LivesOK
  <2>1. CASE u = t
    BY <2>1, <1>1, <1>2, StoreAssumption, SMTT(30) DEF LifeTypes, LivesOK
  <2>2. CASE u # t
    BY <2>2, <1>1, <1>2, StoreAssumption DEF LifeTypes, LivesOK
  <2> QED
    BY <2>1, <2>2
<1>5. PieceTypes' /\ GenerationsAgree' /\ OnlyVerifiedResident'
  BY <1>1, <1>2 DEF PieceTypes, GenerationsAgree, OnlyVerifiedResident
<1>6. \A k \in Keys : k[1] # t => phase'[k[1]] = phase[k[1]] /\ torrents'[k[1]] = torrents[k[1]]
  BY <1>1, <1>2, KeyFacts DEF LifeTypes
<1>7. phase'[t] = "open"
  BY <1>1, <1>2 DEF LifeTypes
<1>8. ClosedIsEmpty'
  BY <1>1, <1>2, <1>6, <1>7 DEF ClosedIsEmpty
<1>9. \A k \in Keys : Forgets(k)
  BY <1>1, <1>2, <1>6 DEF ClosedIsEmpty, Forgets
<1> QED
  BY <1>2, <1>3, <1>4, <1>5, <1>8, <1>9, ForgetsKeeps, TypeParts DEF IInv

(* closeTorrentLocked of the current lifetime, together with its torrent's   *)
(* leaving the open phase, or of one that is over: it never reaches another  *)
(* torrent, nor another lifetime.                                            *)
LEMMA CloseLifecycleStep ==
    ASSUME IInv, NEW t \in Torrents, NEW n \in 1 .. MaxLives, n <= lives[t],
           CloseLifecycle(t, n),
           \/ torrents[t] = n /\ phase' = [phase EXCEPT ![t] = "closing"]
           \/ torrents[t] # n /\ phase' = phase
    PROVE  IInv'
<1>1. /\ LifeTypes /\ PieceTypes /\ AgentTypes /\ GenerationsAgree
      /\ LivesOK /\ ClosedIsEmpty /\ OnlyVerifiedResident
  BY TypeParts DEF IInv
<1>2. /\ closedLives' = closedLives \cup {<<t, n>>}
      /\ torrents' = IF torrents[t] = n THEN [torrents EXCEPT ![t] = 0] ELSE torrents
      /\ UNCHANGED <<lives, nextGeneration, closed, content, agent>>
  BY DEF CloseLifecycle
<1>3. /\ staging' \in [Keys -> {None} \cup Buffers]
      /\ lastRead' \in [Keys -> 0 .. MaxGeneration]
      /\ epochs' \in [Keys -> 0 .. MaxGeneration]
      /\ verifiedEpoch' \in [Keys -> 0 .. MaxGeneration]
      /\ \A k \in Keys :
           IF torrents[t] = n /\ k[1] = t
           THEN staging'[k] = None /\ lastRead'[k] = 0 /\ epochs'[k] = 0 /\ verifiedEpoch'[k] = 0
           ELSE /\ staging'[k] = staging[k] /\ lastRead'[k] = lastRead[k]
                /\ epochs'[k] = epochs[k] /\ verifiedEpoch'[k] = verifiedEpoch[k]
  <2> DEFINE gone == IF torrents[t] = n THEN KeysOf(t) ELSE {}
  <2>1. \A k \in Keys : k \in gone <=> torrents[t] = n /\ k[1] = t
    BY KeyFacts
  <2>2. /\ staging' = [k \in Keys |-> IF k \in gone THEN None ELSE staging[k]]
        /\ lastRead' = [k \in Keys |-> IF k \in gone THEN 0 ELSE lastRead[k]]
        /\ epochs' = [k \in Keys |-> IF k \in gone THEN 0 ELSE epochs[k]]
        /\ verifiedEpoch' = [k \in Keys |-> IF k \in gone THEN 0 ELSE verifiedEpoch[k]]
    BY DEF CloseLifecycle
  <2> HIDE DEF gone
  <2> QED
    BY <2>1, <2>2, <1>1, StoreAssumption, SMTT(30) DEF PieceTypes
<1>4. \A u \in Torrents : u # t \/ torrents[t] # n => phase'[u] = phase[u] /\ torrents'[u] = torrents[u]
  BY <1>1, <1>2 DEF LifeTypes
<1>5. torrents[t] = n => phase'[t] = "closing" /\ torrents'[t] = 0 /\ phase[t] = "open"
  BY <1>1, <1>2, SMTT(30) DEF LifeTypes, LivesOK
<1>6. LifeTypes'
  <2>1. torrents' \in [Torrents -> 0 .. MaxLives] /\ lives' \in [Torrents -> 0 .. MaxLives]
    BY <1>1, <1>2, StoreAssumption, SMTT(30) DEF LifeTypes
  <2>2. closedLives' \subseteq Torrents \X (0 .. MaxLives)
    BY <1>1, <1>2, StoreAssumption, SMTT(30) DEF LifeTypes
  <2>3. phase' \in [Torrents -> {"closed", "open", "closing"}]
    BY <1>1 DEF LifeTypes
  <2> QED
    BY <1>1, <1>2, <2>1, <2>2, <2>3 DEF LifeTypes
<1>7. LivesOK'
  <2> SUFFICES ASSUME NEW u \in Torrents
               PROVE  /\ torrents'[u] # 0 <=> phase'[u] = "open"
                      /\ torrents'[u] \in {0, lives'[u]}
                      /\ \A m \in 0 .. MaxLives : <<u, m>> \in closedLives' => 0 < m /\ m <= lives'[u] /\ m # torrents'[u]
                      /\ closed' => phase'[u] = "closed"
    BY DEF LivesOK
  <2>1. /\ torrents[u] # 0 <=> phase[u] = "open"
        /\ torrents[u] \in {0, lives[u]}
        /\ \A m \in 0 .. MaxLives : <<u, m>> \in closedLives => 0 < m /\ m <= lives[u] /\ m # torrents[u]
        /\ closed => phase[u] = "closed"
    BY <1>1 DEF LivesOK
  <2>2. CASE u = t /\ torrents[t] = n
    BY <2>1, <2>2, <1>2, <1>5, SMTT(30)
  <2>3. CASE u # t \/ torrents[t] # n
    BY <2>1, <2>3, <1>2, <1>4, SMTT(30)
  <2> QED
    BY <2>2, <2>3
<1>8. PieceTypes'
  BY <1>1, <1>2, <1>3 DEF PieceTypes
<1>9. GenerationsAgree'
  BY <1>1, <1>2, <1>3, StoreAssumption, SMTT(30) DEF PieceTypes, GenerationsAgree
<1>10. ClosedIsEmpty'
  BY <1>1, <1>2, <1>3, <1>4, <1>5, KeyFacts, SMTT(30) DEF ClosedIsEmpty
<1>11. OnlyVerifiedResident'
  BY <1>1, <1>2 DEF OnlyVerifiedResident
<1>12. \A k \in Keys : Forgets(k)
  BY <1>3, <1>4, KeyFacts DEF Forgets
<1> QED
  BY <1>2, <1>6, <1>7, <1>8, <1>9, <1>10, <1>11, <1>12, ForgetsKeeps, TypeParts DEF IInv

(* CloseTorrent is such a step. *)
LEMMA CloseTorrentStep ==
    ASSUME IInv, NEW t \in Torrents, CloseTorrent(t)
    PROVE  IInv'
<1>1. /\ torrents[t] \in 1 .. MaxLives /\ torrents[t] <= lives[t]
      /\ CloseLifecycle(t, torrents[t])
      /\ phase' = [phase EXCEPT ![t] = "closing"]
  BY TypeParts, StoreAssumption, SMTT(30) DEF IInv, LifeTypes, LivesOK, CloseTorrent
<1> QED
  BY <1>1, CloseLifecycleStep

(* The late TorrentImpl.Close of an earlier lifetime is such a step too. *)
LEMMA TorrentImplCloseStep ==
    ASSUME IInv, NEW t \in Torrents, NEW n \in 1 .. MaxLives, TorrentImplClose(t, n)
    PROVE  IInv' /\ n # torrents[t]
<1>1. n <= lives[t] /\ n # torrents[t] /\ CloseLifecycle(t, n) /\ phase' = phase
  BY TypeParts, StoreAssumption, SMTT(30) DEF IInv, LifeTypes, LivesOK, TorrentImplClose
<1> QED
  BY <1>1, CloseLifecycleStep

(* Only the lives of torrents may change under the pieces and activities. *)
LEMMA LivesKept ==
    ASSUME IInv, UNCHANGED lifeVars
    PROVE  LifeTypes' /\ LivesOK'
BY TypeParts DEF IInv, lifeVars, LifeTypes, LivesOK

(* InvalidateTorrent drops what the cache has of the torrent. *)
LEMMA InvalidateTorrentStep ==
    ASSUME IInv, NEW t \in Torrents, InvalidateTorrent(t)
    PROVE  IInv'
<1>1. /\ LifeTypes /\ PieceTypes /\ AgentTypes /\ GenerationsAgree
      /\ LivesOK /\ ClosedIsEmpty /\ OnlyVerifiedResident
  BY TypeParts DEF IInv
<1>2. /\ UNCHANGED <<staging, lastRead, epochs, verifiedEpoch, nextGeneration, agent>>
      /\ UNCHANGED <<torrents, lives, closedLives, closed>>
      /\ phase[t] = "closing" /\ phase' = [phase EXCEPT ![t] = "closed"]
      /\ content' = [k \in Keys |-> IF k \in KeysOf(t) THEN None ELSE content[k]]
  BY DEF InvalidateTorrent, genVars, Cache!Lose
<1>3. LifeTypes'
  BY <1>1, <1>2 DEF LifeTypes
<1>4. LivesOK'
  BY <1>1, <1>2 DEF LifeTypes, LivesOK
<1>5. PieceTypes' /\ GenerationsAgree' /\ OnlyVerifiedResident'
  BY <1>1, <1>2 DEF PieceTypes, GenerationsAgree, OnlyVerifiedResident
<1>6. ClosedIsEmpty'
  BY <1>1, <1>2, KeyFacts DEF LifeTypes, ClosedIsEmpty
<1>7. \A k \in Keys : Forgets(k)
  BY <1>2 DEF Forgets
<1> QED
  BY <1>2, <1>3, <1>4, <1>5, <1>6, <1>7, ForgetsKeeps, TypeParts DEF IInv

(* Close ends what is left, which is nothing: every torrent is closed. *)
LEMMA CloseStep ==
    ASSUME IInv, Close
    PROVE  IInv'
<1>1. /\ LifeTypes /\ PieceTypes /\ AgentTypes /\ GenerationsAgree
      /\ LivesOK /\ ClosedIsEmpty /\ OnlyVerifiedResident
  BY TypeParts DEF IInv
<1>2. /\ \A t \in Torrents : phase[t] = "closed"
      /\ closed' = TRUE
      /\ closedLives' = closedLives \cup {<<t, torrents[t]>> : t \in {u \in Torrents : torrents[u] # 0}}
      /\ torrents' = [t \in Torrents |-> 0]
      /\ staging' = [k \in Keys |-> None]
      /\ lastRead' = [k \in Keys |-> 0]
      /\ epochs' = [k \in Keys |-> 0]
      /\ verifiedEpoch' = [k \in Keys |-> 0]
      /\ UNCHANGED <<lives, nextGeneration, content, phase, agent>>
  BY DEF Close
<1>3. \A t \in Torrents : torrents[t] = 0
  BY <1>1, <1>2 DEF LivesOK
<1>4. closedLives' = closedLives
  <2>1. {u \in Torrents : torrents[u] # 0} = {}
    BY <1>3
  <2> QED
    BY <2>1, <1>2
<1>5. LifeTypes'
  <2>1. closed' \in BOOLEAN
    BY <1>2
  <2> QED
    BY <1>1, <1>2, <1>4, <2>1, StoreAssumption, SMTT(30) DEF LifeTypes
<1>6. LivesOK'
  BY <1>1, <1>2, <1>3, <1>4 DEF LivesOK
<1>7. PieceTypes'
  BY <1>1, <1>2, StoreAssumption, SMTT(30) DEF PieceTypes
<1>8. GenerationsAgree'
  BY <1>1, <1>2, StoreAssumption, SMTT(30) DEF PieceTypes, GenerationsAgree
<1>9. ClosedIsEmpty' /\ OnlyVerifiedResident'
  BY <1>1, <1>2, KeyFacts DEF ClosedIsEmpty, OnlyVerifiedResident
<1>10. \A k \in Keys : Forgets(k)
  BY <1>2 DEF Forgets
<1> QED
  BY <1>2, <1>5, <1>6, <1>7, <1>8, <1>9, <1>10, ForgetsKeeps, TypeParts DEF IInv

(* The cache may lose anything, and a reader's put stores a verified piece.  *)
LEMMA EvictStep ==
    ASSUME IInv, Evict
    PROVE  IInv'
<1>1. /\ LifeTypes /\ PieceTypes /\ AgentTypes /\ GenerationsAgree
      /\ LivesOK /\ ClosedIsEmpty /\ OnlyVerifiedResident
  BY TypeParts DEF IInv
<1>2. PICK lost \in SUBSET Keys :
         /\ content' = [k \in Keys |-> IF k \in lost THEN None ELSE content[k]]
         /\ UNCHANGED <<lifeVars, staging, genVars, agent>>
  BY DEF Evict, Cache!Lose
<1>3. /\ UNCHANGED <<staging, lastRead, epochs, verifiedEpoch, nextGeneration, agent>>
      /\ UNCHANGED <<torrents, phase>> /\ UNCHANGED lifeVars
  BY <1>2 DEF genVars, lifeVars
<1>4. PieceTypes' /\ OnlyVerifiedResident' /\ ClosedIsEmpty'
  BY <1>1, <1>2, <1>3 DEF PieceTypes, OnlyVerifiedResident, ClosedIsEmpty
<1>5. GenerationsAgree'
  BY <1>1, <1>3 DEF GenerationsAgree
<1>6. \A k \in Keys : Forgets(k)
  BY <1>3 DEF Forgets
<1> QED
  BY <1>3, <1>4, <1>6, <1>5, LivesKept, ForgetsKeeps, TypeParts DEF IInv

(* The invariant is kept when a fetched piece is put into the cache. *)
LEMMA FetchedPutStep ==
    ASSUME IInv, NEW j \in Keys, FetchedPut(j)
    PROVE  IInv'
<1>1. /\ LifeTypes /\ PieceTypes /\ AgentTypes /\ GenerationsAgree
      /\ LivesOK /\ ClosedIsEmpty /\ OnlyVerifiedResident
  BY TypeParts DEF IInv
<1>2. PICK lost \in SUBSET Keys :
         content' = [k \in Keys |-> IF k \in lost THEN None ELSE IF k = j THEN AllGood ELSE content[k]]
  BY DEF FetchedPut, Cache!Store
<1>3. /\ UNCHANGED <<staging, lastRead, epochs, verifiedEpoch, nextGeneration, agent>>
      /\ UNCHANGED <<torrents, phase>> /\ UNCHANGED lifeVars
      /\ phase[j[1]] = "open"
  BY DEF genVars, lifeVars, FetchedPut
<1>4. AllGood \in Data
  BY DEF AllGood, Data, Received
<1>5. PieceTypes' /\ OnlyVerifiedResident' /\ ClosedIsEmpty'
  BY <1>1, <1>2, <1>3, <1>4 DEF PieceTypes, OnlyVerifiedResident, ClosedIsEmpty
<1>6. GenerationsAgree'
  BY <1>1, <1>3 DEF GenerationsAgree
<1>7. \A k \in Keys : Forgets(k)
  BY <1>3 DEF Forgets
<1> QED
  BY <1>3, <1>5, <1>7, <1>6, LivesKept, ForgetsKeeps, TypeParts DEF IInv

-----------------------------------------------------------------------------
(* Steps of an activity *)

(* An activity that goes on with its piece, or becomes idle, keeps the       *)
(* invariants about activities alone.                                        *)
LEMMA GoesOn ==
    ASSUME IInv, NEW a \in Agents, NEW x \in Activities,
           agent' = [agent EXCEPT ![a] = x],
           Len(x.seen) <= NumChunks, \A i \in 1 .. Len(x.seen) : x.seen[i] # "zero",
           x.op # "idle" => agent[a].op # "idle" /\ x.key = agent[a].key /\ x.life = agent[a].life,
           x.op \in HashOps => agent[a].op \in HashOps
    PROVE  /\ AgentTypes' /\ BusyHasPiece' /\ HashesApart' /\ NoZeroFillServed'
           /\ agent'[a] = x /\ \A b \in Agents : b # a => agent'[b] = agent[b]
<1>1. AgentTypes /\ BusyHasPiece /\ HashesApart /\ NoZeroFillServed
  BY TypeParts DEF IInv
<1>2. agent'[a] = x /\ \A b \in Agents : b # a => agent'[b] = agent[b]
  BY <1>1 DEF AgentTypes
<1>3. AgentTypes'
  BY <1>1, <1>2 DEF AgentTypes
<1>4. BusyHasPiece'
  BY <1>1, <1>2, SMTT(30) DEF BusyHasPiece
<1>5. HashesApart'
  <2>1. \A b \in Agents : agent'[b].op \in HashOps =>
           /\ agent[b].op \in HashOps
           /\ agent'[b].key = agent[b].key /\ agent'[b].life = agent[b].life
    BY <1>2 DEF HashOps
  <2> SUFFICES ASSUME NEW b \in Agents, NEW c \in Agents, b # c,
                      agent'[b].op \in HashOps, agent'[c].op \in HashOps,
                      agent'[b].key = agent'[c].key
               PROVE  agent'[b].life # agent'[c].life
    BY DEF HashesApart, HashOps
  <2> QED
    BY <2>1, <1>1, SMTT(30) DEF HashesApart
<1>6. NoZeroFillServed'
  BY <1>1, <1>2, SMTT(30) DEF NoZeroFillServed
<1> QED
  BY <1>2, <1>3, <1>4, <1>5, <1>6

(* A buffer stays good, or in the hands of the activity that found it is     *)
(* not, while it is not touched, none starts to hash it and that activity    *)
(* does not forget it.                                                       *)
LEMMA VerifiedKept ==
    ASSUME IInv, NEW a \in Agents, NEW k \in Keys,
           staging'[k] = staging[k], verifiedEpoch'[k] = verifiedEpoch[k], torrents' = torrents,
           \A b \in Agents : b # a => agent'[b] = agent[b],
           agent'[a].op \in {"hash", "passed", "complete"} =>
             /\ agent[a].op \in {"hash", "passed", "complete"}
             /\ agent'[a].key = agent[a].key /\ agent'[a].life = agent[a].life,
           /\ agent[a].op \in {"failed", "incomplete"} /\ Current(a, k)
           /\ staging[k] # None /\ agent[a].gen = staging[k].generation
           => /\ agent'[a].op \in {"failed", "incomplete"}
              /\ agent'[a].key = agent[a].key /\ agent'[a].life = agent[a].life
              /\ agent'[a].gen = agent[a].gen
    PROVE  VerifiedAt(k)'
<1> SUFFICES ASSUME staging'[k] # None, staging'[k].generation = verifiedEpoch'[k]
             PROVE  VerifiedAt(k)'
  BY DEF VerifiedAt
<1>1. VerifiedAt(k)
  BY DEF IInv, VerifiedIsGood
<1>2. Covers(staging[k], Chunks)' 
  BY <1>1 DEF VerifiedAt, Covers, Chunks
<1>3. CASE staging[k].data = AllGood
  BY <1>2, <1>3 DEF VerifiedAt, AllGood, Chunks
<1>4. CASE staging[k].data # AllGood
  <2>1. PICK b \in Agents : /\ agent[b].op \in {"failed", "incomplete"}
                            /\ Current(b, k) /\ agent[b].gen = staging[k].generation
    BY <1>1, <1>4 DEF VerifiedAt
  <2>2. \A c \in Agents : agent[c].op \in {"hash", "passed", "complete"} => ~Current(c, k)
    BY <1>1, <1>4 DEF VerifiedAt
  <2>3. /\ agent'[b].op \in {"failed", "incomplete"}
        /\ Current(b, k)' /\ agent'[b].gen = staging'[k].generation
    BY <2>1, SMTT(30) DEF Current
  <2>4. ASSUME NEW c \in Agents, agent'[c].op \in {"hash", "passed", "complete"} PROVE ~Current(c, k)'
    BY <2>2, <2>4, SMTT(30) DEF Current
  <2> QED
    BY <1>2, <2>3, <2>4 DEF VerifiedAt
<1> QED
  BY <1>3, <1>4

(* What the hashes of the others have been given does not change. *)
LEMMA SeenKept ==
    ASSUME IInv, NEW b \in Agents, agent'[b] = agent[b], staging' = staging
    PROVE  SeenAt(b)'
BY DEF IInv, SeenIsStaged, SeenAt

(* Continue as an assignment *)
LEMMA ContinueFacts ==
    ASSUME AgentTypes, NEW a \in Agents,
           NEW op \in {"idle", "passed", "failed"}, Continue(a, op)
    PROVE  \E x \in Activities :
             /\ agent' = [agent EXCEPT ![a] = x] /\ x.op = op
             /\ op = "idle" => x.seen = << >>
             /\ op # "idle" => /\ x.key = agent[a].key /\ x.life = agent[a].life
                               /\ x.gen = agent[a].gen /\ x.seen = agent[a].seen
             /\ x.gen <= agent[a].gen
<1>1. agent[a] \in Activities
  BY DEF AgentTypes
<1>2. CASE op = "idle"
  <2>1. agent' = [agent EXCEPT ![a] = Idle]
    BY <1>2 DEF Continue
  <2>2. Idle.gen <= agent[a].gen
    BY <1>1, IdleFacts, StoreAssumption, SMTT(30) DEF Activities
  <2> QED
    BY <1>2, <2>1, <2>2, IdleFacts
<1>3. CASE op # "idle"
  <2> DEFINE x == [agent[a] EXCEPT !.op = op]
  <2>1. agent' = [agent EXCEPT ![a] = x]
    BY <1>3 DEF Continue
  <2>2. x \in Activities /\ x.op = op /\ x.gen <= agent[a].gen
    BY <1>1, StoreAssumption, SMTT(30) DEF Activities
  <2>3. /\ x.key = agent[a].key /\ x.life = agent[a].life
        /\ x.gen = agent[a].gen /\ x.seen = agent[a].seen
    BY <1>1 DEF Activities
  <2> HIDE DEF x
  <2> QED
    BY <1>3, <2>1, <2>2, <2>3
<1> QED
  BY <1>2, <1>3

(* The invariants about the store's maps hold when only the activities       *)
(* change and no generation appears that was not handed out.                 *)
LEMMA StoreKept ==
    ASSUME IInv, NEW a \in Agents, UNCHANGED <<lifeVars, staging, genVars, content>>,
           \A b \in Agents : b # a => agent'[b] = agent[b],
           agent'[a].gen <= nextGeneration
    PROVE  /\ LifeTypes' /\ LivesOK' /\ PieceTypes' /\ GenerationsAgree'
           /\ ClosedIsEmpty' /\ OnlyVerifiedResident'
<1>1. /\ PieceTypes /\ GenerationsAgree /\ ClosedIsEmpty /\ OnlyVerifiedResident
  BY TypeParts DEF IInv
<1>2. /\ UNCHANGED <<staging, lastRead, epochs, verifiedEpoch, nextGeneration, content, phase>>
      /\ UNCHANGED lifeVars
  BY DEF genVars, lifeVars
<1>3. LifeTypes' /\ LivesOK'
  BY <1>2, LivesKept
<1>4. PieceTypes' /\ ClosedIsEmpty' /\ OnlyVerifiedResident'
  BY <1>1, <1>2 DEF PieceTypes, ClosedIsEmpty, OnlyVerifiedResident
<1>5. GenerationsAgree'
  BY <1>1, <1>2 DEF GenerationsAgree
<1> QED
  BY <1>3, <1>4, <1>5

(* The piece of an activity in a current lifetime is one of an open torrent. *)
LEMMA OpenFacts ==
    ASSUME IInv, NEW a \in Agents, agent[a].op # "idle"
    PROVE  /\ agent[a].key \in Keys /\ agent[a].key[1] \in Torrents
           /\ Open(a) => /\ Current(a, agent[a].key) /\ phase[agent[a].key[1]] = "open"
           /\ \A k \in Keys : Current(a, k) /\ staging[k] # None => Open(a)
<1>1. LifeTypes /\ AgentTypes /\ LivesOK /\ ClosedIsEmpty /\ BusyHasPiece
  BY TypeParts DEF IInv
<1>2. agent[a].key \in Keys /\ agent[a].key[1] \in Torrents /\ agent[a].life # 0
  BY <1>1, KeyFacts DEF BusyHasPiece
<1>3. Open(a) => Current(a, agent[a].key)
  BY DEF Open, LifecycleOpen, Current
<1>4. Open(a) => phase[agent[a].key[1]] = "open"
  BY <1>1, <1>2, <1>3 DEF Current, LivesOK
<1>5. ASSUME NEW k \in Keys, Current(a, k), staging[k] # None PROVE Open(a)
  <2>1. k = agent[a].key /\ agent[a].life = torrents[k[1]] /\ k[1] \in Torrents
    BY <1>5, <1>2 DEF Current
  <2>2. phase[k[1]] = "open"
    BY <1>1, <1>5 DEF ClosedIsEmpty
  <2>3. ~closed
    BY <1>1, <2>1, <2>2 DEF LivesOK
  <2>4. agent[a].life \in 0 .. MaxLives
    BY <1>1 DEF AgentTypes, Activities
  <2>5. <<k[1], agent[a].life>> \notin closedLives
    BY <1>1, <2>1, <2>4 DEF LivesOK
  <2> QED
    BY <2>1, <2>3, <2>5 DEF Open, LifecycleOpen
<1> QED
  BY <1>2, <1>3, <1>4, <1>5

(* The client takes a PieceImpl; it does not hash a piece while a hash of it *)
(* has yet to be followed by its mark.                                       *)
LEMMA PieceWithHashStep ==
    ASSUME IInv, NEW a \in Agents, NEW j \in Keys, NEW n \in 1 .. MaxLives,
           NEW op \in {"read", "write", "hash"}, PieceWithHash(a, j, n, op)
    PROVE  IInv'
<1> DEFINE x == [op |-> op, key |-> j, life |-> n, gen |-> epochs[j], seen |-> <<>>]
<1>1. /\ LifeTypes /\ PieceTypes /\ AgentTypes /\ GenerationsAgree /\ BusyHasPiece
      /\ HashesApart /\ NoZeroFillServed /\ SeenIsStaged /\ VerifiedIsGood
  BY TypeParts DEF IInv
<1>2. /\ agent[a].op = "idle"
      /\ op = "hash" => \A other \in Agents : ~Hashing(other, j, n)
      /\ agent' = [agent EXCEPT ![a] = x]
      /\ UNCHANGED <<lifeVars, staging, genVars, content>>
  BY DEF PieceWithHash
<1>3. x \in Activities /\ Len(x.seen) = 0 /\ x.seen = << >>
  BY <1>1, StoreAssumption, SMTT(30) DEF PieceTypes, Activities
<1>4. x.gen <= nextGeneration /\ x.op = op /\ x.key = j /\ x.life = n
  BY <1>1 DEF GenerationsAgree
<1> HIDE DEF x
<1>5. agent'[a] = x /\ \A b \in Agents : b # a => agent'[b] = agent[b]
  BY <1>1, <1>2 DEF AgentTypes
<1>6. AgentTypes'
  BY <1>1, <1>2, <1>3, <1>5, StoreAssumption, SMTT(30) DEF AgentTypes
<1>7. BusyHasPiece'
  BY <1>1, <1>4, <1>5, SMTT(30) DEF BusyHasPiece
<1>8. HashesApart'
  <2> SUFFICES ASSUME NEW b \in Agents, NEW c \in Agents, b # c,
                      agent'[b].op \in HashOps, agent'[c].op \in HashOps,
                      agent'[b].key = agent'[c].key, agent'[b].life = agent'[c].life
               PROVE  FALSE
    BY DEF HashesApart, HashOps
  <2>1. CASE b # a /\ c # a
    BY <2>1, <1>1, <1>5 DEF HashesApart
  <2>2. ASSUME NEW d \in Agents, d # a, agent[d].op \in HashOps, op = "hash"
        PROVE  agent[d].key # j \/ agent[d].life # n
    BY <2>2, <1>2 DEF Hashing, HashOps
  <2>3. op \in HashOps => op = "hash"
    BY DEF HashOps
  <2>4. CASE b = a
    BY <2>2, <2>3, <2>4, <1>4, <1>5
  <2>5. CASE c = a
    BY <2>2, <2>3, <2>5, <1>4, <1>5
  <2> QED
    BY <2>1, <2>4, <2>5
<1>9. NoZeroFillServed'
  BY <1>1, <1>3, <1>5, SMTT(30) DEF NoZeroFillServed
<1>10. /\ LifeTypes' /\ LivesOK' /\ PieceTypes' /\ GenerationsAgree'
       /\ ClosedIsEmpty' /\ OnlyVerifiedResident'
  BY <1>2, <1>4, <1>5, StoreKept
<1>11. staging' = staging /\ verifiedEpoch' = verifiedEpoch /\ torrents' = torrents
  BY <1>2 DEF genVars, lifeVars
<1>12. SeenIsStaged'
  <2> SUFFICES ASSUME NEW b \in Agents PROVE SeenAt(b)'
    BY DEF SeenIsStaged
  <2>1. CASE b = a
    BY <2>1, <1>3, <1>5, SMTT(30) DEF SeenAt
  <2>2. CASE b # a
    BY <2>2, <1>5, <1>11, SeenKept
  <2> QED
    BY <2>1, <2>2
<1>13. VerifiedIsGood'
  <2> SUFFICES ASSUME NEW k \in Keys PROVE VerifiedAt(k)'
    BY DEF VerifiedIsGood
  <2>1. CASE x.op # "hash"
    BY <2>1, <1>2, <1>4, <1>5, <1>11, VerifiedKept
  <2>2. CASE x.op = "hash"
    <3>1. VerifiedAt(k)
      BY <1>1 DEF VerifiedIsGood
    <3>2. ASSUME NEW b \in Agents, agent[b].op \in {"failed", "incomplete"}, Current(b, k)
          PROVE  ~Current(a, k)' /\ b # a /\ Current(b, k)'
      <4>1. ~Hashing(b, j, n)
        BY <1>2, <1>4, <2>2
      <4>2. b # a /\ agent'[b] = agent[b]
        BY <3>2, <1>2, <1>5
      <4>3. ~(agent[b].key = j /\ agent[b].life = n)
        BY <4>1, <3>2 DEF Hashing
      <4> QED
        BY <4>2, <4>3, <3>2, <1>4, <1>5, <1>11 DEF Current
    <3>3. SUFFICES ASSUME staging[k] # None, staging[k].generation = verifiedEpoch[k],
                          staging[k].data # AllGood
                   PROVE  VerifiedAt(k)'
      BY <3>1, <1>11 DEF VerifiedAt, Covers, Chunks, AllGood
    <3>4. PICK b \in Agents : /\ agent[b].op \in {"failed", "incomplete"}
                              /\ Current(b, k) /\ agent[b].gen = staging[k].generation
      BY <3>1, <3>3 DEF VerifiedAt
    <3>5. Current(b, k)' /\ agent'[b] = agent[b]
      BY <3>2, <3>4, <1>5
    <3>6. ASSUME NEW c \in Agents, agent'[c].op \in {"hash", "passed", "complete"}
          PROVE  ~Current(c, k)'
      <4>1. CASE c = a
        BY <4>1, <3>2, <3>4
      <4>2. CASE c # a
        <5>1. agent'[c] = agent[c] /\ ~Current(c, k)
          BY <4>2, <3>1, <3>3, <3>6, <1>5 DEF VerifiedAt
        <5> QED
          BY <5>1, <1>11 DEF Current
      <4> QED
        BY <4>1, <4>2
    <3>7. Covers(staging'[k], Chunks)
      BY <3>1, <3>3, <1>11 DEF VerifiedAt
    <3> QED
      BY <3>4, <3>5, <3>6, <3>7, <1>11 DEF VerifiedAt, Covers, Chunks
  <2> QED
    BY <2>1, <2>2
<1> QED
  BY <1>6, <1>7, <1>8, <1>9, <1>10, <1>12, <1>13, TypeParts DEF IInv

(* A refused operation, and the end of a read, leave the store as it is; an  *)
(* activity about to reset a current buffer is not refused.                  *)
LEMMA RefusedDoneStep ==
    ASSUME IInv, NEW a \in Agents, Refused(a) \/ Done(a)
    PROVE  IInv'
<1>1. /\ LifeTypes /\ PieceTypes /\ AgentTypes /\ GenerationsAgree /\ BusyHasPiece
      /\ HashesApart /\ NoZeroFillServed
  BY TypeParts DEF IInv
<1> DEFINE op == IF agent[a].op = "hash" THEN "failed" ELSE "idle"
<1>2. /\ Continue(a, op)
      /\ UNCHANGED <<lifeVars, staging, genVars, content>>
      /\ agent[a].op # "idle"
      /\ agent[a].op \in {"failed", "incomplete"} => ~Open(a)
  BY DEF Refused, Done
<1>3. op \in {"idle", "failed"} /\ (op = "failed" => agent[a].op = "hash")
  OBVIOUS
<1> HIDE DEF op
<1>4. PICK x \in Activities :
        /\ agent' = [agent EXCEPT ![a] = x] /\ x.op = op
        /\ op = "idle" => x.seen = << >>
        /\ op # "idle" => /\ x.key = agent[a].key /\ x.life = agent[a].life
                          /\ x.gen = agent[a].gen /\ x.seen = agent[a].seen
        /\ x.gen <= agent[a].gen
  BY <1>1, <1>2, <1>3, ContinueFacts, SMTT(30)
<1>5. /\ Len(x.seen) <= NumChunks /\ \A i \in 1 .. Len(x.seen) : x.seen[i] # "zero"
  BY <1>1, <1>4, StoreAssumption, SMTT(30) DEF AgentTypes, NoZeroFillServed
<1>6. /\ AgentTypes' /\ BusyHasPiece' /\ HashesApart' /\ NoZeroFillServed'
      /\ agent'[a] = x /\ \A b \in Agents : b # a => agent'[b] = agent[b]
  <2>1. x.op \in HashOps => agent[a].op \in HashOps
    BY <1>3, <1>4 DEF HashOps
  <2> QED
    BY <1>2, <1>4, <1>5, <2>1, GoesOn
<1>7. x.gen <= nextGeneration
  BY <1>1, <1>4, SMTT(30) DEF GenerationsAgree, AgentTypes, Activities, PieceTypes
<1>8. /\ LifeTypes' /\ LivesOK' /\ PieceTypes' /\ GenerationsAgree'
      /\ ClosedIsEmpty' /\ OnlyVerifiedResident'
  BY <1>2, <1>6, <1>7, StoreKept
<1>9. staging' = staging /\ verifiedEpoch' = verifiedEpoch /\ torrents' = torrents
  BY <1>2 DEF genVars, lifeVars
<1>10. SeenIsStaged'
  <2> SUFFICES ASSUME NEW b \in Agents PROVE SeenAt(b)'
    BY DEF SeenIsStaged
  <2>1. CASE b = a
    BY <2>1, <1>3, <1>4, <1>6 DEF SeenAt
  <2>2. CASE b # a
    BY <2>2, <1>6, <1>9, SeenKept
  <2> QED
    BY <2>1, <2>2
<1>11. VerifiedIsGood'
  <2> SUFFICES ASSUME NEW k \in Keys PROVE VerifiedAt(k)'
    BY DEF VerifiedIsGood
  <2>1. /\ agent[a].op \in {"failed", "incomplete"} /\ Current(a, k) /\ staging[k] # None
        => FALSE
    BY <1>2, OpenFacts
  <2>2. agent'[a].op \notin {"hash", "passed", "complete"}
    BY <1>3, <1>4, <1>6
  <2> QED
    BY <2>1, <2>2, <1>6, <1>9, VerifiedKept
<1> QED
  BY <1>6, <1>8, <1>10, <1>11, TypeParts DEF IInv

-----------------------------------------------------------------------------
(* The steps of an activity that reads, hashes, marks or writes *)

(* After its hash an activity still holds the generation that it hashed, or  *)
(* the current one, which is that of the buffer if there is one.             *)
LEMMA TakeAgainStep ==
    ASSUME IInv, NEW a \in Agents, TakeAgain(a)
    PROVE  IInv'
<1>1. /\ LifeTypes /\ PieceTypes /\ AgentTypes /\ GenerationsAgree /\ BusyHasPiece
      /\ HashesApart /\ NoZeroFillServed
  BY TypeParts DEF IInv
<1>2. /\ agent[a].op \in {"passed", "failed"}
      /\ UNCHANGED <<lifeVars, staging, genVars, content>>
  BY DEF TakeAgain
<1>3. PICK gen \in {epochs[agent[a].key]} \cup (IF agent[a].op = "failed" THEN {agent[a].gen} ELSE {}) :
        agent' = [agent EXCEPT ![a].op = IF @ = "passed" THEN "complete" ELSE "incomplete",
                               ![a].gen = gen]
  BY DEF TakeAgain
<1> DEFINE op == IF agent[a].op = "passed" THEN "complete" ELSE "incomplete"
           x == [agent[a] EXCEPT !.op = op, !.gen = gen]
<1>4. agent[a] \in Activities /\ agent[a].key \in Keys
  BY <1>1, <1>2 DEF AgentTypes, BusyHasPiece
<1>5. /\ gen \in 0 .. MaxGeneration /\ gen <= nextGeneration
      /\ gen = epochs[agent[a].key] \/ gen = agent[a].gen
  BY <1>1, <1>3, <1>4, SMTT(30) DEF PieceTypes, GenerationsAgree, Activities
<1>6. agent' = [agent EXCEPT ![a] = x]
  BY <1>1, <1>3, <1>4 DEF AgentTypes, Activities
<1>7. /\ x \in Activities /\ x.op = op /\ x.gen = gen
      /\ x.key = agent[a].key /\ x.life = agent[a].life /\ x.seen = agent[a].seen
  BY <1>4, <1>5 DEF Activities
<1>8. /\ op = "complete" => agent[a].op = "passed"
      /\ op \in {"complete", "incomplete"}
      /\ agent[a].op = "failed" => op = "incomplete"
  OBVIOUS
<1> HIDE DEF op, x
<1>9. /\ Len(x.seen) <= NumChunks /\ \A i \in 1 .. Len(x.seen) : x.seen[i] # "zero"
  BY <1>1, <1>7 DEF AgentTypes, NoZeroFillServed
<1>10. /\ AgentTypes' /\ BusyHasPiece' /\ HashesApart' /\ NoZeroFillServed'
       /\ agent'[a] = x /\ \A b \in Agents : b # a => agent'[b] = agent[b]
  <2>1. x.op \in HashOps => agent[a].op \in HashOps
    BY <1>7, <1>8 DEF HashOps
  <2> QED
    BY <1>2, <1>6, <1>7, <1>9, <2>1, GoesOn
<1>11. /\ LifeTypes' /\ LivesOK' /\ PieceTypes' /\ GenerationsAgree'
       /\ ClosedIsEmpty' /\ OnlyVerifiedResident'
  BY <1>2, <1>5, <1>7, <1>10, StoreKept
<1>12. staging' = staging /\ verifiedEpoch' = verifiedEpoch /\ torrents' = torrents
  BY <1>2 DEF genVars, lifeVars
<1>13. SeenIsStaged'
  <2> SUFFICES ASSUME NEW b \in Agents PROVE SeenAt(b)'
    BY DEF SeenIsStaged
  <2>1. CASE b = a
    BY <2>1, <1>7, <1>8, <1>10 DEF SeenAt
  <2>2. CASE b # a
    BY <2>2, <1>10, <1>12, SeenKept
  <2> QED
    BY <2>1, <2>2
<1>14. VerifiedIsGood'
  <2> SUFFICES ASSUME NEW k \in Keys PROVE VerifiedAt(k)'
    BY DEF VerifiedIsGood
  <2>1. ASSUME agent[a].op \in {"failed", "incomplete"}, Current(a, k),
               staging[k] # None, agent[a].gen = staging[k].generation
        PROVE  agent'[a].op \in {"failed", "incomplete"} /\ agent'[a].gen = agent[a].gen
    <3>1. agent[a].key = k /\ staging[k].generation = epochs[k]
      BY <2>1, <1>1 DEF Current, GenerationsAgree
    <3> QED
      BY <2>1, <3>1, <1>2, <1>5, <1>7, <1>8, <1>10
  <2>2. agent'[a].op \in {"hash", "passed", "complete"} => agent[a].op \in {"hash", "passed", "complete"}
    BY <1>7, <1>8, <1>10
  <2> QED
    BY <2>1, <2>2, <1>7, <1>10, <1>12, VerifiedKept
<1> QED
  BY <1>10, <1>11, <1>13, <1>14, TypeParts DEF IInv

(* What a window is served is never the zero fill, and it is from the buffer *)
(* when there is one.                                                        *)
LEMMA ServedFacts ==
    ASSUME IInv, NEW k \in Keys, NEW c \in Chunks, Served(k, c) # None
    PROVE  /\ Served(k, c) \in Received
           /\ staging[k] # None => Served(k, c) = staging[k].data[c]
<1>1. PieceTypes /\ OnlyVerifiedResident
  BY TypeParts DEF IInv
<1>2. CASE staging[k] # None
  <2>1. staging[k] \in Buffers
    BY <1>1, <1>2 DEF PieceTypes
  <2>2. staging[k].data[c] \in Received \cup {"zero"}
    BY <2>1 DEF Buffers, Data
  <2>3. Served(k, c) = staging[k].data[c] /\ staging[k].data[c] # "zero"
    BY <1>2 DEF Served, Covers
  <2> QED
    BY <2>2, <2>3
<1>3. CASE staging[k] = None
  <2>1. content[k] = AllGood /\ Served(k, c) = content[k][c]
    BY <1>1, <1>3 DEF OnlyVerifiedResident, Served
  <2> QED
    BY <1>3, <2>1 DEF AllGood, Received
<1> QED
  BY <1>2, <1>3

(* A read of a window: the store only notes it. *)
LEMMA NoteReadKept ==
    ASSUME IInv, NEW a \in Agents, NEW k \in Keys, NEW c, NoteRead(k, c),
           phase[k[1]] = "open",
           UNCHANGED <<lifeVars, staging, epochs, verifiedEpoch, nextGeneration, content>>,
           \A b \in Agents : b # a => agent'[b] = agent[b],
           agent'[a].gen = agent[a].gen
    PROVE  /\ LifeTypes' /\ LivesOK' /\ PieceTypes' /\ GenerationsAgree'
           /\ ClosedIsEmpty' /\ OnlyVerifiedResident'
<1>1. /\ PieceTypes /\ GenerationsAgree /\ ClosedIsEmpty /\ OnlyVerifiedResident
  BY TypeParts DEF IInv
<1>2. /\ UNCHANGED <<staging, epochs, verifiedEpoch, nextGeneration, content, phase>>
      /\ UNCHANGED lifeVars
  BY DEF lifeVars
<1>3. /\ lastRead' \in [Keys -> 0 .. MaxGeneration]
      /\ \A j \in Keys : j # k => lastRead'[j] = lastRead[j]
      /\ \/ lastRead'[k] = lastRead[k]
         \/ staging[k] # None /\ lastRead'[k] = staging[k].generation
  <2>1. staging[k] # None => staging[k].generation \in 0 .. MaxGeneration
    BY <1>1, SMTT(30) DEF PieceTypes, Buffers
  <2>2. \/ lastRead' = lastRead
        \/ staging[k] # None /\ lastRead' = [lastRead EXCEPT ![k] = staging[k].generation]
    BY DEF NoteRead
  <2> QED
    BY <2>1, <2>2, <1>1 DEF PieceTypes
<1>4. LifeTypes' /\ LivesOK'
  BY <1>2, LivesKept
<1>5. PieceTypes' /\ OnlyVerifiedResident'
  BY <1>1, <1>2, <1>3 DEF PieceTypes, OnlyVerifiedResident
<1>6. GenerationsAgree'
  BY <1>1, <1>2, <1>3 DEF GenerationsAgree
<1>7. ClosedIsEmpty'
  BY <1>1, <1>2, <1>3, SMTT(30) DEF ClosedIsEmpty
<1> QED
  BY <1>4, <1>5, <1>6, <1>7

(* The invariant is kept by a ReadAt: what it returns is what was staged, or   *)
(* what the cache verified.                                                     *)
LEMMA ReadAtStep ==
    ASSUME IInv, NEW a \in Agents, NEW c \in Chunks, ReadAt(a, c)
    PROVE  IInv'
<1>1. /\ LifeTypes /\ PieceTypes /\ AgentTypes /\ GenerationsAgree /\ BusyHasPiece
      /\ HashesApart /\ NoZeroFillServed
  BY TypeParts DEF IInv
<1> DEFINE j == agent[a].key
           byte == Served(j, c)
           x == IF byte = None THEN [agent[a] EXCEPT !.op = "incomplete"]
                ELSE [agent[a] EXCEPT !.op = "done", !.seen = <<byte>>]
<1>2. /\ agent[a].op = "read" /\ Open(a)
      /\ agent' = [agent EXCEPT ![a] = x]
      /\ NoteRead(j, c)
      /\ UNCHANGED <<lifeVars, staging, epochs, verifiedEpoch, nextGeneration, content>>
  BY DEF ReadAt
<1>3. agent[a] \in Activities /\ j \in Keys /\ phase[j[1]] = "open"
  BY <1>1, <1>2, OpenFacts DEF AgentTypes
<1>4. byte # None => byte \in Received
  BY <1>3, ServedFacts
<1> HIDE DEF byte, j
<1>5. /\ x \in Activities /\ x.op \in {"incomplete", "done"} /\ x.gen = agent[a].gen
      /\ x.key = agent[a].key /\ x.life = agent[a].life
      /\ x.seen = agent[a].seen \/ (byte # None /\ x.seen = <<byte>>)
  <2>1. CASE byte = None
    BY <1>3, <2>1 DEF Activities
  <2>2. CASE byte # None
    <3>1. <<byte>> \in Seq(Received \cup {"zero"})
      BY <1>4, <2>2, SMTT(30)
    <3> QED
      BY <1>3, <2>2, <3>1 DEF Activities
  <2> QED
    BY <2>1, <2>2
<1> HIDE DEF x
<1>6. /\ Len(x.seen) <= NumChunks /\ \A i \in 1 .. Len(x.seen) : x.seen[i] # "zero"
  <2>1. CASE x.seen = agent[a].seen
    BY <1>1, <2>1 DEF AgentTypes, NoZeroFillServed
  <2>2. CASE byte # None /\ x.seen = <<byte>>
    BY <1>4, <2>2, StoreAssumption, SMTT(30) DEF Received
  <2> QED
    BY <1>5, <2>1, <2>2
<1>7. /\ AgentTypes' /\ BusyHasPiece' /\ HashesApart' /\ NoZeroFillServed'
      /\ agent'[a] = x /\ \A b \in Agents : b # a => agent'[b] = agent[b]
  <2>1. x.op \notin HashOps
    BY <1>5 DEF HashOps
  <2> QED
    BY <1>2, <1>5, <1>6, <2>1, GoesOn
<1>8. /\ LifeTypes' /\ LivesOK' /\ PieceTypes' /\ GenerationsAgree'
      /\ ClosedIsEmpty' /\ OnlyVerifiedResident'
  BY <1>2, <1>3, <1>5, <1>7, NoteReadKept
<1>9. staging' = staging /\ verifiedEpoch' = verifiedEpoch /\ torrents' = torrents
  BY <1>2 DEF lifeVars
<1>10. SeenIsStaged'
  <2> SUFFICES ASSUME NEW b \in Agents PROVE SeenAt(b)'
    BY DEF SeenIsStaged
  <2>1. CASE b = a
    BY <2>1, <1>5, <1>7 DEF SeenAt
  <2>2. CASE b # a
    BY <2>2, <1>7, <1>9, SeenKept
  <2> QED
    BY <2>1, <2>2
<1>11. VerifiedIsGood'
  <2> SUFFICES ASSUME NEW k \in Keys PROVE VerifiedAt(k)'
    BY DEF VerifiedIsGood
  <2>1. agent[a].op \notin {"failed", "incomplete"} /\ agent'[a].op \notin {"hash", "passed", "complete"}
    BY <1>2, <1>5, <1>7
  <2> QED
    BY <2>1, <1>7, <1>9, VerifiedKept
<1> QED
  BY <1>7, <1>8, <1>10, <1>11, TypeParts DEF IInv

(* A hash reads the next window; it appends what the buffer has there, or    *)
(* what is resident.                                                         *)
LEMMA HashWindowStep ==
    ASSUME IInv, NEW a \in Agents, HashWindow(a)
    PROVE  IInv'
<1>1. /\ LifeTypes /\ PieceTypes /\ AgentTypes /\ GenerationsAgree /\ BusyHasPiece
      /\ HashesApart /\ NoZeroFillServed /\ SeenIsStaged
  BY TypeParts DEF IInv
<1> DEFINE j == agent[a].key
           c == Len(agent[a].seen) + 1
           byte == Served(j, c)
           x == IF byte = None THEN [agent[a] EXCEPT !.op = "failed"]
                ELSE [agent[a] EXCEPT !.seen = Append(agent[a].seen, byte)]
<1>2. /\ agent[a].op = "hash" /\ Open(a) /\ c <= NumChunks
      /\ agent' = [agent EXCEPT ![a] = x]
      /\ NoteRead(j, c)
      /\ UNCHANGED <<lifeVars, staging, epochs, verifiedEpoch, nextGeneration, content>>
  BY DEF HashWindow
<1>3. agent[a] \in Activities /\ j \in Keys /\ phase[j[1]] = "open"
  BY <1>1, <1>2, OpenFacts DEF AgentTypes
<1>4. agent[a].seen \in Seq(Received \cup {"zero"}) /\ Len(agent[a].seen) \in Nat
  BY <1>3, SMTT(30) DEF Activities
<1>5. c \in Chunks
  BY <1>2, <1>4, StoreAssumption, SMTT(30) DEF Chunks
<1>6. byte # None => byte \in Received /\ (staging[j] # None => byte = staging[j].data[c])
  BY <1>3, <1>5, ServedFacts
<1> HIDE DEF byte, j
<1>7. /\ x \in Activities /\ x.op \in {"failed", "hash"} /\ x.gen = agent[a].gen
      /\ x.key = agent[a].key /\ x.life = agent[a].life
      /\ \/ x.op = "failed" /\ x.seen = agent[a].seen
         \/ byte # None /\ x.seen = Append(agent[a].seen, byte)
  <2>1. CASE byte = None
    BY <1>3, <2>1 DEF Activities
  <2>2. CASE byte # None
    <3>1. Append(agent[a].seen, byte) \in Seq(Received \cup {"zero"})
      BY <1>4, <1>6, <2>2, SMTT(30)
    <3> QED
      BY <1>2, <1>3, <2>2, <3>1 DEF Activities
  <2> QED
    BY <2>1, <2>2
<1> HIDE DEF x
<1>8. /\ Len(x.seen) <= NumChunks /\ \A i \in 1 .. Len(x.seen) : x.seen[i] # "zero"
  <2>1. CASE x.seen = agent[a].seen
    BY <1>1, <2>1 DEF AgentTypes, NoZeroFillServed
  <2>2. CASE byte # None /\ x.seen = Append(agent[a].seen, byte)
    BY <1>1, <1>2, <1>4, <1>6, <2>2, SMTT(30) DEF Received, NoZeroFillServed
  <2> QED
    BY <1>7, <2>1, <2>2
<1>9. /\ AgentTypes' /\ BusyHasPiece' /\ HashesApart' /\ NoZeroFillServed'
      /\ agent'[a] = x /\ \A b \in Agents : b # a => agent'[b] = agent[b]
  <2>1. agent[a].op \in HashOps
    BY <1>2 DEF HashOps
  <2> QED
    BY <1>2, <1>7, <1>8, <2>1, GoesOn
<1>10. /\ LifeTypes' /\ LivesOK' /\ PieceTypes' /\ GenerationsAgree'
       /\ ClosedIsEmpty' /\ OnlyVerifiedResident'
  BY <1>2, <1>3, <1>7, <1>9, NoteReadKept
<1>11. staging' = staging /\ verifiedEpoch' = verifiedEpoch /\ torrents' = torrents
  BY <1>2 DEF lifeVars
<1>12. SeenIsStaged'
  <2> SUFFICES ASSUME NEW b \in Agents PROVE SeenAt(b)'
    BY DEF SeenIsStaged
  <2>1. CASE b = a /\ x.op = "hash"
    <3>1. byte # None /\ x.seen = Append(agent[a].seen, byte)
      BY <2>1, <1>7
    <3>2. Len(x.seen) = c /\ x.seen[c] = byte
      BY <3>1, <1>4, SMTT(30)
    <3>3. \A i \in 1 .. Len(agent[a].seen) : x.seen[i] = agent[a].seen[i]
      BY <3>1, <1>4, SMTT(30)
    <3>4. ASSUME staging[j] # None, staging[j].generation = agent[a].gen,
                 NEW i \in 1 .. Len(x.seen)
          PROVE  x.seen[i] = staging[j].data[i]
      <4>1. \A n \in 1 .. Len(agent[a].seen) : agent[a].seen[n] = staging[j].data[n]
        BY <1>1, <1>2, <3>4 DEF SeenIsStaged, SeenAt, j
      <4>2. i = c \/ i \in 1 .. Len(agent[a].seen)
        BY <3>2, <1>4, SMTT(30)
      <4> QED
        BY <4>1, <4>2, <3>1, <3>2, <3>3, <3>4, <1>6
    <3> QED
      BY <2>1, <3>4, <1>7, <1>9, <1>11 DEF SeenAt, j
  <2>2. CASE b = a /\ x.op # "hash"
    BY <2>2, <1>9 DEF SeenAt
  <2>3. CASE b # a
    BY <2>3, <1>9, <1>11, SeenKept
  <2> QED
    BY <2>1, <2>2, <2>3
<1>13. VerifiedIsGood'
  <2> SUFFICES ASSUME NEW k \in Keys PROVE VerifiedAt(k)'
    BY DEF VerifiedIsGood
  <2>1. agent[a].op \notin {"failed", "incomplete"} /\ agent[a].op \in {"hash", "passed", "complete"}
    BY <1>2
  <2> QED
    BY <2>1, <1>7, <1>9, <1>11, VerifiedKept
<1> QED
  BY <1>9, <1>10, <1>12, <1>13, TypeParts DEF IInv

(* The end of a hash records the generation as verified.  What it was given  *)
(* is then the whole buffer: the buffer is good, or the hash has failed and  *)
(* no other activity can promote it.                                         *)
LEMMA HashEndStep ==
    ASSUME IInv, NEW a \in Agents, HashEnd(a)
    PROVE  IInv'
<1>1. /\ LifeTypes /\ PieceTypes /\ AgentTypes /\ GenerationsAgree /\ BusyHasPiece
      /\ HashesApart /\ NoZeroFillServed /\ SeenIsStaged
  BY TypeParts DEF IInv
<1> DEFINE j == agent[a].key
           matches == agent[a].seen = AllGood
           verified == Verifies(j, agent[a].gen)
<1>2. /\ agent[a].op = "hash" /\ Open(a) /\ Len(agent[a].seen) = NumChunks
      /\ UNCHANGED <<lifeVars, staging, lastRead, epochs, nextGeneration, content>>
  BY DEF HashEnd
<1>3. PICK op \in {"passed", "failed"} :
        /\ Continue(a, op)
        /\ op = "passed" => matches
        /\ matches /\ verified => op = "passed"
  BY DEF HashEnd
<1>4. verifiedEpoch' = IF verified THEN [verifiedEpoch EXCEPT ![j] = agent[a].gen] ELSE verifiedEpoch
  BY DEF HashEnd
<1>5. agent[a] \in Activities /\ j \in Keys /\ Current(a, j) /\ phase[j[1]] = "open"
  BY <1>1, <1>2, OpenFacts DEF AgentTypes
<1>6. verified =>
        /\ agent[a].gen # 0 /\ epochs[j] = agent[a].gen
        /\ staging[j] # None => /\ staging[j].generation = agent[a].gen
                                /\ Covers(staging[j], Chunks)
  BY DEF Verifies
<1> HIDE DEF j, verified, matches
<1>7. PICK x \in Activities :
        /\ agent' = [agent EXCEPT ![a] = x] /\ x.op = op
        /\ x.key = agent[a].key /\ x.life = agent[a].life
        /\ x.gen = agent[a].gen /\ x.seen = agent[a].seen
  BY <1>1, <1>3, ContinueFacts, SMTT(30)
<1>8. /\ Len(x.seen) <= NumChunks /\ \A i \in 1 .. Len(x.seen) : x.seen[i] # "zero"
  BY <1>1, <1>7 DEF AgentTypes, NoZeroFillServed
<1>9. /\ AgentTypes' /\ BusyHasPiece' /\ HashesApart' /\ NoZeroFillServed'
      /\ agent'[a] = x /\ \A b \in Agents : b # a => agent'[b] = agent[b]
  <2>1. agent[a].op \in HashOps /\ agent[a].op # "idle"
    BY <1>2 DEF HashOps
  <2> QED
    BY <1>7, <1>8, <2>1, GoesOn
<1>10. /\ UNCHANGED <<staging, lastRead, epochs, nextGeneration, content, phase, torrents>>
       /\ UNCHANGED lifeVars
  BY <1>2 DEF lifeVars
<1>11. LifeTypes' /\ LivesOK'
  BY <1>10, LivesKept
<1>12. /\ verifiedEpoch' \in [Keys -> 0 .. MaxGeneration]
       /\ \A k \in Keys : k # j => verifiedEpoch'[k] = verifiedEpoch[k]
       /\ verifiedEpoch'[j] = IF verified THEN agent[a].gen ELSE verifiedEpoch[j]
  BY <1>1, <1>4, <1>5 DEF PieceTypes, Activities
<1>13. PieceTypes' /\ OnlyVerifiedResident'
  BY <1>1, <1>10, <1>12 DEF IInv, PieceTypes, OnlyVerifiedResident
<1>14. GenerationsAgree'
  <2>1. \A k \in Keys : verifiedEpoch'[k] <= epochs[k]
    BY <1>1, <1>5, <1>6, <1>12, SMTT(30) DEF GenerationsAgree, PieceTypes
  <2>2. \A b \in Agents : agent'[b].gen = agent[b].gen
    BY <1>7, <1>9
  <2> QED
    BY <1>1, <1>10, <2>1, <2>2 DEF GenerationsAgree
<1>15. ClosedIsEmpty'
  <2>1. ClosedIsEmpty
    BY DEF IInv
  <2> QED
    BY <2>1, <1>5, <1>10, <1>12 DEF ClosedIsEmpty
<1>16. SeenIsStaged'
  <2> SUFFICES ASSUME NEW b \in Agents PROVE SeenAt(b)'
    BY DEF SeenIsStaged
  <2>1. CASE b = a
    BY <2>1, <1>3, <1>7, <1>9 DEF SeenAt
  <2>2. CASE b # a
    BY <2>2, <1>9, <1>10, SeenKept
  <2> QED
    BY <2>1, <2>2
<1>17. VerifiedIsGood'
  <2> SUFFICES ASSUME NEW k \in Keys PROVE VerifiedAt(k)'
    BY DEF VerifiedIsGood
  <2>1. CASE k # j \/ ~verified
    <3>1. verifiedEpoch'[k] = verifiedEpoch[k]
      BY <2>1, <1>12
    <3>2. agent[a].op \notin {"failed", "incomplete"} /\ agent[a].op \in {"hash", "passed", "complete"}
      BY <1>2
    <3> QED
      BY <3>1, <3>2, <1>7, <1>9, <1>10, VerifiedKept
  <2>2. CASE k = j /\ verified /\ staging[j] # None
    <3>1. /\ staging[j].generation = agent[a].gen /\ Covers(staging[j], Chunks)
          /\ verifiedEpoch'[j] = agent[a].gen
      BY <2>2, <1>6, <1>12
    <3>2. agent[a].seen \in Seq(Received \cup {"zero"})
      BY <1>5 DEF Activities
    <3>3. /\ DOMAIN agent[a].seen = Chunks
          /\ agent[a].seen = [i \in Chunks |-> agent[a].seen[i]]
      BY <3>2, <1>2, SMTT(30) DEF Chunks
    <3>4. \A i \in Chunks : agent[a].seen[i] = staging[j].data[i]
      BY <2>2, <3>1, <1>1, <1>2 DEF SeenIsStaged, SeenAt, j, Chunks
    <3>5. staging[j].data \in [Chunks -> Received \cup {"zero"}]
      BY <2>2, <1>1, <1>5 DEF PieceTypes, Buffers, Data
    <3>6. staging[j].data = agent[a].seen
      BY <3>3, <3>4, <3>5, SMTT(30)
    <3>7. CASE matches
      <4>1. staging'[k].data = AllGood /\ Covers(staging'[k], Chunks)
        BY <2>2, <3>1, <3>6, <3>7, <1>10 DEF matches
      <4> QED
        BY <4>1 DEF VerifiedAt, AllGood, Covers, Chunks
    <3>8. CASE ~matches
      <4>1. x.op = "failed"
        BY <3>8, <1>3, <1>7
      <4>2. agent'[a].op = "failed" /\ agent'[a].gen = staging'[k].generation
        BY <4>1, <3>1, <2>2, <1>7, <1>9, <1>10
      <4>3. Current(a, k) /\ Current(a, k)'
        BY <2>2, <1>5, <1>7, <1>9, <1>10 DEF Current
      <4>4. ASSUME NEW b \in Agents, agent'[b].op \in {"hash", "passed", "complete"}, Current(b, k)'
            PROVE  FALSE
        <5>1. b # a
          BY <4>2, <4>4
        <5>2. agent'[b] = agent[b]
          BY <5>1, <1>9
        <5>3. agent[b].op \in HashOps /\ agent[a].op \in HashOps
          BY <5>2, <4>4, <1>2 DEF HashOps
        <5>4. agent[b].key = agent[a].key /\ agent[b].life = agent[a].life
          BY <5>2, <4>3, <4>4, <1>10 DEF Current
        <5> QED
          BY <5>1, <5>3, <5>4, <1>1 DEF HashesApart
      <4>5. Covers(staging'[k], Chunks)
        BY <2>2, <3>1, <1>10
      <4> QED
        BY <4>2, <4>3, <4>4, <4>5 DEF VerifiedAt, Covers, Chunks
    <3> QED
      BY <3>7, <3>8
  <2>3. CASE k = j /\ verified /\ staging[j] = None
    BY <2>3, <1>10 DEF VerifiedAt
  <2> QED
    BY <2>1, <2>2, <2>3
<1> QED
  BY <1>9, <1>11, <1>13, <1>14, <1>15, <1>16, <1>17, TypeParts DEF IInv

(* An activity becomes idle; its piece's buffer is dropped, or nothing is.   *)
LEMMA DropsBuffer ==
    ASSUME IInv, NEW a \in Agents, Continue(a, "idle"), agent[a].op # "idle",
           UNCHANGED lifeVars,
           \A k \in Keys : \/ staging'[k] = None
                           \/ /\ staging'[k] = staging[k] /\ verifiedEpoch'[k] = verifiedEpoch[k]
                              /\ ~(/\ agent[a].op \in {"failed", "incomplete"} /\ Current(a, k)
                                   /\ staging[k] # None /\ agent[a].gen = staging[k].generation)
    PROVE  /\ LifeTypes' /\ LivesOK' /\ AgentTypes' /\ BusyHasPiece' /\ HashesApart'
           /\ NoZeroFillServed' /\ SeenIsStaged' /\ VerifiedIsGood'
           /\ \A b \in Agents : agent'[b].gen <= agent[b].gen
<1>1. AgentTypes /\ BusyHasPiece /\ SeenIsStaged
  BY TypeParts DEF IInv
<1>2. PICK x \in Activities :
        /\ agent' = [agent EXCEPT ![a] = x] /\ x.op = "idle" /\ x.seen = << >>
        /\ x.gen <= agent[a].gen
  BY <1>1, ContinueFacts
<1>3. /\ Len(x.seen) <= NumChunks /\ \A i \in 1 .. Len(x.seen) : x.seen[i] # "zero"
  BY <1>2, StoreAssumption, SMTT(30)
<1>4. /\ AgentTypes' /\ BusyHasPiece' /\ HashesApart' /\ NoZeroFillServed'
      /\ agent'[a] = x /\ \A b \in Agents : b # a => agent'[b] = agent[b]
  <2>1. x.op \notin HashOps
    BY <1>2 DEF HashOps
  <2> QED
    BY <1>2, <1>3, <2>1, GoesOn
<1>5. torrents' = torrents
  BY DEF lifeVars
<1>6. SeenIsStaged'
  <2> SUFFICES ASSUME NEW b \in Agents, agent'[b].op = "hash" PROVE SeenAt(b)'
    BY DEF SeenIsStaged, SeenAt
  <2>1. b # a /\ agent'[b] = agent[b]
    BY <1>2, <1>4
  <2>2. agent[b].key \in Keys
    BY <2>1, <1>1 DEF BusyHasPiece
  <2>3. staging'[agent[b].key] = None \/ staging'[agent[b].key] = staging[agent[b].key]
    BY <2>2
  <2> QED
    BY <2>1, <2>3, <1>1, SMTT(30) DEF SeenIsStaged, SeenAt
<1>7. VerifiedIsGood'
  <2> SUFFICES ASSUME NEW k \in Keys, staging'[k] # None PROVE VerifiedAt(k)'
    BY DEF VerifiedIsGood, VerifiedAt
  <2>1. agent'[a].op \notin {"hash", "passed", "complete"}
    BY <1>2, <1>4
  <2> QED
    BY <2>1, <1>4, <1>5, VerifiedKept
<1>8. \A b \in Agents : agent'[b].gen <= agent[b].gen
  BY <1>1, <1>2, <1>4, StoreAssumption, SMTT(30) DEF AgentTypes, Activities
<1> QED
  BY <1>4, <1>6, <1>7, <1>8, LivesKept

(* MarkComplete promotes a verified buffer; the activity that promotes it    *)
(* is a current one whose hash matched, so the buffer is good.               *)
LEMMA MarkCompleteStep ==
    ASSUME IInv, NEW a \in Agents, MarkComplete(a)
    PROVE  IInv'
<1>1. /\ PieceTypes /\ GenerationsAgree /\ ClosedIsEmpty /\ OnlyVerifiedResident
      /\ VerifiedIsGood
  BY TypeParts DEF IInv
<1> DEFINE j == agent[a].key
           promoted == Promotable(j, agent[a].gen)
<1>2. /\ agent[a].op = "complete" /\ Open(a) /\ Continue(a, "idle")
      /\ UNCHANGED lifeVars /\ epochs' = epochs /\ nextGeneration' = nextGeneration
  BY DEF MarkComplete
<1>3. promoted =>
        /\ staging' = [staging EXCEPT ![j] = None]
        /\ lastRead' = [lastRead EXCEPT ![j] = 0]
        /\ verifiedEpoch' = [verifiedEpoch EXCEPT ![j] = 0]
        /\ \E lost \in SUBSET Keys :
             content' = [k \in Keys |-> IF k \in lost THEN None
                                        ELSE IF k = j THEN staging[j].data ELSE content[k]]
  BY DEF MarkComplete, Cache!Store
<1>4. ~promoted => UNCHANGED <<staging, lastRead, verifiedEpoch, content>>
  BY DEF MarkComplete
<1>5. j \in Keys /\ Current(a, j) /\ phase[j[1]] = "open"
  BY <1>2, OpenFacts
<1>6. promoted => staging[j].data = AllGood
  <2> SUFFICES ASSUME promoted PROVE staging[j].data = AllGood
    OBVIOUS
  <2>1. staging[j] # None /\ staging[j].generation = verifiedEpoch[j]
    BY DEF Promotable
  <2>2. VerifiedAt(j)
    BY <1>1, <1>5 DEF VerifiedIsGood
  <2> HIDE DEF j
  <2> QED
    BY <2>1, <2>2, <1>2, <1>5 DEF VerifiedAt
<1> HIDE DEF j, promoted
<1>7. AllGood \in Data
  BY DEF AllGood, Data, Received
<1>8. PieceTypes' /\ OnlyVerifiedResident'
      /\ \A k \in Keys : k # j => /\ staging'[k] = staging[k] /\ lastRead'[k] = lastRead[k]
                                  /\ verifiedEpoch'[k] = verifiedEpoch[k]
                                  /\ content'[k] \in {content[k], None}
  <2>1. CASE promoted
    <3>1. /\ staging' \in [Keys -> {None} \cup Buffers]
          /\ lastRead' \in [Keys -> 0 .. MaxGeneration]
          /\ verifiedEpoch' \in [Keys -> 0 .. MaxGeneration]
          /\ \A k \in Keys : k # j => /\ staging'[k] = staging[k] /\ lastRead'[k] = lastRead[k]
                                      /\ verifiedEpoch'[k] = verifiedEpoch[k]
      BY <2>1, <1>1, <1>3, <1>5, StoreAssumption, SMTT(30) DEF PieceTypes
    <3>2. /\ content' \in [Keys -> {None} \cup Data]
          /\ \A k \in Keys : /\ content'[k] \in {content[k], None, AllGood}
                             /\ k # j => content'[k] \in {content[k], None}
      BY <2>1, <1>1, <1>3, <1>6, <1>7, SMTT(30) DEF PieceTypes
    <3> QED
      BY <3>1, <3>2, <1>1, <1>2 DEF PieceTypes, OnlyVerifiedResident
  <2>2. CASE ~promoted
    BY <2>2, <1>1, <1>2, <1>4 DEF PieceTypes, OnlyVerifiedResident
  <2> QED
    BY <2>1, <2>2
<1>9. \/ staging'[j] = None /\ lastRead'[j] = 0 /\ verifiedEpoch'[j] = 0
      \/ staging'[j] = staging[j] /\ lastRead'[j] = lastRead[j] /\ verifiedEpoch'[j] = verifiedEpoch[j]
  BY <1>1, <1>3, <1>4, <1>5 DEF PieceTypes
<1>10. /\ LifeTypes' /\ LivesOK' /\ AgentTypes' /\ BusyHasPiece' /\ HashesApart'
       /\ NoZeroFillServed' /\ SeenIsStaged' /\ VerifiedIsGood'
       /\ \A b \in Agents : agent'[b].gen <= agent[b].gen
  <2>1. \A k \in Keys : \/ staging'[k] = None
                        \/ staging'[k] = staging[k] /\ verifiedEpoch'[k] = verifiedEpoch[k]
    BY <1>8, <1>9
  <2>2. agent[a].op \notin {"failed", "incomplete"} /\ agent[a].op # "idle"
    BY <1>2
  <2> QED
    BY <2>1, <2>2, <1>2, DropsBuffer
<1>11. GenerationsAgree'
  <2>1. \A k \in Keys :
         /\ staging'[k] # None => staging'[k].generation = epochs'[k]
         /\ lastRead'[k] # 0 => staging'[k] # None /\ lastRead'[k] = staging'[k].generation
         /\ verifiedEpoch'[k] <= epochs'[k] /\ epochs'[k] <= nextGeneration'
    BY <1>1, <1>2, <1>8, <1>9, StoreAssumption, SMTT(30) DEF GenerationsAgree, PieceTypes
  <2>2. \A b \in Agents : agent'[b].gen <= nextGeneration'
    <3>1. AgentTypes
      BY TypeParts DEF IInv
    <3> QED
      BY <3>1, <1>1, <1>2, <1>10, SMTT(30) DEF GenerationsAgree, AgentTypes, Activities, PieceTypes
  <2> QED
    BY <2>1, <2>2 DEF GenerationsAgree
<1>12. ClosedIsEmpty'
  BY <1>1, <1>2, <1>5, <1>8 DEF ClosedIsEmpty, lifeVars
<1> QED
  BY <1>8, <1>10, <1>11, <1>12, TypeParts DEF IInv

(* MarkNotComplete resets the buffer of its generation, and no other.        *)
LEMMA MarkNotCompleteStep ==
    ASSUME IInv, NEW a \in Agents, MarkNotComplete(a)
    PROVE  IInv'
<1>1. /\ PieceTypes /\ AgentTypes /\ GenerationsAgree /\ ClosedIsEmpty /\ OnlyVerifiedResident
  BY TypeParts DEF IInv
<1> DEFINE j == agent[a].key
           mine == staging[j] # None /\ agent[a].gen # 0 /\ staging[j].generation = agent[a].gen
<1>2. /\ agent[a].op = "incomplete" /\ Open(a) /\ Continue(a, "idle")
      /\ UNCHANGED lifeVars /\ epochs' = epochs /\ nextGeneration' = nextGeneration
      /\ verifiedEpoch' = verifiedEpoch
      /\ staging' = IF mine THEN [staging EXCEPT ![j] = None] ELSE staging
      /\ lastRead' = IF mine THEN [lastRead EXCEPT ![j] = 0] ELSE lastRead
      /\ content' = [k \in Keys |-> IF k \in {j} THEN None ELSE content[k]]
  BY DEF MarkNotComplete, Cache!Lose
<1>3. j \in Keys /\ Current(a, j) /\ phase[j[1]] = "open"
  BY <1>2, OpenFacts
<1>4. staging[j] # None => staging[j].generation # 0
  BY <1>1, <1>3, SMTT(30) DEF PieceTypes, Buffers
<1>5. mine <=> staging[j] # None /\ staging[j].generation = agent[a].gen
  BY <1>4
<1> HIDE DEF j, mine
<1>6. /\ staging' \in [Keys -> {None} \cup Buffers]
      /\ lastRead' \in [Keys -> 0 .. MaxGeneration]
      /\ \A k \in Keys : \/ k = j /\ mine /\ staging'[k] = None /\ lastRead'[k] = 0
                         \/ /\ staging'[k] = staging[k] /\ lastRead'[k] = lastRead[k]
                            /\ k = j => ~mine
  BY <1>1, <1>2, <1>3, StoreAssumption, SMTT(30) DEF PieceTypes
<1>7. PieceTypes' /\ OnlyVerifiedResident'
  BY <1>1, <1>2, <1>6 DEF PieceTypes, OnlyVerifiedResident
<1>8. /\ LifeTypes' /\ LivesOK' /\ AgentTypes' /\ BusyHasPiece' /\ HashesApart'
      /\ NoZeroFillServed' /\ SeenIsStaged' /\ VerifiedIsGood'
      /\ \A b \in Agents : agent'[b].gen <= agent[b].gen
  <2>1. \A k \in Keys : \/ staging'[k] = None
                        \/ /\ staging'[k] = staging[k] /\ verifiedEpoch'[k] = verifiedEpoch[k]
                           /\ ~(/\ agent[a].op \in {"failed", "incomplete"} /\ Current(a, k)
                                /\ staging[k] # None /\ agent[a].gen = staging[k].generation)
    BY <1>2, <1>5, <1>6 DEF Current, j
  <2>2. agent[a].op # "idle"
    BY <1>2
  <2> QED
    BY <2>1, <2>2, <1>2, DropsBuffer
<1>9. GenerationsAgree'
  <2>1. \A k \in Keys :
         /\ staging'[k] # None => staging'[k].generation = epochs'[k]
         /\ lastRead'[k] # 0 => staging'[k] # None /\ lastRead'[k] = staging'[k].generation
         /\ verifiedEpoch'[k] <= epochs'[k] /\ epochs'[k] <= nextGeneration'
    BY <1>1, <1>2, <1>6 DEF GenerationsAgree
  <2>2. \A b \in Agents : agent'[b].gen <= nextGeneration'
    BY <1>1, <1>2, <1>8, SMTT(30) DEF GenerationsAgree, AgentTypes, Activities, PieceTypes
  <2> QED
    BY <2>1, <2>2 DEF GenerationsAgree
<1>10. ClosedIsEmpty'
  BY <1>1, <1>2, <1>3, <1>6 DEF ClosedIsEmpty, lifeVars
<1> QED
  BY <1>7, <1>8, <1>9, <1>10, TypeParts DEF IInv

(* What a write does: the buffer of piece j becomes new, which is a fresh    *)
(* buffer, or has chunk c in place of the zeroes of the one in progress.     *)
Written(j, c, new) ==
    /\ staging'[j] = new /\ verifiedEpoch' = verifiedEpoch
    /\ \A k \in Keys : k # j => staging'[k] = staging[k] /\ lastRead'[k] = lastRead[k] /\ epochs'[k] = epochs[k]
    /\ staging[j] = None => /\ nextGeneration' = nextGeneration + 1 /\ new.generation = nextGeneration + 1
                            /\ lastRead'[j] = 0 /\ epochs'[j] = nextGeneration + 1
    /\ staging[j] # None => /\ UNCHANGED <<nextGeneration, epochs, lastRead>>
                            /\ new.generation = staging[j].generation
                            /\ c \in Chunks => staging[j].data[c] = "zero"
                            /\ c \notin Chunks => new = staging[j]
                            /\ \A i \in Chunks : i # c => new.data[i] = staging[j].data[i]

(* The generations still agree.                                              *)
LEMMA WriteGenerations ==
    ASSUME PieceTypes, AgentTypes, GenerationsAgree, NEW j \in Keys, NEW c, NEW new \in Buffers, Written(j, c, new),
           \A b \in Agents : agent'[b].gen \in Nat /\ agent'[b].gen <= agent[b].gen
    PROVE  GenerationsAgree'
<1>1. /\ verifiedEpoch \in [Keys -> 0 .. MaxGeneration] /\ epochs \in [Keys -> 0 .. MaxGeneration]
      /\ nextGeneration \in 0 .. MaxGeneration
  BY DEF PieceTypes
<1>2. nextGeneration \in Nat /\ nextGeneration' \in {nextGeneration, nextGeneration + 1}
  BY <1>1, StoreAssumption, SMTT(30) DEF Written
<1>3. ASSUME NEW k \in Keys
      PROVE  /\ staging'[k] # None => staging'[k].generation = epochs'[k]
             /\ lastRead'[k] # 0 => staging'[k] # None /\ lastRead'[k] = staging'[k].generation
             /\ verifiedEpoch'[k] <= epochs'[k] /\ epochs'[k] <= nextGeneration'
  <2>1. /\ staging[k] # None => staging[k].generation = epochs[k]
        /\ lastRead[k] # 0 => staging[k] # None /\ lastRead[k] = staging[k].generation
        /\ verifiedEpoch[k] <= epochs[k] /\ epochs[k] <= nextGeneration
        /\ verifiedEpoch[k] \in Nat /\ epochs[k] \in Nat
    BY <1>1, SMTT(30) DEF GenerationsAgree
  <2>2. CASE k # j
    BY <1>2, <2>1, <2>2, SMTT(30) DEF Written
  <2>3. CASE k = j /\ staging[j] = None
    BY <1>2, <2>1, <2>3, SMTT(30) DEF Written
  <2>4. CASE k = j /\ staging[j] # None
    BY <1>2, <2>1, <2>4, NoneAssumption DEF Written
  <2> QED
    BY <2>2, <2>3, <2>4
<1>4. ASSUME NEW b \in Agents PROVE agent'[b].gen <= nextGeneration'
  <2>1. agent[b].gen <= nextGeneration /\ agent[b].gen \in Nat
    BY SMTT(30) DEF GenerationsAgree, AgentTypes, Activities
  <2> QED
    BY <1>2, <2>1, SMTT(30)
<1> QED
  BY <1>3, <1>4 DEF GenerationsAgree

(* What a hash was given is what it would be given again: no hash was given  *)
(* zeroes, and no hash knows a fresh buffer.                                 *)
LEMMA WriteSeen ==
    ASSUME AgentTypes, BusyHasPiece, SeenIsStaged, GenerationsAgree, NoZeroFillServed, nextGeneration \in Nat,
           NEW j \in Keys, NEW c, NEW new \in Buffers, Written(j, c, new),
           \A b \in Agents : agent'[b].op = "hash" => agent'[b] = agent[b]
    PROVE  SeenIsStaged'
<1> SUFFICES ASSUME NEW b \in Agents, agent'[b].op = "hash" PROVE SeenAt(b)'
  BY DEF SeenIsStaged, SeenAt
<1>1. agent'[b] = agent[b] /\ agent[b].op = "hash"
  OBVIOUS
<1>2. agent[b].key \in Keys /\ SeenAt(b) /\ agent[b].gen <= nextGeneration /\ agent[b].gen \in Nat
  BY <1>1, SMTT(30) DEF BusyHasPiece, SeenIsStaged, GenerationsAgree, AgentTypes, Activities
<1>3. CASE agent[b].key # j
  BY <1>1, <1>2, <1>3, SMTT(30) DEF SeenAt, Written
<1>4. CASE agent[b].key = j /\ staging[j] = None
  <2>1. staging'[j].generation # agent[b].gen
    BY <1>2, <1>4, SMTT(30) DEF Written
  <2> QED
    BY <1>1, <1>4, <2>1 DEF SeenAt
<1>5. CASE agent[b].key = j /\ staging[j] # None
  <2>1. ASSUME staging[j].generation = agent[b].gen, NEW i \in 1 .. Len(agent[b].seen)
        PROVE  agent[b].seen[i] = new.data[i]
    <3>1. agent[b].seen[i] = staging[j].data[i]
      BY <1>1, <1>2, <1>5, <2>1 DEF SeenAt
    <3>2. agent[b].seen[i] # "zero"
      BY DEF NoZeroFillServed
    <3>3. i \in Chunks
      BY StoreAssumption, SMTT(30) DEF AgentTypes, Activities, Chunks
    <3> QED
      BY <1>5, <3>1, <3>2, <3>3 DEF Written
  <2>2. new.generation = staging[j].generation /\ staging'[j] = new
    BY <1>5 DEF Written
  <2> QED
    BY <1>1, <1>5, <2>1, <2>2 DEF SeenAt
<1> QED
  BY <1>3, <1>4, <1>5

(* A verified buffer has every chunk, so that it is not the one written.     *)
LEMMA WriteVerified ==
    ASSUME IInv, NEW a \in Agents, NEW j \in Keys, NEW c, NEW new \in Buffers, Written(j, c, new),
           torrents' = torrents, \A b \in Agents : b # a => agent'[b] = agent[b],
           agent'[a].op = "idle", agent[a].op = "write"
    PROVE  VerifiedIsGood'
<1> SUFFICES ASSUME NEW k \in Keys, staging'[k].generation = verifiedEpoch'[k]
             PROVE  VerifiedAt(k)'
  BY DEF VerifiedIsGood, VerifiedAt
<1>1. verifiedEpoch' = verifiedEpoch /\ staging'[j] = new
  BY DEF Written
<1>2. CASE staging'[k] = staging[k]
  <2>1. verifiedEpoch'[k] = verifiedEpoch[k]
    BY <1>1
  <2>2. agent'[a].op \notin {"hash", "passed", "complete"} /\ agent[a].op \notin {"failed", "incomplete"}
    OBVIOUS
  <2> QED
    BY <1>2, <2>1, <2>2, VerifiedKept
<1>3. CASE k = j /\ staging[j] = None
  <2>1. PieceTypes /\ GenerationsAgree
    BY TypeParts DEF IInv
  <2>2. verifiedEpoch[k] <= nextGeneration /\ verifiedEpoch[k] \in Nat /\ nextGeneration \in Nat
    <3>1. /\ verifiedEpoch \in [Keys -> 0 .. MaxGeneration] /\ epochs \in [Keys -> 0 .. MaxGeneration]
          /\ nextGeneration \in 0 .. MaxGeneration
      BY <2>1 DEF PieceTypes
    <3> QED
      BY <2>1, <3>1, SMTT(30) DEF GenerationsAgree
  <2>3. staging'[k].generation = nextGeneration + 1
    BY <1>3 DEF Written
  <2> QED
    BY <1>1, <2>2, <2>3, SMTT(30)
<1>4. CASE k = j /\ staging[j] # None /\ c \in Chunks
  <2>1. staging[k].generation = verifiedEpoch[k]
    BY <1>1, <1>4 DEF Written
  <2>2. Covers(staging[k], Chunks)
    BY <1>4, <2>1 DEF IInv, VerifiedIsGood, VerifiedAt
  <2> QED
    BY <1>4, <2>2 DEF Covers, Written
<1>5. CASE k # j \/ (staging[j] # None /\ c \notin Chunks)
  BY <1>2, <1>5 DEF Written
<1> QED
  BY <1>3, <1>4, <1>5

(* WriteAt: a new buffer has a generation no hash and no mark knows; a chunk *)
(* written to a buffer in progress is one that no hash was given, and the    *)
(* buffer is not a verified one, which has every chunk.                      *)
LEMMA WriteAtStep ==
    ASSUME IInv, NEW a \in Agents, NEW c \in Chunks \cup {0}, NEW v \in Received, WriteAt(a, c, v)
    PROVE  IInv'
<1>1. /\ PieceTypes /\ AgentTypes /\ GenerationsAgree /\ ClosedIsEmpty /\ OnlyVerifiedResident
      /\ BusyHasPiece /\ SeenIsStaged /\ VerifiedIsGood /\ NoZeroFillServed
  BY TypeParts DEF IInv
<1> DEFINE j == agent[a].key
           fresh == staging[j] = None
           buf == IF fresh THEN NewBuffer ELSE staging[j]
           new == IF c \in Chunks THEN [buf EXCEPT !.data[c] = v] ELSE buf
<1>2. /\ agent[a].op = "write" /\ Open(a) /\ Continue(a, "idle")
      /\ UNCHANGED lifeVars /\ verifiedEpoch' = verifiedEpoch
      /\ c \in Chunks => buf.data[c] = "zero"
      /\ staging' = [staging EXCEPT ![j] = new]
  BY DEF WriteAt
<1>3. fresh => /\ nextGeneration < MaxGeneration
               /\ nextGeneration' = nextGeneration + 1
               /\ epochs' = [epochs EXCEPT ![j] = nextGeneration + 1]
               /\ lastRead' = [lastRead EXCEPT ![j] = 0]
               /\ content' = [k \in Keys |-> IF k \in {j} THEN None ELSE content[k]]
  BY DEF WriteAt, Cache!Lose
<1>4. ~fresh => UNCHANGED <<nextGeneration, epochs, lastRead, content>>
  BY DEF WriteAt
<1>5. j \in Keys /\ phase[j[1]] = "open"
  BY <1>2, OpenFacts
<1>6. /\ buf \in Buffers
      /\ buf.generation = IF fresh THEN nextGeneration + 1 ELSE staging[j].generation
  <2>1. CASE fresh
    <3>1. [i \in Chunks |-> "zero"] \in Data /\ nextGeneration + 1 \in 1 .. MaxGeneration
      BY <2>1, <1>1, <1>3, StoreAssumption, SMTT(30) DEF Data, PieceTypes
    <3> QED
      BY <2>1, <3>1 DEF NewBuffer, Buffers
  <2>2. CASE ~fresh
    BY <2>2, <1>1, <1>5 DEF PieceTypes
  <2> QED
    BY <2>1, <2>2
<1>7. ~fresh => buf = staging[j]
  OBVIOUS
<1>8. /\ new \in Buffers /\ new.generation = buf.generation
      /\ \A i \in Chunks : i # c => new.data[i] = buf.data[i]
      /\ c \notin Chunks => new = buf
  <2> HIDE DEF buf
  <2>1. CASE c \in Chunks
    <3>1. buf.data \in [Chunks -> Received \cup {"zero"}]
      BY <1>6 DEF Buffers, Data
    <3>2. /\ [buf.data EXCEPT ![c] = v] \in Data
          /\ \A i \in Chunks : i # c => [buf.data EXCEPT ![c] = v][i] = buf.data[i]
      BY <3>1, <2>1 DEF Data
    <3>3. /\ new = [generation |-> buf.generation, data |-> [buf.data EXCEPT ![c] = v]]
      BY <2>1, <1>6 DEF Buffers
    <3>4. buf.generation \in 1 .. MaxGeneration
      BY <1>6 DEF Buffers
    <3> HIDE DEF new
    <3> QED
      BY <2>1, <3>2, <3>3, <3>4 DEF Buffers
  <2>2. CASE c \notin Chunks
    BY <2>2, <1>6
  <2> QED
    BY <2>1, <2>2
<1>9. (fresh <=> staging[j] = None) /\ verifiedEpoch' = verifiedEpoch
  BY <1>2
<1> HIDE DEF j, fresh, buf, new
<1>10. PICK x \in Activities :
        /\ agent' = [agent EXCEPT ![a] = x] /\ x.op = "idle" /\ x.seen = << >>
        /\ x.gen <= agent[a].gen
  BY <1>1, <1>2, ContinueFacts
<1>11. /\ AgentTypes' /\ BusyHasPiece' /\ HashesApart' /\ NoZeroFillServed'
       /\ agent'[a] = x /\ \A b \in Agents : b # a => agent'[b] = agent[b]
  <2>1. x.op \notin HashOps
    BY <1>10 DEF HashOps
  <2>2. /\ Len(x.seen) <= NumChunks /\ \A i \in 1 .. Len(x.seen) : x.seen[i] # "zero"
    BY <1>10, StoreAssumption, SMTT(30)
  <2> QED
    BY <1>10, <2>1, <2>2, GoesOn
<1>12. LifeTypes' /\ LivesOK' /\ torrents' = torrents /\ phase' = phase
  BY <1>2, LivesKept DEF lifeVars
<1>13. /\ staging' \in [Keys -> {None} \cup Buffers] /\ staging'[j] = new
       /\ \A k \in Keys : k # j => staging'[k] = staging[k]
  BY <1>1, <1>2, <1>5, <1>8 DEF PieceTypes
<1>14. /\ lastRead' \in [Keys -> 0 .. MaxGeneration]
       /\ epochs' \in [Keys -> 0 .. MaxGeneration]
       /\ nextGeneration' \in 0 .. MaxGeneration
       /\ \A k \in Keys : k # j => lastRead'[k] = lastRead[k] /\ epochs'[k] = epochs[k]
       /\ nextGeneration <= nextGeneration'
  <2>1. CASE fresh
    BY <2>1, <1>1, <1>3, <1>5, StoreAssumption, SMTT(30) DEF PieceTypes
  <2>2. CASE ~fresh
    BY <2>2, <1>1, <1>4, SMTT(30) DEF PieceTypes
  <2> QED
    BY <2>1, <2>2
<1>15. /\ content' \in [Keys -> {None} \cup Data]
       /\ \A k \in Keys : content'[k] \in {content[k], None}
  BY <1>1, <1>3, <1>4 DEF PieceTypes
<1>16. PieceTypes' /\ OnlyVerifiedResident'
  BY <1>1, <1>2, <1>13, <1>14, <1>15 DEF PieceTypes, OnlyVerifiedResident
<1>17. Written(j, c, new)
  <2>1. \A k \in Keys : k # j => staging'[k] = staging[k] /\ lastRead'[k] = lastRead[k] /\ epochs'[k] = epochs[k]
    BY <1>13, <1>14
  <2>2. CASE fresh
    <3>1. lastRead \in [Keys -> 0 .. MaxGeneration] /\ epochs \in [Keys -> 0 .. MaxGeneration]
      BY <1>1 DEF PieceTypes
    <3>2. lastRead'[j] = 0 /\ epochs'[j] = nextGeneration + 1 /\ nextGeneration' = nextGeneration + 1
      BY <2>2, <3>1, <1>3, <1>5
    <3>3. new.generation = nextGeneration + 1
      BY <2>2, <1>6, <1>8
    <3> QED
      BY <2>1, <2>2, <3>2, <3>3, <1>9, <1>13 DEF Written
  <2>3. CASE ~fresh
    <3>1. /\ new.generation = staging[j].generation
          /\ c \notin Chunks => new = staging[j]
          /\ \A i \in Chunks : i # c => new.data[i] = staging[j].data[i]
      BY <2>3, <1>6, <1>7, <1>8
    <3>2. c \in Chunks => staging[j].data[c] = "zero"
      BY <2>3, <1>2, <1>7
    <3> QED
      BY <2>1, <2>3, <3>1, <3>2, <1>4, <1>9, <1>13 DEF Written
  <2> QED
    BY <2>2, <2>3
<1>18. ClosedIsEmpty'
  BY <1>1, <1>2, <1>5, <1>12, <1>13, <1>14, <1>15, SMTT(30) DEF ClosedIsEmpty
<1>19. GenerationsAgree'
  <2>1. \A b \in Agents : agent'[b].gen \in Nat /\ agent'[b].gen <= agent[b].gen
    <3>1. \A b \in Agents : agent[b].gen \in Nat
      BY <1>1, SMTT(30) DEF AgentTypes, Activities
    <3> QED
      BY <3>1, <1>10, <1>11, SMTT(30) DEF Activities
  <2> QED
    BY <2>1, <1>1, <1>5, <1>8, <1>17, WriteGenerations
<1>20. SeenIsStaged'
  <2>1. \A b \in Agents : agent'[b].op = "hash" => agent'[b] = agent[b]
    BY <1>10, <1>11
  <2>2. nextGeneration \in Nat
    BY <1>1, SMTT(30) DEF PieceTypes
  <2> QED
    BY <2>1, <2>2, <1>1, <1>5, <1>8, <1>17, WriteSeen
<1>21. VerifiedIsGood'
  <2>1. agent'[a].op = "idle" /\ agent[a].op = "write"
    BY <1>2, <1>10, <1>11
  <2> QED
    BY <2>1, <1>5, <1>8, <1>11, <1>12, <1>17, WriteVerified
<1> QED
  BY <1>11, <1>12, <1>16, <1>18, <1>19, <1>20, <1>21, TypeParts DEF IInv

-----------------------------------------------------------------------------
(* The theorems *)

(* Every step keeps the invariant. *)
LEMMA NextIInv == IInv /\ [Next]_vars => IInv'
<1> SUFFICES ASSUME IInv, [Next]_vars PROVE IInv'
  OBVIOUS
<1>1. CASE UNCHANGED vars
  <2>1. /\ UNCHANGED <<torrents, lives, closedLives, closed, phase>>
        /\ UNCHANGED <<staging, lastRead, epochs, verifiedEpoch, nextGeneration, content, agent>>
    BY <1>1 DEF vars
  <2>2. /\ PieceTypes /\ GenerationsAgree /\ ClosedIsEmpty /\ OnlyVerifiedResident
    BY TypeParts DEF IInv
  <2>3. PieceTypes' /\ GenerationsAgree'
    BY <2>1, <2>2 DEF PieceTypes, GenerationsAgree
  <2>4. ClosedIsEmpty' /\ OnlyVerifiedResident'
    BY <2>1, <2>2 DEF ClosedIsEmpty, OnlyVerifiedResident
  <2>5. \A k \in Keys : Forgets(k)
    BY <2>1 DEF Forgets
  <2>6. LifeTypes' /\ LivesOK'
    BY <2>1, LivesKept DEF lifeVars
  <2> QED
    BY <2>1, <2>3, <2>4, <2>5, <2>6, ForgetsKeeps, TypeParts DEF IInv
<1>2. ASSUME NEW t \in Torrents,
             \/ OpenTorrent(t) \/ CloseTorrent(t) \/ InvalidateTorrent(t)
             \/ \E n \in 1 .. MaxLives : TorrentImplClose(t, n)
      PROVE  IInv'
  BY <1>2, OpenTorrentStep, CloseTorrentStep, InvalidateTorrentStep, TorrentImplCloseStep
<1>3. CASE Close \/ Evict \/ \E k \in Keys : FetchedPut(k)
  BY <1>3, CloseStep, EvictStep, FetchedPutStep
<1>4. ASSUME NEW a \in Agents,
             \E k \in Keys, n \in 1 .. MaxLives, op \in {"read", "write", "hash"} :
               PieceWithHash(a, k, n, op)
      PROVE  IInv'
  BY <1>4, PieceWithHashStep
<1>5. ASSUME NEW a \in Agents,
             \/ Refused(a) \/ Done(a) \/ HashWindow(a) \/ HashEnd(a) \/ TakeAgain(a)
             \/ MarkComplete(a) \/ MarkNotComplete(a)
      PROVE  IInv'
  BY <1>5, RefusedDoneStep, HashWindowStep, HashEndStep, TakeAgainStep, MarkCompleteStep,
     MarkNotCompleteStep
<1>6. ASSUME NEW a \in Agents,
             \/ \E c \in Chunks : ReadAt(a, c)
             \/ \E c \in Chunks \cup {0}, b \in Received : WriteAt(a, c, b)
      PROVE  IInv'
  BY <1>6, ReadAtStep, WriteAtStep
<1> QED
  BY <1>1, <1>2, <1>3, <1>4, <1>5, <1>6 DEF Next

(* The invariant holds throughout. *)
LEMMA Invariant == Spec => []IInv
BY InitIInv, NextIInv, PTL DEF Spec

(* Type correctness: every map of the store holds what it is declared to     *)
(* hold, and the generation maps agree with one another and with what the    *)
(* client holds, whatever WriteAt, WriteTo, the marks and Close do.          *)
THEOREM TypeCorrect == Spec => []TypeOK
<1>1. IInv => TypeOK
  BY DEF IInv
<1> QED
  BY <1>1, Invariant, PTL

(* Only pieces whose hash matched are resident: MarkComplete promotes only a *)
(* generation that a hash has verified, and a verified bad one is reset by   *)
(* MarkNotComplete before anything can promote it.                           *)
THEOREM OnlyVerifiedResidentAlways == Spec => []OnlyVerifiedResident
<1>1. IInv => OnlyVerifiedResident
  BY DEF IInv
<1> QED
  BY <1>1, Invariant, PTL

(* No read and no hash is ever served the zero fill of a chunk that has not  *)
(* been received (readAt of the staging buffer).                             *)
THEOREM NoZeroFillServedAlways == Spec => []NoZeroFillServed
<1>1. IInv => NoZeroFillServed
  BY DEF IInv
<1> QED
  BY <1>1, Invariant, PTL

(* Nothing is left of a closed torrent, and no late callback of an ended     *)
(* lifetime brings anything back (CloseTorrent, InvalidateTorrent, Close).   *)
THEOREM NothingAfterCloseAlways == Spec => []NothingAfterClose
<1>1. IInv => NothingAfterClose
  <2> SUFFICES ASSUME IInv, NEW t \in Torrents, phase[t] = "closed", NEW k \in KeysOf(t)
               PROVE  /\ staging[k] = None /\ content[k] = None
                      /\ lastRead[k] = 0 /\ epochs[k] = 0 /\ verifiedEpoch[k] = 0
    BY DEF NothingAfterClose
  <2>1. k \in Keys /\ k[1] = t
    BY KeyFacts
  <2> QED
    BY <2>1 DEF IInv, ClosedIsEmpty
<1> QED
  BY <1>1, Invariant, PTL

(* An activity of an ended lifetime leaves the store and the cache alone:    *)
(* each operation of a PieceImpl that writes to them asks lifecycleOpenLocked *)
(* first.                                                                    *)
LEMMA StaleActivity ==
    ASSUME IInv, [Next]_vars, NEW a \in Agents, agent'[a] # agent[a], agent[a].op # "idle",
           agent[a].life # torrents[agent[a].key[1]]
    PROVE  UNCHANGED <<torrents, staging, genVars, content>>
<1>1. ~Open(a)
  BY DEF Open, LifecycleOpen
<1>2. agent' # agent
  OBVIOUS
<1>3. AgentTypes
  BY TypeParts DEF IInv
<1>4. ASSUME NEW b \in Agents, NEW x, agent' = [agent EXCEPT ![b] = x] PROVE b = a
  BY <1>3, <1>4 DEF AgentTypes
<1>5. ASSUME NEW t \in Torrents,
             \/ OpenTorrent(t) \/ CloseTorrent(t) \/ InvalidateTorrent(t)
             \/ \E n \in 1 .. MaxLives : TorrentImplClose(t, n)
      PROVE  FALSE
  BY <1>2, <1>5 DEF OpenTorrent, CloseTorrent, InvalidateTorrent, TorrentImplClose, CloseLifecycle
<1>6. CASE Close \/ Evict \/ \E k \in Keys : FetchedPut(k)
  BY <1>2, <1>6 DEF Close, Evict, FetchedPut
<1>7. ASSUME NEW b \in Agents,
             \E k \in Keys, n \in 1 .. MaxLives, op \in {"read", "write", "hash"} :
               PieceWithHash(b, k, n, op)
      PROVE  FALSE
  <2>1. agent[b].op = "idle" /\ \E x : agent' = [agent EXCEPT ![b] = x]
    BY <1>7 DEF PieceWithHash
  <2> QED
    BY <2>1, <1>4
<1>8. ASSUME NEW b \in Agents,
             \/ HashWindow(b) \/ HashEnd(b) \/ MarkComplete(b) \/ MarkNotComplete(b)
             \/ \E c \in Chunks : ReadAt(b, c)
             \/ \E c \in Chunks \cup {0}, v \in Received : WriteAt(b, c, v)
      PROVE  FALSE
  <2>1. Open(b)
    BY <1>8 DEF HashWindow, HashEnd, MarkComplete, MarkNotComplete, ReadAt, WriteAt
  <2>2. \E x : agent' = [agent EXCEPT ![b] = x]
    BY <1>8 DEF HashWindow, HashEnd, MarkComplete, MarkNotComplete, ReadAt, WriteAt, Continue
  <2> QED
    BY <2>1, <2>2, <1>1, <1>4
<1>9. ASSUME NEW b \in Agents, Refused(b) \/ Done(b) \/ TakeAgain(b)
      PROVE  UNCHANGED <<torrents, staging, genVars, content>>
  BY <1>9 DEF Refused, Done, TakeAgain, lifeVars
<1>10. CASE UNCHANGED vars
  BY <1>2, <1>10 DEF vars
<1> QED
  BY <1>5, <1>6, <1>7, <1>8, <1>9, <1>10 DEF Next

(* Closing an ended lifetime again changes nothing but its closed bit.       *)
LEMMA StaleClose ==
    ASSUME IInv, NEW t \in Torrents, NEW n \in 1 .. MaxLives, TorrentImplClose(t, n), n # torrents[t]
    PROVE  UNCHANGED <<torrents, staging, genVars, content>>
<1>1. PieceTypes
  BY TypeParts DEF IInv
<1>2. /\ torrents' = torrents /\ nextGeneration' = nextGeneration /\ content' = content
      /\ staging' = [k \in Keys |-> staging[k]]
      /\ lastRead' = [k \in Keys |-> lastRead[k]]
      /\ epochs' = [k \in Keys |-> epochs[k]]
      /\ verifiedEpoch' = [k \in Keys |-> verifiedEpoch[k]]
  BY DEF TorrentImplClose, CloseLifecycle
<1>3. staging' = staging /\ lastRead' = lastRead /\ epochs' = epochs /\ verifiedEpoch' = verifiedEpoch
  BY <1>1, <1>2 DEF PieceTypes
<1> QED
  BY <1>2, <1>3 DEF genVars

(* What is left of an ended lifetime does not touch the torrent, the buffers *)
(* nor the resident pieces of the lifetime that replaced it                  *)
(* (closeTorrentLocked, lifecycleOpenLocked).                                *)
THEOREM StaleLifetimesAreHarmless == Spec => StaleLifetimesHarmless
<1> DEFINE Harmless ==
       /\ \A a \in Agents :
           agent'[a] # agent[a] /\ agent[a].op # "idle" /\ agent[a].life # torrents[agent[a].key[1]]
             => UNCHANGED <<torrents, staging, genVars, content>>
       /\ \A t \in Torrents, n \in 1 .. MaxLives :
           TorrentImplClose(t, n) /\ n # torrents[t]
             => UNCHANGED <<torrents, staging, genVars, content>>
<1>1. IInv /\ [Next]_vars => Harmless
  BY StaleActivity, StaleClose
<1>2. IInv /\ [Next]_vars => [Harmless]_vars
  BY <1>1
<1>3. StaleLifetimesHarmless <=> [][Harmless]_vars
  BY DEF StaleLifetimesHarmless
<1> HIDE DEF Harmless
<1> QED
  BY <1>2, <1>3, Invariant, PTL DEF Spec

=============================================================================
