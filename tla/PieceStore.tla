----------------------------- MODULE PieceStore -----------------------------
(***************************************************************************)
(* The piece store (internal/piecestore/store.go): the storage backend the  *)
(* BitTorrent client writes received chunks to, hashes pieces from and       *)
(* promotes verified pieces into the cache with.  Every exported operation   *)
(* runs under Store.mu and is one action; what happens between operations is *)
(* not atomic: the client takes a PieceImpl (which captures the epoch of the *)
(* piece) in one step and uses it in a later one, and a hash reads the piece *)
(* window by window.                                                         *)
(*                                                                          *)
(* The client (anacrolix/torrent) is external and is modelled by agents,     *)
(* each doing one thing at a time with a PieceImpl of some lifetime of a     *)
(* torrent, the current one or one that was closed.  Assumed of it: it       *)
(* hashes a piece of one torrent lifetime once at a time, it does not write  *)
(* a chunk that the current buffer has received, and it calls MarkComplete   *)
(* only for a piece whose hash matched.                                      *)
(*                                                                          *)
(* A piece is a sequence of NumChunks chunks, which are also the windows of  *)
(* a hash; the content of a chunk is "good" or "bad" (the hash of a piece    *)
(* matches when every chunk is good), and "zero" is the fill of a chunk not  *)
(* received.  The cache is the lossy map that PieceCache implements.         *)
(***************************************************************************)
EXTENDS Integers, FiniteSets, Sequences

CONSTANTS
    Torrents, Pieces,
    NumChunks,      \* chunks of a piece
    Agents,         \* concurrent activities of the client
    MaxGeneration,  \* bound on nextGeneration
    MaxLives,       \* bound on the lifetimes of one torrent
    None            \* no buffer, no resident value, no lifetime

ASSUME StoreAssumption ==
    /\ NumChunks \in Nat \ {0}
    /\ MaxGeneration \in Nat
    /\ MaxLives \in Nat

Keys == Torrents \X Pieces
Chunks == 1 .. NumChunks
Received == {"good", "bad"}
Data == [Chunks -> Received \cup {"zero"}]
Buffers == [generation : 1 .. MaxGeneration, data : Data]
AllGood == [c \in Chunks |-> "good"]

ASSUME NoneAssumption == None \notin Buffers

VARIABLES
    torrents,       \* torrents[t]: the current lifecycle of t, 0 if none
    lives,          \* lives[t]: the number of lifecycles created for t
    closedLives,    \* the lifecycles <<t, n>> whose closed bit is set
    staging,        \* staging[k]: None or the buffer of the download in progress
    lastRead, epochs, verifiedEpoch,   \* generations per key, 0 for absent
    nextGeneration,
    closed,         \* Store.closed
    content,        \* what the cache shows for each key
    phase,          \* the session's side of a torrent: closed, open, closing
    agent           \* what each activity of the client is doing

genVars == <<lastRead, epochs, verifiedEpoch, nextGeneration>>
lifeVars == <<torrents, lives, closedLives, closed, phase>>
vars == <<torrents, lives, closedLives, staging, lastRead, epochs, verifiedEpoch,
          nextGeneration, closed, content, phase, agent>>

Cache == INSTANCE LossyMap WITH Values <- Data

KeysOf(t) == {k \in Keys : k[1] = t}

Idle == [op |-> "idle", key |-> None, life |-> 0, gen |-> 0, seen |-> <<>>]

Init ==
    /\ torrents = [t \in Torrents |-> 0]
    /\ lives = [t \in Torrents |-> 0]
    /\ closedLives = {}
    /\ staging = [k \in Keys |-> None]
    /\ lastRead = [k \in Keys |-> 0]
    /\ epochs = [k \in Keys |-> 0]
    /\ verifiedEpoch = [k \in Keys |-> 0]
    /\ nextGeneration = 0
    /\ closed = FALSE
    /\ Cache!Init
    /\ phase = [t \in Torrents |-> "closed"]
    /\ agent = [a \in Agents |-> Idle]

(* lifecycleOpenLocked *)
LifecycleOpen(t, n) == ~closed /\ <<t, n>> \notin closedLives /\ torrents[t] = n

(* covers(0, length) and covers(c): whether the chunks have been received *)
Covers(buf, chunks) == \A c \in chunks : buf.data[c] # "zero"

-----------------------------------------------------------------------------
(* Lifetimes *)

OpenTorrent(t) ==
    /\ phase[t] = "closed" /\ ~closed /\ lives[t] < MaxLives
    /\ torrents[t] = 0 \/ <<t, torrents[t]>> \in closedLives
    /\ torrents' = [torrents EXCEPT ![t] = lives[t] + 1]
    /\ lives' = [lives EXCEPT ![t] = @ + 1]
    /\ phase' = [phase EXCEPT ![t] = "open"]
    /\ UNCHANGED <<closedLives, closed, staging, genVars, content, agent>>

CloseWhicheverIsCurrent(t, n) ==
    LET Cleared(f) == [k \in Keys |-> IF k \in KeysOf(t) THEN 0 ELSE f[k]]
    IN  /\ closedLives' = closedLives \cup {<<t, n>>}
        /\ torrents' = [torrents EXCEPT ![t] = 0]
        /\ staging' = [k \in Keys |-> IF k \in KeysOf(t) THEN None ELSE staging[k]]
        /\ lastRead' = Cleared(lastRead)
        /\ epochs' = Cleared(epochs)
        /\ verifiedEpoch' = Cleared(verifiedEpoch)
        /\ UNCHANGED <<lives, nextGeneration, closed, content, agent>>

(* closeTorrentLocked *)
CloseLifecycle(t, n) ==
    LET gone == IF torrents[t] = n THEN KeysOf(t) ELSE {}
        Cleared(f) == [k \in Keys |-> IF k \in gone THEN 0 ELSE f[k]]
    IN  /\ closedLives' = closedLives \cup {<<t, n>>}
        /\ torrents' = IF torrents[t] = n THEN [torrents EXCEPT ![t] = 0] ELSE torrents
        /\ staging' = [k \in Keys |-> IF k \in gone THEN None ELSE staging[k]]
        /\ lastRead' = Cleared(lastRead)
        /\ epochs' = Cleared(epochs)
        /\ verifiedEpoch' = Cleared(verifiedEpoch)
        /\ UNCHANGED <<lives, nextGeneration, closed, content, agent>>

(* Torrent.close of the session, in its order: CloseTorrent, then           *)
(* InvalidateTorrent on the cache.                                          *)
CloseTorrent(t) ==
    /\ phase[t] = "open"
    /\ phase' = [phase EXCEPT ![t] = "closing"]
    /\ CloseLifecycle(t, torrents[t])

InvalidateNothing(t) ==
    /\ phase[t] = "closing"
    /\ phase' = [phase EXCEPT ![t] = "closed"]
    /\ UNCHANGED <<torrents, lives, closedLives, closed, staging, genVars, content, agent>>

InvalidateTorrent(t) ==
    /\ phase[t] = "closing"
    /\ phase' = [phase EXCEPT ![t] = "closed"]
    /\ Cache!Lose(KeysOf(t))
    /\ UNCHANGED <<torrents, lives, closedLives, closed, staging, genVars, agent>>

(* TorrentImpl.Close, called by the client when it drops a torrent, which   *)
(* the session does after closing it: perhaps after it was added again.     *)
TorrentImplClose(t, n) ==
    /\ n \in 1 .. lives[t] /\ (n # torrents[t] \/ phase[t] # "open")
    /\ CloseLifecycle(t, n)
    /\ UNCHANGED phase

(* Store.Close, after every torrent is closed and the client is down *)
Close ==
    /\ ~closed /\ \A t \in Torrents : phase[t] = "closed"
    /\ closed' = TRUE
    /\ closedLives' = closedLives \cup {<<t, torrents[t]>> : t \in {u \in Torrents : torrents[u] # 0}}
    /\ torrents' = [t \in Torrents |-> 0]
    /\ staging' = [k \in Keys |-> None]
    /\ lastRead' = [k \in Keys |-> 0]
    /\ epochs' = [k \in Keys |-> 0]
    /\ verifiedEpoch' = [k \in Keys |-> 0]
    /\ UNCHANGED <<lives, nextGeneration, content, phase, agent>>

-----------------------------------------------------------------------------
(* The cache between the store's operations: it may evict, and the readers  *)
(* of an open torrent put the verified pieces they have read into it.       *)

Evict == \E lost \in SUBSET Keys : Cache!Lose(lost) /\ UNCHANGED <<lifeVars, staging, genVars, agent>>

FetchedPut(k) ==
    /\ phase[k[1]] = "open"
    /\ \E lost \in SUBSET Keys : Cache!Store(k, AllGood, lost)
    /\ UNCHANGED <<lifeVars, staging, genVars, agent>>

-----------------------------------------------------------------------------
(* The operations of a PieceImpl *)

Hashing(a, k, n) ==
    agent[a].op \in {"hash", "passed", "failed", "complete", "incomplete"}
      /\ agent[a].key = k /\ agent[a].life = n

(* PieceWithHash: the client takes a PieceImpl to read, write or hash piece k *)
PieceWithHash(a, k, n, op) ==
    /\ agent[a].op = "idle" /\ n \in 1 .. lives[k[1]]
    /\ op = "hash" => \A other \in Agents : ~Hashing(other, k, n)
    /\ agent' = [agent EXCEPT ![a] =
                   [op |-> op, key |-> k, life |-> n, gen |-> epochs[k], seen |-> <<>>]]
    /\ UNCHANGED <<lifeVars, staging, genVars, content>>

(* the agent is done with its PieceImpl, or goes on with it as op *)
Continue(a, op) ==
    agent' = [agent EXCEPT ![a] = IF op = "idle" THEN Idle ELSE [@ EXCEPT !.op = op]]

Open(a) == LifecycleOpen(agent[a].key[1], agent[a].life)

(* An operation of a PieceImpl whose lifetime is over, or of a closed store, *)
(* returns an error; so does a hash, whose piece the client then counts as   *)
(* failed.                                                                   *)
Refused(a) ==
    /\ agent[a].op \in {"read", "write", "hash", "complete", "incomplete"} /\ ~Open(a)
    /\ Continue(a, IF agent[a].op = "hash" THEN "failed" ELSE "idle")
    /\ UNCHANGED <<lifeVars, staging, genVars, content>>

NewBufferSameGeneration == [generation |-> nextGeneration, data |-> [c \in Chunks |-> "zero"]]

(* the buffer WriteAt finds or starts: a new generation of the piece *)
NewBuffer == [generation |-> nextGeneration + 1, data |-> [c \in Chunks |-> "zero"]]

(* WriteAt of chunk c; a range outside the piece is refused, but only after  *)
(* the buffer was started.                                                   *)
WriteAt(a, c, b) ==
    LET k == agent[a].key
        fresh == staging[k] = None
        buf == IF fresh THEN NewBuffer ELSE staging[k]
    IN  /\ agent[a].op = "write" /\ Open(a)
        /\ c \in Chunks => buf.data[c] = "zero"
        /\ fresh => nextGeneration < MaxGeneration
        /\ staging' = [staging EXCEPT ![k] =
                         IF c \in Chunks THEN [buf EXCEPT !.data[c] = b] ELSE buf]
        /\ IF fresh
           THEN /\ nextGeneration' = nextGeneration + 1
                /\ epochs' = [epochs EXCEPT ![k] = nextGeneration + 1]
                /\ lastRead' = [lastRead EXCEPT ![k] = 0]
                /\ Cache!Lose({k})
           ELSE UNCHANGED <<nextGeneration, epochs, lastRead, content>>
        /\ Continue(a, "idle")
        /\ UNCHANGED <<lifeVars, verifiedEpoch>>

ServedZeroFill(k, c) ==
    IF staging[k] # None THEN staging[k].data[c]
    ELSE IF content[k] # None THEN content[k][c] ELSE None

ServedResidentFirst(k, c) ==
    IF content[k] # None THEN content[k][c]
    ELSE IF staging[k] # None /\ Covers(staging[k], {c}) THEN staging[k].data[c] ELSE None

(* read: what one window of a PieceImpl is served, None when it is missing.  *)
(* The staging buffer hides the resident value.                              *)
Served(k, c) ==
    IF staging[k] # None
    THEN IF Covers(staging[k], {c}) THEN staging[k].data[c] ELSE None
    ELSE IF content[k] # None THEN content[k][c] ELSE None

NoteRead(k, c) ==
    lastRead' = IF staging[k] # None /\ Served(k, c) # None
                THEN [lastRead EXCEPT ![k] = staging[k].generation] ELSE lastRead

(* ReadAt of an ordinary reader; a missing window reports io.EOF, upon which *)
(* the client marks the piece not complete through the same PieceImpl.       *)
ReadAt(a, c) ==
    /\ agent[a].op = "read" /\ Open(a)
    /\ LET byte == Served(agent[a].key, c)
       IN  agent' = [agent EXCEPT ![a] =
             IF byte = None THEN [@ EXCEPT !.op = "incomplete"]
             ELSE [@ EXCEPT !.op = "done", !.seen = <<byte>>]]
    /\ NoteRead(agent[a].key, c)
    /\ UNCHANGED <<lifeVars, staging, epochs, verifiedEpoch, nextGeneration, content>>

Done(a) == agent[a].op = "done" /\ Continue(a, "idle") /\ UNCHANGED <<lifeVars, staging, genVars, content>>

(* WriteTo, one window after another *)
HashWindow(a) ==
    LET c == Len(agent[a].seen) + 1
    IN  /\ agent[a].op = "hash" /\ Open(a) /\ c <= NumChunks
        /\ LET byte == Served(agent[a].key, c)
           IN  agent' = [agent EXCEPT ![a] =
                 IF byte = None THEN [@ EXCEPT !.op = "failed"]
                 ELSE [@ EXCEPT !.seen = Append(agent[a].seen, byte)]]
        /\ NoteRead(agent[a].key, c)
        /\ UNCHANGED <<lifeVars, staging, epochs, verifiedEpoch, nextGeneration, content>>

(* markVerified *)
Verifies(k, generation) ==
    /\ generation # 0 /\ epochs[k] = generation
    /\ IF staging[k] # None
       THEN /\ staging[k].generation = generation
            /\ Covers(staging[k], Chunks)
            /\ lastRead[k] = generation
       ELSE content[k] # None

(* the end of WriteTo; the client compares the hash of what it was given,    *)
(* and may do so even when WriteTo reports an error at the end               *)
HashEnd(a) ==
    LET k == agent[a].key
        matches == agent[a].seen = AllGood
    IN  /\ agent[a].op = "hash" /\ Open(a) /\ Len(agent[a].seen) = NumChunks
        /\ \/ /\ Verifies(k, agent[a].gen)
              /\ verifiedEpoch' = [verifiedEpoch EXCEPT ![k] = agent[a].gen]
              /\ Continue(a, IF matches THEN "passed" ELSE "failed")
           \/ /\ ~Verifies(k, agent[a].gen)
              /\ UNCHANGED verifiedEpoch
              /\ \E op \in {"failed"} \cup (IF matches THEN {"passed"} ELSE {}) : Continue(a, op)
        /\ UNCHANGED <<lifeVars, staging, lastRead, epochs, nextGeneration, content>>

(* After the hash the client marks the piece through a fresh PieceImpl, or   *)
(* after an error through the one it has.                                    *)
TakeAgain(a) ==
    /\ agent[a].op \in {"passed", "failed"}
    /\ \E gen \in {epochs[agent[a].key]} \cup (IF agent[a].op = "failed" THEN {agent[a].gen} ELSE {}) :
         agent' = [agent EXCEPT ![a].op = IF @ = "passed" THEN "complete" ELSE "incomplete",
                                ![a].gen = gen]
    /\ UNCHANGED <<lifeVars, staging, genVars, content>>

PromotableUnverified(k, generation) ==
    /\ staging[k] # None /\ generation # 0 /\ staging[k].generation = generation
    /\ Covers(staging[k], Chunks)

Promotable(k, generation) ==
    /\ staging[k] # None /\ generation # 0 /\ staging[k].generation = generation
    /\ verifiedEpoch[k] = generation
    /\ Covers(staging[k], Chunks)

MarkComplete(a) ==
    LET k == agent[a].key
    IN  /\ agent[a].op = "complete" /\ Open(a)
        /\ IF Promotable(k, agent[a].gen)
           THEN /\ staging' = [staging EXCEPT ![k] = None]
                /\ lastRead' = [lastRead EXCEPT ![k] = 0]
                /\ verifiedEpoch' = [verifiedEpoch EXCEPT ![k] = 0]
                /\ \E lost \in SUBSET Keys : Cache!Store(k, staging[k].data, lost)
           ELSE UNCHANGED <<staging, lastRead, verifiedEpoch, content>>
        /\ Continue(a, "idle")
        /\ UNCHANGED <<lifeVars, epochs, nextGeneration>>

MarkNotCompleteKeepingRead(a) ==
    LET k == agent[a].key
        mine == staging[k] # None /\ agent[a].gen # 0 /\ staging[k].generation = agent[a].gen
    IN  /\ agent[a].op = "incomplete" /\ Open(a)
        /\ staging' = IF mine THEN [staging EXCEPT ![k] = None] ELSE staging
        /\ Cache!Lose({k})
        /\ Continue(a, "idle")
        /\ UNCHANGED <<lifeVars, lastRead, epochs, verifiedEpoch, nextGeneration>>

MarkNotComplete(a) ==
    LET k == agent[a].key
        mine == staging[k] # None /\ agent[a].gen # 0 /\ staging[k].generation = agent[a].gen
    IN  /\ agent[a].op = "incomplete" /\ Open(a)
        /\ staging' = IF mine THEN [staging EXCEPT ![k] = None] ELSE staging
        /\ lastRead' = IF mine THEN [lastRead EXCEPT ![k] = 0] ELSE lastRead
        /\ Cache!Lose({k})
        /\ Continue(a, "idle")
        /\ UNCHANGED <<lifeVars, epochs, verifiedEpoch, nextGeneration>>

Next ==
    \/ \E t \in Torrents :
         \/ OpenTorrent(t) \/ CloseTorrent(t) \/ InvalidateTorrent(t)
         \/ \E n \in 1 .. MaxLives : TorrentImplClose(t, n)
    \/ Close \/ Evict
    \/ \E k \in Keys : FetchedPut(k)
    \/ \E a \in Agents :
         \/ \E k \in Keys, n \in 1 .. MaxLives, op \in {"read", "write", "hash"} :
              PieceWithHash(a, k, n, op)
         \/ Refused(a) \/ Done(a) \/ HashWindow(a) \/ HashEnd(a) \/ TakeAgain(a)
         \/ MarkComplete(a) \/ MarkNotComplete(a)
         \/ \E c \in Chunks : ReadAt(a, c)
         \/ \E c \in Chunks \cup {0}, b \in Received : WriteAt(a, c, b)

Spec == Init /\ [][Next]_vars

-----------------------------------------------------------------------------
(* Correctness *)

(* The generation maps of a piece agree: its buffer belongs to its current   *)
(* epoch, a recorded read was of that buffer, and no PieceImpl holds a       *)
(* generation that was not handed out.                                       *)
GenerationsAgree ==
    /\ \A k \in Keys :
         /\ staging[k] # None => staging[k].generation = epochs[k]
         /\ lastRead[k] # 0 => staging[k] # None /\ lastRead[k] = staging[k].generation
         /\ verifiedEpoch[k] <= epochs[k] /\ epochs[k] <= nextGeneration
    /\ \A a \in Agents : agent[a].gen <= nextGeneration

Activities ==
    [op : {"idle", "read", "done", "write", "hash", "passed", "failed", "complete", "incomplete"},
     key : Keys \cup {None}, life : 0 .. MaxLives, gen : 0 .. MaxGeneration,
     seen : Seq(Received \cup {"zero"})]

(* Every map of the store holds what it is declared to hold, and the         *)
(* generation maps agree with one another.                                   *)
TypeOK ==
    /\ torrents \in [Torrents -> 0 .. MaxLives]
    /\ lives \in [Torrents -> 0 .. MaxLives]
    /\ closedLives \subseteq Torrents \X (0 .. MaxLives)
    /\ staging \in [Keys -> {None} \cup Buffers]
    /\ lastRead \in [Keys -> 0 .. MaxGeneration]
    /\ epochs \in [Keys -> 0 .. MaxGeneration]
    /\ verifiedEpoch \in [Keys -> 0 .. MaxGeneration]
    /\ nextGeneration \in 0 .. MaxGeneration
    /\ closed \in BOOLEAN
    /\ content \in [Keys -> {None} \cup Data]
    /\ phase \in [Torrents -> {"closed", "open", "closing"}]
    /\ agent \in [Agents -> Activities]
    /\ \A a \in Agents : Len(agent[a].seen) <= NumChunks
    /\ GenerationsAgree

(* Nothing is served from the cache, now or after any race of downloads,     *)
(* hashes, resets and reopened torrents, but pieces whose hash matched:      *)
(* "a generation that was never read cannot be promoted" (MarkComplete).     *)
OnlyVerifiedResident == \A k \in Keys : content[k] \in {None, AllGood}

(* "A read can never be served the zero fill of a region that is still in    *)
(* flight" (stagingBuffer).                                                  *)
NoZeroFillServed == \A a \in Agents : \A i \in 1 .. Len(agent[a].seen) : agent[a].seen[i] # "zero"

(* Once a torrent is closed and its cache entries invalidated nothing of it  *)
(* is left, and no late callback brings anything back.                       *)
NothingAfterClose ==
    \A t \in Torrents : phase[t] = "closed" =>
        \A k \in KeysOf(t) : /\ staging[k] = None /\ content[k] = None
                             /\ lastRead[k] = 0 /\ epochs[k] = 0 /\ verifiedEpoch[k] = 0

(* A step of a PieceImpl, or a TorrentImpl.Close, of a lifetime that is over *)
(* does not touch the torrent, the staging buffers nor the resident pieces   *)
(* of the lifetime that replaced it (closeTorrentLocked, markNotComplete).   *)
StaleLifetimesHarmless ==
    [][/\ \A a \in Agents :
           agent'[a] # agent[a] /\ agent[a].op # "idle" /\ agent[a].life # torrents[agent[a].key[1]]
             => UNCHANGED <<torrents, staging, genVars, content>>
       /\ \A t \in Torrents, n \in 1 .. MaxLives :
           TorrentImplClose(t, n) /\ n # torrents[t]
             => UNCHANGED <<torrents, staging, genVars, content>>]_vars

=============================================================================
