--------------------------- MODULE DirectoryCache ---------------------------
(* The directory versions of vfs.Tree (internal/vfs/tree.go), the Directory  *)
(* snapshots made of them, and the index of names the SMB server ties to a   *)
(* snapshot (internal/smb/names.go): one torrent, one directory of it.       *)
(*                                                                           *)
(* A snapshot that is cacheable keeps the cleanups the server registered on  *)
(* it and runs them when it is evicted.  Eviction happens outside the lock   *)
(* that removed its version from the cache.  A snapshot is identified by its *)
(* Version, which the server compares.                                       *)
EXTENDS SnapshotCache

CONSTANTS
    Directories,    \* contents that are a directory
    SingleFile,     \* contents that are a single file
    Places,         \* where the directory is (its virtual path and creation time)
    MaxChanges,     \* bound on changes of the source
    MaxSnapshots    \* bound on snapshots made

VARIABLES
    source, changes,
    cache, version, \* Tree.directories, and the directoryVersions it points to
    snapshot,
    nextVersion,
    index,          \* filesystem.indexes: the snapshot whose names are indexed
    op

vars == <<source, changes, cache, version, snapshot, nextVersion, index, op>>

(* enough for a read to build one: each other read may hold a version and    *)
(* one that it retires, and the cache holds one                              *)
Versions == 1 .. 2 * Cardinality(Ops)
Snapshots == 1 .. MaxSnapshots

NoVersion == [content |-> None, snapshot |-> None]
NoSnapshot == [place |-> None, cacheable |-> FALSE, cleanups |-> {}]

Idle == [pc |-> "idle", kind |-> None, place |-> None, view |-> None, version |-> None,
         snapshot |-> None, evicted |-> FALSE,
         retired |-> None, evicting |-> None, cleaning |-> {}, next |-> "idle"]

Init ==
    /\ source = None /\ changes = 0
    /\ cache = Empty
    /\ version = [v \in Versions |-> NoVersion]
    /\ snapshot = [s \in Snapshots |-> NoSnapshot]
    /\ nextVersion = 0 /\ index = None
    /\ op = [r \in Ops |-> Idle]

-----------------------------------------------------------------------------
VersionHeld(v, c, ops) == v = c.value \/ \E r \in Ops : v \in {ops[r].version, ops[r].retired}

FreshVersion == CHOOSE v \in Versions : ~VersionHeld(v, cache, op)

(* What nobody can reach is garbage; but the server counts on a snapshot     *)
(* until it is told of its eviction.                                         *)
Becomes(c, versions, snapshots, ops) ==
    LET live == [v \in Versions |-> IF VersionHeld(v, c, ops) THEN versions[v] ELSE NoVersion]
        held == {live[v].snapshot : v \in Versions} \cup UNION {{ops[r].evicting, ops[r].snapshot} : r \in Ops}
    IN  /\ cache' = c /\ op' = ops /\ version' = live
        /\ snapshot' = [s \in Snapshots |->
             IF s \in held \/ snapshots[s].cacheable THEN snapshots[s] ELSE NoSnapshot]
        /\ UNCHANGED <<source, changes>>

TreeStep == UNCHANGED <<nextVersion, index>>

Goes(r, pc) == [op EXCEPT ![r] = IF pc = "idle" THEN Idle ELSE [@ EXCEPT !.pc = pc]]

(* the torrent is added, changed or deleted *)
Change(s) ==
    /\ changes < MaxChanges /\ s # source
    /\ source' = s /\ changes' = changes + 1
    /\ UNCHANGED <<cache, version, snapshot, nextVersion, index, op>>

(* evictDirectoryVersion(old), then next *)
Retire(r, old, next) ==
    IF old = None THEN Goes(r, next)
    ELSE [op EXCEPT ![r].pc = "collect", ![r].retired = old, ![r].next = next]

Collect(r) ==
    LET s == version[op[r].retired].snapshot
    IN  /\ op[r].pc = "collect"
        /\ Becomes(cache, version, snapshot,
             [Goes(r, IF s = None THEN op[r].next ELSE "evict") EXCEPT ![r].retired = None, ![r].evicting = s])
        /\ TreeStep

(* Directory.evict: the cleanups are taken under the snapshot's lock and run *)
(* one after the other without it; each tells the read that registered it,   *)
(* and removes the index of the snapshot                                     *)
Evict(r) ==
    LET s == op[r].evicting
    IN  /\ op[r].pc = "evict"
        /\ Becomes(cache, version, [snapshot EXCEPT ![s].cacheable = FALSE, ![s].cleanups = {}],
                   [op EXCEPT ![r].pc = "clean", ![r].cleaning = snapshot[s].cleanups])
        /\ TreeStep

Clean(r, q) ==
    /\ op[r].pc = "clean" /\ q \in op[r].cleaning
    /\ Becomes(cache, version, snapshot,
         [w \in Ops |->
            IF w = r THEN [op[r] EXCEPT !.pc = "drop", !.cleaning = @ \ {q}, !.evicted = @ \/ q = r]
            ELSE [op[w] EXCEPT !.evicted = @ \/ q = w]])
    /\ TreeStep

Drop(r) ==
    /\ op[r].pc = "drop"
    /\ Becomes(cache, version, snapshot, Goes(r, "clean"))
    /\ index' = IF index = op[r].evicting THEN None ELSE index
    /\ UNCHANGED nextVersion

Cleaned(r) ==
    /\ op[r].pc = "clean" /\ op[r].cleaning = {}
    /\ Becomes(cache, version, snapshot, [Goes(r, op[r].next) EXCEPT ![r].evicting = None])
    /\ TreeStep

-----------------------------------------------------------------------------
(* Listing the root or a category (children) *)
ListBegin(r) ==
    /\ op[r] = Idle
    /\ Becomes(ObserveListing(cache, r), version, snapshot,
               [op EXCEPT ![r] = [Idle EXCEPT !.pc = "ask", !.kind = "list"]])
    /\ TreeStep

(* Opening the directory (OpenDir, directory) *)
OpenBegin(r, place) ==
    /\ op[r] = Idle
    /\ Becomes(Observe(cache, r), version, snapshot,
               [op EXCEPT ![r] = [Idle EXCEPT !.pc = "ask", !.kind = "open", !.place = place]])
    /\ TreeStep

Ask(r) ==
    /\ op[r].pc = "ask"
    /\ Becomes(cache, version, snapshot,
         [op EXCEPT ![r].view = source,
                    ![r].pc = IF op[r].kind = "list" THEN "candidates"
                              ELSE IF source \in Directories THEN "index" ELSE "forget"])
    /\ TreeStep

(* finishDirectoryListing: what may be retired, *)
Candidates(r) ==
    /\ op[r].pc = "candidates"
    /\ Becomes(cache, version, snapshot,
         [op EXCEPT ![r].pc = "finish", ![r].version = IF op[r].view = None THEN cache.value ELSE None])
    /\ TreeStep

FinishList(r) ==
    /\ op[r].pc = "finish" /\ op[r].kind = "list"
    /\ Becomes(FinishListing(cache, r, op[r].view # None), version, snapshot, Goes(r, "compare"))
    /\ TreeStep

(* and what was *)
Compare(r) ==
    /\ op[r].pc = "compare"
    /\ Becomes(cache, version, snapshot,
         [Retire(r, IF cache.value # op[r].version THEN op[r].version ELSE None, "idle")
            EXCEPT ![r].version = None])
    /\ TreeStep

-----------------------------------------------------------------------------
(* forgetDirectory *)
ForgetDirectory(r) ==
    LET now == Forget(cache, r)
    IN  /\ op[r].pc = "forget"
        /\ Becomes(now, version, snapshot,
                   Retire(r, IF now.value # cache.value THEN cache.value ELSE None, "finish"))
        /\ TreeStep

(* faulty: the version that is replaced is not retired *)
DirectoryIndexKeeping(r) ==
    LET fits == cache.value # None /\ version[cache.value].content = op[r].view
        built == FreshVersion
        now == IF fits THEN cache ELSE Publish(cache, r, built)
    IN  /\ op[r].pc = "index"
        /\ Becomes(now, IF fits THEN version ELSE [version EXCEPT ![built] = [NoVersion EXCEPT !.content = op[r].view]],
             snapshot, [Goes(r, "finish") EXCEPT ![r].version = IF fits THEN cache.value ELSE built])
        /\ TreeStep

(* directoryIndex *)
DirectoryIndex(r) ==
    LET fits == cache.value # None /\ version[cache.value].content = op[r].view
        built == FreshVersion
        now == IF fits THEN cache ELSE Publish(cache, r, built)
        retired == IF now # cache THEN cache.value ELSE None
    IN  /\ op[r].pc = "index"
        /\ Becomes(now, IF fits THEN version ELSE [version EXCEPT ![built] = [NoVersion EXCEPT !.content = op[r].view]],
             snapshot, [Retire(r, retired, "finish") EXCEPT ![r].version = IF fits THEN cache.value ELSE built])
        /\ TreeStep

(* the deferred finish of directory; what it found goes on to OpenDir *)
FinishOpen(r) ==
    /\ op[r].pc = "finish" /\ op[r].kind = "open"
    /\ Becomes(Finish(cache, r), version, snapshot,
               Goes(r, IF op[r].version = None THEN "idle" ELSE "snapshot"))
    /\ TreeStep

(* the snapshot returned, after the eviction of another *)
Returning(r, s, old) ==
    [op EXCEPT ![r] = [Idle EXCEPT !.kind = "open", !.snapshot = s, !.next = "names",
                                   !.pc = IF old = None THEN "names" ELSE "evict", !.evicting = old]]

Fits(r) ==
    LET s == version[op[r].version].snapshot IN s # None /\ snapshot[s].place = op[r].place

(* faulty: a snapshot that is reused is evicted, whoever owns it *)
ReuseEvicting(r) ==
    LET s == version[op[r].version].snapshot
    IN  /\ op[r].pc = "snapshot" /\ Fits(r)
        /\ Becomes(cache, version, snapshot, Returning(r, s, s))
        /\ TreeStep

(* the end of OpenDir: the snapshot of the index is reused, *)
Reuse(r) ==
    LET s == version[op[r].version].snapshot
    IN  /\ op[r].pc = "snapshot" /\ Fits(r)
        /\ Becomes(cache, version, snapshot,
                   Returning(r, s, IF cache.value = op[r].version THEN None ELSE s))
        /\ TreeStep

(* or replaced *)
Snap(r) ==
    LET s == nextVersion + 1
        v == op[r].version
    IN  /\ op[r].pc = "snapshot" /\ ~Fits(r) /\ s \in Snapshots
        /\ nextVersion' = s
        /\ Becomes(cache, [version EXCEPT ![v].snapshot = s],
             [snapshot EXCEPT ![s] = [place |-> op[r].place, cacheable |-> cache.value = v, cleanups |-> {}]],
             Returning(r, s, version[v].snapshot))
        /\ UNCHANGED index

-----------------------------------------------------------------------------
(* nameIndex: the names of the snapshot are indexed already, *)
NamesIndexed(r) ==
    /\ op[r].pc = "names" /\ index = op[r].snapshot
    /\ Becomes(cache, version, snapshot, Goes(r, "idle"))
    /\ TreeStep

(* or an index is built, and the server asks to be told of the snapshot's    *)
(* eviction (OnCacheEviction), which may be at once                          *)
Subscribe(r) ==
    LET s == op[r].snapshot
    IN  /\ op[r].pc = "names" /\ index # s
        /\ IF snapshot[s].cacheable
           THEN Becomes(cache, version, [snapshot EXCEPT ![s].cleanups = @ \cup {r}], Goes(r, "publish"))
           ELSE Becomes(cache, version, snapshot,
                  [op EXCEPT ![r].pc = "clean", ![r].cleaning = {r}, ![r].evicting = s, ![r].next = "publish"])
        /\ TreeStep

(* a cleanup outlives the read that registered it *)
Outlived(snapshots, r) ==
    [s \in Snapshots |-> IF r \in snapshots[s].cleanups
       THEN [snapshots[s] EXCEPT !.cleanups = (@ \ {r}) \cup {None}] ELSE snapshots[s]]

OutlivedIn(ops, r) ==
    [w \in Ops |-> IF r \in ops[w].cleaning
       THEN [ops[w] EXCEPT !.cleaning = (@ \ {r}) \cup {None}] ELSE ops[w]]

Published(r, s) ==
    /\ op[r].pc = "publish"
    /\ Becomes(cache, version, Outlived(snapshot, r), OutlivedIn(Goes(r, "idle"), r))
    /\ index' = s
    /\ UNCHANGED nextVersion

(* faulty: the index is published although its snapshot was just evicted *)
PublishNamesEvicted(r) ==
    Published(r, IF index # None /\ index >= op[r].snapshot THEN index ELSE op[r].snapshot)

(* the index of a newer snapshot stays; that of an evicted one is not kept *)
PublishNames(r) ==
    Published(r, IF (index # None /\ index >= op[r].snapshot) \/ op[r].evicted THEN index ELSE op[r].snapshot)

-----------------------------------------------------------------------------
Step(r) ==
    \/ Collect(r) \/ Evict(r) \/ (\E q \in Ops \cup {None} : Clean(r, q)) \/ Drop(r) \/ Cleaned(r)
    \/ Ask(r)
    \/ Candidates(r) \/ FinishList(r) \/ Compare(r)
    \/ ForgetDirectory(r) \/ DirectoryIndex(r) \/ FinishOpen(r) \/ Reuse(r) \/ Snap(r)
    \/ NamesIndexed(r) \/ Subscribe(r) \/ PublishNames(r)

Next ==
    \/ \E r \in Ops : Step(r) \/ ListBegin(r) \/ \E place \in Places : OpenBegin(r, place)
    \/ \E s \in Directories \cup SingleFile \cup {None} : Change(s)

Spec == Init /\ [][Next]_vars

-----------------------------------------------------------------------------
(* Correctness *)

TypeOK ==
    /\ cache.value \in Versions \cup {None}
    /\ \A r \in Ops : op[r].version # None => version[op[r].version].content # None
    /\ \A v \in Versions : version[v].snapshot # None => snapshot[version[v].snapshot] # NoSnapshot

(* "OnCacheEviction ties an adapter's auxiliary index to this snapshot's     *)
(* cache ownership": a snapshot that keeps cleanups is the one of the        *)
(* version in the cache, or a read is about to evict it.  However opens,     *)
(* listings and changes of the library overlap, none is orphaned with its    *)
(* cleanups never run.                                                       *)
CacheableIsOwned ==
    \A s \in Snapshots : snapshot[s].cacheable =>
        \/ cache.value # None /\ version[cache.value].snapshot = s
        \/ \E r \in Ops :
             \/ op[r].evicting = s
             \/ op[r].retired # None /\ version[op[r].retired].snapshot = s
             \/ op[r].pc = "compare" /\ op[r].version # None /\ version[op[r].version].snapshot = s

(* The other way round: no late eviction hits a snapshot of the version that *)
(* is in the cache, whose names would then be indexed anew on every use.     *)
OwnedIsCacheable ==
    cache.value # None /\ version[cache.value].snapshot # None =>
        snapshot[version[cache.value].snapshot].cacheable

(* The server keeps an index of names only as long as the snapshot it is     *)
(* made of: "the flag also closes the race between that callback and         *)
(* publication of this freshly built index" (nameIndex).                     *)
IndexOwned ==
    index # None =>
        \/ snapshot[index].cacheable
        \/ \E r \in Ops : op[r].evicting = index /\ op[r].pc \in {"clean", "drop"}

-----------------------------------------------------------------------------
(* Why.  c, vs, ss and ops are the cache, the versions, the snapshots and    *)
(* the reads, n is the last snapshot made and i the one indexed.             *)

Version == [content : Directories \cup {None}, snapshot : Snapshots \cup {None}]
Snapshot == [place : Places \cup {None}, cacheable : BOOLEAN, cleanups : SUBSET (Ops \cup {None})]
Op ==
    [pc : {"idle", "ask", "candidates", "finish", "compare", "forget", "index", "snapshot", "names", "publish",
           "collect", "evict", "clean", "drop"},
     kind : {None, "list", "open"}, place : Places \cup {None},
     view : Directories \cup SingleFile \cup {None}, version : Versions \cup {None},
     snapshot : Snapshots \cup {None}, evicted : BOOLEAN, retired : Versions \cup {None},
     evicting : Snapshots \cup {None}, cleaning : SUBSET (Ops \cup {None}),
     next : {"idle", "finish", "names", "publish"}]

StateOK(c, vs, ss, ops, n, i) ==
    /\ c \in Caches(Versions) /\ vs \in [Versions -> Version] /\ ss \in [Snapshots -> Snapshot]
    /\ ops \in [Ops -> Op] /\ n \in 0 .. MaxSnapshots /\ i \in Snapshots \cup {None}

(* what a read does, or will do after the eviction it is busy with *)
Away == {"collect", "evict", "clean", "drop"}
Stage(o) == IF o.pc \in Away THEN o.next ELSE o.pc

(* A read has what its stage needs; *)
StageSound(o, n) ==
    /\ o.retired # None <=> o.pc = "collect"
    /\ o.evicting # None <=> o.pc \in {"evict", "clean", "drop"}
    /\ o.kind = "open" /\ Stage(o) \in {"ask", "forget", "index", "finish", "snapshot"} => o.place \in Places
    /\ o.pc \in {"forget", "index", "snapshot"} \/ (o.pc \in Away /\ o.next = "finish") => o.kind = "open"
    /\ o.pc = "candidates" => o.kind = "list"
    /\ o.pc = "ask" => o.kind # None
    /\ o.pc = "collect" => o.next \in {"idle", "finish"}
    /\ o.pc = "evict" => o.next # "publish"
    /\ o.pc \in {"idle", "ask", "candidates", "forget", "index"} => o.version = None
    /\ o.pc = "index" => o.view \in Directories
    /\ o.pc = "snapshot" => o.version # None
    /\ Stage(o) \in {"names", "publish"} => o.snapshot # None
    /\ o.evicting # None => o.evicting <= n
    /\ o.snapshot # None => o.snapshot <= n

(* it retires and evicts only what is no longer in the cache, and a listing  *)
(* knows what it may have removed from it.                                   *)
HoldSound(o, seen, c, vs, ss) ==
    /\ o.version # None => vs[o.version].content # None
    /\ o.retired # None => o.retired # c.value
    /\ o.pc = "evict" /\ c.value # None => vs[c.value].snapshot # o.evicting
    /\ o.pc \in {"clean", "drop"} => ~ss[o.evicting].cacheable
    /\ o.pc = "finish" /\ o.kind = "list" /\ o.view = None /\ seen = "same" => o.version = c.value

(* An eviction of s that has still to tell q. *)
Tells(o, s, q) == o.evicting = s /\ o.pc \in {"clean", "drop"} /\ q \in o.cleaning

(* A read that is about to publish the names of a snapshot knows that it was *)
(* evicted, or will be told.                                                 *)
PublishSound(r, ss, ops) ==
    /\ ops[r].pc \in {"clean", "drop"} /\ ops[r].next = "publish" => ops[r].evicted \/ r \in ops[r].cleaning
    /\ ops[r].pc = "publish" /\ ~ops[r].evicted =>
         LET s == ops[r].snapshot
         IN  \/ ss[s].cacheable /\ r \in ss[s].cleanups
             \/ \E w \in Ops : Tells(ops[w], s, r)

(* Versions do not share snapshots, and the one in the cache has one that    *)
(* was not evicted.                                                          *)
VersionsSound(c, vs, ss, n) ==
    /\ c.value # None => vs[c.value].content # None
    /\ c.value # None /\ vs[c.value].snapshot # None => ss[vs[c.value].snapshot].cacheable
    /\ \A v \in Versions : vs[v].snapshot # None => vs[v].snapshot <= n /\ ss[vs[v].snapshot].place # None
    /\ \A v, w \in Versions : vs[v].snapshot # None /\ vs[v].snapshot = vs[w].snapshot => v = w

(* A read that will evict s. *)
Dooms(o, s, vs) ==
    \/ o.evicting = s
    \/ o.retired # None /\ vs[o.retired].snapshot = s
    \/ o.pc = "compare" /\ o.version # None /\ vs[o.version].snapshot = s

SnapshotsSound(c, vs, ss, ops, n) ==
    \A s \in Snapshots : ss[s].cacheable =>
        /\ s <= n
        /\ \/ c.value # None /\ vs[c.value].snapshot = s
           \/ \E r \in Ops : Dooms(ops[r], s, vs)

(* The names that are indexed will be dropped. *)
IndexSound(ss, ops, n, i) ==
    i # None =>
        /\ i <= n
        /\ \/ ss[i].cacheable /\ ss[i].cleanups # {}
           \/ \E r \in Ops :
                ops[r].evicting = i /\ (ops[r].pc = "drop" \/ (ops[r].pc = "clean" /\ ops[r].cleaning # {}))

Sound(c, vs, ss, ops, n, i) ==
    /\ StateOK(c, vs, ss, ops, n, i)
    /\ \A r \in Ops : StageSound(ops[r], n) /\ HoldSound(ops[r], c.obs[r], c, vs, ss) /\ PublishSound(r, ss, ops)
    /\ VersionsSound(c, vs, ss, n) /\ SnapshotsSound(c, vs, ss, ops, n) /\ IndexSound(ss, ops, n, i)

Inductive ==
    /\ source \in Directories \cup SingleFile \cup {None}
    /\ Sound(cache, version, snapshot, op, nextVersion, index)

=============================================================================
