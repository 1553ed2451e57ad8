------------------------------ MODULE ViewCache ------------------------------
(* The directory indexes of the FUSE mount (internal/filesystem/             *)
(* view_cache.go), for one torrent: versions of its contents in a snapshot   *)
(* cache, and one index per directory (prefix) of a version, built outside   *)
(* the lock by the first read that needs it while others wait for it.        *)
EXTENDS SnapshotCache

CONSTANTS
    Prefixes,       \* directories asked for; the first read may be of any
    Contents,       \* contents of the torrent that are a directory
    Has,            \* Has[c]: the directories contents c have
    SingleFile,     \* contents that are a single file
    MaxChanges      \* bound on changes of the source

VARIABLES source, changes, cache, version, op

vars == <<source, changes, cache, version, op>>

Versions == 1 .. Cardinality(Ops) + 1

NoVersion == [content |-> None, prefixes |-> [p \in Prefixes |-> "none"], building |-> FALSE]

Idle == [pc |-> "idle", prefix |-> None, view |-> None, version |-> None]

Init ==
    /\ source = None /\ changes = 0
    /\ cache = Empty
    /\ version = [v \in Versions |-> NoVersion]
    /\ op = [r \in Ops |-> Idle]

-----------------------------------------------------------------------------
VersionHeld(v, c, ops) == v = c.value \/ \E r \in Ops : v = ops[r].version

FreshVersion == CHOOSE v \in Versions : ~VersionHeld(v, cache, op)

(* versions nobody holds are garbage *)
Becomes(c, versions, ops) ==
    /\ cache' = c /\ op' = ops
    /\ version' = [v \in Versions |-> IF VersionHeld(v, c, ops) THEN versions[v] ELSE NoVersion]
    /\ UNCHANGED <<source, changes>>

Goes(r, pc) == [op EXCEPT ![r] = IF pc = "idle" THEN Idle ELSE [@ EXCEPT !.pc = pc]]

(* the torrent is added, changed or deleted *)
Change(s) ==
    /\ changes < MaxChanges /\ s # source
    /\ source' = s /\ changes' = changes + 1
    /\ UNCHANGED <<cache, version, op>>

(* torrentViews: listing the root or a category *)
ListBegin(r) ==
    /\ op[r] = Idle
    /\ Becomes(ObserveListing(cache, r), version, Goes(r, "list"))

ListAsk(r) ==
    /\ op[r].pc = "list"
    /\ Becomes(cache, version, [op EXCEPT ![r].pc = "listed", ![r].view = source])

ListFinish(r) ==
    /\ op[r].pc = "listed"
    /\ Becomes(FinishListing(cache, r, op[r].view # None), version, Goes(r, "idle"))

-----------------------------------------------------------------------------
(* directory: a lookup in, or a listing of, one directory of the torrent *)
DirectoryBegin(r, prefix) ==
    /\ op[r] = Idle
    /\ Becomes(Observe(cache, r), version,
               [op EXCEPT ![r] = [Idle EXCEPT !.pc = "ask", !.prefix = prefix]])

Ask(r) ==
    /\ op[r].pc = "ask"
    /\ Becomes(cache, version,
         [op EXCEPT ![r].view = source, ![r].pc = IF source \in Contents THEN "version" ELSE "forget"])

(* the torrent is gone, or a single file *)
ForgetView(r) ==
    /\ op[r].pc = "forget"
    /\ Becomes(Finish(Forget(cache, r), r), version, Goes(r, "idle"))

(* faulty: the version in the cache serves whatever the contents are now *)
MatchesAny(v, content) == TRUE

(* torrentDirectoryVersion.matches *)
Matches(v, content) == version[v].content = content

DirectoryVersion(r) ==
    LET fits == cache.value # None /\ Matches(cache.value, op[r].view)
        built == FreshVersion
    IN  /\ op[r].pc = "version"
        /\ IF fits
           THEN Becomes(cache, version, [Goes(r, "index") EXCEPT ![r].version = cache.value])
           ELSE Becomes(Publish(cache, r, built),
                        [version EXCEPT ![built] = [NoVersion EXCEPT !.content = op[r].view]],
                        [Goes(r, "index") EXCEPT ![r].version = built])

-----------------------------------------------------------------------------
(* indexForVersion: the index is there, or somebody builds it *)
IndexExisting(r) ==
    LET p == version[op[r].version].prefixes[op[r].prefix]
    IN  /\ op[r].pc = "index" /\ p # "none"
        /\ Becomes(cache, version, Goes(r, IF p = "built" THEN "finish" ELSE "ready"))

(* somebody builds the index of another directory of the version *)
IndexQueued(r) ==
    LET v == version[op[r].version]
    IN  /\ op[r].pc = "index" /\ v.prefixes[op[r].prefix] = "none" /\ v.building
        /\ Becomes(cache, version, Goes(r, "queued"))

IndexBegin(r) ==
    LET v == version[op[r].version]
    IN  /\ op[r].pc = "index" /\ v.prefixes[op[r].prefix] = "none" /\ ~v.building
        /\ Becomes(cache,
             [version EXCEPT ![op[r].version].prefixes[op[r].prefix] = "pending",
                             ![op[r].version].building = TRUE],
             Goes(r, "build"))

(* the readers a build wakes: those of its directory have their answer, the  *)
(* others look again                                                         *)
Woken(r) ==
    [q \in Ops |->
       IF op[q].version # op[r].version THEN op[q]
       ELSE IF op[q].pc = "ready" /\ op[q].prefix = op[r].prefix THEN [op[q] EXCEPT !.pc = "finish"]
       ELSE IF op[q].pc = "queued" THEN [op[q] EXCEPT !.pc = "index"]
       ELSE op[q]]

(* faulty: the index of a directory that does not exist is kept *)
RetainedAlways(r) == cache.value = op[r].version

Retained(r) == op[r].prefix \in Has[op[r].view] /\ cache.value = op[r].version

IndexEnd(r) ==
    /\ op[r].pc = "build"
    /\ Becomes(cache,
         [version EXCEPT ![op[r].version].prefixes[op[r].prefix] = IF Retained(r) THEN "built" ELSE "none",
                         ![op[r].version].building = FALSE],
         [Woken(r) EXCEPT ![r].pc = "finish"])

(* the deferred finish *)
DirectoryFinish(r) ==
    /\ op[r].pc = "finish"
    /\ Becomes(Finish(cache, r), version, Goes(r, "idle"))

-----------------------------------------------------------------------------
Step(r) ==
    \/ ListAsk(r) \/ ListFinish(r)
    \/ Ask(r) \/ ForgetView(r) \/ DirectoryVersion(r) \/ DirectoryFinish(r)
    \/ IndexExisting(r) \/ IndexQueued(r) \/ IndexBegin(r) \/ IndexEnd(r)

Begin(r) == ListBegin(r) \/ \E p \in Prefixes : DirectoryBegin(r, p)

Next ==
    \/ \E r \in Ops : Step(r) \/ Begin(r)
    \/ \E s \in Contents \cup SingleFile \cup {None} : Change(s)

Spec == Init /\ [][Next]_vars

-----------------------------------------------------------------------------
(* Correctness *)

Version == [content : Contents \cup {None}, prefixes : [Prefixes -> {"none", "pending", "built"}],
            building : BOOLEAN]

Holding == {"index", "queued", "ready", "build", "finish"}

Op == [pc : Holding \cup {"idle", "list", "listed", "ask", "forget", "version"},
       prefix : Prefixes \cup {None}, view : Contents \cup SingleFile \cup {None},
       version : Versions \cup {None}]

TypeOK ==
    /\ source \in Contents \cup SingleFile \cup {None}
    /\ cache \in Caches(Versions)
    /\ version \in [Versions -> Version]
    /\ op \in [Ops -> Op]

(* A read answers from an index of the contents it asked the session for,    *)
(* never from those of an older version that happens to be cached.           *)
AnswersFromOwnView ==
    \A r \in Ops : op[r].version # None => version[op[r].version].content = op[r].view

Builds(r, v, p, ops) == ops[r].version = v /\ ops[r].prefix = p /\ ops[r].pc = "build"

(* "Missing hashes and prefixes are never retained", and builds of a version *)
(* are serialised: a pending index has exactly one read building it, so no   *)
(* reader waits for a build nobody runs.                                     *)
PendingIsBuilt ==
    \A v \in Versions :
        /\ \A p \in Prefixes : version[v].prefixes[p] = "built" => p \in Has[version[v].content]
        /\ Cardinality({r \in Ops : op[r].version = v /\ op[r].pc = "build"}) <= 1
        /\ \A p \in Prefixes :
             version[v].prefixes[p] = "pending" <=> \E r \in Ops : Builds(r, v, p, op)

-----------------------------------------------------------------------------
(* Why: a read holds a version from the time it has one to its end; a        *)
(* version that is being built says so, so that no second read begins.       *)
ReadSound(r, versions, ops) ==
    /\ ops[r].version # None <=> ops[r].pc \in Holding
    /\ ops[r].pc \in Holding \cup {"version"} => ops[r].prefix \in Prefixes /\ ops[r].view \in Contents
    /\ ops[r].pc = "ask" => ops[r].prefix \in Prefixes
    /\ ops[r].version # None => versions[ops[r].version].content = ops[r].view
    /\ ops[r].pc = "build" => versions[ops[r].version].building
    /\ ops[r].pc = "build" => \A q \in Ops \ {r} : ops[q].version = ops[r].version => ops[q].pc # "build"

IndexSound(v, p, versions, ops) ==
    /\ versions[v].prefixes[p] = "built" => p \in Has[versions[v].content]
    /\ versions[v].prefixes[p] = "pending" <=> \E r \in Ops : Builds(r, v, p, ops)

Sound(versions, ops) ==
    /\ \A r \in Ops : ReadSound(r, versions, ops)
    /\ \A v \in Versions, p \in Prefixes : IndexSound(v, p, versions, ops)

Inductive == TypeOK /\ Sound(version, op)
=============================================================================
