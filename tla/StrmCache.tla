------------------------------ MODULE StrmCache ------------------------------
(* strmBackend (internal/vfs/strm_cache.go): the projection of a torrent's   *)
(* files to link files, cached per torrent.  One torrent with one generated  *)
(* file; it is deleted, added again or gets other contents at any time.      *)
(*                                                                           *)
(* Every read asks the source outside the cache's lock, so its answer may be *)
(* old when it comes to the cache.  epoch counts the changes of the source,  *)
(* and applied is the epoch of the answer the cache last acted on: both only *)
(* state properties.  The identity of a file's size is only compared with    *)
(* the one a read took along: the read records whether it is still the same. *)
EXTENDS SnapshotCache

CONSTANTS
    Contents,       \* what the torrent may contain
    WithFile,       \* those in which the file has the path that is asked for
    Sizes,          \* lengths of the text of the link
    MaxChanges      \* bound on changes of the source

VARIABLES source, epoch, cache, entry, op, applied

vars == <<source, epoch, cache, entry, op, applied>>

(* pointers to entries are drawn from a pool in which one is always free *)
Entries == 1 .. Cardinality(Ops) + 2

NoEntry == [content |-> None, created |-> 0, ready |-> FALSE, size |-> 0,
            projected |-> None, complete |-> FALSE, projecting |-> FALSE]

Idle == [pc |-> "idle", kind |-> None, view |-> None, epoch |-> 0, entry |-> None,
         sameSize |-> TRUE, signed |-> 0]

Init ==
    /\ source = None /\ epoch = 0
    /\ cache = Empty
    /\ entry = [e \in Entries |-> NoEntry]
    /\ op = [r \in Ops |-> Idle]
    /\ applied = 0

-----------------------------------------------------------------------------
Held(e, c, ops) == e = c.value \/ \E r \in Ops : ops[r].entry = e

FreshEntry == CHOOSE e \in Entries : ~Held(e, cache, op)

(* entries nobody can reach are garbage *)
Collected(entries, c, ops) == [e \in Entries |-> IF Held(e, c, ops) THEN entries[e] ELSE NoEntry]

Becomes(c, entries, ops) ==
    /\ cache' = c /\ op' = ops
    /\ entry' = Collected(entries, c, ops)

Goes(r, pc) == [op EXCEPT ![r].pc = pc]

Ended(r) == [op EXCEPT ![r] = Idle]

(* the end of payloadFile is the middle of FileStat; the others are done *)
Returned(r) ==
    IF op[r].kind = "stat" /\ op[r].entry # None
    THEN [op EXCEPT ![r].pc = "link", ![r].view = None, ![r].epoch = 0] ELSE Ended(r)

Max2(a, b) == IF a > b THEN a ELSE b

-----------------------------------------------------------------------------
(* The source changes: the torrent is added, gets other contents, is deleted *)
Change(s) ==
    /\ epoch < MaxChanges
    /\ s # source
    /\ epoch' = epoch + 1 /\ source' = s
    /\ UNCHANGED <<cache, entry, op, applied>>

Views == [content : Contents, created : 0 .. MaxChanges]

Add(c) == source = None /\ Change([content |-> c, created |-> epoch])

Update(c) == source # None /\ Change([source EXCEPT !.content = c])

Delete == source # None /\ Change(None)

(* strmBackend.Torrents begins *)
ListBegin(r) ==
    /\ op[r].pc = "idle"
    /\ Becomes(ObserveListing(cache, r), entry, [op EXCEPT ![r] = [Idle EXCEPT !.pc = "ask", !.kind = "list"]])
    /\ UNCHANGED <<source, epoch, applied>>

(* TorrentContents, and payloadFile when nothing is cached *)
Observes(r, kind) ==
    Becomes(Observe(cache, r), entry, [op EXCEPT ![r] = [Idle EXCEPT !.pc = "ask", !.kind = kind]])

NarrowBegin(r) ==
    /\ op[r].pc = "idle"
    /\ Observes(r, "narrow")
    /\ UNCHANGED <<source, epoch, applied>>

(* FileStat or OpenFileSnapshot: cachedPayloadFile *)
StatBegin(r) ==
    /\ op[r].pc = "idle" /\ cache.value # None
    /\ Becomes(cache, entry, [op EXCEPT ![r] = [Idle EXCEPT !.pc = "cached", !.kind = "stat",
                                                            !.entry = cache.value]])
    /\ UNCHANGED <<source, epoch, applied>>

StatCached(r) ==
    /\ op[r].pc = "cached" /\ entry[op[r].entry].ready
    /\ entry[op[r].entry].content \in WithFile
    /\ Becomes(cache, entry, [op EXCEPT ![r].pc = "link", ![r].sameSize = TRUE])
    /\ UNCHANGED <<source, epoch, applied>>

StatMisses(r) ==
    /\ \/ op[r].pc = "idle" /\ cache.value = None
       \/ op[r].pc = "cached" /\ entry[op[r].entry].ready /\ entry[op[r].entry].content \notin WithFile
    /\ Observes(r, "stat")
    /\ UNCHANGED <<source, epoch, applied>>

(* the source answers *)
Ask(r) ==
    /\ op[r].pc = "ask"
    /\ op' = [op EXCEPT ![r].view = source, ![r].epoch = epoch,
                        ![r].pc = IF source # None THEN "project"
                                  ELSE IF op[r].kind = "list" THEN "finish" ELSE "forget"]
    /\ UNCHANGED <<source, epoch, cache, entry, applied>>

-----------------------------------------------------------------------------
Matches(e, view) == e # None /\ entry[e].content = view.content

(* refreshCreatedAtLocked *)
Refreshes(r) ==
    Unchanged(cache, r) /\ entry[cache.value].created # op[r].view.created

(* projectTorrent, when another read has built the mapping or is building it *)
ProjectShared(r) ==
    LET e == cache.value
        now == IF Refreshes(r) THEN Altered(cache) ELSE cache
        entries == IF Refreshes(r) THEN [entry EXCEPT ![e].created = op[r].view.created] ELSE entry
    IN  /\ op[r].pc = "project" /\ Matches(e, op[r].view)
        /\ Becomes(now, entries, [op EXCEPT ![r].pc = "mapping", ![r].entry = e])
        /\ applied' = IF Refreshes(r) THEN op[r].epoch ELSE applied
        /\ UNCHANGED <<source, epoch>>

(* or when it has to *)
ProjectNew(r) ==
    LET built == FreshEntry
        now == Publish(cache, r, built)
    IN  /\ op[r].pc = "project" /\ ~Matches(cache.value, op[r].view)
        /\ Becomes(now, [entry EXCEPT ![built] = [NoEntry EXCEPT !.content = op[r].view.content,
                                                                 !.created = op[r].view.created]],
                   [op EXCEPT ![r].pc = "build", ![r].entry = built])
        /\ applied' = IF now # cache THEN op[r].epoch ELSE applied
        /\ UNCHANGED <<source, epoch>>

Build(r) ==
    /\ op[r].pc = "build"
    /\ Becomes(cache, [entry EXCEPT ![op[r].entry].ready = TRUE], Goes(r, "mapping"))
    /\ UNCHANGED <<source, epoch, applied>>

(* with the mapping, FileStat goes on to its file, the others to the sizes *)
Mapped(r) ==
    /\ op[r].pc = "mapping" /\ entry[op[r].entry].ready
    /\ Becomes(cache, entry,
         IF op[r].kind # "stat" THEN Goes(r, "sizes")
         ELSE [op EXCEPT ![r].pc = "finish", ![r].sameSize = TRUE,
                         ![r].entry = IF entry[@].content \in WithFile THEN @ ELSE None])
    /\ UNCHANGED <<source, epoch, applied>>

-----------------------------------------------------------------------------
(* projectionLocked *)
Projection(e) ==
    IF e.projected # None THEN e
    ELSE [e EXCEPT !.projected = e.size, !.complete = e.size # 0]

(* the size of the entry changes: its identity is no longer the one reads took *)
Resized(e, ops) ==
    [r \in Ops |-> IF ops[r].entry = e THEN [ops[r] EXCEPT !.sameSize = FALSE] ELSE ops[r]]

(* projectedFiles: a complete projection is returned, another read's attempt *)
(* is waited for,                                                            *)
SizesShared(r) ==
    LET e == op[r].entry
    IN  /\ op[r].pc = "sizes" /\ (entry[e].complete \/ entry[e].projecting)
        /\ IF entry[e].complete
           THEN Becomes(cache, [entry EXCEPT ![e] = Projection(@)], Goes(r, "finish"))
           ELSE Becomes(cache, entry, Goes(r, "pending"))
        /\ UNCHANGED <<source, epoch, applied>>

(* or the link is signed, *)
SizesAttempt(r, size) ==
    /\ op[r].pc = "sizes" /\ ~entry[op[r].entry].complete /\ ~entry[op[r].entry].projecting
    /\ entry[op[r].entry].size # 0 => size = 0
    /\ Becomes(cache, [entry EXCEPT ![op[r].entry].projecting = TRUE],
               [op EXCEPT ![r].pc = "signed", ![r].signed = size])
    /\ UNCHANGED <<source, epoch, applied>>

Released(e, ops) ==
    [q \in Ops |-> IF ops[q].pc = "pending" /\ ops[q].entry = e THEN [ops[q] EXCEPT !.pc = "shared"] ELSE ops[q]]

(* faulty: the size a live stat found meanwhile is overwritten, behind the   *)
(* back of the projection                                                    *)
SizesOverwritten(r) ==
    LET e == op[r].entry
        known == [entry[e] EXCEPT !.size = IF op[r].signed # 0 THEN op[r].signed ELSE @]
    IN  /\ op[r].pc = "signed"
        /\ Becomes(cache, [entry EXCEPT ![e] = [Projection(known) EXCEPT !.projecting = FALSE]],
                   Released(e, Goes(r, "finish")))
        /\ UNCHANGED <<source, epoch, applied>>

(* and recorded unless a live stat was faster *)
SizesSigned(r) ==
    LET e == op[r].entry
        news == op[r].signed # 0 /\ entry[e].size = 0
        known == IF news THEN [entry[e] EXCEPT !.size = op[r].signed, !.projected = None] ELSE entry[e]
        ops == Released(e, Goes(r, "finish"))
    IN  /\ op[r].pc = "signed"
        /\ Becomes(cache, [entry EXCEPT ![e] = [Projection(known) EXCEPT !.projecting = FALSE]],
                   IF news THEN Resized(e, ops) ELSE ops)
        /\ UNCHANGED <<source, epoch, applied>>

(* a read that waited takes the projection as the attempt left it *)
SizesWaited(r) ==
    /\ op[r].pc = "shared"
    /\ Becomes(cache, [entry EXCEPT ![op[r].entry] = Projection(@)], Goes(r, "finish"))
    /\ UNCHANGED <<source, epoch, applied>>

-----------------------------------------------------------------------------
(* a narrow read that found no torrent: the deferred finish follows *)
Absent(r) ==
    LET now == Forget(cache, r)
    IN  /\ op[r].pc = "forget"
        /\ Becomes(now, entry, Goes(r, "finish"))
        /\ applied' = IF Unchanged(cache, r) THEN Max2(applied, op[r].epoch) ELSE applied
        /\ UNCHANGED <<source, epoch>>

FinishNarrow(r) ==
    /\ op[r].pc = "finish" /\ op[r].kind # "list"
    /\ Becomes(Finish(cache, r), entry, Returned(r))
    /\ UNCHANGED <<source, epoch, applied>>

FinishList(r) ==
    LET now == FinishListing(cache, r, op[r].view # None)
    IN  /\ op[r].pc = "finish" /\ op[r].kind = "list"
        /\ Becomes(now, entry, Ended(r))
        /\ applied' = IF op[r].view = None /\ ~now.slot THEN Max2(applied, op[r].epoch) ELSE applied
        /\ UNCHANGED <<source, epoch>>

(* FileStat signs the link, or fails to, and remembers the size of its text  *)
(* (rememberTextSize)                                                        *)
LinkFails(r) ==
    /\ op[r].pc = "link"
    /\ Becomes(cache, entry, Ended(r))
    /\ UNCHANGED <<source, epoch, applied>>

Link(r, size) ==
    /\ op[r].pc = "link"
    /\ Becomes(cache, entry, [op EXCEPT ![r].pc = "remember", ![r].signed = size])
    /\ UNCHANGED <<source, epoch, applied>>

Remember(r) ==
    LET e == op[r].entry
        news == cache.value = e /\ op[r].sameSize /\ entry[e].size # op[r].signed
    IN  /\ op[r].pc = "remember"
        /\ IF news
           THEN Becomes(cache, [entry EXCEPT ![e].size = op[r].signed, ![e].projected = None,
                                             ![e].complete = FALSE],
                        [Resized(e, op) EXCEPT ![r] = Idle])
           ELSE Becomes(cache, entry, Ended(r))
        /\ UNCHANGED <<source, epoch, applied>>

-----------------------------------------------------------------------------
Begin(r) == ListBegin(r) \/ NarrowBegin(r) \/ StatBegin(r) \/ (op[r].pc = "idle" /\ StatMisses(r))

Step(r) ==
    \/ StatCached(r) \/ (op[r].pc # "idle" /\ StatMisses(r)) \/ Ask(r)
    \/ ProjectShared(r) \/ ProjectNew(r) \/ Build(r) \/ Mapped(r)
    \/ SizesShared(r) \/ SizesSigned(r) \/ SizesWaited(r)
    \/ Absent(r) \/ FinishNarrow(r) \/ FinishList(r) \/ LinkFails(r) \/ Remember(r)
    \/ \E size \in Sizes : SizesAttempt(r, size) \/ Link(r, size)
    \/ SizesAttempt(r, 0)

Next ==
    \/ \E r \in Ops : Begin(r) \/ Step(r)
    \/ \E c \in Contents : Add(c) \/ Update(c)
    \/ Delete

Spec == Init /\ [][Next]_vars

-----------------------------------------------------------------------------
(* Correctness *)

Entry == [content : Contents \cup {None}, created : Nat, ready : BOOLEAN, size : Sizes \cup {0},
          projected : Sizes \cup {0, None}, complete : BOOLEAN, projecting : BOOLEAN]

(* between observing the hash and finishing *)
Observing == {"ask", "project", "build", "mapping", "sizes", "pending", "signed", "shared", "forget", "finish"}

Op == [pc : Observing \cup {"idle", "cached", "link", "remember"},
       kind : {"list", "narrow", "stat", None}, view : Views \cup {None}, epoch : Nat,
       entry : Entries \cup {None}, sameSize : BOOLEAN, signed : Sizes \cup {0}]

TypeOK ==
    /\ source \in Views \cup {None}
    /\ epoch \in 0 .. MaxChanges /\ applied \in Nat
    /\ cache \in Caches(Entries)
    /\ entry \in [Entries -> Entry]
    /\ op \in [Ops -> Op]

(* "late results cannot recreate a deleted entry" and "must not replace or   *)
(* resurrect the cache": whichever way listings, narrow reads and stats       *)
(* overlap changes of the library, the cache never acts on an answer of the  *)
(* source that is older than one it has acted on (publishLocked,             *)
(* forgetLocked, finishListing, refreshCreatedAtLocked).                     *)
ActsOnNewer == applied' >= applied

NoStalePublication == [][ActsOnNewer]_vars

(* A placeholder belongs to a read that is still going on: no read, whatever *)
(* else happens to the hash meanwhile, leaves one behind (forgetLocked,       *)
(* publishLocked, finish).                                                   *)
PlaceholdersOwned ==
    cache.slot /\ cache.value = None =>
        \E r \in Ops : op[r].kind \in {"narrow", "stat"} /\ cache.obs[r] = "same"

Fresh(e) == e.projected # None => e.projected = e.size /\ e.complete = (e.size # 0)

(* A projection that is kept shows the sizes that are known, and is complete *)
(* only if all are: neither a live stat nor a signing attempt that ends late *)
(* leaves an old one behind (projectedFiles, rememberTextSize).              *)
ProjectionFresh == \A e \in Entries : Fresh(entry[e])

-----------------------------------------------------------------------------
(* Why: a read that observed the hash, and nothing has happened to it since, *)
(* has an answer at least as new as the last one the cache acted on.  So has *)
(* a listing that saw no slot, unless the cache holds something now: when    *)
(* that is forgotten the listing is told.                                    *)
AnswerSound(r) ==
    op[r].pc = "project" =>
        /\ cache.obs[r] = "same" => applied <= op[r].epoch
        /\ cache.obs[r] = "none" /\ ~Fenced(cache, r) => cache.value # None \/ applied <= op[r].epoch

ReadSound(r) ==
    /\ op[r].pc \notin Observing => cache.obs[r] = "none"
    /\ op[r].pc \in Observing =>
         \/ op[r].kind = "list" /\ cache.listing[r] # None
         \/ op[r].kind \in {"narrow", "stat"} /\ cache.obs[r] # "none"
    /\ cache.obs[r] = "same" => cache.slot
    /\ op[r].epoch <= epoch

CacheSound ==
    /\ applied <= epoch
    /\ cache.value # None => cache.slot
    /\ PlaceholdersOwned
    /\ \A r \in Ops : ReadSound(r) /\ AnswerSound(r)

(* what a read needs is there *)
OperandsKnown(o, entries) ==
    /\ o.entry # None => entries[o.entry].content # None
    /\ o.pc \in {"cached", "build", "mapping", "sizes", "pending", "signed", "shared", "link", "remember"}
         => o.entry # None
    /\ o.pc = "project" => o.view # None

EntriesSound ==
    /\ cache.value # None => entry[cache.value].content # None
    /\ ProjectionFresh
    /\ \A r \in Ops : OperandsKnown(op[r], entry)

Inductive == TypeOK /\ CacheSound /\ EntriesSound

=============================================================================
