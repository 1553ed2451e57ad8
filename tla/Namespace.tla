------------------------------ MODULE Namespace ------------------------------
(***************************************************************************)
(* The names at the root of the mount and inside its categories: torrents,  *)
(* categories and the managed subtitles of single-file torrents             *)
(* (internal/session: category.go, subtitle.go, subtitle_store.go, and      *)
(* internal/vfs/layout.go).  A single-file torrent and its subtitles lie    *)
(* side by side in the directory of the torrent's category, so each new     *)
(* torrent, category, subtitle or move can take a name another one needs.   *)
(*                                                                          *)
(* rootNamespaceMu serializes these decisions; an upload holds it across    *)
(* its disk I/O, a deletion does not take it.  Adding and error are one     *)
(* state here: the torrent has a name but is not shown.  deleting also      *)
(* stands for delete_failed.                                                *)
(***************************************************************************)
EXTENDS StateFile, Integers

CONSTANTS
    Torrents,      \* info hashes, in the order the names are assigned
    Name, Single,  \* of each torrent: its name, whether it is a single file
    Suffixed,      \* of each torrent: its name with the hash appended
    Sidecars,      \* of each torrent: the subtitles its video may have
    Default,       \* the one of them subtitleTargetMapLocked looks at (.srt)
    CategoryNames, \* the names categories are created with
    MaxFaults,     \* bound on failed writes
    MaxCrashes,
    None

Root == "root"   \* no category

VARIABLES
    up,                                    \* whether the session is active
    states, categories, subtitles,         \* its maps, under s.mu
    upload,                                \* the upload that holds rootNamespaceMu
    entryFile, categoryFile,               \* state sidecars, categories.json
    final, pending,                        \* metainfo and magnet files
    store, staging,                        \* subtitle files, torrents with a staging file
    stale,                                 \* torrents whose index a failed deletion left behind
    faults, crashes

vars == <<up, states, categories, subtitles, upload, entryFile, categoryFile, final, pending,
          store, staging, stale, faults, crashes>>

Init ==
    /\ up = TRUE
    /\ states = [t \in Torrents |-> None] /\ categories = {} /\ subtitles = [t \in Torrents |-> {}]
    /\ upload = None
    /\ entryFile = [t \in Torrents |-> FileOf(None)] /\ categoryFile = FileOf({})
    /\ final = {} /\ pending = {}
    /\ store = [t \in Torrents |-> {}] /\ staging = {} /\ stale = {}
    /\ faults = 0 /\ crashes = 0

-----------------------------------------------------------------------------
(* Layout.  V maps the visible torrents to their categories, C is the set of *)
(* categories.                                                               *)

Visible(s, t) == s[t] # None /\ s[t].state = "ready"

(* filesystemViewsLocked *)
Views(s) == [t \in {u \in Torrents : Visible(s, u)} |-> s[t].category]

(* rootEntriesForCategory and uniqueTorrentName: the first torrent of that   *)
(* name keeps it, unless it is reserved; the others get their hash appended  *)
RootName(t, V, C) ==
    IF \/ V[t] = Root /\ Name[t] \in C
       \/ \E u \in DOMAIN V : u < t /\ V[u] = V[t] /\ Name[u] = Name[t]
    THEN Suffixed[t] ELSE Name[t]

(* what else occupies the directory of category c *)
Reserved(c, C) == IF c = Root THEN C ELSE {}
OtherNames(t, c, V, C) ==
    Reserved(c, C) \cup {RootName(u, V, C) : u \in {v \in DOMAIN V : v # t /\ V[v] = c}}

(* subtitleLayoutConflictLocked *)
Shadowed(t, V, C, subs) == subs[t] \cap OtherNames(t, V[t], V, C)
LayoutConflict(V, C, subs) ==
    \E t \in DOMAIN V :
        /\ Single[t] /\ subs[t] # {}
        /\ RootName(t, V, C) # Name[t] \/ Shadowed(t, V, C, subs) # {}

(* V with t in category c *)
Placed(V, t, c) == [u \in DOMAIN V \cup {t} |-> IF u = t THEN c ELSE V[u]]

(* faulty: only torrents that come before the new one are protected *)
NamespaceConflictLater(t, c, V, C, subs) ==
    /\ \E u \in DOMAIN V : u < t /\ Single[u] /\ subs[u] # {}
    /\ LayoutConflict(Placed(V, t, c), C, subs)

(* subtitleNamespaceConflictLocked: the layout with one more torrent *)
NamespaceConflict(t, c, V, C, subs) ==
    /\ \E u \in DOMAIN V \ {t} : Single[u] /\ subs[u] # {}
    /\ LayoutConflict(Placed(V, t, c), C, subs)

(* CategoryNameConflicts *)
CategoryConflict(c, V, C, subs) ==
    \/ c \in {RootName(t, V, C) : t \in {u \in DOMAIN V : V[u] = Root}}
    \/ \E t \in DOMAIN V : V[t] = Root /\ Single[t] /\ c \in subs[t]

(* subtitleTargetMapLocked: whether the video of t takes subtitles *)
Uploadable(t, V, C, subs) ==
    Single[t] =>
        /\ RootName(t, V, C) = Name[t]
        /\ Default[t] \notin OtherNames(t, V[t], V, C)
        /\ \A u \in DOMAIN V \ {t} : Single[u] /\ V[u] = V[t] => Default[t] \notin subs[u]

-----------------------------------------------------------------------------
(* Files *)

Io(o) == IF o = "ok" THEN UNCHANGED faults ELSE faults < MaxFaults /\ faults' = faults + 1

(* writeRegistryEntryLocked, and what its callers do with the result *)
WriteEntry(t, e, o) ==
    /\ Io(o)
    /\ entryFile' = [entryFile EXCEPT ![t] = Written(@, e, o)]
    /\ states' = IF o = "ok" THEN [states EXCEPT ![t] = e] ELSE states

WriteCategories(C, o) == Io(o) /\ categoryFile' = Written(categoryFile, C, o)

Entry(s, c) == [state |-> s, category |-> c]

Busy(t) == up /\ upload = None /\ (states[t] # None => states[t].state # "deleting")

CategoryOf(t) == IF states[t] = None THEN Root ELSE states[t].category

-----------------------------------------------------------------------------
(* Categories *)

(* faulty: the new category stays when it could not be written *)
CreateCategoryEager(c, o) ==
    /\ up /\ upload = None /\ c \notin categories
    /\ ~CategoryConflict(c, Views(states), categories, subtitles)
    /\ WriteCategories(categories \cup {c}, o)
    /\ categories' = categories \cup {c}
    /\ UNCHANGED <<up, states, subtitles, upload, entryFile, final, pending, store, staging, stale, crashes>>

CreateCategory(c, o) ==
    /\ up /\ upload = None /\ c \notin categories
    /\ ~CategoryConflict(c, Views(states), categories, subtitles)
    /\ WriteCategories(categories \cup {c}, o)
    /\ categories' = IF o = "ok" THEN categories \cup {c} ELSE categories
    /\ UNCHANGED <<up, states, subtitles, upload, entryFile, final, pending, store, staging, stale, crashes>>

(* the views with t in category c, if it is shown at all *)
Moved(t, c) == [u \in DOMAIN Views(states) |-> IF u = t THEN c ELSE Views(states)[u]]

SetTorrentCategory(t, c, o) ==
    /\ Busy(t) /\ states[t] # None
    /\ c \in categories \cup {Root} /\ c # states[t].category
    /\ ~LayoutConflict(Moved(t, c), categories, subtitles)
    /\ WriteEntry(t, [states[t] EXCEPT !.category = c], o)
    /\ UNCHANGED <<up, categories, subtitles, upload, categoryFile, final, pending, store, staging, stale, crashes>>

-----------------------------------------------------------------------------
(* Torrents *)

(* publishGuardedMetainfo *)
Publishable(t) == ~NamespaceConflict(t, CategoryOf(t), Views(states), categories, subtitles)

(* AddTorrentAndPersist with a metainfo: guarded, published, recorded; a     *)
(* metainfo this call created is removed when the record fails               *)
AddTorrent(t, o) ==
    /\ Busy(t)
    /\ Publishable(t)
    /\ WriteEntry(t, Entry("ready", CategoryOf(t)), o)
    /\ final' = IF o = "ok" THEN final \cup {t} ELSE final
    /\ pending' = IF o = "ok" THEN pending \ {t} ELSE pending
    /\ UNCHANGED <<up, categories, subtitles, upload, categoryFile, store, staging, stale, crashes>>

(* AddTorrentAndPersist with a magnet *)
AddMagnet(t, o) ==
    /\ Busy(t) /\ states[t] = None /\ t \notin final
    /\ WriteEntry(t, Entry("adding", Root), o)
    /\ pending' = IF o = "ok" THEN pending \cup {t} ELSE pending
    /\ UNCHANGED <<up, categories, subtitles, upload, categoryFile, final, store, staging, stale, crashes>>

(* the metadata worker: the same guard, with the category the torrent has by *)
(* now; a metainfo that was published stays when the record fails            *)
Resolve(t, o) ==
    /\ Busy(t) /\ states[t] # None /\ states[t].state = "adding"
    /\ Publishable(t)
    /\ WriteEntry(t, Entry("ready", CategoryOf(t)), o)
    /\ final' = final \cup {t}
    /\ pending' = IF o = "ok" THEN pending \ {t} ELSE pending
    /\ UNCHANGED <<up, categories, subtitles, upload, categoryFile, store, staging, stale, crashes>>

(* deleteByHash: the marker *)
DeleteByHash(t, o) ==
    /\ up /\ states[t] # None /\ states[t].state # "deleting"
    /\ upload # None => upload.torrent # t
    /\ WriteEntry(t, [states[t] EXCEPT !.state = "deleting"], o)
    /\ UNCHANGED <<up, categories, subtitles, upload, categoryFile, final, pending, store, staging, stale, crashes>>

(* removeManagedSubtitlesForDelete.  left is what could not be removed; only *)
(* the attempt that removes the tree and syncs the store clears the index,   *)
(* one that finds no tree does not                                           *)
RemoveSubtitles(t, left, o) ==
    LET found == store[t] # {} \/ t \in staging
        cleared == o = "ok" /\ found
    IN  /\ Io(o)
        /\ o # "ok" => found
        /\ IF o = "failed" THEN left # {} \/ t \in staging ELSE left = {}
        /\ store' = [store EXCEPT ![t] = left]
        /\ staging' = IF o = "failed" THEN staging ELSE staging \ {t}
        /\ subtitles' = IF cleared THEN [subtitles EXCEPT ![t] = {}] ELSE subtitles
        /\ stale' = IF cleared THEN stale \ {t} ELSE IF o = "unsynced" THEN stale \cup {t} ELSE stale

(* performDelete, which attempts every stage *)
PerformDelete(t, left, o) ==
    /\ up /\ states[t] # None /\ states[t].state = "deleting"
    /\ final' = final \ {t} /\ pending' = pending \ {t}
    /\ RemoveSubtitles(t, left, o)
    /\ IF o = "ok"
       THEN /\ entryFile' = [entryFile EXCEPT ![t] = FileOf(None)]
            /\ states' = [states EXCEPT ![t] = None]
       ELSE UNCHANGED <<entryFile, states>>
    /\ UNCHANGED <<up, categories, upload, categoryFile, crashes>>

-----------------------------------------------------------------------------
(* Subtitles *)

(* UploadSubtitle: the checks, and the staging file *)
UploadSubtitle(t, p) ==
    /\ Busy(t) /\ Visible(states, t) /\ p \in Sidecars[t]
    /\ Uploadable(t, Views(states), categories, subtitles)
    /\ upload' = [torrent |-> t, path |-> p, renamed |-> FALSE]
    /\ staging' = staging \cup {t}
    /\ UNCHANGED <<up, states, categories, subtitles, entryFile, categoryFile, final, pending, store, stale, faults, crashes>>

(* a write that fails; the error of the clean-up is ignored *)
UploadFailed(left) ==
    /\ up /\ upload # None /\ ~upload.renamed
    /\ staging' = IF left THEN staging ELSE staging \ {upload.torrent}
    /\ upload' = None
    /\ UNCHANGED <<up, states, categories, subtitles, entryFile, categoryFile, final, pending, store, stale, faults, crashes>>

UploadRename ==
    /\ up /\ upload # None /\ ~upload.renamed
    /\ store' = [store EXCEPT ![upload.torrent] = @ \cup {upload.path}]
    /\ staging' = staging \ {upload.torrent}
    /\ upload' = [upload EXCEPT !.renamed = TRUE]
    /\ UNCHANGED <<up, states, categories, subtitles, entryFile, categoryFile, final, pending, stale, faults, crashes>>

(* faulty: an error of subtitleCommitSteps fails the upload *)
UploadCommitStrict(o) ==
    /\ up /\ upload # None /\ upload.renamed
    /\ Io(o)
    /\ subtitles' = IF o = "ok" THEN [subtitles EXCEPT ![upload.torrent] = @ \cup {upload.path}] ELSE subtitles
    /\ upload' = None
    /\ UNCHANGED <<up, states, categories, entryFile, categoryFile, final, pending, store, staging, stale, crashes>>

(* past the rename nothing fails the upload: an error of subtitleCommitSteps *)
(* is logged                                                                 *)
UploadCommit(o) ==
    /\ up /\ upload # None /\ upload.renamed
    /\ Io(o)
    /\ subtitles' = [subtitles EXCEPT ![upload.torrent] = @ \cup {upload.path}]
    /\ upload' = None
    /\ UNCHANGED <<up, states, categories, entryFile, categoryFile, final, pending, store, staging, stale, crashes>>

-----------------------------------------------------------------------------
(* Crash and start *)

Crash ==
    /\ up /\ crashes < MaxCrashes
    /\ crashes' = crashes + 1
    /\ up' = FALSE /\ upload' = None
    /\ states' = [t \in Torrents |-> None] /\ categories' = {} /\ subtitles' = [t \in Torrents |-> {}]
    /\ stale' = {}
    /\ \E f \in [Torrents -> UNION {AfterPowerFailure(entryFile[t]) : t \in Torrents}] :
         /\ \A t \in Torrents : f[t] \in AfterPowerFailure(entryFile[t])
         /\ entryFile' = f
    /\ categoryFile' \in AfterPowerFailure(categoryFile)
    /\ UNCHANGED <<final, pending, store, staging, faults>>

(* loadRegistry and restoreRegistryEntries: what they accept, and the states *)
(* they restore                                                              *)
RegistryAccepted(e, C) ==
    \A t \in Torrents : e[t] # None =>
        /\ e[t].category \in C \cup {Root}
        /\ e[t].state = "ready" => t \in final
        /\ e[t].state = "adding" => t \in final \cup pending

Restored(e) ==
    [t \in Torrents |-> IF e[t] # None /\ e[t].state = "adding" /\ t \in final
                        THEN [e[t] EXCEPT !.state = "ready"] ELSE e[t]]

(* loadManagedSubtitles: directory by directory, each against the subtitles  *)
(* of the directories before it                                              *)
Kept(s) == [t \in Torrents |-> IF Visible(s, t) THEN store[t] ELSE {}]
SubtitlesAccepted(s, C) ==
    \A t \in Torrents :
        Kept(s)[t] # {} =>
            Uploadable(t, Views(s), C, [u \in Torrents |-> IF u < t THEN Kept(s)[u] ELSE {}])

Entries == [t \in Torrents |-> entryFile[t].now]

(* loadCategories *)
LoadedCategories == categoryFile.now

Accepted ==
    /\ RegistryAccepted(Entries, LoadedCategories)
    /\ SubtitlesAccepted(Restored(Entries), LoadedCategories)

(* walkFiles removes the staging files it meets *)
Swept(s) == {t \in staging : ~Visible(s, t)}

(* the stages of session.New *)
Start ==
    /\ ~up
    /\ IF Accepted
       THEN LET s == Restored(Entries)
            IN  /\ up' = TRUE
                /\ states' = s /\ categories' = LoadedCategories /\ subtitles' = Kept(s)
                /\ entryFile' = [t \in Torrents |->
                                    IF s[t] # Entries[t] THEN FileOf(s[t]) ELSE entryFile[t]]
                /\ pending' = {t \in pending : ~Visible(s, t)}
                /\ staging' = Swept(s)
       ELSE UNCHANGED <<up, states, categories, subtitles, entryFile, pending, staging>>
    /\ UNCHANGED <<upload, categoryFile, final, store, stale, faults, crashes>>

-----------------------------------------------------------------------------
Outcomes == {"ok", "failed", "unsynced"}

Next ==
    \/ \E o \in Outcomes :
         \/ \E c \in CategoryNames : CreateCategory(c, o)
         \/ \E t \in Torrents :
              \/ AddTorrent(t, o) \/ AddMagnet(t, o) \/ Resolve(t, o) \/ DeleteByHash(t, o)
              \/ \E c \in CategoryNames \cup {Root} : SetTorrentCategory(t, c, o)
              \/ \E left \in SUBSET store[t] : PerformDelete(t, left, o)
         \/ UploadCommit(o)
    \/ \E t \in Torrents : \E p \in Sidecars[t] : UploadSubtitle(t, p)
    \/ \E left \in BOOLEAN : UploadFailed(left)
    \/ UploadRename
    \/ Crash
    \/ Start

Spec == Init /\ [][Next]_vars

-----------------------------------------------------------------------------
(* Correctness *)

(* what a state sidecar holds *)
Records == [state : {"adding", "ready", "deleting"}, category : CategoryNames \cup {Root}]

TypeOK ==
    /\ up \in BOOLEAN
    /\ \A t \in Torrents :
         /\ states[t] # None => states[t] \in Records
         /\ subtitles[t] \subseteq Sidecars[t] /\ store[t] \subseteq Sidecars[t]
    /\ categories \subseteq CategoryNames
    /\ upload # None => upload.torrent \in Torrents /\ upload.path \in Sidecars[upload.torrent]
    /\ final \subseteq Torrents /\ pending \subseteq Torrents /\ staging \subseteq Torrents
    /\ faults \in 0 .. MaxFaults /\ crashes \in 0 .. MaxCrashes

(* A video that has subtitles is shown under its own name, and nothing else  *)
(* takes the name of its default subtitle: whatever is added, moved, created *)
(* or restored later, in any order, and across failed writes and restarts    *)
(* (subtitleLayoutConflictLocked, CategoryNameConflicts and                  *)
(* subtitleTargetMapLocked together).                                        *)
PairsIntact ==
    LET V == Views(states)
    IN  \A t \in DOMAIN V \ stale :
            Single[t] /\ subtitles[t] # {} =>
                /\ RootName(t, V, categories) = Name[t]
                /\ Default[t] \in subtitles[t] => Default[t] \notin OtherNames(t, V[t], V, categories)

(* Every category that a state sidecar refers to is in categories.json,      *)
(* whatever a power failure would leave of the two: loadRegistry, which      *)
(* refuses to start on an unknown category, never does so on the session's   *)
(* own files (CreateCategory, SetTorrentCategory).                           *)
CategoriesOutliveReferences ==
    \A t \in Torrents : \A e \in AfterPowerFailure(entryFile[t]) : \A c \in AfterPowerFailure(categoryFile) :
        e.now # None => e.now.category \in c.now \cup {Root}

(* Between uploads the index of a visible torrent lists exactly the files in *)
(* its store directory, so that a restart shows the same subtitles: an       *)
(* upload is in the index once it is renamed (UploadSubtitle: "the index     *)
(* would disagree with the mount about what exists"), and a torrent that is  *)
(* deleted and added again starts without the old ones, unless the sync of   *)
(* its deletion failed.                                                      *)
IndexMatchesStore ==
    \A t \in Torrents \ stale :
        up /\ Visible(states, t) /\ (upload # None => upload.torrent # t) => subtitles[t] = store[t]

(* A layout that the session let come about is one its next start accepts:   *)
(* loadManagedSubtitles refuses only "the persisted state an older build or  *)
(* a hand-placed metainfo can leave behind".                                 *)
RestartAccepts == up /\ upload = None => Accepted

-----------------------------------------------------------------------------
(* Why: what a power failure may leave of a file, and that a sidecar says    *)
(* the torrent may have subtitles.                                           *)
Surviving(f) == f.older \cup {f.now}

Stored(e) == e # None /\ e.state \in {"ready", "deleting"}

RecordsOK ==
    /\ states \in [Torrents -> Records \cup {None}] /\ DOMAIN entryFile = Torrents
    /\ DOMAIN subtitles = Torrents /\ DOMAIN store = Torrents
    /\ \A t \in Torrents : Surviving(entryFile[t]) \subseteq Records \cup {None}
    /\ \A C \in Surviving(categoryFile) : C \subseteq CategoryNames
    /\ upload # None =>
         upload \in [torrent : Torrents, path : UNION {Sidecars[t] : t \in Torrents}, renamed : BOOLEAN]

(* A session that is down has forgotten everything, its files are what they  *)
(* are, and a sidecar that was not lost says whether there are subtitles.    *)
DownSound ==
    ~up =>
        /\ upload = None /\ stale = {} /\ categories = {} /\ categoryFile.older = {}
        /\ \A t \in Torrents :
             /\ states[t] = None /\ subtitles[t] = {} /\ entryFile[t].older = {}
             /\ store[t] = {} \/ Stored(entryFile[t].now)

(* While it runs, whatever would survive refers to categories it knows, and  *)
(* these survive;                                                            *)
ReferencesKnown ==
    up =>
        /\ \A t \in Torrents : \A e \in Surviving(entryFile[t]) \cup {states[t]} :
             e # None => e.category \in categories \cup {Root}
        /\ \A C \in Surviving(categoryFile) : categories \subseteq C

(* a torrent that is new has no subtitles, one that may have some will be    *)
(* remembered, and one whose deletion failed still has something to delete;  *)
StoreSound ==
    up => \A t \in Torrents :
        /\ ~Stored(states[t]) => store[t] = {} /\ (t \notin stale => subtitles[t] = {})
        /\ Stored(states[t]) => \A e \in Surviving(entryFile[t]) : Stored(e)
        /\ /\ Stored(states[t]) /\ ~Visible(states, t) /\ t \notin stale /\ subtitles[t] # {}
           => store[t] # {} \/ t \in staging

(* and while rootNamespaceMu is held nothing takes the name that an upload   *)
(* has found free.                                                           *)
UploadSound ==
    upload # None =>
        LET t == upload.torrent
            V == Views(states)
        IN  /\ up /\ Visible(states, t) /\ upload.path \in Sidecars[t]
            /\ Single[t] => /\ RootName(t, V, categories) = Name[t]
                            /\ Default[t] \notin OtherNames(t, V[t], V, categories)
            /\ t \notin stale => store[t] = subtitles[t] \cup IF upload.renamed THEN {upload.path} ELSE {}

Inductive ==
    /\ TypeOK /\ RecordsOK /\ DownSound /\ ReferencesKnown /\ StoreSound /\ UploadSound
    /\ PairsIntact /\ CategoriesOutliveReferences /\ IndexMatchesStore

=============================================================================
