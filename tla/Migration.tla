------------------------------ MODULE Migration ------------------------------
(***************************************************************************)
(* The one-time move of the metainfo and magnet files of an older version   *)
(* to the places the registry expects (migrateLegacyLayoutOnce,             *)
(* internal/session/metadata.go), as a stage of the session's start.  Any   *)
(* failed operation makes the start fail, and the process may die between   *)
(* any two: in both cases the next start reads the disk again, so Crash     *)
(* stands for both.  A file is either valid or absent.                      *)
(***************************************************************************)
EXTENDS FiniteSets

CONSTANTS Hashes, None

VARIABLES
    legacy,          \* of each hash, the files in the old place
    final, pending,  \* hashes with a file in the new places
    entry,           \* state sidecars: none, adding, ready, deleting
    marker,          \* layout_version
    pc,              \* stage of the start; down, active, refused
    item,            \* the kind of each legacy entry the scan found
    todo,            \* hashes the pass has not done yet
    move,            \* the hash being moved and the step it is at
    given, doomed    \* what the older version left: best file, deletions under way

disk == <<legacy, final, pending, entry, marker>>
vars == <<legacy, final, pending, entry, marker, pc, item, todo, move, given, doomed>>

(* the scan reads .magnet before .torrent, and the later one wins *)
KindOf(files) == IF "torrent" \in files THEN "torrent" ELSE IF "magnet" \in files THEN "magnet" ELSE None

Init ==
    /\ legacy \in [Hashes -> SUBSET {"torrent", "magnet"}]
    /\ final = {} /\ pending = {}
    /\ entry \in [Hashes -> {None, "adding", "ready", "deleting"}]
    /\ \A h \in Hashes :
         /\ entry[h] = "ready" => "torrent" \in legacy[h]
         /\ entry[h] = "adding" => legacy[h] # {}
    /\ marker = FALSE /\ pc = "down"
    /\ item = [h \in Hashes |-> None] /\ todo = {} /\ move = None
    /\ given = [h \in Hashes |-> KindOf(legacy[h])]
    /\ doomed = {h \in Hashes : entry[h] = "deleting"}

-----------------------------------------------------------------------------
(* faulty: the marker before the files are moved *)
AfterMarkerFirst(pass) ==
    CASE pass = "entries" -> "marker" [] pass = "marker" -> "move" [] pass = "move" -> "restore"

(* the order of the passes *)
After(pass) ==
    CASE pass = "entries" -> "move" [] pass = "move" -> "marker" [] pass = "marker" -> "restore"

Start ==
    /\ pc = "down"
    /\ item' = IF marker THEN [h \in Hashes |-> None] ELSE [h \in Hashes |-> KindOf(legacy[h])]
    /\ todo' = {h \in Hashes : item'[h] # None}
    /\ pc' = IF marker THEN "restore" ELSE "entries"
    /\ UNCHANGED <<legacy, final, pending, entry, marker, move, given, doomed>>

(* faulty: a deletion under way is forgotten *)
MigratedStateReviving(e, kind) ==
    IF kind = "torrent" \/ e = "ready" THEN "ready" ELSE "adding"

MigratedState(e, kind) ==
    IF e = "deleting" THEN e
    ELSE IF kind = "torrent" \/ e = "ready" THEN "ready" ELSE "adding"

WriteEntry(h) ==
    /\ pc = "entries" /\ h \in todo
    /\ entry' = [entry EXCEPT ![h] = MigratedState(@, item[h])]
    /\ todo' = todo \ {h}
    /\ UNCHANGED <<legacy, final, pending, marker, pc, item, move, given, doomed>>

PassDone ==
    /\ pc \in {"entries", "move"} /\ todo = {} /\ move = None
    /\ pc' = After(pc)
    /\ todo' = IF pc' = "move" THEN {h \in Hashes : item[h] # None} ELSE {}
    /\ UNCHANGED <<disk, item, move, given, doomed>>

-----------------------------------------------------------------------------
(* renameNoReplace or, where the target exists, the removal of the source.   *)
(* Its link fallback shows both names for a moment.                          *)
InPlace(h) == IF item[h] = "torrent" THEN h \in final ELSE h \in pending

Put(h) ==
    IF item[h] = "torrent" THEN final' = final \cup {h} /\ UNCHANGED pending
    ELSE pending' = pending \cup {h} /\ UNCHANGED final

Unlink(h, file) == legacy' = [legacy EXCEPT ![h] = @ \ {file}]

AtFile(h) == pc = "move" /\ h \in todo /\ move = None

(* what is left to do for h once its file has moved *)
Moved(h) ==
    IF item[h] = "torrent" THEN move' = <<h, "magnet">> /\ UNCHANGED todo
    ELSE move' = None /\ todo' = todo \ {h}

Rename(h) ==
    /\ AtFile(h) /\ ~InPlace(h)
    /\ Put(h) /\ Unlink(h, item[h]) /\ Moved(h)
    /\ UNCHANGED <<entry, marker, pc, item, given, doomed>>

Link(h) ==
    /\ AtFile(h) /\ ~InPlace(h)
    /\ Put(h) /\ move' = <<h, "unlink">>
    /\ UNCHANGED <<legacy, entry, marker, pc, item, todo, given, doomed>>

RemoveSource(h) ==
    /\ pc = "move" /\ ((AtFile(h) /\ InPlace(h)) \/ move = <<h, "unlink">>)
    /\ Unlink(h, item[h]) /\ Moved(h)
    /\ UNCHANGED <<final, pending, entry, marker, pc, item, given, doomed>>

(* removeLegacyPendingIfPresent *)
RemoveLegacyMagnet(h) ==
    /\ pc = "move" /\ move = <<h, "magnet">>
    /\ Unlink(h, "magnet")
    /\ IF "magnet" \in legacy[h] THEN move' = <<h, "pending">> /\ UNCHANGED todo
       ELSE move' = None /\ todo' = todo \ {h}
    /\ UNCHANGED <<final, pending, entry, marker, pc, item, given, doomed>>

RemovePending(h) ==
    /\ pc = "move" /\ move = <<h, "pending">>
    /\ pending' = pending \ {h}
    /\ move' = None /\ todo' = todo \ {h}
    /\ UNCHANGED <<legacy, final, entry, marker, pc, item, given, doomed>>

WriteMarker ==
    /\ pc = "marker"
    /\ marker' = TRUE
    /\ pc' = After(pc)
    /\ todo' = IF pc' = "move" THEN {h \in Hashes : item[h] # None} ELSE {}
    /\ UNCHANGED <<legacy, final, pending, entry, item, move, given, doomed>>

-----------------------------------------------------------------------------
(* the stages that follow: resumeDeletions, of which any may fail again, and *)
(* restoreRegistryEntries                                                    *)
Restorable(h) ==
    /\ entry[h] = "ready" => h \in final
    /\ entry[h] = "adding" => h \in final \cup pending

Restore(stuck) ==
    /\ pc = "restore"
    /\ LET deleted == {h \in Hashes \ stuck : entry[h] = "deleting"}
           accepted == \A h \in Hashes : Restorable(h)
           restored == {h \in final : accepted /\ entry[h] \in {"adding", "ready"}}
       IN  /\ pc' = IF accepted THEN "active" ELSE "refused"
           /\ final' = final \ deleted
           /\ pending' = pending \ (deleted \cup restored)
           /\ entry' = [h \in Hashes |-> IF h \in deleted THEN None
                                         ELSE IF h \in restored THEN "ready" ELSE entry[h]]
    /\ UNCHANGED <<legacy, marker, item, todo, move, given, doomed>>

Crash ==
    /\ pc # "down"
    /\ pc' = "down" /\ item' = [h \in Hashes |-> None] /\ todo' = {} /\ move' = None
    /\ UNCHANGED <<disk, given, doomed>>

Next ==
    \/ Start \/ PassDone \/ WriteMarker \/ Crash
    \/ \E stuck \in SUBSET Hashes : Restore(stuck)
    \/ \E h \in Hashes :
         WriteEntry(h) \/ Rename(h) \/ Link(h) \/ RemoveSource(h) \/ RemoveLegacyMagnet(h) \/ RemovePending(h)

Spec == Init /\ [][Next]_vars

-----------------------------------------------------------------------------
TypeOK ==
    /\ legacy \in [Hashes -> SUBSET {"torrent", "magnet"}]
    /\ final \subseteq Hashes /\ pending \subseteq Hashes /\ todo \subseteq Hashes
    /\ entry \in [Hashes -> {None, "adding", "ready", "deleting"}]
    /\ marker \in BOOLEAN
    /\ pc \in {"down", "entries", "move", "marker", "restore", "active", "refused"}
    /\ item \in [Hashes -> {None, "torrent", "magnet"}]
    /\ given \in [Hashes -> {None, "torrent", "magnet"}] /\ doomed \subseteq Hashes
(* However often the start is interrupted, the best file of a torrent the    *)
(* older version had is in the old place or in the new one, and once a start *)
(* comes through, the torrent is registered in the state that file gives it, *)
(* with nothing left behind (migrateLegacyLayoutOnce, passes in this order). *)
MigratedWhole ==
    \A h \in Hashes \ doomed :
        /\ given[h] = "torrent" => h \in final \/ "torrent" \in legacy[h]
        /\ given[h] = "magnet" => h \in pending \/ "magnet" \in legacy[h]
        /\ pc # "refused"
        /\ pc = "active" => /\ given[h] = "torrent" => entry[h] = "ready" /\ h \in final
                            /\ given[h] = "magnet" => entry[h] = "adding" /\ h \in pending
                            /\ legacy[h] = {}

(* A torrent that was being deleted is not brought back by the migration: it *)
(* stays marked until a start has removed it, and is never registered again  *)
(* (migrateLegacyLayoutOnce keeps the state of an entry that is deleting).   *)
DeletedStaysDeleted ==
    \A h \in doomed :
        \/ entry[h] = "deleting"
        \/ entry[h] = None /\ h \notin final \cup pending

-----------------------------------------------------------------------------
(* Why: the passes run before the marker is written, and what comes after    *)
(* them only once it is.  Of each hash, no file turns up that the older      *)
(* version did not have; the scan is true until the file is moved; its entry *)
(* is written before its file is moved, so that a file in the new place has  *)
(* the entry it needs; and a deletion stays under way until the marker.      *)
MoveSound(h) ==
    \/ move = <<h, "unlink">> /\ InPlace(h) /\ item[h] = KindOf(legacy[h])
    \/ move = <<h, "magnet">> /\ item[h] = "torrent" /\ "torrent" \notin legacy[h] /\ h \in final
    \/ move = <<h, "pending">> /\ item[h] = "torrent" /\ legacy[h] = {} /\ h \in final

PassSound ==
    /\ pc \in {"entries", "move", "marker"} => ~marker
    /\ pc \in {"restore", "active"} => marker
    /\ pc # "refused"
    /\ move # None => pc = "move" /\ \E h \in todo : MoveSound(h)

KindsKept(h) ==
    /\ "torrent" \in legacy[h] \/ item[h] = "torrent" \/ h \in final => given[h] = "torrent"
    /\ legacy[h] # {} \/ item[h] # None \/ h \in pending => given[h] # None

Scanned(h) ==
    /\ pc = "entries" => item[h] = KindOf(legacy[h])
    /\ pc \in {"entries", "move"} /\ h \in todo => item[h] # None
    /\ pc = "move" /\ h \in todo => item[h] = KindOf(legacy[h]) \/ MoveSound(h)
    /\ (pc = "move" /\ h \notin todo) \/ pc = "marker" \/ marker => legacy[h] = {}

EntryDue(h) == IF given[h] = "torrent" THEN "ready" ELSE "adding"

Registered(h) ==
    /\ given[h] = "torrent" => h \in final \/ "torrent" \in legacy[h]
    /\ given[h] = "magnet" => h \in pending \/ "magnet" \in legacy[h]
    /\ h \in final \/ (given[h] = "magnet" /\ h \in pending) => entry[h] = EntryDue(h)
    /\ item[h] # None /\ ((pc = "entries" /\ h \notin todo) \/ pc \in {"move", "marker"}) =>
         entry[h] = EntryDue(h)
    /\ entry[h] \in {None, "adding", EntryDue(h)}
    /\ given[h] = None => entry[h] = None

HashSound(h) ==
    /\ KindsKept(h) /\ Scanned(h)
    /\ h \notin doomed => Registered(h)
    /\ h \in doomed => entry[h] = "deleting" \/ (marker /\ entry[h] = None /\ h \notin final \cup pending)

Inductive == TypeOK /\ PassSound /\ \A h \in Hashes : HashSound(h)

=============================================================================
