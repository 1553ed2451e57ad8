------------------------------ MODULE StateFile ------------------------------
(* A small state file and how the session replaces it                        *)
(* (writeFileAtomicPublished, internal/session/registry.go): the new content *)
(* is written to another file, renamed over the old one, and the directory   *)
(* is synced.                                                                *)
(*                                                                           *)
(*   f.now    what the file holds, None if there is no file                  *)
(*   f.older  what it may hold again after a power failure, because the      *)
(*            directory was not synced since                                 *)

FileOf(v) == [now |-> v, older |-> {}]

Renamed(f, v) == [now |-> v, older |-> (f.older \cup {f.now}) \ {v}]

Synced(f) == FileOf(f.now)

(* writeFileAtomic with outcome o: it fails before the rename, or only the   *)
(* sync after it fails, or neither                                           *)
Written(f, v, o) ==
    CASE o = "failed" -> f
      [] o = "unsynced" -> Renamed(f, v)
      [] o = "ok" -> Synced(Renamed(f, v))

(* what a power failure may leave behind *)
AfterPowerFailure(f) == {FileOf(v) : v \in f.older \cup {f.now}}

=============================================================================
