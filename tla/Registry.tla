------------------------------ MODULE Registry ------------------------------
(***************************************************************************)
(* The durable registry of managed torrents (internal/session: manage.go,   *)
(* registry.go, metadata.go, favorite.go and the start and close of the      *)
(* session), for one info hash: lockHash serializes what is done to a hash,  *)
(* and different hashes share only mutexes.                                  *)
(*                                                                          *)
(* On disk a hash has a sidecar (its state, a favorite flag), a final        *)
(* metainfo file and a pending magnet file.  In memory the session mirrors   *)
(* the sidecar, owns the Torrent object, and runs three kinds of threads:    *)
(* the add of a caller, the workers that wait for the metadata of a magnet   *)
(* and persist it, and the deletion.  Each disk operation is a step of its   *)
(* own, so that the process may crash between any two; the mutexes are the   *)
(* predicates HashLocked and MuHeld over the threads' program counters.      *)
(* rootNamespaceMu is always taken together with the lock of a hash.         *)
(*                                                                          *)
(* A disk operation succeeds, fails without effect, or ("unsynced") takes    *)
(* effect and reports an error because the directory could not be synced.    *)
(***************************************************************************)
EXTENDS Integers, FiniteSets, Sequences

CONSTANTS
    Workers,      \* identities of metadata workers
    MaxLives,     \* bound on the Torrent objects of one process
    MaxFaults,    \* bound on failed disk operations
    MaxCrashes,   \* bound on crashes
    SyncFaults,   \* whether a directory sync may fail after its operation took effect
    Closable,     \* whether the session may be closed
    None

ASSUME RegistryAssumption ==
    /\ None \notin Workers /\ None # "deleted"
    /\ MaxLives \in Nat \ {0} /\ MaxFaults \in Nat /\ MaxCrashes \in Nat
    /\ SyncFaults \in BOOLEAN /\ Closable \in BOOLEAN

TorrentState == {"adding", "ready", "error", "deleting", "delete_failed"}
RegistryEntry == [state : TorrentState, favorite : BOOLEAN]

ASSUME EntryAssumption == None \notin RegistryEntry

VARIABLES
    sidecar, final, pending,        \* the disk
    session,                        \* down, starting, active or closing
    entry,                          \* states[hash]
    torrent,                        \* torrents[hash], 0 for none
    lives,                          \* the Torrent objects created so far
    info,                           \* those whose metadata has arrived
    op,                             \* state of the operation lastOps[hash] names
    activeOp,                       \* whether activeOps has the hash
    fetch,                          \* metadataFetches[hash]
    add, worker, del,               \* the threads
    faults,                         \* the disk operations that went wrong
    crashes

diskVars == <<sidecar, final, pending>>
stateVars == <<entry, torrent, lives, info, op, activeOp>>
vars == <<sidecar, final, pending, session, entry, torrent, lives, info, op, activeOp,
          fetch, add, worker, del, faults, crashes>>

NoAdd == [pc |-> "idle", data |-> FALSE, torrent |-> 0, new |-> FALSE, created |-> FALSE, worker |-> None]
NoWorker == [pc |-> "idle", torrent |-> 0, cancelled |-> FALSE, retry |-> FALSE, created |-> FALSE, next |-> None]
NoDelete == [pc |-> "idle", torrent |-> 0, wait |-> None, failed |-> FALSE]

Init ==
    /\ sidecar = None /\ final = FALSE /\ pending = FALSE
    /\ session = "active"
    /\ entry = None /\ torrent = 0 /\ lives = 0 /\ info = {} /\ op = None /\ activeOp = FALSE
    /\ fetch = None
    /\ add = NoAdd /\ worker = [w \in Workers |-> NoWorker] /\ del = NoDelete
    /\ faults = <<>> /\ crashes = 0

-----------------------------------------------------------------------------
(* the lock of the hash, s.mu, and s.state = stateActive *)
HashLocked == add.pc # "idle" \/ \E w \in Workers : worker[w].pc \in {"write", "undo", "failed", "unpend"}

MuHeld ==
    add.pc \in {"record", "undo"} \/ del.pc = "recording" \/ \E w \in Workers : worker[w].pc = "write"

IsActive == session \in {"starting", "active"}

(* deletionPendingLocked *)
DeletionPending == entry # None /\ entry.state \in {"deleting", "delete_failed"}

(* the outcome o of one disk operation, within the fault budget *)
Outcomes == {"ok", "failed"} \cup (IF SyncFaults THEN {"unsynced"} ELSE {})

Io(o) == IF o = "ok" THEN UNCHANGED faults ELSE Len(faults) < MaxFaults /\ faults' = Append(faults, o)

TookEffect(o) == o # "failed"

(* faulty: the entry is adopted whether or not it was written *)
WriteEntryEager(o, e) == Io(o) /\ sidecar' = (IF TookEffect(o) THEN e ELSE sidecar) /\ entry' = e

(* writeRegistryEntryLocked and the adoption of the entry its callers make *)
WriteEntry(o, e) ==
    /\ Io(o)
    /\ sidecar' = IF TookEffect(o) THEN e ELSE sidecar
    /\ entry' = IF o = "ok" THEN e ELSE entry

Free(w) == worker[w].pc \in {"idle", "abandoned"} /\ w # del.wait

(* startMetadataFetch, first half: a running worker is told to retry, *)
(* otherwise a new one is registered                                  *)
TellRunning == fetch # None /\ worker' = [worker EXCEPT ![fetch].retry = TRUE] /\ UNCHANGED fetch

NewFetch(n) == [NoWorker EXCEPT !.pc = "reserved", !.torrent = n, !.cancelled = session = "closing"]

(* second half: the worker runs unless the session has been closed *)
Launched(w) == [worker EXCEPT ![w].pc = IF IsActive THEN "waiting" ELSE "abandoned"]

Registration == IF IsActive THEN fetch ELSE None

-----------------------------------------------------------------------------
(* AddTorrentAndPersist.  A final file on disk wins over a magnet.  (Bound:  *)
(* an add is made while some worker identity is unused.)                     *)

AddTorrentAndPersist(metainfo) ==
    /\ session = "active" /\ ~HashLocked /\ \E w \in Workers : Free(w)
    /\ add' = [NoAdd EXCEPT !.pc = "locked", !.data = metainfo \/ final]
    /\ UNCHANGED <<diskVars, session, stateVars, fetch, worker, del, faults, crashes>>

(* addManagedLocked up to the publication of the file.  It also gives up when *)
(* the client refuses the torrent, the context ends or the namespace guard    *)
(* objects, and then leaves nothing behind.                                   *)
AddRefused ==
    /\ add.pc = "locked" /\ ~MuHeld
    /\ add' = NoAdd
    /\ UNCHANGED <<diskVars, session, stateVars, fetch, worker, del, faults, crashes>>

(* faulty: only a running deletion refuses the add, a failed one does not *)
AddPublishRevives(o) ==
    /\ add.pc = "locked" /\ ~MuHeld /\ session = "active" /\ ~activeOp
    /\ lives < MaxLives /\ o = "ok"
    /\ pending' = TRUE /\ lives' = lives + 1
    /\ add' = [add EXCEPT !.pc = "record", !.data = FALSE, !.torrent = lives + 1, !.new = TRUE,
                          !.created = ~pending]
    /\ UNCHANGED <<sidecar, final, session, entry, torrent, info, op, activeOp, fetch, worker, del,
                   faults, crashes>>

AddPublish(o) ==
    LET new == torrent = 0
        n == IF new THEN lives + 1 ELSE torrent
        exists == IF add.data THEN final ELSE pending
    IN  /\ add.pc = "locked" /\ ~MuHeld /\ session = "active" /\ ~DeletionPending
        /\ new => lives < MaxLives
        /\ Io(o)
        /\ final' = (final \/ (add.data /\ TookEffect(o)))
        /\ pending' = (pending \/ (~add.data /\ TookEffect(o)))
        /\ lives' = IF new THEN n ELSE lives
        /\ info' = IF add.data THEN info \cup {n} ELSE info
        /\ add' = IF o = "ok"
                  THEN [add EXCEPT !.pc = "record", !.torrent = n, !.new = new, !.created = ~exists]
                  ELSE NoAdd
        /\ UNCHANGED <<sidecar, session, entry, torrent, op, activeOp, fetch, worker, del, crashes>>

(* faulty: the cleanup also removes a file the add found *)
AddRecordOverCleans(o) ==
    /\ add.pc = "record"
    /\ WriteEntry(o, [state |-> IF add.data THEN "ready" ELSE "adding", favorite |-> FALSE])
    /\ torrent' = IF o = "ok" THEN add.torrent ELSE torrent
    /\ add' = IF o = "ok" THEN NoAdd ELSE [add EXCEPT !.pc = "undo"]
    /\ UNCHANGED <<final, pending, session, lives, info, op, activeOp, fetch, worker, del, crashes>>

(* faulty: the new entry of a known torrent starts without its flag *)
AddRecordAfresh(o) ==
    /\ add.pc = "record" /\ o = "ok"
    /\ WriteEntry(o, [state |-> IF add.data THEN "ready" ELSE "adding", favorite |-> FALSE])
    /\ torrent' = add.torrent /\ add' = NoAdd
    /\ UNCHANGED <<final, pending, session, lives, info, op, activeOp, fetch, worker, del, crashes>>

AddRecord(o) ==
    /\ add.pc = "record"
    /\ WriteEntry(o, [state |-> IF add.data THEN "ready" ELSE "adding",
                      favorite |-> entry # None /\ entry.favorite])
    /\ IF o = "ok"
       THEN /\ torrent' = add.torrent
            /\ op' = IF add.new THEN None ELSE op
            /\ add' = [add EXCEPT !.pc = IF add.data THEN "unpend" ELSE "register"]
       ELSE /\ add' = IF add.created THEN [add EXCEPT !.pc = "undo"] ELSE NoAdd
            /\ UNCHANGED <<torrent, op>>
    /\ UNCHANGED <<final, pending, session, lives, info, activeOp, fetch, worker, del, crashes>>

(* the file this add created is removed again *)
AddUndo(o) ==
    /\ add.pc = "undo"
    /\ Io(o)
    /\ final' = (final /\ ~(add.data /\ TookEffect(o)))
    /\ pending' = (pending /\ ~(~add.data /\ TookEffect(o)))
    /\ add' = NoAdd
    /\ UNCHANGED <<sidecar, session, stateVars, fetch, worker, del, crashes>>

(* removePendingMagnet, best effort *)
AddUnpend(o) ==
    /\ add.pc = "unpend"
    /\ Io(o)
    /\ pending' = (pending /\ ~TookEffect(o))
    /\ add' = NoAdd
    /\ UNCHANGED <<sidecar, final, session, stateVars, fetch, worker, del, crashes>>

AddRegister ==
    /\ add.pc = "register"
    /\ \/ TellRunning /\ add' = NoAdd
       \/ /\ fetch = None
          /\ \E w \in Workers :
               /\ Free(w) /\ fetch' = w
               /\ worker' = [worker EXCEPT ![w] = NewFetch(add.torrent)]
               /\ add' = [add EXCEPT !.pc = "launch", !.worker = w]
    /\ UNCHANGED <<diskVars, session, stateVars, del, faults, crashes>>

AddLaunch ==
    /\ add.pc = "launch" /\ ~MuHeld
    /\ worker' = Launched(add.worker) /\ fetch' = Registration
    /\ add' = NoAdd
    /\ UNCHANGED <<diskVars, session, stateVars, del, faults, crashes>>

AddNext ==
    \/ AddRefused \/ AddRegister \/ AddLaunch
    \/ \E o \in Outcomes : AddPublish(o) \/ AddRecord(o) \/ AddUndo(o) \/ AddUnpend(o)

-----------------------------------------------------------------------------
(* The goroutine of startMetadataFetch.  The metadata of a Torrent arrives   *)
(* (or not) while the client has it.                                         *)

GotInfo ==
    /\ IsActive \/ session = "closing"
    /\ \E n \in {torrent, del.torrent} \ (info \cup {0}) : info' = info \cup {n}
    /\ UNCHANGED <<diskVars, session, entry, torrent, lives, op, activeOp, fetch, add, worker, del,
                   faults, crashes>>

To(w, pc) == worker' = [worker EXCEPT ![w].pc = pc]

WorkerWait(w) ==
    /\ worker[w].pc = "waiting"
    /\ \/ worker[w].cancelled /\ To(w, "exit")
       \/ ~worker[w].cancelled /\ worker[w].torrent \in info /\ To(w, "persist")
    /\ UNCHANGED <<diskVars, session, stateVars, fetch, add, del, faults, crashes>>

(* under the locks: nothing is published for a hash that is being deleted, *)
(* by a closed session or by a cancelled worker                            *)
WorkerRefused(w) ==
    /\ worker[w].pc = "persist" /\ ~HashLocked /\ ~MuHeld
    /\ session # "active" \/ DeletionPending \/ worker[w].cancelled
    /\ To(w, "exit")
    /\ UNCHANGED <<diskVars, session, stateVars, fetch, add, del, faults, crashes>>

(* the namespace guard objects *)
WorkerConflict(w) ==
    /\ worker[w].pc = "persist" /\ ~HashLocked /\ ~MuHeld /\ session = "active" /\ ~DeletionPending
    /\ To(w, "failed")
    /\ UNCHANGED <<diskVars, session, stateVars, fetch, add, del, faults, crashes>>

WorkerPublish(w, o) ==
    /\ worker[w].pc = "persist" /\ ~HashLocked /\ ~MuHeld /\ session = "active"
    /\ ~DeletionPending /\ ~worker[w].cancelled
    /\ Io(o)
    /\ final' = (final \/ TookEffect(o))
    /\ worker' = [worker EXCEPT
         ![w].pc = IF o # "ok" THEN "failed" ELSE IF entry = None THEN "undo" ELSE "write",
         ![w].created = ~final]
    /\ UNCHANGED <<sidecar, pending, session, stateVars, fetch, add, del, crashes>>

WorkerWrite(w, o) ==
    /\ worker[w].pc = "write"
    /\ WriteEntry(o, [entry EXCEPT !.state = "ready"])
    /\ To(w, IF o = "ok" THEN "unpend" ELSE "failed")
    /\ UNCHANGED <<final, pending, session, torrent, lives, info, op, activeOp, fetch, add, del, crashes>>

WorkerUnpend(w, o) ==
    /\ worker[w].pc = "unpend"
    /\ Io(o)
    /\ pending' = (pending /\ ~TookEffect(o))
    /\ To(w, "exit")
    /\ UNCHANGED <<sidecar, final, session, stateVars, fetch, add, del, crashes>>

(* the entry is gone: the final file this worker created is removed *)
WorkerUndo(w, o) ==
    /\ worker[w].pc = "undo"
    /\ Io(o)
    /\ final' = (final /\ ~(worker[w].created /\ TookEffect(o)))
    /\ To(w, "exit")
    /\ UNCHANGED <<sidecar, pending, session, stateVars, fetch, add, del, crashes>>

(* recordMetadataFetchFailure *)
WorkerFailed(w, o) ==
    /\ worker[w].pc = "failed" /\ ~MuHeld
    /\ IF entry = None \/ DeletionPending
       THEN o = "ok" /\ UNCHANGED <<sidecar, entry, faults>>
       ELSE WriteEntry(o, [entry EXCEPT !.state = "error"])
    /\ To(w, "exit")
    /\ UNCHANGED <<final, pending, session, torrent, lives, info, op, activeOp, fetch, add, del, crashes>>

(* faulty: an add that came while the worker was ending is forgotten *)
WorkerExitForgets(w) ==
    /\ worker[w].pc = "exit"
    /\ fetch' = IF fetch = w THEN None ELSE fetch
    /\ To(w, "done")
    /\ UNCHANGED <<diskVars, session, stateVars, add, del, faults, crashes>>

(* the deferred exit: the registration goes, and with it the retry flag is read *)
WorkerExit(w) ==
    /\ worker[w].pc = "exit"
    /\ fetch' = IF fetch = w THEN None ELSE fetch
    /\ To(w, IF worker[w].retry THEN "retry" ELSE "done")
    /\ UNCHANGED <<diskVars, session, stateVars, add, del, faults, crashes>>

(* retryMetadataFetch: the state goes back to adding under the locks; the    *)
(* worker is started after they are released.                                *)
WorkerRetry(w, o) ==
    LET stands == IsActive /\ entry # None /\ torrent # 0 /\ entry.state \in {"adding", "error"}
    IN  /\ worker[w].pc = "retry" /\ ~HashLocked /\ ~MuHeld
        /\ IF stands
           THEN WriteEntry(o, [entry EXCEPT !.state = "adding"])
           ELSE o = "ok" /\ UNCHANGED <<sidecar, entry, faults>>
        /\ worker' = [worker EXCEPT ![w].pc = IF stands /\ o = "ok" THEN "relaunch" ELSE "done",
                                    ![w].torrent = torrent]
        /\ UNCHANGED <<final, pending, session, torrent, lives, info, op, activeOp, fetch, add, del, crashes>>

WorkerRelaunch(w) ==
    /\ worker[w].pc = "relaunch"
    /\ To(w, IF fetch # None THEN "done" ELSE "register")
    /\ UNCHANGED <<diskVars, session, stateVars, fetch, add, del, faults, crashes>>

WorkerRegister(w) ==
    /\ worker[w].pc = "register"
    /\ \/ /\ fetch # None
          /\ worker' = [worker EXCEPT ![fetch].retry = TRUE, ![w].pc = "done"]
          /\ UNCHANGED fetch
       \/ /\ fetch = None
          /\ \E v \in Workers :
               /\ Free(v) /\ fetch' = v
               /\ worker' = [worker EXCEPT ![v] = NewFetch(worker[w].torrent),
                                           ![w].pc = "launch", ![w].next = v]
    /\ UNCHANGED <<diskVars, session, stateVars, add, del, faults, crashes>>

WorkerLaunch(w) ==
    /\ worker[w].pc = "launch" /\ ~MuHeld
    /\ worker' = [Launched(worker[w].next) EXCEPT ![w].pc = "done"]
    /\ fetch' = Registration
    /\ UNCHANGED <<diskVars, session, stateVars, add, del, faults, crashes>>

(* close(fetch.done) and bgWg.Done *)
WorkerDone(w) ==
    /\ worker[w].pc = "done"
    /\ worker' = [worker EXCEPT ![w] = NoWorker]
    /\ UNCHANGED <<diskVars, session, stateVars, fetch, add, del, faults, crashes>>

WorkerNext(w) ==
    \/ WorkerWait(w) \/ WorkerRefused(w) \/ WorkerConflict(w) \/ WorkerExit(w)
    \/ WorkerRelaunch(w) \/ WorkerRegister(w) \/ WorkerLaunch(w) \/ WorkerDone(w)
    \/ \E o \in Outcomes :
         \/ WorkerPublish(w, o) \/ WorkerWrite(w, o) \/ WorkerUnpend(w, o) \/ WorkerUndo(w, o)
         \/ WorkerFailed(w, o) \/ WorkerRetry(w, o)

-----------------------------------------------------------------------------
(* SetFavorite, and deleteByHash: the whole of it runs under both locks, and *)
(* writes the deleting sidecar before it starts the deletion.                *)

SetFavorite(favorite, o) ==
    /\ session = "active" /\ ~HashLocked /\ ~MuHeld
    /\ entry # None /\ ~DeletionPending
    /\ WriteEntry(o, [entry EXCEPT !.favorite = favorite])
    /\ UNCHANGED <<final, pending, session, torrent, lives, info, op, activeOp, fetch, add, worker, del, crashes>>

(* faulty: the torrent stays in the map while it is deleted *)
DeleteByHashKeeps(skipFavorites, o) ==
    /\ session = "active" /\ ~HashLocked /\ ~MuHeld
    /\ ~activeOp /\ op # "deleted" /\ entry # None /\ o = "ok"
    /\ WriteEntry(o, [entry EXCEPT !.state = "deleting"])
    /\ op' = "deleting" /\ activeOp' = TRUE
    /\ del' = [NoDelete EXCEPT !.pc = "stop", !.torrent = torrent]
    /\ UNCHANGED <<final, pending, session, torrent, lives, info, fetch, add, worker, crashes>>

DeleteByHash(skipFavorites, o) ==
    /\ session = "active" /\ ~HashLocked /\ ~MuHeld
    /\ ~activeOp /\ op # "deleted"
    /\ entry # None /\ ~(skipFavorites /\ entry.favorite)
    /\ WriteEntry(o, [entry EXCEPT !.state = "deleting"])
    /\ IF o = "ok"
       THEN /\ torrent' = 0 /\ op' = "deleting" /\ activeOp' = TRUE
            /\ del' = [NoDelete EXCEPT !.pc = "stop", !.torrent = torrent]
       ELSE UNCHANGED <<torrent, op, activeOp, del>>
    /\ UNCHANGED <<final, pending, session, lives, info, fetch, add, worker, crashes>>

DeleteTorrent(o) == DeleteByHash(FALSE, o)

(* one candidate of DeleteUnfavoritedOlderThan *)
Prune(o) == DeleteByHash(TRUE, o)

(* runDelete: the worker of the hash is cancelled and awaited *)
StopMetadataFetch ==
    /\ del.pc = "stop"
    /\ fetch' = None
    /\ worker' = IF fetch = None THEN worker ELSE [worker EXCEPT ![fetch].cancelled = TRUE]
    /\ del' = [del EXCEPT !.pc = "wait", !.wait = fetch]
    /\ UNCHANGED <<diskVars, session, stateVars, add, faults, crashes>>

AwaitMetadataFetch ==
    /\ del.pc = "wait"
    /\ \A w \in Workers : w = del.wait => worker[w].pc = "idle"
    /\ del' = [del EXCEPT !.pc = "final", !.wait = None]
    /\ UNCHANGED <<diskVars, session, stateVars, fetch, add, worker, faults, crashes>>

(* performDelete, every stage of it *)
RemoveFinal(o) ==
    /\ del.pc = "final"
    /\ Io(o)
    /\ final' = (final /\ ~TookEffect(o))
    /\ del' = [del EXCEPT !.pc = "pending", !.torrent = 0, !.failed = @ \/ o # "ok"]
    /\ UNCHANGED <<sidecar, pending, session, stateVars, fetch, add, worker, crashes>>

(* faulty: the error of the stage is dropped *)
RemovePendingUnreported(o) ==
    /\ del.pc = "pending"
    /\ Io(o)
    /\ pending' = (pending /\ ~TookEffect(o))
    /\ del' = [del EXCEPT !.pc = "subtitles"]
    /\ UNCHANGED <<sidecar, final, session, stateVars, fetch, add, worker, crashes>>

RemovePending(o) ==
    /\ del.pc = "pending"
    /\ Io(o)
    /\ pending' = (pending /\ ~TookEffect(o))
    /\ del' = [del EXCEPT !.pc = "subtitles", !.failed = @ \/ o # "ok"]
    /\ UNCHANGED <<sidecar, final, session, stateVars, fetch, add, worker, crashes>>

RemoveSubtitles(o) ==
    /\ del.pc = "subtitles"
    /\ Io(o)
    /\ del' = [del EXCEPT !.pc = "finish", !.failed = @ \/ o # "ok"]
    /\ UNCHANGED <<diskVars, session, stateVars, fetch, add, worker, crashes>>

(* the end of runDelete: the sidecar goes, or the failure is recorded in it *)
Deleted ==
    /\ del.pc = "finish" /\ ~MuHeld /\ ~del.failed
    /\ sidecar' = None /\ entry' = None
    /\ op' = "deleted" /\ activeOp' = FALSE /\ del' = NoDelete
    /\ UNCHANGED <<final, pending, session, torrent, lives, info, fetch, add, worker, faults, crashes>>

DeleteFailed(o) ==
    /\ (del.pc = "finish" /\ ~MuHeld /\ del.failed) \/ del.pc = "recording"
    /\ WriteEntry(o, [entry EXCEPT !.state = "delete_failed"])
    /\ op' = "delete_failed" /\ activeOp' = FALSE /\ del' = NoDelete
    /\ UNCHANGED <<final, pending, session, torrent, lives, info, fetch, add, worker, crashes>>

(* the sidecar could not be removed, or not durably: then as DeleteFailed *)
RemoveEntryFailed(o) ==
    /\ del.pc = "finish" /\ ~MuHeld /\ ~del.failed /\ o # "ok"
    /\ Io(o)
    /\ sidecar' = IF TookEffect(o) THEN None ELSE sidecar
    /\ del' = [del EXCEPT !.pc = "recording"]
    /\ UNCHANGED <<final, pending, session, stateVars, fetch, add, worker, crashes>>

DeleteNext ==
    \/ StopMetadataFetch \/ AwaitMetadataFetch \/ Deleted
    \/ \E o \in Outcomes :
         \/ RemoveFinal(o) \/ RemovePending(o) \/ RemoveSubtitles(o)
         \/ DeleteFailed(o) \/ RemoveEntryFailed(o)

-----------------------------------------------------------------------------
(* The session: Close waits for the background threads; a crash does not.    *)

Forget ==
    /\ session' = "down"
    /\ entry' = None /\ torrent' = 0 /\ lives' = 0 /\ info' = {} /\ op' = None /\ activeOp' = FALSE
    /\ fetch' = None
    /\ add' = NoAdd /\ worker' = [w \in Workers |-> NoWorker] /\ del' = NoDelete

Close ==
    /\ Closable /\ session = "active" /\ ~MuHeld
    /\ session' = "closing"
    /\ worker' = [w \in Workers |-> [worker[w] EXCEPT !.cancelled = @ \/ worker[w].pc # "idle"]]
    /\ UNCHANGED <<diskVars, stateVars, fetch, add, del, faults, crashes>>

(* bgWg *)
Background == del.pc # "idle" \/ \E w \in Workers : worker[w].pc \notin {"idle", "reserved", "abandoned"}

Closed ==
    /\ session = "closing" /\ ~Background /\ ~MuHeld
    /\ Forget
    /\ UNCHANGED <<diskVars, faults, crashes>>

Crash ==
    /\ session # "down" /\ crashes < MaxCrashes
    /\ crashes' = crashes + 1
    /\ Forget
    /\ UNCHANGED <<diskVars, faults>>

(* New: loadRegistry, then resumeDeletions, then restoreRegistryEntries *)
Start ==
    /\ session = "down"
    /\ session' = "starting" /\ entry' = sidecar
    /\ IF sidecar # None /\ sidecar.state \in {"deleting", "delete_failed"}
       THEN op' = "deleting" /\ activeOp' = TRUE /\ del' = [NoDelete EXCEPT !.pc = "stop"]
       ELSE UNCHANGED <<op, activeOp, del>>
    /\ UNCHANGED <<diskVars, torrent, lives, info, fetch, add, worker, faults, crashes>>

Restoring == session = "starting" /\ del.pc = "idle" /\ torrent = 0

RestoreNothing ==
    /\ Restoring /\ (entry = None \/ DeletionPending)
    /\ session' = "active"
    /\ UNCHANGED <<diskVars, stateVars, fetch, add, worker, del, faults, crashes>>

(* what restoreRegistryEntries refuses to start with *)
Unrestorable(e) == IF e.state = "ready" THEN ~final ELSE ~final /\ ~pending

RefuseToStart ==
    /\ Restoring /\ entry # None /\ ~DeletionPending /\ Unrestorable(entry)
    /\ Forget
    /\ UNCHANGED <<diskVars, faults, crashes>>

(* faulty: the restored Torrent object is not counted *)
AdoptUncounted(hasInfo) ==
    /\ torrent' = lives + 1 /\ op' = None
    /\ UNCHANGED <<lives, info, activeOp, add, del>>

Adopt(hasInfo) ==
    /\ torrent' = lives + 1 /\ lives' = lives + 1 /\ op' = None
    /\ info' = IF hasInfo THEN info \cup {lives + 1} ELSE info
    /\ UNCHANGED <<activeOp, add, del>>

RestoreFinal(o) ==
    /\ Restoring /\ entry # None /\ ~DeletionPending /\ ~Unrestorable(entry) /\ final
    /\ IF entry.state = "ready" THEN o = "ok" /\ UNCHANGED <<sidecar, faults>>
       ELSE Io(o) /\ sidecar' = IF TookEffect(o) THEN [entry EXCEPT !.state = "ready"] ELSE sidecar
    /\ IF o = "ok"
       THEN /\ entry' = [entry EXCEPT !.state = "ready"]
            /\ Adopt(TRUE) /\ UNCHANGED <<session, fetch, worker>>
       ELSE Forget
    /\ UNCHANGED <<final, pending, crashes>>

RestoreUnpend(o) ==
    /\ session = "starting" /\ torrent # 0
    /\ IF pending THEN Io(o) ELSE o = "ok" /\ UNCHANGED faults
    /\ pending' = (pending /\ ~TookEffect(o))
    /\ session' = "active"
    /\ UNCHANGED <<sidecar, final, stateVars, fetch, add, worker, del, crashes>>

RestorePending(o) ==
    /\ Restoring /\ entry # None /\ ~DeletionPending /\ ~Unrestorable(entry) /\ ~final
    /\ Io(o)
    /\ sidecar' = IF TookEffect(o) THEN [entry EXCEPT !.state = "adding"] ELSE sidecar
    /\ IF o = "ok"
       THEN /\ entry' = [entry EXCEPT !.state = "adding"]
            /\ Adopt(FALSE)
            /\ session' = "active"
            /\ \E w \in Workers :
                 /\ fetch' = w
                 /\ worker' = [worker EXCEPT ![w] = [NewFetch(lives + 1) EXCEPT !.pc = "waiting"]]
       ELSE Forget
    /\ UNCHANGED <<final, pending, crashes>>

SessionNext ==
    \/ Closed \/ Start \/ RestoreNothing \/ RefuseToStart
    \/ \E o \in Outcomes : RestoreFinal(o) \/ RestoreUnpend(o) \/ RestorePending(o)

Calls ==
    \/ \E metainfo \in BOOLEAN : AddTorrentAndPersist(metainfo)
    \/ \E o \in Outcomes :
         \/ DeleteTorrent(o) \/ Prune(o)
         \/ \E favorite \in BOOLEAN : SetFavorite(favorite, o)
    \/ Close

Next ==
    \/ Calls \/ AddNext \/ GotInfo \/ DeleteNext \/ SessionNext \/ Crash
    \/ \E w \in Workers : WorkerNext(w)

Spec == Init /\ [][Next]_vars

(* Fairness: every goroutine waiting for a mutex gets it in the end (a       *)
(* sync.Mutex hands itself to a waiter it has starved), and the process      *)
(* keeps running.  Whether metadata arrives and what callers do is open.     *)
LiveSpec ==
    /\ Spec
    /\ SF_vars(AddNext) /\ SF_vars(DeleteNext) /\ SF_vars(SessionNext)
    /\ \A w \in Workers : SF_vars(WorkerNext(w))

-----------------------------------------------------------------------------
(* Correctness *)

AddPcs == {"idle", "locked", "record", "undo", "unpend", "register", "launch"}
WorkerPcs == {"idle", "reserved", "abandoned", "waiting", "persist", "write", "unpend", "undo",
              "failed", "exit", "retry", "relaunch", "register", "launch", "done"}
DeletePcs == {"idle", "stop", "wait", "final", "pending", "subtitles", "finish", "recording"}

Adds == [pc : AddPcs, data : BOOLEAN, torrent : 0 .. MaxLives, new : BOOLEAN, created : BOOLEAN,
         worker : Workers \cup {None}]
WorkerStates == [pc : WorkerPcs, torrent : 0 .. MaxLives, cancelled : BOOLEAN, retry : BOOLEAN,
                 created : BOOLEAN, next : Workers \cup {None}]
Deletes == [pc : DeletePcs, torrent : 0 .. MaxLives, wait : Workers \cup {None}, failed : BOOLEAN]

(* The disk, the maps of the session and its threads hold what they are      *)
(* declared to hold, and no thread knows a Torrent that was not created.     *)
TypeOK ==
    /\ sidecar \in RegistryEntry \cup {None} /\ entry \in RegistryEntry \cup {None}
    /\ final \in BOOLEAN /\ pending \in BOOLEAN /\ activeOp \in BOOLEAN
    /\ session \in {"down", "starting", "active", "closing"}
    /\ torrent \in 0 .. lives /\ lives \in 0 .. MaxLives /\ info \subseteq 1 .. lives
    /\ op \in {None, "deleting", "delete_failed", "deleted"}
    /\ fetch \in Workers \cup {None}
    /\ add \in Adds /\ worker \in [Workers -> WorkerStates] /\ del \in Deletes
    /\ add.torrent <= lives /\ del.torrent <= lives
    /\ faults \in Seq(Outcomes \ {"ok"}) /\ Len(faults) <= MaxFaults /\ crashes \in 0 .. MaxCrashes

(* some write took effect and was reported as failed *)
Unsynced == \E i \in 1 .. Len(faults) : faults[i] = "unsynced"

(* Whenever the process may die, what is on disk can be restored: a ready    *)
(* sidecar has its final metainfo, an adding or failed one a file to start   *)
(* from, so that restoreRegistryEntries never refuses to start.  (A write    *)
(* that took effect and was reported as failed is undone by its caller, and  *)
(* can leave less.)                                                          *)
AlwaysRestorable ==
    Unsynced \/ sidecar = None \/ sidecar.state \in {"deleting", "delete_failed"} \/ ~Unrestorable(sidecar)

(* "states mirrors the durable sidecars" (Session): whenever s.mu is free,   *)
(* what the session believes is what a restart finds.                        *)
StatesMirrorSidecars == session # "down" /\ ~MuHeld => entry = sidecar

(* As long as no write takes effect and is reported as failed, they mirror   *)
(* the sidecars through every failure, crash and restart.                    *)
MirrorUnlessUnsynced == Unsynced \/ StatesMirrorSidecars

(* The two maps of the session agree: a hash whose deletion has begun has no *)
(* torrent, a running deletion owns the hash, and a registered worker is one *)
(* that has not exited.                                                      *)
SessionAgrees ==
    /\ DeletionPending => torrent = 0
    /\ del.pc # "idle" <=> activeOp
    /\ activeOp => DeletionPending
    /\ fetch # None => worker[fetch].pc \notin {"idle", "done", "retry", "relaunch", "abandoned"}

(* What the session holds in memory is consistent: both of the above. *)
SessionConsistent == MirrorUnlessUnsynced /\ SessionAgrees

(* A torrent whose deletion was recorded never comes back, in this process   *)
(* or after any crash and restart: its sidecar stays in deletion until it is *)
(* gone (as long as no write takes effect and is reported as failed).        *)
NoResurrection ==
    [][~Unsynced /\ sidecar # None /\ sidecar.state \in {"deleting", "delete_failed"} =>
         sidecar' = None \/ sidecar'.state \in {"deleting", "delete_failed"}]_vars

(* A deletion that reports "deleted" has left nothing behind, whatever       *)
(* workers and adds were under way when it began (runDelete).                *)
DeletedLeavesNothing ==
    [][op # "deleted" /\ op' = "deleted" => sidecar' = None /\ ~final' /\ ~pending']_vars

(* "Favorites are never deleted, however old they are" by pruning, and the   *)
(* flag is not lost to a concurrent add, fetch, retry or restart: only       *)
(* SetFavorite changes it while the torrent exists (as long as no write      *)
(* takes effect and is reported as failed).                                  *)
FavoriteKept ==
    [][~Unsynced /\ sidecar # None /\ sidecar.favorite =>
         /\ ~\E o \in Outcomes : Prune(o)
         /\ sidecar' # None /\ ~sidecar'.favorite => \E o \in Outcomes : SetFavorite(FALSE, o)]_vars

(* what has to end: a deletion, and the adding state *)
Deleting == activeOp
AddDone == add.pc = "register"
AddSettled == entry = None \/ entry.state # "adding" \/ session # "active"

(* A retry is handed off "instead of leaving the task in adding forever"     *)
(* (TestMetadataFetchFailureRetryHandsOffToNextWorker): a torrent that is    *)
(* adding and has its metadata leaves that state.                            *)
AddingSettles ==
    entry # None /\ entry.state = "adding" /\ torrent \in info
        ~> entry = None \/ entry.state # "adding" \/ session # "active"

(* "Deletion and metadata-fetch workers must finish before the torrents are  *)
(* dropped" (Session.Close): they do, and Close returns.                     *)
CloseReturns == session = "closing" ~> session = "down"

=============================================================================
