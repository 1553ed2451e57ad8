--------------------------- MODULE RegistryProofs ---------------------------
(***************************************************************************)
(* Proofs that the registry keeps its files and its memory in step, whatever *)
(* the order of adds, metadata workers, deletions, faults and crashes.       *)
(*                                                                          *)
(* Whoever writes the sidecar or a file holds the lock of the hash, or is    *)
(* the one deletion of the hash.  The inductive invariant says that these    *)
(* exclude each other (LockExclusive, LockedNotDeleting, DeletionOwns), and  *)
(* what each of them may rely on between two of its disk operations          *)
(* (FilesInPlace, Removed).                                                  *)
(***************************************************************************)
EXTENDS Registry, TLAPS

USE ZenonT(40)

(* Nothing is in memory while the process is down.                           *)
Blank ==
    session = "down" =>
        /\ entry = None /\ torrent = 0 /\ lives = 0 /\ info = {} /\ op = None /\ activeOp = FALSE
        /\ fetch = None
        /\ add = NoAdd /\ worker = [w \in Workers |-> NoWorker] /\ del = NoDelete

(* While the session starts, only a resumed deletion runs; what has been     *)
(* restored by then has its metainfo.                                        *)
StartsQuietly ==
    session = "starting" =>
        /\ add.pc = "idle" /\ fetch = None /\ \A w \in Workers : worker[w].pc = "idle"
        /\ torrent = 0 => lives = 0
        /\ torrent # 0 => final /\ entry # None /\ entry.state = "ready" /\ del.pc = "idle"

(* The lock of the hash has one holder, and the hash it has got this far     *)
(* with is not being deleted.                                                *)
Locks(w) == worker[w].pc \in {"write", "undo", "failed", "unpend"}

LockExclusive ==
    \A w \in Workers : Locks(w) => add.pc = "idle" /\ \A v \in Workers : Locks(v) => v = w

LockedNotDeleting ==
    add.pc \notin {"idle", "locked"} \/ (\E w \in Workers : Locks(w)) => ~DeletionPending

(* A running deletion owns the hash, which then has no torrent.              *)
DeletionOwns ==
    /\ del.pc # "idle" <=> activeOp
    /\ activeOp => DeletionPending
    /\ DeletionPending => torrent = 0

(* The registered worker has not exited.                                     *)
Running == {"reserved", "waiting", "persist", "write", "unpend", "undo", "failed", "exit"}

FetchRuns == fetch # None => worker[fetch].pc \in Running

(* A worker that has been registered and not launched belongs to the thread  *)
(* that is to launch it.                                                     *)
LaunchersApart ==
    /\ add.pc = "launch" => add.worker \in Workers /\ worker[add.worker].pc = "reserved"
    /\ \A w \in Workers : worker[w].pc = "launch" =>
         /\ worker[w].next \in Workers /\ worker[worker[w].next].pc = "reserved"
         /\ add.pc = "launch" => add.worker # worker[w].next
         /\ \A v \in Workers : worker[v].pc = "launch" /\ worker[v].next = worker[w].next => v = w

(* The file an entry is about to be recorded for is there; and the registry  *)
(* can be restored without the file that an add may have to remove again.    *)
RestorableWithout(data) ==
    \/ sidecar = None \/ sidecar.state \in {"deleting", "delete_failed"}
    \/ sidecar.state = "ready" /\ ~data /\ final
    \/ sidecar.state # "ready" /\ IF data THEN pending ELSE final

AddFiles ==
    /\ add.pc = "record" => IF add.data THEN final ELSE pending
    /\ add.pc = "unpend" => final
    /\ add.pc = "undo" => add.created
    /\ add.pc \in {"record", "undo"} /\ add.created => Unsynced \/ RestorableWithout(add.data)

WorkerFiles(w) ==
    /\ worker[w].pc \in {"write", "unpend"} => final
    /\ worker[w].pc = "write" => entry # None
    /\ worker[w].pc = "undo" => entry = None

FilesInPlace == AddFiles /\ \A w \in Workers : WorkerFiles(w)

(* A deletion that has not failed so far has removed what it went through.   *)
Removed ==
    ~del.failed =>
        /\ del.pc \in {"pending", "subtitles", "finish"} => ~final
        /\ del.pc \in {"subtitles", "finish"} => ~pending

(* The session's entry is the sidecar.                                       *)
Mirrors == session = "down" \/ Unsynced \/ entry = sidecar

IInv ==
    /\ TypeOK /\ Blank /\ StartsQuietly /\ LockExclusive /\ LockedNotDeleting /\ DeletionOwns
    /\ FetchRuns /\ LaunchersApart /\ FilesInPlace /\ Removed /\ Mirrors /\ AlwaysRestorable

-----------------------------------------------------------------------------
(* The parts of the types, and the parts of the invariant that are about the *)
(* threads only and about what the threads do.                               *)

DiskTypes ==
    /\ sidecar \in RegistryEntry \cup {None} /\ entry \in RegistryEntry \cup {None}
    /\ final \in BOOLEAN /\ pending \in BOOLEAN
    /\ faults \in Seq(Outcomes \ {"ok"}) /\ Len(faults) <= MaxFaults

MapTypes ==
    /\ activeOp \in BOOLEAN
    /\ session \in {"down", "starting", "active", "closing"}
    /\ torrent \in 0 .. lives /\ lives \in 0 .. MaxLives /\ info \subseteq 1 .. lives
    /\ op \in {None, "deleting", "delete_failed", "deleted"}
    /\ crashes \in 0 .. MaxCrashes

ThreadTypes ==
    /\ fetch \in Workers \cup {None}
    /\ add \in Adds /\ worker \in [Workers -> WorkerStates] /\ del \in Deletes
    /\ add.torrent <= lives /\ del.torrent <= lives

ThreadInv == LockExclusive /\ FetchRuns /\ LaunchersApart

DataInv ==
    /\ Blank /\ StartsQuietly /\ LockedNotDeleting /\ DeletionOwns /\ FilesInPlace /\ Removed

DiskInv == Mirrors /\ AlwaysRestorable

(* The parts make up the invariant, before and after a step.                 *)
LEMMA Parts ==
    /\ TypeOK <=> DiskTypes /\ MapTypes /\ ThreadTypes
    /\ TypeOK' <=> DiskTypes' /\ MapTypes' /\ ThreadTypes'
    /\ IInv <=> TypeOK /\ ThreadInv /\ DataInv /\ DiskInv
    /\ IInv' <=> DiskTypes' /\ MapTypes' /\ ThreadTypes' /\ ThreadInv' /\ DataInv' /\ DiskInv'
<1>1. TypeOK <=> DiskTypes /\ MapTypes /\ ThreadTypes
  BY DEF TypeOK, DiskTypes, MapTypes, ThreadTypes
<1>2. TypeOK' <=> DiskTypes' /\ MapTypes' /\ ThreadTypes'
  BY DEF TypeOK, DiskTypes, MapTypes, ThreadTypes
<1>3. IInv <=> TypeOK /\ ThreadInv /\ DataInv /\ DiskInv
  BY DEF IInv, ThreadInv, DataInv, DiskInv
<1>4. IInv' <=> TypeOK' /\ ThreadInv' /\ DataInv' /\ DiskInv'
  BY DEF IInv, ThreadInv, DataInv, DiskInv
<1> QED
  BY <1>1, <1>2, <1>3, <1>4

(* What the threads are when they do nothing.                                *)
LEMMA IdleFacts ==
    /\ NoAdd \in Adds /\ NoAdd.pc = "idle" /\ NoAdd.torrent = 0
    /\ NoDelete \in Deletes /\ NoDelete.pc = "idle" /\ NoDelete.torrent = 0
    /\ NoWorker \in WorkerStates /\ NoWorker.pc = "idle"
BY RegistryAssumption, SMTT(30)
   DEF NoAdd, NoDelete, NoWorker, Adds, Deletes, WorkerStates, AddPcs, DeletePcs, WorkerPcs

(* A fresh registry satisfies the invariant.                                 *)
LEMMA InitIInv == Init => IInv
<1> SUFFICES ASSUME Init PROVE IInv
  OBVIOUS
<1>1. DiskTypes
  <2>1. final \in BOOLEAN /\ pending \in BOOLEAN
    BY DEF Init
  <2> QED
    BY <2>1, RegistryAssumption, SMTT(30) DEF Init, DiskTypes
<1>2. MapTypes
  <2>1. activeOp \in BOOLEAN
    BY DEF Init
  <2> QED
    BY <2>1, RegistryAssumption, SMTT(30) DEF Init, MapTypes
<1>3. ThreadTypes
  BY IdleFacts, RegistryAssumption, SMTT(30) DEF Init, ThreadTypes
<1>4. add.pc = "idle" /\ del.pc = "idle" /\ \A w \in Workers : worker[w].pc = "idle"
  BY IdleFacts DEF Init
<1>5. ThreadInv
  BY <1>4 DEF Init, ThreadInv, LockExclusive, Locks, FetchRuns, LaunchersApart
<1>6. DataInv
  BY <1>4 DEF Init, DataInv, Blank, StartsQuietly, LockedNotDeleting, Locks, DeletionOwns, FilesInPlace,
              AddFiles, WorkerFiles, Removed, DeletionPending
<1>7. DiskInv
  BY DEF Init, DiskInv, Mirrors, AlwaysRestorable
<1> QED
  BY <1>1, <1>2, <1>3, <1>5, <1>6, <1>7, Parts

-----------------------------------------------------------------------------
(* What a disk operation does to the faults, whatever its outcome.           *)
LEMMA IoFacts ==
    ASSUME NEW o \in Outcomes, Io(o), DiskTypes
    PROVE  /\ faults' \in Seq(Outcomes \ {"ok"}) /\ Len(faults') <= MaxFaults
           /\ Unsynced' \/ (~Unsynced /\ o \in {"ok", "failed"})
<1>1. CASE o = "ok"
  BY <1>1 DEF Io, DiskTypes, Unsynced
<1>2. CASE o # "ok"
  <2>1. faults' = Append(faults, o) /\ Len(faults) < MaxFaults
    BY <1>2 DEF Io
  <2>2. faults \in Seq(Outcomes \ {"ok"}) /\ o \in Outcomes \ {"ok"}
    BY <1>2 DEF DiskTypes
  <2>3. faults' \in Seq(Outcomes \ {"ok"}) /\ Len(faults') = Len(faults) + 1
    BY <2>1, <2>2, SMTT(30)
  <2>4. /\ \A i \in 1 .. Len(faults) : faults'[i] = faults[i]
        /\ faults'[Len(faults) + 1] = o
    BY <2>1, <2>2, SMTT(30)
  <2>5. Len(faults) \in Nat
    BY <2>2, SMTT(30)
  <2> USE <2>5
  <2>6. Unsynced => Unsynced'
    BY <2>3, <2>4, SMTT(30) DEF Unsynced
  <2>7. o = "unsynced" => Unsynced'
    BY <2>3, <2>4, SMTT(30) DEF Unsynced
  <2>8. o \in {"ok", "failed", "unsynced"}
    BY DEF Outcomes
  <2> QED
    BY <2>1, <2>3, <2>6, <2>7, <2>8, RegistryAssumption, SMTT(30)
<1> QED
  BY <1>1, <1>2

(* What writing an entry does: unless it takes effect and is reported as     *)
(* failed, the sidecar and the session's entry both change or neither does.  *)
LEMMA WriteFacts ==
    ASSUME NEW o \in Outcomes, NEW e \in RegistryEntry, WriteEntry(o, e), DiskTypes
    PROVE  /\ sidecar' \in {sidecar, e} /\ entry' \in {entry, e}
           /\ faults' \in Seq(Outcomes \ {"ok"}) /\ Len(faults') <= MaxFaults
           /\ o = "ok" => entry' = e
           /\ o # "ok" => entry' = entry
           /\ Unsynced' \/ ~Unsynced
           /\ \/ Unsynced'
              \/ ~Unsynced /\ o = "ok" /\ sidecar' = e /\ entry' = e
              \/ ~Unsynced /\ o # "ok" /\ sidecar' = sidecar /\ entry' = entry
<1>1. Io(o) /\ sidecar' = (IF TookEffect(o) THEN e ELSE sidecar) /\ entry' = (IF o = "ok" THEN e ELSE entry)
  BY DEF WriteEntry
<1> QED
  BY <1>1, IoFacts DEF TookEffect

-----------------------------------------------------------------------------
(* Frames.  The first two are about the threads and the registered worker.   *)

(* No worker moves: flags may be set, the registration may go, and the add   *)
(* may take the free lock or go on without launching anything.               *)
LEMMA ThreadsKept ==
    ASSUME ThreadTypes, ThreadInv,
           fetch' \in {fetch, None},
           \A v \in Workers : worker'[v].pc = worker[v].pc /\ worker'[v].next = worker[v].next,
           add'.pc # "launch" \/ add' = add,
           add'.pc # "idle" => add.pc # "idle" \/ ~HashLocked
    PROVE  ThreadInv'
<1>1. LockExclusive'
  BY DEF ThreadInv, LockExclusive, Locks, HashLocked
<1>2. FetchRuns'
  BY DEF ThreadInv, ThreadTypes, FetchRuns
<1>3. LaunchersApart'
  BY SMTT(30) DEF ThreadInv, ThreadTypes, LaunchersApart
<1> QED
  BY <1>1, <1>2, <1>3 DEF ThreadInv

(* One worker moves, and does not register or launch another.                *)
LEMMA WorkerMoves ==
    ASSUME ThreadTypes, ThreadInv, NEW w \in Workers,
           \A v \in Workers \ {w} : worker'[v].pc = worker[v].pc /\ worker'[v].next = worker[v].next,
           worker[w].pc # "reserved", worker'[w].pc # "launch",
           add' = add,
           fetch' \in {fetch, None}, fetch' = w => worker'[w].pc \in Running,
           worker'[w].pc \in {"write", "undo", "failed", "unpend"} => Locks(w) \/ ~HashLocked
    PROVE  ThreadInv'
<1>1. LockExclusive'
  BY SMTT(30) DEF ThreadInv, LockExclusive, Locks, HashLocked
<1>2. FetchRuns'
  BY DEF ThreadInv, ThreadTypes, FetchRuns
<1>3. LaunchersApart'
  BY SMTT(30) DEF ThreadInv, ThreadTypes, LaunchersApart
<1> QED
  BY <1>1, <1>2, <1>3 DEF ThreadInv

(* A thread that is not idle runs in a session that has started.             *)
LEMMA SessionOn ==
    ASSUME IInv
    PROVE  /\ add.pc # "idle" => session \in {"active", "closing"}
           /\ \A w \in Workers : worker[w].pc # "idle" => session \in {"active", "closing"}
<1>1. session \in {"down", "starting", "active", "closing"}
  BY DEF IInv, TypeOK
<1>2. CASE session = "down"
  BY <1>2, IdleFacts DEF IInv, Blank
<1>3. CASE session = "starting"
  BY <1>3 DEF IInv, StartsQuietly
<1> QED
  BY <1>1, <1>2, <1>3

(* Nothing on disk, no entry and no deletion changes, and no thread comes to *)
(* hold the lock beyond the check for a deletion.                            *)
LEMMA DataKept ==
    ASSUME IInv,
           UNCHANGED <<sidecar, final, pending, entry, torrent, lives, op, activeOp, del, faults>>,
           session \in {"active", "closing"}, session' \in {"active", "closing"},
           add'.pc \notin {"idle", "locked"} => add.pc \notin {"idle", "locked"},
           add'.pc \in {"record", "undo", "unpend"} => add' = add,
           \A v \in Workers :
               /\ worker'[v].pc \in {"write", "undo", "unpend"} => worker'[v].pc = worker[v].pc
               /\ worker'[v].pc = "failed" => worker[v].pc = "failed" \/ ~DeletionPending
    PROVE  DiskTypes' /\ DataInv' /\ DiskInv'
<1>1. Unsynced' = Unsynced /\ DeletionPending' = DeletionPending
  BY DEF Unsynced, DeletionPending
<1>2. DiskTypes'
  BY Parts DEF DiskTypes
<1>3. Blank' /\ StartsQuietly'
  BY DEF Blank, StartsQuietly
<1>4. LockedNotDeleting'
  BY <1>1 DEF IInv, LockedNotDeleting, Locks
<1>5. DeletionOwns' /\ Removed'
  BY <1>1 DEF IInv, DeletionOwns, Removed
<1>6. FilesInPlace'
  <2>1. add'.pc \in {"record", "undo", "unpend"} => AddFiles'
    BY <1>1 DEF IInv, FilesInPlace, AddFiles, RestorableWithout
  <2>2. add'.pc \notin {"record", "undo", "unpend"} => AddFiles'
    BY DEF AddFiles
  <2>3. \A v \in Workers : WorkerFiles(v)'
    BY DEF IInv, FilesInPlace, WorkerFiles
  <2> QED
    BY <2>1, <2>2, <2>3 DEF FilesInPlace
<1>7. Mirrors' /\ AlwaysRestorable'
  BY <1>1 DEF IInv, Mirrors, AlwaysRestorable, Unrestorable
<1> QED
  BY <1>2, <1>3, <1>4, <1>5, <1>6, <1>7 DEF DataInv, DiskInv

(* The holder of the lock, past the check for a deletion, is alone: no       *)
(* worker holds the lock and no deletion runs.                               *)
LEMMA AddAlone ==
    ASSUME IInv, add.pc # "idle", add.pc # "locked" \/ ~DeletionPending
    PROVE  /\ session \in {"active", "closing"}
           /\ \A w \in Workers : ~Locks(w)
           /\ ~DeletionPending /\ del.pc = "idle" /\ activeOp = FALSE
<1>1. session \in {"active", "closing"} /\ \A w \in Workers : ~Locks(w)
  BY SessionOn DEF IInv, LockExclusive
<1>2. ~DeletionPending
  BY DEF IInv, LockedNotDeleting
<1>3. ~activeOp /\ del.pc = "idle" /\ activeOp \in BOOLEAN
  BY <1>2 DEF IInv, DeletionOwns, TypeOK
<1> QED
  BY <1>1, <1>2, <1>3

(* An add that is alone changes files and the entry as it may.               *)
LEMMA AddData ==
    ASSUME IInv, add.pc # "idle", add.pc # "locked" \/ ~DeletionPending,
           UNCHANGED <<session, activeOp, worker, del>>,
           ~DeletionPending', AddFiles'
    PROVE  DataInv'
<1>1. /\ session \in {"active", "closing"}
      /\ \A w \in Workers : ~Locks(w)
      /\ del.pc = "idle" /\ activeOp = FALSE
  BY AddAlone
<1> USE <1>1
<1>2. Blank' /\ StartsQuietly' /\ LockedNotDeleting'
  BY DEF Blank, StartsQuietly, LockedNotDeleting
<1>3. DeletionOwns' /\ Removed'
  BY DEF DeletionOwns, Removed
<1>4. \A w \in Workers : WorkerFiles(w)'
  BY DEF WorkerFiles, Locks
<1> QED
  BY <1>2, <1>3, <1>4 DEF DataInv, FilesInPlace

-----------------------------------------------------------------------------
(* The steps of an add.                                                      *)

(* The lock is taken.                                                        *)
LEMMA AddTorrentAndPersistStep ==
    ASSUME IInv, NEW metainfo \in BOOLEAN, AddTorrentAndPersist(metainfo) PROVE IInv'
<1>1. /\ add' \in Adds /\ add'.pc = "locked" /\ add'.torrent = 0
      /\ ~HashLocked /\ session = "active"
  <2>1. final \in BOOLEAN
    BY DEF IInv, TypeOK
  <2>2. PICK d \in BOOLEAN : add' = [NoAdd EXCEPT !.pc = "locked", !.data = d]
    BY <2>1 DEF AddTorrentAndPersist
  <2> USE <2>2
  <2>3. ~HashLocked /\ session = "active"
    BY DEF AddTorrentAndPersist
  <2>4. add' \in Adds
    BY IdleFacts DEF Adds, AddPcs
  <2>5. add'.pc = "locked" /\ add'.torrent = 0
    BY IdleFacts DEF Adds, NoAdd
  <2> QED
    BY <2>3, <2>4, <2>5
<1> USE <1>1
<1>2. UNCHANGED <<sidecar, final, pending, session, entry, torrent, lives, info, op, activeOp,
                  fetch, worker, del, faults, crashes>>
  BY DEF AddTorrentAndPersist, diskVars, stateVars
<1> USE <1>2
<1>3. MapTypes' /\ ThreadTypes'
  BY Parts, SMTT(30) DEF MapTypes, ThreadTypes
<1>4. ThreadInv'
  BY Parts, ThreadsKept
<1>5. DiskTypes' /\ DataInv' /\ DiskInv'
  BY DataKept
<1> QED
  BY <1>3, <1>4, <1>5, Parts

(* The add gives up before it has done anything.                             *)
LEMMA AddRefusedStep ==
    ASSUME IInv, AddRefused PROVE IInv'
<1> USE IdleFacts, Parts
<1>1. add.pc = "locked" /\ add' = NoAdd
  BY DEF AddRefused
<1> USE <1>1
<1>2. UNCHANGED <<sidecar, final, pending, session, entry, torrent, lives, info, op, activeOp,
                  fetch, worker, del, faults, crashes>>
  BY DEF AddRefused, diskVars, stateVars
<1> USE <1>2
<1>3. MapTypes' /\ ThreadTypes'
  BY SMTT(30) DEF MapTypes, ThreadTypes
<1>4. ThreadInv'
  BY ThreadsKept
<1>5. DiskTypes' /\ DataInv' /\ DiskInv'
  BY DataKept, SessionOn
<1> QED
  BY <1>3, <1>4, <1>5

(* The file of the torrent is published.                                     *)
LEMMA AddPublishStep ==
    ASSUME IInv, NEW o \in Outcomes, AddPublish(o) PROVE IInv'
<1> DEFINE new == torrent = 0
           n == IF new THEN lives + 1 ELSE torrent
           exists == IF add.data THEN final ELSE pending
<1>1. /\ add.pc = "locked" /\ session = "active" /\ ~DeletionPending
      /\ new => lives < MaxLives
      /\ Io(o)
      /\ final' = (final \/ (add.data /\ TookEffect(o)))
      /\ pending' = (pending \/ (~add.data /\ TookEffect(o)))
      /\ lives' = IF new THEN n ELSE lives
      /\ info' = IF add.data THEN info \cup {n} ELSE info
      /\ o = "ok" => add' = [add EXCEPT !.pc = "record", !.torrent = n, !.new = new, !.created = ~exists]
      /\ o # "ok" => add' = NoAdd
      /\ UNCHANGED <<sidecar, session, entry, torrent, op, activeOp, fetch, worker, del, crashes>>
  BY DEF AddPublish
<1>2. /\ final \in BOOLEAN /\ pending \in BOOLEAN /\ add \in Adds /\ add.data \in BOOLEAN
      /\ new \in BOOLEAN /\ (~exists) \in BOOLEAN /\ final' \in BOOLEAN /\ pending' \in BOOLEAN
  <2>1. final \in BOOLEAN /\ pending \in BOOLEAN /\ add \in Adds
    BY DEF IInv, TypeOK
  <2>2. add.data \in BOOLEAN
    BY <2>1 DEF Adds
  <2> QED
    BY <1>1, <2>1, <2>2
<1>3. /\ lives \in 0 .. MaxLives /\ torrent \in 0 .. lives
      /\ n \in 1 .. lives' /\ lives' \in 0 .. MaxLives /\ lives <= lives'
  BY <1>1, Parts, RegistryAssumption, SMTT(30) DEF MapTypes
<1> HIDE DEF new, n, exists
<1>4. /\ faults' \in Seq(Outcomes \ {"ok"}) /\ Len(faults') <= MaxFaults
      /\ Unsynced' \/ (~Unsynced /\ o \in {"ok", "failed"})
  BY <1>1, Parts, IoFacts
<1>5. /\ o = "ok" => /\ add' \in Adds /\ add'.pc = "record" /\ add'.torrent = n
                     /\ add'.data = add.data /\ add'.created = ~exists
      /\ o # "ok" => add' \in Adds /\ add'.pc = "idle" /\ add'.torrent = 0
  <2>1. CASE o = "ok"
    <3>1. PICK nw \in BOOLEAN, cr \in BOOLEAN :
            /\ cr = ~exists
            /\ add' = [add EXCEPT !.pc = "record", !.torrent = n, !.new = nw, !.created = cr]
      BY <1>1, <1>2, <2>1
    <3> USE <3>1
    <3>2. n \in 0 .. MaxLives
      BY <1>3, RegistryAssumption, SMTT(30)
    <3>3. add' \in Adds
      BY <1>2, <3>2 DEF Adds, AddPcs
    <3>4. add'.pc = "record" /\ add'.torrent = n /\ add'.data = add.data /\ add'.created = cr
      BY <1>2 DEF Adds
    <3> QED
      BY <2>1, <3>3, <3>4
  <2>2. CASE o # "ok"
    BY <1>1, <2>2, IdleFacts
  <2> QED
    BY <2>1, <2>2
<1>6. DiskTypes'
  BY <1>1, <1>2, <1>4, Parts DEF DiskTypes
<1>7. MapTypes'
  <2>1. info' \subseteq 1 .. lives' /\ torrent \in 0 .. lives'
    BY <1>1, <1>3, Parts, RegistryAssumption, SMTT(30) DEF MapTypes
  <2> QED
    BY <1>1, <1>3, <2>1, Parts DEF MapTypes
<1>8. ThreadTypes'
  BY <1>1, <1>3, <1>5, Parts, RegistryAssumption, SMTT(30) DEF ThreadTypes, Deletes
<1>9. ThreadInv'
  BY <1>1, <1>5, Parts, ThreadsKept
<1>10. (final => final') /\ (pending => pending')
  BY <1>1
<1>11. AddFiles'
  <2>1. CASE o # "ok"
    BY <1>5, <2>1 DEF AddFiles
  <2>2. CASE o = "ok"
    <3>1. TookEffect(o)
      BY <2>2 DEF TookEffect
    <3>2. /\ add.data => final' /\ (pending' <=> pending)
          /\ ~add.data => pending' /\ (final' <=> final)
      BY <1>1, <1>2, <3>1
    <3>3. /\ add.data => (exists <=> final)
          /\ ~add.data => (exists <=> pending)
      BY DEF exists
    <3>4. Unsynced' \/ sidecar = None \/ sidecar.state \in {"deleting", "delete_failed"} \/ ~Unrestorable(sidecar)
      BY <1>4 DEF IInv, AlwaysRestorable
    <3>5. ASSUME ~exists PROVE Unsynced' \/ RestorableWithout(add.data)'
      <4>1. sidecar' = sidecar /\ (add'.data <=> add.data)
        BY <1>1, <1>5, <2>2
      <4>2. CASE add.data
        BY <3>2, <3>3, <3>4, <3>5, <4>1, <4>2 DEF Unrestorable, RestorableWithout
      <4>3. CASE ~add.data
        BY <3>2, <3>3, <3>4, <3>5, <4>1, <4>3 DEF Unrestorable, RestorableWithout
      <4> QED
        BY <4>2, <4>3
    <3>6. add'.pc = "record" /\ add'.pc # "unpend" /\ add'.pc # "undo"
      BY <1>5, <2>2
    <3> QED
      BY <1>5, <2>2, <3>2, <3>5, <3>6 DEF AddFiles
  <2> QED
    BY <2>1, <2>2
<1>12. DataInv'
  <2>1. ~DeletionPending'
    BY <1>1 DEF DeletionPending
  <2> QED
    BY <1>1, <1>11, <2>1, AddData
<1>13. DiskInv'
  BY <1>1, <1>4, <1>10 DEF IInv, DiskInv, Mirrors, AlwaysRestorable, Unrestorable
<1> QED
  BY <1>6, <1>7, <1>8, <1>9, <1>12, <1>13, Parts

(* The entry is recorded, and the torrent adopted with it.                   *)
LEMMA AddRecordStep ==
    ASSUME IInv, NEW o \in Outcomes, AddRecord(o) PROVE IInv'
<1> DEFINE e == [state |-> IF add.data THEN "ready" ELSE "adding", favorite |-> entry # None /\ entry.favorite]
<1>1. /\ add.pc = "record"
      /\ WriteEntry(o, e)
      /\ o = "ok" => /\ torrent' = add.torrent
                     /\ op' = IF add.new THEN None ELSE op
                     /\ add' = [add EXCEPT !.pc = IF add.data THEN "unpend" ELSE "register"]
      /\ o # "ok" => /\ add' = IF add.created THEN [add EXCEPT !.pc = "undo"] ELSE NoAdd
                     /\ torrent' = torrent /\ op' = op
      /\ UNCHANGED <<final, pending, session, lives, info, activeOp, fetch, worker, del, crashes>>
  BY DEF AddRecord
<1>2. e \in RegistryEntry /\ (add.data => e.state = "ready") /\ (~add.data => e.state = "adding")
  <2>1. PICK b \in BOOLEAN : e = [state |-> IF add.data THEN "ready" ELSE "adding", favorite |-> b]
    OBVIOUS
  <2> USE <2>1
  <2>2. CASE add.data
    BY <2>2 DEF RegistryEntry, TorrentState
  <2>3. CASE ~add.data
    BY <2>3 DEF RegistryEntry, TorrentState
  <2> QED
    BY <2>2, <2>3
<1> HIDE DEF e
<1>3. add \in Adds
  BY DEF IInv, TypeOK
<1>4. /\ o = "ok" => add'.pc = IF add.data THEN "unpend" ELSE "register"
      /\ o # "ok" /\ add.created => add'.pc = "undo"
      /\ add'.pc # "idle" => (add'.data <=> add.data) /\ (add'.created <=> add.created)
      /\ o # "ok" /\ ~add.created => add'.pc = "idle"
      /\ add' \in Adds /\ add'.torrent \in {0, add.torrent}
  <2>1. CASE o = "ok"
    <3>1. PICK p \in AddPcs : p = (IF add.data THEN "unpend" ELSE "register") /\ add' = [add EXCEPT !.pc = p]
      BY <1>1, <2>1 DEF AddPcs
    <3> QED
      BY <1>3, <2>1, <3>1 DEF Adds
  <2>2. CASE o # "ok" /\ add.created
    <3>1. add' = [add EXCEPT !.pc = "undo"]
      BY <1>1, <2>2
    <3>2. add' \in Adds
      BY <1>3, <3>1 DEF Adds, AddPcs
    <3> QED
      BY <1>3, <2>2, <3>1, <3>2 DEF Adds
  <2>3. CASE o # "ok" /\ ~add.created
    <3>1. add' = NoAdd
      BY <1>1, <2>3
    <3> QED
      BY <2>3, <3>1, IdleFacts
  <2> QED
    BY <2>1, <2>2, <2>3
<1>5. /\ sidecar' \in {sidecar, e} /\ entry' \in {entry, e}
      /\ faults' \in Seq(Outcomes \ {"ok"}) /\ Len(faults') <= MaxFaults
      /\ \/ Unsynced'
         \/ ~Unsynced /\ o = "ok" /\ sidecar' = e /\ entry' = e
         \/ ~Unsynced /\ o # "ok" /\ sidecar' = sidecar /\ entry' = entry
  BY <1>1, <1>2, Parts, WriteFacts
<1>6. DiskTypes'
  BY <1>1, <1>2, <1>5, Parts DEF DiskTypes
<1>7. MapTypes'
  BY <1>1, <1>3, Parts, SMTT(30) DEF MapTypes, ThreadTypes, Adds
<1>8. ThreadTypes'
  BY <1>1, <1>4, Parts, SMTT(30) DEF ThreadTypes, MapTypes
<1>9. ThreadInv'
  BY <1>1, <1>4, Parts, ThreadsKept
<1>10. ~DeletionPending'
  BY <1>1, <1>2, <1>5, AddAlone DEF DeletionPending
<1>11. AddFiles /\ (add.data => final) /\ (~add.data => pending)
  BY <1>1 DEF IInv, FilesInPlace, AddFiles
<1>12. AddFiles'
  <2>1. CASE o = "ok"
    BY <1>1, <1>4, <1>11, <2>1 DEF AddFiles
  <2>2. CASE o # "ok" /\ add.created
    <3>1. add'.pc = "undo" /\ add'.pc # "record" /\ add'.pc # "unpend"
      BY <1>4, <2>2
    <3>2. /\ (add'.data <=> add.data) /\ (add'.created <=> add.created)
          /\ (final' <=> final) /\ (pending' <=> pending)
      BY <1>1, <1>4, <3>1
    <3>3. Unsynced \/ RestorableWithout(add.data)
      BY <1>1, <1>11, <2>2 DEF AddFiles
    <3>4. Unsynced' \/ RestorableWithout(add.data)'
      BY <1>5, <2>2, <3>2, <3>3 DEF RestorableWithout
    <3> QED
      BY <2>2, <3>1, <3>2, <3>4 DEF AddFiles
  <2>3. CASE o # "ok" /\ ~add.created
    BY <1>4, <2>3 DEF AddFiles
  <2> QED
    BY <2>1, <2>2, <2>3
<1>13. DataInv'
  BY <1>1, <1>10, <1>12, AddData
<1>14. Mirrors'
  BY <1>1, <1>5, AddAlone DEF IInv, Mirrors
<1>15. AlwaysRestorable'
  <2>1. Unsynced' \/ sidecar' = e \/ (~Unsynced /\ sidecar' = sidecar)
    BY <1>5
  <2>2. CASE sidecar' = e
    BY <1>1, <1>2, <1>11, <2>2 DEF AlwaysRestorable, Unrestorable
  <2>3. CASE ~Unsynced /\ sidecar' = sidecar
    BY <1>1, <2>3 DEF IInv, AlwaysRestorable, Unrestorable
  <2> QED
    BY <2>1, <2>2, <2>3 DEF AlwaysRestorable
<1> QED
  BY <1>6, <1>7, <1>8, <1>9, <1>13, <1>14, <1>15, Parts DEF DiskInv

(* The file that the add created is removed: the registry is restorable      *)
(* without it.                                                               *)
LEMMA AddUndoStep ==
    ASSUME IInv, NEW o \in Outcomes, AddUndo(o) PROVE IInv'
<1>1. /\ add.pc = "undo"
      /\ Io(o)
      /\ final' = (final /\ ~(add.data /\ TookEffect(o)))
      /\ pending' = (pending /\ ~(~add.data /\ TookEffect(o)))
      /\ add' = NoAdd
      /\ UNCHANGED <<sidecar, session, entry, torrent, lives, info, op, activeOp, fetch, worker, del, crashes>>
  BY DEF AddUndo, stateVars
<1> USE <1>1
<1>2. /\ faults' \in Seq(Outcomes \ {"ok"}) /\ Len(faults') <= MaxFaults
      /\ Unsynced' \/ (~Unsynced /\ o \in {"ok", "failed"})
  BY Parts, IoFacts
<1>3. final' \in BOOLEAN /\ pending' \in BOOLEAN
  OBVIOUS
<1>4. DiskTypes'
  BY <1>2, <1>3, Parts DEF DiskTypes
<1>5. MapTypes' /\ ThreadTypes'
  BY Parts, IdleFacts, SMTT(30) DEF MapTypes, ThreadTypes
<1>6. ThreadInv'
  BY IdleFacts, Parts, ThreadsKept
<1>7. DataInv'
  <2>1. ~DeletionPending'
    BY AddAlone DEF DeletionPending
  <2>2. AddFiles'
    BY IdleFacts DEF AddFiles
  <2> QED
    BY <2>1, <2>2, AddData
<1>8. Mirrors'
  BY <1>2 DEF IInv, Mirrors
<1>9. AlwaysRestorable'
  <2>1. Unsynced' \/ RestorableWithout(add.data)
    <3>1. AddFiles
      BY DEF IInv, FilesInPlace
    <3> QED
      BY <1>2, <3>1 DEF AddFiles
  <2>2. CASE add.data
    <3>1. pending => pending'
      BY <2>2
    <3> QED
      BY <2>1, <2>2, <3>1 DEF RestorableWithout, AlwaysRestorable, Unrestorable
  <2>3. CASE ~add.data
    <3>1. final => final'
      BY <2>3
    <3> QED
      BY <2>1, <2>3, <3>1 DEF RestorableWithout, AlwaysRestorable, Unrestorable
  <2> QED
    BY <2>2, <2>3
<1> QED
  BY <1>4, <1>5, <1>6, <1>7, <1>8, <1>9, Parts DEF DiskInv

(* The pending file goes once the metainfo is there.                         *)
LEMMA AddUnpendStep ==
    ASSUME IInv, NEW o \in Outcomes, AddUnpend(o) PROVE IInv'
<1>1. /\ add.pc = "unpend"
      /\ Io(o)
      /\ pending' = (pending /\ ~TookEffect(o))
      /\ add' = NoAdd
      /\ UNCHANGED <<sidecar, final, session, entry, torrent, lives, info, op, activeOp, fetch, worker, del, crashes>>
  BY DEF AddUnpend, stateVars
<1> USE <1>1
<1>2. /\ faults' \in Seq(Outcomes \ {"ok"}) /\ Len(faults') <= MaxFaults
      /\ Unsynced' \/ (~Unsynced /\ o \in {"ok", "failed"})
  BY Parts, IoFacts
<1>3. pending' \in BOOLEAN
  OBVIOUS
<1>4. DiskTypes'
  BY <1>2, <1>3, Parts DEF DiskTypes
<1>5. MapTypes' /\ ThreadTypes'
  BY Parts, IdleFacts, SMTT(30) DEF MapTypes, ThreadTypes
<1>6. ThreadInv'
  BY IdleFacts, Parts, ThreadsKept
<1>7. DataInv'
  <2>1. ~DeletionPending'
    BY AddAlone DEF DeletionPending
  <2>2. AddFiles'
    BY IdleFacts DEF AddFiles
  <2> QED
    BY <2>1, <2>2, AddData
<1>8. Mirrors'
  BY <1>2 DEF IInv, Mirrors
<1>9. AlwaysRestorable'
  <2>1. final'
    BY DEF IInv, FilesInPlace, AddFiles
  <2> QED
    BY <2>1 DEF AlwaysRestorable, Unrestorable
<1> QED
  BY <1>4, <1>5, <1>6, <1>7, <1>8, <1>9, Parts DEF DiskInv

-----------------------------------------------------------------------------
(* The metadata workers, and where an add starts one *)

(* A newly registered worker waits to be launched.                            *)
LEMMA NewFetchFacts ==
    ASSUME NEW n \in 0 .. MaxLives
    PROVE  NewFetch(n) \in WorkerStates /\ NewFetch(n).pc = "reserved"
<1>1. PICK b \in BOOLEAN : NewFetch(n) = [NoWorker EXCEPT !.pc = "reserved", !.torrent = n, !.cancelled = b]
  BY DEF NewFetch
<1>2. NewFetch(n) \in WorkerStates
  BY <1>1, IdleFacts DEF WorkerStates, WorkerPcs
<1> QED
  BY <1>1, <1>2 DEF NoWorker

(* A registered worker starts, or is abandoned when the backend has closed. *)
LEMMA LaunchedFacts ==
    ASSUME worker \in [Workers -> WorkerStates], NEW w \in Workers
    PROVE  /\ Launched(w) \in [Workers -> WorkerStates]
           /\ \A v \in Workers \ {w} : Launched(w)[v] = worker[v]
           /\ Launched(w)[w].next = worker[w].next
           /\ \/ Launched(w)[w].pc = "waiting" /\ Registration = fetch
              \/ Launched(w)[w].pc = "abandoned" /\ Registration = None
<1>1. CASE IsActive
  BY <1>1, SMTT(30) DEF Launched, Registration, WorkerStates, WorkerPcs
<1>2. CASE ~IsActive
  BY <1>2, SMTT(30) DEF Launched, Registration, WorkerStates, WorkerPcs
<1> QED
  BY <1>1, <1>2

(* A running worker is told to retry, or a new one is registered.            *)
LEMMA AddRegisterStep ==
    ASSUME IInv, AddRegister PROVE IInv'
<1>1. /\ add.pc = "register"
      /\ UNCHANGED <<sidecar, final, pending, session, entry, torrent, lives, info, op, activeOp, del, faults, crashes>>
  BY DEF AddRegister, diskVars, stateVars
<1>2. fetch \in Workers \cup {None} /\ worker \in [Workers -> WorkerStates] /\ add \in Adds
  BY DEF IInv, TypeOK
<1>3. CASE TellRunning /\ add' = NoAdd
  <2>1. /\ fetch \in Workers /\ fetch' = fetch
        /\ worker' = [worker EXCEPT ![fetch].retry = TRUE]
    BY <1>2, <1>3 DEF TellRunning
  <2> USE <2>1
  <2>2. /\ worker' \in [Workers -> WorkerStates]
        /\ \A v \in Workers : worker'[v].pc = worker[v].pc /\ worker'[v].next = worker[v].next
    <3>1. worker' \in [Workers -> WorkerStates]
      BY <1>2 DEF WorkerStates
    <3> QED
      BY <1>2, <3>1 DEF WorkerStates
  <2> USE <2>2
  <2>3. MapTypes' /\ ThreadTypes'
    BY <1>1, <1>3, Parts, IdleFacts, SMTT(30) DEF MapTypes, ThreadTypes
  <2>4. ThreadInv'
    BY <1>1, <1>3, Parts, ThreadsKept, IdleFacts
  <2>5. DiskTypes' /\ DataInv' /\ DiskInv'
    BY <1>1, <1>3, DataKept, IdleFacts, SessionOn
  <2> QED
    BY <2>3, <2>4, <2>5, Parts
<1>4. ASSUME NEW w \in Workers,
             fetch = None, Free(w), fetch' = w,
             worker' = [worker EXCEPT ![w] = NewFetch(add.torrent)],
             add' = [add EXCEPT !.pc = "launch", !.worker = w]
      PROVE  IInv'
  <2>1. add' \in Adds /\ add'.pc = "launch" /\ add'.worker = w /\ add'.torrent = add.torrent
    <3>1. add' \in Adds
      BY <1>2, <1>4 DEF Adds, AddPcs
    <3> QED
      BY <1>2, <1>4, <3>1 DEF Adds
  <2>2. NewFetch(add.torrent) \in WorkerStates /\ NewFetch(add.torrent).pc = "reserved"
    BY <1>2, NewFetchFacts DEF Adds
  <2>3. /\ worker' \in [Workers -> WorkerStates] /\ worker'[w].pc = "reserved"
        /\ \A v \in Workers \ {w} : worker'[v] = worker[v]
    BY <1>2, <1>4, <2>2
  <2> USE <2>3
  <2>4. MapTypes' /\ ThreadTypes'
    BY <1>1, <1>4, <2>1, Parts DEF MapTypes, ThreadTypes
  <2>5. worker[w].pc \in {"idle", "abandoned"}
    BY <1>4 DEF Free
  <2>6. LockExclusive' /\ FetchRuns' /\ LaunchersApart'
    BY <1>1, <1>2, <1>4, <2>1, <2>5, SMTT(30) DEF IInv, LockExclusive, Locks, FetchRuns, Running, LaunchersApart
  <2>7. DiskTypes' /\ DataInv' /\ DiskInv'
    BY <1>1, <2>1, DataKept, SessionOn
  <2> QED
    BY <2>4, <2>6, <2>7, Parts DEF ThreadInv
<1> QED
  BY <1>3, <1>4 DEF AddRegister

(* The registered worker is launched, unless the session was closed.         *)
LEMMA AddLaunchStep ==
    ASSUME IInv, AddLaunch PROVE IInv'
<1>1. /\ add.pc = "launch"
      /\ worker' = Launched(add.worker) /\ fetch' = Registration /\ add' = NoAdd
      /\ UNCHANGED <<sidecar, final, pending, session, entry, torrent, lives, info, op, activeOp, del, faults, crashes>>
  BY DEF AddLaunch, diskVars, stateVars
<1> USE <1>1
<1>2. fetch \in Workers \cup {None} /\ worker \in [Workers -> WorkerStates]
  BY DEF IInv, TypeOK
<1>3. PICK w \in Workers : w = add.worker /\ worker[w].pc = "reserved"
  BY DEF IInv, LaunchersApart
<1>4. /\ worker' \in [Workers -> WorkerStates]
      /\ \A v \in Workers \ {w} : worker'[v] = worker[v]
      /\ \/ worker'[w].pc = "waiting" /\ fetch' = fetch
         \/ worker'[w].pc = "abandoned" /\ fetch' = None
  BY <1>2, <1>3, LaunchedFacts
<1> USE <1>4
<1>5. MapTypes' /\ ThreadTypes'
  BY <1>2, Parts, IdleFacts, SMTT(30) DEF MapTypes, ThreadTypes
<1>6. LockExclusive' /\ FetchRuns'
  BY <1>2, IdleFacts DEF IInv, LockExclusive, Locks, FetchRuns, Running
<1>7. LaunchersApart'
  BY <1>3, IdleFacts, SMTT(30) DEF IInv, LaunchersApart
<1>8. DiskTypes' /\ DataInv' /\ DiskInv'
  BY DataKept, IdleFacts, SessionOn
<1> QED
  BY <1>5, <1>6, <1>7, <1>8, Parts DEF ThreadInv

-----------------------------------------------------------------------------
(* What putting a worker at another place does.                              *)
LEMMA ToFacts ==
    ASSUME worker \in [Workers -> WorkerStates], NEW w \in Workers, NEW p \in WorkerPcs, To(w, p)
    PROVE  /\ worker' \in [Workers -> WorkerStates] /\ worker'[w].pc = p
           /\ \A v \in Workers \ {w} : worker'[v] = worker[v]
           /\ \A v \in Workers : worker'[v].next = worker[v].next /\ (worker'[v].created <=> worker[v].created)
BY SMTT(30) DEF To, WorkerStates

(* The steps of a worker that change no file and no entry: it goes on to     *)
(* exit or to persist what it waited for, it records a failure under the     *)
(* lock, or it is about to register another.                                 *)
LEMMA WorkerCalm ==
    ASSUME IInv, NEW w \in Workers, NEW p \in WorkerPcs,
           worker' \in [Workers -> WorkerStates], worker'[w].pc = p,
           \A v \in Workers \ {w} : worker'[v].pc = worker[v].pc /\ worker'[v].next = worker[v].next,
           UNCHANGED <<sidecar, final, pending, session, entry, torrent, lives, info, op, activeOp,
                       add, del, faults, crashes>>,
           worker[w].pc \notin {"idle", "reserved"},
           fetch' \in {fetch, None}, fetch' = w => p \in Running,
           p \notin {"write", "undo", "unpend", "launch"},
           p = "failed" => ~HashLocked /\ ~DeletionPending
    PROVE  IInv'
<1>1. MapTypes' /\ ThreadTypes'
  BY Parts DEF MapTypes, ThreadTypes
<1>2. ThreadInv'
  BY Parts, WorkerMoves
<1>3. DiskTypes' /\ DataInv' /\ DiskInv'
  BY DataKept, SessionOn
<1> QED
  BY <1>1, <1>2, <1>3, Parts

(* The same, where nothing else of the worker changes.                       *)
LEMMA WorkerCalmStep ==
    ASSUME IInv, NEW w \in Workers, NEW p \in WorkerPcs, To(w, p),
           UNCHANGED <<sidecar, final, pending, session, entry, torrent, lives, info, op, activeOp,
                       add, del, faults, crashes>>,
           worker[w].pc \notin {"idle", "reserved"},
           fetch' \in {fetch, None}, fetch' = w => p \in Running,
           p \notin {"write", "undo", "unpend", "launch"},
           p = "failed" => ~HashLocked /\ ~DeletionPending
    PROVE  IInv'
<1>1. worker \in [Workers -> WorkerStates]
  BY DEF IInv, TypeOK
<1>2. /\ worker' \in [Workers -> WorkerStates] /\ worker'[w].pc = p
      /\ \A v \in Workers \ {w} : worker'[v] = worker[v]
  BY <1>1, ToFacts
<1> QED
  BY <1>2, WorkerCalm

(* The calm steps one by one.                                                *)
LEMMA WorkerCalmSteps ==
    ASSUME IInv, NEW w \in Workers,
           \/ WorkerWait(w) \/ WorkerRefused(w) \/ WorkerConflict(w) \/ WorkerExit(w) \/ WorkerRelaunch(w)
    PROVE  IInv'
<1>1. CASE WorkerWait(w)
  <2>1. /\ worker[w].pc = "waiting" /\ fetch' = fetch
        /\ To(w, "exit") \/ To(w, "persist")
        /\ UNCHANGED <<sidecar, final, pending, session, entry, torrent, lives, info, op, activeOp,
                       add, del, faults, crashes>>
    BY <1>1 DEF WorkerWait, diskVars, stateVars
  <2> QED
    BY <2>1, WorkerCalmStep DEF WorkerPcs, Running
<1>2. CASE WorkerRefused(w)
  <2>1. /\ worker[w].pc = "persist" /\ fetch' = fetch /\ To(w, "exit")
        /\ UNCHANGED <<sidecar, final, pending, session, entry, torrent, lives, info, op, activeOp,
                       add, del, faults, crashes>>
    BY <1>2 DEF WorkerRefused, diskVars, stateVars
  <2> QED
    BY <2>1, WorkerCalmStep DEF WorkerPcs, Running
<1>3. CASE WorkerConflict(w)
  <2>1. /\ worker[w].pc = "persist" /\ fetch' = fetch /\ To(w, "failed") /\ ~HashLocked /\ ~DeletionPending
        /\ UNCHANGED <<sidecar, final, pending, session, entry, torrent, lives, info, op, activeOp,
                       add, del, faults, crashes>>
    BY <1>3 DEF WorkerConflict, diskVars, stateVars
  <2> QED
    BY <2>1, WorkerCalmStep DEF WorkerPcs, Running
<1>4. CASE WorkerExit(w)
  <2>1. /\ worker[w].pc = "exit"
        /\ To(w, "retry") \/ To(w, "done")
        /\ UNCHANGED <<sidecar, final, pending, session, entry, torrent, lives, info, op, activeOp,
                       add, del, faults, crashes>>
    BY <1>4 DEF WorkerExit, diskVars, stateVars
  <2>2. fetch' \in {fetch, None} /\ fetch' # w
    BY <1>4, RegistryAssumption DEF WorkerExit
  <2> QED
    BY <2>1, <2>2, WorkerCalmStep DEF WorkerPcs
<1>5. CASE WorkerRelaunch(w)
  <2>1. /\ worker[w].pc = "relaunch" /\ fetch' = fetch
        /\ To(w, "done") \/ To(w, "register")
        /\ UNCHANGED <<sidecar, final, pending, session, entry, torrent, lives, info, op, activeOp,
                       add, del, faults, crashes>>
    BY <1>5 DEF WorkerRelaunch, diskVars, stateVars
  <2>2. fetch # w
    BY <2>1, RegistryAssumption DEF IInv, FetchRuns, Running
  <2> QED
    BY <2>1, <2>2, WorkerCalmStep DEF WorkerPcs
<1> QED
  BY <1>1, <1>2, <1>3, <1>4, <1>5

(* A worker that holds the lock is alone, and so is one that finds the lock  *)
(* free and no deletion.                                                     *)
LEMMA WorkerAlone ==
    ASSUME IInv, NEW w \in Workers,
           Locks(w) \/ (worker[w].pc # "idle" /\ ~HashLocked /\ ~DeletionPending)
    PROVE  /\ session \in {"active", "closing"} /\ add.pc = "idle"
           /\ \A v \in Workers \ {w} : ~Locks(v)
           /\ ~DeletionPending /\ del.pc = "idle" /\ activeOp = FALSE
<1>1. session \in {"active", "closing"}
  BY SessionOn DEF Locks
<1>2. add.pc = "idle" /\ \A v \in Workers \ {w} : ~Locks(v)
  BY DEF IInv, LockExclusive, HashLocked, Locks
<1>3. ~DeletionPending
  BY DEF IInv, LockedNotDeleting
<1>4. ~activeOp /\ del.pc = "idle" /\ activeOp \in BOOLEAN
  BY <1>3 DEF IInv, DeletionOwns, TypeOK
<1> QED
  BY <1>1, <1>2, <1>3, <1>4

(* A worker that is alone changes files and the entry as it may.             *)
LEMMA WorkerData ==
    ASSUME IInv, NEW w \in Workers,
           Locks(w) \/ (worker[w].pc # "idle" /\ ~HashLocked /\ ~DeletionPending),
           \A v \in Workers \ {w} : worker'[v] = worker[v],
           UNCHANGED <<session, activeOp, add, del>>,
           ~DeletionPending', WorkerFiles(w)'
    PROVE  DataInv'
<1>1. /\ session \in {"active", "closing"} /\ add.pc = "idle"
      /\ \A v \in Workers \ {w} : ~Locks(v)
      /\ del.pc = "idle" /\ activeOp = FALSE
  BY WorkerAlone
<1> USE <1>1
<1>2. Blank' /\ StartsQuietly' /\ LockedNotDeleting'
  BY DEF Blank, StartsQuietly, LockedNotDeleting
<1>3. DeletionOwns' /\ Removed'
  BY DEF DeletionOwns, Removed
<1>4. \A v \in Workers \ {w} : WorkerFiles(v)'
  BY DEF WorkerFiles, Locks
<1>5. AddFiles'
  BY DEF AddFiles
<1> QED
  BY <1>2, <1>3, <1>4, <1>5 DEF DataInv, FilesInPlace

(* The metainfo is published, under the lock.                                *)
LEMMA WorkerPublishStep ==
    ASSUME IInv, NEW w \in Workers, NEW o \in Outcomes, WorkerPublish(w, o) PROVE IInv'
<1>1. /\ worker[w].pc = "persist" /\ ~HashLocked /\ session = "active" /\ ~DeletionPending
      /\ Io(o)
      /\ final' = (final \/ TookEffect(o))
      /\ worker' = [worker EXCEPT
           ![w].pc = IF o # "ok" THEN "failed" ELSE IF entry = None THEN "undo" ELSE "write",
           ![w].created = ~final]
      /\ UNCHANGED <<sidecar, pending, session, entry, torrent, lives, info, op, activeOp, fetch, add, del, crashes>>
  BY DEF WorkerPublish, stateVars
<1>2. final' \in BOOLEAN /\ worker \in [Workers -> WorkerStates]
  BY <1>1 DEF IInv, TypeOK
<1>3. /\ worker' \in [Workers -> WorkerStates]
      /\ \A v \in Workers \ {w} : worker'[v] = worker[v]
      /\ worker'[w].pc = IF o # "ok" THEN "failed" ELSE IF entry = None THEN "undo" ELSE "write"
  <2>1. PICK p \in {"failed", "undo", "write"}, b \in BOOLEAN :
          /\ p = IF o # "ok" THEN "failed" ELSE IF entry = None THEN "undo" ELSE "write"
          /\ worker' = [worker EXCEPT ![w].pc = p, ![w].created = b]
    BY <1>1
  <2>2. p \in WorkerPcs
    BY DEF WorkerPcs
  <2>3. worker' \in [Workers -> WorkerStates]
    <3> DEFINE u == [worker EXCEPT ![w].pc = p]
    <3>1. worker' = [u EXCEPT ![w].created = b]
      BY <2>1
    <3>2. u \in [Workers -> WorkerStates]
      BY <1>2, <2>2 DEF WorkerStates
    <3> HIDE DEF u
    <3> QED
      BY <3>1, <3>2 DEF WorkerStates
  <2>4. worker'[w].pc = p /\ \A v \in Workers \ {w} : worker'[v] = worker[v]
    BY <1>2, <2>1 DEF WorkerStates
  <2> QED
    BY <2>1, <2>3, <2>4
<1>4. /\ faults' \in Seq(Outcomes \ {"ok"}) /\ Len(faults') <= MaxFaults
      /\ Unsynced' \/ (~Unsynced /\ o \in {"ok", "failed"})
  BY <1>1, Parts, IoFacts
<1>5. DiskTypes'
  BY <1>1, <1>2, <1>4, Parts DEF DiskTypes
<1>6. MapTypes' /\ ThreadTypes'
  BY <1>1, <1>3, Parts DEF MapTypes, ThreadTypes
<1>7. ThreadInv'
  BY <1>1, <1>3, Parts, WorkerMoves, SMTT(30) DEF Running
<1>8. (final => final') /\ (o = "ok" => final')
  <2>1. o = "ok" => TookEffect(o)
    BY DEF TookEffect
  <2> QED
    BY <1>1, <2>1
<1>9. WorkerFiles(w)'
  BY <1>1, <1>3, <1>8, SMTT(30) DEF WorkerFiles
<1>10. DataInv'
  <2>1. ~DeletionPending'
    BY <1>1 DEF DeletionPending
  <2> QED
    BY <1>1, <1>3, <1>9, <2>1, WorkerData
<1>11. DiskInv'
  BY <1>1, <1>4, <1>8 DEF IInv, DiskInv, Mirrors, AlwaysRestorable, Unrestorable
<1> QED
  BY <1>5, <1>6, <1>7, <1>10, <1>11, Parts

(* The entry becomes ready.                                                  *)
LEMMA WorkerWriteStep ==
    ASSUME IInv, NEW w \in Workers, NEW o \in Outcomes, WorkerWrite(w, o) PROVE IInv'
<1> DEFINE e == [entry EXCEPT !.state = "ready"]
           p == IF o = "ok" THEN "unpend" ELSE "failed"
<1>1. /\ worker[w].pc = "write"
      /\ WriteEntry(o, e)
      /\ UNCHANGED <<final, pending, session, torrent, lives, info, op, activeOp, fetch, add, del, crashes>>
  BY DEF WorkerWrite
<1> USE <1>1
<1>2. Locks(w) /\ session \in {"active", "closing"} /\ ~DeletionPending
  <2>1. Locks(w)
    BY DEF Locks
  <2> QED
    BY <2>1, WorkerAlone
<1>3. entry \in RegistryEntry /\ final
  BY DEF IInv, FilesInPlace, WorkerFiles, TypeOK
<1>4. e \in RegistryEntry /\ e.state = "ready" /\ p \in WorkerPcs
  BY <1>3 DEF RegistryEntry, TorrentState, WorkerPcs
<1> HIDE DEF e
<1>5. /\ worker' \in [Workers -> WorkerStates] /\ worker'[w].pc = p
      /\ \A v \in Workers \ {w} : worker'[v] = worker[v]
  <2>1. To(w, p)
    BY DEF WorkerWrite
  <2> QED
    BY <1>4, <2>1, ToFacts, Parts DEF ThreadTypes
<1>6. /\ sidecar' \in {sidecar, e} /\ entry' \in {entry, e}
      /\ faults' \in Seq(Outcomes \ {"ok"}) /\ Len(faults') <= MaxFaults
      /\ \/ Unsynced'
         \/ ~Unsynced /\ o = "ok" /\ sidecar' = e /\ entry' = e
         \/ ~Unsynced /\ o # "ok" /\ sidecar' = sidecar /\ entry' = entry
  BY <1>4, Parts, WriteFacts
<1>7. DiskTypes'
  BY <1>4, <1>6, Parts DEF DiskTypes
<1>8. MapTypes' /\ ThreadTypes'
  BY <1>5, Parts DEF MapTypes, ThreadTypes
<1>9. ThreadInv'
  BY <1>2, <1>5, Parts, WorkerMoves DEF Running
<1>10. DataInv'
  <2>1. ~DeletionPending'
    BY <1>4, <1>6, <1>2 DEF DeletionPending
  <2>2. WorkerFiles(w)'
    BY <1>3, <1>5 DEF WorkerFiles
  <2> QED
    BY <1>2, <1>5, <2>1, <2>2, WorkerData
<1>11. Mirrors'
  BY <1>2, <1>6 DEF IInv, Mirrors
<1>12. AlwaysRestorable'
  <2>1. final'
    BY <1>3
  <2> QED
    BY <2>1 DEF AlwaysRestorable, Unrestorable
<1> QED
  BY <1>7, <1>8, <1>9, <1>10, <1>11, <1>12, Parts DEF DiskInv

(* The pending file goes once the entry is ready.                            *)
LEMMA WorkerUnpendStep ==
    ASSUME IInv, NEW w \in Workers, NEW o \in Outcomes, WorkerUnpend(w, o) PROVE IInv'
<1>1. /\ worker[w].pc = "unpend"
      /\ Io(o)
      /\ UNCHANGED <<sidecar, final, session, entry, torrent, lives, info, op, activeOp, fetch, add, del, crashes>>
  BY DEF WorkerUnpend, stateVars
<1> USE <1>1
<1>2. /\ worker' \in [Workers -> WorkerStates] /\ worker'[w].pc = "exit"
      /\ \A v \in Workers \ {w} : worker'[v] = worker[v]
  <2>1. To(w, "exit")
    BY DEF WorkerUnpend
  <2> QED
    BY <2>1, ToFacts, Parts DEF ThreadTypes, WorkerPcs
<1>3. /\ faults' \in Seq(Outcomes \ {"ok"}) /\ Len(faults') <= MaxFaults
      /\ Unsynced' \/ (~Unsynced /\ o \in {"ok", "failed"})
  BY Parts, IoFacts
<1>4. Locks(w) /\ ~DeletionPending
  <2>1. Locks(w)
    BY DEF Locks
  <2> QED
    BY <2>1, WorkerAlone
<1>5. pending' \in BOOLEAN /\ final'
  <2>1. pending' = (pending /\ ~TookEffect(o))
    BY DEF WorkerUnpend
  <2>2. final'
    BY DEF IInv, FilesInPlace, WorkerFiles
  <2> QED
    BY <2>1, <2>2
<1>6. DiskTypes' /\ MapTypes' /\ ThreadTypes'
  BY <1>2, <1>3, <1>5, Parts, SMTT(30) DEF DiskTypes, MapTypes, ThreadTypes
<1>7. ThreadInv'
  BY <1>2, Parts, WorkerMoves DEF Running
<1>8. DataInv'
  <2>1. WorkerFiles(w)' /\ ~DeletionPending'
    BY <1>2, <1>4 DEF WorkerFiles, DeletionPending
  <2> QED
    BY <1>2, <1>4, <2>1, WorkerData
<1>9. DiskInv'
  BY <1>3, <1>5 DEF IInv, DiskInv, Mirrors, AlwaysRestorable, Unrestorable
<1> QED
  BY <1>6, <1>7, <1>8, <1>9, Parts

(* The entry is gone, and the metainfo the worker created with it.           *)
LEMMA WorkerUndoStep ==
    ASSUME IInv, NEW w \in Workers, NEW o \in Outcomes, WorkerUndo(w, o) PROVE IInv'
<1>1. /\ worker[w].pc = "undo"
      /\ Io(o)
      /\ UNCHANGED <<sidecar, pending, session, entry, torrent, lives, info, op, activeOp, fetch, add, del, crashes>>
  BY DEF WorkerUndo, stateVars
<1> USE <1>1
<1>2. /\ worker' \in [Workers -> WorkerStates] /\ worker'[w].pc = "exit"
      /\ \A v \in Workers \ {w} : worker'[v] = worker[v]
  <2>1. To(w, "exit")
    BY DEF WorkerUndo
  <2> QED
    BY <2>1, ToFacts, Parts DEF ThreadTypes, WorkerPcs
<1>3. /\ faults' \in Seq(Outcomes \ {"ok"}) /\ Len(faults') <= MaxFaults
      /\ Unsynced' \/ (~Unsynced /\ o \in {"ok", "failed"})
  BY Parts, IoFacts
<1>4. Locks(w) /\ ~DeletionPending /\ session \in {"active", "closing"}
  <2>1. Locks(w)
    BY DEF Locks
  <2> QED
    BY <2>1, WorkerAlone
<1>5. final' \in BOOLEAN /\ entry = None
  BY DEF IInv, FilesInPlace, WorkerFiles, WorkerUndo
<1>6. DiskTypes' /\ MapTypes' /\ ThreadTypes'
  BY <1>2, <1>3, <1>5, Parts, SMTT(30) DEF DiskTypes, MapTypes, ThreadTypes
<1>7. ThreadInv'
  BY <1>2, Parts, WorkerMoves DEF Running
<1>8. DataInv'
  <2>1. WorkerFiles(w)' /\ ~DeletionPending'
    BY <1>2, <1>4 DEF WorkerFiles, DeletionPending
  <2> QED
    BY <1>2, <1>4, <2>1, WorkerData
<1>9. DiskInv'
  <2>1. Unsynced' \/ sidecar' = entry'
    BY <1>3, <1>4 DEF IInv, Mirrors
  <2> QED
    BY <1>5, <2>1 DEF DiskInv, Mirrors, AlwaysRestorable
<1> QED
  BY <1>6, <1>7, <1>8, <1>9, Parts

(* An entry that is not being deleted keeps a file to start from when it is  *)
(* written back as adding or failed, or with another flag.                   *)
LEMMA RewriteRestorable ==
    ASSUME IInv, NEW o \in Outcomes, NEW e \in RegistryEntry, WriteEntry(o, e),
           entry # None, ~DeletionPending, session # "down",
           e.state \in {"adding", "error"} \/ e.state = entry.state,
           UNCHANGED <<final, pending, session>>
    PROVE  DiskTypes' /\ DiskInv' /\ ~DeletionPending' /\ entry' \in {entry, e}
<1>1. /\ sidecar' \in {sidecar, e} /\ entry' \in {entry, e}
      /\ faults' \in Seq(Outcomes \ {"ok"}) /\ Len(faults') <= MaxFaults
      /\ \/ Unsynced'
         \/ ~Unsynced /\ sidecar' = e /\ entry' = e
         \/ ~Unsynced /\ sidecar' = sidecar /\ entry' = entry
  BY Parts, WriteFacts
<1>2. DiskTypes'
  BY <1>1, Parts DEF DiskTypes
<1>3. ~DeletionPending'
  BY <1>1 DEF DeletionPending
<1>4. Unsynced \/ (entry = sidecar /\ sidecar.state \notin {"deleting", "delete_failed"} /\ ~Unrestorable(sidecar))
  BY DEF IInv, Mirrors, AlwaysRestorable, DeletionPending
<1>5. Mirrors'
  BY <1>1, <1>4 DEF Mirrors
<1>6. AlwaysRestorable'
  <2>1. CASE Unsynced'
    BY <2>1 DEF AlwaysRestorable
  <2>2. CASE ~Unsynced /\ sidecar' = sidecar
    BY <2>2 DEF IInv, AlwaysRestorable, Unrestorable
  <2>3. CASE ~Unsynced /\ sidecar' = e
    <3>1. CASE e.state = entry.state
      BY <1>4, <2>3, <3>1 DEF AlwaysRestorable, Unrestorable
    <3>2. CASE e.state \in {"adding", "error"}
      <4>1. final \/ pending
        BY <1>4, <2>3 DEF Unrestorable
      <4>2. e.state # "ready"
        BY <3>2
      <4> QED
        BY <2>3, <4>1, <4>2 DEF AlwaysRestorable, Unrestorable
    <3> QED
      BY <3>1, <3>2
  <2> QED
    BY <1>1, <2>1, <2>2, <2>3
<1> QED
  BY <1>1, <1>2, <1>3, <1>5, <1>6 DEF DiskInv

(* The failure is recorded, unless the entry is gone or being deleted.       *)
LEMMA WorkerFailedStep ==
    ASSUME IInv, NEW w \in Workers, NEW o \in Outcomes, WorkerFailed(w, o) PROVE IInv'
<1>1. /\ worker[w].pc = "failed"
      /\ UNCHANGED <<final, pending, session, torrent, lives, info, op, activeOp, fetch, add, del, crashes>>
  BY DEF WorkerFailed
<1> USE <1>1
<1>2. To(w, "exit")
  BY DEF WorkerFailed
<1>3. CASE entry = None \/ DeletionPending
  <2>1. UNCHANGED <<sidecar, entry, faults>>
    BY <1>3 DEF WorkerFailed
  <2> QED
    BY <1>2, <2>1, WorkerCalmStep DEF WorkerPcs, Running
<1>4. CASE entry # None /\ ~DeletionPending
  <2>1. PICK e : e = [entry EXCEPT !.state = "error"] /\ WriteEntry(o, e)
    BY <1>4 DEF WorkerFailed
  <2>2. e \in RegistryEntry /\ e.state \in {"adding", "error"}
    <3>1. entry \in RegistryEntry
      BY <1>4 DEF IInv, TypeOK
    <3> QED
      BY <2>1, <3>1 DEF RegistryEntry, TorrentState
  <2>3. /\ worker' \in [Workers -> WorkerStates] /\ worker'[w].pc = "exit"
        /\ \A v \in Workers \ {w} : worker'[v] = worker[v]
    BY <1>2, ToFacts, Parts DEF ThreadTypes, WorkerPcs
  <2>4. Locks(w) /\ session # "down"
    BY SessionOn DEF Locks
  <2>5. DiskTypes' /\ DiskInv' /\ ~DeletionPending'
    <3>1. UNCHANGED <<final, pending, session>>
      OBVIOUS
    <3> QED
      BY <1>4, <2>1, <2>2, <2>4, <3>1, RewriteRestorable
  <2>6. MapTypes' /\ ThreadTypes'
    BY <2>3, Parts DEF MapTypes, ThreadTypes
  <2>7. ThreadInv'
    BY <2>3, Parts, WorkerMoves DEF Running
  <2>8. DataInv'
    <3>1. WorkerFiles(w)'
      BY <2>3 DEF WorkerFiles
    <3> QED
      BY <2>3, <2>4, <2>5, <3>1, WorkerData
  <2> QED
    BY <2>5, <2>6, <2>7, <2>8, Parts
<1> QED
  BY <1>3, <1>4

(* A worker that was asked to retry puts the entry back to adding.           *)
LEMMA WorkerRetryStep ==
    ASSUME IInv, NEW w \in Workers, NEW o \in Outcomes, WorkerRetry(w, o) PROVE IInv'
<1> DEFINE stands == IsActive /\ entry # None /\ torrent # 0 /\ entry.state \in {"adding", "error"}
<1>1. /\ worker[w].pc = "retry" /\ ~HashLocked
      /\ UNCHANGED <<final, pending, session, torrent, lives, info, op, activeOp, fetch, add, del, crashes>>
  BY DEF WorkerRetry
<1> USE <1>1
<1>2. PICK p \in {"relaunch", "done"} :
        /\ worker' = [worker EXCEPT ![w].pc = p, ![w].torrent = torrent]
        /\ stands \/ p = "done"
  BY DEF WorkerRetry
<1>3. /\ worker' \in [Workers -> WorkerStates] /\ worker'[w].pc = p
      /\ \A v \in Workers \ {w} : worker'[v] = worker[v]
  <2>1. p \in WorkerPcs /\ torrent \in 0 .. MaxLives /\ worker \in [Workers -> WorkerStates]
    BY Parts, RegistryAssumption, SMTT(30) DEF MapTypes, ThreadTypes, WorkerPcs
  <2>2. worker' \in [Workers -> WorkerStates]
    <3> DEFINE u == [worker EXCEPT ![w].pc = p]
    <3>1. worker' = [u EXCEPT ![w].torrent = torrent]
      BY <1>2
    <3>2. u \in [Workers -> WorkerStates]
      BY <2>1 DEF WorkerStates
    <3> HIDE DEF u
    <3> QED
      BY <2>1, <3>1, <3>2 DEF WorkerStates
  <2> QED
    BY <1>2, <2>1, <2>2 DEF WorkerStates
<1>4. fetch # w
  BY RegistryAssumption DEF IInv, FetchRuns, Running
<1>5. CASE ~stands
  <2>1. UNCHANGED <<sidecar, entry, faults>>
    BY <1>5 DEF WorkerRetry
  <2>2. p = "done"
    BY <1>2, <1>5
  <2> HIDE DEF stands
  <2> QED
    BY <1>3, <1>4, <2>1, <2>2, WorkerCalm DEF WorkerPcs
<1>6. CASE stands
  <2>1. PICK e : e = [entry EXCEPT !.state = "adding"] /\ WriteEntry(o, e)
    BY <1>6 DEF WorkerRetry
  <2>2. entry # None /\ ~DeletionPending
    BY <1>6 DEF DeletionPending
  <2> HIDE DEF stands
  <2>3. e \in RegistryEntry /\ e.state \in {"adding", "error"}
    <3>1. entry \in RegistryEntry
      BY <2>2 DEF IInv, TypeOK
    <3> QED
      BY <2>1, <3>1 DEF RegistryEntry, TorrentState
  <2>4. session # "down"
    BY SessionOn
  <2>5. DiskTypes' /\ DiskInv' /\ ~DeletionPending'
    <3>1. UNCHANGED <<final, pending, session>>
      OBVIOUS
    <3> QED
      BY <2>1, <2>2, <2>3, <2>4, <3>1, RewriteRestorable
  <2>6. MapTypes' /\ ThreadTypes'
    BY <1>3, Parts DEF MapTypes, ThreadTypes
  <2>7. ThreadInv'
    BY <1>3, <1>4, Parts, WorkerMoves
  <2>8. DataInv'
    <3>1. WorkerFiles(w)'
      BY <1>3 DEF WorkerFiles
    <3> QED
      BY <1>3, <2>2, <2>5, <3>1, WorkerData
  <2> QED
    BY <2>5, <2>6, <2>7, <2>8, Parts
<1> QED
  BY <1>5, <1>6

(* Another worker is told to retry, or registered.                           *)
LEMMA WorkerRegisterStep ==
    ASSUME IInv, NEW w \in Workers, WorkerRegister(w) PROVE IInv'
<1>1. /\ worker[w].pc = "register"
      /\ UNCHANGED <<sidecar, final, pending, session, entry, torrent, lives, info, op, activeOp,
                     add, del, faults, crashes>>
  BY DEF WorkerRegister, diskVars, stateVars
<1> USE <1>1
<1>2. fetch \in Workers \cup {None} /\ worker \in [Workers -> WorkerStates] /\ fetch # w
  BY RegistryAssumption, Parts DEF ThreadTypes, ThreadInv, FetchRuns, Running
<1>3. CASE /\ fetch # None
           /\ worker' = [worker EXCEPT ![fetch].retry = TRUE, ![w].pc = "done"]
           /\ UNCHANGED fetch
  <2> DEFINE u == [worker EXCEPT ![fetch].retry = TRUE]
  <2>1. fetch \in Workers /\ worker' = [u EXCEPT ![w].pc = "done"]
    BY <1>2, <1>3
  <2>2. u \in [Workers -> WorkerStates]
    BY <1>2, <2>1 DEF WorkerStates
  <2>3. \A v \in Workers : u[v].pc = worker[v].pc /\ u[v].next = worker[v].next
    BY <1>2, <2>1 DEF WorkerStates
  <2> HIDE DEF u
  <2>4. /\ worker' \in [Workers -> WorkerStates] /\ worker'[w].pc = "done"
        /\ \A v \in Workers \ {w} : worker'[v] = u[v]
    <3>1. worker' \in [Workers -> WorkerStates]
      BY <2>1, <2>2 DEF WorkerStates, WorkerPcs
    <3> QED
      BY <2>1, <2>2, <3>1 DEF WorkerStates
  <2>5. \A v \in Workers \ {w} : worker'[v].pc = worker[v].pc /\ worker'[v].next = worker[v].next
    BY <2>3, <2>4
  <2>6. fetch' = fetch /\ fetch' # w
    BY <1>2, <1>3
  <2> QED
    BY <2>4, <2>5, <2>6, WorkerCalm DEF WorkerPcs
<1>4. ASSUME NEW v \in Workers, fetch = None, Free(v), fetch' = v,
             worker' = [worker EXCEPT ![v] = NewFetch(worker[w].torrent), ![w].pc = "launch", ![w].next = v]
      PROVE  IInv'
  <2>1. worker[v].pc \in {"idle", "abandoned"} /\ v # w
    BY <1>4 DEF Free
  <2>2. /\ NewFetch(worker[w].torrent) \in WorkerStates
        /\ NewFetch(worker[w].torrent).pc = "reserved"
    BY <1>2, NewFetchFacts DEF WorkerStates
  <2> DEFINE u == [worker EXCEPT ![v] = NewFetch(worker[w].torrent)]
  <2>3. /\ u \in [Workers -> WorkerStates] /\ u[v].pc = "reserved" /\ u[w] = worker[w]
        /\ \A x \in Workers \ {v, w} : u[x] = worker[x]
    BY <1>2, <2>1, <2>2
  <2>4. worker' = [u EXCEPT ![w].pc = "launch", ![w].next = v]
    BY <1>4
  <2> HIDE DEF u
  <2>5. /\ worker' \in [Workers -> WorkerStates]
        /\ worker'[w].pc = "launch" /\ worker'[w].next = v /\ worker'[v].pc = "reserved"
        /\ \A x \in Workers \ {v, w} : worker'[x] = worker[x]
    <3> DEFINE x1 == [u EXCEPT ![w].pc = "launch"]
    <3>1. worker' = [x1 EXCEPT ![w].next = v]
      BY <2>4
    <3>2. x1 \in [Workers -> WorkerStates]
      BY <2>3 DEF WorkerStates, WorkerPcs
    <3> HIDE DEF x1
    <3>3. worker' \in [Workers -> WorkerStates]
      BY <3>1, <3>2 DEF WorkerStates
    <3> QED
      BY <2>1, <2>3, <2>4, <3>3 DEF WorkerStates
  <2>6. MapTypes' /\ ThreadTypes'
    BY <1>4, <2>5, Parts DEF MapTypes, ThreadTypes
  <2>7. LockExclusive' /\ FetchRuns'
    BY <1>4, <2>5, SMTT(30) DEF IInv, LockExclusive, Locks, FetchRuns, Running
  <2>8. LaunchersApart'
    <3>1. LaunchersApart
      BY DEF IInv
    <3> QED
      BY <2>1, <2>5, <3>1, SMTT(30) DEF LaunchersApart
  <2>9. DiskTypes' /\ DataInv' /\ DiskInv'
    BY <2>5, DataKept, SessionOn
  <2> QED
    BY <2>6, <2>7, <2>8, <2>9, Parts DEF ThreadInv
<1> QED
  BY <1>3, <1>4 DEF WorkerRegister

(* The worker that was registered is launched, unless the session was closed. *)
LEMMA WorkerLaunchStep ==
    ASSUME IInv, NEW w \in Workers, WorkerLaunch(w) PROVE IInv'
<1>1. /\ worker[w].pc = "launch"
      /\ UNCHANGED <<sidecar, final, pending, session, entry, torrent, lives, info, op, activeOp,
                     add, del, faults, crashes>>
  BY DEF WorkerLaunch, diskVars, stateVars
<1>2. fetch \in Workers \cup {None} /\ worker \in [Workers -> WorkerStates] /\ fetch # w
  <2>1. fetch \in Workers \cup {None} /\ worker \in [Workers -> WorkerStates] /\ FetchRuns
    BY DEF IInv, TypeOK
  <2> QED
    BY <1>1, <2>1, RegistryAssumption DEF FetchRuns, Running
<1>3. PICK v \in Workers : worker[w].pc = "launch" /\ v = worker[w].next /\ worker[v].pc = "reserved"
  BY <1>1, Parts DEF ThreadInv, LaunchersApart
<1> DEFINE u == Launched(v)
<1>4. /\ u \in [Workers -> WorkerStates]
      /\ worker' = [u EXCEPT ![w].pc = "done"]
      /\ \A x \in Workers \ {v} : u[x] = worker[x]
      /\ \/ u[v].pc = "waiting" /\ fetch' = fetch
         \/ u[v].pc = "abandoned" /\ fetch' = None
  <2>1. worker' = [Launched(worker[w].next) EXCEPT ![w].pc = "done"] /\ fetch' = Registration
    BY DEF WorkerLaunch
  <2> QED
    BY <1>2, <1>3, <2>1, LaunchedFacts
<1> HIDE DEF u
<1>5. /\ worker' \in [Workers -> WorkerStates] /\ worker'[w].pc = "done" /\ v # w
      /\ \A x \in Workers \ {v, w} : worker'[x] = worker[x]
      /\ \/ worker'[v].pc = "waiting" /\ fetch' = fetch
         \/ worker'[v].pc = "abandoned" /\ fetch' = None
  <2>1. worker' \in [Workers -> WorkerStates]
    <3>1. u \in [Workers -> WorkerStates] /\ worker' = [u EXCEPT ![w].pc = "done"] /\ "done" \in WorkerPcs
      BY <1>4 DEF WorkerPcs
    <3> QED
      BY <3>1 DEF WorkerStates
  <2>2. v # w
    BY <1>3
  <2> QED
    BY <1>4, <2>1, <2>2 DEF WorkerStates
<1>6. MapTypes' /\ ThreadTypes'
  BY <1>1, <1>2, <1>5, Parts DEF MapTypes, ThreadTypes
<1>7. add' = add
  BY <1>1
<1>8. LockExclusive' /\ FetchRuns'
  BY <1>2, <1>5, <1>7, Parts DEF ThreadInv, LockExclusive, Locks, FetchRuns, Running
<1>9. LaunchersApart'
  <2>1. LaunchersApart
    BY DEF IInv
  <2> QED
    BY <1>3, <1>5, <1>7, <2>1, SMTT(30) DEF LaunchersApart
<1>10. DiskTypes' /\ DataInv' /\ DiskInv'
  BY <1>1, <1>5, DataKept, SessionOn
<1> QED
  BY <1>6, <1>8, <1>9, <1>10, Parts DEF ThreadInv

(* The worker ends.                                                          *)
LEMMA WorkerDoneStep ==
    ASSUME IInv, NEW w \in Workers, WorkerDone(w) PROVE IInv'
<1>1. /\ worker[w].pc = "done"
      /\ worker' = [worker EXCEPT ![w] = NoWorker]
      /\ UNCHANGED <<sidecar, final, pending, session, entry, torrent, lives, info, op, activeOp,
                     fetch, add, del, faults, crashes>>
  BY DEF WorkerDone, diskVars, stateVars
<1>2. worker \in [Workers -> WorkerStates] /\ fetch # w
  BY <1>1, RegistryAssumption, Parts DEF ThreadTypes, ThreadInv, FetchRuns, Running
<1>3. /\ worker' \in [Workers -> WorkerStates] /\ worker'[w].pc = "idle"
      /\ \A v \in Workers \ {w} : worker'[v] = worker[v]
  BY <1>1, <1>2, IdleFacts
<1> QED
  BY <1>1, <1>2, <1>3, WorkerCalm DEF WorkerPcs

(* The invariant is kept by every step of an add.                            *)
LEMMA AddNextStep ==
    ASSUME IInv, AddNext PROVE IInv'
BY AddRefusedStep, AddPublishStep, AddRecordStep, AddUndoStep, AddUnpendStep, AddRegisterStep,
   AddLaunchStep DEF AddNext

(* The invariant is kept by every step of a worker.                          *)
LEMMA WorkerNextStep ==
    ASSUME IInv, NEW w \in Workers, WorkerNext(w) PROVE IInv'
BY WorkerCalmSteps, WorkerRegisterStep, WorkerLaunchStep, WorkerDoneStep, WorkerPublishStep,
   WorkerWriteStep, WorkerUnpendStep, WorkerUndoStep, WorkerFailedStep, WorkerRetryStep
   DEF WorkerNext

-----------------------------------------------------------------------------
(* Deletions, the calls that take one step, and the start and end of the session *)

(* While the lock is free and no worker is being launched, the data only     *)
(* have to agree about the deletion.                                         *)
LEMMA QuietData ==
    ASSUME session' \in {"active", "closing"}, add'.pc = "idle",
           \A v \in Workers : worker'[v].pc \notin {"write", "undo", "failed", "unpend"},
           DeletionOwns', Removed'
    PROVE  DataInv'
<1>1. Blank' /\ StartsQuietly'
  BY DEF Blank, StartsQuietly
<1>2. LockedNotDeleting'
  BY DEF LockedNotDeleting, Locks
<1>3. FilesInPlace'
  BY DEF FilesInPlace, AddFiles, WorkerFiles
<1> QED
  BY <1>1, <1>2, <1>3 DEF DataInv

(* Calls of one step write the entry while the lock is free.                 *)
LEMMA SetFavoriteStep ==
    ASSUME IInv, NEW favorite \in BOOLEAN, NEW o \in Outcomes, SetFavorite(favorite, o) PROVE IInv'
<1>1. /\ session = "active" /\ ~HashLocked /\ entry # None /\ ~DeletionPending
      /\ UNCHANGED <<final, pending, session, torrent, lives, info, op, activeOp, fetch, add, worker, del, crashes>>
  BY DEF SetFavorite
<1> USE <1>1
<1>2. PICK e : e = [entry EXCEPT !.favorite = favorite] /\ WriteEntry(o, e)
  BY DEF SetFavorite
<1>3. e \in RegistryEntry /\ e.state = entry.state
  <2>1. entry \in RegistryEntry
    BY DEF IInv, TypeOK
  <2>2. e \in RegistryEntry
    BY <1>2, <2>1 DEF RegistryEntry
  <2> QED
    BY <1>2, <2>1, <2>2 DEF RegistryEntry
<1>4. DiskTypes' /\ DiskInv' /\ ~DeletionPending'
  <2>1. UNCHANGED <<final, pending, session>> /\ session # "down"
    OBVIOUS
  <2> QED
    BY <1>2, <1>3, <2>1, RewriteRestorable
<1>5. MapTypes' /\ ThreadTypes'
  BY Parts DEF MapTypes, ThreadTypes
<1>6. ThreadInv'
  BY Parts, ThreadsKept
<1>7. DataInv'
  <2>1. add.pc = "idle" /\ \A v \in Workers : worker[v].pc \notin {"write", "undo", "failed", "unpend"}
    BY DEF HashLocked
  <2>2. DeletionOwns' /\ Removed'
    BY <1>4 DEF IInv, DeletionOwns, Removed
  <2> QED
    BY <2>1, <2>2, QuietData
<1> QED
  BY <1>4, <1>5, <1>6, <1>7, Parts

(* The deletion is recorded, and starts if that succeeds.                    *)
LEMMA DeleteByHashStep ==
    ASSUME IInv, NEW skipFavorites \in BOOLEAN, NEW o \in Outcomes, DeleteByHash(skipFavorites, o)
    PROVE  IInv'
<1>1. /\ session = "active" /\ ~HashLocked /\ entry # None /\ ~activeOp
      /\ UNCHANGED <<final, pending, session, lives, info, fetch, add, worker, crashes>>
  BY DEF DeleteByHash
<1> USE <1>1
<1>2. PICK e : e = [entry EXCEPT !.state = "deleting"] /\ WriteEntry(o, e)
  BY DEF DeleteByHash
<1>3. e \in RegistryEntry /\ e.state = "deleting" /\ e # None
  <2>1. entry \in RegistryEntry
    BY DEF IInv, TypeOK
  <2>2. e \in RegistryEntry /\ e.state = "deleting"
    BY <1>2, <2>1 DEF RegistryEntry, TorrentState
  <2> QED
    BY <2>2, EntryAssumption
<1>4. /\ sidecar' \in {sidecar, e} /\ entry' = (IF o = "ok" THEN e ELSE entry)
      /\ faults' \in Seq(Outcomes \ {"ok"}) /\ Len(faults') <= MaxFaults
      /\ \/ Unsynced'
         \/ ~Unsynced /\ o = "ok" /\ sidecar' = e /\ entry' = e
         \/ ~Unsynced /\ o # "ok" /\ sidecar' = sidecar /\ entry' = entry
  BY <1>2, <1>3, WriteFacts, Parts
<1>5. DiskTypes'
  BY <1>3, <1>4, Parts DEF DiskTypes
<1>6. DiskInv'
  <2>1. Mirrors'
    BY <1>4 DEF IInv, Mirrors
  <2>2. AlwaysRestorable'
    <3>1. CASE sidecar' = sidecar /\ ~Unsynced
      BY <3>1 DEF IInv, AlwaysRestorable, Unrestorable
    <3>2. CASE sidecar' = e
      BY <1>3, <3>2 DEF AlwaysRestorable
    <3>3. CASE Unsynced'
      BY <3>3 DEF AlwaysRestorable
    <3> QED
      BY <1>4, <3>1, <3>2, <3>3
  <2> QED
    BY <2>1, <2>2 DEF DiskInv
<1>7. add.pc = "idle" /\ \A v \in Workers : worker[v].pc \notin {"write", "undo", "failed", "unpend"}
  BY DEF HashLocked
<1>8. ThreadInv'
  BY Parts, ThreadsKept
<1>9. CASE o = "ok"
  <2>1. /\ torrent' = 0 /\ op' = "deleting" /\ activeOp' = TRUE
        /\ del' = [NoDelete EXCEPT !.pc = "stop", !.torrent = torrent]
    BY <1>9 DEF DeleteByHash
  <2>2. torrent \in 0 .. lives /\ lives \in 0 .. MaxLives
    BY DEF IInv, TypeOK
  <2>3. del' \in Deletes /\ del'.pc = "stop" /\ del'.torrent = torrent /\ del'.failed = FALSE
    <3>1. torrent \in 0 .. MaxLives
      BY <2>2, RegistryAssumption, SMTT(30)
    <3>2. del' \in Deletes
      BY <2>1, <3>1, IdleFacts DEF Deletes, DeletePcs
    <3> QED
      BY <2>1, <3>2 DEF NoDelete
  <2>4. MapTypes'
    BY <2>1, <2>2, Parts, SMTT(30) DEF MapTypes
  <2>5. ThreadTypes'
    BY <2>2, <2>3, Parts, SMTT(30) DEF ThreadTypes
  <2>6. DeletionPending'
    BY <1>3, <1>4, <1>9 DEF DeletionPending
  <2>7. DeletionOwns' /\ Removed'
    BY <2>1, <2>3, <2>6 DEF DeletionOwns, Removed
  <2> QED
    BY <1>5, <1>6, <1>7, <1>8, <2>4, <2>5, <2>7, QuietData, Parts
<1>10. CASE o # "ok"
  <2>1. UNCHANGED <<torrent, op, activeOp, del>> /\ entry' = entry
    BY <1>4, <1>10 DEF DeleteByHash
  <2>2. MapTypes' /\ ThreadTypes'
    BY <2>1, Parts DEF MapTypes, ThreadTypes
  <2>3. DeletionOwns' /\ Removed'
    BY <2>1 DEF IInv, DeletionOwns, Removed, DeletionPending
  <2> QED
    BY <1>5, <1>6, <1>7, <1>8, <2>1, <2>2, <2>3, QuietData, Parts
<1> QED
  BY <1>9, <1>10

(* Close cancels every worker.                                               *)
LEMMA CloseStep ==
    ASSUME IInv, Close PROVE IInv'
<1>1. /\ session = "active" /\ session' = "closing"
      /\ UNCHANGED <<sidecar, final, pending, entry, torrent, lives, info, op, activeOp, fetch, add, del,
                     faults, crashes>>
  BY DEF Close, diskVars, stateVars
<1> USE <1>1
<1>2. worker' = [w \in Workers |-> [worker[w] EXCEPT !.cancelled = @ \/ worker[w].pc # "idle"]]
  BY DEF Close
<1>3. worker \in [Workers -> WorkerStates]
  BY DEF IInv, TypeOK
<1>4. ASSUME NEW v \in Workers
      PROVE  worker'[v] \in WorkerStates /\ worker'[v].pc = worker[v].pc /\ worker'[v].next = worker[v].next
  <2>1. worker[v] \in WorkerStates
    BY <1>3
  <2>2. worker'[v] = [worker[v] EXCEPT !.cancelled = @ \/ worker[v].pc # "idle"]
    BY <1>2
  <2>3. (worker[v].cancelled \/ worker[v].pc # "idle") \in BOOLEAN
    OBVIOUS
  <2>4. PICK b \in BOOLEAN : worker'[v] = [worker[v] EXCEPT !.cancelled = b]
    BY <2>2, <2>3
  <2>5. worker'[v] \in WorkerStates
    BY <2>1, <2>4 DEF WorkerStates
  <2> QED
    BY <2>1, <2>4, <2>5 DEF WorkerStates
<1>5. worker' \in [Workers -> WorkerStates]
  BY <1>2, <1>4
<1>6. MapTypes' /\ ThreadTypes'
  BY <1>5, Parts DEF MapTypes, ThreadTypes
<1>7. ThreadInv'
  BY <1>4, Parts, ThreadsKept
<1>8. DiskTypes' /\ DataInv' /\ DiskInv'
  BY <1>4, DataKept
<1> QED
  BY <1>6, <1>7, <1>8, Parts

(* Metadata of a Torrent that exists arrives.                                *)
LEMMA GotInfoStep ==
    ASSUME IInv, GotInfo PROVE IInv'
<1>1. /\ UNCHANGED <<sidecar, final, pending, session, entry, torrent, lives, op, activeOp, fetch, add,
                     worker, del, faults, crashes>>
      /\ session # "down"
  BY DEF GotInfo, diskVars, IsActive
<1> USE <1>1
<1>2. PICK n \in {torrent, del.torrent} \ (info \cup {0}) : info' = info \cup {n}
  BY DEF GotInfo
<1>3. info' \subseteq 1 .. lives'
  <2>1. torrent \in 0 .. lives /\ info \subseteq 1 .. lives /\ lives \in Nat
    BY Parts, SMTT(30) DEF MapTypes
  <2>2. del.torrent <= lives /\ del.torrent \in Nat
    BY Parts, RegistryAssumption, SMTT(30) DEF ThreadTypes, Deletes
  <2> QED
    BY <1>2, <2>1, <2>2, SMTT(30)
<1>4. DiskTypes' /\ ThreadTypes'
  BY Parts DEF DiskTypes, ThreadTypes
<1>5. MapTypes'
  BY <1>3, Parts DEF MapTypes
<1>6. Unsynced' = Unsynced /\ DeletionPending' = DeletionPending
  BY DEF Unsynced, DeletionPending
<1>7. ThreadInv'
  BY DEF IInv, ThreadInv, LockExclusive, Locks, FetchRuns, LaunchersApart
<1>8. Blank' /\ StartsQuietly' /\ LockedNotDeleting'
  BY <1>6 DEF IInv, Blank, StartsQuietly, LockedNotDeleting, Locks
<1>9. DeletionOwns' /\ Removed'
  BY <1>6 DEF IInv, DeletionOwns, Removed
<1>10. FilesInPlace'
  BY <1>6 DEF IInv, FilesInPlace, AddFiles, WorkerFiles, RestorableWithout
<1>11. DiskInv'
  BY <1>6 DEF IInv, DiskInv, Mirrors, AlwaysRestorable, Unrestorable
<1> QED
  BY <1>4, <1>5, <1>7, <1>8, <1>9, <1>10, <1>11, Parts DEF DataInv

-----------------------------------------------------------------------------
(* The deletion.                                                             *)

(* It is alone: nobody holds the lock past the check for a deletion.         *)
LEMMA DeletionAlone ==
    ASSUME IInv, del.pc # "idle"
    PROVE  /\ session # "down" /\ add.pc \in {"idle", "locked"} /\ \A w \in Workers : ~Locks(w)
           /\ activeOp = TRUE /\ torrent = 0
           /\ DeletionPending /\ entry \in RegistryEntry
           /\ Unsynced \/ sidecar = entry
<1>1. activeOp /\ activeOp \in BOOLEAN /\ DeletionPending /\ torrent = 0
  BY DEF IInv, TypeOK, DeletionOwns
<1>2. session # "down"
  BY IdleFacts DEF IInv, Blank
<1>3. add.pc \in {"idle", "locked"} /\ \A w \in Workers : ~Locks(w)
  BY <1>1 DEF IInv, LockedNotDeleting
<1>4. entry \in RegistryEntry
  BY <1>1 DEF IInv, TypeOK, DeletionPending
<1>5. Unsynced \/ sidecar = entry
  BY <1>2 DEF IInv, Mirrors
<1> QED
  BY <1>1, <1>2, <1>3, <1>4, <1>5

(* It keeps what it still owns, whatever it removes.                         *)
LEMMA DeletionData ==
    ASSUME IInv, del.pc # "idle",
           UNCHANGED <<session, torrent, lives, add>>, fetch' \in {fetch, None},
           \A v \in Workers : worker'[v].pc = worker[v].pc,
           del'.pc # "idle" <=> activeOp', activeOp' => DeletionPending',
           Removed'
    PROVE  DataInv'
<1>1. session # "down" /\ add.pc \in {"idle", "locked"} /\ (\A w \in Workers : ~Locks(w)) /\ torrent = 0
  BY DeletionAlone
<1> USE <1>1
<1>2. Blank'
  BY DEF Blank
<1>3. StartsQuietly'
  BY DEF IInv, StartsQuietly
<1>4. LockedNotDeleting' /\ DeletionOwns'
  BY DEF LockedNotDeleting, Locks, DeletionOwns
<1>5. FilesInPlace'
  BY DEF FilesInPlace, AddFiles, WorkerFiles, Locks
<1> QED
  BY <1>2, <1>3, <1>4, <1>5 DEF DataInv

(* What is left on disk stays in deletion.                                   *)
LEMMA DeletionDisk ==
    ASSUME Unsynced' \/ (entry' = sidecar' /\ (sidecar' = None \/ sidecar'.state \in {"deleting", "delete_failed"}))
    PROVE  DiskInv'
BY DEF DiskInv, Mirrors, AlwaysRestorable

(* The step of the deletion that cancels the worker.                         *)
LEMMA StopMetadataFetchStep ==
    ASSUME IInv, StopMetadataFetch PROVE IInv'
<1>1. /\ del.pc = "stop" /\ fetch' = None
      /\ UNCHANGED <<sidecar, final, pending, session, entry, torrent, lives, info, op, activeOp, add, faults,
                     crashes>>
  BY DEF StopMetadataFetch, diskVars, stateVars
<1> USE <1>1
<1>2. fetch \in Workers \cup {None} /\ worker \in [Workers -> WorkerStates] /\ del \in Deletes
  BY DEF IInv, TypeOK
<1>3. /\ worker' \in [Workers -> WorkerStates]
      /\ \A v \in Workers : worker'[v].pc = worker[v].pc /\ worker'[v].next = worker[v].next
  <2>1. CASE fetch = None
    BY <1>2, <2>1 DEF StopMetadataFetch
  <2>2. CASE fetch # None
    <3>1. worker' = [worker EXCEPT ![fetch].cancelled = TRUE] /\ fetch \in Workers
      BY <1>2, <2>2 DEF StopMetadataFetch
    <3>2. worker' \in [Workers -> WorkerStates]
      BY <1>2, <3>1 DEF WorkerStates
    <3> QED
      BY <1>2, <3>1, <3>2 DEF WorkerStates
  <2> QED
    BY <2>1, <2>2
<1>4. del' \in Deletes /\ del'.pc = "wait" /\ del'.torrent = del.torrent
  <2>1. del' = [del EXCEPT !.pc = "wait", !.wait = fetch]
    BY DEF StopMetadataFetch
  <2>2. del' \in Deletes
    BY <1>2, <2>1 DEF Deletes, DeletePcs
  <2> QED
    BY <1>2, <2>1, <2>2 DEF Deletes
<1>5. DiskTypes' /\ MapTypes'
  BY Parts DEF DiskTypes, MapTypes
<1>6. ThreadTypes'
  BY <1>3, <1>4, Parts DEF ThreadTypes
<1>7. ThreadInv'
  BY <1>3, Parts, ThreadsKept
<1>8. Unsynced' = Unsynced /\ DeletionPending' = DeletionPending
  BY DEF Unsynced, DeletionPending
<1>9. DataInv'
  <2>1. Removed'
    BY <1>4 DEF Removed
  <2> QED
    BY <1>3, <1>4, <1>8, <2>1, DeletionAlone, DeletionData
<1>10. DiskInv'
  BY <1>8, DeletionAlone, DeletionDisk DEF DeletionPending
<1> QED
  BY <1>5, <1>6, <1>7, <1>9, <1>10, Parts

(* The steps that only move the deletion on, and remove files.               *)
LEMMA DeletionMovesOn ==
    ASSUME IInv, NEW o \in Outcomes, Io(o), del.pc # "idle",
           final' \in BOOLEAN, pending' \in BOOLEAN,
           UNCHANGED <<sidecar, session, entry, torrent, lives, info, op, activeOp, fetch, add, worker, crashes>>,
           del' \in Deletes, del'.pc # "idle", del'.torrent <= lives, Removed'
    PROVE  IInv'
<1>1. /\ faults' \in Seq(Outcomes \ {"ok"}) /\ Len(faults') <= MaxFaults
      /\ Unsynced' \/ ~Unsynced
  BY IoFacts, Parts
<1>2. DiskTypes'
  BY <1>1, Parts DEF DiskTypes
<1>3. MapTypes'
  BY Parts DEF MapTypes
<1>4. ThreadTypes'
  BY Parts DEF ThreadTypes
<1>5. ThreadInv'
  BY Parts, ThreadsKept
<1>6. DeletionPending' = DeletionPending
  BY DEF DeletionPending
<1>7. DataInv'
  BY <1>6, DeletionAlone, DeletionData
<1>8. DiskInv'
  BY <1>1, DeletionAlone, DeletionDisk DEF DeletionPending
<1> QED
  BY <1>2, <1>3, <1>4, <1>5, <1>7, <1>8, Parts

(* The awaited worker has ended, or the deletion goes through its files.     *)
LEMMA AwaitMetadataFetchStep ==
    ASSUME IInv, AwaitMetadataFetch PROVE IInv'
<1>1. /\ del.pc = "wait" /\ del' = [del EXCEPT !.pc = "final", !.wait = None]
      /\ UNCHANGED <<sidecar, final, pending, session, entry, torrent, lives, info, op, activeOp, fetch, add,
                     worker, faults, crashes>>
  BY DEF AwaitMetadataFetch, diskVars, stateVars
<1> USE <1>1
<1>2. del \in Deletes /\ final' \in BOOLEAN /\ pending' \in BOOLEAN
  BY DEF IInv, TypeOK
<1>3. del' \in Deletes
  BY <1>2 DEF Deletes, DeletePcs
<1>4. del'.pc = "final" /\ del'.torrent = del.torrent /\ del.torrent <= lives
  BY <1>2, <1>3, Parts DEF Deletes, ThreadTypes
<1>5. "ok" \in Outcomes /\ Io("ok")
  BY DEF Outcomes, Io
<1>6. Removed'
  BY <1>4 DEF Removed
<1> QED
  BY <1>2, <1>3, <1>4, <1>5, <1>6, DeletionMovesOn

(* What a stage of performDelete leaves in the record of the deletion.       *)
LEMMA StageFacts ==
    ASSUME IInv, NEW o \in Outcomes, NEW p \in DeletePcs,
           NEW b \in BOOLEAN, b <=> del.failed \/ o # "ok",
           \/ del' = [del EXCEPT !.pc = p, !.failed = b]
           \/ del' = [del EXCEPT !.pc = p, !.torrent = 0, !.failed = b]
    PROVE  /\ del' \in Deletes /\ del'.pc = p /\ del'.torrent <= lives
           /\ ~del'.failed => ~del.failed /\ o = "ok"
<1>1. del \in Deletes
  BY DEF IInv, TypeOK
<1>2. 0 \in 0 .. MaxLives /\ 0 <= lives /\ del.torrent <= lives
  BY Parts, RegistryAssumption, SMTT(30) DEF ThreadTypes, MapTypes
<1>3. del' \in Deletes
  BY <1>1, <1>2 DEF Deletes
<1>4. del'.pc = p /\ del'.torrent \in {0, del.torrent} /\ del'.failed = b
  <2>1. CASE del' = [del EXCEPT !.pc = p, !.failed = b]
    BY <1>1, <2>1 DEF Deletes
  <2>2. CASE del' = [del EXCEPT !.pc = p, !.torrent = 0, !.failed = b]
    BY <1>1, <2>2 DEF Deletes
  <2> QED
    BY <2>1, <2>2
<1> QED
  BY <1>2, <1>3, <1>4

(* Each stage of performDelete has removed its file unless it failed.        *)
LEMMA RemoveFinalStep ==
    ASSUME IInv, NEW o \in Outcomes, RemoveFinal(o) PROVE IInv'
<1>1. /\ del.pc = "final" /\ Io(o)
      /\ UNCHANGED <<sidecar, pending, session, entry, torrent, lives, info, op, activeOp, fetch, add, worker,
                     crashes>>
  BY DEF RemoveFinal, stateVars
<1>2. final' = (final /\ ~TookEffect(o)) /\ pending' = pending
  BY DEF RemoveFinal
<1>3. final' \in BOOLEAN /\ pending' \in BOOLEAN
  BY <1>2 DEF IInv, TypeOK
<1>4. /\ del' \in Deletes /\ del'.pc = "pending" /\ del'.torrent <= lives
      /\ ~del'.failed => ~del.failed /\ o = "ok"
  <2>1. PICK b \in BOOLEAN :
          /\ b <=> del.failed \/ o # "ok"
          /\ del' = [del EXCEPT !.pc = "pending", !.torrent = 0, !.failed = b]
    BY DEF RemoveFinal
  <2>2. "pending" \in DeletePcs
    BY DEF DeletePcs
  <2> QED
    BY <2>1, <2>2, StageFacts
<1>5. Removed'
  <2>1. o = "ok" => ~final'
    <3>1. o = "ok" => TookEffect(o)
      BY DEF TookEffect
    <3> QED
      BY <1>2, <3>1
  <2> QED
    BY <1>4, <2>1 DEF Removed
<1> QED
  BY <1>1, <1>3, <1>4, <1>5, DeletionMovesOn

(* The same of the pending file.                                             *)
LEMMA RemovePendingStep ==
    ASSUME IInv, NEW o \in Outcomes, RemovePending(o) PROVE IInv'
<1>1. /\ del.pc = "pending" /\ Io(o)
      /\ UNCHANGED <<sidecar, final, session, entry, torrent, lives, info, op, activeOp, fetch, add, worker,
                     crashes>>
  BY DEF RemovePending, stateVars
<1>2. pending' = (pending /\ ~TookEffect(o)) /\ final' = final
  BY DEF RemovePending
<1>3. final' \in BOOLEAN /\ pending' \in BOOLEAN
  BY <1>2 DEF IInv, TypeOK
<1>4. /\ del' \in Deletes /\ del'.pc = "subtitles" /\ del'.torrent <= lives
      /\ ~del'.failed => ~del.failed /\ o = "ok"
  <2>1. PICK b \in BOOLEAN :
          /\ b <=> del.failed \/ o # "ok"
          /\ del' = [del EXCEPT !.pc = "subtitles", !.failed = b]
    BY DEF RemovePending
  <2>2. "subtitles" \in DeletePcs
    BY DEF DeletePcs
  <2> QED
    BY <2>1, <2>2, StageFacts
<1>5. Removed'
  <2>1. o = "ok" => ~pending'
    <3>1. o = "ok" => TookEffect(o)
      BY DEF TookEffect
    <3> QED
      BY <1>2, <3>1
  <2>2. ~del.failed => ~final
    BY <1>1 DEF IInv, Removed
  <2> QED
    BY <1>2, <1>4, <2>1, <2>2 DEF Removed
<1> QED
  BY <1>1, <1>3, <1>4, <1>5, DeletionMovesOn

(* The same of the subtitles, which are not modelled further.                *)
LEMMA RemoveSubtitlesStep ==
    ASSUME IInv, NEW o \in Outcomes, RemoveSubtitles(o) PROVE IInv'
<1>1. /\ del.pc = "subtitles" /\ Io(o)
      /\ UNCHANGED <<sidecar, final, pending, session, entry, torrent, lives, info, op, activeOp, fetch, add,
                     worker, crashes>>
  BY DEF RemoveSubtitles, diskVars, stateVars
<1>2. final' \in BOOLEAN /\ pending' \in BOOLEAN
  BY <1>1 DEF IInv, TypeOK
<1>3. /\ del' \in Deletes /\ del'.pc = "finish" /\ del'.torrent <= lives
      /\ ~del'.failed => ~del.failed /\ o = "ok"
  <2>1. PICK b \in BOOLEAN :
          /\ b <=> del.failed \/ o # "ok"
          /\ del' = [del EXCEPT !.pc = "finish", !.failed = b]
    BY DEF RemoveSubtitles
  <2>2. "finish" \in DeletePcs
    BY DEF DeletePcs
  <2> QED
    BY <2>1, <2>2, StageFacts
<1>4. Removed'
  <2>1. ~del.failed => ~final /\ ~pending
    BY <1>1 DEF IInv, Removed
  <2> QED
    BY <1>1, <1>3, <2>1 DEF Removed
<1> QED
  BY <1>1, <1>2, <1>3, <1>4, DeletionMovesOn

(* The sidecar is removed, and the session forgets the entry.                *)
LEMMA DeletedStep ==
    ASSUME IInv, Deleted PROVE IInv'
<1>1. /\ del.pc = "finish" /\ sidecar' = None /\ entry' = None
      /\ op' = "deleted" /\ activeOp' = FALSE /\ del' = NoDelete
      /\ UNCHANGED <<final, pending, session, torrent, lives, info, fetch, add, worker, faults, crashes>>
  BY DEF Deleted
<1> USE <1>1
<1>2. lives \in Nat
  BY Parts, RegistryAssumption, SMTT(30) DEF MapTypes
<1>3. DiskTypes' /\ MapTypes'
  BY Parts DEF DiskTypes, MapTypes
<1>4. ThreadTypes'
  BY <1>2, IdleFacts, Parts, SMTT(30) DEF ThreadTypes
<1>5. ThreadInv'
  BY Parts, ThreadsKept
<1>6. DataInv'
  <2>1. Removed' /\ del'.pc = "idle"
    BY IdleFacts DEF Removed
  <2> QED
    BY <2>1, DeletionData
<1>7. DiskInv'
  BY DeletionDisk
<1> QED
  BY <1>3, <1>4, <1>5, <1>6, <1>7, Parts

(* The failure of a deletion is recorded in the sidecar.                     *)
LEMMA DeleteFailedStep ==
    ASSUME IInv, NEW o \in Outcomes, DeleteFailed(o) PROVE IInv'
<1>1. /\ del.pc # "idle"
      /\ op' = "delete_failed" /\ activeOp' = FALSE /\ del' = NoDelete
      /\ UNCHANGED <<final, pending, session, torrent, lives, info, fetch, add, worker, crashes>>
  BY DEF DeleteFailed
<1> USE <1>1
<1>2. PICK e : e = [entry EXCEPT !.state = "delete_failed"] /\ WriteEntry(o, e)
  BY DEF DeleteFailed
<1>3. /\ entry \in RegistryEntry /\ entry.state \in {"deleting", "delete_failed"}
      /\ Unsynced \/ sidecar = entry
  BY DeletionAlone DEF DeletionPending
<1>4. e \in RegistryEntry /\ e.state = "delete_failed"
  BY <1>2, <1>3 DEF RegistryEntry, TorrentState
<1>5. /\ sidecar' \in {sidecar, e} /\ entry' \in {entry, e}
      /\ faults' \in Seq(Outcomes \ {"ok"}) /\ Len(faults') <= MaxFaults
      /\ \/ Unsynced'
         \/ ~Unsynced /\ sidecar' = e /\ entry' = e
         \/ ~Unsynced /\ sidecar' = sidecar /\ entry' = entry
  BY <1>2, <1>4, WriteFacts, Parts
<1>6. DiskTypes'
  BY <1>4, <1>5, Parts DEF DiskTypes
<1>7. MapTypes'
  BY Parts DEF MapTypes
<1>8. ThreadTypes'
  <2>1. lives \in Nat
    BY Parts, RegistryAssumption, SMTT(30) DEF MapTypes
  <2> QED
    BY <2>1, IdleFacts, Parts, SMTT(30) DEF ThreadTypes
<1>9. ThreadInv'
  BY Parts, ThreadsKept
<1>10. DataInv'
  <2>1. Removed' /\ del'.pc = "idle"
    BY IdleFacts DEF Removed
  <2> QED
    BY <2>1, DeletionData
<1>11. DiskInv'
  BY <1>3, <1>4, <1>5, DeletionDisk
<1> QED
  BY <1>6, <1>7, <1>8, <1>9, <1>10, <1>11, Parts

(* The sidecar could not be removed: the deletion goes on to record that.    *)
LEMMA RemoveEntryFailedStep ==
    ASSUME IInv, NEW o \in Outcomes, RemoveEntryFailed(o) PROVE IInv'
<1>1. /\ del.pc = "finish" /\ Io(o)
      /\ del' = [del EXCEPT !.pc = "recording"]
      /\ UNCHANGED <<final, pending, session, entry, torrent, lives, info, op, activeOp, fetch, add, worker, crashes>>
  BY DEF RemoveEntryFailed, stateVars
<1> USE <1>1
<1>2. sidecar' = (IF TookEffect(o) THEN None ELSE sidecar) /\ o # "ok"
  BY DEF RemoveEntryFailed
<1>3. /\ faults' \in Seq(Outcomes \ {"ok"}) /\ Len(faults') <= MaxFaults
      /\ Unsynced' \/ (~Unsynced /\ sidecar' = sidecar)
  BY <1>2, IoFacts, Parts DEF TookEffect
<1>4. /\ DeletionPending' /\ activeOp = TRUE
      /\ entry.state \in {"deleting", "delete_failed"}
      /\ Unsynced \/ sidecar = entry
  BY DeletionAlone DEF DeletionPending
<1>5. DiskTypes'
  BY <1>2, <1>3, Parts DEF DiskTypes
<1>6. MapTypes'
  BY Parts DEF MapTypes
<1>7. del' \in Deletes /\ del'.pc = "recording" /\ del'.torrent = del.torrent
  <2>1. del \in Deletes
    BY DEF IInv, TypeOK
  <2>2. del' \in Deletes
    BY <2>1 DEF Deletes, DeletePcs
  <2> QED
    BY <2>1, <2>2 DEF Deletes
<1>8. ThreadTypes'
  BY <1>7, Parts DEF ThreadTypes
<1>9. ThreadInv'
  BY Parts, ThreadsKept
<1>10. DataInv'
  <2>1. Removed'
    BY <1>7 DEF Removed
  <2> QED
    BY <1>4, <1>7, <2>1, DeletionData
<1>11. DiskInv'
  BY <1>3, <1>4, DeletionDisk
<1> QED
  BY <1>5, <1>6, <1>8, <1>9, <1>10, <1>11, Parts

(* Every step of a deletion keeps the invariant.                             *)
LEMMA DeleteNextStep ==
    ASSUME IInv, DeleteNext PROVE IInv'
BY StopMetadataFetchStep, AwaitMetadataFetchStep, RemoveFinalStep, RemovePendingStep, RemoveSubtitlesStep,
   DeletedStep, DeleteFailedStep, RemoveEntryFailedStep DEF DeleteNext

-----------------------------------------------------------------------------
(* The session.                                                              *)

(* The process ends, in whatever state: only the disk has to be restorable.  *)
LEMMA ForgetStep ==
    ASSUME IInv, Forget, DiskTypes', AlwaysRestorable', crashes' \in 0 .. MaxCrashes
    PROVE  IInv'
<1>1. /\ session' = "down" /\ entry' = None /\ torrent' = 0 /\ lives' = 0 /\ info' = {} /\ op' = None
      /\ activeOp' = FALSE /\ fetch' = None
      /\ add' = NoAdd /\ worker' = [w \in Workers |-> NoWorker] /\ del' = NoDelete
  BY DEF Forget
<1> USE <1>1
<1>2. add'.pc = "idle" /\ del'.pc = "idle" /\ \A w \in Workers : worker'[w].pc = "idle"
  BY IdleFacts
<1>3. MapTypes'
  <2>1. activeOp' \in BOOLEAN
    OBVIOUS
  <2> QED
    BY <2>1, RegistryAssumption, SMTT(30) DEF MapTypes
<1>4. ThreadTypes'
  BY IdleFacts, SMTT(30) DEF ThreadTypes
<1>5. ThreadInv'
  BY <1>2 DEF ThreadInv, LockExclusive, Locks, FetchRuns, LaunchersApart
<1>6. Blank' /\ StartsQuietly' /\ LockedNotDeleting' /\ Removed'
  BY <1>2 DEF Blank, StartsQuietly, LockedNotDeleting, Locks, Removed
<1>7. DeletionOwns'
  BY <1>2 DEF DeletionOwns, DeletionPending
<1>8. FilesInPlace'
  BY <1>2 DEF FilesInPlace, AddFiles, WorkerFiles
<1>9. Mirrors'
  BY DEF Mirrors
<1> QED
  BY <1>3, <1>4, <1>5, <1>6, <1>7, <1>8, <1>9, Parts DEF DataInv, DiskInv

(* The ends of the process that write nothing.                               *)
LEMMA EndStep ==
    ASSUME IInv, Closed \/ Crash \/ RefuseToStart PROVE IInv'
<1>1. Forget /\ UNCHANGED <<sidecar, final, pending, faults>>
  BY DEF Closed, Crash, RefuseToStart, diskVars
<1>2. crashes' \in 0 .. MaxCrashes
  BY Parts, RegistryAssumption, SMTT(30) DEF MapTypes, Closed, Crash, RefuseToStart
<1>3. DiskTypes'
  <2>1. entry' = None
    BY <1>1 DEF Forget
  <2> QED
    BY <1>1, <2>1, Parts DEF DiskTypes
<1>4. AlwaysRestorable'
  BY <1>1 DEF IInv, AlwaysRestorable, Unsynced, Unrestorable
<1> QED
  BY <1>1, <1>2, <1>3, <1>4, ForgetStep

(* The registry is loaded and its deletion resumed.                          *)
LEMMA StartStep ==
    ASSUME IInv, Start PROVE IInv'
<1> DEFINE resumed == sidecar # None /\ sidecar.state \in {"deleting", "delete_failed"}
<1>1. /\ session = "down" /\ session' = "starting" /\ entry' = sidecar
      /\ UNCHANGED <<sidecar, final, pending, torrent, lives, info, fetch, add, worker, faults, crashes>>
  BY DEF Start, diskVars
<1> USE <1>1
<1>2. /\ resumed => op' = "deleting" /\ activeOp' = TRUE /\ del' = [NoDelete EXCEPT !.pc = "stop"]
      /\ ~resumed => UNCHANGED <<op, activeOp, del>>
  BY DEF Start
<1>3. /\ torrent = 0 /\ lives = 0 /\ op = None /\ activeOp = FALSE /\ fetch = None /\ add = NoAdd
      /\ worker = [w \in Workers |-> NoWorker] /\ del = NoDelete
  BY DEF IInv, Blank
<1>4. add.pc = "idle" /\ \A w \in Workers : worker[w].pc = "idle"
  BY <1>3, IdleFacts
<1>5. /\ del' \in Deletes /\ del'.torrent = 0 /\ del'.pc \in {"idle", "stop"}
      /\ del'.pc # "idle" <=> resumed
  <2>1. CASE resumed
    <3>1. del' \in Deletes
      BY <1>2, <2>1, IdleFacts DEF Deletes, DeletePcs
    <3> QED
      BY <1>2, <2>1, <3>1 DEF NoDelete
  <2>2. CASE ~resumed
    BY <1>2, <1>3, <2>2, IdleFacts
  <2> QED
    BY <2>1, <2>2
<1>6. (activeOp' <=> resumed) /\ activeOp' \in BOOLEAN
  BY <1>2, <1>3
<1>7. DeletionPending' <=> resumed
  BY DEF DeletionPending
<1>8. DiskTypes'
  BY Parts DEF DiskTypes
<1>9. MapTypes'
  <2>1. op' \in {None, "deleting", "delete_failed", "deleted"}
    BY <1>2, <1>3
  <2> QED
    BY <1>6, <2>1, Parts DEF MapTypes
<1>10. ThreadTypes'
  BY <1>3, <1>5, IdleFacts, Parts DEF ThreadTypes
<1>11. ThreadInv'
  BY Parts, ThreadsKept
<1> HIDE DEF resumed
<1>12. Blank' /\ StartsQuietly' /\ LockedNotDeleting' /\ Removed'
  BY <1>3, <1>4, <1>5 DEF Blank, StartsQuietly, LockedNotDeleting, Locks, Removed
<1>13. DeletionOwns'
  BY <1>3, <1>5, <1>6, <1>7 DEF DeletionOwns
<1>14. FilesInPlace'
  BY <1>4 DEF FilesInPlace, AddFiles, WorkerFiles
<1>15. DiskInv'
  BY DEF IInv, DiskInv, Mirrors, AlwaysRestorable, Unsynced, Unrestorable
<1> QED
  BY <1>8, <1>9, <1>10, <1>11, <1>12, <1>13, <1>14, <1>15, Parts DEF DataInv

(* While the registry is restored, nothing else goes on.                     *)
LEMMA RestoringFacts ==
    ASSUME IInv, session = "starting", del.pc = "idle"
    PROVE  /\ add.pc = "idle" /\ (\A w \in Workers : worker[w].pc = "idle") /\ fetch = None
           /\ activeOp = FALSE /\ Removed
           /\ torrent = 0 => lives = 0
           /\ Unsynced \/ entry = sidecar
<1>1. activeOp = FALSE
  BY DEF IInv, TypeOK, DeletionOwns
<1>2. Unsynced \/ entry = sidecar
  BY DEF IInv, Mirrors
<1> QED
  BY <1>1, <1>2 DEF IInv, StartsQuietly, Removed

(* There is nothing to restore.                                              *)
LEMMA RestoreNothingStep ==
    ASSUME IInv, RestoreNothing PROVE IInv'
<1>1. /\ session = "starting" /\ del.pc = "idle" /\ session' = "active"
      /\ UNCHANGED <<sidecar, final, pending, entry, torrent, lives, info, op, activeOp, fetch, add, worker, del,
                     faults, crashes>>
  BY DEF RestoreNothing, Restoring, diskVars, stateVars
<1> USE <1>1
<1>2. add.pc = "idle" /\ \A w \in Workers : worker[w].pc = "idle"
  BY RestoringFacts
<1>3. DiskTypes' /\ MapTypes' /\ ThreadTypes'
  BY Parts DEF DiskTypes, MapTypes, ThreadTypes
<1>4. ThreadInv'
  BY Parts, ThreadsKept
<1>5. DeletionOwns' /\ Removed'
  BY DEF IInv, DeletionOwns, Removed, DeletionPending
<1>6. DataInv'
  BY <1>2, <1>5, QuietData
<1>7. DiskInv'
  BY DEF IInv, DiskInv, Mirrors, AlwaysRestorable, Unsynced, Unrestorable
<1> QED
  BY <1>3, <1>4, <1>6, <1>7, Parts

(* The pending file of a restored torrent is removed.                        *)
LEMMA RestoreUnpendStep ==
    ASSUME IInv, NEW o \in Outcomes, RestoreUnpend(o) PROVE IInv'
<1>1. /\ session = "starting" /\ torrent # 0 /\ session' = "active"
      /\ UNCHANGED <<sidecar, final, entry, torrent, lives, info, op, activeOp, fetch, add, worker, del, crashes>>
  BY DEF RestoreUnpend, stateVars
<1> USE <1>1
<1>2. /\ final /\ entry # None /\ entry.state = "ready" /\ del.pc = "idle"
      /\ add.pc = "idle" /\ \A w \in Workers : worker[w].pc = "idle"
  BY DEF IInv, StartsQuietly
<1>3. pending' \in BOOLEAN
  BY DEF RestoreUnpend
<1>4. /\ faults' \in Seq(Outcomes \ {"ok"}) /\ Len(faults') <= MaxFaults
      /\ Unsynced' \/ ~Unsynced
  <2>1. Io(o)
    BY DEF RestoreUnpend, Io
  <2> QED
    BY <2>1, IoFacts, Parts
<1>5. DiskTypes'
  BY <1>3, <1>4, Parts DEF DiskTypes
<1>6. MapTypes' /\ ThreadTypes'
  BY Parts DEF MapTypes, ThreadTypes
<1>7. ThreadInv'
  BY Parts, ThreadsKept
<1>8. DeletionOwns' /\ Removed'
  BY <1>2 DEF IInv, DeletionOwns, Removed, DeletionPending
<1>9. DataInv'
  BY <1>2, <1>8, QuietData
<1>10. DiskInv'
  <2>1. Unsynced' \/ entry = sidecar
    BY <1>2, <1>4, RestoringFacts
  <2> QED
    BY <1>2, <2>1 DEF DiskInv, Mirrors, AlwaysRestorable, Unrestorable
<1> QED
  BY <1>5, <1>6, <1>7, <1>9, <1>10, Parts

(* What restoring an entry writes, whatever its outcome.                     *)
LEMMA RestoreWrites ==
    ASSUME IInv, session = "starting", del.pc = "idle", torrent = 0, entry # None, ~DeletionPending,
           NEW o \in Outcomes, NEW e \in RegistryEntry, UNCHANGED <<final, pending>>,
           e.state = "ready" => final, e.state # "ready" => pending,
           \/ Io(o) /\ sidecar' = IF TookEffect(o) THEN e ELSE sidecar
           \/ o = "ok" /\ e = entry /\ UNCHANGED <<sidecar, faults>>
    PROVE  /\ sidecar' \in {sidecar, e}
           /\ faults' \in Seq(Outcomes \ {"ok"}) /\ Len(faults') <= MaxFaults
           /\ o = "ok" => Unsynced' \/ sidecar' = e
           /\ AlwaysRestorable'
<1>1. Unsynced \/ entry = sidecar
  BY RestoringFacts
<1>2. /\ sidecar' \in {sidecar, e}
      /\ faults' \in Seq(Outcomes \ {"ok"}) /\ Len(faults') <= MaxFaults
      /\ \/ Unsynced'
         \/ ~Unsynced /\ o = "ok" /\ sidecar' = e
         \/ ~Unsynced /\ o # "ok" /\ sidecar' = sidecar
  <2>1. CASE Io(o) /\ sidecar' = IF TookEffect(o) THEN e ELSE sidecar
    BY <2>1, IoFacts, Parts DEF TookEffect
  <2>2. CASE o = "ok" /\ e = entry /\ UNCHANGED <<sidecar, faults>>
    <3>1. Unsynced' = Unsynced
      BY <2>2 DEF Unsynced
    <3> QED
      BY <1>1, <2>2, <3>1, Parts DEF DiskTypes
  <2> QED
    BY <2>1, <2>2
<1>3. AlwaysRestorable'
  <2>1. CASE sidecar' = e
    BY <2>1 DEF AlwaysRestorable, Unrestorable
  <2>2. CASE sidecar' = sidecar /\ ~Unsynced
    BY <2>2 DEF IInv, AlwaysRestorable, Unrestorable
  <2>3. CASE Unsynced'
    BY <2>3 DEF AlwaysRestorable
  <2> QED
    BY <1>2, <2>1, <2>2, <2>3
<1> QED
  BY <1>2, <1>3

(* A restore that failed ends the process.                                   *)
LEMMA RestoreFails ==
    ASSUME IInv, Forget, NEW e \in RegistryEntry, sidecar' \in {sidecar, e},
           UNCHANGED <<final, pending, crashes>>,
           faults' \in Seq(Outcomes \ {"ok"}), Len(faults') <= MaxFaults, AlwaysRestorable'
    PROVE  IInv'
<1>1. entry' = None
  BY DEF Forget
<1>2. DiskTypes'
  BY <1>1, Parts DEF DiskTypes
<1>3. crashes' \in 0 .. MaxCrashes
  BY Parts DEF MapTypes
<1> QED
  BY <1>2, <1>3, ForgetStep

(* The maps once the torrent of the entry has been adopted.                  *)
LEMMA AdoptFacts ==
    ASSUME IInv, NEW hasInfo \in BOOLEAN, Adopt(hasInfo), torrent = 0, lives = 0, activeOp = FALSE,
           session' \in {"starting", "active"}, UNCHANGED crashes
    PROVE  MapTypes' /\ torrent' = 1 /\ lives' = 1 /\ activeOp' = FALSE /\ UNCHANGED <<add, del>>
<1>1. /\ torrent' = 1 /\ lives' = 1 /\ op' = None /\ info' \subseteq info \cup {1}
      /\ UNCHANGED <<activeOp, add, del>>
  BY SMTT(30) DEF Adopt
<1>2. activeOp' \in BOOLEAN
  BY <1>1
<1>3. info' \subseteq 1 .. lives'
  BY <1>1, Parts, SMTT(30) DEF MapTypes
<1> QED
  BY <1>1, <1>2, <1>3, Parts, RegistryAssumption, SMTT(30) DEF MapTypes

(* The metainfo of the torrent is restored.                                  *)
LEMMA RestoreFinalStep ==
    ASSUME IInv, NEW o \in Outcomes, RestoreFinal(o) PROVE IInv'
<1>1. /\ session = "starting" /\ del.pc = "idle" /\ torrent = 0 /\ entry # None /\ ~DeletionPending /\ final
      /\ UNCHANGED <<final, pending, crashes>>
  BY DEF RestoreFinal, Restoring
<1> USE <1>1
<1>2. entry \in RegistryEntry
  BY DEF IInv, TypeOK
<1>3. PICK e : e = [entry EXCEPT !.state = "ready"]
  OBVIOUS
<1>4. e \in RegistryEntry /\ e.state = "ready" /\ (entry.state = "ready" => e = entry) /\ e # None
  BY <1>2, <1>3, EntryAssumption DEF RegistryEntry, TorrentState
<1>5. \/ Io(o) /\ sidecar' = IF TookEffect(o) THEN e ELSE sidecar
      \/ o = "ok" /\ e = entry /\ UNCHANGED <<sidecar, faults>>
  BY <1>3, <1>4 DEF RestoreFinal
<1>6. /\ sidecar' \in {sidecar, e}
      /\ faults' \in Seq(Outcomes \ {"ok"}) /\ Len(faults') <= MaxFaults
      /\ o = "ok" => Unsynced' \/ sidecar' = e
      /\ AlwaysRestorable'
  <2>1. UNCHANGED <<final, pending>>
    OBVIOUS
  <2> QED
    BY <1>4, <1>5, <2>1, RestoreWrites
<1>7. CASE o # "ok"
  <2>1. Forget
    BY <1>7 DEF RestoreFinal
  <2> QED
    BY <1>4, <1>6, <2>1, RestoreFails
<1>8. CASE o = "ok"
  <2>1. entry' = e /\ Adopt(TRUE) /\ UNCHANGED <<session, fetch, worker>>
    BY <1>3, <1>8 DEF RestoreFinal
  <2> USE <2>1
  <2>2. /\ add.pc = "idle" /\ (\A w \in Workers : worker[w].pc = "idle") /\ fetch = None
        /\ activeOp = FALSE /\ Removed /\ lives = 0
    BY RestoringFacts
  <2>3. MapTypes' /\ torrent' = 1 /\ lives' = 1 /\ activeOp' = FALSE /\ UNCHANGED <<add, del>>
    <3>1. session' \in {"starting", "active"} /\ crashes' = crashes
      OBVIOUS
    <3> QED
      BY <2>2, <3>1, AdoptFacts
  <2>4. DiskTypes'
    BY <1>4, <1>6, Parts DEF DiskTypes
  <2>5. ThreadTypes'
    <3>1. add.torrent \in Nat /\ del.torrent \in Nat /\ add.torrent <= 0 /\ del.torrent <= 0
      BY <2>2, Parts, RegistryAssumption, SMTT(30) DEF ThreadTypes, Adds, Deletes
    <3> QED
      BY <2>3, <3>1, Parts, SMTT(30) DEF ThreadTypes
  <2>6. ThreadInv'
    BY <2>2, <2>3, Parts, ThreadsKept
  <2>7. Blank' /\ StartsQuietly' /\ LockedNotDeleting' /\ Removed'
    BY <1>4, <2>2, <2>3 DEF Blank, StartsQuietly, LockedNotDeleting, Locks, Removed
  <2>8. DeletionOwns'
    BY <1>4, <2>3 DEF DeletionOwns, DeletionPending
  <2>9. FilesInPlace'
    BY <2>2, <2>3 DEF FilesInPlace, AddFiles, WorkerFiles
  <2>10. DiskInv'
    BY <1>6, <1>8 DEF DiskInv, Mirrors
  <2> QED
    BY <2>3, <2>4, <2>5, <2>6, <2>7, <2>8, <2>9, <2>10, Parts DEF DataInv
<1> QED
  BY <1>7, <1>8

(* The magnet of the torrent is restored, with a worker for its metadata.    *)
LEMMA RestorePendingStep ==
    ASSUME IInv, NEW o \in Outcomes, RestorePending(o) PROVE IInv'
<1>1. /\ session = "starting" /\ del.pc = "idle" /\ torrent = 0 /\ entry # None /\ ~DeletionPending
      /\ ~Unrestorable(entry) /\ ~final
      /\ UNCHANGED <<final, pending, crashes>>
  BY DEF RestorePending, Restoring
<1> USE <1>1
<1>2. entry \in RegistryEntry /\ pending
  BY DEF IInv, TypeOK, Unrestorable
<1>3. PICK e : e = [entry EXCEPT !.state = "adding"]
  OBVIOUS
<1>4. e \in RegistryEntry /\ e.state = "adding" /\ e # None
  BY <1>2, <1>3, EntryAssumption DEF RegistryEntry, TorrentState
<1>5. Io(o) /\ sidecar' = IF TookEffect(o) THEN e ELSE sidecar
  BY <1>3 DEF RestorePending
<1>6. /\ sidecar' \in {sidecar, e}
      /\ faults' \in Seq(Outcomes \ {"ok"}) /\ Len(faults') <= MaxFaults
      /\ o = "ok" => Unsynced' \/ sidecar' = e
      /\ AlwaysRestorable'
  <2>1. UNCHANGED <<final, pending>> /\ e.state # "ready"
    BY <1>4
  <2> QED
    BY <1>2, <1>4, <1>5, <2>1, RestoreWrites
<1>7. CASE o # "ok"
  <2>1. Forget
    BY <1>7 DEF RestorePending
  <2> QED
    BY <1>4, <1>6, <2>1, RestoreFails
<1>8. CASE o = "ok"
  <2>1. entry' = e /\ Adopt(FALSE) /\ session' = "active"
    BY <1>3, <1>8 DEF RestorePending
  <2>2. PICK w \in Workers :
          /\ fetch' = w
          /\ worker' = [worker EXCEPT ![w] = [NewFetch(lives + 1) EXCEPT !.pc = "waiting"]]
    BY <1>8 DEF RestorePending
  <2>3. /\ add.pc = "idle" /\ (\A v \in Workers : worker[v].pc = "idle")
        /\ activeOp = FALSE /\ lives = 0
    BY RestoringFacts
  <2>4. MapTypes' /\ torrent' = 1 /\ lives' = 1 /\ activeOp' = FALSE /\ UNCHANGED <<add, del>>
    <3>1. session' \in {"starting", "active"} /\ crashes' = crashes
      BY <2>1
    <3> QED
      BY <2>1, <2>3, <3>1, AdoptFacts
  <2>5. DiskTypes'
    BY <1>4, <1>6, <2>1, Parts DEF DiskTypes
  <2>6. /\ worker' \in [Workers -> WorkerStates] /\ worker'[w].pc = "waiting"
        /\ \A v \in Workers \ {w} : worker'[v].pc = "idle"
    <3>1. NewFetch(lives + 1) \in WorkerStates
      BY <2>3, NewFetchFacts, RegistryAssumption, SMTT(30)
    <3>2. [NewFetch(lives + 1) EXCEPT !.pc = "waiting"] \in WorkerStates
      BY <3>1 DEF WorkerStates, WorkerPcs
    <3>3. [NewFetch(lives + 1) EXCEPT !.pc = "waiting"].pc = "waiting"
      BY <3>1 DEF WorkerStates
    <3>4. worker \in [Workers -> WorkerStates]
      BY DEF IInv, TypeOK
    <3> QED
      BY <2>2, <2>3, <3>2, <3>3, <3>4
  <2>7. ThreadTypes'
    <3>1. add.torrent \in Nat /\ del.torrent \in Nat /\ add.torrent <= 0 /\ del.torrent <= 0
      BY <2>3, Parts, RegistryAssumption, SMTT(30) DEF ThreadTypes, Adds, Deletes
    <3> QED
      BY <2>2, <2>4, <2>6, <3>1, Parts, SMTT(30) DEF ThreadTypes
  <2>8. ThreadInv'
    BY <2>2, <2>3, <2>4, <2>6 DEF ThreadInv, LockExclusive, Locks, FetchRuns, LaunchersApart, Running
  <2>9. DeletionOwns' /\ Removed'
    BY <1>4, <2>1, <2>4 DEF DeletionOwns, DeletionPending, Removed
  <2>10. DataInv'
    BY <2>1, <2>3, <2>4, <2>6, <2>9, QuietData
  <2>11. DiskInv'
    BY <1>6, <1>8, <2>1 DEF DiskInv, Mirrors
  <2> QED
    BY <2>4, <2>5, <2>7, <2>8, <2>10, <2>11, Parts
<1> QED
  BY <1>7, <1>8

-----------------------------------------------------------------------------
(* Every step keeps the invariant.                                           *)
LEMMA NextIInv ==
    ASSUME IInv, [Next]_vars PROVE IInv'
<1>1. CASE Calls
  BY <1>1, AddTorrentAndPersistStep, DeleteByHashStep, SetFavoriteStep, CloseStep
     DEF Calls, DeleteTorrent, Prune
<1>2. CASE SessionNext \/ Crash
  BY <1>2, EndStep, StartStep, RestoreNothingStep, RestoreFinalStep, RestoreUnpendStep, RestorePendingStep
     DEF SessionNext
<1>3. CASE UNCHANGED vars
  <2>1. UNCHANGED <<sidecar, final, pending, session, entry, torrent, lives, info, op, activeOp, fetch, add, worker,
                    del, faults, crashes>>
    BY <1>3 DEF vars
  <2>2. Unsynced' = Unsynced /\ DeletionPending' = DeletionPending
    BY <2>1 DEF Unsynced, DeletionPending
  <2>3. TypeOK' /\ ThreadInv'
    <3>1. TypeOK'
      BY <2>1 DEF IInv, TypeOK
    <3>2. ThreadInv'
      BY <2>1, Parts, ThreadsKept
    <3> QED
      BY <3>1, <3>2
  <2>4. DataInv'
    BY <2>1, <2>2 DEF IInv, DataInv, Blank, StartsQuietly, LockedNotDeleting, Locks, DeletionOwns,
       FilesInPlace, AddFiles, WorkerFiles, RestorableWithout, Removed
  <2>5. DiskInv'
    BY <2>1, <2>2 DEF IInv, DiskInv, Mirrors, AlwaysRestorable, Unrestorable
  <2> QED
    BY <2>3, <2>4, <2>5, Parts
<1> QED
  BY <1>1, <1>2, <1>3, AddNextStep, GotInfoStep, DeleteNextStep, WorkerNextStep DEF Next

(* The invariant holds throughout.                                           *)
THEOREM Invariant == Spec => []IInv
<1>1. IInv /\ [Next]_vars => IInv'
  BY NextIInv
<1> QED
  BY <1>1, InitIInv, PTL DEF Spec

(* The disk, the maps and the threads of the session hold what they are      *)
(* declared to hold, and no thread knows a Torrent that was not created.     *)
THEOREM TypeCorrect == Spec => []TypeOK
<1>1. IInv => TypeOK
  BY DEF IInv
<1> QED
  BY <1>1, Invariant, PTL

(* Whenever the process may die, restoreRegistryEntries can start from what  *)
(* is on disk.                                                               *)
THEOREM AlwaysRestorableHolds == Spec => []AlwaysRestorable
<1>1. IInv => AlwaysRestorable
  BY DEF IInv
<1> QED
  BY <1>1, Invariant, PTL

(* What the session believes is what a restart finds, and its maps agree     *)
(* about the deletion and the worker of the hash.                            *)
THEOREM SessionConsistentAlways == Spec => []SessionConsistent
<1>1. ASSUME IInv PROVE SessionConsistent
  <2>1. MirrorUnlessUnsynced
    BY <1>1 DEF IInv, Mirrors, MirrorUnlessUnsynced, StatesMirrorSidecars
  <2>2. fetch # None => worker[fetch].pc \notin {"idle", "done", "retry", "relaunch", "abandoned"}
    BY <1>1 DEF IInv, FetchRuns, Running
  <2> QED
    BY <1>1, <2>1, <2>2 DEF IInv, DeletionOwns, SessionConsistent, SessionAgrees
<1> QED
  BY <1>1, Invariant, PTL

-----------------------------------------------------------------------------
(* Who writes the sidecar, and what: a hash in deletion stays there, and the *)
(* favorite flag of a known entry is kept by all but SetFavorite.            *)
LEMMA SidecarWrites ==
    ASSUME IInv, [Next]_vars
    PROVE  \/ sidecar' \in {sidecar, None}
           \/ /\ session # "down"
              /\ DeletionPending => sidecar'.state \in {"deleting", "delete_failed"}
              /\ \/ entry = None \/ sidecar'.favorite = entry.favorite
                 \/ \E favorite \in BOOLEAN, o \in Outcomes :
                      SetFavorite(favorite, o) /\ sidecar'.favorite = favorite
<1>1. entry \in RegistryEntry \cup {None}
  BY DEF IInv, TypeOK
<1>2. ASSUME NEW o \in Outcomes, NEW e, WriteEntry(o, e) PROVE sidecar' \in {sidecar, e}
  BY <1>2 DEF WriteEntry
<1>3. CASE AddNext
  <2>1. CASE \E o \in Outcomes : AddRecord(o)
    <3>1. PICK o \in Outcomes : AddRecord(o)
      BY <2>1
    <3>2. PICK s \in TorrentState :
            add.pc = "record" /\ WriteEntry(o, [state |-> s, favorite |-> entry # None /\ entry.favorite])
      <4>1. (IF add.data THEN "ready" ELSE "adding") \in TorrentState
        BY DEF TorrentState
      <4> QED
        BY <3>1, <4>1 DEF AddRecord
    <3>3. PICK f : f = (entry # None /\ entry.favorite) /\ WriteEntry(o, [state |-> s, favorite |-> f])
      BY <3>2
    <3>4. session # "down" /\ ~DeletionPending
      BY <3>2, AddAlone
    <3>5. entry = None \/ f = entry.favorite
      BY <1>1, <3>3 DEF RegistryEntry
    <3> QED
      BY <1>2, <3>3, <3>4, <3>5, SMTT(30)
  <2>2. CASE ~\E o \in Outcomes : AddRecord(o)
    BY <1>3, <2>2 DEF AddNext, AddRefused, AddRegister, AddLaunch, AddPublish, AddUndo, AddUnpend, diskVars
  <2> QED
    BY <2>1, <2>2
<1>4. CASE \E w \in Workers : WorkerNext(w)
  <2>1. PICK w \in Workers : WorkerNext(w)
    BY <1>4
  <2>2. CASE \E o \in Outcomes : WorkerWrite(w, o) \/ WorkerFailed(w, o) \/ WorkerRetry(w, o)
    <3>1. PICK o \in Outcomes : WorkerWrite(w, o) \/ WorkerFailed(w, o) \/ WorkerRetry(w, o)
      BY <2>2
    <3>2. session # "down"
      <4>1. worker[w].pc \in {"write", "failed", "retry"}
        BY <3>1 DEF WorkerWrite, WorkerFailed, WorkerRetry
      <4> QED
        BY <4>1, SessionOn
    <3>3. \/ sidecar' = sidecar
          \/ /\ entry # None /\ ~DeletionPending
             /\ \E s \in TorrentState : WriteEntry(o, [entry EXCEPT !.state = s])
      <4>1. "ready" \in TorrentState /\ "error" \in TorrentState /\ "adding" \in TorrentState
        BY DEF TorrentState
      <4>2. CASE WorkerWrite(w, o)
        <5>1. entry # None /\ ~DeletionPending
          <6>1. worker[w].pc = "write"
            BY <4>2 DEF WorkerWrite
          <6>2. entry # None
            BY <6>1 DEF IInv, FilesInPlace, WorkerFiles
          <6>3. Locks(w)
            BY <6>1 DEF Locks
          <6> QED
            BY <6>2, <6>3, WorkerAlone
        <5> QED
          BY <4>1, <4>2, <5>1 DEF WorkerWrite
      <4>3. CASE WorkerFailed(w, o)
        BY <4>1, <4>3 DEF WorkerFailed
      <4>4. CASE WorkerRetry(w, o)
        <5>1. \/ UNCHANGED <<sidecar, entry, faults>>
              \/ /\ entry # None /\ entry.state \in {"adding", "error"}
                 /\ WriteEntry(o, [entry EXCEPT !.state = "adding"])
          BY <4>4 DEF WorkerRetry
        <5>2. entry # None /\ entry.state \in {"adding", "error"} => ~DeletionPending
          BY DEF DeletionPending
        <5> QED
          BY <4>1, <5>1, <5>2
      <4> QED
        BY <3>1, <4>2, <4>3, <4>4
    <3>4. CASE entry # None /\ ~DeletionPending /\ \E s \in TorrentState : WriteEntry(o, [entry EXCEPT !.state = s])
      <4>1. PICK s \in TorrentState : WriteEntry(o, [entry EXCEPT !.state = s])
        BY <3>4
      <4>2. [entry EXCEPT !.state = s].favorite = entry.favorite
        BY <1>1, <3>4 DEF RegistryEntry
      <4>3. sidecar' \in {sidecar, [entry EXCEPT !.state = s]}
        BY <1>2, <4>1
      <4> QED
        BY <3>2, <3>4, <4>2, <4>3
    <3> QED
      BY <3>3, <3>4
  <2>3. CASE ~\E o \in Outcomes : WorkerWrite(w, o) \/ WorkerFailed(w, o) \/ WorkerRetry(w, o)
    BY <2>1, <2>3 DEF WorkerNext, WorkerWait, WorkerRefused, WorkerConflict, WorkerExit, WorkerRelaunch,
       WorkerRegister, WorkerLaunch, WorkerDone, WorkerPublish, WorkerUnpend, WorkerUndo, diskVars
  <2> QED
    BY <2>2, <2>3
<1>5. CASE Calls
  <2>1. CASE \E o \in Outcomes, favorite \in BOOLEAN : SetFavorite(favorite, o)
    <3>1. PICK o \in Outcomes, favorite \in BOOLEAN : SetFavorite(favorite, o)
      BY <2>1
    <3>2. session = "active" /\ entry # None /\ ~DeletionPending /\ WriteEntry(o, [entry EXCEPT !.favorite = favorite])
      BY <3>1 DEF SetFavorite
    <3>3. [entry EXCEPT !.favorite = favorite].favorite = favorite
      BY <1>1, <3>2 DEF RegistryEntry
    <3>4. sidecar' \in {sidecar, [entry EXCEPT !.favorite = favorite]}
      BY <1>2, <3>2
    <3> QED
      BY <3>1, <3>2, <3>3, <3>4
  <2>2. CASE \E o \in Outcomes, b \in BOOLEAN : DeleteByHash(b, o)
    <3>1. PICK o \in Outcomes, b \in BOOLEAN : DeleteByHash(b, o)
      BY <2>2
    <3>2. session = "active" /\ entry # None /\ WriteEntry(o, [entry EXCEPT !.state = "deleting"])
      BY <3>1 DEF DeleteByHash
    <3>3. /\ [entry EXCEPT !.state = "deleting"].favorite = entry.favorite
          /\ [entry EXCEPT !.state = "deleting"].state = "deleting"
      BY <1>1, <3>2 DEF RegistryEntry
    <3>4. sidecar' \in {sidecar, [entry EXCEPT !.state = "deleting"]}
      BY <1>2, <3>2
    <3> QED
      BY <3>2, <3>3, <3>4
  <2>3. CASE Close \/ \E metainfo \in BOOLEAN : AddTorrentAndPersist(metainfo)
    BY <2>3 DEF Close, AddTorrentAndPersist, diskVars
  <2> QED
    BY <1>5, <2>1, <2>2, <2>3 DEF Calls, DeleteTorrent, Prune
<1>6. CASE DeleteNext
  <2>1. CASE \E o \in Outcomes : DeleteFailed(o)
    <3>1. PICK o \in Outcomes : DeleteFailed(o)
      BY <2>1
    <3>2. WriteEntry(o, [entry EXCEPT !.state = "delete_failed"])
      BY <3>1 DEF DeleteFailed
    <3>3. session # "down" /\ entry \in RegistryEntry
      <4>1. del.pc # "idle"
        BY <3>1 DEF DeleteFailed
      <4> QED
        BY <4>1, DeletionAlone
    <3>4. /\ [entry EXCEPT !.state = "delete_failed"].favorite = entry.favorite
          /\ [entry EXCEPT !.state = "delete_failed"].state = "delete_failed"
      BY <3>3 DEF RegistryEntry
    <3>5. sidecar' \in {sidecar, [entry EXCEPT !.state = "delete_failed"]}
      BY <1>2, <3>2
    <3> QED
      BY <3>3, <3>4, <3>5
  <2>2. CASE ~\E o \in Outcomes : DeleteFailed(o)
    BY <1>6, <2>2 DEF DeleteNext, StopMetadataFetch, AwaitMetadataFetch, RemoveFinal, RemovePending,
       RemoveSubtitles, Deleted, RemoveEntryFailed, diskVars
  <2> QED
    BY <2>1, <2>2
<1>7. CASE SessionNext
  <2>1. CASE \E o \in Outcomes : RestoreFinal(o) \/ RestorePending(o)
    <3>1. PICK o \in Outcomes : RestoreFinal(o) \/ RestorePending(o)
      BY <2>1
    <3>2. session = "starting" /\ entry # None /\ ~DeletionPending
      BY <3>1 DEF RestoreFinal, RestorePending, Restoring
    <3>3. \E s \in TorrentState : sidecar' \in {sidecar, [entry EXCEPT !.state = s]}
      <4>1. "ready" \in TorrentState /\ "adding" \in TorrentState
        BY DEF TorrentState
      <4> QED
        BY <3>1, <4>1 DEF RestoreFinal, RestorePending
    <3>4. PICK s \in TorrentState : sidecar' \in {sidecar, [entry EXCEPT !.state = s]}
      BY <3>3
    <3>5. [entry EXCEPT !.state = s].favorite = entry.favorite
      BY <1>1, <3>2 DEF RegistryEntry
    <3> QED
      BY <3>2, <3>4, <3>5
  <2>2. CASE ~\E o \in Outcomes : RestoreFinal(o) \/ RestorePending(o)
    BY <1>7, <2>2 DEF SessionNext, Closed, Start, RestoreNothing, RefuseToStart, RestoreUnpend, diskVars
  <2> QED
    BY <2>1, <2>2
<1>8. CASE GotInfo \/ Crash \/ UNCHANGED vars
  BY <1>8 DEF GotInfo, Crash, vars, diskVars
<1> QED
  BY <1>3, <1>4, <1>5, <1>6, <1>7, <1>8 DEF Next

(* A torrent whose deletion was recorded never comes back: its sidecar stays *)
(* in deletion until it is gone, through crashes and restarts.               *)
THEOREM NeverResurrected == Spec => NoResurrection
<1> DEFINE Gone(e) == e = None \/ e.state \in {"deleting", "delete_failed"}
           Stays == ~Unsynced /\ sidecar # None /\ sidecar.state \in {"deleting", "delete_failed"} => Gone(sidecar')
<1>1. ASSUME IInv, [Next]_vars PROVE [Stays]_vars
  <2>1. session # "down" => Unsynced \/ entry = sidecar
    BY <1>1 DEF IInv, Mirrors
  <2>2. \/ sidecar' \in {sidecar, None}
        \/ session # "down" /\ (DeletionPending => sidecar'.state \in {"deleting", "delete_failed"})
    BY <1>1, SidecarWrites
  <2> QED
    BY <2>1, <2>2 DEF DeletionPending
<1>2. [][Next]_vars /\ []IInv => [][Stays]_vars
  BY <1>1, PTL
<1> QED
  BY <1>2, Invariant, PTL DEF Spec, NoResurrection

(* Only the end of a deletion reports it as deleted.                         *)
LEMMA OpWrites ==
    ASSUME [Next]_vars PROVE op' \in {op, None, "deleting", "delete_failed"} \/ Deleted
<1>1. CASE Calls
  BY <1>1 DEF Calls, AddTorrentAndPersist, DeleteTorrent, Prune, DeleteByHash, SetFavorite, Close, stateVars
<1>2. CASE AddNext
  BY <1>2 DEF AddNext, AddRefused, AddRegister, AddLaunch, AddPublish, AddRecord, AddUndo, AddUnpend, stateVars
<1>3. CASE DeleteNext
  BY <1>3 DEF DeleteNext, StopMetadataFetch, AwaitMetadataFetch, RemoveFinal, RemovePending, RemoveSubtitles,
     DeleteFailed, RemoveEntryFailed, stateVars
<1>4. CASE SessionNext \/ Crash
  BY <1>4 DEF SessionNext, Crash, Closed, Start, RestoreNothing, RefuseToStart, RestoreFinal, RestoreUnpend,
     RestorePending, Adopt, Forget, stateVars
<1>5. CASE \E w \in Workers : WorkerNext(w)
  <2>1. PICK w \in Workers : WorkerNext(w)
    BY <1>5
  <2>2. CASE \E o \in Outcomes : \/ WorkerPublish(w, o) \/ WorkerWrite(w, o) \/ WorkerUnpend(w, o)
                               \/ WorkerUndo(w, o) \/ WorkerFailed(w, o) \/ WorkerRetry(w, o)
    BY <2>2 DEF WorkerPublish, WorkerWrite, WorkerUnpend, WorkerUndo, WorkerFailed, WorkerRetry, stateVars
  <2>3. CASE \/ WorkerWait(w) \/ WorkerRefused(w) \/ WorkerConflict(w) \/ WorkerExit(w)
             \/ WorkerRelaunch(w) \/ WorkerRegister(w) \/ WorkerLaunch(w) \/ WorkerDone(w)
    BY <2>3 DEF WorkerWait, WorkerRefused, WorkerConflict, WorkerExit, WorkerRelaunch, WorkerRegister,
       WorkerLaunch, WorkerDone, stateVars
  <2> QED
    BY <2>1, <2>2, <2>3 DEF WorkerNext
<1>6. CASE GotInfo \/ UNCHANGED vars
  BY <1>6 DEF GotInfo, vars
<1> QED
  BY <1>1, <1>2, <1>3, <1>4, <1>5, <1>6 DEF Next

(* A deletion that reports "deleted" has left nothing behind, whatever       *)
(* workers and adds were under way when it began.                            *)
THEOREM NothingLeftBehind == Spec => DeletedLeavesNothing
<1> DEFINE Clean == op # "deleted" /\ op' = "deleted" => sidecar' = None /\ ~final' /\ ~pending'
<1>1. ASSUME IInv, [Next]_vars PROVE [Clean]_vars
  <2>1. CASE Deleted
    <3>1. del.pc = "finish" /\ ~del.failed /\ sidecar' = None /\ UNCHANGED <<final, pending>>
      BY <2>1 DEF Deleted
    <3>2. ~final /\ ~pending
      BY <1>1, <3>1 DEF IInv, Removed
    <3> QED
      BY <3>1, <3>2
  <2>2. CASE op' \in {op, None, "deleting", "delete_failed"}
    BY <2>2, RegistryAssumption
  <2> QED
    BY <1>1, <2>1, <2>2, OpWrites
<1>2. [][Next]_vars /\ []IInv => [][Clean]_vars
  BY <1>1, PTL
<1> QED
  BY <1>2, Invariant, PTL DEF Spec, DeletedLeavesNothing

(* Pruning does not delete a favorite, and only SetFavorite clears the flag  *)
(* of a torrent that exists.                                                 *)
THEOREM FavoritesAreKept == Spec => FavoriteKept
<1> DEFINE Keeps ==
             ~Unsynced /\ sidecar # None /\ sidecar.favorite =>
               /\ ~\E o \in Outcomes : Prune(o)
               /\ sidecar' # None /\ ~sidecar'.favorite => \E o \in Outcomes : SetFavorite(FALSE, o)
<1>1. ASSUME IInv, [Next]_vars PROVE [Keeps]_vars
  <2> SUFFICES ASSUME ~Unsynced, sidecar # None, sidecar.favorite PROVE Keeps
    OBVIOUS
  <2>1. session # "down" => entry = sidecar
    BY <1>1 DEF IInv, Mirrors
  <2>2. ~\E o \in Outcomes : Prune(o)
    <3>1. SUFFICES ASSUME NEW o \in Outcomes, Prune(o) PROVE FALSE
      OBVIOUS
    <3>2. session = "active" /\ ~entry.favorite
      BY <3>1 DEF Prune, DeleteByHash
    <3> QED
      BY <2>1, <3>2
  <2>3. sidecar' # None /\ ~sidecar'.favorite => \E o \in Outcomes : SetFavorite(FALSE, o)
    <3>1. SUFFICES ASSUME sidecar' # None, ~sidecar'.favorite PROVE \E o \in Outcomes : SetFavorite(FALSE, o)
      OBVIOUS
    <3>2. sidecar' # sidecar
      BY <3>1
    <3>3. entry = sidecar /\ sidecar'.favorite # entry.favorite
      BY <1>1, <2>1, <3>1, <3>2, SidecarWrites
    <3>4. PICK favorite \in BOOLEAN, o \in Outcomes : SetFavorite(favorite, o) /\ sidecar'.favorite = favorite
      BY <1>1, <3>1, <3>2, <3>3, SidecarWrites
    <3>5. favorite = FALSE
      BY <3>1, <3>4
    <3> QED
      BY <3>4, <3>5
  <2> QED
    BY <2>2, <2>3
<1>2. [][Next]_vars /\ []IInv => [][Keeps]_vars
  BY <1>1, PTL
<1> QED
  BY <1>2, Invariant, PTL DEF Spec, FavoriteKept

=============================================================================
