----------------------------- MODULE MountParts -----------------------------
(* The parts of the mounts: the directories the SMB server lists, the        *)
(* indexes of the FUSE mount, the start and the shutdown of what serves      *)
(* them, and an open file.                                                   *)
EXTENDS PartState, Naturals, FiniteSets

CONSTANTS
    Directories, Places, MaxSnapshots, \* Tree
    Prefixes, Has, SingleFile,         \* Fuse
    MaxMounts,                         \* Proc
    Reads, Closers                     \* Handle

Tree == INSTANCE DirectoryCache WITH
    source <- v1, changes <- v2, cache <- v3, version <- v4, snapshot <- v5, nextVersion <-
    v6, index <- v7, op <- v8
Fuse == INSTANCE ViewCache WITH
    source <- v1, changes <- v2, cache <- v3, version <- v4, op <- v5
Proc == INSTANCE Process WITH
    pc <- v1, wanted <- v2, mounted <- v3, sequence <- v4, stopped <- v5, serve <- v6,
    serveErr <- v7, signal <- v8, unmount <- v9, timer <- v10, failed <- v11
Handle == INSTANCE Handles WITH
    closed <- v1, once <- v2, file <- v3, waiting <- v4, reader <- v5, read <- v6, close <-
    v7

(* None is no number, no contents and no place, and the requests can be      *)
(* counted.                                                                  *)
ASSUME TreeAssumption ==
    /\ None \notin Nat \cup Directories \cup Places \cup {"list", "open"}
    /\ IsFiniteSet(Ops) /\ MaxSnapshots \in Nat
ASSUME FuseAssumption == None \notin Nat \cup Contents /\ IsFiniteSet(Ops)
ASSUME ProcAssumption == MaxMounts \in Nat

MountInit ==
    \/ component = "tree" /\ Tree!Init /\ None8
    \/ component = "fuse" /\ Fuse!Init /\ None5
    \/ component = "proc" /\ Proc!Init /\ None11
    \/ component = "handle" /\ Handle!Init /\ None7

MountNext ==
    \/ component = "tree" /\ Tree!Next /\ UNCHANGED <<component, rest8>>
    \/ component = "fuse" /\ Fuse!Next /\ UNCHANGED <<component, rest5>>
    \/ component = "proc" /\ Proc!Next /\ UNCHANGED <<component, rest11>>
    \/ component = "handle" /\ Handle!Next /\ UNCHANGED <<component, rest7>>

-----------------------------------------------------------------------------
(* The records of each part are well formed: the TypeOK of each module. *)
MountTypeOK ==
    /\ component = "tree" => Tree!TypeOK
    /\ component = "fuse" => Fuse!TypeOK
    /\ component = "proc" => Proc!TypeOK
    /\ component = "handle" => Handle!TypeOK

(* No snapshot of a directory is orphaned with its cleanups, no late         *)
(* eviction hits the current one, and no name index outlives its snapshot:   *)
(* DirectoryCache!CacheableIsOwned, DirectoryCache!OwnedIsCacheable,         *)
(* DirectoryCache!IndexOwned.                                                *)
SnapshotsOwned ==
    component = "tree" => Tree!CacheableIsOwned /\ Tree!OwnedIsCacheable /\ Tree!IndexOwned

(* A FUSE read answers from the contents it asked for, and nobody waits for  *)
(* an index nobody builds: ViewCache!AnswersFromOwnView,                     *)
(* ViewCache!PendingIsBuilt.                                                 *)
ViewsOwned == component = "fuse" => Fuse!AnswersFromOwnView /\ Fuse!PendingIsBuilt

(* Nothing serves from a closed session, and whatever was started is taken   *)
(* down before the process ends: Process!StopOrder,                          *)
(* Process!EverythingStopped.                                                *)
ShutdownOrdered == component = "proc" => Proc!StopOrder /\ Proc!EverythingStopped

(* A handle's file is closed once, when no read uses it:                     *)
(* Handles!ClosedDrained.                                                    *)
ClosedDrained == component = "handle" => Handle!ClosedDrained

(* An outcome that was there is not reported as late: Process!OutcomesKept. *)
OutcomesKept == [][component = "proc" => Proc!KeepsOutcomes]_vars

-----------------------------------------------------------------------------
(* Why: the inductive invariant of the part that was chosen. *)
MountInductive ==
    /\ component = "tree" => Tree!Inductive
    /\ component = "fuse" => Fuse!Inductive
    /\ component = "proc" => Proc!Inductive
    /\ component = "handle" => Handle!Inductive

=============================================================================
