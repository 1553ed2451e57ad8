----------------------------- MODULE StateParts -----------------------------
(* The parts of what is kept on disk: the names of the mount, the schedule   *)
(* of the upload limit, the migration of an older layout, and the lock on    *)
(* the directory.                                                            *)
EXTENDS PartState, Integers, FiniteSets

CONSTANTS
    Torrents, Name, Suffixed, Single, Sidecars, Default,     \* Names
    CategoryNames, MaxFaults, MaxCrashes,
    Wall, Settings, MinuteTicks, Lookahead, MaxLag, MaxSets, \* Rate
    Hashes,                                                  \* Migrate
    Processes, PeerPrefixes, Randoms                         \* Lock

Names == INSTANCE Namespace WITH
    up <- v1, states <- v2, categories <- v3, subtitles <- v4, upload <- v5, entryFile <-
    v6, categoryFile <- v7, final <- v8, pending <- v9, store <- v10, staging <- v11, stale
    <- v12, faults <- v13, crashes <- v14
Rate == INSTANCE UploadRate WITH
    clock <- v1, file <- v2, settings <- v3, policy <- v4, limit <- v5, wake <- v6, ctx <-
    v7, runner <- v8, setter <- v9, sets <- v10
Migrate == INSTANCE Migration WITH
    legacy <- v1, final <- v2, pending <- v3, entry <- v4, marker <- v5, pc <- v6, item <-
    v7, todo <- v8, move <- v9, given <- v10, doomed <- v11
Lock == INSTANCE Instance WITH
    pc <- v1, config <- v2, lock <- v3, idFile <- v4, keyFile <- v5, memory <- v6

(* Info hashes are ordered, the bounds are numbers, and None is no sidecar   *)
(* and no upload.                                                            *)
ASSUME NamesAssumption ==
    /\ Torrents \subseteq Int /\ MaxFaults \in Nat /\ MaxCrashes \in Nat
    /\ None \notin Names!Records
    /\ None \notin [torrent : Torrents, path : UNION {Sidecars[t] : t \in Torrents}, renamed : BOOLEAN]
(* The clock repeats after some ticks. *)
ASSUME ClockAssumption ==
    /\ Cardinality(Rate!Ticks) \in Nat \ {0}
    /\ Rate!Ticks = 0 .. Cardinality(Rate!Ticks) - 1
(* The lookahead of nextTransition is a number of its probes, and what the   *)
(* clock shows changes at most once between two of them.                     *)
ASSUME RateAssumption ==
    /\ MinuteTicks \in Nat \ {0} /\ Lookahead \in Nat \ {0} /\ Lookahead % MinuteTicks = 0
    /\ \A t \in Rate!Ticks, d \in 0 .. MinuteTicks :
         Wall[Rate!After(t, d)] \in {Wall[t], Wall[Rate!After(t, MinuteTicks)]}
    /\ None \notin Nat \cup Settings \cup {[rate |-> 0, window |-> None]}
ASSUME MigrateAssumption ==
    /\ None \notin {"torrent", "magnet", "adding", "ready", "deleting"}
    /\ \A h \in Hashes, step \in {"unlink", "magnet", "pending"} : <<h, step>> # None
ASSUME LockAssumption == None \notin Processes

StateInit ==
    \/ component = "names" /\ Names!Init
    \/ component = "rate" /\ Rate!Init /\ None10
    \/ component = "migrate" /\ Migrate!Init /\ None11
    \/ component = "lock" /\ Lock!Init /\ None6

StateNext ==
    \/ component = "names" /\ Names!Next /\ UNCHANGED component
    \/ component = "rate" /\ Rate!Next /\ UNCHANGED <<component, rest10>>
    \/ component = "migrate" /\ Migrate!Next /\ UNCHANGED <<component, rest11>>
    \/ component = "lock" /\ Lock!Next /\ UNCHANGED <<component, rest6>>

-----------------------------------------------------------------------------
(* The records of each part are well formed: the TypeOK of each module. *)
StateTypeOK ==
    /\ component = "names" => Names!TypeOK
    /\ component = "rate" => Rate!TypeOK
    /\ component = "migrate" => Migrate!TypeOK
    /\ component = "lock" => Lock!TypeOK

(* A subtitle stays beside its video, no torrent refers to a category that a *)
(* restart may not find, and the subtitles shown are those on disk:          *)
(* Namespace!PairsIntact, Namespace!CategoriesOutliveReferences,             *)
(* Namespace!IndexMatchesStore.                                              *)
NamesSound ==
    component = "names" => Names!PairsIntact /\ Names!CategoriesOutliveReferences /\ Names!IndexMatchesStore

(* The settings in use are those of the file, the limit is right until the   *)
(* timer fires, and the timer is set to the exact next boundary:             *)
(* UploadRate!MemoryFollowsFile, UploadRate!RightUntilBoundary,              *)
(* UploadRate!TransitionExact.                                               *)
LimitInForce ==
    component = "rate" => Rate!MemoryFollowsFile /\ Rate!RightUntilBoundary /\ Rate!TransitionExact

(* An interrupted migration loses nothing, and brings no deleted torrent     *)
(* back: Migration!MigratedWhole, Migration!DeletedStaysDeleted.             *)
MigrationKeepsAll ==
    component = "migrate" => Migrate!MigratedWhole /\ Migrate!DeletedStaysDeleted

(* One process manages the directory, and a restart finds its identity and   *)
(* its key again: Instance!OneManager, Instance!IdentityDurable.             *)
DirectoryOwned == component = "lock" => Lock!OneManager /\ Lock!IdentityDurable

-----------------------------------------------------------------------------
(* Why: the inductive invariant of the part that was chosen. *)
StateInductive ==
    /\ component = "names" => Names!Inductive
    /\ component = "rate" => Rate!Inductive
    /\ component = "migrate" => Migrate!Inductive
    /\ component = "lock" => Lock!Inductive

=============================================================================
