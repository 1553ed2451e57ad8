----------------------------- MODULE PartsProofs -----------------------------
(* The parts that MountProofs, StreamProofs and StateProofs prove safe stay  *)
(* so in the composition: a step of one part is no step of another.  The     *)
(* facts on finite sets those proofs take as a hypothesis are proved here.   *)
EXTENDS Parts, MountProofs, StreamProofs, StateProofs, FiniteSetTheorems

USE ZenonT(40)

Inductive == MountInductive /\ StreamInductive /\ StateInductive

(* what a step of the parts may never do *)
Kept ==
    /\ component = "proc" => Proc!KeepsOutcomes
    /\ component = "strm" => Strm!ActsOnNewer

(* What the proofs about the parts use of finite sets and numbers holds. *)
LEMMA FiniteSetsCount == Counting
<1>1. CountIsNatural
  BY FS_CardinalityType DEF CountIsNatural
<1>2. EmptyCount
  BY FS_EmptySet DEF EmptyCount
<1>3. SingletonCount
  BY FS_Singleton DEF SingletonCount
<1>4. AddedCount
  BY FS_AddElement DEF AddedCount
<1>5. RemovedCount
  BY FS_RemoveElement DEF RemovedCount
<1>6. SubsetCount
  BY FS_Subset DEF SubsetCount
<1>7. UnionCount
  BY FS_Union DEF UnionCount
<1>8. IntervalCount
  BY FS_Interval DEF IntervalCount
<1>9. ImageCount
  <2>1. ASSUME NEW S, NEW T, NEW f \in Onto(S, T), IsFiniteSet(S)
        PROVE  IsFiniteSet(T) /\ Cardinality(T) <= Cardinality(S)
    <3>1. f \in Surjection(S, T)
      BY DEF Onto, Surjection
    <3> QED
      BY <2>1, <3>1, FS_Surjection
  <2> QED
    BY <2>1 DEF ImageCount
<1>10. LeastNumber
  <2>1. ASSUME NEW S \in SUBSET Nat, S # {}
        PROVE  \E x \in S : \A y \in S : x <= y
    <3>1. PICK x \in S : \A y \in S : <<y, x>> \notin OpToRel(<, Nat)
      BY <2>1, NatLessThanWellFounded, WFMin
    <3>2. ASSUME NEW y \in S PROVE x <= y
      <4>1. ~(y < x) /\ x \in Nat /\ y \in Nat
        BY <3>1 DEF OpToRel
      <4> QED
        BY <4>1, SMTT(30)
    <3> QED
      BY <3>2
  <2> QED
    BY <2>1 DEF LeastNumber
<1> QED
  BY <1>1, <1>2, <1>3, <1>4, <1>5, <1>6, <1>7, <1>8, <1>9, <1>10 DEF Counting

(* Whichever part was chosen starts in its invariant, *)
LEMMA PartsStart == Init => Inductive
<1>1. StreamInit \/ StateInit => MountInductive
  BY DEF StreamInit, StateInit, MountInductive
<1>2. MountInit \/ StateInit => StreamInductive
  BY DEF MountInit, StateInit, StreamInductive
<1>3. MountInit \/ StreamInit => StateInductive
  BY DEF MountInit, StreamInit, StateInductive
<1> QED
  BY <1>1, <1>2, <1>3, FiniteSetsCount, MountStart, StreamStart, StateStart DEF Init, Inductive

(* and keeps it. *)
LEMMA PartsStep ==
    ASSUME Inductive, [Next]_vars
    PROVE  Inductive' /\ Kept
<1>0. MountInductive /\ StreamInductive /\ StateInductive /\ Counting
  BY FiniteSetsCount DEF Inductive
<1>1. CASE MountNext
  <2>1. component' = component /\ component \in {"tree", "fuse", "proc", "handle"}
    BY <1>1 DEF MountNext
  <2>2. StreamInductive' /\ StateInductive' /\ component # "strm"
    BY <2>1 DEF StreamInductive, StateInductive
  <2> QED
    BY <1>0, <1>1, <2>2, MountStep DEF Inductive, Kept
<1>2. CASE StreamNext
  <2>1. component' = component /\ component \in {"strm", "fetch", "auth"}
    BY <1>2 DEF StreamNext
  <2>2. MountInductive' /\ StateInductive' /\ component # "proc"
    BY <2>1 DEF MountInductive, StateInductive
  <2> QED
    BY <1>0, <1>2, <2>2, StreamStep DEF Inductive, Kept
<1>3. CASE StateNext
  <2>1. component' = component /\ component \in {"names", "rate", "migrate", "lock"}
    BY <1>3 DEF StateNext
  <2>2. MountInductive' /\ StreamInductive' /\ component # "proc" /\ component # "strm"
    BY <2>1 DEF MountInductive, StreamInductive
  <2> QED
    BY <1>0, <1>3, <2>2, StateStep DEF Inductive, Kept
<1>4. CASE UNCHANGED vars
  BY <1>0, <1>4, MountStutter, StreamStutter, StateStutter DEF Inductive, Kept
<1> QED
  BY <1>1, <1>2, <1>3, <1>4 DEF Next

(* So it always holds. *)
LEMMA PartsAlways == Spec => []Inductive
<1>1. Init => Inductive
  BY PartsStart
<1>2. Inductive /\ [Next]_vars => Inductive'
  BY PartsStep
<1> QED
  BY <1>1, <1>2, PTL DEF Spec

(* Whichever part runs, its records keep their types: maps hold entries of   *)
(* the right kinds for the right keys, counters stay numbers, and every      *)
(* goroutine is at a stage of its code.                                      *)
THEOREM RecordsAreWellFormed == Spec => []TypeOK
<1>1. Inductive => TypeOK
  BY FiniteSetsCount, MountSafe, StreamSafe, StateSafe DEF Inductive, TypeOK
<1> QED
  BY <1>1, PartsAlways, PTL

(* Whatever order reads and closes of an SMB handle take, its file is closed *)
(* once, and by the last that uses it (Handles).                             *)
THEOREM HandlesDrain == Spec => []ClosedDrained
<1>1. Inductive => ClosedDrained
  BY FiniteSetsCount, MountSafe DEF Inductive
<1> QED
  BY <1>1, PartsAlways, PTL

(* No token survives the close of the service, none belongs to two logins,   *)
(* and an idle one expires, whatever the order of logins, requests, logouts  *)
(* and the passing of time (AuthService).                                    *)
THEOREM TokensAreOwned == Spec => []TokensOwned
<1>1. Inductive => TokensOwned
  BY FiniteSetsCount, StreamSafe DEF Inductive
<1> QED
  BY <1>1, PartsAlways, PTL

(* The process stops what it started, in the order that nothing serves from  *)
(* a closed session, on every path out (Process).                            *)
THEOREM ShutdownIsOrdered == Spec => []ShutdownOrdered
<1>1. Inductive => ShutdownOrdered
  BY FiniteSetsCount, MountSafe DEF Inductive
<1> QED
  BY <1>1, PartsAlways, PTL

(* At most one process manages the directory, and its identity and its key   *)
(* outlive crashes (Instance).                                               *)
THEOREM DirectoryIsOwned == Spec => []DirectoryOwned
<1>1. Inductive => DirectoryOwned
  BY FiniteSetsCount, StateSafe DEF Inductive
<1> QED
  BY <1>1, PartsAlways, PTL

(* Wherever the migration of an older layout is cut, it has lost nothing and *)
(* brings no deleted torrent back (Migration).                               *)
THEOREM MigrationIsWhole == Spec => []MigrationKeepsAll
<1>1. Inductive => MigrationKeepsAll
  BY FiniteSetsCount, StateSafe DEF Inductive
<1> QED
  BY <1>1, PartsAlways, PTL

(* The settings in use are those on disk, the limit is right until the timer *)
(* fires, and the timer is set to the first instant at which the limit is a  *)
(* different one, for any clock that shows no minute shorter than the step   *)
(* of the search (UploadRate).                                               *)
THEOREM LimitIsInForce == Spec => []LimitInForce
<1>1. Inductive => LimitInForce
  BY FiniteSetsCount, StateSafe DEF Inductive
<1> QED
  BY <1>1, PartsAlways, PTL

(* A subtitle stays beside its video, every category that a torrent refers   *)
(* to is found again after a power failure, and the subtitles shown are      *)
(* those on disk, however additions, moves, uploads, deletions, failed       *)
(* writes and restarts follow one another (Namespace).                       *)
THEOREM NamesAreSound == Spec => []NamesSound
<1>1. Inductive => NamesSound
  BY FiniteSetsCount, StateSafe DEF Inductive
<1> QED
  BY <1>1, PartsAlways, PTL

(* No read of the link files leaves a placeholder in the cache, and what it  *)
(* keeps of a projection is never older than the sizes it knows (StrmCache). *)
THEOREM LinksAreFresh == Spec => []LinksFresh
<1>1. Inductive => LinksFresh
  BY FiniteSetsCount, StreamSafe DEF Inductive
<1> QED
  BY <1>1, PartsAlways, PTL

(* A FUSE read answers from the contents it asked for, and an index that is  *)
(* pending has exactly one read that builds it (ViewCache).                  *)
THEOREM ViewsAreOwned == Spec => []ViewsOwned
<1>1. Inductive => ViewsOwned
  BY FiniteSetsCount, MountSafe DEF Inductive
<1> QED
  BY <1>1, PartsAlways, PTL

(* However listings, opens and changes of the library overlap, a snapshot of *)
(* a directory that keeps cleanups is the one in the cache or about to be    *)
(* evicted, the one in the cache is not evicted, and no index of names       *)
(* outlives its snapshot (DirectoryCache).                                   *)
THEOREM SnapshotsAreOwned == Spec => []SnapshotsOwned
<1>1. Inductive => SnapshotsOwned
  BY FiniteSetsCount, MountSafe DEF Inductive
<1> QED
  BY <1>1, PartsAlways, PTL

(* However many reads join and leave the download of a piece, none takes it  *)
(* from another, no piece is downloaded twice at a time, and nothing comes   *)
(* back after the close of the torrent (Fetcher).                            *)
THEOREM FlightsAreShared == Spec => []FlightsShared
<1>1. Inductive => FlightsShared
  BY FiniteSetsCount, StreamSafe DEF Inductive
<1> QED
  BY <1>1, PartsAlways, PTL

(* An outcome that was there when the deadline passed is not reported as     *)
(* late (Process).                                                           *)
THEOREM OutcomesAreKept == Spec => OutcomesKept
<1>1. Inductive /\ [Next]_vars => [component = "proc" => Proc!KeepsOutcomes]_vars
  BY PartsStep DEF Kept
<1> QED
  BY <1>1, PartsAlways, PTL DEF Spec, OutcomesKept

(* No late answer of the library undoes a newer one in the cache of the link *)
(* files (StrmCache).                                                        *)
THEOREM NothingStaleIsPublished == Spec => NoStalePublication
<1>1. Inductive /\ [Next]_vars => [component = "strm" => Strm!ActsOnNewer]_vars
  BY PartsStep DEF Kept
<1> QED
  BY <1>1, PartsAlways, PTL DEF Spec, NoStalePublication

=============================================================================
