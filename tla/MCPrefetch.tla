----------------------------- MODULE MCPrefetch -----------------------------
(* Small instances of Prefetch: a torrent of two pieces, the second shared  *)
(* by two files.  The number of opens, of reads and of events outside the   *)
(* coordinator's control is bounded.                                        *)
EXTENDS Prefetch, TLC

CONSTANTS MaxOpens, MaxReads, MaxEvents

VARIABLES opened, begun, events

MCFileStart == 1 :> 0 @@ 2 :> 3
MCFileSize == 1 :> 3 @@ 2 :> 1

(* one file longer than the window, read by one open *)
LongFileStart == 1 :> 0
LongFileSize == 1 :> 5

Moves(from, to) == IF \E r \in Readers : pc[r] = from /\ pc'[r] = to THEN 1 ELSE 0

Happens == IF otherUsed' # otherUsed \/ otherPins' # otherPins \/ ~(cached \subseteq cached') THEN 1 ELSE 0

MCInit == Init /\ opened = 0 /\ begun = 0 /\ events = 0

MCNext ==
    /\ Next
    /\ opened' = opened + Moves("closed", "open") /\ opened' <= MaxOpens
    /\ begun' = begun + Moves("open", "reading") /\ begun' <= MaxReads
    /\ events' = events + Happens /\ events' <= MaxEvents

MCSpec == MCInit /\ [][MCNext]_<<vars, opened, begun, events>>

ReaderSymmetry == Permutations(Readers)

=============================================================================
