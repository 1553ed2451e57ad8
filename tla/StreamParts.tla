----------------------------- MODULE StreamParts -----------------------------
(* The parts a client that streams passes: the cache of the link files that  *)
(* show the library, the flights that download pieces, and the tokens of the *)
(* HTTP API.                                                                 *)
EXTENDS PartState, Naturals, FiniteSets

CONSTANTS
    WithFile, Sizes,                    \* Strm
    Readers, Pieces, Flights, Attempts, \* Fetch
    Logins, Tokens, TTL, MaxTime        \* Auth

Strm == INSTANCE StrmCache WITH
    source <- v1, epoch <- v2, cache <- v3, entry <- v4, op <- v5, applied <- v6
Fetch == INSTANCE Fetcher WITH
    read <- v1, flight <- v2, inflight <- v3, closed <- v4, fileClosed <- v5, closer <- v6,
    cached <- v7
Auth == INSTANCE AuthService WITH
    closed <- v1, tokens <- v2, now <- v3, login <- v4, used <- v5, accepted <- v6

(* None is no number and nothing of the library, and the requests can be    *)
(* counted.                                                                 *)
ASSUME StrmAssumption ==
    /\ None \notin Nat \cup Sizes \cup Contents \cup Strm!Views \cup {"list", "narrow", "stat"}
    /\ None \notin [invalidated : BOOLEAN, restricted : BOOLEAN, allowed : BOOLEAN]
    /\ IsFiniteSet(Ops) /\ MaxChanges \in Nat
(* None is no piece and no flight, the readers can be counted, and a piece   *)
(* is tried at least once.                                                   *)
ASSUME FetchAssumption ==
    /\ None \notin Pieces \cup Flights
    /\ IsFiniteSet(Readers) /\ Attempts \in Nat \ {0}
(* Times are numbers, tokens are no times and no stages of a login, and None *)
(* is nobody and nothing of these.                                           *)
ASSUME AuthAssumption ==
    /\ TTL \in Nat /\ MaxTime \in Nat /\ None \notin Nat
    /\ None \notin Tokens /\ Tokens \cap {"idle", "comparing", "ended"} = {}

StreamInit ==
    \/ component = "strm" /\ Strm!Init /\ None6
    \/ component = "fetch" /\ Fetch!Init /\ None7
    \/ component = "auth" /\ Auth!Init /\ None6

StreamNext ==
    \/ component = "strm" /\ Strm!Next /\ UNCHANGED <<component, rest6>>
    \/ component = "fetch" /\ Fetch!Next /\ UNCHANGED <<component, rest7>>
    \/ component = "auth" /\ Auth!Next /\ UNCHANGED <<component, rest6>>

-----------------------------------------------------------------------------
(* The records of each part are well formed: the TypeOK of each module. *)
StreamTypeOK ==
    /\ component = "strm" => Strm!TypeOK
    /\ component = "fetch" => Fetch!TypeOK
    /\ component = "auth" => Auth!TypeOK

(* No read of the link files leaves a placeholder behind, and a projection   *)
(* that is kept shows the known sizes: StrmCache!PlaceholdersOwned,          *)
(* StrmCache!ProjectionFresh.                                                *)
LinksFresh == component = "strm" => Strm!PlaceholdersOwned /\ Strm!ProjectionFresh

(* Giving up one read of a piece leaves the others alone, a piece has one    *)
(* reader at a time, and nothing comes back after the close of a torrent:    *)
(* Fetcher!OthersUndisturbed, Fetcher!OneReaderPerPiece,                     *)
(* Fetcher!ClosedStaysEmpty.                                                 *)
FlightsShared ==
    component = "fetch" => Fetch!OthersUndisturbed /\ Fetch!OneReaderPerPiece /\ Fetch!ClosedStaysEmpty

(* No token survives the close of the service, none belongs to two logins,   *)
(* and an idle one expires: AuthService!ClosedForgets,                       *)
(* AuthService!TokensUnshared, AuthService!IdleExpires.                      *)
TokensOwned ==
    component = "auth" => Auth!ClosedForgets /\ Auth!TokensUnshared /\ Auth!IdleExpires

(* No late answer of the library undoes a newer one: StrmCache!NoStalePublication. *)
NoStalePublication == [][component = "strm" => Strm!ActsOnNewer]_vars

-----------------------------------------------------------------------------
(* Why: the inductive invariant of the part that was chosen. *)
StreamInductive ==
    /\ component = "strm" => Strm!Inductive
    /\ component = "fetch" => Fetch!Inductive
    /\ component = "auth" => Auth!Inductive

=============================================================================
