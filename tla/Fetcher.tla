------------------------------- MODULE Fetcher -------------------------------
(* How the reads of one torrent share its piece fetcher                      *)
(* (internal/session/file.go: raFile.piece, readPiece and pieceFetcher) and  *)
(* how Torrent.close (torrents.go) takes the whole read path down.           *)
(*                                                                           *)
(* One flight downloads one missing piece for every read that waits for it.  *)
(* A flight is a goroutine: it outlives the reads that gave up on it.  Its   *)
(* record is garbage once it has ended and no read holds it (Collect), so a  *)
(* few flight identities stand for any number.                               *)
(*                                                                           *)
(* The torrent client's Reader is external: a flight's read ends well, short *)
(* (EOF), with an error, or with the cancellation of its context.  The piece *)
(* cache is the lossy set of pieces PieceCache implements.                   *)
EXTENDS Integers, FiniteSets

CONSTANTS
    Readers,        \* concurrent reads of open files of the torrent
    Pieces,
    Flights,        \* identities of download goroutines
    Attempts,       \* readPiece: attempts
    None

VARIABLES
    read,           \* what each read is doing
    flight,         \* the pieceFlight of each identity
    inflight,       \* pieceFetcher.inflight
    closed,         \* pieceFetcher.closed
    fileClosed,     \* raFile.closed
    closer,         \* Torrent.close
    cached          \* the pieces resident in the cache

vars == <<read, flight, inflight, closed, fileClosed, closer, cached>>

Idle == [pc |-> "idle", piece |-> None, flight |-> None, attempt |-> 0, live |-> TRUE]

NoFlight == [pc |-> "none", piece |-> None, waiters |-> 0, cancelled |-> FALSE, err |-> "none"]

Init ==
    /\ read = [r \in Readers |-> Idle]
    /\ flight = [f \in Flights |-> NoFlight]
    /\ inflight = [p \in Pieces |-> None]
    /\ closed = FALSE /\ fileClosed = FALSE
    /\ closer = "open"
    /\ cached = {}

-----------------------------------------------------------------------------
Waiting(f) == {r \in Readers : read[r].flight = f}

Vacant(f) == flight[f] = NoFlight

Collect(record) == IF record.pc = "done" /\ record.waiters = 0 THEN NoFlight ELSE record

To(r, pc) == read' = [read EXCEPT ![r].pc = pc]

Ends(r) == read' = [read EXCEPT ![r] = Idle]

(* openedFile.ReadAtContext: a read of piece p begins, with a deadline *)
ReadAt(r, p) ==
    /\ read[r].pc = "idle" /\ ~fileClosed
    /\ read' = [read EXCEPT ![r] = [Idle EXCEPT !.pc = "lookup", !.piece = p, !.attempt = 1]]
    /\ UNCHANGED <<flight, inflight, closed, fileClosed, closer, cached>>

(* the request's context ends: its caller went away or readTimeout passed *)
Expire(r) ==
    /\ read[r].pc # "idle" /\ read[r].live
    /\ read' = [read EXCEPT ![r].live = FALSE]
    /\ UNCHANGED <<flight, inflight, closed, fileClosed, closer, cached>>

(* span and piece: a resident piece needs no flight *)
Lookup(r) ==
    /\ read[r].pc = "lookup"
    /\ IF read[r].piece \in cached THEN Ends(r) ELSE To(r, "join")
    /\ UNCHANGED <<flight, inflight, closed, fileClosed, closer, cached>>

Joined(record) == [record EXCEPT !.waiters = @ + 1]

(* pieceFetcher.ReadAtContext up to its select, and joinFlight.  (Bound: a   *)
(* new flight takes a vacant identity.)                                      *)
JoinFlight(r, f) ==
    LET p == read[r].piece
    IN  /\ read[r].pc = "join" /\ read[r].live /\ ~closed
        /\ IF inflight[p] # None THEN f = inflight[p] ELSE Vacant(f)
        /\ inflight' = [inflight EXCEPT ![p] = f]
        /\ flight' = [flight EXCEPT ![f] =
             Joined(IF inflight[p] # None THEN @ ELSE [NoFlight EXCEPT !.pc = "reading", !.piece = p])]
        /\ read' = [read EXCEPT ![r].pc = "wait", ![r].flight = f]
        /\ UNCHANGED <<closed, fileClosed, closer, cached>>

JoinRefused(r) ==
    /\ read[r].pc = "join" /\ (closed \/ ~read[r].live)
    /\ Ends(r)
    /\ UNCHANGED <<flight, inflight, closed, fileClosed, closer, cached>>

(* faulty: the flight of a read that gives up is always cancelled *)
DetachFlightCancelling(f) ==
    LET abandoned == flight[f].pc # "done"
    IN  /\ flight' = [flight EXCEPT ![f] =
             Collect([@ EXCEPT !.waiters = @ - 1, !.cancelled = @ \/ abandoned])]
        /\ inflight' = [p \in Pieces |-> IF abandoned /\ inflight[p] = f THEN None ELSE inflight[p]]

(* detachFlight: the last read to leave a running flight cancels it *)
Abandoned(record) == record.waiters = 1 /\ record.pc # "done"

Left(record) ==
    Collect([record EXCEPT !.waiters = @ - 1, !.cancelled = @ \/ Abandoned(record)])

DetachFlight(f) ==
    /\ flight' = [flight EXCEPT ![f] = Left(@)]
    /\ inflight' = [p \in Pieces |-> IF Abandoned(flight[f]) /\ inflight[p] = f THEN None
                                     ELSE inflight[p]]

(* faulty: one attempt too many *)
AttemptsLeftOver(r) == read[r].attempt <= Attempts

AttemptsLeft(r) == read[r].attempt < Attempts

(* the select of ReadAtContext takes flight.done *)
Delivered(r) ==
    LET err == flight[read[r].flight].err
    IN  /\ read[r].pc = "wait" /\ flight[read[r].flight].pc = "done"
        /\ DetachFlight(read[r].flight)
        /\ \/ err = "ok" /\ read' = [read EXCEPT ![r].pc = "put", ![r].flight = None]
           \/ /\ err = "eof" /\ AttemptsLeft(r)
              /\ read' = [read EXCEPT ![r].pc = "retry", ![r].flight = None]
           \/ err \notin {"ok", "eof"} /\ Ends(r)
           \/ err = "eof" /\ ~AttemptsLeft(r) /\ Ends(r)
        /\ UNCHANGED <<closed, fileClosed, closer, cached>>

(* it takes requestCtx.Done *)
GiveUp(r) ==
    /\ read[r].pc = "wait" /\ ~read[r].live
    /\ DetachFlight(read[r].flight)
    /\ Ends(r)
    /\ UNCHANGED <<closed, fileClosed, closer, cached>>

(* readPiece waits and asks again, the piece having been evicted under its   *)
(* reader, or gives up                                                       *)
Retry(r) ==
    /\ read[r].pc = "retry"
    /\ \/ read' = [read EXCEPT ![r].pc = "join", ![r].attempt = @ + 1]
       \/ ~read[r].live /\ Ends(r)
    /\ UNCHANGED <<flight, inflight, closed, fileClosed, closer, cached>>

(* faulty: the piece is cached even after the file was closed *)
PutUnchecked(r) ==
    /\ read[r].pc = "put"
    /\ cached' = cached \cup {read[r].piece}
    /\ Ends(r)
    /\ UNCHANGED <<flight, inflight, closed, fileClosed, closer>>

(* the end of raFile.piece *)
Put(r) ==
    /\ read[r].pc = "put"
    /\ cached' = IF fileClosed THEN cached ELSE cached \cup {read[r].piece}
    /\ Ends(r)
    /\ UNCHANGED <<flight, inflight, closed, fileClosed, closer>>

-----------------------------------------------------------------------------
(* faulty: the Reader does not heed the context of the flight *)
FlightReadDeaf(f, err) ==
    /\ flight[f].pc = "reading" /\ err # "canceled"
    /\ flight' = [flight EXCEPT ![f].pc = "read", ![f].err = err]
    /\ cached' = IF err = "ok" THEN cached \cup {flight[f].piece} ELSE cached
    /\ UNCHANGED <<read, inflight, closed, fileClosed, closer>>

(* runFlight up to its lock: the Reader returns, and what it read is cached *)
FlightRead(f, err) ==
    /\ flight[f].pc = "reading"
    /\ err = "canceled" => flight[f].cancelled
    /\ flight' = [flight EXCEPT ![f].pc = "read", ![f].err = err]
    /\ cached' = IF err = "ok" THEN cached \cup {flight[f].piece} ELSE cached
    /\ UNCHANGED <<read, inflight, closed, fileClosed, closer>>

(* faulty: the piece is forgotten whichever flight it has now *)
FlightDoneForgetting(f) ==
    /\ flight[f].pc = "read"
    /\ flight' = [flight EXCEPT ![f] = Collect([@ EXCEPT !.pc = "done", !.cancelled = TRUE])]
    /\ inflight' = [inflight EXCEPT ![flight[f].piece] = None]
    /\ UNCHANGED <<read, closed, fileClosed, closer, cached>>

(* the locked end of runFlight *)
FlightDone(f) ==
    /\ flight[f].pc = "read"
    /\ flight' = [flight EXCEPT ![f] = Collect([@ EXCEPT !.pc = "done", !.cancelled = TRUE])]
    /\ inflight' = [p \in Pieces |-> IF inflight[p] = f THEN None ELSE inflight[p]]
    /\ UNCHANGED <<read, closed, fileClosed, closer, cached>>

(* the cache loses pieces, and the piece store adds those it verifies until  *)
(* Torrent.close has closed it                                               *)
Evict(p) ==
    /\ p \in cached
    /\ cached' = cached \ {p}
    /\ UNCHANGED <<read, flight, inflight, closed, fileClosed, closer>>

StorePut(p) ==
    /\ closer \notin {"invalidate", "closed"}
    /\ cached' = cached \cup {p}
    /\ UNCHANGED <<read, flight, inflight, closed, fileClosed, closer>>

-----------------------------------------------------------------------------
Running == {f \in Flights : flight[f].pc \in {"reading", "read"}}

(* Torrent.close: raFile.Close, *)
CloseFiles ==
    /\ closer = "open"
    /\ fileClosed' = TRUE /\ closer' = "fetcher"
    /\ UNCHANGED <<read, flight, inflight, closed, cached>>

(* pieceFetcher.Close, *)
CloseFetcher ==
    /\ closer = "fetcher"
    /\ closed' = TRUE /\ closer' = "flights"
    /\ flight' = [f \in Flights |-> IF f \in Running THEN [flight[f] EXCEPT !.cancelled = TRUE] ELSE flight[f]]
    /\ UNCHANGED <<read, inflight, fileClosed, cached>>

CloseWaits ==
    /\ closer = "flights" /\ Running = {}
    /\ closer' = "store"
    /\ UNCHANGED <<read, flight, inflight, closed, fileClosed, cached>>

(* PieceStore.CloseTorrent and Cache.InvalidateTorrent *)
CloseStore ==
    /\ closer = "store"
    /\ closer' = "invalidate"
    /\ UNCHANGED <<read, flight, inflight, closed, fileClosed, cached>>

Invalidate ==
    /\ closer = "invalidate"
    /\ closer' = "closed" /\ cached' = {}
    /\ UNCHANGED <<read, flight, inflight, closed, fileClosed>>

-----------------------------------------------------------------------------
ReadStep(r) ==
    Lookup(r) \/ JoinRefused(r) \/ Delivered(r) \/ GiveUp(r) \/ Retry(r) \/ Put(r)
      \/ \E f \in Flights : JoinFlight(r, f)

CloseStep == CloseFetcher \/ CloseWaits \/ CloseStore \/ Invalidate

Outcomes == {"ok", "eof", "failed", "canceled"}

Next ==
    \/ \E r \in Readers : ReadStep(r) \/ Expire(r) \/ \E p \in Pieces : ReadAt(r, p)
    \/ \E f \in Flights : FlightDone(f) \/ \E err \in Outcomes : FlightRead(f, err)
    \/ \E p \in Pieces : Evict(p) \/ StorePut(p)
    \/ CloseFiles \/ CloseStep

Spec == Init /\ [][Next]_vars

(* Fairness: goroutines run; a Reader whose context was cancelled returns;   *)
(* every read has a deadline (openedFile.readTimeout).  A download need not  *)
(* ever succeed.                                                             *)
Fairness ==
    /\ \A r \in Readers : WF_vars(ReadStep(r)) /\ WF_vars(Expire(r))
    /\ \A f \in Flights :
         WF_vars(FlightDone(f)) /\ WF_vars(FlightRead(f, "canceled"))
    /\ WF_vars(CloseStep)

-----------------------------------------------------------------------------
(* Correctness *)

Read == [pc : {"idle", "lookup", "join", "wait", "retry", "put"}, piece : Pieces \cup {None},
         flight : Flights \cup {None}, attempt : 0 .. Attempts, live : BOOLEAN]

Flight == [pc : {"none", "reading", "read", "done"}, piece : Pieces \cup {None},
           waiters : 0 .. Cardinality(Readers), cancelled : BOOLEAN, err : Outcomes \cup {"none"}]

TypeOK ==
    /\ read \in [Readers -> Read] /\ flight \in [Flights -> Flight]
    /\ inflight \in [Pieces -> Flights \cup {None}]
    /\ closed \in BOOLEAN /\ fileClosed \in BOOLEAN /\ cached \subseteq Pieces
    /\ closer \in {"open", "fetcher", "flights", "store", "invalidate", "closed"}

(* A read that gives up never takes another read's download with it: as long *)
(* as the torrent is open, the flight a read waits for has not been          *)
(* cancelled, whoever joined and left it before (joinFlight, detachFlight).  *)
OthersUndisturbed ==
    \A r \in Readers : read[r].pc = "wait" =>
        LET f == flight[read[r].flight]
        IN  f.piece = read[r].piece /\ (f.pc # "done" /\ f.cancelled => closed)

(* "pieceFetcher owns one Reader per missing Piece": whatever reads come and *)
(* go, at most one flight per piece is still meant to run, and a later read  *)
(* of the piece will join that one.                                          *)
OneReaderPerPiece ==
    ~closed => \A f \in Running : ~flight[f].cancelled =>
        inflight[flight[f].piece] = f /\ Waiting(f) # {}

(* Once Torrent.close has returned no flight runs, and nothing of the        *)
(* torrent comes back into the cache: neither a download that was cancelled  *)
(* too late nor a read that already had its data puts it there.              *)
ClosedStaysEmpty == closer = "closed" => Running = {} /\ cached = {}

(* what has to end: reads, and Torrent.close *)
Reading(r) == read[r].pc # "idle"
TorrentClosing == closer = "fetcher"
TorrentClosed == closer = "closed"

-----------------------------------------------------------------------------
(* Why: a flight counts the reads that wait for it, so that the one that     *)
(* leaves as the last knows it is; a piece's flight in the map runs and is   *)
(* not cancelled while the torrent is open; and the stages of the close      *)
(* leave nothing behind for the next.                                        *)
ReadSound(r) ==
    /\ read[r].flight # None <=> read[r].pc = "wait"
    /\ read[r].pc # "idle" => read[r].piece # None
    /\ read[r].pc = "retry" => AttemptsLeft(r)
    /\ read[r].pc = "wait" =>
         LET f == flight[read[r].flight]
         IN  f.pc # "none" /\ f.piece = read[r].piece /\ (f.pc # "done" /\ f.cancelled => closed)

FlightSound(f) ==
    /\ flight[f].waiters = Cardinality(Waiting(f))
    /\ flight[f].pc = "none" => Vacant(f)
    /\ f \in Running => flight[f].piece # None
    /\ f \in Running /\ ~flight[f].cancelled /\ ~closed =>
         inflight[flight[f].piece] = f /\ Waiting(f) # {}

InflightSound(p) ==
    inflight[p] # None =>
        LET f == flight[inflight[p]]
        IN  inflight[p] \in Running /\ f.piece = p /\ (f.cancelled => closed)

CloseSound ==
    /\ closer # "open" => fileClosed
    /\ closer \notin {"open", "fetcher"} => closed
    /\ closer \in {"store", "invalidate", "closed"} => Running = {}
    /\ closer = "closed" => cached = {}

Inductive ==
    /\ TypeOK /\ CloseSound
    /\ \A r \in Readers : ReadSound(r)
    /\ \A f \in Flights : FlightSound(f)
    /\ \A p \in Pieces : InflightSound(p)

=============================================================================
