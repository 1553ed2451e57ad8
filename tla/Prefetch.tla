------------------------------ MODULE Prefetch ------------------------------
(* The prefetch coordinator of one torrent (internal/session/prefetch.go),   *)
(* the reads that steer it (raFile.ReadAtContext) and the shared handles of  *)
(* the files it serves (file.go, torrents.go).                               *)
(*                                                                           *)
(* Reads are goroutines that may interleave between any two critical         *)
(* sections of the coordinator's mutex; the coordinator's own goroutine runs *)
(* reconcile when it is signalled.  The coordinators of other torrents are   *)
(* an environment that takes and returns units of the shared budget and of   *)
(* the pin room of the cache, without signalling this one.                   *)
(*                                                                           *)
(* A generation number, and the number of a seek candidate, are only ever    *)
(* compared for equality with the coordinator's own, so a ticket records     *)
(* whether they are equal: "current" and "candidate".  Byte spans are sets   *)
(* of offsets.  A read waits for one piece at a time, so the pieces it has   *)
(* active are none or one.                                                   *)
EXTENDS Integers, FiniteSets, FiniteSetsExt

CONSTANTS
    Readers,            \* opens of the files of the torrent, one read at a time each
    Files,
    FileStart, FileSize,\* their place in the torrent
    PieceLength, TorrentSize,
    Lengths,            \* lengths of the reads
    High, Low,          \* defaultPlaybackWindow, defaultPrefetchLow
    Locality,           \* defaultSeekCandidateLocality
    SeekClear,          \* defaultSeekClearThreshold
    Limit,              \* prefetchBudget.limit
    PinRoom,            \* pieces the cache lets callers pin
    None

(* The files lie within the torrent.                                         *)
ASSUME PrefetchAssumption ==
    /\ IsFiniteSet(Readers)
    /\ PieceLength \in Nat \ {0} /\ TorrentSize \in Nat
    /\ FileStart \in [Files -> Nat] /\ FileSize \in [Files -> Nat]
    /\ \A f \in Files : FileStart[f] + FileSize[f] <= TorrentSize
    /\ Lengths \subseteq Nat
    /\ {High, Low, Locality, SeekClear, Limit, PinRoom} \subseteq Nat

ASSUME NoneAssumption ==
    /\ None \notin Files
    /\ \A f \in Files : \A n \in 0 .. FileSize[f] : None # [file |-> f, cursor |-> n]

VARIABLES
    anchor, confirmed,  \* anchor (hasAnchor, anchorConfirmed)
    consumed,           \* offsets read ahead of the cursor
    candidate,
    ticket,             \* the ticket of each read
    refs, windowPins,
    leases,             \* active
    foregroundPieces,
    state,
    used, otherUsed,    \* prefetchBudget.used, and what others have of it
    otherPins,          \* pieces pinned by others
    cached,             \* resident pieces
    wake,               \* a signal or a piece state change is pending
    pc, handles,        \* the reads, and the open handles of each file
    cancelled, closed   \* ctx is done; cleanup has run

coordVars == <<anchor, confirmed, consumed, candidate, ticket, refs, windowPins, leases,
               foregroundPieces, state, used>>
envVars == <<otherUsed, otherPins, cached>>
vars == <<anchor, confirmed, consumed, candidate, ticket, refs, windowPins, leases,
          foregroundPieces, state, used, otherUsed, otherPins, cached, wake, pc, handles,
          cancelled, closed>>

Pieces == 0 .. (TorrentSize - 1) \div PieceLength

NoTicket == [listed |-> FALSE, live |-> TRUE, current |-> FALSE, candidate |-> FALSE, file |-> None,
             kind |-> "only", range |-> {}, todo |-> {}, pinned |-> {}, active |-> {}, read |-> {}]

Init ==
    /\ anchor = None /\ confirmed = FALSE /\ consumed = {} /\ candidate = None
    /\ ticket = [r \in Readers |-> NoTicket]
    /\ refs = [p \in Pieces |-> 0] /\ windowPins = {} /\ leases = {}
    /\ foregroundPieces = [p \in Pieces |-> 0]
    /\ state = "idle" /\ used = 0 /\ otherUsed = 0 /\ otherPins = 0
    /\ cached = {} /\ wake = TRUE
    /\ pc = [r \in Readers |-> "closed"] /\ handles = [f \in Files |-> 0]
    /\ cancelled = FALSE /\ closed = FALSE

-----------------------------------------------------------------------------
(* Arithmetic of the window *)

Min2(a, b) == IF a < b THEN a ELSE b
Max2(a, b) == IF a > b THEN a ELSE b
Abs(n) == IF n < 0 THEN -n ELSE n

ClampCursor(n, size) == Max2(0, Min2(n, size))

(* playbackWindowEnd *)
WindowEnd(start, size) == Min2(start + High, size)

PieceOf(f, off) == (FileStart[f] + off) \div PieceLength

(* those of the offsets of file f that one of the pieces holds *)
Within(f, offsets, pieces) == {o \in offsets : PieceOf(f, o) \in pieces}

(* faulty: a read beyond the end is planned all the same *)
HasSpansPastEnd(f, off) == off <= FileSize[f] + 1

(* cache.Plan of a read: whether there is anything to serve (if not, the     *)
(* read ends with EOF), the offsets it serves and the pieces they are in     *)
HasSpans(f, off) == off < FileSize[f]

ReadRange(f, off, len) == off .. Min2(off + len, FileSize[f]) - 1

PlanWanted(f, off, len) == {PieceOf(f, o) : o \in ReadRange(f, off, len)}

(* desiredPiecesLocked *)
Window == anchor.cursor .. WindowEnd(anchor.cursor, FileSize[anchor.file]) - 1

DesiredPieces == IF anchor = None THEN {} ELSE {PieceOf(anchor.file, o) : o \in Window}

(* updateBufferedLocked: the resident run that begins at the cursor *)
BufferedBytes ==
    LET missing == Window \ Within(anchor.file, Window, cached)
    IN  IF missing = {} THEN Cardinality(Window) ELSE Min(missing) - anchor.cursor

-----------------------------------------------------------------------------
(* Reference counts of pins (retainLocked, releaseLocked) and leases *)

Pinned(counts) == {p \in Pieces : counts[p] > 0}

Retained(counts, pieces) == [p \in Pieces |-> IF p \in pieces THEN counts[p] + 1 ELSE counts[p]]

Released(counts, pieces) == [p \in Pieces |-> IF p \in pieces THEN Max2(0, counts[p] - 1) ELSE counts[p]]

Room(counts) == PinRoom - otherPins - Cardinality(Pinned(counts))

(* those of the pieces a walk in ascending order pins before the room ends, *)
(* going on past a piece it cannot pin                                      *)
Granted(counts, pieces) ==
    {p \in pieces : counts[p] > 0 \/
       Cardinality({q \in pieces : q <= p /\ counts[q] = 0}) <= Room(counts)}

Listed == {r \in Readers : ticket[r].listed}

(* removeForegroundLocked, for the tickets of the reads in rs: from now on    *)
(* only their being cancelled counts                                        *)
RemoveForeground(rs, tickets) ==
    [r \in Readers |-> IF r \in rs
       THEN [NoTicket EXCEPT !.live = FALSE, !.file = tickets[r].file, !.todo = tickets[r].todo]
       ELSE tickets[r]]

(* faulty: the pins of a removed ticket are not released *)
RefsWithoutNone(counts, rs) == counts

RefsWithout(counts, rs) ==
    [p \in Pieces |-> counts[p] - Cardinality({r \in rs : p \in ticket[r].pinned})]

ForegroundWithout(rs) ==
    [p \in Pieces |-> foregroundPieces[p] - Cardinality({r \in rs : p \in ticket[r].active})]

(* a new generation: the tickets handed out so far are of an older one *)
Aged(tickets) == [r \in Readers |-> [tickets[r] EXCEPT !.current = FALSE]]

-----------------------------------------------------------------------------
(* What the critical sections do to the anchor and the window: each is a     *)
(* function on this part of the coordinator                                  *)

Core == [anchor |-> anchor, confirmed |-> confirmed, consumed |-> consumed, candidate |-> candidate,
         pins |-> windowPins, leases |-> leases, state |-> state]

(* faulty: the leases of the old window are forgotten, not returned *)
UnwoundKeepingLeases(c) == [c EXCEPT !.pins = {}, !.state = "idle"]

(* the window's leases are cancelled and its pins released *)
Unwound(c) == [c EXCEPT !.pins = {}, !.leases = {}, !.state = "idle"]

(* the end of dropUnconfirmedAnchorLocked, and of releaseFile *)
WithoutAnchor(c) ==
    [Unwound(c) EXCEPT !.anchor = None, !.confirmed = FALSE, !.consumed = {}, !.candidate = None]

(* advanceAnchorLocked *)
Advanced(c) ==
    LET size == FileSize[c.anchor.file]
        cursor == Min({o \in c.anchor.cursor .. size : o \notin c.consumed})
        far == c.candidate # None /\ Abs(cursor - c.candidate.start) > SeekClear
    IN  [c EXCEPT !.anchor.cursor = cursor,
                  !.consumed = {o \in c.consumed : o > cursor},
                  !.candidate = IF far THEN None ELSE @]

(* recordConsumedLocked *)
WithConsumed(c, offsets) ==
    LET next == Advanced([c EXCEPT !.consumed = @ \cup offsets])
    IN  [next EXCEPT !.confirmed = @ \/ next.anchor.cursor > c.anchor.cursor]

(* recordCandidateLocked: a read counts if it adds offsets to the candidate *)
CountsForCandidate(t) == candidate # None /\ t.candidate /\ t.read \ candidate.read # {}

WithCandidateRead(c, t) ==
    [c EXCEPT !.candidate.reads = @ + 1, !.candidate.read = @ \cup t.read]

(* faulty: the first read elsewhere moves the window *)
SingleConfirmationRead == 1

SeekConfirmationReads == 2

(* confirmCandidateLocked *)
WithSeekConfirmed(c) ==
    Advanced([Unwound(c) EXCEPT
        !.anchor = [file |-> c.candidate.file, cursor |-> c.candidate.start],
        !.confirmed = TRUE, !.consumed = c.candidate.read, !.candidate = None])

(* the core becomes c; counts are the references without the window's *)
Becomes(c, counts) ==
    /\ anchor' = c.anchor /\ confirmed' = c.confirmed /\ consumed' = c.consumed
    /\ candidate' = c.candidate /\ windowPins' = c.pins /\ leases' = c.leases /\ state' = c.state
    /\ refs' = Released(counts, windowPins \ c.pins)
    /\ used' = used - Cardinality(leases \ c.leases)

-----------------------------------------------------------------------------
(* faulty: the coordinator is not signalled *)
SignalLost == UNCHANGED wake

(* signal *)
Signal == wake' = TRUE

(* Opening a file (readerFor, acquireHandle): the reader state is shared by  *)
(* every open of the file                                                    *)
Open(r, f) ==
    /\ pc[r] = "closed" /\ ~cancelled
    /\ pc' = [pc EXCEPT ![r] = "open"]
    /\ handles' = [handles EXCEPT ![f] = @ + 1]
    /\ ticket' = [ticket EXCEPT ![r] = [NoTicket EXCEPT !.file = f]]
    /\ UNCHANGED <<anchor, confirmed, consumed, candidate, refs, windowPins, leases,
                   foregroundPieces, state, used, envVars, wake, cancelled, closed>>

(* currentWindowRequestLocked, candidateMatchesLocked *)
InCurrentWindow(f, off) ==
    /\ anchor # None
    /\ anchor.file = f
    /\ off >= anchor.cursor - Locality /\ off < WindowEnd(anchor.cursor, FileSize[f])

MatchesCandidate(f, off) ==
    candidate # None /\ candidate.file = f /\ Abs(off - candidate.start) <= Locality

(* the anchor and the candidate after a read at off of f was classified *)
Classified(f, off) ==
    IF anchor = None
    THEN [Core EXCEPT !.anchor = [file |-> f, cursor |-> off],
                      !.confirmed = FALSE, !.consumed = {}, !.candidate = None]
    ELSE IF InCurrentWindow(f, off) \/ MatchesCandidate(f, off) THEN Core
    ELSE [Core EXCEPT !.candidate = [file |-> f, start |-> off, read |-> {}, reads |-> 0]]

(* beginForeground: the read pins what it can of its pieces and takes over  *)
(* their leases.  (After cleanup it returns nil and the read goes on alone.) *)
BeginForeground(r, off, len) ==
    LET f == ticket[r].file
        wanted == PlanWanted(f, off, len)
        granted == Granted(refs, wanted)
        c == Classified(f, off)
        window == anchor = None \/ InCurrentWindow(f, off)
    IN  /\ pc[r] = "open" /\ HasSpans(f, off) /\ ~closed
        /\ pc' = [pc EXCEPT ![r] = "reading"]
        /\ ticket' = [(IF anchor = None THEN Aged(ticket)
                       ELSE IF c.candidate # candidate
                       THEN [q \in Readers |-> [ticket[q] EXCEPT !.candidate = FALSE]] ELSE ticket)
             EXCEPT ![r] = [listed |-> TRUE, live |-> TRUE, current |-> TRUE, candidate |-> ~window,
                            file |-> f, kind |-> IF window THEN "window" ELSE "only",
                            range |-> ReadRange(f, off, len), todo |-> wanted, pinned |-> granted, active |-> {}, read |-> {}]]
        /\ Becomes([c EXCEPT !.leases = @ \ wanted], Retained(refs, granted))
        /\ Signal
        /\ UNCHANGED <<foregroundPieces, envVars, handles, cancelled, closed>>

(* One piece of the read after the other (ReadAtContext).  A resident piece  *)
(* (if it is evicted before span looks again, it is fetched all the same, or *)
(* not),                                                                     *)
Hit(r, ok) ==
    LET p == Min(ticket[r].todo)
    IN  /\ pc[r] = "reading" /\ ticket[r].live /\ ticket[r].todo # {}
        /\ p \in cached
        /\ pc' = [pc EXCEPT ![r] = IF ok THEN "reading" ELSE "failed"]
        /\ ticket' = [ticket EXCEPT ![r].todo = @ \ {p},
             ![r].read = @ \cup Within(ticket[r].file, ticket[r].range, {p})]
        /\ UNCHANGED <<anchor, confirmed, consumed, candidate, refs, windowPins, leases, handles,
                       foregroundPieces, state, used, envVars, wake, cancelled, closed>>

(* a missing one (startPiece, finishPiece), *)
StartPiece(r) ==
    LET p == Min(ticket[r].todo)
    IN  /\ pc[r] = "reading" /\ ticket[r].live /\ ticket[r].todo # {}
        /\ p \notin cached
        /\ pc' = [pc EXCEPT ![r] = "fetching"]
        /\ ticket' = [ticket EXCEPT ![r].active = {p}]
        /\ foregroundPieces' = [foregroundPieces EXCEPT ![p] = @ + 1]
        /\ leases' = leases \ {p}
        /\ used' = used - Cardinality(leases \cap {p})
        /\ Signal
        /\ UNCHANGED <<anchor, confirmed, consumed, candidate, refs, windowPins, state,
                       envVars, handles, cancelled, closed>>

FinishPiece(r, ok) ==
    LET t == ticket[r]
        p == Min(t.todo)
    IN  /\ pc[r] = "fetching"
        /\ pc' = [pc EXCEPT ![r] = IF ok THEN "reading" ELSE "failed"]
        /\ foregroundPieces' = [q \in Pieces |-> foregroundPieces[q] - (IF q \in t.active THEN 1 ELSE 0)]
        /\ ticket' = [ticket EXCEPT ![r].active = {},
             ![r].todo = IF ok THEN @ \ {p} ELSE @,
             ![r].read = IF ok THEN @ \cup Within(t.file, t.range, {p}) ELSE @]
        /\ cached' = IF ok THEN cached \cup {p} ELSE cached
        /\ Signal
        /\ UNCHANGED <<anchor, confirmed, consumed, candidate, refs, windowPins, leases, state,
                       used, otherUsed, otherPins, handles, cancelled, closed>>

(* or the end of the read's context *)
StaleSpan(r) ==
    /\ pc[r] = "reading" /\ ~ticket[r].live /\ ticket[r].todo # {}
    /\ pc' = [pc EXCEPT ![r] = "failed"]
    /\ UNCHANGED <<coordVars, envVars, wake, handles, cancelled, closed>>

-----------------------------------------------------------------------------
(* finishForeground.  What the read did counts if it succeeded and the       *)
(* coordinator is still of its generation.                                   *)
Succeeded(r) == pc[r] = "reading" /\ ticket[r].read # {} /\ ticket[r].current /\ anchor # None

Confirms(r) ==
    /\ Succeeded(r) /\ ticket[r].kind = "only" /\ CountsForCandidate(ticket[r])
    /\ candidate.reads + 1 >= SeekConfirmationReads

Counted(r) ==
    LET t == ticket[r]
    IN  IF ~Succeeded(r) THEN Core
        ELSE IF t.kind = "window"
        THEN IF anchor.file = t.file THEN WithConsumed(Core, t.read) ELSE Core
        ELSE IF Confirms(r) THEN WithSeekConfirmed(WithCandidateRead(Core, t))
        ELSE IF CountsForCandidate(t) THEN WithCandidateRead(Core, t) ELSE Core

(* faulty: an anchor nobody confirmed outlives the read that set it *)
SettledKeepingAnchor(r, c) == c

(* dropUnconfirmedAnchorLocked, unless another read of the window is left *)
Settled(r, c) ==
    IF /\ ticket[r].kind = "window" /\ ~c.confirmed
       /\ ~\E q \in Listed \ {r} : ticket[q].current /\ ticket[q].kind = "window"
    THEN WithoutAnchor(c) ELSE c

FinishForeground(r) ==
    LET tickets == RemoveForeground({r}, ticket)
        aged == IF Confirms(r) THEN Aged(tickets) ELSE tickets
    IN  /\ pc[r] = "failed" \/ (pc[r] = "reading" /\ ticket[r].todo = {})
        /\ pc' = [pc EXCEPT ![r] = "open"]
        /\ IF r \in Listed
           THEN /\ Becomes(Settled(r, Counted(r)), RefsWithout(refs, {r}))
                /\ foregroundPieces' = ForegroundWithout({r})
           ELSE UNCHANGED <<anchor, confirmed, consumed, candidate, refs, windowPins, leases,
                            foregroundPieces, state, used>>
        /\ ticket' = [(IF r \in Listed THEN aged ELSE ticket)
                        EXCEPT ![r] = [NoTicket EXCEPT !.file = ticket[r].file]]
        /\ Signal
        /\ UNCHANGED <<envVars, handles, cancelled, closed>>

-----------------------------------------------------------------------------
(* faulty: the last handle does not notice that it is *)
NeverLastHandle(f) == handles[f] = 0

LastHandle(f) == handles[f] = 1

(* Closing an open file (releaseHandle): the last handle goes on, after the  *)
(* file's lock is released, to give up the window                            *)
ReleaseHandle(r) ==
    LET f == ticket[r].file
    IN  /\ pc[r] = "open"
        /\ handles' = [handles EXCEPT ![f] = @ - 1]
        /\ pc' = [pc EXCEPT ![r] = IF LastHandle(f) THEN "releasing" ELSE "closed"]
        /\ UNCHANGED <<coordVars, envVars, wake, cancelled, closed>>

(* releaseFile: every ticket of the file is cancelled, and its window ends.  *)
(* (After cleanup there is none left.)                                       *)
ReleaseFile(r) ==
    LET f == ticket[r].file
        rs == {q \in Listed : ticket[q].file = f}
        tickets == RemoveForeground(rs, ticket)
        ours == anchor # None /\ anchor.file = f
        c == IF candidate # None /\ candidate.file = f THEN [Core EXCEPT !.candidate = None] ELSE Core
    IN  /\ pc[r] = "releasing"
        /\ pc' = [pc EXCEPT ![r] = "closed"]
        /\ ticket' = [(IF ours THEN Aged(tickets) ELSE tickets) EXCEPT ![r] = NoTicket]
        /\ Becomes(IF ours THEN WithoutAnchor(c) ELSE c, RefsWithout(refs, rs))
        /\ foregroundPieces' = ForegroundWithout(rs)
        /\ Signal
        /\ UNCHANGED <<envVars, handles, cancelled, closed>>

-----------------------------------------------------------------------------
(* reconcile.  The pins and leases of pieces outside the window go, then the *)
(* window is pinned from its front until the room ends (at BlockedAt).       *)
KeptPins == windowPins \cap DesiredPieces

KeptLeases == {p \in leases : p \in DesiredPieces /\ foregroundPieces[p] = 0}

KeptRefs == Released(refs, windowPins \ KeptPins)

Unpinnable == (DesiredPieces \ KeptPins) \ Granted(KeptRefs, DesiredPieces \ KeptPins)

Admitted(unpinnable) == {p \in DesiredPieces : \A q \in unpinnable : p < q}

(* computeWatermarksLocked *)
EffectiveHigh(unpinnable) == Cardinality(Within(anchor.file, Window, Admitted(unpinnable)))

EffectiveLow(unpinnable) == Min2(Low, EffectiveHigh(unpinnable) \div 2)

MissingPieces == DesiredPieces \ cached

WindowFull(unpinnable) ==
    MissingPieces = {} \/ BufferedBytes >= EffectiveHigh(unpinnable)

(* the pieces of the window a lease could be taken on *)
Fetchable(held) == {p \in MissingPieces \ held : foregroundPieces[p] = 0}

FirstOf(n, pieces) == {p \in pieces : Cardinality({q \in pieces : q < p}) < n}

(* faulty: the leases are counted against the limit, but not the budget *)
LeasedBeyondBudget(held) == FirstOf(Limit - Cardinality(held), Fetchable(held))

(* the leases the filling loop adds to those held *)
Leased(held) ==
    LET free == Limit - (used - Cardinality(leases \ held))
    IN  FirstOf(Min2(free, Limit - Cardinality(held)), Fetchable(held))

BudgetExhausted(held) ==
    /\ Fetchable(held) # Leased(held)
    /\ Cardinality(held) + Cardinality(Leased(held)) < Limit

Reconcile ==
    /\ wake /\ ~closed
    /\ wake' = FALSE
    /\ IF anchor = None THEN UNCHANGED coordVars
       ELSE LET unpinnable == Unpinnable
                admitted == Admitted(unpinnable)
                full == WindowFull(unpinnable)
                held == KeptLeases
                added == IF full \/ unpinnable # {} THEN {} ELSE Leased(held)
                now == IF ~full /\ unpinnable # {} THEN held ELSE (held \cup added) \ cached
            IN  /\ windowPins' = KeptPins \cup admitted
                /\ refs' = Retained(KeptRefs, admitted \ KeptPins)
                /\ leases' = now
                /\ used' = used - Cardinality(leases) + Cardinality(now)
                /\ state' = IF full THEN "paused"
                            ELSE IF unpinnable # {} \/ BudgetExhausted(held) THEN "budget-blocked"
                            ELSE "filling"
                /\ UNCHANGED <<anchor, confirmed, consumed, candidate, ticket, foregroundPieces>>
    /\ UNCHANGED <<envVars, pc, handles, cancelled, closed>>

(* Torrent.close cancels the coordinator's context; run then ends in cleanup *)
Cancel ==
    /\ ~cancelled
    /\ cancelled' = TRUE
    /\ UNCHANGED <<coordVars, envVars, wake, pc, handles, closed>>

Cleanup ==
    /\ cancelled /\ ~closed
    /\ closed' = TRUE
    /\ ticket' = RemoveForeground(Listed, ticket)
    /\ Becomes([WithoutAnchor(Core) EXCEPT !.state = state], RefsWithout(refs, Listed))
    /\ foregroundPieces' = [p \in Pieces |-> 0]
    /\ UNCHANGED <<envVars, wake, pc, handles, cancelled>>

-----------------------------------------------------------------------------
(* The environment.  A download ends, and the client announces it; a piece   *)
(* found bad is removed, and announced; the cache evicts what is not pinned; *)
Arrive(p) ==
    /\ p \in leases \ cached
    /\ cached' = cached \cup {p}
    /\ wake' = TRUE
    /\ UNCHANGED <<coordVars, otherUsed, otherPins, pc, handles, cancelled, closed>>

MarkNotComplete(p) ==
    /\ p \in cached
    /\ cached' = cached \ {p}
    /\ wake' = TRUE
    /\ UNCHANGED <<coordVars, otherUsed, otherPins, pc, handles, cancelled, closed>>

Evict(p) ==
    /\ p \in cached /\ refs[p] = 0
    /\ cached' = cached \ {p}
    /\ UNCHANGED <<coordVars, otherUsed, otherPins, wake, pc, handles, cancelled, closed>>

(* other torrents take and return units of the budget (tryAcquire, release)  *)
(* and pin room                                                              *)
OtherBudget(n) ==
    /\ otherUsed' = otherUsed + n /\ used' = used + n
    /\ otherUsed' >= 0 /\ used' <= Limit
    /\ UNCHANGED <<anchor, confirmed, consumed, candidate, ticket, refs, windowPins, leases,
                   foregroundPieces, state, otherPins, cached, wake, pc, handles, cancelled, closed>>

OtherPin(n) ==
    /\ otherPins' = otherPins + n
    /\ otherPins' >= 0 /\ otherPins' + Cardinality(Pinned(refs)) <= PinRoom
    /\ UNCHANGED <<coordVars, otherUsed, cached, wake, pc, handles, cancelled, closed>>

-----------------------------------------------------------------------------
ReadStep(r) ==
    \/ StartPiece(r) \/ StaleSpan(r) \/ FinishForeground(r)
    \/ ReleaseHandle(r) \/ ReleaseFile(r)
    \/ \E ok \in BOOLEAN : Hit(r, ok) \/ FinishPiece(r, ok)
    \/ \E f \in Files : Open(r, f)
    \/ \E off \in 0 .. TorrentSize - 1, len \in Lengths : BeginForeground(r, off, len)

Next ==
    \/ \E r \in Readers : ReadStep(r)
    \/ Reconcile \/ Cancel \/ Cleanup
    \/ \E p \in Pieces : Arrive(p) \/ MarkNotComplete(p) \/ Evict(p)
    \/ \E n \in {-1, 1} : OtherBudget(n) \/ OtherPin(n)

Spec == Init /\ [][Next]_vars

-----------------------------------------------------------------------------
(* Correctness *)

TypeOK ==
    /\ anchor = None \/ (anchor.file \in Files /\ anchor.cursor \in 0 .. FileSize[anchor.file])
    /\ candidate = None \/ (candidate.file \in Files /\ candidate.reads < SeekConfirmationReads)
    /\ windowPins \subseteq Pieces /\ leases \subseteq Pieces /\ cached \subseteq Pieces
    /\ state \in {"idle", "filling", "paused", "budget-blocked"}
    /\ used \in Nat /\ otherUsed \in 0 .. Limit
    /\ \A r \in Readers : pc[r] \in {"closed", "open", "reading", "fetching", "failed", "releasing"}

(* Pins and foreground marks are reference counted exactly: a piece is       *)
(* pinned as often as tickets and the window hold it, so that no order of    *)
(* reads, seeks, closed handles and reconciliations leaks a pin (which would *)
(* shrink the cache for good) or drops one that is still in use.             *)
ReferencesExact ==
    \A p \in Pieces :
        /\ refs[p] = Cardinality({r \in Listed : p \in ticket[r].pinned})
                       + (IF p \in windowPins THEN 1 ELSE 0)
        /\ foregroundPieces[p] = Cardinality({r \in Listed : p \in ticket[r].active})

(* Every unit of the session-wide budget this torrent holds is one of its    *)
(* leases, and the budget is never overdrawn, whatever the other torrents    *)
(* take and return meanwhile (tryAcquire, cancelLeaseLocked,                 *)
(* completeActiveLocked).                                                    *)
BudgetExact == used = Cardinality(leases) + otherUsed /\ used <= Limit

(* "prefetch can never outrank the playback read"                            *)
(* (TestPrefetchForegroundOutranksBackgroundLease): a piece a read waits for *)
(* has no background lease, and every leased piece is pinned, so that it     *)
(* cannot be evicted before it is read.                                      *)
LeasesYieldAndArePinned ==
    \A p \in leases : foregroundPieces[p] = 0 /\ p \in windowPins

(* Whatever is pinned, leased or taken from the budget is accounted for: the *)
(* three of the above.                                                       *)
AccountsExact == ReferencesExact /\ BudgetExact /\ LeasesYieldAndArePinned

(* An anchor no read has confirmed belongs to a read that is still running:  *)
(* no sequence of failed reads, seeks and closes leaves a window behind that *)
(* nobody is playing (dropUnconfirmedAnchorLocked).                          *)
UnconfirmedIsRead ==
    anchor # None /\ ~confirmed =>
        \E r \in Listed : ticket[r].current /\ ticket[r].kind = "window" /\ ticket[r].file = anchor.file

(* "Once the last handle closes, the shared forward window is released"      *)
(* (readerFor), with every pin and lease, in whatever order the opens and    *)
(* closes of the files' handles interleave.                                  *)
ClosedFilesHoldNothing ==
    (\A r \in Readers : pc[r] = "closed") =>
        anchor = None /\ windowPins = {} /\ leases = {} /\ \A p \in Pieces : refs[p] = 0

(* Nothing is held for nobody: both of the above. *)
HeldForReaders == UnconfirmedIsRead /\ ClosedFilesHoldNothing

(* No wake-up is lost: whenever the coordinator sleeps, it pins nothing      *)
(* outside the window as the reads have moved it, all of the window if it is *)
(* filling it, and no resident piece keeps a unit of the budget unless it    *)
(* said it was blocked (signal, reconcile).                                  *)
SleepsInStep ==
    anchor # None /\ ~wake =>
        /\ windowPins \subseteq DesiredPieces
        /\ state = "filling" => windowPins = DesiredPieces
        /\ state # "budget-blocked" => leases \cap cached = {}

(* The window jumps to another place only for a second successful read       *)
(* there: a single read elsewhere (a player probing the end of the file)     *)
(* does not move it (recordCandidateLocked, defaultSeekConfirmationReads).   *)
SeekNeedsTwoReads ==
    [][anchor # None /\ anchor' # None
         /\ (anchor'.file # anchor.file \/ anchor'.cursor < anchor.cursor)
         => candidate # None /\ candidate.reads = 1 /\ candidate.file = anchor'.file]_vars

(* The handle of an open file can be dropped "without disturbing other       *)
(* opens" (readerFor): a read through an open handle is not cancelled as     *)
(* long as the torrent is open.                                              *)
OtherOpensUndisturbed ==
    \A r \in Readers : pc[r] \in {"reading", "fetching"} => ticket[r].live \/ closed

(* "the hysteresis: a window that was full enough to pause resumes filling   *)
(* once the buffer falls to the low watermark"                               *)
(* (TestPrefetchRefillsAfterTheWindowDrains).                                *)
ResumesAtLowWatermark ==
    [][anchor # None /\ state = "paused" /\ leases' \ leases # {} => BufferedBytes <= EffectiveLow(Unpinnable)]_vars

=============================================================================
