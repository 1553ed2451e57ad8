---------------------------- MODULE PrefetchProofs ----------------------------
(***************************************************************************)
(* The accounts of the prefetch coordinator (Prefetch) are exact, what it    *)
(* holds it holds for a reader, it sleeps in step with the reads, and its     *)
(* window moves elsewhere only for a second read: for any files, any number  *)
(* of readers, any window and any budget.                                    *)
(***************************************************************************)
EXTENDS Prefetch, FiniteSetTheorems, WellFoundedInduction, TLAPS

USE ZenonT(40)

Offsets(f) == 0 .. FileSize[f] - 1

Tickets ==
    [listed : BOOLEAN, live : BOOLEAN, current : BOOLEAN, candidate : BOOLEAN, file : Files \cup {None},
     kind : {"only", "window"}, range : SUBSET Nat, todo : SUBSET Pieces, pinned : SUBSET Pieces,
     active : SUBSET Pieces, read : SUBSET Nat]

(* An anchor or none, with what was read ahead of it; a seek candidate or    *)
(* none: within their files.                                                 *)
IsAnchor(a, c) ==
    \/ a = None
    \/ \E f \in Files : \E n \in 0 .. FileSize[f] : a = [file |-> f, cursor |-> n] /\ c \subseteq Offsets(f)

IsCandidate(d) ==
    \/ d = None
    \/ \E f \in Files : \E n \in Offsets(f), b \in SUBSET Offsets(f), k \in {0, 1} :
         d = [file |-> f, start |-> n, read |-> b, reads |-> k]

PlaceTypes == IsAnchor(anchor, consumed) /\ IsCandidate(candidate) /\ confirmed \in BOOLEAN

TicketTypes ==
    /\ ticket \in [Readers -> Tickets]
    /\ \A r \in Readers :
         /\ ticket[r].file = None => ticket[r].range = {} /\ ticket[r].read = {}
         /\ ticket[r].file # None => ticket[r].range \cup ticket[r].read \subseteq Offsets(ticket[r].file)

Counts ==
    /\ refs \in [Pieces -> Nat] /\ foregroundPieces \in [Pieces -> Nat] /\ handles \in [Files -> Nat]
    /\ windowPins \subseteq Pieces /\ leases \subseteq Pieces /\ cached \subseteq Pieces
    /\ state \in {"idle", "filling", "paused", "budget-blocked"}
    /\ used \in Nat /\ otherUsed \in Nat /\ otherPins \in Nat

PcTypes == pc \in [Readers -> {"closed", "open", "reading", "fetching", "failed", "releasing"}]

(* A read has a ticket from beginForeground to finishForeground, unless it    *)
(* was cancelled; and it waits for a piece only between startPiece and        *)
(* finishPiece.                                                               *)
Busy == {"reading", "fetching", "failed"}

TicketsInUse ==
    \A r \in Readers :
        /\ ticket[r].listed => pc[r] \in Busy
        /\ pc[r] \in Busy /\ ticket[r].live => ticket[r].listed
        /\ ~ticket[r].listed \/ pc[r] # "fetching" => ticket[r].active = {}
        /\ pc[r] = "fetching" => ticket[r].todo # {}
        /\ ~ticket[r].listed => ticket[r].pinned = {}
        /\ pc[r] # "closed" => ticket[r].file # None

(* The handles of a file are those of the readers that have it open.          *)
Holders(f) == {r \in Readers : pc[r] \in Busy \cup {"open"} /\ ticket[r].file = f}

HandlesExact == \A f \in Files : handles[f] = Cardinality(Holders(f))

(* Without an anchor there is no window.                                      *)
NoAnchorNoWindow == anchor = None => windowPins = {} /\ leases = {}

(* A read that is to move the anchor is in the anchor's file.                 *)
WindowReadsOfAnchor ==
    \A r \in Readers : ticket[r].listed /\ ticket[r].current /\ ticket[r].kind = "window" =>
        anchor # None /\ anchor.file = ticket[r].file

(* A read that is to count for the candidate is in the candidate's file.      *)
SeekReadsOfCandidate ==
    \A r \in Readers : ticket[r].listed /\ ticket[r].candidate /\ candidate # None =>
        candidate.file = ticket[r].file

(* The file of the anchor, and that of the candidate, is open or about to be  *)
(* released.                                                                  *)
HeldOpen(f) == \E r \in Readers : pc[r] # "closed" /\ ticket[r].file = f

PlacesHeldOpen ==
    /\ anchor # None => HeldOpen(anchor.file)
    /\ candidate # None => HeldOpen(candidate.file)

IInv ==
    /\ PlaceTypes /\ TicketTypes /\ Counts /\ PcTypes
    /\ TicketsInUse /\ HandlesExact
    /\ ReferencesExact /\ BudgetExact /\ LeasesYieldAndArePinned
    /\ NoAnchorNoWindow /\ WindowReadsOfAnchor /\ SeekReadsOfCandidate
    /\ UnconfirmedIsRead /\ PlacesHeldOpen /\ SleepsInStep

-----------------------------------------------------------------------------
(* A set of natural numbers that is not empty has a least element. *)
LEMMA MinFacts ==
    ASSUME NEW S \in SUBSET Nat, S # {}
    PROVE  Min(S) \in S /\ \A y \in S : Min(S) <= y
<1>1. PICK x \in S : \A y \in S : <<y, x>> \notin OpToRel(<, Nat)
  BY NatLessThanWellFounded, WFMin
<1>2. ASSUME NEW y \in S PROVE x <= y
  <2>1. ~(y < x) /\ x \in Nat /\ y \in Nat
    BY <1>1 DEF OpToRel
  <2> QED
    BY <2>1, SMTT(30)
<1> QED
  BY <1>2 DEF Min

(* Sets with the same elements are equal. *)
LEMMA SameElements ==
    ASSUME NEW S, NEW T, \A x : x \in S <=> x \in T
    PROVE  S = T
BY SMTT(30)

(* Division by a length is monotonic. *)
LEMMA DivisionGrows ==
    ASSUME NEW L \in Nat \ {0}, NEW a \in Nat, NEW b \in Nat, a <= b
    PROVE  a \div L \in 0 .. b \div L
BY SMTT(30)

(* The offsets of a file are in pieces of the torrent. *)
LEMMA PieceFacts ==
    /\ IsFiniteSet(Pieces) /\ Pieces \subseteq Nat
    /\ \A f \in Files : \A o \in Offsets(f) : PieceOf(f, o) \in Pieces
<1>1. (TorrentSize - 1) \div PieceLength \in Int
  BY PrefetchAssumption, SMTT(30)
<1>2. IsFiniteSet(Pieces) /\ Pieces \subseteq Nat
  <2>1. 0 \in Int /\ \A n \in Int : 0 .. n \subseteq Nat
    BY SMTT(30)
  <2> QED
    BY <1>1, <2>1, FS_Interval DEF Pieces
<1>3. ASSUME NEW f \in Files, NEW o \in Offsets(f) PROVE PieceOf(f, o) \in Pieces
  <2>1. /\ FileStart[f] \in Nat /\ FileSize[f] \in Nat /\ FileStart[f] + FileSize[f] <= TorrentSize
        /\ TorrentSize \in Nat /\ PieceLength \in Nat \ {0} /\ o \in 0 .. FileSize[f] - 1
    BY PrefetchAssumption DEF Offsets
  <2>2. FileStart[f] + o \in Nat /\ TorrentSize - 1 \in Nat /\ FileStart[f] + o <= TorrentSize - 1
    BY <2>1, SMTT(30)
  <2> QED
    BY <2>1, <2>2, DivisionGrows DEF PieceOf, Pieces
<1> QED
  BY <1>2, <1>3

(* Sets of readers and of pieces can be counted. *)
LEMMA Countable ==
    /\ \A S : S \subseteq Readers => IsFiniteSet(S) /\ Cardinality(S) \in Nat
    /\ \A S : S \subseteq Pieces => IsFiniteSet(S) /\ Cardinality(S) \in Nat
BY PrefetchAssumption, PieceFacts, FS_Subset, FS_CardinalityType

(* The first n of a set of pieces are at most n. *)
LEMMA FirstOfFacts ==
    ASSUME NEW n \in Int, NEW S \in SUBSET Pieces
    PROVE  /\ FirstOf(n, S) \subseteq S
           /\ n <= 0 => FirstOf(n, S) = {}
           /\ 0 <= n => Cardinality(FirstOf(n, S)) <= n
<1> DEFINE Below(p) == {q \in S : q < p}
           F == FirstOf(n, S)
<1>1. \A p \in S : Below(p) \subseteq Pieces /\ Cardinality(Below(p)) \in Nat /\ IsFiniteSet(Below(p))
  BY Countable
<1>2. F \subseteq S /\ F = {p \in S : Cardinality(Below(p)) < n}
  BY DEF FirstOf
<1>3. n <= 0 => F = {}
  BY <1>1, <1>2, SMTT(30)
<1>4. ASSUME NEW p \in S, NEW r \in S, p < r
      PROVE  Cardinality(Below(p)) < Cardinality(Below(r))
  <2>1. Below(p) \subseteq Below(r) /\ p \in Below(r) /\ p \notin Below(p)
    <3>1. p \in Nat /\ r \in Nat /\ S \subseteq Nat
      BY PieceFacts
    <3>2. \A q \in Nat : q < p => q < r
      BY <1>4, <3>1, SMTT(30)
    <3>3. ~(p < p)
      BY <3>1, SMTT(30)
    <3> QED
      BY <1>4, <3>1, <3>2, <3>3
  <2> HIDE DEF Below
  <2>2. Below(p) # Below(r)
    BY <2>1
  <2>3. Cardinality(Below(p)) <= Cardinality(Below(r)) /\ Cardinality(Below(p)) # Cardinality(Below(r))
    BY <1>1, <2>1, <2>2, FS_Subset
  <2> QED
    BY <1>1, <2>3, SMTT(30)
<1> HIDE DEF Below
<1>5. ASSUME 0 <= n PROVE Cardinality(F) <= n
  <2> DEFINE I == 0 .. n - 1
             g == [p \in F |-> Cardinality(Below(p))]
  <2>1. g \in [F -> I]
    BY <1>1, <1>2, SMTT(30)
  <2>2. ASSUME NEW p \in F, NEW r \in F, g[p] = g[r] PROVE p = r
    <3>1. p \in Nat /\ r \in Nat /\ p \in S /\ r \in S /\ Cardinality(Below(p)) = Cardinality(Below(r))
      BY <1>2, <2>2, PieceFacts
    <3>2. ~(p < r) /\ ~(r < p)
      BY <1>1, <1>4, <3>1, SMTT(30)
    <3> QED
      BY <3>1, <3>2, SMTT(30)
  <2>3. g \in Injection(F, I)
    BY <2>1, <2>2 DEF Injection, IsInjective
  <2>4. IsFiniteSet(I) /\ Cardinality(I) = n
    <3>1. 0 \in Int /\ n - 1 \in Int
      BY SMTT(30)
    <3>2. IsFiniteSet(I) /\ Cardinality(I) = IF 0 > n - 1 THEN 0 ELSE n - 1 - 0 + 1
      BY <3>1, FS_Interval
    <3> QED
      BY <1>5, <3>2, SMTT(30)
  <2> HIDE DEF g, I
  <2> QED
    BY <2>3, <2>4, FS_Injection
<1> QED
  BY <1>2, <1>3, <1>5

-----------------------------------------------------------------------------
(* What the critical sections do to the core of the coordinator.             *)

CoreFields == {"anchor", "confirmed", "consumed", "candidate", "pins", "leases", "state"}

States == {"idle", "filling", "paused", "budget-blocked"}

CoreTypes(c) ==
    /\ DOMAIN c = CoreFields
    /\ IsAnchor(c.anchor, c.consumed) /\ IsCandidate(c.candidate) /\ c.confirmed \in BOOLEAN
    /\ c.state \in States

(* The core is what the variables say. *)
LEMMA CoreFacts ==
    /\ DOMAIN Core = CoreFields
    /\ Core.anchor = anchor /\ Core.confirmed = confirmed /\ Core.consumed = consumed
    /\ Core.candidate = candidate /\ Core.pins = windowPins /\ Core.leases = leases /\ Core.state = state
BY SMTT(30) DEF Core, CoreFields

(* A window that is given up holds nothing. *)
LEMMA UnwoundFacts ==
    ASSUME NEW c, DOMAIN c = CoreFields
    PROVE  LET u == Unwound(c) IN
           /\ DOMAIN u = CoreFields
           /\ u.anchor = c.anchor /\ u.confirmed = c.confirmed /\ u.consumed = c.consumed
           /\ u.candidate = c.candidate /\ u.pins = {} /\ u.leases = {} /\ u.state = "idle"
BY SMTT(30) DEF Unwound, CoreFields

(* Nor does a coordinator without anchor. *)
LEMMA WithoutAnchorFacts ==
    ASSUME NEW c, DOMAIN c = CoreFields
    PROVE  LET u == WithoutAnchor(c) IN
           /\ DOMAIN u = CoreFields
           /\ u.anchor = None /\ u.confirmed = FALSE /\ u.consumed = {}
           /\ u.candidate = None /\ u.pins = {} /\ u.leases = {} /\ u.state = "idle"
<1>1. DOMAIN Unwound(c) = CoreFields /\ Unwound(c).pins = {} /\ Unwound(c).leases = {} /\ Unwound(c).state = "idle"
  BY UnwoundFacts
<1> HIDE DEF Unwound
<1> QED
  BY <1>1, SMTT(30) DEF WithoutAnchor, CoreFields

(* The fields of an anchor and of a candidate. *)
LEMMA PlaceFacts ==
    /\ \A a, c : IsAnchor(a, c) /\ a # None =>
         /\ a = [file |-> a.file, cursor |-> a.cursor]
         /\ a.file \in Files /\ a.cursor \in 0 .. FileSize[a.file] /\ c \subseteq Offsets(a.file)
    /\ \A d : IsCandidate(d) /\ d # None =>
         /\ d = [file |-> d.file, start |-> d.start, read |-> d.read, reads |-> d.reads]
         /\ d.file \in Files /\ d.start \in Offsets(d.file) /\ d.read \subseteq Offsets(d.file)
         /\ d.reads \in {0, 1}
BY SMTT(30) DEF IsAnchor, IsCandidate

(* The cursor moves forward in its file, to the first offset not consumed. *)
LEMMA AdvancedFacts ==
    ASSUME NEW c, DOMAIN c = CoreFields, NEW f \in Files, NEW n \in 0 .. FileSize[f],
           c.anchor = [file |-> f, cursor |-> n], c.consumed \subseteq Offsets(f)
    PROVE  LET u == Advanced(c) IN
           /\ DOMAIN u = CoreFields
           /\ \E m \in n .. FileSize[f] : u.anchor = [file |-> f, cursor |-> m]
           /\ u.consumed \subseteq c.consumed /\ u.confirmed = c.confirmed
           /\ u.candidate \in {c.candidate, None}
           /\ u.pins = c.pins /\ u.leases = c.leases /\ u.state = c.state
<1> DEFINE S == {o \in n .. FileSize[f] : o \notin c.consumed}
           m == Min(S)
           far == c.candidate # None /\ Abs(m - c.candidate.start) > SeekClear
           d == IF far THEN None ELSE c.candidate
           b == {o \in c.consumed : o > m}
<1>1. FileSize[f] \in Nat /\ n \in Nat /\ n <= FileSize[f]
  <2>1. FileSize[f] \in Nat
    BY PrefetchAssumption
  <2> QED
    BY <2>1, SMTT(30)
<1>2. m \in n .. FileSize[f]
  <2>1. S \subseteq Nat /\ FileSize[f] \in n .. FileSize[f] /\ FileSize[f] \notin Offsets(f)
    BY <1>1, SMTT(30) DEF Offsets
  <2>2. S # {} /\ S \in SUBSET Nat
    BY <2>1
  <2>3. m \in S
    BY <2>2, MinFacts
  <2> QED
    BY <2>3
<1>3. c.anchor.file = f /\ c.anchor.cursor = n
  BY SMTT(30)
<1>4. Advanced(c) = [c EXCEPT !.anchor.cursor = m, !.consumed = b, !.candidate = d]
  BY <1>3 DEF Advanced
<1> HIDE DEF m, d, b
<1>5. [c.anchor EXCEPT !.cursor = m] = [file |-> f, cursor |-> m]
  BY SMTT(30)
<1>6. /\ DOMAIN Advanced(c) = CoreFields
      /\ Advanced(c).anchor = [c.anchor EXCEPT !.cursor = m]
      /\ Advanced(c).consumed = b /\ Advanced(c).confirmed = c.confirmed /\ Advanced(c).candidate = d
      /\ Advanced(c).pins = c.pins /\ Advanced(c).leases = c.leases /\ Advanced(c).state = c.state
  BY <1>4, SMTT(30) DEF CoreFields
<1>7. b \subseteq c.consumed /\ d \in {c.candidate, None}
  BY DEF b, d
<1> QED
  BY <1>2, <1>5, <1>6, <1>7

(* An anchor that has moved forward is one. *)
LEMMA ForwardFacts ==
    ASSUME NEW f \in Files, NEW n \in 0 .. FileSize[f], NEW m \in n .. FileSize[f], NEW a, NEW b,
           a = [file |-> f, cursor |-> m], b \subseteq Offsets(f)
    PROVE  IsAnchor(a, b) /\ a # None /\ a.file = f /\ a.cursor >= n
<1>1. FileSize[f] \in Nat
  BY PrefetchAssumption
<1>2. m \in 0 .. FileSize[f] /\ m >= n
  BY <1>1, SMTT(30)
<1>3. a.file = f /\ a.cursor = m
  BY SMTT(30)
<1> QED
  BY <1>2, <1>3, NoneAssumption DEF IsAnchor

(* A read of the window moves the cursor forward, and may confirm it. *)
LEMMA WithConsumedFacts ==
    ASSUME NEW c, CoreTypes(c), c.anchor # None, NEW offsets, offsets \subseteq Offsets(c.anchor.file)
    PROVE  LET u == WithConsumed(c, offsets) IN
           /\ CoreTypes(u)
           /\ u.anchor # None /\ u.anchor.file = c.anchor.file /\ u.anchor.cursor >= c.anchor.cursor
           /\ c.confirmed => u.confirmed
           /\ u.candidate \in {c.candidate, None}
           /\ u.pins = c.pins /\ u.leases = c.leases
<1> DEFINE f == c.anchor.file
           n == c.anchor.cursor
           e == [c EXCEPT !.consumed = @ \cup offsets]
           a == Advanced(e)
           u == WithConsumed(c, offsets)
<1>1. /\ DOMAIN c = CoreFields /\ f \in Files /\ n \in 0 .. FileSize[f]
      /\ c.anchor = [file |-> f, cursor |-> n] /\ c.consumed \subseteq Offsets(f)
  BY PlaceFacts DEF CoreTypes
<1>2. /\ DOMAIN e = CoreFields /\ e.anchor = c.anchor /\ e.confirmed = c.confirmed
      /\ e.consumed = c.consumed \cup offsets /\ e.candidate = c.candidate
      /\ e.pins = c.pins /\ e.leases = c.leases /\ e.state = c.state
  BY <1>1, SMTT(30) DEF CoreFields
<1>3. u = [a EXCEPT !.confirmed = @ \/ a.anchor.cursor > n]
  BY DEF WithConsumed
<1> HIDE DEF u, e
<1>4. /\ DOMAIN a = CoreFields
      /\ \E m \in n .. FileSize[f] : a.anchor = [file |-> f, cursor |-> m]
      /\ a.consumed \subseteq e.consumed /\ a.confirmed = e.confirmed
      /\ a.candidate \in {e.candidate, None}
      /\ a.pins = e.pins /\ a.leases = e.leases /\ a.state = e.state
  <2>1. e.anchor = [file |-> f, cursor |-> n] /\ e.consumed \subseteq Offsets(f)
    BY <1>1, <1>2
  <2> HIDE DEF f, n
  <2> QED
    BY <1>1, <1>2, <2>1, AdvancedFacts
<1> HIDE DEF a
<1>5. /\ DOMAIN u = CoreFields /\ u.anchor = a.anchor /\ u.consumed = a.consumed
      /\ u.candidate = a.candidate /\ u.pins = a.pins /\ u.leases = a.leases /\ u.state = a.state
      /\ u.confirmed = (a.confirmed \/ a.anchor.cursor > n)
  BY <1>3, <1>4 DEF CoreFields
<1>6. IsAnchor(u.anchor, u.consumed) /\ u.anchor # None /\ u.anchor.file = f /\ u.anchor.cursor >= n
  <2>1. PICK m \in n .. FileSize[f] : a.anchor = [file |-> f, cursor |-> m]
    BY <1>4
  <2>2. u.anchor = [file |-> f, cursor |-> m] /\ u.consumed \subseteq Offsets(f)
    BY <1>1, <1>2, <1>4, <1>5, <2>1
  <2> HIDE DEF f, n
  <2> QED
    BY <1>1, <2>2, ForwardFacts, SMTT(30)
<1>7. IsCandidate(u.candidate) /\ u.candidate \in {c.candidate, None}
  <2>1. u.candidate \in {c.candidate, None}
    BY <1>2, <1>4, <1>5
  <2>2. IsCandidate(None) /\ IsCandidate(c.candidate)
    BY DEF IsCandidate, CoreTypes
  <2> QED
    BY <2>1, <2>2
<1>8. u.confirmed \in BOOLEAN /\ (c.confirmed => u.confirmed)
  BY <1>2, <1>4, <1>5
<1>9. u.state \in States /\ u.pins = c.pins /\ u.leases = c.leases
  BY <1>2, <1>4, <1>5 DEF CoreTypes
<1> QED
  BY <1>5, <1>6, <1>7, <1>8, <1>9 DEF CoreTypes, u

(* A read elsewhere that counts leaves the window alone. *)
LEMMA WithCandidateReadFacts ==
    ASSUME NEW c, DOMAIN c = CoreFields, NEW f, NEW n, NEW b, NEW k, NEW t,
           c.candidate = [file |-> f, start |-> n, read |-> b, reads |-> k]
    PROVE  LET u == WithCandidateRead(c, t) IN
           /\ DOMAIN u = CoreFields
           /\ u.anchor = c.anchor /\ u.confirmed = c.confirmed /\ u.consumed = c.consumed
           /\ u.pins = c.pins /\ u.leases = c.leases /\ u.state = c.state
           /\ u.candidate = [file |-> f, start |-> n, read |-> b \cup t.read, reads |-> k + 1]
<1> DEFINE d == [file |-> f, start |-> n, read |-> b, reads |-> k]
<1>1. [d EXCEPT !.reads = k + 1, !.read = b \cup t.read]
        = [file |-> f, start |-> n, read |-> b \cup t.read, reads |-> k + 1]
  <2>1. [d EXCEPT !.reads = k + 1] = [file |-> f, start |-> n, read |-> b, reads |-> k + 1]
    BY SMTT(30)
  <2>2. [[file |-> f, start |-> n, read |-> b, reads |-> k + 1] EXCEPT !.read = b \cup t.read]
          = [file |-> f, start |-> n, read |-> b \cup t.read, reads |-> k + 1]
    BY SMTT(30)
  <2> QED
    BY <2>1, <2>2
<1>2. d.reads = k /\ d.read = b
  BY SMTT(30)
<1> HIDE DEF d
<1>3. LET u == WithCandidateRead(c, t) IN
      /\ DOMAIN u = CoreFields
      /\ u.anchor = c.anchor /\ u.confirmed = c.confirmed /\ u.consumed = c.consumed
      /\ u.pins = c.pins /\ u.leases = c.leases /\ u.state = c.state
  BY SMTT(30) DEF WithCandidateRead, CoreFields
<1>4. WithCandidateRead(c, t).candidate = [c.candidate EXCEPT !.reads = @ + 1, !.read = @ \cup t.read]
  BY SMTT(30) DEF WithCandidateRead, CoreFields
<1>5. c.candidate = d
  BY DEF d
<1>6. WithCandidateRead(c, t).candidate = [d EXCEPT !.reads = @ + 1, !.read = @ \cup t.read]
  BY <1>4, <1>5
<1>7. [d EXCEPT !.reads = @ + 1, !.read = @ \cup t.read] = [d EXCEPT !.reads = k + 1, !.read = b \cup t.read]
  BY <1>2, SMTT(30)
<1>8. WithCandidateRead(c, t).candidate = [file |-> f, start |-> n, read |-> b \cup t.read, reads |-> k + 1]
  BY ONLY <1>1, <1>6, <1>7, ZenonT(40)
<1> QED
  BY <1>3, <1>8

(* The second one moves the window to the candidate. *)
LEMMA WithSeekConfirmedFacts ==
    ASSUME NEW c, DOMAIN c = CoreFields, c.candidate.file \in Files,
           c.candidate.start \in Offsets(c.candidate.file), c.candidate.read \subseteq Offsets(c.candidate.file)
    PROVE  LET u == WithSeekConfirmed(c) IN
           /\ CoreTypes(u)
           /\ u.anchor # None /\ u.anchor.file = c.candidate.file /\ u.confirmed = TRUE /\ u.candidate = None
           /\ u.pins = {} /\ u.leases = {}
<1> DEFINE e == [Unwound(c) EXCEPT
                   !.anchor = [file |-> c.candidate.file, cursor |-> c.candidate.start],
                   !.confirmed = TRUE, !.consumed = c.candidate.read, !.candidate = None]
           u == WithSeekConfirmed(c)
<1>1. u = Advanced(e)
  BY DEF WithSeekConfirmed
<1>2. PICK f \in Files : \E n \in Offsets(f), b \in SUBSET Offsets(f) :
        c.candidate.file = f /\ c.candidate.start = n /\ c.candidate.read = b
  OBVIOUS
<1>3. PICK n \in Offsets(f), b \in SUBSET Offsets(f) :
        c.candidate.file = f /\ c.candidate.start = n /\ c.candidate.read = b
  BY <1>2
<1>4. DOMAIN Unwound(c) = CoreFields /\ Unwound(c).pins = {} /\ Unwound(c).leases = {} /\ Unwound(c).state = "idle"
  BY UnwoundFacts
<1>5. /\ DOMAIN e = CoreFields /\ e.anchor = [file |-> f, cursor |-> n] /\ e.confirmed = TRUE
      /\ e.consumed = b /\ e.candidate = None /\ e.pins = {} /\ e.leases = {} /\ e.state = "idle"
  BY <1>3, <1>4, SMTT(30) DEF CoreFields
<1>6. n \in 0 .. FileSize[f]
  <2>1. FileSize[f] \in Nat
    BY PrefetchAssumption
  <2> QED
    BY <2>1, SMTT(30) DEF Offsets
<1> HIDE DEF u, e
<1>7. /\ DOMAIN u = CoreFields
      /\ \E m \in n .. FileSize[f] : u.anchor = [file |-> f, cursor |-> m]
      /\ u.consumed \subseteq e.consumed /\ u.confirmed = e.confirmed
      /\ u.candidate \in {e.candidate, None}
      /\ u.pins = e.pins /\ u.leases = e.leases /\ u.state = e.state
  BY <1>1, <1>5, <1>6, AdvancedFacts
<1>8. PICK m \in n .. FileSize[f] : u.anchor = [file |-> f, cursor |-> m]
  BY <1>7
<1>9. u.consumed \subseteq Offsets(f)
  BY <1>5, <1>7
<1>10. IsAnchor(u.anchor, u.consumed) /\ u.anchor # None /\ u.anchor.file = f
  BY <1>6, <1>8, <1>9, ForwardFacts, SMTT(30)
<1>11. /\ u.candidate = None /\ u.confirmed = TRUE /\ u.pins = {} /\ u.leases = {} /\ u.state \in States
       /\ IsCandidate(u.candidate)
  BY <1>5, <1>7 DEF States, IsCandidate
<1> QED
  BY <1>3, <1>7, <1>10, <1>11 DEF CoreTypes, u

-----------------------------------------------------------------------------
(* The core as the variables have it. *)
LEMMA CoreIsTyped ==
    ASSUME PlaceTypes, Counts PROVE CoreTypes(Core)
BY CoreFacts DEF PlaceTypes, Counts, CoreTypes, States

(* Where a read that has begun leaves the anchor and the candidate. *)
LEMMA ClassifiedFacts ==
    ASSUME PlaceTypes, Counts, NEW f \in Files, NEW off \in Offsets(f)
    PROVE  LET c == Classified(f, off) IN
           /\ CoreTypes(c) /\ c.pins = windowPins /\ c.leases = leases
           /\ anchor = None => c.anchor # None /\ c.anchor.file = f /\ c.candidate = None
           /\ anchor # None => c.anchor = anchor /\ c.confirmed = confirmed
           /\ anchor # None => c.candidate = candidate \/ (c.candidate # candidate /\ c.candidate.file = f)
           /\ anchor # None /\ ~InCurrentWindow(f, off) /\ c.candidate # None => c.candidate.file = f
<1> DEFINE c == Classified(f, off)
           a == [file |-> f, cursor |-> off]
           d == [file |-> f, start |-> off, read |-> {}, reads |-> 0]
<1>1. /\ CoreTypes(Core) /\ DOMAIN Core = CoreFields
      /\ Core.anchor = anchor /\ Core.confirmed = confirmed /\ Core.consumed = consumed
      /\ Core.candidate = candidate /\ Core.pins = windowPins /\ Core.leases = leases /\ Core.state = state
  BY CoreFacts, CoreIsTyped
<1> HIDE DEF Core
<1>2. CASE anchor = None
  <2>1. c = [Core EXCEPT !.anchor = a, !.confirmed = FALSE, !.consumed = {}, !.candidate = None]
    BY <1>2 DEF Classified
  <2>2. off \in 0 .. FileSize[f] /\ off \in off .. FileSize[f]
    <3>1. FileSize[f] \in Nat
      BY PrefetchAssumption
    <3> QED
      BY <3>1, SMTT(30) DEF Offsets
  <2>3. IsAnchor(a, {}) /\ a # None /\ a.file = f
    <3>1. a.file = f
      BY SMTT(30)
    <3> QED
      BY <2>2, <3>1, NoneAssumption DEF IsAnchor
  <2> HIDE DEF c, a
  <2>4. /\ DOMAIN c = CoreFields /\ c.anchor = a /\ c.confirmed = FALSE /\ c.consumed = {} /\ c.candidate = None
        /\ c.pins = windowPins /\ c.leases = leases /\ c.state = state
    BY <1>1, <2>1, SMTT(30) DEF CoreFields
  <2>5. CoreTypes(c)
    BY <1>1, <2>3, <2>4 DEF CoreTypes, IsCandidate
  <2> QED
    BY <1>2, <2>3, <2>4, <2>5 DEF c
<1>3. CASE anchor # None /\ (InCurrentWindow(f, off) \/ MatchesCandidate(f, off))
  <2>1. c = Core
    BY <1>3 DEF Classified
  <2> QED
    BY <1>1, <1>3, <2>1 DEF MatchesCandidate
<1>4. CASE anchor # None /\ ~InCurrentWindow(f, off) /\ ~MatchesCandidate(f, off)
  <2>1. c = [Core EXCEPT !.candidate = d]
    BY <1>4 DEF Classified
  <2>2. IsCandidate(d) /\ d.file = f
    <3>1. d.file = f
      BY SMTT(30)
    <3> QED
      BY <3>1 DEF IsCandidate
  <2> HIDE DEF c, d
  <2>3. /\ DOMAIN c = CoreFields /\ c.anchor = anchor /\ c.confirmed = confirmed /\ c.consumed = consumed
        /\ c.candidate = d /\ c.pins = windowPins /\ c.leases = leases /\ c.state = state
    BY <1>1, <2>1, SMTT(30) DEF CoreFields
  <2>4. CoreTypes(c)
    BY <1>1, <2>2, <2>3 DEF CoreTypes
  <2> QED
    BY <1>4, <2>2, <2>3, <2>4 DEF c
<1> QED
  BY <1>2, <1>3, <1>4

(* What a read that ends counts for: it moves the cursor forward, or is the  *)
(* first one at the candidate, or the second.                                *)
LEMMA CountedFacts ==
    ASSUME PlaceTypes, Counts, TicketTypes, SeekReadsOfCandidate,
           NEW r \in Readers, ticket[r].listed, ticket[r].file # None
    PROVE  LET u == Counted(r) IN
           /\ CoreTypes(u)
           /\ ~Confirms(r) =>
                /\ u.pins = windowPins /\ u.leases = leases
                /\ anchor = None <=> u.anchor = None
                /\ anchor # None => u.anchor.file = anchor.file /\ u.anchor.cursor >= anchor.cursor
                /\ confirmed => u.confirmed
                /\ u.candidate # None => candidate # None /\ u.candidate.file = candidate.file
           /\ Confirms(r) =>
                /\ u.pins = {} /\ u.leases = {} /\ u.confirmed /\ u.candidate = None
                /\ candidate # None /\ candidate.reads = 1
                /\ anchor # None /\ u.anchor # None /\ u.anchor.file = candidate.file
<1> DEFINE t == ticket[r]
           u == Counted(r)
<1>1. /\ CoreTypes(Core) /\ DOMAIN Core = CoreFields
      /\ Core.anchor = anchor /\ Core.confirmed = confirmed /\ Core.consumed = consumed
      /\ Core.candidate = candidate /\ Core.pins = windowPins /\ Core.leases = leases /\ Core.state = state
  BY CoreFacts, CoreIsTyped
<1>2. t.read \subseteq Offsets(t.file)
  BY DEF TicketTypes
<1>3. anchor # None => anchor.cursor \in Nat
  <2>1. ASSUME anchor # None PROVE anchor.file \in Files /\ anchor.cursor \in 0 .. FileSize[anchor.file]
    BY <2>1, PlaceFacts DEF PlaceTypes
  <2>2. \A f \in Files : FileSize[f] \in Nat /\ 0 .. FileSize[f] \subseteq Nat
    <3>1. \A n \in Nat : 0 .. n \subseteq Nat
      BY SMTT(30)
    <3> QED
      BY <3>1, PrefetchAssumption
  <2> QED
    BY <2>1, <2>2
<1>4. anchor # None => anchor.cursor >= anchor.cursor
  BY <1>3, SMTT(30)
<1> HIDE DEF Core
<1>5. CASE u = Core /\ ~Confirms(r)
  BY <1>1, <1>4, <1>5
<1>6. CASE Succeeded(r) /\ t.kind = "window"
  <2>1. ~Confirms(r) /\ anchor # None
    BY <1>6 DEF Confirms, Succeeded
  <2>2. CASE anchor.file = t.file
    <3>1. u = WithConsumed(Core, t.read)
      BY <1>6, <2>2 DEF Counted
    <3>2. t.read \subseteq Offsets(Core.anchor.file) /\ Core.anchor # None
      BY <1>1, <1>2, <2>1, <2>2
    <3> HIDE DEF u
    <3>3. /\ CoreTypes(u)
          /\ u.anchor # None /\ u.anchor.file = Core.anchor.file /\ u.anchor.cursor >= Core.anchor.cursor
          /\ Core.confirmed => u.confirmed
          /\ u.candidate \in {Core.candidate, None}
          /\ u.pins = Core.pins /\ u.leases = Core.leases
      BY <1>1, <3>1, <3>2, WithConsumedFacts
    <3> QED
      BY <1>1, <2>1, <3>3 DEF u
  <2>3. CASE anchor.file # t.file
    <3>1. u = Core
      BY <1>6, <2>3 DEF Counted
    <3> QED
      BY <1>5, <2>1, <3>1
  <2> QED
    BY <2>2, <2>3
<1>7. CASE Succeeded(r) /\ t.kind # "window" /\ CountsForCandidate(t)
  <2> DEFINE w == WithCandidateRead(Core, t)
  <2>1. candidate # None /\ t.candidate /\ candidate.file = t.file /\ anchor # None
    BY <1>7 DEF CountsForCandidate, SeekReadsOfCandidate, Succeeded
  <2>2. PICK f \in Files : \E n \in Offsets(f), b \in SUBSET Offsets(f), k \in {0, 1} :
          candidate = [file |-> f, start |-> n, read |-> b, reads |-> k]
    BY <2>1 DEF PlaceTypes, IsCandidate
  <2>3. PICK n \in Offsets(f), b \in SUBSET Offsets(f), k \in {0, 1} :
          candidate = [file |-> f, start |-> n, read |-> b, reads |-> k]
    BY <2>2
  <2>4. candidate.file = f /\ candidate.reads = k
    BY <2>3, SMTT(30)
  <2>5. b \cup t.read \subseteq Offsets(f)
    BY <1>2, <2>1, <2>4
  <2>6. /\ DOMAIN w = CoreFields
        /\ w.anchor = anchor /\ w.confirmed = confirmed /\ w.consumed = consumed
        /\ w.pins = windowPins /\ w.leases = leases /\ w.state = state
        /\ w.candidate = [file |-> f, start |-> n, read |-> b \cup t.read, reads |-> k + 1]
    <3>1. Core.candidate = [file |-> f, start |-> n, read |-> b, reads |-> k]
      BY <1>1, <2>3
    <3>2. /\ DOMAIN w = CoreFields
          /\ w.anchor = Core.anchor /\ w.confirmed = Core.confirmed /\ w.consumed = Core.consumed
          /\ w.pins = Core.pins /\ w.leases = Core.leases /\ w.state = Core.state
          /\ w.candidate = [file |-> f, start |-> n, read |-> b \cup t.read, reads |-> k + 1]
      BY <1>1, <3>1, WithCandidateReadFacts, SMTT(30)
    <3> QED
      BY <1>1, <3>2
  <2> HIDE DEF w
  <2>7. CASE Confirms(r)
    <3>1. u = WithSeekConfirmed(w)
      BY <1>7, <2>7 DEF Counted, w
    <3>2. k = 1
      <4>1. k + 1 >= 2
        BY <2>4, <2>7 DEF Confirms, SeekConfirmationReads
      <4> QED
        BY <4>1, SMTT(30)
    <3> HIDE DEF u
    <3>3. w.candidate.file = f /\ w.candidate.start = n /\ w.candidate.read = b \cup t.read
      BY <2>6, SMTT(30)
    <3>4. /\ w.candidate.start \in Offsets(w.candidate.file) /\ w.candidate.read \subseteq Offsets(w.candidate.file)
          /\ w.candidate.file \in Files
      BY <2>5, <3>3
    <3>5. DOMAIN w = CoreFields
      BY <2>6
    <3>6. /\ CoreTypes(u)
          /\ u.anchor # None /\ u.anchor.file = f /\ u.confirmed = TRUE /\ u.candidate = None
          /\ u.pins = {} /\ u.leases = {}
      BY <3>1, <3>3, <3>4, <3>5, WithSeekConfirmedFacts
    <3> QED
      BY <2>1, <2>4, <2>7, <3>2, <3>6 DEF u
  <2>8. CASE ~Confirms(r)
    <3>1. u = w
      BY <1>7, <2>8 DEF Counted, w
    <3>2. k + 1 \in {0, 1}
      <4>1. ~(k + 1 >= 2)
        BY <1>7, <2>4, <2>8 DEF Confirms, SeekConfirmationReads, TicketTypes, Tickets
      <4> QED
        BY <4>1, SMTT(30)
    <3>3. IsCandidate(w.candidate) /\ w.candidate.file = f
      <4>1. w.candidate.file = f
        BY <2>6, SMTT(30)
      <4> QED
        BY <2>5, <2>6, <3>2, <4>1 DEF IsCandidate
    <3>4. CoreTypes(w)
      BY <1>1, <2>6, <3>3 DEF CoreTypes
    <3> HIDE DEF u
    <3> QED
      BY <1>4, <2>1, <2>4, <2>6, <2>8, <3>1, <3>3, <3>4 DEF u
  <2> QED
    BY <2>7, <2>8
<1>8. CASE ~Succeeded(r) \/ (t.kind # "window" /\ ~CountsForCandidate(t))
  <2>1. u = Core /\ ~Confirms(r)
    BY <1>8 DEF Counted, Confirms
  <2> QED
    BY <1>5, <2>1
<1> QED
  BY <1>6, <1>7, <1>8

-----------------------------------------------------------------------------
(* The accounts.  What a piece is pinned and waited for by.                  *)
Pinners(p) == {r \in Listed : p \in ticket[r].pinned}
Waiters(p) == {r \in Listed : p \in ticket[r].active}
One(p, S) == IF p \in S THEN 1 ELSE 0

(* Only readers with a ticket do, and they can be counted. *)
LEMMA PinnersFacts ==
    /\ \A p : Pinners(p) \subseteq Readers /\ IsFiniteSet(Pinners(p)) /\ Cardinality(Pinners(p)) \in Nat
    /\ \A p : Waiters(p) \subseteq Readers /\ IsFiniteSet(Waiters(p)) /\ Cardinality(Waiters(p)) \in Nat
    /\ \A p : Cardinality(Pinners(p)') \in Nat /\ Cardinality(Waiters(p)') \in Nat
    /\ ReferencesExact <=> \A p \in Pieces : /\ refs[p] = Cardinality(Pinners(p)) + One(p, windowPins)
                                             /\ foregroundPieces[p] = Cardinality(Waiters(p))
    /\ ReferencesExact' <=> \A p \in Pieces : /\ refs'[p] = Cardinality(Pinners(p)') + One(p, windowPins')
                                              /\ foregroundPieces'[p] = Cardinality(Waiters(p)')
<1>1. \A p : Pinners(p) \subseteq Readers /\ Waiters(p) \subseteq Readers
  BY DEF Pinners, Waiters, Listed
<1>2. \A p : Pinners(p)' \subseteq Readers /\ Waiters(p)' \subseteq Readers
  BY DEF Pinners, Waiters, Listed
<1> QED
  BY <1>1, <1>2, Countable DEF ReferencesExact, Pinners, Waiters, One

(* A part of a set of readers and the rest make up the whole. *)
LEMMA CountRest ==
    ASSUME NEW S, S \subseteq Readers, NEW T, T \subseteq S
    PROVE  Cardinality(S \ T) = Cardinality(S) - Cardinality(T)
<1>1. IsFiniteSet(S) /\ S \cap T = T
  BY Countable
<1> QED
  BY <1>1, FS_Difference

(* The tickets of the readers rs are removed, those of the others stay.       *)
OnlyRemoved(rs) ==
    /\ rs \subseteq Listed
    /\ \A q \in rs : ~ticket'[q].listed
    /\ \A q \in Readers \ rs : /\ ticket'[q].listed = ticket[q].listed
                               /\ ticket'[q].pinned = ticket[q].pinned
                               /\ ticket'[q].active = ticket[q].active

(* Removing tickets removes what they pin and what they wait for. *)
LEMMA Recount ==
    ASSUME NEW rs, OnlyRemoved(rs), NEW p
    PROVE  /\ Cardinality(Pinners(p)') = Cardinality(Pinners(p)) - Cardinality({r \in rs : p \in ticket[r].pinned})
           /\ Cardinality(Waiters(p)') = Cardinality(Waiters(p)) - Cardinality({r \in rs : p \in ticket[r].active})
<1>1. /\ Pinners(p)' = Pinners(p) \ {r \in rs : p \in ticket[r].pinned}
      /\ Waiters(p)' = Waiters(p) \ {r \in rs : p \in ticket[r].active}
  <2>1. ASSUME NEW q
        PROVE  /\ q \in Pinners(p)' <=> q \in Pinners(p) /\ ~(q \in rs /\ p \in ticket[q].pinned)
               /\ q \in Waiters(p)' <=> q \in Waiters(p) /\ ~(q \in rs /\ p \in ticket[q].active)
    BY DEF Pinners, Waiters, Listed, OnlyRemoved
  <2> QED
    BY <2>1, SMTT(30)
<1>2. /\ {r \in rs : p \in ticket[r].pinned} \subseteq Pinners(p)
      /\ {r \in rs : p \in ticket[r].active} \subseteq Waiters(p)
  BY DEF Pinners, Waiters, OnlyRemoved
<1>3. Pinners(p) \subseteq Readers /\ Waiters(p) \subseteq Readers
  BY DEF Pinners, Waiters, Listed
<1> DEFINE A == {r \in rs : p \in ticket[r].pinned}
           B == {r \in rs : p \in ticket[r].active}
<1> HIDE DEF A, B
<1>4. /\ Pinners(p)' = Pinners(p) \ A /\ A \subseteq Pinners(p)
      /\ Waiters(p)' = Waiters(p) \ B /\ B \subseteq Waiters(p)
  BY <1>1, <1>2 DEF A, B
<1>5. /\ Cardinality(Pinners(p)') = Cardinality(Pinners(p)) - Cardinality(A)
      /\ Cardinality(Waiters(p)') = Cardinality(Waiters(p)) - Cardinality(B)
  BY <1>3, <1>4, CountRest
<1> QED
  BY <1>5 DEF A, B

(* Leases that are given up are returned to the budget. *)
LEMMA BudgetShrinks ==
    ASSUME Counts, BudgetExact, NEW S, S \subseteq leases,
           leases' = S, used' = used - Cardinality(leases \ S), UNCHANGED otherUsed
    PROVE  used' \in Nat /\ BudgetExact'
<1>1. S \subseteq Pieces /\ leases \subseteq Pieces /\ used \in Nat /\ otherUsed \in Nat
  BY DEF Counts
<1>2. IsFiniteSet(leases) /\ leases \cap S = S
  BY <1>1, Countable
<1>3. Cardinality(leases \ S) = Cardinality(leases) - Cardinality(S)
  BY <1>2, FS_Difference
<1>4. Cardinality(leases) \in Nat /\ Cardinality(S) \in Nat /\ Cardinality(S) <= Cardinality(leases)
  BY <1>1, <1>2, Countable, FS_Subset
<1>5. used = Cardinality(leases) + otherUsed /\ used <= Limit /\ Limit \in Nat
  BY PrefetchAssumption DEF BudgetExact
<1>6. used' \in Nat /\ used' = Cardinality(leases') + otherUsed' /\ used' <= Limit
  BY <1>1, <1>3, <1>4, <1>5, SMTT(30)
<1> QED
  BY <1>6 DEF BudgetExact

(* The core that a critical section leaves is accounted for. *)
LEMMA BecomesStep ==
    ASSUME Counts, BudgetExact, LeasesYieldAndArePinned, UNCHANGED otherUsed,
           NEW c, CoreTypes(c),
           (c.pins = windowPins /\ c.leases \subseteq leases) \/ (c.pins = {} /\ c.leases = {}),
           c.anchor = None => c.pins = {} /\ c.leases = {},
           NEW counts, NEW held, \A p \in Pieces : held[p] \in Nat /\ counts[p] = held[p] + One(p, windowPins),
           Becomes(c, counts)
    PROVE  /\ PlaceTypes' /\ NoAnchorNoWindow' /\ BudgetExact'
           /\ refs' \in [Pieces -> Nat] /\ \A p \in Pieces : refs'[p] = held[p] + One(p, windowPins')
           /\ windowPins' \subseteq Pieces /\ leases' \subseteq Pieces /\ used' \in Nat /\ state' \in States
           /\ leases' \subseteq leases /\ leases' \subseteq windowPins'
<1>1. /\ anchor' = c.anchor /\ confirmed' = c.confirmed /\ consumed' = c.consumed
      /\ candidate' = c.candidate /\ windowPins' = c.pins /\ leases' = c.leases /\ state' = c.state
      /\ refs' = Released(counts, windowPins \ c.pins)
      /\ used' = used - Cardinality(leases \ c.leases)
  BY DEF Becomes
<1>2. PlaceTypes' /\ NoAnchorNoWindow' /\ state' \in States
  BY <1>1 DEF CoreTypes, PlaceTypes, NoAnchorNoWindow
<1>3. /\ windowPins' \subseteq windowPins /\ leases' \subseteq leases /\ leases' \subseteq windowPins'
      /\ windowPins \subseteq Pieces /\ leases \subseteq Pieces
  BY <1>1 DEF LeasesYieldAndArePinned, Counts
<1>4. used' \in Nat /\ BudgetExact'
  BY <1>1, <1>3, BudgetShrinks
<1>5. ASSUME NEW p \in Pieces
      PROVE  refs'[p] = held[p] + One(p, windowPins') /\ refs'[p] \in Nat
  <2>1. refs'[p] = IF p \in windowPins \ windowPins' THEN Max2(0, counts[p] - 1) ELSE counts[p]
    BY <1>1 DEF Released
  <2>2. held[p] \in Nat /\ counts[p] = held[p] + One(p, windowPins)
    OBVIOUS
  <2>3. CASE p \in windowPins \ windowPins'
    <3>1. counts[p] = held[p] + 1 /\ One(p, windowPins') = 0
      BY <2>2, <2>3 DEF One
    <3>2. refs'[p] = Max2(0, counts[p] - 1)
      BY <2>1, <2>3
    <3> QED
      BY <2>2, <3>1, <3>2, SMTT(30) DEF Max2
  <2>4. CASE p \notin windowPins \ windowPins'
    <3>1. One(p, windowPins) = One(p, windowPins') /\ One(p, windowPins') \in {0, 1}
      BY <1>3, <2>4 DEF One
    <3>2. refs'[p] = counts[p]
      BY <2>1, <2>4
    <3> QED
      BY <2>2, <3>1, <3>2, SMTT(30)
  <2> QED
    BY <2>3, <2>4
<1>6. refs' \in [Pieces -> Nat]
  <2>1. refs' = [p \in Pieces |-> refs'[p]]
    BY <1>1 DEF Released
  <2> QED
    BY <1>5, <2>1
<1> QED
  BY <1>2, <1>3, <1>4, <1>5, <1>6

-----------------------------------------------------------------------------
(* Steps of a read that leave the anchor, the candidate and what their        *)
(* tickets say of them alone.                                                 *)
SameRead(t, u) ==
    /\ u.listed = t.listed /\ u.live = t.live /\ u.current = t.current /\ u.candidate = t.candidate
    /\ u.file = t.file /\ u.kind = t.kind /\ u.range = t.range /\ u.pinned = t.pinned

Kept(x, y, q) == SameRead(x[q], y[q])

Differs(x, y, r) ==
    /\ y \in [Readers -> Tickets]
    /\ \A q \in Readers \ {r} : y[q] = x[q]
    /\ Kept(x, y, r)

WithActive(t, a) == [t EXCEPT !.active = a]
WithTodo(t, a) == [t EXCEPT !.todo = a]
WithRead(t, a) == [t EXCEPT !.read = a]

(* A read notes in its ticket what it waits for, *)
LEMMA ActiveFacts ==
    ASSUME NEW t \in Tickets, NEW a \in SUBSET Pieces
    PROVE  LET u == WithActive(t, a)
           IN  u \in Tickets /\ SameRead(t, u) /\ u.active = a /\ u.todo = t.todo /\ u.read = t.read
BY SMTT(30) DEF Tickets, WithActive, SameRead

(* what is left, *)
LEMMA TodoFacts ==
    ASSUME NEW t \in Tickets, NEW a \in SUBSET Pieces
    PROVE  LET u == WithTodo(t, a)
           IN  u \in Tickets /\ SameRead(t, u) /\ u.active = t.active /\ u.todo = a /\ u.read = t.read
BY SMTT(30) DEF Tickets, WithTodo, SameRead

(* and what it has read: it stays the ticket of the same read. *)
LEMMA ReadFacts ==
    ASSUME NEW t \in Tickets, NEW a \in SUBSET Nat
    PROVE  LET u == WithRead(t, a)
           IN  u \in Tickets /\ SameRead(t, u) /\ u.active = t.active /\ u.todo = t.todo /\ u.read = a
BY SMTT(30) DEF Tickets, WithRead, SameRead

(* The others' tickets do not change with it. *)
LEMMA TicketPut ==
    ASSUME NEW x \in [Readers -> Tickets], NEW r \in Readers, NEW t \in Tickets, SameRead(x[r], t),
           NEW y, y = [x EXCEPT ![r] = t]
    PROVE  Differs(x, y, r) /\ y[r] = t
BY DEF Differs, Kept, SameRead

(* What is said of anchor and candidate goes on to hold. *)
LEMMA PlacesKept ==
    ASSUME IInv, \A q \in Readers : Kept(ticket, ticket', q), UNCHANGED <<anchor, confirmed, candidate>>,
           \A q \in Readers : pc[q] # "closed" => pc'[q] # "closed"
    PROVE  WindowReadsOfAnchor' /\ SeekReadsOfCandidate' /\ UnconfirmedIsRead' /\ PlacesHeldOpen'
<1>1. WindowReadsOfAnchor'
  BY DEF IInv, WindowReadsOfAnchor, Kept, SameRead
<1>2. SeekReadsOfCandidate'
  BY DEF IInv, SeekReadsOfCandidate, Kept, SameRead
<1>3. UnconfirmedIsRead'
  BY DEF IInv, UnconfirmedIsRead, Listed, Kept, SameRead
<1>4. PlacesHeldOpen'
  BY DEF IInv, PlacesHeldOpen, HeldOpen, Kept, SameRead
<1> QED
  BY <1>1, <1>2, <1>3, <1>4

(* The coordinator sleeps in step when it is woken, and when nothing changes *)
(* but that pieces leave the cache.                                          *)
LEMMA SleepKept ==
    ASSUME SleepsInStep,
           \/ wake' = TRUE
           \/ UNCHANGED <<anchor, wake, windowPins, leases, state>> /\ cached' \subseteq cached
    PROVE  SleepsInStep'
<1>1. CASE wake' = TRUE
  BY <1>1 DEF SleepsInStep
<1>2. CASE UNCHANGED <<anchor, wake, windowPins, leases, state>> /\ cached' \subseteq cached
  <2>1. DesiredPieces' = DesiredPieces
    BY <1>2 DEF DesiredPieces, Window, WindowEnd, PieceOf
  <2> QED
    BY <1>2, <2>1 DEF SleepsInStep
<1> QED
  BY <1>1, <1>2

(* A read that goes on keeps what is said of the readers and their tickets.   *)
LEMMA ReadGoesOn ==
    ASSUME IInv, NEW r \in Readers, pc[r] \in Busy,
           NEW next \in Busy, pc' = [pc EXCEPT ![r] = next],
           Differs(ticket, ticket', r),
           ticket'[r].read \ ticket[r].read \subseteq ticket[r].range,
           ~ticket[r].listed \/ next # "fetching" => ticket'[r].active = {},
           next = "fetching" => ticket'[r].todo # {},
           UNCHANGED <<anchor, confirmed, consumed, candidate, handles>>
    PROVE  /\ PlaceTypes' /\ TicketTypes' /\ PcTypes' /\ TicketsInUse' /\ HandlesExact'
           /\ WindowReadsOfAnchor' /\ SeekReadsOfCandidate' /\ UnconfirmedIsRead' /\ PlacesHeldOpen'
           /\ \A p : Pinners(p)' = Pinners(p)
<1>1. /\ pc \in [Readers -> {"closed", "open", "reading", "fetching", "failed", "releasing"}]
      /\ \A q \in Readers : Kept(ticket, ticket', q)
      /\ \A q \in Readers \ {r} : ticket'[q] = ticket[q] /\ pc'[q] = pc[q]
      /\ pc'[r] = next
  BY DEF IInv, PcTypes, Differs, Kept, SameRead
<1>2. PcTypes'
  BY <1>1 DEF PcTypes, Busy
<1>3. TicketTypes'
  <2>1. ASSUME NEW q \in Readers
        PROVE  /\ ticket'[q].file = None => ticket'[q].range = {} /\ ticket'[q].read = {}
               /\ ticket'[q].file # None => ticket'[q].range \cup ticket'[q].read \subseteq Offsets(ticket'[q].file)
    <3>1. CASE q = r
      BY <1>1, <3>1 DEF IInv, TicketTypes, Kept, SameRead
    <3>2. CASE q # r
      BY <1>1, <3>2 DEF IInv, TicketTypes
    <3> QED
      BY <3>1, <3>2
  <2> QED
    BY <2>1 DEF TicketTypes, Differs
<1>4. TicketsInUse'
  <2>1. ASSUME NEW q \in Readers
        PROVE  /\ ticket'[q].listed => pc'[q] \in Busy
               /\ pc'[q] \in Busy /\ ticket'[q].live => ticket'[q].listed
               /\ ~ticket'[q].listed \/ pc'[q] # "fetching" => ticket'[q].active = {}
               /\ pc'[q] = "fetching" => ticket'[q].todo # {}
               /\ ~ticket'[q].listed => ticket'[q].pinned = {}
               /\ pc'[q] # "closed" => ticket'[q].file # None
    <3>1. CASE q = r
      BY <1>1, <3>1 DEF IInv, TicketsInUse, Kept, SameRead, Busy
    <3>2. CASE q # r
      BY <1>1, <3>2 DEF IInv, TicketsInUse
    <3> QED
      BY <3>1, <3>2
  <2> QED
    BY <2>1 DEF TicketsInUse
<1>5. HandlesExact'
  <2>1. ASSUME NEW f \in Files PROVE Holders(f)' = Holders(f)
    BY <1>1 DEF Holders, Kept, SameRead
  <2> QED
    BY <2>1 DEF IInv, HandlesExact
<1>6. \A p : Pinners(p)' = Pinners(p)
  BY <1>1 DEF Pinners, Listed, Kept, SameRead
<1>7. PlaceTypes'
  BY DEF IInv, PlaceTypes
<1>8. WindowReadsOfAnchor' /\ SeekReadsOfCandidate' /\ UnconfirmedIsRead' /\ PlacesHeldOpen'
  <2>1. \A q \in Readers : pc[q] # "closed" => pc'[q] # "closed"
    BY <1>1 DEF Busy
  <2> QED
    BY <1>1, <2>1, PlacesKept
<1> QED
  BY <1>2, <1>3, <1>4, <1>5, <1>6, <1>7, <1>8

(* The accounts go on to hold when nothing is pinned, leased or waited for.   *)
LEMMA AccountsKept ==
    ASSUME IInv, \A p : Pinners(p)' = Pinners(p), \A p : Waiters(p)' = Waiters(p),
           UNCHANGED <<anchor, refs, windowPins, leases, foregroundPieces, used, otherUsed>>
    PROVE  ReferencesExact' /\ BudgetExact' /\ LeasesYieldAndArePinned' /\ NoAnchorNoWindow'
<1>1. ReferencesExact'
  BY DEF IInv, ReferencesExact, Pinners, Waiters
<1>2. BudgetExact' /\ LeasesYieldAndArePinned' /\ NoAnchorNoWindow'
  BY DEF IInv, BudgetExact, LeasesYieldAndArePinned, NoAnchorNoWindow
<1> QED
  BY <1>1, <1>2

(* The next piece of a read is a piece of the torrent. *)
LEMMA NextPiece ==
    ASSUME IInv, NEW r \in Readers, ticket[r].todo # {}
    PROVE  Min(ticket[r].todo) \in Pieces /\ ticket[r].todo \in SUBSET Pieces
<1>1. ticket[r].todo \in SUBSET Pieces
  BY DEF IInv, TicketTypes, Tickets
<1>2. ticket[r].todo \in SUBSET Nat
  BY <1>1, PieceFacts
<1> QED
  BY <1>1, <1>2, MinFacts

(* What a read reads of a piece is within its range. *)
LEMMA ReadOffsets ==
    ASSUME IInv, NEW r \in Readers, NEW S
    PROVE  LET n == ticket[r].read \cup Within(ticket[r].file, ticket[r].range, S)
           IN  n \in SUBSET Nat /\ n \ ticket[r].read \subseteq ticket[r].range
BY DEF IInv, TicketTypes, Tickets, Within

(* The coordinator starts with nothing. *)
LEMMA InitIInv == Init => IInv
<1> SUFFICES ASSUME Init PROVE IInv
  OBVIOUS
<1>1. NoTicket \in Tickets
  BY SMTT(30) DEF NoTicket, Tickets
<1>2. /\ NoTicket.listed = FALSE /\ NoTicket.file = None /\ NoTicket.range = {} /\ NoTicket.read = {}
      /\ NoTicket.active = {} /\ NoTicket.pinned = {} /\ NoTicket.current = FALSE /\ NoTicket.candidate = FALSE
  BY DEF NoTicket
<1>3. /\ ticket \in [Readers -> Tickets] /\ \A r \in Readers : ticket[r] = NoTicket /\ pc[r] = "closed"
  BY <1>1 DEF Init
<1>4. Listed = {}
  BY <1>2, <1>3 DEF Listed
<1>5. PlaceTypes /\ PcTypes
  BY DEF Init, PlaceTypes, IsAnchor, IsCandidate, PcTypes
<1>6. TicketTypes
  BY <1>2, <1>3 DEF TicketTypes
<1>7. Counts
  <2>1. 0 \in Nat
    BY SMTT(30)
  <2> QED
    BY <2>1 DEF Init, Counts
<1>8. TicketsInUse
  BY <1>2, <1>3 DEF TicketsInUse, Busy
<1>9. HandlesExact
  <2>1. ASSUME NEW f \in Files PROVE Holders(f) = {} /\ handles[f] = 0
    BY <1>3 DEF Init, Holders, Busy
  <2> QED
    BY <2>1, FS_EmptySet DEF HandlesExact
<1>10. ReferencesExact
  <2>1. ASSUME NEW p \in Pieces
        PROVE  /\ {r \in Listed : p \in ticket[r].pinned} = {} /\ {r \in Listed : p \in ticket[r].active} = {}
               /\ refs[p] = 0 /\ foregroundPieces[p] = 0 /\ (IF p \in windowPins THEN 1 ELSE 0) = 0
    BY <1>4 DEF Init
  <2>2. Cardinality({}) = 0 /\ 0 + 0 = 0
    BY FS_EmptySet, SMTT(30)
  <2> QED
    BY <2>1, <2>2 DEF ReferencesExact
<1>11. BudgetExact /\ LeasesYieldAndArePinned /\ NoAnchorNoWindow
  <2>1. Cardinality({}) = 0 /\ 0 + 0 = 0 /\ 0 <= Limit
    BY FS_EmptySet, PrefetchAssumption, SMTT(30)
  <2> QED
    BY <2>1 DEF Init, BudgetExact, LeasesYieldAndArePinned, NoAnchorNoWindow
<1>12. WindowReadsOfAnchor /\ SeekReadsOfCandidate
  BY <1>2, <1>3 DEF WindowReadsOfAnchor, SeekReadsOfCandidate
<1>13. UnconfirmedIsRead /\ PlacesHeldOpen /\ SleepsInStep
  BY DEF Init, UnconfirmedIsRead, PlacesHeldOpen, SleepsInStep
<1> QED
  BY <1>5, <1>6, <1>7, <1>8, <1>9, <1>10, <1>11, <1>12, <1>13 DEF IInv

(* A read whose context ended fails. *)
LEMMA StaleSpanKeeps ==
    ASSUME IInv, NEW r \in Readers, StaleSpan(r)
    PROVE  IInv'
<1>1. /\ pc[r] \in Busy /\ "failed" \in Busy /\ pc' = [pc EXCEPT ![r] = "failed"] /\ pc[r] # "fetching"
      /\ UNCHANGED <<anchor, confirmed, consumed, candidate, handles>>
      /\ UNCHANGED <<refs, windowPins, leases, foregroundPieces, used, otherUsed>>
      /\ UNCHANGED <<state, otherPins, cached, wake>> /\ UNCHANGED ticket
  BY DEF StaleSpan, Busy, coordVars, envVars
<1>2. Differs(ticket, ticket', r)
  BY <1>1 DEF Differs, Kept, SameRead, IInv, TicketTypes
<1>3. ticket'[r].active = {} /\ ticket'[r].read \ ticket[r].read \subseteq ticket[r].range
  BY <1>1 DEF IInv, TicketsInUse
<1>4. /\ PlaceTypes' /\ TicketTypes' /\ PcTypes' /\ TicketsInUse' /\ HandlesExact'
      /\ WindowReadsOfAnchor' /\ SeekReadsOfCandidate' /\ UnconfirmedIsRead' /\ PlacesHeldOpen'
      /\ \A p : Pinners(p)' = Pinners(p)
  BY <1>1, <1>2, <1>3, ReadGoesOn
<1>5. \A p : Waiters(p)' = Waiters(p)
  BY <1>1 DEF Waiters, Listed
<1>6. Counts'
  BY <1>1 DEF IInv, Counts
<1>7. SleepsInStep'
  BY <1>1, SleepKept DEF IInv
<1> QED
  BY <1>1, <1>4, <1>5, <1>6, <1>7, AccountsKept DEF IInv

(* A read of a resident piece goes on to the next. *)
LEMMA HitKeeps ==
    ASSUME IInv, NEW r \in Readers, NEW ok \in BOOLEAN, Hit(r, ok)
    PROVE  IInv'
<1> DEFINE p == Min(ticket[r].todo)
           todo == ticket[r].todo \ {p}
           read == ticket[r].read \cup Within(ticket[r].file, ticket[r].range, {p})
           next == IF ok THEN "reading" ELSE "failed"
           t == WithTodo(ticket[r], todo)
           u == WithRead(t, read)
<1>1. /\ pc[r] \in Busy /\ next \in Busy /\ next # "fetching" /\ pc[r] # "fetching"
      /\ pc' = [pc EXCEPT ![r] = next] /\ ticket[r].todo # {}
      /\ UNCHANGED <<anchor, confirmed, consumed, candidate, handles>>
      /\ UNCHANGED <<refs, windowPins, leases, foregroundPieces, used, otherUsed>>
      /\ UNCHANGED <<state, otherPins, cached, wake>>
  BY DEF Hit, Busy, envVars
<1>2. ticket \in [Readers -> Tickets] /\ ticket[r] \in Tickets
  BY DEF IInv, TicketTypes
<1>3. ticket' = [ticket EXCEPT ![r] = u]
  BY <1>2 DEF Hit, WithTodo, WithRead
<1>4. todo \in SUBSET Pieces /\ read \in SUBSET Nat /\ read \ ticket[r].read \subseteq ticket[r].range
  <2>1. todo \in SUBSET Pieces
    BY <1>1, NextPiece
  <2> QED
    BY <2>1, ReadOffsets
<1> HIDE DEF p, todo, read, next
<1>5. t \in Tickets /\ SameRead(ticket[r], t) /\ t.active = ticket[r].active
  BY <1>2, <1>4, TodoFacts
<1> HIDE DEF t
<1>6. u \in Tickets /\ SameRead(t, u) /\ u.active = t.active /\ u.read = read
  BY <1>4, <1>5, ReadFacts
<1> HIDE DEF u
<1>7. SameRead(ticket[r], u)
  BY <1>5, <1>6 DEF SameRead
<1>8. Differs(ticket, ticket', r) /\ ticket'[r] = u
  BY <1>2, <1>3, <1>6, <1>7, TicketPut
<1>9. ticket'[r].active = ticket[r].active /\ ticket'[r].active = {}
  BY <1>1, <1>5, <1>6, <1>8 DEF IInv, TicketsInUse
<1>10. /\ PlaceTypes' /\ TicketTypes' /\ PcTypes' /\ TicketsInUse' /\ HandlesExact'
       /\ WindowReadsOfAnchor' /\ SeekReadsOfCandidate' /\ UnconfirmedIsRead' /\ PlacesHeldOpen'
       /\ \A q : Pinners(q)' = Pinners(q)
  BY <1>1, <1>4, <1>6, <1>8, <1>9, ReadGoesOn
<1>11. \A q : Waiters(q)' = Waiters(q)
  BY <1>8, <1>9 DEF Waiters, Listed, Differs, Kept, SameRead
<1>12. Counts'
  BY <1>1 DEF IInv, Counts
<1>13. SleepsInStep'
  BY <1>1, SleepKept DEF IInv
<1> QED
  BY <1>1, <1>10, <1>11, <1>12, <1>13, AccountsKept DEF IInv

(* A read that waits for a piece takes over its lease. *)
LEMMA StartPieceKeeps ==
    ASSUME IInv, NEW r \in Readers, StartPiece(r)
    PROVE  IInv'
<1>1. PICK p : p = Min(ticket[r].todo)
  OBVIOUS
<1> DEFINE u == WithActive(ticket[r], {p})
<1>2. /\ pc[r] = "reading" /\ ticket[r].live /\ ticket[r].todo # {}
      /\ pc' = [pc EXCEPT ![r] = "fetching"]
      /\ foregroundPieces' = [foregroundPieces EXCEPT ![p] = @ + 1]
      /\ leases' = leases \ {p} /\ used' = used - Cardinality(leases \cap {p})
      /\ wake' = TRUE
      /\ UNCHANGED <<anchor, confirmed, consumed, candidate, handles>>
      /\ UNCHANGED <<refs, windowPins, otherUsed, state, otherPins, cached>>
  BY <1>1 DEF StartPiece, Signal, envVars
<1>3. ticket \in [Readers -> Tickets] /\ ticket[r] \in Tickets
  BY DEF IInv, TicketTypes
<1>4. ticket' = [ticket EXCEPT ![r] = u]
  BY <1>1, <1>3 DEF StartPiece, WithActive
<1>5. p \in Pieces
  BY <1>1, <1>2, NextPiece
<1>6. u \in Tickets /\ SameRead(ticket[r], u) /\ u.active = {p} /\ u.todo = ticket[r].todo /\ u.read = ticket[r].read
  BY <1>3, <1>5, ActiveFacts
<1> HIDE DEF u
<1>7. Differs(ticket, ticket', r) /\ ticket'[r] = u
  BY <1>3, <1>4, <1>6, TicketPut
<1>8. r \in Listed /\ ticket[r].active = {} /\ pc[r] \in Busy /\ "fetching" \in Busy
  BY <1>2 DEF IInv, TicketsInUse, Listed, Busy
<1>9. /\ PlaceTypes' /\ TicketTypes' /\ PcTypes' /\ TicketsInUse' /\ HandlesExact'
      /\ WindowReadsOfAnchor' /\ SeekReadsOfCandidate' /\ UnconfirmedIsRead' /\ PlacesHeldOpen'
      /\ \A q : Pinners(q)' = Pinners(q)
  <2>1. /\ ticket'[r].read \ ticket[r].read \subseteq ticket[r].range /\ ticket'[r].todo # {}
        /\ ~ticket[r].listed \/ "fetching" # "fetching" => ticket'[r].active = {}
    BY <1>2, <1>6, <1>7, <1>8 DEF Listed
  <2> QED
    BY <1>2, <1>7, <1>8, <2>1, ReadGoesOn
<1>10. /\ Waiters(p)' = Waiters(p) \cup {r} /\ r \notin Waiters(p)
       /\ \A q : q # p => Waiters(q)' = Waiters(q)
  <2>1. ASSUME NEW q, NEW x PROVE x \in Waiters(q)' <=> x \in Waiters(q) \/ (x = r /\ q = p)
    <3>1. /\ x \in Waiters(q) <=> x \in Readers /\ ticket[x].listed /\ q \in ticket[x].active
          /\ x \in Waiters(q)' <=> x \in Readers /\ ticket'[x].listed /\ q \in ticket'[x].active
      BY DEF Waiters, Listed
    <3>2. /\ ticket'[r].listed /\ ticket[r].active = {} /\ ticket'[r].active = {p}
          /\ \A y \in Readers \ {r} : ticket'[y] = ticket[y]
      BY <1>6, <1>7, <1>8 DEF Listed, Differs, Kept, SameRead
    <3> QED
      BY <3>1, <3>2
  <2>2. r \notin Waiters(p)
    BY <1>8 DEF Waiters
  <2>3. Waiters(p)' = Waiters(p) \cup {r}
    <3>1. \A x : x \in Waiters(p)' <=> x \in Waiters(p) \cup {r}
      BY <2>1
    <3> QED
      BY <3>1, SMTT(30)
  <2>4. ASSUME NEW q, q # p PROVE Waiters(q)' = Waiters(q)
    <3>1. \A x : x \in Waiters(q)' <=> x \in Waiters(q)
      BY <2>1, <2>4
    <3> QED
      BY <3>1, SMTT(30)
  <2> QED
    BY <2>2, <2>3, <2>4
<1>11. ASSUME NEW q \in Pieces
       PROVE  /\ foregroundPieces'[q] = Cardinality(Waiters(q)')
              /\ foregroundPieces'[q] = IF q = p THEN foregroundPieces[q] + 1 ELSE foregroundPieces[q]
              /\ foregroundPieces'[q] \in Nat
  <2>1. foregroundPieces[q] \in Nat /\ foregroundPieces[q] = Cardinality(Waiters(q))
    BY DEF IInv, Counts, ReferencesExact, Waiters
  <2>2. foregroundPieces'[q] = IF q = p THEN foregroundPieces[q] + 1 ELSE foregroundPieces[q]
    BY <1>2 DEF IInv, Counts
  <2>3. Cardinality(Waiters(p)') = Cardinality(Waiters(p)) + 1
    <3>1. IsFiniteSet(Waiters(p))
      BY PinnersFacts
    <3>2. Cardinality(Waiters(p) \cup {r}) = Cardinality(Waiters(p)) + 1
      BY <1>10, <3>1, FS_AddElement
    <3> QED
      BY <1>10, <3>2
  <2>4. CASE q = p
    <3>1. /\ foregroundPieces[p] \in Nat /\ foregroundPieces'[p] = foregroundPieces[p] + 1
          /\ foregroundPieces'[p] = Cardinality(Waiters(p)')
      BY <2>1, <2>2, <2>3, <2>4
    <3>2. foregroundPieces'[p] \in Nat
      BY <3>1, SMTT(30)
    <3> QED
      BY <2>2, <2>4, <3>1, <3>2
  <2>5. CASE q # p
    BY <1>10, <2>1, <2>2, <2>5
  <2> QED
    BY <2>2, <2>4, <2>5
<1>12. ReferencesExact'
  BY <1>2, <1>9, <1>11 DEF IInv, ReferencesExact, Pinners, Waiters
<1>13. used' \in Nat /\ BudgetExact'
  <2>1. leases \ (leases \ {p}) = leases \cap {p} /\ leases \ {p} \subseteq leases
    BY SMTT(30)
  <2> QED
    BY <1>2, <2>1, BudgetShrinks DEF IInv
<1>14. LeasesYieldAndArePinned' /\ NoAnchorNoWindow'
  BY <1>2, <1>11 DEF IInv, LeasesYieldAndArePinned, NoAnchorNoWindow, Counts
<1>15. Counts'
  <2>1. foregroundPieces' \in [Pieces -> Nat]
    <3>1. foregroundPieces' = [q \in Pieces |-> foregroundPieces'[q]]
      BY <1>2 DEF IInv, Counts
    <3> QED
      BY <1>11, <3>1
  <2> QED
    BY <1>2, <1>13, <2>1 DEF IInv, Counts
<1>16. SleepsInStep'
  BY <1>2, SleepKept DEF IInv
<1> QED
  BY <1>9, <1>12, <1>13, <1>14, <1>15, <1>16 DEF IInv

(* Once it has it, or has failed to, nothing waits for the piece on its behalf. *)
LEMMA FinishPieceKeeps ==
    ASSUME IInv, NEW r \in Readers, NEW ok \in BOOLEAN, FinishPiece(r, ok)
    PROVE  IInv'
<1> DEFINE p == Min(ticket[r].todo)
           todo == IF ok THEN ticket[r].todo \ {p} ELSE ticket[r].todo
           read == IF ok THEN ticket[r].read \cup Within(ticket[r].file, ticket[r].range, {p}) ELSE ticket[r].read
           next == IF ok THEN "reading" ELSE "failed"
           s == WithActive(ticket[r], {})
           t == WithTodo(s, todo)
           u == WithRead(t, read)
<1>1. /\ pc[r] = "fetching" /\ pc[r] \in Busy /\ next \in Busy /\ next # "fetching"
      /\ pc' = [pc EXCEPT ![r] = next]
      /\ foregroundPieces' = [q \in Pieces |-> foregroundPieces[q] - One(q, ticket[r].active)]
      /\ cached' = (IF ok THEN cached \cup {p} ELSE cached) /\ wake' = TRUE
      /\ UNCHANGED <<anchor, confirmed, consumed, candidate, handles>>
      /\ UNCHANGED <<refs, windowPins, leases, used, otherUsed, state, otherPins>>
  BY DEF FinishPiece, Signal, Busy, One
<1>2. ticket \in [Readers -> Tickets] /\ ticket[r] \in Tickets
  BY DEF IInv, TicketTypes
<1>3. ticket' = [ticket EXCEPT ![r] = u]
  BY <1>2 DEF FinishPiece, WithActive, WithTodo, WithRead
<1>4. /\ p \in Pieces /\ todo \in SUBSET Pieces
      /\ read \in SUBSET Nat /\ read \ ticket[r].read \subseteq ticket[r].range
  <2>1. ticket[r].todo # {}
    BY <1>1 DEF IInv, TicketsInUse
  <2>2. p \in Pieces /\ todo \in SUBSET Pieces
    BY <2>1, NextPiece
  <2>3. ticket[r].read \in SUBSET Nat
    BY <1>2 DEF Tickets
  <2> QED
    BY <2>2, <2>3, ReadOffsets
<1> HIDE DEF p, todo, read, next
<1>5. s \in Tickets /\ SameRead(ticket[r], s) /\ s.active = {}
  BY <1>2, ActiveFacts
<1> HIDE DEF s
<1>6. t \in Tickets /\ SameRead(s, t) /\ t.active = s.active
  BY <1>4, <1>5, TodoFacts
<1> HIDE DEF t
<1>7. u \in Tickets /\ SameRead(t, u) /\ u.active = t.active /\ u.read = read
  BY <1>4, <1>6, ReadFacts
<1> HIDE DEF u
<1>8. SameRead(ticket[r], u) /\ u.active = {}
  BY <1>5, <1>6, <1>7 DEF SameRead
<1>9. Differs(ticket, ticket', r) /\ ticket'[r] = u
  BY <1>2, <1>3, <1>7, <1>8, TicketPut
<1>10. /\ PlaceTypes' /\ TicketTypes' /\ PcTypes' /\ TicketsInUse' /\ HandlesExact'
       /\ WindowReadsOfAnchor' /\ SeekReadsOfCandidate' /\ UnconfirmedIsRead' /\ PlacesHeldOpen'
       /\ \A q : Pinners(q)' = Pinners(q)
  <2>1. ticket'[r].read \ ticket[r].read \subseteq ticket[r].range /\ ticket'[r].active = {}
    BY <1>4, <1>7, <1>8, <1>9
  <2> QED
    BY <1>1, <1>9, <2>1, ReadGoesOn
<1>11. ASSUME NEW q \in Pieces
       PROVE  /\ foregroundPieces'[q] = Cardinality(Waiters(q)') /\ foregroundPieces'[q] \in Nat
              /\ foregroundPieces[q] = 0 => foregroundPieces'[q] = 0
  <2>1. foregroundPieces[q] \in Nat /\ foregroundPieces[q] = Cardinality(Waiters(q))
    BY DEF IInv, Counts, ReferencesExact, Waiters
  <2>2. foregroundPieces'[q] = foregroundPieces[q] - One(q, ticket[r].active)
    BY <1>1
  <2>3. ASSUME NEW x PROVE x \in Waiters(q)' <=> x \in Waiters(q) /\ x # r
    BY <1>8, <1>9 DEF Waiters, Listed, Differs, Kept, SameRead
  <2>4. Waiters(q)' = Waiters(q) \ {r}
    BY <2>3, SMTT(30)
  <2>5. CASE q \in ticket[r].active
    <3>1. r \in Waiters(q) /\ One(q, ticket[r].active) = 1
      BY <2>5 DEF IInv, TicketsInUse, Waiters, Listed, One
    <3>2. Cardinality(Waiters(q)') = Cardinality(Waiters(q)) - 1 /\ Cardinality(Waiters(q)') \in Nat
      <4>1. IsFiniteSet(Waiters(q))
        BY PinnersFacts
      <4>2. Cardinality(Waiters(q) \ {r}) = Cardinality(Waiters(q)) - 1
        BY <3>1, <4>1, FS_RemoveElement
      <4> QED
        BY <2>4, <4>2, PinnersFacts
    <3> QED
      BY <2>1, <2>2, <3>1, <3>2, SMTT(30)
  <2>6. CASE q \notin ticket[r].active
    <3>1. r \notin Waiters(q) /\ One(q, ticket[r].active) = 0
      BY <2>6 DEF Waiters, One
    <3>2. Waiters(q)' = Waiters(q)
      BY <2>4, <3>1, SMTT(30)
    <3> QED
      BY <2>1, <2>2, <3>1, <3>2, SMTT(30)
  <2> QED
    BY <2>5, <2>6
<1>12. ReferencesExact'
  BY <1>1, <1>10, <1>11 DEF IInv, ReferencesExact, Pinners, Waiters
<1>13. BudgetExact' /\ LeasesYieldAndArePinned' /\ NoAnchorNoWindow'
  BY <1>1, <1>11 DEF IInv, BudgetExact, LeasesYieldAndArePinned, NoAnchorNoWindow, Counts
<1>14. Counts'
  <2>1. foregroundPieces' \in [Pieces -> Nat]
    <3>1. foregroundPieces' = [q \in Pieces |-> foregroundPieces'[q]]
      BY <1>1
    <3> QED
      BY <1>11, <3>1
  <2>2. cached' \subseteq Pieces
    BY <1>1, <1>4 DEF IInv, Counts
  <2> QED
    BY <1>1, <2>1, <2>2 DEF IInv, Counts
<1>15. SleepsInStep'
  BY <1>1, SleepKept DEF IInv
<1> QED
  BY <1>10, <1>12, <1>13, <1>14, <1>15 DEF IInv

-----------------------------------------------------------------------------
(* Steps that leave the coordinator alone.                                    *)

(* Nothing changes for the coordinator if no ticket and no reader does. *)
LEMMA NothingMoves ==
    ASSUME IInv, UNCHANGED coordVars, UNCHANGED <<pc, handles, otherUsed>>,
           cached' \subseteq Pieces, otherPins' \in Nat, SleepsInStep'
    PROVE  IInv'
<1>1. /\ UNCHANGED <<anchor, confirmed, consumed, candidate, ticket, pc, handles>>
      /\ UNCHANGED <<refs, windowPins, leases, foregroundPieces, state, used, otherUsed>>
  BY DEF coordVars
<1>2. PlaceTypes' /\ TicketTypes' /\ PcTypes'
  BY <1>1 DEF IInv, PlaceTypes, TicketTypes, PcTypes
<1>3. Counts'
  BY <1>1 DEF IInv, Counts
<1>4. TicketsInUse'
  BY <1>1 DEF IInv, TicketsInUse
<1>5. HandlesExact'
  BY <1>1 DEF IInv, HandlesExact, Holders
<1>6. ReferencesExact' /\ BudgetExact' /\ LeasesYieldAndArePinned' /\ NoAnchorNoWindow'
  <2>1. \A p : Pinners(p)' = Pinners(p) /\ Waiters(p)' = Waiters(p)
    BY <1>1 DEF Pinners, Waiters, Listed
  <2> QED
    BY <1>1, <2>1, AccountsKept
<1>7. WindowReadsOfAnchor' /\ SeekReadsOfCandidate' /\ UnconfirmedIsRead' /\ PlacesHeldOpen'
  <2>1. \A q \in Readers : Kept(ticket, ticket', q)
    BY <1>1 DEF Kept, SameRead
  <2> QED
    BY <1>1, <2>1, PlacesKept
<1> QED
  BY <1>2, <1>3, <1>4, <1>5, <1>6, <1>7 DEF IInv

(* The cancellation of the torrent, the cache and the pins of others. *)
LEMMA SurroundingsKeep ==
    ASSUME IInv,
           \/ Cancel
           \/ \E p \in Pieces : Arrive(p) \/ MarkNotComplete(p) \/ Evict(p)
           \/ \E n \in {-1, 1} : OtherPin(n)
    PROVE  IInv'
<1>1. otherPins \in Nat /\ cached \subseteq Pieces
  BY DEF IInv, Counts
<1>2. CASE Cancel
  <2>1. UNCHANGED coordVars /\ UNCHANGED <<pc, handles, otherUsed, otherPins, cached, wake>>
    BY <1>2 DEF Cancel, envVars
  <2>2. SleepsInStep'
    BY <2>1, SleepKept DEF coordVars, IInv
  <2> QED
    BY <1>1, <2>1, <2>2, NothingMoves
<1>3. ASSUME NEW p \in Pieces, Arrive(p) \/ MarkNotComplete(p) PROVE IInv'
  <2>1. /\ UNCHANGED coordVars /\ UNCHANGED <<pc, handles, otherUsed, otherPins>> /\ wake' = TRUE
        /\ cached' \subseteq Pieces
    BY <1>1, <1>3 DEF Arrive, MarkNotComplete
  <2>2. SleepsInStep'
    BY <2>1, SleepKept DEF IInv
  <2> QED
    BY <1>1, <2>1, <2>2, NothingMoves
<1>4. ASSUME NEW p \in Pieces, Evict(p) PROVE IInv'
  <2>1. /\ UNCHANGED coordVars /\ UNCHANGED <<pc, handles, otherUsed, otherPins, wake>>
        /\ cached' \subseteq cached
    BY <1>4 DEF Evict
  <2>2. SleepsInStep'
    BY <2>1, SleepKept DEF coordVars, IInv
  <2> QED
    BY <1>1, <2>1, <2>2, NothingMoves
<1>5. ASSUME NEW n \in {-1, 1}, OtherPin(n) PROVE IInv'
  <2>1. /\ UNCHANGED coordVars /\ UNCHANGED <<pc, handles, otherUsed, cached, wake>>
        /\ otherPins' = otherPins + n /\ otherPins' >= 0
    BY <1>5 DEF OtherPin
  <2>2. SleepsInStep'
    BY <2>1, SleepKept DEF coordVars, IInv
  <2>3. otherPins' \in Nat
    BY <1>1, <2>1, SMTT(30)
  <2> QED
    BY <1>1, <2>1, <2>2, <2>3, NothingMoves
<1> QED
  BY <1>2, <1>3, <1>4, <1>5

(* Other torrents take and return units of the budget. *)
LEMMA OtherBudgetKeeps ==
    ASSUME IInv, NEW n \in {-1, 1}, OtherBudget(n)
    PROVE  IInv'
<1>1. /\ UNCHANGED <<anchor, confirmed, consumed, candidate, ticket, pc, handles>>
      /\ UNCHANGED <<refs, windowPins, leases, foregroundPieces, state, otherPins, cached, wake>>
      /\ otherUsed' = otherUsed + n /\ used' = used + n /\ otherUsed' >= 0 /\ used' <= Limit
  BY DEF OtherBudget
<1>2. PlaceTypes' /\ TicketTypes' /\ PcTypes'
  BY <1>1 DEF IInv, PlaceTypes, TicketTypes, PcTypes
<1>3. used' \in Nat /\ otherUsed' \in Nat /\ used' = Cardinality(leases) + otherUsed'
  <2>1. /\ used = Cardinality(leases) + otherUsed /\ used \in Nat /\ otherUsed \in Nat
        /\ Cardinality(leases) \in Nat
    BY Countable DEF IInv, Counts, BudgetExact
  <2> QED
    BY <1>1, <2>1, SMTT(30)
<1>4. Counts' /\ BudgetExact'
  BY <1>1, <1>3 DEF IInv, Counts, BudgetExact
<1>5. TicketsInUse'
  BY <1>1 DEF IInv, TicketsInUse
<1>6. HandlesExact'
  BY <1>1 DEF IInv, HandlesExact, Holders
<1>7. ReferencesExact' /\ LeasesYieldAndArePinned' /\ NoAnchorNoWindow'
  BY <1>1 DEF IInv, ReferencesExact, Listed, LeasesYieldAndArePinned, NoAnchorNoWindow
<1>8. WindowReadsOfAnchor' /\ SeekReadsOfCandidate' /\ UnconfirmedIsRead' /\ PlacesHeldOpen'
  <2>1. \A q \in Readers : Kept(ticket, ticket', q)
    BY <1>1 DEF Kept, SameRead
  <2> QED
    BY <1>1, <2>1, PlacesKept
<1>9. SleepsInStep'
  BY <1>1, SleepKept DEF IInv
<1> QED
  BY <1>2, <1>4, <1>5, <1>6, <1>7, <1>8, <1>9 DEF IInv

(* What a reader without a read does is nothing to the others' reads. *)
LEMMA OthersKept ==
    ASSUME IInv, NEW r \in Readers, ~ticket[r].listed, ~ticket'[r].listed,
           \A q \in Readers \ {r} : ticket'[q] = ticket[q],
           UNCHANGED <<anchor, confirmed, candidate>>
    PROVE  /\ WindowReadsOfAnchor' /\ SeekReadsOfCandidate' /\ UnconfirmedIsRead'
           /\ \A p : Pinners(p)' = Pinners(p) /\ Waiters(p)' = Waiters(p)
<1>1. Listed' = Listed /\ r \notin Listed
  <2>1. \A q \in Readers : q = r \/ q \in Readers \ {r}
    OBVIOUS
  <2>2. \A q \in Readers : ticket'[q].listed <=> ticket[q].listed
    BY <2>1
  <2> QED
    BY <2>2 DEF Listed
<1>2. WindowReadsOfAnchor'
  BY DEF IInv, WindowReadsOfAnchor
<1>3. SeekReadsOfCandidate'
  BY DEF IInv, SeekReadsOfCandidate
<1>4. UnconfirmedIsRead'
  BY DEF IInv, UnconfirmedIsRead, Listed
<1>5. \A p : Pinners(p)' = Pinners(p) /\ Waiters(p)' = Waiters(p)
  <2>1. \A q \in Listed : ticket'[q] = ticket[q]
    BY <1>1 DEF Listed
  <2> QED
    BY <1>1, <2>1 DEF Pinners, Waiters
<1> QED
  BY <1>2, <1>3, <1>4, <1>5

-----------------------------------------------------------------------------
(* The tickets of readers without a read, of reads that were cancelled, and   *)
(* of those the coordinator has moved on from.                                *)
FreshTicket(f) == [NoTicket EXCEPT !.file = f]
DroppedTicket(f, d) == [NoTicket EXCEPT !.live = FALSE, !.file = f, !.todo = d]
AgedTicket(t) == [t EXCEPT !.current = FALSE]
ForgottenTicket(t) == [t EXCEPT !.candidate = FALSE]

(* What they say. *)
LEMMA FreshFacts ==
    ASSUME NEW f \in Files \cup {None}
    PROVE  LET t == FreshTicket(f)
           IN  /\ t \in Tickets /\ t.listed = FALSE /\ t.current = FALSE /\ t.candidate = FALSE
               /\ t.file = f /\ t.range = {} /\ t.active = {} /\ t.pinned = {} /\ t.read = {}
<1>1. FreshTicket(f) \in Tickets
  BY DEF FreshTicket, NoTicket, Tickets
<1> QED
  BY <1>1 DEF FreshTicket, NoTicket, Tickets

(* A reader that closes its file has no ticket. *)
LEMMA NoTicketFacts ==
    LET t == NoTicket
    IN  /\ t \in Tickets /\ t.listed = FALSE /\ t.current = FALSE /\ t.candidate = FALSE
        /\ t.file = None /\ t.range = {} /\ t.active = {} /\ t.pinned = {} /\ t.read = {}
<1>1. NoTicket \in Tickets
  BY DEF NoTicket, Tickets
<1> QED
  BY <1>1 DEF NoTicket, Tickets

(* A cancelled read keeps its file and what it has left. *)
LEMMA DroppedFacts ==
    ASSUME NEW f \in Files \cup {None}, NEW d \in SUBSET Pieces
    PROVE  LET t == DroppedTicket(f, d)
           IN  /\ t \in Tickets /\ t.listed = FALSE /\ t.live = FALSE /\ t.current = FALSE /\ t.candidate = FALSE
               /\ t.file = f /\ t.range = {} /\ t.active = {} /\ t.pinned = {} /\ t.read = {} /\ t.todo = d
<1>1. DroppedTicket(f, d) \in Tickets
  BY DEF DroppedTicket, NoTicket, Tickets
<1> QED
  BY <1>1 DEF DroppedTicket, NoTicket, Tickets

(* A new generation changes no more than what is current. *)
LEMMA AgedFacts ==
    ASSUME NEW t \in Tickets
    PROVE  LET u == AgedTicket(t)
           IN  /\ u \in Tickets /\ u.listed = t.listed /\ u.live = t.live /\ u.current = FALSE
               /\ u.candidate = t.candidate /\ u.file = t.file /\ u.kind = t.kind /\ u.range = t.range
               /\ u.pinned = t.pinned /\ u.todo = t.todo /\ u.active = t.active /\ u.read = t.read
<1>1. AgedTicket(t) \in Tickets
  BY DEF AgedTicket, Tickets
<1> QED
  BY <1>1 DEF AgedTicket, Tickets

(* A new candidate no more than what counts for the candidate. *)
LEMMA ForgottenFacts ==
    ASSUME NEW t \in Tickets
    PROVE  LET u == ForgottenTicket(t)
           IN  /\ u \in Tickets /\ u.listed = t.listed /\ u.live = t.live /\ u.current = t.current
               /\ u.candidate = FALSE /\ u.file = t.file /\ u.kind = t.kind /\ u.range = t.range
               /\ u.pinned = t.pinned /\ u.todo = t.todo /\ u.active = t.active /\ u.read = t.read
<1>1. ForgottenTicket(t) \in Tickets
  BY DEF ForgottenTicket, Tickets
<1> QED
  BY <1>1 DEF ForgottenTicket, Tickets

(* Opening a file adds a handle. *)
LEMMA OpenKeeps ==
    ASSUME IInv, NEW r \in Readers, NEW f \in Files, Open(r, f)
    PROVE  IInv'
<1> DEFINE t == FreshTicket(f)
<1>1. /\ pc[r] = "closed" /\ pc' = [pc EXCEPT ![r] = "open"]
      /\ handles' = [handles EXCEPT ![f] = @ + 1] /\ ticket' = [ticket EXCEPT ![r] = t]
      /\ UNCHANGED <<anchor, confirmed, consumed, candidate>>
      /\ UNCHANGED <<refs, windowPins, leases, foregroundPieces, used, otherUsed>>
      /\ UNCHANGED <<state, otherPins, cached, wake>>
  BY DEF Open, FreshTicket, envVars
<1>2. /\ t \in Tickets /\ t.listed = FALSE /\ t.current = FALSE /\ t.candidate = FALSE
      /\ t.file = f /\ t.range = {} /\ t.active = {} /\ t.pinned = {} /\ t.read = {}
  BY FreshFacts
<1> HIDE DEF t
<1>3. /\ ticket' \in [Readers -> Tickets] /\ ticket'[r] = t /\ \A q \in Readers \ {r} : ticket'[q] = ticket[q]
      /\ PcTypes' /\ pc'[r] = "open" /\ \A q \in Readers \ {r} : pc'[q] = pc[q]
  BY <1>1, <1>2 DEF IInv, TicketTypes, PcTypes
<1>4. \A q \in Readers : q = r \/ q \in Readers \ {r}
  OBVIOUS
<1>5. f # None /\ ~ticket[r].listed
  BY <1>1, NoneAssumption DEF IInv, TicketsInUse, Busy
<1>6. TicketTypes'
  BY <1>2, <1>3, <1>4, <1>5 DEF IInv, TicketTypes
<1>7. TicketsInUse'
  BY <1>2, <1>3, <1>4, <1>5 DEF IInv, TicketsInUse, Busy
<1>8. /\ WindowReadsOfAnchor' /\ SeekReadsOfCandidate' /\ UnconfirmedIsRead'
      /\ \A p : Pinners(p)' = Pinners(p) /\ Waiters(p)' = Waiters(p)
  BY <1>1, <1>2, <1>3, <1>5, OthersKept
<1>9. ReferencesExact' /\ BudgetExact' /\ LeasesYieldAndArePinned' /\ NoAnchorNoWindow'
  BY <1>1, <1>8, AccountsKept
<1>10. PlaceTypes' /\ SleepsInStep'
  BY <1>1, SleepKept DEF IInv, PlaceTypes
<1>11. PlacesHeldOpen'
  <2>1. ASSUME NEW g, HeldOpen(g) PROVE HeldOpen(g)'
    BY <1>1, <1>3, <2>1 DEF HeldOpen
  <2> QED
    BY <1>1, <2>1 DEF IInv, PlacesHeldOpen
<1>12. HandlesExact' /\ handles' \in [Files -> Nat]
  <2>1. ASSUME NEW g \in Files PROVE handles'[g] = Cardinality(Holders(g)') /\ handles'[g] \in Nat
    <3>1. handles[g] \in Nat /\ handles[g] = Cardinality(Holders(g))
      BY DEF IInv, Counts, HandlesExact
    <3>2. handles'[g] = IF g = f THEN handles[g] + 1 ELSE handles[g]
      BY <1>1 DEF IInv, Counts
    <3>3. \A x : x \in Holders(g)' <=> x \in Holders(g) \/ (x = r /\ g = f)
      BY <1>1, <1>2, <1>3 DEF Holders, Busy
    <3>4. CASE g = f
      <4>1. Holders(g)' = Holders(g) \cup {r}
        <5>1. \A x : x \in Holders(g)' <=> x \in Holders(g) \cup {r}
          BY <3>3, <3>4
        <5> QED
          BY <5>1, SMTT(30)
      <4>2. r \notin Holders(g) /\ IsFiniteSet(Holders(g))
        BY <1>1, Countable DEF Holders, Busy
      <4>3. Cardinality(Holders(g)') = Cardinality(Holders(g)) + 1
        BY <4>1, <4>2, FS_AddElement
      <4> QED
        BY <3>1, <3>2, <3>4, <4>3, SMTT(30)
    <3>5. CASE g # f
      <4>1. Holders(g)' = Holders(g)
        <5>1. \A x : x \in Holders(g)' <=> x \in Holders(g)
          BY <3>3, <3>5
        <5> QED
          BY <5>1, SMTT(30)
      <4> QED
        BY <3>1, <3>2, <3>5, <4>1
    <3> QED
      BY <3>4, <3>5
  <2>2. handles' = [g \in Files |-> handles'[g]]
    BY <1>1 DEF IInv, Counts
  <2> QED
    BY <2>1, <2>2 DEF HandlesExact
<1>13. Counts'
  BY <1>1, <1>12 DEF IInv, Counts
<1> QED
  BY <1>3, <1>6, <1>7, <1>8, <1>9, <1>10, <1>11, <1>12, <1>13 DEF IInv

(* Closing it drops one; if it was not the last, another reader has it open. *)
LEMMA ReleaseHandleKeeps ==
    ASSUME IInv, NEW r \in Readers, ReleaseHandle(r)
    PROVE  IInv'
<1>1. PICK f : f = ticket[r].file
  OBVIOUS
<1>2. PICK next \in {"releasing", "closed"} :
      /\ next = IF LastHandle(f) THEN "releasing" ELSE "closed"
      /\ pc[r] = "open" /\ pc' = [pc EXCEPT ![r] = next]
      /\ handles' = [handles EXCEPT ![f] = @ - 1]
      /\ UNCHANGED <<anchor, confirmed, consumed, candidate, ticket>>
      /\ UNCHANGED <<refs, windowPins, leases, foregroundPieces, used, otherUsed>>
      /\ UNCHANGED <<state, otherPins, cached, wake>>
  BY <1>1 DEF ReleaseHandle, coordVars, envVars
<1>3. next \in {"releasing", "closed"} /\ (next = "closed" => handles[f] # 1)
  BY <1>2 DEF LastHandle
<1>4. /\ PcTypes' /\ pc'[r] = next /\ \A q \in Readers \ {r} : pc'[q] = pc[q]
  BY <1>2, <1>3 DEF IInv, PcTypes
<1>5. \A q \in Readers : q = r \/ q \in Readers \ {r}
  OBVIOUS
<1>6. f \in Files /\ ~ticket[r].listed
  BY <1>1, <1>2 DEF IInv, TicketsInUse, Busy, TicketTypes, Tickets
<1>7. TicketTypes' /\ PlaceTypes' /\ SleepsInStep'
  BY <1>2, SleepKept DEF IInv, TicketTypes, PlaceTypes
<1>8. TicketsInUse'
  BY <1>2, <1>3, <1>4, <1>5, <1>6 DEF IInv, TicketsInUse, Busy
<1>9. /\ WindowReadsOfAnchor' /\ SeekReadsOfCandidate' /\ UnconfirmedIsRead'
      /\ \A p : Pinners(p)' = Pinners(p) /\ Waiters(p)' = Waiters(p)
  BY <1>2, <1>6, OthersKept
<1>10. ReferencesExact' /\ BudgetExact' /\ LeasesYieldAndArePinned' /\ NoAnchorNoWindow'
  BY <1>2, <1>9, AccountsKept
<1>11. /\ handles[f] \in Nat /\ handles[f] = Cardinality(Holders(f))
       /\ r \in Holders(f) /\ IsFiniteSet(Holders(f))
  BY <1>1, <1>2, <1>6, Countable DEF IInv, Counts, HandlesExact, Holders
<1>12. PlacesHeldOpen'
  <2>1. ASSUME NEW g, HeldOpen(g) PROVE HeldOpen(g)'
    <3>1. PICK q \in Readers : pc[q] # "closed" /\ ticket[q].file = g
      BY <2>1 DEF HeldOpen
    <3>2. CASE q # r
      BY <1>2, <1>4, <3>1, <3>2 DEF HeldOpen
    <3>3. CASE q = r /\ next = "releasing"
      BY <1>2, <1>4, <3>1, <3>3 DEF HeldOpen
    <3>4. CASE q = r /\ next = "closed"
      <4>1. g = f
        BY <1>1, <3>1, <3>4
      <4>2. Holders(f) # {r}
        BY <1>3, <1>11, <3>4, FS_Singleton
      <4>3. PICK x : x \in Holders(f) /\ x # r
        <5>1. \E x : x \in Holders(f) /\ x # r
          BY <1>11, <4>2
        <5> QED
          BY <5>1
      <4>4. x \in Readers \ {r} /\ pc[x] # "closed" /\ ticket[x].file = f
        BY <4>3 DEF Holders, Busy
      <4> QED
        BY <1>2, <1>4, <4>1, <4>4 DEF HeldOpen
    <3> QED
      BY <1>3, <3>2, <3>3, <3>4
  <2> QED
    BY <1>2, <2>1 DEF IInv, PlacesHeldOpen
<1>13. HandlesExact' /\ handles' \in [Files -> Nat]
  <2>1. ASSUME NEW g \in Files PROVE handles'[g] = Cardinality(Holders(g)') /\ handles'[g] \in Nat
    <3>1. handles[g] \in Nat /\ handles[g] = Cardinality(Holders(g)) /\ Cardinality(Holders(g)') \in Nat
      BY Countable DEF IInv, Counts, HandlesExact, Holders
    <3>2. handles'[g] = IF g = f THEN handles[g] - 1 ELSE handles[g]
      BY <1>2 DEF IInv, Counts
    <3>3. \A x : x \in Holders(g)' <=> x \in Holders(g) /\ x # r
      BY <1>2, <1>3, <1>4 DEF Holders, Busy
    <3>4. Holders(g)' = Holders(g) \ {r}
      BY <3>3, SMTT(30)
    <3>5. CASE g = f
      <4>1. Cardinality(Holders(g)') = Cardinality(Holders(g)) - 1
        BY <1>11, <3>4, <3>5, FS_RemoveElement
      <4> QED
        BY <3>1, <3>2, <3>5, <4>1, SMTT(30)
    <3>6. CASE g # f
      <4>1. r \notin Holders(g)
        BY <1>1, <3>6 DEF Holders
      <4>2. Holders(g)' = Holders(g)
        BY <3>4, <4>1, SMTT(30)
      <4> QED
        BY <3>1, <3>2, <3>6, <4>2
    <3> QED
      BY <3>5, <3>6
  <2>2. handles' = [g \in Files |-> handles'[g]]
    BY <1>2 DEF IInv, Counts
  <2> QED
    BY <2>1, <2>2 DEF HandlesExact
<1>14. Counts'
  BY <1>2, <1>13 DEF IInv, Counts
<1> QED
  BY <1>4, <1>7, <1>8, <1>9, <1>10, <1>12, <1>13, <1>14 DEF IInv

-----------------------------------------------------------------------------
(* Tickets that are removed.                                                  *)
DroppedOf(t, u) ==
    /\ u.listed = FALSE /\ u.live = FALSE /\ u.current = FALSE /\ u.candidate = FALSE /\ u.file = t.file
    /\ u.range = {} /\ u.active = {} /\ u.pinned = {} /\ u.read = {} /\ u.todo = t.todo

AgedOf(t, u) ==
    /\ u.listed = t.listed /\ u.live = t.live /\ u.candidate = t.candidate /\ u.file = t.file
    /\ u.kind = t.kind /\ u.range = t.range /\ u.pinned = t.pinned /\ u.todo = t.todo
    /\ u.active = t.active /\ u.read = t.read

RemovedFrom(rs, aged, tk) ==
    /\ tk \in [Readers -> Tickets]
    /\ \A q \in Readers : q \in rs => DroppedOf(ticket[q], tk[q])
    /\ \A q \in Readers : q \notin rs =>
         /\ AgedOf(ticket[q], tk[q])
         /\ ~aged => tk[q].current = ticket[q].current
         /\ aged => tk[q].current = FALSE

(* The tickets of the reads in rs are cancelled, the others at most age. *)
LEMMA RemovedFacts ==
    ASSUME ticket \in [Readers -> Tickets], NEW rs, NEW aged \in BOOLEAN, NEW tk,
           tk = IF aged THEN Aged(RemoveForeground(rs, ticket)) ELSE RemoveForeground(rs, ticket)
    PROVE  RemovedFrom(rs, aged, tk)
<1>1. PICK x : x = RemoveForeground(rs, ticket)
  OBVIOUS
<1>2. x = [q \in Readers |-> IF q \in rs THEN DroppedTicket(ticket[q].file, ticket[q].todo) ELSE ticket[q]]
  BY <1>1 DEF RemoveForeground, DroppedTicket
<1>3. ASSUME NEW q \in Readers
      PROVE  /\ x[q] \in Tickets
             /\ q \in rs => DroppedOf(ticket[q], x[q])
             /\ q \notin rs => x[q] = ticket[q]
  <2>1. ticket[q] \in Tickets /\ ticket[q].file \in Files \cup {None} /\ ticket[q].todo \in SUBSET Pieces
    BY DEF Tickets
  <2>2. x[q] = IF q \in rs THEN DroppedTicket(ticket[q].file, ticket[q].todo) ELSE ticket[q]
    BY <1>2
  <2>3. CASE q \in rs
    <3>1. PICK f \in Files \cup {None}, d \in SUBSET Pieces : f = ticket[q].file /\ d = ticket[q].todo
      BY <2>1
    <3> DEFINE u == DroppedTicket(f, d)
    <3>2. /\ u \in Tickets /\ u.listed = FALSE /\ u.live = FALSE /\ u.current = FALSE /\ u.candidate = FALSE
          /\ u.file = f /\ u.range = {} /\ u.active = {} /\ u.pinned = {} /\ u.read = {} /\ u.todo = d
      BY DroppedFacts
    <3> HIDE DEF u
    <3>3. x[q] = u
      BY <2>2, <2>3, <3>1 DEF u
    <3> QED
      BY <2>3, <3>1, <3>2, <3>3 DEF DroppedOf
  <2>4. CASE q \notin rs
    BY <2>1, <2>2, <2>4
  <2> QED
    BY <2>3, <2>4
<1>4. x \in [Readers -> Tickets]
  BY <1>2, <1>3
<1>5. CASE ~aged
  <2>1. tk = x
    BY <1>1, <1>5
  <2> QED
    BY <1>3, <1>4, <1>5, <2>1 DEF RemovedFrom, AgedOf
<1>6. CASE aged
  <2>1. tk = [q \in Readers |-> AgedTicket(x[q])]
    BY <1>1, <1>6 DEF Aged, AgedTicket
  <2>2. ASSUME NEW q \in Readers
        PROVE  tk[q] \in Tickets /\ AgedOf(x[q], tk[q]) /\ tk[q].current = FALSE
    <3> DEFINE u == AgedTicket(x[q])
    <3>1. tk[q] = u /\ x[q] \in Tickets
      BY <1>3, <2>1
    <3>2. u \in Tickets /\ AgedOf(x[q], u) /\ u.current = FALSE
      <4>1. ASSUME NEW v \in Tickets
            PROVE  AgedOf(v, AgedTicket(v)) /\ AgedTicket(v) \in Tickets /\ AgedTicket(v).current = FALSE
        BY AgedFacts DEF AgedOf
      <4> QED
        BY <3>1, <4>1
    <3> HIDE DEF u
    <3> QED
      BY <3>1, <3>2
  <2>3. tk \in [Readers -> Tickets]
    BY <2>1, <2>2
  <2>4. ASSUME NEW q \in Readers, q \in rs PROVE DroppedOf(ticket[q], tk[q])
    <3>1. DroppedOf(ticket[q], x[q]) /\ AgedOf(x[q], tk[q]) /\ tk[q].current = FALSE
      BY <1>3, <2>2, <2>4
    <3> QED
      BY <3>1 DEF DroppedOf, AgedOf
  <2>5. ASSUME NEW q \in Readers, q \notin rs PROVE AgedOf(ticket[q], tk[q]) /\ tk[q].current = FALSE
    BY <1>3, <2>2, <2>5
  <2> QED
    BY <1>6, <2>3, <2>4, <2>5 DEF RemovedFrom
<1> QED
  BY <1>5, <1>6

(* The handles are the same as long as the same readers have the files open. *)
LEMMA HoldersKept ==
    ASSUME HandlesExact, UNCHANGED handles,
           \A q \in Readers : pc[q] \in Busy \cup {"open"} <=> pc'[q] \in Busy \cup {"open"},
           \A q \in Readers : pc'[q] \in Busy \cup {"open"} => ticket'[q].file = ticket[q].file
    PROVE  HandlesExact'
<1>1. ASSUME NEW f \in Files PROVE Holders(f)' = Holders(f)
  <2>1. \A x : x \in Holders(f)' <=> x \in Holders(f)
    BY DEF Holders
  <2> QED
    BY <2>1, SMTT(30)
<1> QED
  BY <1>1 DEF HandlesExact

(* Readers and tickets after a read r ended, or a file was closed by r. *)
LEMMA TicketsAfter ==
    ASSUME IInv, NEW rs, rs \subseteq Listed, NEW aged, NEW tk, RemovedFrom(rs, aged, tk),
           NEW r \in Readers, r \in rs \/ ~ticket[r].listed,
           NEW t \in Tickets, t.listed = FALSE, t.active = {}, t.pinned = {}, t.range = {}, t.read = {},
           NEW next, pc' = [pc EXCEPT ![r] = next], ticket' = [tk EXCEPT ![r] = t],
           \/ next = "open" /\ pc[r] \in Busy /\ t.file = ticket[r].file
           \/ next = "closed" /\ pc[r] = "releasing",
           UNCHANGED handles
    PROVE  /\ TicketTypes' /\ PcTypes' /\ TicketsInUse' /\ HandlesExact'
           /\ ticket'[r] = t /\ \A q \in Readers \ {r} : ticket'[q] = tk[q] /\ pc'[q] = pc[q]
           /\ OnlyRemoved(rs)
<1>1. /\ tk \in [Readers -> Tickets]
      /\ ticket' \in [Readers -> Tickets] /\ ticket'[r] = t /\ \A q \in Readers \ {r} : ticket'[q] = tk[q]
      /\ PcTypes' /\ pc'[r] = next /\ \A q \in Readers \ {r} : pc'[q] = pc[q]
  BY DEF RemovedFrom, IInv, PcTypes
<1>2. \A q \in Readers : q = r \/ q \in Readers \ {r}
  OBVIOUS
<1>3. ASSUME NEW q \in Readers \ {r}
      PROVE  \/ q \in rs /\ DroppedOf(ticket[q], ticket'[q])
             \/ q \notin rs /\ AgedOf(ticket[q], ticket'[q])
  BY <1>1 DEF RemovedFrom
<1>4. TicketTypes'
  <2>1. ASSUME NEW q \in Readers
        PROVE  /\ ticket'[q].file = None => ticket'[q].range = {} /\ ticket'[q].read = {}
               /\ ticket'[q].file # None => ticket'[q].range \cup ticket'[q].read \subseteq Offsets(ticket'[q].file)
    <3>1. CASE ticket'[q].range = {} /\ ticket'[q].read = {}
      BY <3>1
    <3>2. CASE q # r /\ AgedOf(ticket[q], ticket'[q])
      BY <3>2 DEF AgedOf, IInv, TicketTypes
    <3> QED
      BY <1>1, <1>3, <3>1, <3>2 DEF DroppedOf
  <2> QED
    BY <1>1, <2>1 DEF TicketTypes
<1>5. TicketsInUse'
  <2>1. ASSUME NEW q \in Readers
        PROVE  /\ ticket'[q].listed => pc'[q] \in Busy
               /\ pc'[q] \in Busy /\ ticket'[q].live => ticket'[q].listed
               /\ ~ticket'[q].listed \/ pc'[q] # "fetching" => ticket'[q].active = {}
               /\ pc'[q] = "fetching" => ticket'[q].todo # {}
               /\ ~ticket'[q].listed => ticket'[q].pinned = {}
               /\ pc'[q] # "closed" => ticket'[q].file # None
    <3>1. /\ ticket[q].listed => pc[q] \in Busy
          /\ pc[q] \in Busy /\ ticket[q].live => ticket[q].listed
          /\ ~ticket[q].listed \/ pc[q] # "fetching" => ticket[q].active = {}
          /\ pc[q] = "fetching" => ticket[q].todo # {}
          /\ ~ticket[q].listed => ticket[q].pinned = {}
          /\ pc[q] # "closed" => ticket[q].file # None
      BY DEF IInv, TicketsInUse
    <3>2. CASE q = r
      BY <1>1, <3>1, <3>2 DEF Busy
    <3>3. CASE q # r /\ DroppedOf(ticket[q], ticket'[q])
      BY <1>1, <3>1, <3>3 DEF DroppedOf
    <3>4. CASE q # r /\ AgedOf(ticket[q], ticket'[q])
      BY <1>1, <3>1, <3>4 DEF AgedOf
    <3> QED
      BY <1>3, <3>2, <3>3, <3>4
  <2> QED
    BY <2>1 DEF TicketsInUse
<1>6. HandlesExact'
  <2>1. ASSUME NEW q \in Readers
        PROVE  /\ pc[q] \in Busy \cup {"open"} <=> pc'[q] \in Busy \cup {"open"}
               /\ pc'[q] \in Busy \cup {"open"} => ticket'[q].file = ticket[q].file
    <3>1. CASE q = r
      BY <1>1, <3>1 DEF Busy
    <3>2. CASE q # r
      BY <1>1, <1>3, <3>2 DEF DroppedOf, AgedOf
    <3> QED
      BY <3>1, <3>2
  <2> QED
    BY <2>1, HoldersKept DEF IInv
<1>7. ASSUME NEW q \in Readers, q \in rs PROVE ~ticket'[q].listed
  BY <1>1, <1>3, <1>7 DEF DroppedOf
<1>8. ASSUME NEW q \in Readers \ rs
      PROVE  /\ ticket'[q].listed = ticket[q].listed /\ ticket'[q].pinned = ticket[q].pinned
             /\ ticket'[q].active = ticket[q].active
  <2>1. CASE q = r
    <3>1. ~ticket[r].listed /\ ticket[r].listed \in BOOLEAN
      BY <2>1 DEF IInv, TicketTypes, Tickets
    <3> QED
      BY <1>1, <2>1, <3>1 DEF IInv, TicketsInUse
  <2>2. CASE q # r
    BY <1>3, <2>2 DEF AgedOf
  <2> QED
    BY <2>1, <2>2
<1>9. OnlyRemoved(rs)
  BY <1>7, <1>8 DEF OnlyRemoved, Listed
<1> QED
  BY <1>1, <1>4, <1>5, <1>6, <1>9

(* The accounts after the tickets of rs were removed and the core changed. *)
LEMMA AccountsAfter ==
    ASSUME IInv, UNCHANGED otherUsed, NEW rs, OnlyRemoved(rs),
           NEW c, CoreTypes(c),
           (c.pins = windowPins /\ c.leases \subseteq leases) \/ (c.pins = {} /\ c.leases = {}),
           c.anchor = None => c.pins = {} /\ c.leases = {},
           Becomes(c, RefsWithout(refs, rs)), foregroundPieces' = ForegroundWithout(rs)
    PROVE  /\ PlaceTypes' /\ NoAnchorNoWindow' /\ BudgetExact' /\ ReferencesExact' /\ LeasesYieldAndArePinned'
           /\ refs' \in [Pieces -> Nat] /\ foregroundPieces' \in [Pieces -> Nat]
           /\ windowPins' \subseteq Pieces /\ leases' \subseteq Pieces /\ used' \in Nat /\ state' \in States
<1>1. ASSUME NEW p
      PROVE  /\ Cardinality(Pinners(p)') = Cardinality(Pinners(p)) - Cardinality({r \in rs : p \in ticket[r].pinned})
             /\ Cardinality(Waiters(p)') = Cardinality(Waiters(p)) - Cardinality({r \in rs : p \in ticket[r].active})
  BY ONLY OnlyRemoved(rs), Recount
<1>2. PICK held : held = [p \in Pieces |-> Cardinality(Pinners(p)')]
  OBVIOUS
<1>3. PICK counts : counts = RefsWithout(refs, rs)
  OBVIOUS
<1>4. ASSUME NEW p \in Pieces
      PROVE  /\ held[p] = Cardinality(Pinners(p)') /\ held[p] \in Nat
             /\ counts[p] = held[p] + One(p, windowPins)
             /\ foregroundPieces'[p] = Cardinality(Waiters(p)') /\ foregroundPieces'[p] \in Nat
             /\ foregroundPieces[p] = 0 => foregroundPieces'[p] = 0
  <2> DEFINE A == {r \in rs : p \in ticket[r].pinned}
             B == {r \in rs : p \in ticket[r].active}
  <2>1. counts[p] = refs[p] - Cardinality(A) /\ foregroundPieces'[p] = foregroundPieces[p] - Cardinality(B)
    BY <1>3 DEF RefsWithout, ForegroundWithout
  <2>2. /\ Cardinality(Pinners(p)') = Cardinality(Pinners(p)) - Cardinality(A)
        /\ Cardinality(Waiters(p)') = Cardinality(Waiters(p)) - Cardinality(B)
    BY <1>1
  <2>3. refs[p] = Cardinality(Pinners(p)) + One(p, windowPins) /\ foregroundPieces[p] = Cardinality(Waiters(p))
    BY DEF IInv, ReferencesExact, Pinners, Waiters, One
  <2>4. A \subseteq Readers /\ B \subseteq Readers
    BY DEF Listed, OnlyRemoved
  <2> HIDE DEF A, B
  <2>5. Cardinality(A) \in Nat /\ Cardinality(B) \in Nat
    BY <2>4, Countable
  <2>6. /\ Cardinality(Pinners(p)) \in Nat /\ Cardinality(Waiters(p)) \in Nat
        /\ Cardinality(Pinners(p)') \in Nat /\ Cardinality(Waiters(p)') \in Nat
    BY PinnersFacts
  <2>7. One(p, windowPins) \in Nat
    BY SMTT(30) DEF One
  <2>8. held[p] = Cardinality(Pinners(p)')
    BY <1>2
  <2>9. counts[p] = Cardinality(Pinners(p)') + One(p, windowPins)
    BY <2>1, <2>2, <2>3, <2>5, <2>6, <2>7, SMTT(30)
  <2>10. /\ foregroundPieces'[p] = Cardinality(Waiters(p)') /\ foregroundPieces'[p] \in Nat
         /\ foregroundPieces[p] = 0 => foregroundPieces'[p] = 0
    BY <2>1, <2>2, <2>3, <2>5, <2>6, SMTT(30)
  <2> QED
    BY <2>6, <2>8, <2>9, <2>10
<1>5. /\ PlaceTypes' /\ NoAnchorNoWindow' /\ BudgetExact'
      /\ refs' \in [Pieces -> Nat] /\ \A p \in Pieces : refs'[p] = held[p] + One(p, windowPins')
      /\ windowPins' \subseteq Pieces /\ leases' \subseteq Pieces /\ used' \in Nat /\ state' \in States
      /\ leases' \subseteq leases /\ leases' \subseteq windowPins'
  <2>1. Becomes(c, counts) /\ \A p \in Pieces : held[p] \in Nat /\ counts[p] = held[p] + One(p, windowPins)
    BY <1>3, <1>4
  <2>2. Counts /\ BudgetExact /\ LeasesYieldAndArePinned
    BY DEF IInv
  <2> QED
    BY <2>1, <2>2, BecomesStep
<1>6. ReferencesExact'
  <2>1. \A p \in Pieces : /\ refs'[p] = Cardinality(Pinners(p)') + One(p, windowPins')
                          /\ foregroundPieces'[p] = Cardinality(Waiters(p)')
    BY <1>4, <1>5
  <2> QED
    BY <2>1, PinnersFacts
<1>7. LeasesYieldAndArePinned'
  <2>1. \A p \in leases : foregroundPieces[p] = 0 /\ p \in Pieces
    BY DEF IInv, LeasesYieldAndArePinned, Counts
  <2> QED
    BY <1>4, <1>5, <2>1 DEF LeasesYieldAndArePinned
<1>8. foregroundPieces' \in [Pieces -> Nat]
  <2>1. foregroundPieces' = [p \in Pieces |-> foregroundPieces'[p]]
    BY DEF ForegroundWithout
  <2> QED
    BY <1>4, <2>1
<1> QED
  BY <1>5, <1>6, <1>7, <1>8

(* Whoever has a file open keeps it so, unless it is the reader that closes it. *)
LEMMA FilesStayOpen ==
    ASSUME NEW f, HeldOpen(f),
           \A q \in Readers : pc[q] # "closed" /\ ticket[q].file = f => pc'[q] # "closed" /\ ticket'[q].file = f
    PROVE  HeldOpen(f)'
BY DEF HeldOpen

(* The end of a read whose ticket is still listed: its pins are released, the *)
(* anchor it set is dropped if no read confirmed it, and what it read counts. *)
LEMMA FinishListedKeeps ==
    ASSUME IInv, NEW r \in Readers, FinishForeground(r), r \in Listed
    PROVE  IInv'
<1> DEFINE u == Counted(r)
           c == Settled(r, u)
           aged == Confirms(r)
           t == FreshTicket(ticket[r].file)
<1>1. PICK tk : tk = IF aged THEN Aged(RemoveForeground({r}, ticket)) ELSE RemoveForeground({r}, ticket)
  OBVIOUS
<1>2. /\ pc[r] \in Busy /\ pc' = [pc EXCEPT ![r] = "open"] /\ ticket' = [tk EXCEPT ![r] = t]
      /\ Becomes(c, RefsWithout(refs, {r})) /\ foregroundPieces' = ForegroundWithout({r})
      /\ wake' = TRUE /\ UNCHANGED <<handles, otherUsed, otherPins, cached>>
  BY <1>1 DEF FinishForeground, Signal, Busy, envVars, FreshTicket
<1>3. /\ ticket[r].listed /\ ticket[r].file # None /\ ticket[r].file \in Files \cup {None}
      /\ ticket \in [Readers -> Tickets] /\ aged \in BOOLEAN
  <2>1. ticket[r].listed /\ ticket[r].file # None
    BY <1>2 DEF IInv, TicketsInUse, Listed, Busy
  <2>2. ticket[r].file \in Files \cup {None} /\ ticket \in [Readers -> Tickets]
    BY DEF IInv, TicketTypes, Tickets
  <2>3. aged \in BOOLEAN
    BY DEF Confirms
  <2> QED
    BY <2>1, <2>2, <2>3
<1>4. /\ CoreTypes(u)
      /\ ~Confirms(r) =>
           /\ u.pins = windowPins /\ u.leases = leases
           /\ anchor = None <=> u.anchor = None
           /\ anchor # None => u.anchor.file = anchor.file /\ u.anchor.cursor >= anchor.cursor
           /\ confirmed => u.confirmed
           /\ u.candidate # None => candidate # None /\ u.candidate.file = candidate.file
      /\ Confirms(r) =>
           /\ u.pins = {} /\ u.leases = {} /\ u.confirmed /\ u.candidate = None
           /\ candidate # None /\ candidate.reads = 1
           /\ anchor # None /\ u.anchor # None /\ u.anchor.file = candidate.file
  BY <1>3, CountedFacts DEF IInv
<1>5. RemovedFrom({r}, aged, tk)
  BY <1>1, <1>3, RemovedFacts
<1>6. /\ t \in Tickets /\ t.listed = FALSE /\ t.current = FALSE /\ t.candidate = FALSE
      /\ t.file = ticket[r].file /\ t.range = {} /\ t.active = {} /\ t.pinned = {} /\ t.read = {}
  <2>1. PICK f \in Files \cup {None} : f = ticket[r].file
    BY <1>3
  <2> HIDE DEF t
  <2> QED
    BY <2>1, FreshFacts DEF t
<1> HIDE DEF t, u, aged
<1>7. /\ TicketTypes' /\ PcTypes' /\ TicketsInUse' /\ HandlesExact'
      /\ ticket'[r] = t /\ \A q \in Readers \ {r} : ticket'[q] = tk[q] /\ pc'[q] = pc[q]
      /\ OnlyRemoved({r})
  <2>1. {r} \subseteq Listed
    OBVIOUS
  <2> QED
    BY <1>2, <1>5, <1>6, <2>1, TicketsAfter
<1>8. \/ /\ c = u
         /\ \/ ticket[r].kind # "window" \/ u.confirmed
            \/ \E q \in Listed \ {r} : ticket[q].current /\ ticket[q].kind = "window"
      \/ /\ CoreTypes(c) /\ c.anchor = None /\ c.candidate = None /\ c.pins = {} /\ c.leases = {}
         /\ ~\E q \in Listed \ {r} : ticket[q].current /\ ticket[q].kind = "window"
  <2>1. DOMAIN u = CoreFields
    BY <1>4 DEF CoreTypes
  <2>2. LET w == WithoutAnchor(u)
        IN  CoreTypes(w) /\ w.anchor = None /\ w.candidate = None /\ w.pins = {} /\ w.leases = {}
    BY <2>1, WithoutAnchorFacts DEF CoreTypes, IsAnchor, IsCandidate, States
  <2> QED
    BY <2>2 DEF Settled
<1> HIDE DEF c
<1>9. /\ CoreTypes(c)
      /\ (c.pins = windowPins /\ c.leases \subseteq leases) \/ (c.pins = {} /\ c.leases = {})
      /\ c.anchor = None => c.pins = {} /\ c.leases = {}
  BY <1>4, <1>8 DEF IInv, NoAnchorNoWindow
<1>10. /\ PlaceTypes' /\ NoAnchorNoWindow' /\ BudgetExact' /\ ReferencesExact' /\ LeasesYieldAndArePinned'
       /\ refs' \in [Pieces -> Nat] /\ foregroundPieces' \in [Pieces -> Nat]
       /\ windowPins' \subseteq Pieces /\ leases' \subseteq Pieces /\ used' \in Nat /\ state' \in States
  BY <1>2, <1>7, <1>9, AccountsAfter
<1>11. anchor' = c.anchor /\ confirmed' = c.confirmed /\ candidate' = c.candidate
  BY <1>2 DEF Becomes
<1>12. ASSUME NEW q \in Readers \ {r}
       PROVE  /\ ticket'[q].listed = ticket[q].listed /\ ticket'[q].candidate = ticket[q].candidate
              /\ ticket'[q].file = ticket[q].file /\ ticket'[q].kind = ticket[q].kind
              /\ ~aged => ticket'[q].current = ticket[q].current
              /\ aged => ticket'[q].current = FALSE
  <2>1. ticket'[q] = tk[q] /\ q \in Readers /\ q \notin {r}
    BY <1>7
  <2>2. /\ AgedOf(ticket[q], tk[q])
        /\ ~aged => tk[q].current = ticket[q].current
        /\ aged => tk[q].current = FALSE
    BY <1>5, <2>1 DEF RemovedFrom
  <2> QED
    BY <2>1, <2>2 DEF AgedOf
<1>13. \A q \in Readers : q = r \/ q \in Readers \ {r}
  OBVIOUS
<1>14. WindowReadsOfAnchor'
  <2>1. ASSUME NEW q \in Readers, ticket'[q].listed, ticket'[q].current, ticket'[q].kind = "window"
        PROVE  anchor' # None /\ anchor'.file = ticket'[q].file
    <3>1. q \in Readers \ {r} /\ ~aged
      BY <1>6, <1>7, <1>12, <1>13, <2>1
    <3>2. q \in Listed \ {r} /\ ticket[q].current /\ ticket[q].kind = "window" /\ ticket'[q].file = ticket[q].file
      BY <1>12, <2>1, <3>1 DEF Listed
    <3>3. anchor # None /\ anchor.file = ticket[q].file
      BY <3>2 DEF IInv, WindowReadsOfAnchor, Listed
    <3>4. c = u
      BY <1>8, <3>2
    <3> QED
      BY <1>4, <1>11, <3>1, <3>2, <3>3, <3>4 DEF aged
  <2> QED
    BY <2>1 DEF WindowReadsOfAnchor
<1>15. SeekReadsOfCandidate'
  <2>1. ASSUME NEW q \in Readers, ticket'[q].listed, ticket'[q].candidate, candidate' # None
        PROVE  candidate'.file = ticket'[q].file
    <3>1. q \in Readers \ {r}
      BY <1>6, <1>7, <1>13, <2>1
    <3>2. ticket[q].listed /\ ticket[q].candidate /\ ticket'[q].file = ticket[q].file
      BY <1>12, <2>1, <3>1
    <3>3. candidate # None /\ candidate'.file = candidate.file
      BY <1>4, <1>8, <1>11, <2>1
    <3> QED
      BY <3>2, <3>3 DEF IInv, SeekReadsOfCandidate
  <2> QED
    BY <2>1 DEF SeekReadsOfCandidate
<1>16. UnconfirmedIsRead'
  <2>1. ASSUME anchor' # None, ~confirmed'
        PROVE  \E q \in Listed' : ticket'[q].current /\ ticket'[q].kind = "window" /\ ticket'[q].file = anchor'.file
    <3>1. c = u /\ ~aged /\ anchor # None /\ anchor'.file = anchor.file /\ ~confirmed
      BY <1>4, <1>8, <1>11, <2>1 DEF aged
    <3>2. PICK q \in Listed \ {r} : ticket[q].current /\ ticket[q].kind = "window" /\ ticket[q].file = anchor.file
      <4>1. CASE ticket[r].kind # "window"
        BY <3>1, <4>1 DEF IInv, UnconfirmedIsRead
      <4>2. CASE \E q \in Listed \ {r} : ticket[q].current /\ ticket[q].kind = "window"
        BY <4>2 DEF IInv, WindowReadsOfAnchor, Listed
      <4> QED
        BY <1>8, <1>11, <2>1, <3>1, <4>1, <4>2
    <3>3. q \in Readers \ {r} /\ ticket[q].listed
      BY <3>2 DEF Listed
    <3>4. /\ ticket'[q].listed /\ ticket'[q].current /\ ticket'[q].kind = "window"
          /\ ticket'[q].file = anchor'.file
      BY <1>12, <3>1, <3>2, <3>3
    <3> QED
      BY <3>3, <3>4 DEF Listed
  <2> QED
    BY <2>1 DEF UnconfirmedIsRead
<1>17. PlacesHeldOpen'
  <2>1. ASSUME NEW f, HeldOpen(f) PROVE HeldOpen(f)'
    <3>1. ASSUME NEW q \in Readers, pc[q] # "closed", ticket[q].file = f
          PROVE  pc'[q] # "closed" /\ ticket'[q].file = f
      <4>1. CASE q = r
        BY <1>2, <1>6, <1>7, <3>1, <4>1 DEF IInv, PcTypes
      <4>2. CASE q # r
        <5>1. q \in Readers \ {r}
          BY <4>2
        <5>2. pc'[q] = pc[q] /\ ticket'[q].file = ticket[q].file
          BY <1>7, <1>12, <5>1
        <5> QED
          BY <3>1, <5>2
      <4> QED
        BY <4>1, <4>2
    <3> QED
      BY <2>1, <3>1, FilesStayOpen
  <2>2. ASSUME anchor' # None PROVE HeldOpen(anchor.file)'
    <3>1. c = u
      BY <1>8, <1>11, <2>2
    <3>2. \/ anchor # None /\ anchor'.file = anchor.file
          \/ candidate # None /\ anchor'.file = candidate.file
      BY <1>4, <1>11, <2>2, <3>1
    <3>3. PICK f : f = anchor'.file
      OBVIOUS
    <3>4. HeldOpen(f)
      BY <3>2, <3>3 DEF IInv, PlacesHeldOpen
    <3>5. HeldOpen(f)'
      BY <2>1, <3>4
    <3> QED
      BY <3>3, <3>5 DEF HeldOpen
  <2>3. ASSUME candidate' # None PROVE HeldOpen(candidate.file)'
    <3>1. candidate # None /\ candidate'.file = candidate.file
      BY <1>4, <1>8, <1>11, <2>3
    <3>2. PICK f : f = candidate'.file
      OBVIOUS
    <3>3. HeldOpen(f)
      BY <3>1, <3>2 DEF IInv, PlacesHeldOpen
    <3>4. HeldOpen(f)'
      BY <2>1, <3>3
    <3> QED
      BY <3>2, <3>4 DEF HeldOpen
  <2> QED
    BY <2>2, <2>3 DEF PlacesHeldOpen, HeldOpen
<1>18. SleepsInStep' /\ Counts'
  BY <1>2, <1>10, SleepKept DEF IInv, Counts, States
<1> QED
  BY <1>7, <1>10, <1>14, <1>15, <1>16, <1>17, <1>18 DEF IInv

(* A read that was cancelled meanwhile ends without a trace. *)
LEMMA FinishCancelledKeeps ==
    ASSUME IInv, NEW r \in Readers, FinishForeground(r), r \notin Listed
    PROVE  IInv'
<1> DEFINE t == FreshTicket(ticket[r].file)
<1>1. /\ pc[r] \in Busy /\ pc' = [pc EXCEPT ![r] = "open"] /\ ticket' = [ticket EXCEPT ![r] = t]
      /\ wake' = TRUE /\ UNCHANGED <<handles, anchor, confirmed, consumed, candidate>>
      /\ UNCHANGED <<refs, windowPins, leases, foregroundPieces, used, otherUsed>>
      /\ UNCHANGED <<state, otherPins, cached>>
  BY DEF FinishForeground, Signal, Busy, envVars, FreshTicket
<1>2. /\ ~ticket[r].listed /\ ticket[r].file \in Files \cup {None} /\ ticket \in [Readers -> Tickets]
      /\ ticket[r].file # None
  BY <1>1 DEF IInv, TicketTypes, Tickets, Listed, TicketsInUse, Busy
<1>3. RemovedFrom({}, FALSE, ticket)
  BY <1>2 DEF RemovedFrom, AgedOf
<1>4. /\ t \in Tickets /\ t.listed = FALSE /\ t.current = FALSE /\ t.candidate = FALSE
      /\ t.file = ticket[r].file /\ t.range = {} /\ t.active = {} /\ t.pinned = {} /\ t.read = {}
  <2>1. PICK f \in Files \cup {None} : f = ticket[r].file
    BY <1>2
  <2> HIDE DEF t
  <2> QED
    BY <2>1, FreshFacts DEF t
<1> HIDE DEF t
<1>5. /\ TicketTypes' /\ PcTypes' /\ TicketsInUse' /\ HandlesExact'
      /\ ticket'[r] = t /\ \A q \in Readers \ {r} : ticket'[q] = ticket[q] /\ pc'[q] = pc[q]
  <2>1. {} \subseteq Listed
    OBVIOUS
  <2> QED
    BY <1>1, <1>2, <1>3, <1>4, <2>1, TicketsAfter
<1>6. /\ WindowReadsOfAnchor' /\ SeekReadsOfCandidate' /\ UnconfirmedIsRead'
      /\ \A p : Pinners(p)' = Pinners(p) /\ Waiters(p)' = Waiters(p)
  BY <1>1, <1>2, <1>4, <1>5, OthersKept
<1>7. ReferencesExact' /\ BudgetExact' /\ LeasesYieldAndArePinned' /\ NoAnchorNoWindow'
  BY <1>1, <1>6, AccountsKept
<1>8. PlacesHeldOpen'
  <2>1. ASSUME NEW f, HeldOpen(f) PROVE HeldOpen(f)'
    <3>1. ASSUME NEW q \in Readers, pc[q] # "closed", ticket[q].file = f
          PROVE  pc'[q] # "closed" /\ ticket'[q].file = f
      <4>1. CASE q = r
        BY <1>1, <1>4, <1>5, <3>1, <4>1 DEF IInv, PcTypes
      <4>2. CASE q # r
        <5>1. pc'[q] = pc[q] /\ ticket'[q] = ticket[q]
          BY <1>5, <4>2
        <5> QED
          BY <3>1, <5>1
      <4> QED
        BY <4>1, <4>2
    <3> QED
      BY <2>1, <3>1, FilesStayOpen
  <2> QED
    BY <1>1, <2>1 DEF IInv, PlacesHeldOpen
<1>9. PlaceTypes' /\ SleepsInStep' /\ Counts'
  BY <1>1, SleepKept DEF IInv, PlaceTypes, Counts
<1> QED
  BY <1>5, <1>6, <1>7, <1>8, <1>9 DEF IInv

(* The last close of a file cancels its reads and ends its window. *)
LEMMA ReleaseFileKeeps ==
    ASSUME IInv, NEW r \in Readers, ReleaseFile(r)
    PROVE  IInv'
<1>1. PICK f : f = ticket[r].file
  OBVIOUS
<1>2. PICK rs : rs = {q \in Listed : ticket[q].file = f}
  OBVIOUS
<1>3. PICK ours \in BOOLEAN : ours <=> anchor # None /\ anchor.file = f
  <2>1. (anchor # None /\ anchor.file = f) \in BOOLEAN
    OBVIOUS
  <2> QED
    BY <2>1
<1>4. PICK tk : tk = IF ours THEN Aged(RemoveForeground(rs, ticket)) ELSE RemoveForeground(rs, ticket)
  OBVIOUS
<1>5. PICK d : d = IF candidate # None /\ candidate.file = f THEN [Core EXCEPT !.candidate = None] ELSE Core
  OBVIOUS
<1>6. PICK c : c = IF ours THEN WithoutAnchor(d) ELSE d
  OBVIOUS
<1>7. /\ pc[r] = "releasing" /\ pc' = [pc EXCEPT ![r] = "closed"] /\ ticket' = [tk EXCEPT ![r] = NoTicket]
      /\ Becomes(c, RefsWithout(refs, rs)) /\ foregroundPieces' = ForegroundWithout(rs)
      /\ wake' = TRUE /\ UNCHANGED <<handles, otherUsed, otherPins, cached>>
  <2>1. ticket' = [(IF ours THEN Aged(RemoveForeground(rs, ticket)) ELSE RemoveForeground(rs, ticket))
                     EXCEPT ![r] = NoTicket]
    BY <1>1, <1>2, <1>3 DEF ReleaseFile
  <2>2. Becomes(IF ours THEN WithoutAnchor(d) ELSE d, RefsWithout(refs, rs))
    BY <1>1, <1>2, <1>3, <1>5 DEF ReleaseFile
  <2>3. foregroundPieces' = ForegroundWithout(rs)
    BY <1>1, <1>2 DEF ReleaseFile
  <2>4. /\ pc[r] = "releasing" /\ pc' = [pc EXCEPT ![r] = "closed"]
        /\ wake' = TRUE /\ UNCHANGED <<handles, otherUsed, otherPins, cached>>
    BY DEF ReleaseFile, Signal, envVars
  <2> QED
    BY <1>4, <1>6, <2>1, <2>2, <2>3, <2>4
<1>8. ticket \in [Readers -> Tickets] /\ ~ticket[r].listed /\ rs \subseteq Listed
  BY <1>2, <1>7 DEF IInv, TicketTypes, TicketsInUse, Busy
<1>9. RemovedFrom(rs, ours, tk)
  BY <1>4, <1>8, RemovedFacts
<1>10. /\ TicketTypes' /\ PcTypes' /\ TicketsInUse' /\ HandlesExact'
       /\ ticket'[r] = NoTicket /\ \A q \in Readers \ {r} : ticket'[q] = tk[q] /\ pc'[q] = pc[q]
       /\ OnlyRemoved(rs)
  BY <1>7, <1>8, <1>9, NoTicketFacts, TicketsAfter
<1>11. /\ CoreTypes(d) /\ d.anchor = anchor /\ d.confirmed = confirmed /\ d.pins = windowPins /\ d.leases = leases
       /\ d.candidate # None => d.candidate = candidate /\ candidate.file # f
  <2>1. /\ CoreTypes(Core) /\ DOMAIN Core = CoreFields
        /\ Core.anchor = anchor /\ Core.confirmed = confirmed /\ Core.consumed = consumed
        /\ Core.candidate = candidate /\ Core.pins = windowPins /\ Core.leases = leases /\ Core.state = state
    BY CoreFacts, CoreIsTyped DEF IInv
  <2> HIDE DEF Core
  <2>2. CASE candidate # None /\ candidate.file = f
    <3>1. d = [Core EXCEPT !.candidate = None]
      BY <1>5, <2>2
    <3>2. /\ DOMAIN d = CoreFields /\ d.anchor = anchor /\ d.confirmed = confirmed /\ d.consumed = consumed
          /\ d.candidate = None /\ d.pins = windowPins /\ d.leases = leases /\ d.state = state
      BY <2>1, <3>1, SMTT(30) DEF CoreFields
    <3> QED
      BY <2>1, <3>2 DEF CoreTypes, IsCandidate
  <2>3. CASE ~(candidate # None /\ candidate.file = f)
    <3>1. d = Core
      BY <1>5, <2>3
    <3> QED
      BY <2>1, <2>3, <3>1
  <2> QED
    BY <2>2, <2>3
<1>12. \/ ours /\ CoreTypes(c) /\ c.anchor = None /\ c.candidate = None /\ c.pins = {} /\ c.leases = {}
       \/ ~ours /\ c = d
  <2>1. DOMAIN d = CoreFields
    BY <1>11 DEF CoreTypes
  <2>2. LET w == WithoutAnchor(d)
        IN  CoreTypes(w) /\ w.anchor = None /\ w.candidate = None /\ w.pins = {} /\ w.leases = {}
    BY <2>1, WithoutAnchorFacts DEF CoreTypes, IsAnchor, IsCandidate, States
  <2> QED
    BY <1>6, <2>2
<1>13. /\ CoreTypes(c)
       /\ (c.pins = windowPins /\ c.leases \subseteq leases) \/ (c.pins = {} /\ c.leases = {})
       /\ c.anchor = None => c.pins = {} /\ c.leases = {}
  BY <1>11, <1>12 DEF IInv, NoAnchorNoWindow
<1>14. /\ PlaceTypes' /\ NoAnchorNoWindow' /\ BudgetExact' /\ ReferencesExact' /\ LeasesYieldAndArePinned'
       /\ refs' \in [Pieces -> Nat] /\ foregroundPieces' \in [Pieces -> Nat]
       /\ windowPins' \subseteq Pieces /\ leases' \subseteq Pieces /\ used' \in Nat /\ state' \in States
  BY <1>7, <1>10, <1>13, AccountsAfter
<1>15. /\ anchor' = c.anchor /\ confirmed' = c.confirmed /\ candidate' = c.candidate
       /\ anchor' # None => ~ours /\ anchor' = anchor /\ confirmed' = confirmed /\ anchor.file # f
       /\ candidate' # None => candidate' = candidate /\ candidate.file # f
  <2>1. anchor' = c.anchor /\ confirmed' = c.confirmed /\ candidate' = c.candidate
    BY <1>7 DEF Becomes
  <2> QED
    BY <1>3, <1>11, <1>12, <2>1
<1>16. ASSUME NEW q \in Readers, ticket'[q].listed
       PROVE  /\ q # r /\ q \notin rs /\ ticket[q].listed /\ ticket'[q].file = ticket[q].file
              /\ ticket'[q].candidate = ticket[q].candidate /\ ticket'[q].kind = ticket[q].kind
              /\ ~ours => ticket'[q].current = ticket[q].current
              /\ ours => ticket'[q].current = FALSE
  <2>1. q # r
    BY <1>10, <1>16, NoTicketFacts
  <2>2. ticket'[q] = tk[q]
    BY <1>10, <2>1
  <2>3. q \notin rs
    BY <1>9, <1>16, <2>2 DEF RemovedFrom, DroppedOf
  <2>4. /\ AgedOf(ticket[q], tk[q])
        /\ ~ours => tk[q].current = ticket[q].current
        /\ ours => tk[q].current = FALSE
    BY <1>9, <2>3 DEF RemovedFrom
  <2> QED
    BY <1>16, <2>1, <2>2, <2>3, <2>4 DEF AgedOf
<1>17. ASSUME NEW q \in Readers, q # r
       PROVE  pc'[q] = pc[q] /\ ticket'[q].file = ticket[q].file
  <2>1. ticket'[q] = tk[q] /\ pc'[q] = pc[q]
    BY <1>10, <1>17
  <2>2. DroppedOf(ticket[q], tk[q]) \/ AgedOf(ticket[q], tk[q])
    BY <1>9 DEF RemovedFrom
  <2> QED
    BY <2>1, <2>2 DEF DroppedOf, AgedOf
<1>18. WindowReadsOfAnchor'
  <2>1. ASSUME NEW q \in Readers, ticket'[q].listed, ticket'[q].current, ticket'[q].kind = "window"
        PROVE  anchor' # None /\ anchor'.file = ticket'[q].file
    <3>1. /\ ~ours /\ ticket[q].listed /\ ticket[q].current /\ ticket[q].kind = "window"
          /\ ticket'[q].file = ticket[q].file
      BY <1>16, <2>1
    <3>2. anchor # None /\ anchor.file = ticket[q].file
      BY <3>1 DEF IInv, WindowReadsOfAnchor
    <3>3. anchor' = anchor
      BY <1>11, <1>12, <1>15, <3>1
    <3> QED
      BY <3>1, <3>2, <3>3
  <2> QED
    BY <2>1 DEF WindowReadsOfAnchor
<1>19. SeekReadsOfCandidate'
  <2>1. ASSUME NEW q \in Readers, ticket'[q].listed, ticket'[q].candidate, candidate' # None
        PROVE  candidate'.file = ticket'[q].file
    <3>1. ticket[q].listed /\ ticket[q].candidate /\ ticket'[q].file = ticket[q].file
      BY <1>16, <2>1
    <3> QED
      BY <1>15, <2>1, <3>1 DEF IInv, SeekReadsOfCandidate
  <2> QED
    BY <2>1 DEF SeekReadsOfCandidate
<1>20. UnconfirmedIsRead'
  <2>1. ASSUME anchor' # None, ~confirmed'
        PROVE  \E q \in Listed' : ticket'[q].current /\ ticket'[q].kind = "window" /\ ticket'[q].file = anchor'.file
    <3>1. ~ours /\ anchor' = anchor /\ ~confirmed /\ anchor.file # f /\ anchor # None
      BY <1>15, <2>1
    <3>2. PICK q \in Listed : ticket[q].current /\ ticket[q].kind = "window" /\ ticket[q].file = anchor.file
      BY <3>1 DEF IInv, UnconfirmedIsRead
    <3>3. q \in Readers \ {r} /\ q \notin rs /\ ticket[q].listed
      BY <1>2, <1>8, <3>1, <3>2 DEF Listed
    <3>4. ticket'[q] = tk[q] /\ AgedOf(ticket[q], tk[q]) /\ tk[q].current = ticket[q].current
      BY <1>9, <1>10, <3>1, <3>3 DEF RemovedFrom
    <3>5. /\ ticket'[q].listed /\ ticket'[q].current /\ ticket'[q].kind = "window"
          /\ ticket'[q].file = anchor'.file
      BY <3>1, <3>2, <3>3, <3>4 DEF AgedOf
    <3> QED
      BY <3>3, <3>5 DEF Listed
  <2> QED
    BY <2>1 DEF UnconfirmedIsRead
<1>21. PlacesHeldOpen'
  <2>1. ASSUME NEW g, g # f, HeldOpen(g) PROVE HeldOpen(g)'
    <3>1. ASSUME NEW q \in Readers, pc[q] # "closed", ticket[q].file = g
          PROVE  pc'[q] # "closed" /\ ticket'[q].file = g
      BY <1>1, <1>17, <2>1, <3>1
    <3> QED
      BY <2>1, <3>1, FilesStayOpen
  <2>2. ASSUME anchor' # None PROVE HeldOpen(anchor.file)'
    <3>1. PICK g : g = anchor.file
      OBVIOUS
    <3>2. HeldOpen(g) /\ g # f /\ anchor' = anchor
      BY <1>15, <2>2, <3>1 DEF IInv, PlacesHeldOpen
    <3>3. HeldOpen(g)'
      BY <2>1, <3>2
    <3> QED
      BY <3>1, <3>2, <3>3 DEF HeldOpen
  <2>3. ASSUME candidate' # None PROVE HeldOpen(candidate.file)'
    <3>1. PICK g : g = candidate.file
      OBVIOUS
    <3>2. HeldOpen(g) /\ g # f /\ candidate' = candidate
      BY <1>15, <2>3, <3>1 DEF IInv, PlacesHeldOpen
    <3>3. HeldOpen(g)'
      BY <2>1, <3>2
    <3> QED
      BY <3>1, <3>2, <3>3 DEF HeldOpen
  <2> QED
    BY <2>2, <2>3 DEF PlacesHeldOpen, HeldOpen
<1>22. SleepsInStep' /\ Counts'
  BY <1>7, <1>14, SleepKept DEF IInv, Counts, States
<1> QED
  BY <1>10, <1>14, <1>18, <1>19, <1>20, <1>21, <1>22 DEF IInv

(* Cleanup cancels every read and gives up the window. *)
LEMMA CleanupKeeps ==
    ASSUME IInv, Cleanup
    PROVE  IInv'
<1>1. PICK c : c = [WithoutAnchor(Core) EXCEPT !.state = state]
  OBVIOUS
<1>2. PICK rs : rs = Listed
  OBVIOUS
<1>3. /\ ticket' = RemoveForeground(rs, ticket) /\ Becomes(c, RefsWithout(refs, rs))
      /\ foregroundPieces' = [p \in Pieces |-> 0]
      /\ UNCHANGED <<otherUsed, otherPins, cached, wake, pc, handles>>
  BY <1>1, <1>2 DEF Cleanup, envVars
<1>4. RemovedFrom(rs, FALSE, ticket')
  <2>1. ticket \in [Readers -> Tickets] /\ FALSE \in BOOLEAN
    BY DEF IInv, TicketTypes
  <2> QED
    BY <1>3, <2>1, RemovedFacts
<1>5. /\ ticket' \in [Readers -> Tickets]
      /\ \A q \in Readers : DroppedOf(ticket[q], ticket'[q]) \/ (q \notin rs /\ AgedOf(ticket[q], ticket'[q]))
  BY <1>4 DEF RemovedFrom
<1>6. ASSUME NEW q \in Readers PROVE ~ticket'[q].listed /\ ticket'[q].file = ticket[q].file
  <2>1. CASE DroppedOf(ticket[q], ticket'[q])
    BY <2>1 DEF DroppedOf
  <2>2. CASE q \notin rs /\ AgedOf(ticket[q], ticket'[q])
    BY <1>2, <2>2 DEF AgedOf, Listed
  <2> QED
    BY <1>5, <2>1, <2>2
<1>7. TicketTypes'
  <2>1. ASSUME NEW q \in Readers
        PROVE  /\ ticket'[q].file = None => ticket'[q].range = {} /\ ticket'[q].read = {}
               /\ ticket'[q].file # None => ticket'[q].range \cup ticket'[q].read \subseteq Offsets(ticket'[q].file)
    <3>1. CASE DroppedOf(ticket[q], ticket'[q])
      BY <3>1 DEF DroppedOf
    <3>2. CASE AgedOf(ticket[q], ticket'[q])
      BY <3>2 DEF AgedOf, IInv, TicketTypes
    <3> QED
      BY <1>5, <3>1, <3>2
  <2> QED
    BY <1>5, <2>1 DEF TicketTypes
<1>8. TicketsInUse'
  <2>1. ASSUME NEW q \in Readers
        PROVE  /\ ticket'[q].listed => pc'[q] \in Busy
               /\ pc'[q] \in Busy /\ ticket'[q].live => ticket'[q].listed
               /\ ~ticket'[q].listed \/ pc'[q] # "fetching" => ticket'[q].active = {}
               /\ pc'[q] = "fetching" => ticket'[q].todo # {}
               /\ ~ticket'[q].listed => ticket'[q].pinned = {}
               /\ pc'[q] # "closed" => ticket'[q].file # None
    <3>1. /\ ticket[q].listed => pc[q] \in Busy
          /\ pc[q] \in Busy /\ ticket[q].live => ticket[q].listed
          /\ ~ticket[q].listed \/ pc[q] # "fetching" => ticket[q].active = {}
          /\ pc[q] = "fetching" => ticket[q].todo # {}
          /\ ~ticket[q].listed => ticket[q].pinned = {}
          /\ pc[q] # "closed" => ticket[q].file # None
      BY DEF IInv, TicketsInUse
    <3>2. CASE DroppedOf(ticket[q], ticket'[q])
      BY <1>3, <3>1, <3>2 DEF DroppedOf
    <3>3. CASE AgedOf(ticket[q], ticket'[q])
      BY <1>3, <3>1, <3>3 DEF AgedOf
    <3> QED
      BY <1>5, <3>2, <3>3
  <2> QED
    BY <2>1 DEF TicketsInUse
<1>9. PcTypes' /\ HandlesExact'
  <2>1. PcTypes'
    BY <1>3 DEF IInv, PcTypes
  <2> QED
    BY <1>3, <1>6, <2>1, HoldersKept DEF IInv
<1>10. OnlyRemoved(rs)
  <2>1. ASSUME NEW q \in Readers \ rs
        PROVE  /\ ticket'[q].listed = ticket[q].listed /\ ticket'[q].pinned = ticket[q].pinned
               /\ ticket'[q].active = ticket[q].active
    BY <1>4 DEF RemovedFrom, AgedOf
  <2> QED
    BY <1>2, <1>6, <2>1 DEF OnlyRemoved, Listed
<1>11. foregroundPieces' = ForegroundWithout(rs)
  <2>1. ASSUME NEW p \in Pieces PROVE foregroundPieces[p] - Cardinality({r \in rs : p \in ticket[r].active}) = 0
    <3>1. foregroundPieces[p] = Cardinality({r \in rs : p \in ticket[r].active}) /\ foregroundPieces[p] \in Nat
      BY <1>2 DEF IInv, ReferencesExact, Counts
    <3> QED
      BY <3>1, SMTT(30)
  <2> QED
    BY <1>3, <2>1 DEF ForegroundWithout
<1>12. /\ CoreTypes(c) /\ c.anchor = None /\ c.candidate = None /\ c.pins = {} /\ c.leases = {}
  <2>1. DOMAIN Core = CoreFields /\ state \in States
    BY CoreFacts DEF IInv, Counts, States
  <2>2. PICK w : w = WithoutAnchor(Core)
    OBVIOUS
  <2>3. /\ DOMAIN w = CoreFields /\ w.anchor = None /\ w.confirmed = FALSE /\ w.consumed = {}
        /\ w.candidate = None /\ w.pins = {} /\ w.leases = {} /\ w.state = "idle"
    BY <2>1, <2>2, WithoutAnchorFacts
  <2>4. c = [w EXCEPT !.state = state]
    BY <1>1, <2>2
  <2>5. /\ DOMAIN c = CoreFields /\ c.anchor = None /\ c.confirmed = FALSE /\ c.consumed = {}
        /\ c.candidate = None /\ c.pins = {} /\ c.leases = {} /\ c.state = state
    BY <2>3, <2>4, SMTT(30) DEF CoreFields
  <2> QED
    BY <2>1, <2>5 DEF CoreTypes, IsAnchor, IsCandidate
<1>13. /\ PlaceTypes' /\ NoAnchorNoWindow' /\ BudgetExact' /\ ReferencesExact' /\ LeasesYieldAndArePinned'
       /\ refs' \in [Pieces -> Nat] /\ foregroundPieces' \in [Pieces -> Nat]
       /\ windowPins' \subseteq Pieces /\ leases' \subseteq Pieces /\ used' \in Nat /\ state' \in States
  BY <1>3, <1>10, <1>11, <1>12, AccountsAfter
<1>14. anchor' = None /\ candidate' = None
  BY <1>3, <1>12 DEF Becomes
<1>15. WindowReadsOfAnchor' /\ SeekReadsOfCandidate' /\ UnconfirmedIsRead' /\ PlacesHeldOpen' /\ SleepsInStep'
  BY <1>6, <1>14 DEF WindowReadsOfAnchor, SeekReadsOfCandidate, UnconfirmedIsRead, PlacesHeldOpen, SleepsInStep
<1>16. Counts'
  BY <1>3, <1>13 DEF IInv, Counts, States
<1> QED
  BY <1>7, <1>8, <1>9, <1>13, <1>15, <1>16 DEF IInv

-----------------------------------------------------------------------------
(* The ticket of a read that begins.                                          *)
NewTicket(w, f, range, wanted, granted) ==
    [listed |-> TRUE, live |-> TRUE, current |-> TRUE, candidate |-> ~w,
     file |-> f, kind |-> IF w THEN "window" ELSE "only",
     range |-> range, todo |-> wanted, pinned |-> granted, active |-> {}, read |-> {}]

(* A read serves offsets of its file, in pieces of the torrent, and pins some. *)
LEMMA PlanFacts ==
    ASSUME NEW f \in Files, NEW off \in Nat, HasSpans(f, off), NEW len \in Nat
    PROVE  /\ off \in Offsets(f) /\ ReadRange(f, off, len) \subseteq Offsets(f)
           /\ ReadRange(f, off, len) \in SUBSET Nat
           /\ PlanWanted(f, off, len) \in SUBSET Pieces
           /\ \A counts : Granted(counts, PlanWanted(f, off, len)) \in SUBSET Pieces
<1>1. FileSize[f] \in Nat /\ off < FileSize[f]
  BY PrefetchAssumption DEF HasSpans
<1>2. /\ off \in 0 .. FileSize[f] - 1
      /\ \A n \in off .. Min2(off + len, FileSize[f]) - 1 : n \in Nat /\ n \in 0 .. FileSize[f] - 1
  BY <1>1, SMTT(30) DEF Min2
<1>3. /\ off \in Offsets(f) /\ ReadRange(f, off, len) \subseteq Offsets(f)
      /\ ReadRange(f, off, len) \in SUBSET Nat
  BY <1>2 DEF Offsets, ReadRange
<1>4. PlanWanted(f, off, len) \in SUBSET Pieces
  BY <1>3, PieceFacts DEF PlanWanted
<1>5. \A counts : Granted(counts, PlanWanted(f, off, len)) \subseteq PlanWanted(f, off, len)
  BY DEF Granted
<1> QED
  BY <1>3, <1>4, <1>5

(* The others' tickets after a read began: at most out of date. *)
Outdated(t, u) ==
    /\ u.listed = t.listed /\ u.live = t.live /\ u.file = t.file /\ u.kind = t.kind /\ u.range = t.range
    /\ u.pinned = t.pinned /\ u.todo = t.todo /\ u.active = t.active /\ u.read = t.read

(* A first read starts a generation, a read elsewhere a candidate. *)
LEMMA OutdatedFacts ==
    ASSUME ticket \in [Readers -> Tickets], NEW first \in BOOLEAN, NEW seek \in BOOLEAN, NEW tk,
           tk = IF first THEN Aged(ticket)
                ELSE IF seek THEN [q \in Readers |-> [ticket[q] EXCEPT !.candidate = FALSE]] ELSE ticket
    PROVE  /\ tk \in [Readers -> Tickets]
           /\ \A q \in Readers :
                /\ Outdated(ticket[q], tk[q])
                /\ first => tk[q].current = FALSE
                /\ ~first => tk[q].current = ticket[q].current
                /\ ~first /\ seek => tk[q].candidate = FALSE
                /\ ~first /\ ~seek => tk[q].candidate = ticket[q].candidate
<1>1. CASE first
  <2>1. tk = [q \in Readers |-> AgedTicket(ticket[q])]
    BY <1>1 DEF Aged, AgedTicket
  <2>2. ASSUME NEW q \in Readers
        PROVE  tk[q] \in Tickets /\ Outdated(ticket[q], tk[q]) /\ tk[q].current = FALSE
    <3>1. PICK v \in Tickets : v = ticket[q]
      OBVIOUS
    <3>2. AgedTicket(v) \in Tickets /\ Outdated(v, AgedTicket(v)) /\ AgedTicket(v).current = FALSE
      BY ONLY v \in Tickets, AgedFacts, ZenonT(40) DEF Outdated
    <3>3. tk[q] = AgedTicket(v)
      BY <2>1, <3>1
    <3> QED
      BY <3>1, <3>2, <3>3
  <2> QED
    BY <1>1, <2>1, <2>2
<1>2. CASE ~first /\ seek
  <2>1. tk = [q \in Readers |-> ForgottenTicket(ticket[q])]
    BY <1>2 DEF ForgottenTicket
  <2>2. ASSUME NEW q \in Readers
        PROVE  /\ tk[q] \in Tickets /\ Outdated(ticket[q], tk[q])
               /\ tk[q].candidate = FALSE /\ tk[q].current = ticket[q].current
    <3>1. PICK v \in Tickets : v = ticket[q]
      OBVIOUS
    <3>2. /\ ForgottenTicket(v) \in Tickets /\ Outdated(v, ForgottenTicket(v))
          /\ ForgottenTicket(v).candidate = FALSE /\ ForgottenTicket(v).current = v.current
      BY ONLY v \in Tickets, ForgottenFacts, ZenonT(40) DEF Outdated
    <3>3. tk[q] = ForgottenTicket(v)
      BY <2>1, <3>1
    <3> QED
      BY <3>1, <3>2, <3>3
  <2> QED
    BY <1>2, <2>1, <2>2
<1>3. CASE ~first /\ ~seek
  BY <1>3 DEF Outdated
<1> QED
  BY <1>1, <1>2, <1>3

(* A read that begins pins what it can of its pieces, takes over their        *)
(* leases, and sets the anchor or the candidate.                              *)
LEMMA BeginForegroundKeeps ==
    ASSUME IInv, NEW r \in Readers, NEW off \in 0 .. TorrentSize - 1, NEW len \in Lengths,
           BeginForeground(r, off, len)
    PROVE  IInv'
<1>1. PICK f : f = ticket[r].file
  OBVIOUS
<1>2. PICK wanted, range, granted :
        wanted = PlanWanted(f, off, len) /\ range = ReadRange(f, off, len) /\ granted = Granted(refs, wanted)
  OBVIOUS
<1>3. PICK c : c = Classified(f, off)
  OBVIOUS
<1>4. PICK first \in BOOLEAN : first <=> anchor = None
  BY (anchor = None) \in BOOLEAN
<1>5. PICK seek \in BOOLEAN : seek <=> c.candidate # candidate
  BY (c.candidate # candidate) \in BOOLEAN
<1>6. PICK w \in BOOLEAN : w <=> anchor = None \/ InCurrentWindow(f, off)
  BY (anchor = None \/ InCurrentWindow(f, off)) \in BOOLEAN
<1>7. PICK tk : tk = IF first THEN Aged(ticket)
                     ELSE IF seek THEN [q \in Readers |-> [ticket[q] EXCEPT !.candidate = FALSE]] ELSE ticket
  OBVIOUS
<1>8. PICK d : d = [c EXCEPT !.leases = @ \ wanted]
  OBVIOUS
<1> DEFINE t == NewTicket(w, f, range, wanted, granted)
<1>9. /\ pc[r] = "open" /\ HasSpans(f, off) /\ pc' = [pc EXCEPT ![r] = "reading"] /\ wake' = TRUE
      /\ Becomes(d, Retained(refs, granted))
      /\ UNCHANGED <<foregroundPieces, otherUsed, otherPins, cached, handles>>
  BY <1>1, <1>2, <1>3, <1>8 DEF BeginForeground, Signal, envVars
<1>10. ticket' = [tk EXCEPT ![r] = t]
  <2>1. PICK old : old = IF anchor = None THEN Aged(ticket)
                         ELSE IF Classified(ticket[r].file, off).candidate # candidate
                         THEN [q \in Readers |-> [ticket[q] EXCEPT !.candidate = FALSE]] ELSE ticket
    OBVIOUS
  <2>2. old = tk
    BY <1>1, <1>3, <1>4, <1>5, <1>7, <2>1
  <2>3. PICK win : win = (anchor = None \/ InCurrentWindow(ticket[r].file, off))
    OBVIOUS
  <2>4. win = w
    BY <1>1, <1>6, <2>3
  <2>5. ticket' = [old EXCEPT ![r] =
          [listed |-> TRUE, live |-> TRUE, current |-> TRUE, candidate |-> ~win,
           file |-> f, kind |-> IF win THEN "window" ELSE "only",
           range |-> range, todo |-> wanted, pinned |-> granted, active |-> {}, read |-> {}]]
    BY <1>1, <1>2, <2>1, <2>3 DEF BeginForeground
  <2> QED
    BY <2>2, <2>4, <2>5 DEF NewTicket
<1>11. ticket \in [Readers -> Tickets] /\ ~ticket[r].listed /\ f \in Files
  BY <1>1, <1>9 DEF IInv, TicketTypes, Tickets, TicketsInUse, Busy
<1>12. /\ off \in Offsets(f) /\ range \subseteq Offsets(f) /\ range \in SUBSET Nat
       /\ wanted \in SUBSET Pieces /\ granted \in SUBSET Pieces
  <2>1. off \in Nat /\ len \in Nat
    <3>1. TorrentSize \in Nat /\ len \in Nat
      BY PrefetchAssumption
    <3> QED
      BY <3>1, SMTT(30)
  <2> QED
    BY <1>2, <1>9, <1>11, <2>1, PlanFacts
<1>13. /\ t \in Tickets /\ t.listed = TRUE /\ t.current = TRUE /\ (t.candidate <=> ~w) /\ t.file = f
       /\ (t.kind = "window" <=> w) /\ t.range = range /\ t.todo = wanted /\ t.pinned = granted
       /\ t.active = {} /\ t.read = {}
  <2>1. /\ w \in BOOLEAN /\ f \in Files /\ range \in SUBSET Nat
        /\ wanted \in SUBSET Pieces /\ granted \in SUBSET Pieces
    BY <1>6, <1>11, <1>12
  <2>2. t \in Tickets
    BY <2>1 DEF NewTicket, Tickets
  <2> QED
    BY <2>1, <2>2 DEF NewTicket
<1> HIDE DEF t
<1>14. /\ tk \in [Readers -> Tickets]
       /\ \A q \in Readers :
            /\ Outdated(ticket[q], tk[q])
            /\ first => tk[q].current = FALSE
            /\ ~first => tk[q].current = ticket[q].current
            /\ ~first /\ seek => tk[q].candidate = FALSE
            /\ ~first /\ ~seek => tk[q].candidate = ticket[q].candidate
  BY <1>7, <1>11, OutdatedFacts
<1>15. /\ ticket' \in [Readers -> Tickets] /\ ticket'[r] = t /\ \A q \in Readers \ {r} : ticket'[q] = tk[q]
       /\ PcTypes' /\ pc'[r] = "reading" /\ \A q \in Readers \ {r} : pc'[q] = pc[q]
  BY <1>9, <1>10, <1>13, <1>14 DEF IInv, PcTypes
<1>16. ASSUME NEW q \in Readers, q # r
       PROVE  /\ Outdated(ticket[q], ticket'[q]) /\ pc'[q] = pc[q]
              /\ first => ticket'[q].current = FALSE
              /\ ~first => ticket'[q].current = ticket[q].current
              /\ ~first /\ seek => ticket'[q].candidate = FALSE
              /\ ~first /\ ~seek => ticket'[q].candidate = ticket[q].candidate
  <2>1. ticket'[q] = tk[q] /\ pc'[q] = pc[q]
    BY <1>15, <1>16
  <2> QED
    BY <1>14, <2>1
<1>17. TicketTypes'
  <2>1. ASSUME NEW q \in Readers
        PROVE  /\ ticket'[q].file = None => ticket'[q].range = {} /\ ticket'[q].read = {}
               /\ ticket'[q].file # None => ticket'[q].range \cup ticket'[q].read \subseteq Offsets(ticket'[q].file)
    <3>1. CASE q = r
      BY <1>11, <1>12, <1>13, <1>15, <3>1, NoneAssumption
    <3>2. CASE q # r
      <4>1. Outdated(ticket[q], ticket'[q])
        BY <1>16, <3>2
      <4> QED
        BY <4>1 DEF Outdated, IInv, TicketTypes
    <3> QED
      BY <3>1, <3>2
  <2> QED
    BY <1>15, <2>1 DEF TicketTypes
<1>18. TicketsInUse'
  <2>1. ASSUME NEW q \in Readers
        PROVE  /\ ticket'[q].listed => pc'[q] \in Busy
               /\ pc'[q] \in Busy /\ ticket'[q].live => ticket'[q].listed
               /\ ~ticket'[q].listed \/ pc'[q] # "fetching" => ticket'[q].active = {}
               /\ pc'[q] = "fetching" => ticket'[q].todo # {}
               /\ ~ticket'[q].listed => ticket'[q].pinned = {}
               /\ pc'[q] # "closed" => ticket'[q].file # None
    <3>1. CASE q = r
      BY <1>11, <1>13, <1>15, <3>1, NoneAssumption DEF Busy
    <3>2. CASE q # r
      <4>1. Outdated(ticket[q], ticket'[q]) /\ pc'[q] = pc[q]
        BY <1>16, <3>2
      <4>2. /\ ticket[q].listed => pc[q] \in Busy
            /\ pc[q] \in Busy /\ ticket[q].live => ticket[q].listed
            /\ ~ticket[q].listed \/ pc[q] # "fetching" => ticket[q].active = {}
            /\ pc[q] = "fetching" => ticket[q].todo # {}
            /\ ~ticket[q].listed => ticket[q].pinned = {}
            /\ pc[q] # "closed" => ticket[q].file # None
        BY DEF IInv, TicketsInUse
      <4> QED
        BY <4>1, <4>2 DEF Outdated
    <3> QED
      BY <3>1, <3>2
  <2> QED
    BY <2>1 DEF TicketsInUse
<1>19. HandlesExact'
  <2>1. ASSUME NEW q \in Readers
        PROVE  /\ pc[q] \in Busy \cup {"open"} <=> pc'[q] \in Busy \cup {"open"}
               /\ ticket'[q].file = ticket[q].file
    <3>1. CASE q = r
      BY <1>1, <1>9, <1>13, <1>15, <3>1 DEF Busy
    <3>2. CASE q # r
      <4>1. Outdated(ticket[q], ticket'[q]) /\ pc'[q] = pc[q]
        BY <1>16, <3>2
      <4> QED
        BY <4>1 DEF Outdated
    <3> QED
      BY <3>1, <3>2
  <2> QED
    BY <1>9, <2>1, HoldersKept DEF IInv
<1>20. /\ CoreTypes(c) /\ c.pins = windowPins /\ c.leases = leases
       /\ anchor = None => c.anchor # None /\ c.anchor.file = f /\ c.candidate = None
       /\ anchor # None => c.anchor = anchor /\ c.confirmed = confirmed
       /\ anchor # None => c.candidate = candidate \/ (c.candidate # candidate /\ c.candidate.file = f)
       /\ anchor # None /\ ~InCurrentWindow(f, off) /\ c.candidate # None => c.candidate.file = f
  BY <1>3, <1>11, <1>12, ClassifiedFacts DEF IInv
<1>21. /\ CoreTypes(d) /\ d.pins = windowPins /\ d.leases = leases \ wanted
       /\ d.anchor = c.anchor /\ d.confirmed = c.confirmed /\ d.candidate = c.candidate
  <2>1. DOMAIN c = CoreFields
    BY <1>20 DEF CoreTypes
  <2>2. /\ DOMAIN d = CoreFields /\ d.anchor = c.anchor /\ d.confirmed = c.confirmed /\ d.consumed = c.consumed
        /\ d.candidate = c.candidate /\ d.pins = c.pins /\ d.leases = c.leases \ wanted /\ d.state = c.state
    BY <1>8, <2>1, SMTT(30) DEF CoreFields
  <2> QED
    BY <1>20, <2>2 DEF CoreTypes
<1>22. ASSUME NEW p, NEW q
       PROVE  /\ q \in Pinners(p)' <=> q \in Pinners(p) \/ (q = r /\ p \in granted)
              /\ q \in Waiters(p)' <=> q \in Waiters(p)
  <2>1. /\ q \in Pinners(p) <=> q \in Readers /\ ticket[q].listed /\ p \in ticket[q].pinned
        /\ q \in Pinners(p)' <=> q \in Readers /\ ticket'[q].listed /\ p \in ticket'[q].pinned
        /\ q \in Waiters(p) <=> q \in Readers /\ ticket[q].listed /\ p \in ticket[q].active
        /\ q \in Waiters(p)' <=> q \in Readers /\ ticket'[q].listed /\ p \in ticket'[q].active
    BY DEF Pinners, Waiters, Listed
  <2>2. CASE q = r
    BY <1>11, <1>13, <1>15, <2>1, <2>2
  <2>3. CASE q # r /\ q \in Readers
    <3>1. Outdated(ticket[q], ticket'[q])
      BY <1>16, <2>3
    <3> QED
      BY <2>1, <2>3, <3>1 DEF Outdated
  <2> QED
    BY <2>1, <2>2, <2>3
<1>23. PICK held : held = [p \in Pieces |-> Cardinality(Pinners(p)')]
  OBVIOUS
<1>24. PICK counts : counts = Retained(refs, granted)
  OBVIOUS
<1>25. ASSUME NEW p \in Pieces
       PROVE  /\ held[p] = Cardinality(Pinners(p)') /\ held[p] \in Nat
              /\ counts[p] = held[p] + One(p, windowPins)
              /\ Waiters(p)' = Waiters(p)
  <2>1. counts[p] = IF p \in granted THEN refs[p] + 1 ELSE refs[p]
    BY <1>24 DEF Retained
  <2>2. refs[p] = Cardinality(Pinners(p)) + One(p, windowPins)
    BY DEF IInv, ReferencesExact, Pinners, One
  <2>3. Cardinality(Pinners(p)) \in Nat /\ Cardinality(Pinners(p)') \in Nat /\ IsFiniteSet(Pinners(p))
    BY PinnersFacts
  <2>4. One(p, windowPins) \in Nat
    BY SMTT(30) DEF One
  <2>5. held[p] = Cardinality(Pinners(p)')
    BY <1>23
  <2>6. Waiters(p)' = Waiters(p)
    <3>1. \A q : q \in Waiters(p)' <=> q \in Waiters(p)
      BY <1>22
    <3> QED
      BY ONLY <3>1, SMTT(30)
  <2>7. CASE p \in granted
    <3>1. ASSUME NEW q PROVE q \in Pinners(p)' <=> q \in Pinners(p) \cup {r}
      <4>1. q \in Pinners(p)' <=> q \in Pinners(p) \/ (q = r /\ p \in granted)
        BY <1>22
      <4> QED
        BY <2>7, <4>1
    <3>2. Pinners(p)' = Pinners(p) \cup {r}
      BY <3>1, SameElements
    <3>3. r \notin Pinners(p)
      BY <1>11 DEF Pinners, Listed
    <3>4. Cardinality(Pinners(p)') = Cardinality(Pinners(p)) + 1
      BY <2>3, <3>2, <3>3, FS_AddElement
    <3>5. counts[p] = refs[p] + 1
      BY <2>1, <2>7
    <3>6. counts[p] = Cardinality(Pinners(p)') + One(p, windowPins)
      BY <2>2, <2>3, <2>4, <3>4, <3>5, SMTT(30)
    <3> QED
      BY <2>3, <2>5, <2>6, <3>6
  <2>8. CASE p \notin granted
    <3>1. \A q : q \in Pinners(p)' <=> q \in Pinners(p)
      BY <1>22, <2>8
    <3>2. Pinners(p)' = Pinners(p)
      BY <3>1, SameElements
    <3>3. counts[p] = refs[p]
      BY <2>1, <2>8
    <3> QED
      BY <2>2, <2>3, <2>5, <2>6, <3>2, <3>3
  <2> QED
    BY <2>7, <2>8
<1>26. /\ PlaceTypes' /\ NoAnchorNoWindow' /\ BudgetExact'
       /\ refs' \in [Pieces -> Nat] /\ \A p \in Pieces : refs'[p] = held[p] + One(p, windowPins')
       /\ windowPins' \subseteq Pieces /\ leases' \subseteq Pieces /\ used' \in Nat /\ state' \in States
       /\ leases' \subseteq leases /\ leases' \subseteq windowPins'
  <2>1. Becomes(d, counts) /\ \A p \in Pieces : held[p] \in Nat /\ counts[p] = held[p] + One(p, windowPins)
    BY <1>9, <1>24, <1>25
  <2>2. Counts /\ BudgetExact /\ LeasesYieldAndArePinned
    BY DEF IInv
  <2>3. /\ (d.pins = windowPins /\ d.leases \subseteq leases) \/ (d.pins = {} /\ d.leases = {})
        /\ d.anchor = None => d.pins = {} /\ d.leases = {}
    BY <1>20, <1>21
  <2>4. UNCHANGED otherUsed
    BY <1>9
  <2> QED
    BY <1>21, <2>1, <2>2, <2>3, <2>4, BecomesStep
<1>27. ReferencesExact'
  <2>1. \A p \in Pieces : /\ refs'[p] = Cardinality(Pinners(p)') + One(p, windowPins')
                          /\ foregroundPieces'[p] = Cardinality(Waiters(p)')
    <3>1. \A p \in Pieces : foregroundPieces[p] = Cardinality(Waiters(p))
      BY DEF IInv, ReferencesExact, Waiters
    <3> QED
      BY <1>9, <1>25, <1>26, <3>1
  <2> QED
    BY <2>1, PinnersFacts
<1>28. LeasesYieldAndArePinned'
  BY <1>9, <1>26 DEF IInv, LeasesYieldAndArePinned
<1>29. anchor' = c.anchor /\ confirmed' = c.confirmed /\ candidate' = c.candidate
  BY <1>9, <1>21 DEF Becomes
<1>30. WindowReadsOfAnchor'
  <2>1. ASSUME NEW q \in Readers, ticket'[q].listed, ticket'[q].current, ticket'[q].kind = "window"
        PROVE  anchor' # None /\ anchor'.file = ticket'[q].file
    <3>1. CASE q = r
      <4>1. w /\ ticket'[q].file = f
        BY <1>13, <1>15, <2>1, <3>1
      <4> QED
        BY <1>6, <1>20, <1>29, <4>1 DEF InCurrentWindow
    <3>2. CASE q # r
      <4>1. Outdated(ticket[q], ticket'[q]) /\ ~first /\ ticket'[q].current = ticket[q].current
        BY <1>16, <2>1, <3>2
      <4>2. anchor # None /\ anchor.file = ticket[q].file
        BY <2>1, <4>1 DEF Outdated, IInv, WindowReadsOfAnchor
      <4> QED
        BY <1>20, <1>29, <4>1, <4>2 DEF Outdated
    <3> QED
      BY <3>1, <3>2
  <2> QED
    BY <2>1 DEF WindowReadsOfAnchor
<1>31. SeekReadsOfCandidate'
  <2>1. ASSUME NEW q \in Readers, ticket'[q].listed, ticket'[q].candidate, candidate' # None
        PROVE  candidate'.file = ticket'[q].file
    <3>1. anchor # None /\ ~first
      BY <1>4, <1>20, <1>29, <2>1
    <3>2. CASE q = r
      <4>1. ~w /\ ticket'[q].file = f
        BY <1>13, <1>15, <2>1, <3>2
      <4> QED
        BY <1>6, <1>20, <1>29, <2>1, <3>1, <4>1
    <3>3. CASE q # r
      <4>1. Outdated(ticket[q], ticket'[q]) /\ ~seek /\ ticket'[q].candidate = ticket[q].candidate
        BY <1>16, <2>1, <3>1, <3>3
      <4>2. candidate' = candidate
        BY <1>5, <1>29, <4>1
      <4> QED
        BY <2>1, <4>1, <4>2 DEF Outdated, IInv, SeekReadsOfCandidate
    <3> QED
      BY <3>2, <3>3
  <2> QED
    BY <2>1 DEF SeekReadsOfCandidate
<1>32. UnconfirmedIsRead'
  <2>1. ASSUME anchor' # None, ~confirmed'
        PROVE  \E q \in Listed' : ticket'[q].current /\ ticket'[q].kind = "window" /\ ticket'[q].file = anchor'.file
    <3>1. CASE anchor = None
      <4>1. /\ ticket'[r].listed /\ ticket'[r].current /\ ticket'[r].kind = "window"
            /\ ticket'[r].file = anchor'.file
        BY <1>6, <1>13, <1>15, <1>20, <1>29, <3>1
      <4> QED
        BY <4>1 DEF Listed
    <3>2. CASE anchor # None
      <4>1. PICK q \in Listed : ticket[q].current /\ ticket[q].kind = "window" /\ ticket[q].file = anchor.file
        BY <1>20, <1>29, <2>1, <3>2 DEF IInv, UnconfirmedIsRead
      <4>2. q \in Readers /\ q # r /\ ticket[q].listed /\ ~first
        BY <1>4, <1>11, <3>2 DEF Listed
      <4>3. Outdated(ticket[q], ticket'[q]) /\ ticket'[q].current = ticket[q].current
        BY <1>16, <4>2
      <4>4. /\ ticket'[q].listed /\ ticket'[q].current /\ ticket'[q].kind = "window"
            /\ ticket'[q].file = anchor'.file
        BY <1>20, <1>29, <3>2, <4>1, <4>2, <4>3 DEF Outdated
      <4> QED
        BY <4>2, <4>4 DEF Listed
    <3> QED
      BY <3>1, <3>2
  <2> QED
    BY <2>1 DEF UnconfirmedIsRead
<1>33. PlacesHeldOpen'
  <2>1. ASSUME NEW g, HeldOpen(g) PROVE HeldOpen(g)'
    <3>1. ASSUME NEW q \in Readers, pc[q] # "closed", ticket[q].file = g
          PROVE  pc'[q] # "closed" /\ ticket'[q].file = g
      <4>1. CASE q = r
        BY <1>1, <1>13, <1>15, <3>1, <4>1
      <4>2. CASE q # r
        <5>1. Outdated(ticket[q], ticket'[q]) /\ pc'[q] = pc[q]
          BY <1>16, <4>2
        <5> QED
          BY <3>1, <5>1 DEF Outdated
      <4> QED
        BY <4>1, <4>2
    <3> QED
      BY <2>1, <3>1, FilesStayOpen
  <2>2. HeldOpen(f)'
    BY <1>13, <1>15 DEF HeldOpen
  <2>3. ASSUME anchor' # None PROVE HeldOpen(anchor.file)'
    <3>1. PICK g : g = anchor'.file
      OBVIOUS
    <3>2. g = f \/ HeldOpen(g)
      BY <1>20, <1>29, <2>3, <3>1 DEF IInv, PlacesHeldOpen
    <3>3. HeldOpen(g)'
      BY <2>1, <2>2, <3>2
    <3> QED
      BY <3>1, <3>3 DEF HeldOpen
  <2>4. ASSUME candidate' # None PROVE HeldOpen(candidate.file)'
    <3>1. PICK g : g = candidate'.file
      OBVIOUS
    <3>2. g = f \/ HeldOpen(g)
      BY <1>20, <1>29, <2>4, <3>1 DEF IInv, PlacesHeldOpen
    <3>3. HeldOpen(g)'
      BY <2>1, <2>2, <3>2
    <3> QED
      BY <3>1, <3>3 DEF HeldOpen
  <2> QED
    BY <2>3, <2>4 DEF PlacesHeldOpen, HeldOpen
<1>34. SleepsInStep' /\ Counts'
  BY <1>9, <1>26, SleepKept DEF IInv, Counts, States
<1> QED
  BY <1>15, <1>17, <1>18, <1>19, <1>26, <1>27, <1>28, <1>30, <1>31, <1>32, <1>33, <1>34 DEF IInv

-----------------------------------------------------------------------------
(* The window lies within its file, and so in pieces of the torrent. *)
LEMMA WindowFacts ==
    ASSUME PlaceTypes
    PROVE  DesiredPieces \in SUBSET Pieces
<1>1. CASE anchor = None
  BY <1>1 DEF DesiredPieces
<1>2. CASE anchor # None
  <2>1. anchor.file \in Files /\ anchor.cursor \in 0 .. FileSize[anchor.file]
    BY <1>2, PlaceFacts DEF PlaceTypes
  <2>2. FileSize[anchor.file] \in Nat /\ High \in Nat
    BY <2>1, PrefetchAssumption
  <2>3. PICK n, z : n = anchor.cursor /\ z = FileSize[anchor.file]
    OBVIOUS
  <2>4. \A o \in n .. Min2(n + High, z) - 1 : o \in 0 .. z - 1
    <3>1. n \in 0 .. z /\ z \in Nat /\ High \in Nat
      BY <2>1, <2>2, <2>3
    <3> QED
      BY <3>1, SMTT(30) DEF Min2
  <2>5. \A o \in Window : o \in Offsets(anchor.file)
    BY <2>3, <2>4 DEF Window, WindowEnd, Offsets
  <2>6. \A o \in Window : PieceOf(anchor.file, o) \in Pieces
    BY <2>1, <2>5, PieceFacts
  <2> QED
    BY <1>2, <2>6 DEF DesiredPieces
<1> QED
  BY <1>1, <1>2

(* The leases the coordinator adds are of pieces of the window that no read   *)
(* waits for, and within the budget.                                          *)
LEMMA LeasedFacts ==
    ASSUME IInv, NEW held, held \subseteq leases
    PROVE  /\ Leased(held) \subseteq DesiredPieces \ cached
           /\ \A p \in Leased(held) : foregroundPieces[p] = 0
           /\ IsFiniteSet(Leased(held)) /\ IsFiniteSet(held)
           /\ Cardinality(Leased(held)) + Cardinality(held) + otherUsed <= Limit
           /\ Cardinality(held) + otherUsed <= Limit
<1>1. /\ used = Cardinality(leases) + otherUsed /\ used <= Limit /\ used \in Nat /\ otherUsed \in Nat
      /\ leases \subseteq Pieces
  BY DEF IInv, BudgetExact, Counts
<1>2. Limit \in Nat
  BY PrefetchAssumption
<1>3. held \subseteq Pieces /\ IsFiniteSet(leases) /\ leases \cap held = held
  BY <1>1, Countable
<1>4. Cardinality(leases \ held) = Cardinality(leases) - Cardinality(held)
  BY <1>3, FS_Difference
<1>5. /\ Cardinality(held) \in Nat /\ Cardinality(leases) \in Nat /\ Cardinality(held) <= Cardinality(leases)
      /\ IsFiniteSet(held)
  BY <1>1, <1>3, Countable, FS_Subset
<1>6. Fetchable(held) \subseteq DesiredPieces \ cached /\ \A p \in Fetchable(held) : foregroundPieces[p] = 0
  BY DEF Fetchable, MissingPieces
<1>7. DesiredPieces \in SUBSET Pieces
  BY WindowFacts DEF IInv
<1>8. Fetchable(held) \in SUBSET Pieces
  BY <1>6, <1>7
<1>9. PICK n : n = Min2(Limit - (used - Cardinality(leases \ held)), Limit - Cardinality(held))
  OBVIOUS
<1>10. n \in Int /\ 0 <= n /\ n + Cardinality(held) + otherUsed <= Limit /\ Cardinality(held) + otherUsed <= Limit
  BY <1>1, <1>2, <1>4, <1>5, <1>9, SMTT(30) DEF Min2
<1>11. Leased(held) = FirstOf(n, Fetchable(held))
  BY <1>9 DEF Leased
<1>12. Leased(held) \subseteq Fetchable(held) /\ Cardinality(Leased(held)) <= n
  BY <1>8, <1>10, <1>11, FirstOfFacts
<1>13. IsFiniteSet(Leased(held)) /\ Cardinality(Leased(held)) \in Nat
  BY <1>8, <1>12, Countable
<1>14. Cardinality(Leased(held)) + Cardinality(held) + otherUsed <= Limit
  BY <1>1, <1>2, <1>5, <1>10, <1>12, <1>13, SMTT(30)
<1> QED
  BY <1>5, <1>6, <1>10, <1>12, <1>13, <1>14

(* What is pinned once the window is: the references of the pieces that have  *)
(* left it are dropped, those of the pieces that are new to it taken.         *)
LEMMA RepinFacts ==
    ASSUME IInv, NEW adm, adm \subseteq DesiredPieces,
           windowPins' = KeptPins \cup adm, refs' = Retained(KeptRefs, adm \ KeptPins), UNCHANGED ticket
    PROVE  /\ refs' \in [Pieces -> Nat]
           /\ \A p \in Pieces : refs'[p] = Cardinality(Pinners(p)') + One(p, windowPins')
<1>1. ASSUME NEW p \in Pieces
      PROVE  refs'[p] = Cardinality(Pinners(p)') + One(p, windowPins') /\ refs'[p] \in Nat
  <2>1. PICK n : n = Cardinality(Pinners(p))
    OBVIOUS
  <2>2. n \in Nat /\ Cardinality(Pinners(p)') = n
    <3>1. Pinners(p)' = Pinners(p)
      BY DEF Pinners, Listed
    <3> QED
      BY <2>1, <3>1, PinnersFacts
  <2>3. refs[p] = n + One(p, windowPins)
    BY <2>1 DEF IInv, ReferencesExact, Pinners, One
  <2>4. /\ KeptRefs[p] = IF p \in windowPins \ KeptPins THEN Max2(0, refs[p] - 1) ELSE refs[p]
        /\ refs'[p] = IF p \in adm \ KeptPins THEN KeptRefs[p] + 1 ELSE KeptRefs[p]
    BY DEF KeptRefs, Released, Retained
  <2>5. CASE p \in windowPins /\ p \in DesiredPieces
    <3>1. p \in KeptPins /\ One(p, windowPins) = 1 /\ One(p, windowPins') = 1
      BY <2>5 DEF KeptPins, One
    <3>2. refs'[p] = n + 1
      BY <2>3, <2>4, <3>1
    <3>3. n + 1 \in Nat
      BY <2>2, SMTT(30)
    <3> QED
      BY <2>2, <3>1, <3>2, <3>3
  <2>6. CASE p \in windowPins /\ p \notin DesiredPieces
    <3>1. p \notin KeptPins /\ p \notin adm /\ One(p, windowPins) = 1 /\ One(p, windowPins') = 0
      BY <2>6 DEF KeptPins, One
    <3>2. refs'[p] = Max2(0, refs[p] - 1) /\ refs[p] = n + 1
      BY <2>3, <2>4, <2>6, <3>1
    <3>3. refs'[p] = n + 0 /\ refs'[p] \in Nat
      BY <2>2, <3>2, SMTT(30) DEF Max2
    <3> QED
      BY <2>2, <3>1, <3>3
  <2>7. CASE p \notin windowPins
    <3>1. p \notin KeptPins /\ One(p, windowPins) = 0 /\ One(p, windowPins') = One(p, adm)
      BY <2>7 DEF KeptPins, One
    <3>2. refs'[p] = IF p \in adm THEN n + 0 + 1 ELSE n + 0
      BY <2>3, <2>4, <2>7, <3>1
    <3>3. refs'[p] = n + One(p, adm) /\ refs'[p] \in Nat
      BY <2>2, <3>2, SMTT(30) DEF One
    <3> QED
      BY <2>2, <3>1, <3>3
  <2> QED
    BY <2>5, <2>6, <2>7
<1>2. refs' = [p \in Pieces |-> refs'[p]]
  BY DEF Retained
<1> QED
  BY <1>1, <1>2

(* A reconciliation of the window. *)
LEMMA WindowReconciled ==
    ASSUME IInv, Reconcile, anchor # None
    PROVE  IInv'
<1>1. PICK up, adm, held, add, now :
         up = Unpinnable /\ adm = Admitted(up) /\ held = KeptLeases
         /\ add = (IF WindowFull(up) \/ up # {} THEN {} ELSE Leased(held))
         /\ now = (IF ~WindowFull(up) /\ up # {} THEN held ELSE (held \cup add) \ cached)
  OBVIOUS
<1>2. PICK full \in BOOLEAN : full <=> WindowFull(up)
  <2>1. WindowFull(up) \in BOOLEAN
    BY DEF WindowFull
  <2> QED
    BY <2>1
<1>3. /\ windowPins' = KeptPins \cup adm /\ refs' = Retained(KeptRefs, adm \ KeptPins)
      /\ leases' = now /\ used' = used - Cardinality(leases) + Cardinality(now)
      /\ state' = IF full THEN "paused"
                  ELSE IF up # {} \/ BudgetExhausted(held) THEN "budget-blocked" ELSE "filling"
      /\ UNCHANGED <<anchor, confirmed, consumed, candidate, ticket, foregroundPieces>>
      /\ UNCHANGED <<otherUsed, otherPins, cached, pc, handles>> /\ wake' = FALSE
  BY <1>1, <1>2 DEF Reconcile, envVars
<1>4. DesiredPieces \in SUBSET Pieces /\ DesiredPieces' = DesiredPieces
  <2>1. DesiredPieces' = DesiredPieces
    BY <1>3 DEF DesiredPieces, Window, PieceOf
  <2> QED
    BY <2>1, WindowFacts DEF IInv
<1>5. adm \subseteq DesiredPieces /\ (up = {} => adm = DesiredPieces)
  BY <1>1 DEF Admitted
<1>6. /\ held \subseteq leases /\ held \subseteq DesiredPieces /\ held \subseteq KeptPins
      /\ \A p \in held : foregroundPieces[p] = 0
  BY <1>1 DEF KeptLeases, KeptPins, IInv, LeasesYieldAndArePinned
<1>7. windowPins' \subseteq DesiredPieces /\ (up = {} => windowPins' = DesiredPieces)
  BY <1>3, <1>5 DEF KeptPins
<1>8. /\ Leased(held) \subseteq DesiredPieces /\ \A p \in Leased(held) : foregroundPieces[p] = 0
      /\ IsFiniteSet(Leased(held)) /\ IsFiniteSet(held)
      /\ Cardinality(Leased(held)) + Cardinality(held) + otherUsed <= Limit
      /\ Cardinality(held) + otherUsed <= Limit
  BY <1>6, LeasedFacts
<1>9. /\ add = {} \/ (add = Leased(held) /\ up = {})
      /\ now \subseteq held \cup add /\ (full \/ up = {} => now \cap cached = {})
  BY <1>1, <1>2
<1>10. now \subseteq windowPins' /\ \A p \in now : foregroundPieces[p] = 0
  BY <1>3, <1>6, <1>7, <1>8, <1>9
<1>11. Cardinality(now) + otherUsed <= Limit /\ Cardinality(now) \in Nat
  <2>1. Cardinality(held) \in Nat /\ Cardinality(Leased(held)) \in Nat
    BY <1>8, FS_CardinalityType
  <2>2. /\ IsFiniteSet(held \cup Leased(held))
        /\ Cardinality(held \cup Leased(held)) <= Cardinality(held) + Cardinality(Leased(held))
    <3>1. IsFiniteSet(held \cap Leased(held))
      BY <1>8, FS_Intersection
    <3>2. Cardinality(held \cap Leased(held)) \in Nat
      BY <3>1, FS_CardinalityType
    <3>3. /\ IsFiniteSet(held \cup Leased(held))
          /\ Cardinality(held \cup Leased(held)) =
               Cardinality(held) + Cardinality(Leased(held)) - Cardinality(held \cap Leased(held))
      BY <1>8, FS_Union
    <3> QED
      BY <2>1, <3>2, <3>3, SMTT(30)
  <2>3. now \subseteq held \cup Leased(held)
    BY <1>9
  <2>4. IsFiniteSet(now) /\ Cardinality(now) <= Cardinality(held \cup Leased(held))
    BY <2>2, <2>3, FS_Subset
  <2>5. Cardinality(now) \in Nat /\ Cardinality(held \cup Leased(held)) \in Nat
    BY <2>2, <2>4, FS_CardinalityType
  <2>6. otherUsed \in Nat /\ Limit \in Nat
    BY PrefetchAssumption DEF IInv, Counts
  <2> QED
    BY <1>8, <2>1, <2>2, <2>4, <2>5, <2>6, SMTT(30)
<1>12. used' = Cardinality(now) + otherUsed /\ used' \in Nat
  <2>1. /\ used = Cardinality(leases) + otherUsed /\ otherUsed \in Nat
        /\ Cardinality(leases) \in Nat
    BY Countable DEF IInv, Counts, BudgetExact
  <2> QED
    BY <1>3, <1>11, <2>1, SMTT(30)
<1>13. BudgetExact' /\ LeasesYieldAndArePinned' /\ NoAnchorNoWindow'
  BY <1>3, <1>10, <1>11, <1>12 DEF BudgetExact, LeasesYieldAndArePinned, NoAnchorNoWindow
<1>14. /\ refs' \in [Pieces -> Nat]
       /\ \A p \in Pieces : refs'[p] = Cardinality(Pinners(p)') + One(p, windowPins')
  BY <1>3, <1>5, RepinFacts
<1>15. ReferencesExact'
  <2>1. \A p \in Pieces : foregroundPieces'[p] = Cardinality({r \in Listed' : p \in ticket'[r].active})
    BY <1>3 DEF IInv, ReferencesExact, Listed
  <2> QED
    BY <1>14, <2>1 DEF ReferencesExact, Pinners, One
<1>16. Counts'
  <2>1. state' \in {"idle", "filling", "paused", "budget-blocked"}
    BY <1>3
  <2>2. windowPins' \subseteq Pieces /\ leases' \subseteq Pieces
    BY <1>3, <1>4, <1>7, <1>10
  <2> QED
    BY <1>3, <1>12, <1>14, <2>1, <2>2 DEF IInv, Counts
<1>17. PlaceTypes' /\ TicketTypes' /\ PcTypes'
  BY <1>3 DEF IInv, PlaceTypes, TicketTypes, PcTypes
<1>18. TicketsInUse'
  BY <1>3 DEF IInv, TicketsInUse
<1>19. HandlesExact'
  BY <1>3 DEF IInv, HandlesExact, Holders
<1>20. WindowReadsOfAnchor' /\ SeekReadsOfCandidate' /\ UnconfirmedIsRead' /\ PlacesHeldOpen'
  <2>1. \A q \in Readers : Kept(ticket, ticket', q)
    BY <1>3 DEF Kept, SameRead
  <2> QED
    BY <1>3, <2>1, PlacesKept
<1>21. SleepsInStep'
  <2>1. state' = "filling" => up = {}
    BY <1>3
  <2>2. state' # "budget-blocked" => full \/ up = {}
    BY <1>3
  <2> QED
    BY <1>3, <1>4, <1>7, <1>9, <2>1, <2>2 DEF SleepsInStep
<1> QED
  BY <1>13, <1>15, <1>16, <1>17, <1>18, <1>19, <1>20, <1>21 DEF IInv

(* A reconciliation, with a window or without one. *)
LEMMA ReconcileKeeps ==
    ASSUME IInv, Reconcile
    PROVE  IInv'
<1>1. CASE anchor = None
  <2>1. UNCHANGED coordVars /\ UNCHANGED <<pc, handles, otherUsed, otherPins, cached, anchor>>
    BY <1>1 DEF Reconcile, envVars, coordVars
  <2>2. SleepsInStep'
    BY <1>1, <2>1 DEF SleepsInStep
  <2>3. cached \subseteq Pieces /\ otherPins \in Nat
    BY DEF IInv, Counts
  <2> QED
    BY <2>1, <2>2, <2>3, NothingMoves
<1> QED
  BY <1>1, WindowReconciled

-----------------------------------------------------------------------------
(* Whatever happens next, the invariant goes on to hold. *)
LEMMA NextIInv ==
    ASSUME IInv, [Next]_vars
    PROVE  IInv'
<1>1. ASSUME NEW r \in Readers, ReadStep(r) PROVE IInv'
  <2>1. CASE StartPiece(r)
    BY <2>1, StartPieceKeeps
  <2>2. CASE StaleSpan(r)
    BY <2>2, StaleSpanKeeps
  <2>3. CASE FinishForeground(r)
    <3>1. CASE r \in Listed
      BY <2>3, <3>1, FinishListedKeeps
    <3>2. CASE r \notin Listed
      BY <2>3, <3>2, FinishCancelledKeeps
    <3> QED
      BY <3>1, <3>2
  <2>4. CASE ReleaseHandle(r)
    BY <2>4, ReleaseHandleKeeps
  <2>5. CASE ReleaseFile(r)
    BY <2>5, ReleaseFileKeeps
  <2>6. ASSUME NEW ok \in BOOLEAN, Hit(r, ok) PROVE IInv'
    BY <2>6, HitKeeps
  <2>7. ASSUME NEW ok \in BOOLEAN, FinishPiece(r, ok) PROVE IInv'
    BY <2>7, FinishPieceKeeps
  <2>8. ASSUME NEW f \in Files, Open(r, f) PROVE IInv'
    BY <2>8, OpenKeeps
  <2>9. ASSUME NEW off \in 0 .. TorrentSize - 1, NEW len \in Lengths, BeginForeground(r, off, len) PROVE IInv'
    BY <2>9, BeginForegroundKeeps
  <2> QED
    BY <1>1, <2>1, <2>2, <2>3, <2>4, <2>5, <2>6, <2>7, <2>8, <2>9 DEF ReadStep
<1>2. CASE Reconcile
  BY <1>2, ReconcileKeeps
<1>3. CASE Cleanup
  BY <1>3, CleanupKeeps
<1>4. CASE \/ Cancel
           \/ \E p \in Pieces : Arrive(p) \/ MarkNotComplete(p) \/ Evict(p)
           \/ \E n \in {-1, 1} : OtherPin(n)
  BY <1>4, SurroundingsKeep
<1>5. ASSUME NEW n \in {-1, 1}, OtherBudget(n) PROVE IInv'
  BY <1>5, OtherBudgetKeeps
<1>6. CASE UNCHANGED vars
  <2>1. /\ UNCHANGED coordVars /\ UNCHANGED <<pc, handles, otherUsed, otherPins, cached, wake>>
        /\ UNCHANGED <<anchor, windowPins, leases, state>>
    BY <1>6 DEF vars, coordVars
  <2>2. SleepsInStep'
    BY <2>1, SleepKept DEF IInv
  <2>3. cached \subseteq Pieces /\ otherPins \in Nat
    BY DEF IInv, Counts
  <2> QED
    BY <2>1, <2>2, <2>3, NothingMoves
<1> QED
  BY <1>1, <1>2, <1>3, <1>4, <1>5, <1>6 DEF Next

(* The inductive invariant holds throughout. *)
THEOREM Invariant == Spec => []IInv
<1>1. Init => IInv
  BY InitIInv
<1>2. IInv /\ [Next]_vars => IInv'
  BY NextIInv
<1> QED
  BY <1>1, <1>2, PTL DEF Spec

-----------------------------------------------------------------------------
(* Anchor and candidate stay within their files, the pieces held are pieces   *)
(* of the torrent, and no candidate waits with its second read done.          *)
THEOREM TypeCorrect == Spec => []TypeOK
<1>1. IInv => TypeOK
  <2> SUFFICES ASSUME IInv PROVE TypeOK
    OBVIOUS
  <2>1. anchor = None \/ (anchor.file \in Files /\ anchor.cursor \in 0 .. FileSize[anchor.file])
    BY PlaceFacts DEF IInv, PlaceTypes
  <2>2. candidate = None \/ (candidate.file \in Files /\ candidate.reads < SeekConfirmationReads)
    <3>1. candidate = None \/ (candidate.file \in Files /\ candidate.reads \in {0, 1})
      BY PlaceFacts DEF IInv, PlaceTypes
    <3>2. \A k \in {0, 1} : k < 2
      BY SMTT(30)
    <3> QED
      BY <3>1, <3>2 DEF SeekConfirmationReads
  <2>3. otherUsed \in 0 .. Limit
    <3>1. /\ used = Cardinality(leases) + otherUsed /\ used <= Limit /\ otherUsed \in Nat
          /\ Cardinality(leases) \in Nat /\ Limit \in Nat
      BY Countable, PrefetchAssumption DEF IInv, Counts, BudgetExact
    <3> QED
      BY <3>1, SMTT(30)
  <2> QED
    BY <2>1, <2>2, <2>3 DEF TypeOK, IInv, Counts, PcTypes
<1> QED
  BY <1>1, Invariant, PTL

(* Every pin, every foreground mark, every lease and every unit of the budget *)
(* is accounted for, in whatever order reads, seeks, failures, closed         *)
(* handles, reconciliations and the other torrents come: none is leaked, none *)
(* dropped while it is in use, and the budget is never overdrawn              *)
(* (retainLocked, releaseLocked, tryAcquire, cancelLeaseLocked).              *)
THEOREM AccountsAreExact == Spec => []AccountsExact
<1>1. IInv => AccountsExact
  BY DEF IInv, AccountsExact
<1> QED
  BY <1>1, Invariant, PTL

(* Nothing is held for nobody: an anchor that no read has confirmed belongs   *)
(* to a read in flight, and once every handle is released (releaseFile) there *)
(* is no window, no pin and no lease left.                                    *)
THEOREM NothingHeldForNobody == Spec => []HeldForReaders
<1>1. IInv => HeldForReaders
  <2> SUFFICES ASSUME IInv, \A r \in Readers : pc[r] = "closed"
               PROVE  anchor = None /\ windowPins = {} /\ leases = {} /\ \A p \in Pieces : refs[p] = 0
    BY DEF IInv, HeldForReaders, ClosedFilesHoldNothing
  <2>1. Listed = {}
    BY DEF IInv, TicketsInUse, Listed, Busy
  <2>2. anchor = None
    BY DEF IInv, PlacesHeldOpen, HeldOpen
  <2>3. windowPins = {} /\ leases = {}
    BY <2>2 DEF IInv, NoAnchorNoWindow
  <2>4. ASSUME NEW p \in Pieces PROVE refs[p] = 0
    <3>1. refs[p] = Cardinality({r \in Listed : p \in ticket[r].pinned}) + 0
      BY <2>3 DEF IInv, ReferencesExact
    <3>2. {r \in Listed : p \in ticket[r].pinned} = {}
      BY <2>1
    <3>3. Cardinality({}) = 0
      BY FS_EmptySet
    <3>4. refs[p] = 0 + 0
      BY <3>1, <3>2, <3>3
    <3> QED
      BY <3>4, SMTT(30)
  <2> QED
    BY <2>2, <2>3, <2>4
<1> QED
  BY <1>1, Invariant, PTL

(* No wake-up is lost: a coordinator that sleeps (reconcile has run and no    *)
(* signal came since) pins nothing outside the window, all of it if it is     *)
(* filling it, and leases no resident piece unless it is blocked.             *)
THEOREM NoWakeUpLost == Spec => []SleepsInStep
<1>1. IInv => SleepsInStep
  BY DEF IInv
<1> QED
  BY <1>1, Invariant, PTL

-----------------------------------------------------------------------------
(* The window stays where it is, or moves forward in its file, unless a read  *)
(* confirms a seek.                                                           *)
Stays ==
    anchor # None /\ anchor' # None
      /\ (anchor'.file # anchor.file \/ anchor'.cursor < anchor.cursor)
      => candidate # None /\ candidate.reads = 1 /\ candidate.file = anchor'.file

(* An anchor that does not change, or is given up, has not moved. *)
LEMMA AnchorLeft ==
    ASSUME PlaceTypes, anchor' = anchor \/ anchor' = None
    PROVE  Stays
<1> SUFFICES ASSUME anchor # None, anchor' = anchor PROVE Stays
  BY DEF Stays
<1>1. anchor.file \in Files /\ anchor.cursor \in 0 .. FileSize[anchor.file]
  BY PlaceFacts DEF PlaceTypes
<1>2. FileSize[anchor.file] \in Nat
  BY <1>1, PrefetchAssumption
<1>3. ~(anchor.cursor < anchor.cursor)
  BY <1>1, <1>2, SMTT(30)
<1> QED
  BY <1>3 DEF Stays

(* Where a read that ends leaves the anchor. *)
LEMMA FinishMoves ==
    ASSUME IInv, NEW r \in Readers, FinishForeground(r)
    PROVE  Stays
<1>1. CASE r \notin Listed
  BY <1>1, AnchorLeft DEF FinishForeground, IInv
<1>2. CASE r \in Listed
  <2>1. PICK u, c : u = Counted(r) /\ c = Settled(r, u)
    OBVIOUS
  <2>2. anchor' = c.anchor /\ pc[r] \in Busy
    BY <1>2, <2>1 DEF FinishForeground, Becomes, Busy
  <2>3. ticket[r].listed /\ ticket[r].file # None
    BY <1>2, <2>2 DEF IInv, TicketsInUse, Listed, Busy
  <2>4. /\ CoreTypes(u)
        /\ ~Confirms(r) /\ anchor # None => u.anchor.file = anchor.file /\ u.anchor.cursor >= anchor.cursor
        /\ Confirms(r) => candidate # None /\ candidate.reads = 1 /\ u.anchor.file = candidate.file
    BY <2>1, <2>3, CountedFacts DEF IInv
  <2>5. c = u \/ c.anchor = None
    BY <2>1, <2>4, WithoutAnchorFacts DEF Settled, CoreTypes
  <2>6. CASE c.anchor = None \/ anchor = None
    BY <2>2, <2>6 DEF Stays
  <2>7. CASE c = u /\ Confirms(r)
    BY <2>2, <2>4, <2>7 DEF Stays
  <2>8. CASE c = u /\ ~Confirms(r) /\ anchor # None /\ u.anchor # None
    <3>1. /\ u.anchor.cursor \in 0 .. FileSize[u.anchor.file] /\ u.anchor.file \in Files
          /\ anchor.cursor \in 0 .. FileSize[anchor.file] /\ anchor.file \in Files
      BY <2>4, <2>8, PlaceFacts DEF CoreTypes, IInv, PlaceTypes
    <3>2. FileSize[u.anchor.file] \in Nat /\ FileSize[anchor.file] \in Nat /\ u.anchor.cursor >= anchor.cursor
      BY <2>4, <2>8, <3>1, PrefetchAssumption
    <3>3. ~(u.anchor.cursor < anchor.cursor)
      BY ONLY <3>1, <3>2, SMTT(30)
    <3> QED
      BY <2>2, <2>4, <2>8, <3>3 DEF Stays
  <2> QED
    BY <2>5, <2>6, <2>7, <2>8
<1> QED
  BY <1>1, <1>2

(* A read that begins leaves an anchor alone. *)
LEMMA BeginMoves ==
    ASSUME IInv, NEW r \in Readers, NEW off, NEW len, BeginForeground(r, off, len)
    PROVE  Stays
<1>1. CASE anchor = None
  BY <1>1 DEF Stays
<1>2. CASE anchor # None
  <2>1. PICK c, f, w : f = ticket[r].file /\ c = Classified(f, off) /\ w = PlanWanted(f, off, len)
    OBVIOUS
  <2>2. anchor' = [c EXCEPT !.leases = @ \ w].anchor
    BY <2>1 DEF BeginForeground, Becomes
  <2>3. PICK k, d : k = Core /\ d = [file |-> f, start |-> off, read |-> {}, reads |-> 0]
    OBVIOUS
  <2>4. c = k \/ c = [k EXCEPT !.candidate = d]
    BY <1>2, <2>1, <2>3 DEF Classified
  <2>5. DOMAIN k = CoreFields /\ k.anchor = anchor
    BY <2>3, CoreFacts
  <2>6. DOMAIN c = CoreFields /\ c.anchor = anchor
    BY ONLY <2>4, <2>5, SMTT(30) DEF CoreFields
  <2>7. [c EXCEPT !.leases = @ \ w].anchor = anchor
    BY ONLY <2>6, SMTT(30) DEF CoreFields
  <2> QED
    BY <2>2, <2>7, AnchorLeft DEF IInv
<1> QED
  BY <1>1, <1>2

(* The release of a file gives its anchor up, and leaves another's alone. *)
LEMMA ReleaseMoves ==
    ASSUME IInv, NEW r \in Readers, ReleaseFile(r)
    PROVE  Stays
<1>1. PICK f, k : f = ticket[r].file /\ k = Core
  OBVIOUS
<1>2. PICK c : c = IF candidate # None /\ candidate.file = f THEN [k EXCEPT !.candidate = None] ELSE k
  OBVIOUS
<1>3. DOMAIN k = CoreFields /\ k.anchor = anchor
  BY <1>1, CoreFacts
<1>4. DOMAIN c = CoreFields /\ c.anchor = anchor
  BY ONLY <1>2, <1>3, SMTT(30) DEF CoreFields
<1>5. WithoutAnchor(c).anchor = None
  BY <1>4, WithoutAnchorFacts
<1>6. anchor' = c.anchor \/ anchor' = WithoutAnchor(c).anchor
  BY <1>1, <1>2 DEF ReleaseFile, Becomes
<1> QED
  BY <1>4, <1>5, <1>6, AnchorLeft DEF IInv

(* The window jumps elsewhere only for a second successful read there,        *)
(* whatever reads, failures, cancellations and reconciliations come between   *)
(* the two (recordCandidateLocked, defaultSeekConfirmationReads).             *)
THEOREM TwoReadsToSeek == Spec => SeekNeedsTwoReads
<1>1. ASSUME IInv, [Next]_vars PROVE Stays
  <2>1. ASSUME NEW r \in Readers, ReadStep(r) PROVE Stays
    <3>1. CASE \/ StartPiece(r) \/ StaleSpan(r) \/ ReleaseHandle(r)
               \/ \E ok \in BOOLEAN : Hit(r, ok) \/ FinishPiece(r, ok)
               \/ \E f \in Files : Open(r, f)
      <4>1. anchor' = anchor
        BY <3>1 DEF StartPiece, StaleSpan, ReleaseHandle, Hit, FinishPiece, Open, coordVars
      <4> QED
        BY <1>1, <4>1, AnchorLeft DEF IInv
    <3>2. CASE FinishForeground(r)
      BY <1>1, <3>2, FinishMoves
    <3>3. CASE ReleaseFile(r)
      BY <1>1, <3>3, ReleaseMoves
    <3>4. CASE \E off \in 0 .. TorrentSize - 1, len \in Lengths : BeginForeground(r, off, len)
      BY <1>1, <3>4, BeginMoves
    <3> QED
      BY <2>1, <3>1, <3>2, <3>3, <3>4 DEF ReadStep
  <2>2. CASE \/ Reconcile \/ Cancel \/ UNCHANGED vars
             \/ \E p \in Pieces : Arrive(p) \/ MarkNotComplete(p) \/ Evict(p)
             \/ \E n \in {-1, 1} : OtherBudget(n) \/ OtherPin(n)
    <3>1. anchor' = anchor
      BY <2>2 DEF Reconcile, Cancel, Arrive, MarkNotComplete, Evict, OtherBudget, OtherPin, coordVars, vars
    <3> QED
      BY <1>1, <3>1, AnchorLeft DEF IInv
  <2>3. CASE Cleanup
    <3>1. PICK c : c = WithoutAnchor(Core)
      OBVIOUS
    <3>2. DOMAIN c = CoreFields /\ c.anchor = None
      BY <3>1, CoreFacts, WithoutAnchorFacts
    <3>3. anchor' = [c EXCEPT !.state = state].anchor
      BY <2>3, <3>1 DEF Cleanup, Becomes
    <3>4. anchor' = None
      BY ONLY <3>2, <3>3, SMTT(30) DEF CoreFields
    <3> QED
      BY <1>1, <3>4, AnchorLeft DEF IInv
  <2> QED
    BY <1>1, <2>1, <2>2, <2>3 DEF Next
<1>2. IInv /\ [Next]_vars => Stays
  BY <1>1
<1> QED
  BY <1>2, Invariant, PTL DEF Spec, SeekNeedsTwoReads, Stays

============================================================================
