------------------------------- MODULE Handles -------------------------------
(* One open file of the SMB server: the server's handle (internal/smb/vfs.go)*)
(* around a vfs.Handle (internal/vfs/tree.go) around the reader the backend  *)
(* opened.  The protocol library serves the reads of a connection            *)
(* concurrently, and closes the handle both when the client asks to and when *)
(* the connection goes away.                                                 *)
EXTENDS Naturals, FiniteSets

CONSTANTS
    Reads,      \* concurrent READ requests
    Closers     \* concurrent closes of the handle

VARIABLES
    closed,     \* handle.closed; handle.ctx is cancelled in the same step
    once,       \* handle.once: "new", "running" or "done"
    file,       \* the vfs.Handle: [cancelled, closed]
    waiting,    \* the close of the vfs.Handle waits for its lock
    reader,     \* how often the backend's reader was closed
    read,       \* program counter of each read
    close       \* program counter of each close

vars == <<closed, once, file, waiting, reader, read, close>>

Init ==
    /\ closed = FALSE /\ once = "new"
    /\ file = [cancelled |-> FALSE, closed |-> FALSE]
    /\ waiting = FALSE /\ reader = 0
    /\ read = [r \in Reads |-> "idle"]
    /\ close = [c \in Closers |-> "idle"]

-----------------------------------------------------------------------------
(* handle.reads, and the readers inside the vfs.Handle's lock *)
Counted == {r \in Reads : read[r] \in {"counted", "locked", "reading", "read"}}
Inside == {r \in Reads : read[r] \in {"locked", "reading", "read"}}

Moves(r, pc) == read' = [read EXCEPT ![r] = pc]

(* Read: refused once the handle is closed, otherwise counted; the same step *)
(* ties the read's context to the handle's                                   *)
ReadBegin(r) ==
    /\ read[r] = "idle"
    /\ Moves(r, IF ~closed THEN "counted" ELSE "idle")
    /\ UNCHANGED <<closed, once, file, waiting, reader, close>>

(* the context is done already: cancelled by the close, by the client or by  *)
(* the timeout                                                               *)
ReadCancelled(r) ==
    /\ read[r] = "counted"
    /\ Moves(r, "idle")
    /\ UNCHANGED <<closed, once, file, waiting, reader, close>>

(* vfs.Handle.ReadAtContext: a close that waits for the lock keeps new       *)
(* readers out                                                               *)
ReadLock(r) ==
    /\ read[r] = "counted" /\ ~waiting
    /\ Moves(r, "locked")
    /\ UNCHANGED <<closed, once, file, waiting, reader, close>>

ReadStart(r) ==
    /\ read[r] = "locked"
    /\ Moves(r, IF closed \/ file.cancelled \/ file.closed THEN "read" ELSE "reading")
    /\ UNCHANGED <<closed, once, file, waiting, reader, close>>

(* the backend returns bytes, or an error; it may never *)
ReadReturns(r) ==
    /\ read[r] = "reading"
    /\ Moves(r, "read")
    /\ UNCHANGED <<closed, once, file, waiting, reader, close>>

(* faulty: the read is not tied to the context of the handle *)
NeverCancelled(r) == FALSE

Cancelled(r) == closed

(* but a cancelled one returns *)
ReadInterrupted(r) ==
    /\ read[r] = "reading" /\ Cancelled(r)
    /\ Moves(r, "read")
    /\ UNCHANGED <<closed, once, file, waiting, reader, close>>

ReadEnd(r) ==
    /\ read[r] = "read"
    /\ Moves(r, "idle")
    /\ UNCHANGED <<closed, once, file, waiting, reader, close>>

-----------------------------------------------------------------------------
(* handle.close: one close runs, the others wait for it (sync.Once) *)
CloseBegin(c) ==
    /\ close[c] = "idle"
    /\ close' = [close EXCEPT ![c] = IF once = "new" THEN "mark" ELSE "once"]
    /\ once' = IF once = "new" THEN "running" ELSE once
    /\ UNCHANGED <<closed, file, waiting, reader, read>>

CloseMark(c) ==
    /\ close[c] = "mark"
    /\ closed' = TRUE
    /\ close' = [close EXCEPT ![c] = "wait"]
    /\ UNCHANGED <<once, file, waiting, reader, read>>

(* faulty: the reads are not waited for *)
ReadsIgnored == TRUE

(* reads.Wait, then vfs.Handle.Close: cancel *)
ReadsDone == Counted = {}

CloseFile(c) ==
    /\ close[c] = "wait" /\ ReadsDone
    /\ file' = [file EXCEPT !.cancelled = TRUE]
    /\ waiting' = TRUE
    /\ close' = [close EXCEPT ![c] = "lock"]
    /\ UNCHANGED <<closed, once, reader, read>>

(* and, with the lock, the backend's reader *)
CloseReader(c) ==
    /\ close[c] = "lock" /\ Inside = {}
    /\ file' = [file EXCEPT !.closed = TRUE]
    /\ waiting' = FALSE
    /\ reader' = reader + 1
    /\ once' = "done"
    /\ close' = [close EXCEPT ![c] = "closed"]
    /\ UNCHANGED <<closed, read>>

CloseOther(c) ==
    /\ close[c] = "once" /\ once = "done"
    /\ close' = [close EXCEPT ![c] = "closed"]
    /\ UNCHANGED <<closed, once, file, waiting, reader, read>>

-----------------------------------------------------------------------------
ReadStep(r) == ReadCancelled(r) \/ ReadLock(r) \/ ReadStart(r) \/ ReadInterrupted(r) \/ ReadEnd(r)

CloseStep(c) == CloseMark(c) \/ CloseFile(c) \/ CloseReader(c) \/ CloseOther(c)

Next ==
    \/ \E r \in Reads : ReadBegin(r) \/ ReadStep(r) \/ ReadReturns(r)
    \/ \E c \in Closers : CloseBegin(c) \/ CloseStep(c)

Spec == Init /\ [][Next]_vars

(* Fairness: goroutines run, and a cancelled read returns.  The backend need *)
(* not ever deliver.                                                         *)
Fairness ==
    /\ \A r \in Reads : WF_vars(ReadStep(r))
    /\ \A c \in Closers : WF_vars(CloseStep(c))

-----------------------------------------------------------------------------
(* Correctness *)

TypeOK ==
    /\ closed \in BOOLEAN /\ waiting \in BOOLEAN /\ reader \in Nat
    /\ once \in {"new", "running", "done"}
    /\ file \in [cancelled : BOOLEAN, closed : BOOLEAN]
    /\ read \in [Reads -> {"idle", "counted", "locked", "reading", "read"}]
    /\ close \in [Closers -> {"idle", "mark", "wait", "lock", "once", "closed"}]

(* However reads and closes of a handle overlap, the backend's reader is     *)
(* closed once, and only after every read that was admitted has returned     *)
(* (handle.reads); none begins afterwards.                                   *)
ClosedDrained == reader > 0 => reader = 1 /\ Counted = {}

(* what has to end *)
Closing(c) == close[c] # "idle"
HasClosed(c) == close[c] = "closed"

-----------------------------------------------------------------------------
(* Why: one close at a time is between its begin and its end, and from the   *)
(* moment it has waited for the reads there are none.                        *)
Runs(c) == close[c] \in {"mark", "wait", "lock"}

OneRuns ==
    /\ \A c \in Closers : Runs(c) => once = "running" /\ \A d \in Closers : Runs(d) => d = c
    /\ \A c \in Closers : close[c] \in {"wait", "lock"} => closed

Drained ==
    /\ \A c \in Closers : close[c] = "lock" => Counted = {}
    /\ IF once = "done" THEN reader = 1 /\ closed /\ Counted = {} ELSE reader = 0

Inductive == TypeOK /\ OneRuns /\ Drained

=============================================================================
