------------------------------- MODULE MCLive -------------------------------
(***************************************************************************)
(* Model-checking instance of the parts in which something has to end, for  *)
(* liveness.  They share no state, so a behaviour is one of any of them:    *)
(* which, is chosen at the start.  The variables of the chosen one live in  *)
(* v1, v2,... in the order in which its module declares them.               *)
(***************************************************************************)
EXTENDS Naturals, Sequences

CONSTANTS
    None,
    Workers, MaxLives, MaxFaults, MaxCrashes, SyncFaults, Closable,   \* Session
    Readers, Pieces, Flights, Attempts,                               \* Fetch
    Reads, Closers,                                                   \* Handle
    MinuteTicks, Lookahead, MaxLag, MaxSets,                          \* Rate
    MaxMounts                                                         \* Proc

(* one day of three minutes, in ticks of half a minute *)
Day == <<0, 0, 1, 1, 2, 2>>
Wall == [t \in 0 .. Len(Day) - 1 |-> Day[t + 1]]
Settings == {[rate |-> 5, window |-> w] : w \in {None, <<1, 2>>}}

VARIABLES component, v1, v2, v3, v4, v5, v6, v7, v8, v9, v10, v11, v12, v13, v14, v15, v16

vars == <<component, v1, v2, v3, v4, v5, v6, v7, v8, v9, v10, v11, v12, v13, v14, v15, v16>>

Session == INSTANCE Registry WITH
    sidecar <- v1, final <- v2, pending <- v3, session <- v4, entry <- v5, torrent <- v6,
    lives <- v7, info <- v8, op <- v9, activeOp <- v10, fetch <- v11, add <- v12, worker <-
    v13, del <- v14, faults <- v15, crashes <- v16
Fetch == INSTANCE Fetcher WITH
    read <- v1, flight <- v2, inflight <- v3, closed <- v4, fileClosed <- v5, closer <- v6,
    cached <- v7
Handle == INSTANCE Handles WITH
    closed <- v1, once <- v2, file <- v3, waiting <- v4, reader <- v5, read <- v6, close <-
    v7
Rate == INSTANCE UploadRate WITH
    clock <- v1, file <- v2, settings <- v3, policy <- v4, limit <- v5, wake <- v6, ctx <-
    v7, runner <- v8, setter <- v9, sets <- v10
Proc == INSTANCE Process WITH
    pc <- v1, wanted <- v2, mounted <- v3, sequence <- v4, stopped <- v5, serve <- v6,
    serveErr <- v7, signal <- v8, unmount <- v9, timer <- v10, failed <- v11

(* the variables a component does not have *)
rest11 == <<v12, v13, v14, v15, v16>>
None11 == v12 = None /\ v13 = None /\ v14 = None /\ v15 = None /\ v16 = None
rest10 == <<v11, rest11>>
None10 == v11 = None /\ None11
rest7 == <<v8, v9, v10, rest10>>
None7 == v8 = None /\ v9 = None /\ v10 = None /\ None10

Init ==
    \/ component = "session" /\ Session!Init
    \/ component = "fetch" /\ Fetch!Init /\ None7
    \/ component = "handle" /\ Handle!Init /\ None7
    \/ component = "rate" /\ Rate!Init /\ None10
    \/ component = "proc" /\ Proc!Init /\ None11

Next ==
    \/ component = "session" /\ Session!Next /\ UNCHANGED component
    \/ component = "fetch" /\ Fetch!Next /\ UNCHANGED <<component, rest7>>
    \/ component = "handle" /\ Handle!Next /\ UNCHANGED <<component, rest7>>
    \/ component = "rate" /\ Rate!Next /\ UNCHANGED <<component, rest10>>
    \/ component = "proc" /\ Proc!Next /\ UNCHANGED <<component, rest11>>


fetchVars == <<v1, v2, v3, v4, v5, v6, v7>>
handleVars == fetchVars
rateVars == <<fetchVars, v8, v9, v10>>
procVars == <<rateVars, v11>>

(* the fairness each module states, for the part that was chosen *)
Fairness ==
    /\ SF_vars(component = "session" /\ Session!AddNext /\ UNCHANGED component)
    /\ SF_vars(component = "session" /\ Session!DeleteNext /\ UNCHANGED component)
    /\ SF_vars(component = "session" /\ Session!SessionNext /\ UNCHANGED component)
    /\ \A w \in Workers : SF_vars(component = "session" /\ Session!WorkerNext(w) /\ UNCHANGED component)
    /\ \A r \in Readers : /\ WF_fetchVars(component = "fetch" /\ Fetch!ReadStep(r))
                         /\ WF_fetchVars(component = "fetch" /\ Fetch!Expire(r))
    /\ \A f \in Flights : /\ WF_fetchVars(component = "fetch" /\ Fetch!FlightDone(f))
                         /\ WF_fetchVars(component = "fetch" /\ Fetch!FlightRead(f, "canceled"))
    /\ WF_fetchVars(component = "fetch" /\ Fetch!CloseStep)
    /\ \A r \in Reads : WF_handleVars(component = "handle" /\ Handle!ReadStep(r))
    /\ \A c \in Closers : WF_handleVars(component = "handle" /\ Handle!CloseStep(c))
    /\ WF_rateVars(component = "rate" /\ Rate!Run)
    /\ SF_rateVars(component = "rate" /\ Rate!RunStop)
    /\ WF_rateVars(component = "rate" /\ Rate!Set)
    /\ WF_procVars(component = "proc" /\ Proc!Run)
    /\ WF_procVars(component = "proc" /\ Proc!Fire)

Spec == Init /\ [][Next]_vars /\ Fairness

-----------------------------------------------------------------------------
(* Readers and closers are interchangeable: what holds of one holds of all. *)
OneReader == CHOOSE r \in Readers : TRUE
OneCloser == CHOOSE c \in Closers : TRUE

Waits ==
    CASE component = "session" -> Session!Deleting
      [] component = "fetch" -> Fetch!Reading(OneReader)
      [] component = "handle" -> Handle!Closing(OneCloser)
      [] component = "rate" -> Rate!Stopping
      [] component = "proc" -> Proc!Ending

Ended ==
    CASE component = "session" -> ~Session!Deleting
      [] component = "fetch" -> ~Fetch!Reading(OneReader)
      [] component = "handle" -> Handle!HasClosed(OneCloser)
      [] component = "rate" -> Rate!RunnerDone
      [] component = "proc" -> Proc!Exited

(* What has begun and others wait for, ends: a deletion, whichever worker it *)
(* has to stop (runDelete); a read of a torrent, also when nothing can be    *)
(* downloaded any more (ReadAtContext); the close of an SMB handle, also     *)
(* the second of two and when a read waits for bytes that never arrive       *)
(* (handle.close); the runner of the upload schedule, once the session's     *)
(* context is done (run); the process, after a failed start, a signal or the *)
(* end of a server, also when an Unmount call never returns                  *)
(* (shutdownSequence.unmount); and Torrent.close, as every download it waits *)
(* for ends (pieceFetcher.Close).                                            *)
WaitsEnd ==
    /\ Waits ~> Ended
    /\ component = "fetch" /\ Fetch!TorrentClosing ~> component = "fetch" /\ Fetch!TorrentClosed

(* No add of a magnet is lost, if the metadata arrives: the torrent leaves   *)
(* the adding state, even when the add came while the worker of an earlier   *)
(* one was on its way out (the retry flag of startMetadataFetch).            *)
AddSettles ==
    WF_vars(component = "session" /\ Session!GotInfo /\ UNCHANGED component) =>
        (component = "session" /\ Session!AddDone ~> component = "session" /\ Session!AddSettled)

=============================================================================
