------------------------------- MODULE Process -------------------------------
(***************************************************************************)
(* The life of the process (cmd/torrentfs/main.go): run starts the session, *)
(* the API, the mounts and the SMB server, waits for a signal or for a      *)
(* server to stop, and takes everything down in a fixed order.  The servers *)
(* and the Unmount calls are goroutines of their own.  Flags, configuration *)
(* and logging, which come before the session, are left out.                *)
(***************************************************************************)
EXTENDS Integers, FiniteSets

CONSTANT MaxMounts

Servers == {"smb", "http"}
Stages == {"smb", "http", "session"}

VARIABLES
    pc,         \* where run is
    wanted,     \* what the configuration asks for: servers and number of mounts
    mounted,    \* mounts made, in order
    sequence,   \* the stages the shutdown sequence knows
    stopped,    \* the stages it has run
    serve,      \* the serving goroutines: idle, starting, serving, returned
    serveErr,   \* servers whose result is in the channel
    signal,     \* a signal is waiting
    unmount,    \* each Unmount call: idle, running, queued, recorded, late
    timer,      \* unmount's deadline: idle, running, fired, seen
    failed      \* what went wrong, as the exit code tells

vars == <<pc, wanted, mounted, sequence, stopped, serve, serveErr, signal, unmount, timer, failed>>

Mounts == 1..MaxMounts

Init ==
    /\ pc = "session"
    /\ wanted \in [servers : {{}, {"http"}}, mounts : 0..MaxMounts]
                     \cup [servers : {{"smb"}, Servers}, mounts : {0}]
    /\ mounted = 0 /\ sequence = {} /\ stopped = {}
    /\ serve = [s \in Servers |-> "idle"] /\ serveErr = {}
    /\ signal = FALSE
    /\ unmount = [m \in Mounts |-> "idle"] /\ timer = "idle"
    /\ failed = {}

-----------------------------------------------------------------------------
(* run: a step that fails takes down what was started before it *)
NewSession(ok) ==
    /\ pc = "session"
    /\ IF ok THEN pc' = "api" /\ sequence' = {"session"} /\ UNCHANGED failed
       ELSE pc' = "exit" /\ failed' = {"start"} /\ UNCHANGED sequence
    /\ UNCHANGED <<wanted, mounted, stopped, serve, serveErr, signal, unmount, timer>>

NewAPI(ok) ==
    /\ pc = "api"
    /\ IF ok \/ "http" \notin wanted.servers
       THEN pc' = "mount" /\ sequence' = sequence \cup ({"http"} \cap wanted.servers) /\ UNCHANGED failed
       ELSE pc' = "stop" /\ failed' = {"start"} /\ UNCHANGED sequence
    /\ UNCHANGED <<wanted, mounted, stopped, serve, serveErr, signal, unmount, timer>>

(* faulty: a mount that fails drops the ones made before it *)
MountKeptOnlyWhole(ok) == IF ok THEN mounted + 1 ELSE 0

MountKept(ok) == IF ok THEN mounted + 1 ELSE mounted

Mount(ok) ==
    /\ pc = "mount" /\ mounted < wanted.mounts
    /\ mounted' = MountKept(ok)
    /\ unmount' = [unmount EXCEPT ![mounted + 1] = IF ok THEN "mounted" ELSE @]
    /\ IF ok THEN UNCHANGED <<pc, failed>> ELSE pc' = "stop" /\ failed' = {"start"}
    /\ UNCHANGED <<wanted, sequence, stopped, serve, serveErr, signal, timer>>

(* the SMB listener is opened here, the one of the API by its goroutine *)
StartServers(ok) ==
    /\ pc = "mount" /\ mounted = wanted.mounts
    /\ IF ok \/ "smb" \notin wanted.servers
       THEN /\ pc' = "wait"
            /\ sequence' = sequence \cup wanted.servers
            /\ serve' = [s \in Servers |-> IF s \in wanted.servers THEN "starting" ELSE "idle"]
            /\ UNCHANGED failed
       ELSE pc' = "stop" /\ failed' = {"start"} /\ UNCHANGED <<sequence, serve>>
    /\ UNCHANGED <<wanted, mounted, stopped, serveErr, signal, unmount, timer>>

Signal ==
    /\ pc # "exit" /\ ~signal
    /\ signal' = TRUE
    /\ UNCHANGED <<pc, wanted, mounted, sequence, stopped, serve, serveErr, unmount, timer, failed>>

(* a server that was shut down before its goroutine got to Serve returns at once *)
ServeBegin(s) ==
    /\ pc # "exit" /\ serve[s] = "starting"
    /\ serve' = [serve EXCEPT ![s] = IF s \in stopped THEN "returned" ELSE "serving"]
    /\ serveErr' = IF s \in stopped THEN serveErr \cup {s} ELSE serveErr
    /\ UNCHANGED <<pc, wanted, mounted, sequence, stopped, signal, unmount, timer, failed>>

(* the listener fails, or the server does, or it was shut down: whatever the *)
(* result, unexpectedServeResult makes it an error                          *)
ServeReturn(s) ==
    /\ pc # "exit" /\ serve[s] \in {"starting", "serving"}
    /\ serve' = [serve EXCEPT ![s] = "returned"]
    /\ serveErr' = serveErr \cup {s}
    /\ UNCHANGED <<pc, wanted, mounted, sequence, stopped, signal, unmount, timer, failed>>

Wait ==
    /\ pc = "wait"
    /\ \/ signal /\ signal' = FALSE /\ UNCHANGED <<serveErr, failed>>
       \/ \E s \in serveErr : serveErr' = serveErr \ {s} /\ failed' = {"serve"} /\ UNCHANGED signal
    /\ pc' = "stop"
    /\ UNCHANGED <<wanted, mounted, sequence, stopped, serve, unmount, timer>>

-----------------------------------------------------------------------------
(* faulty: the session is closed first *)
StopBeforeSessionFirst(stage) ==
    CASE stage = "session" -> {} [] stage = "smb" -> {"session"} [] OTHER -> {"session", "smb"}

(* the stages that come before one *)
StopBefore(stage) ==
    CASE stage = "smb" -> {} [] stage = "http" -> {"smb"} [] OTHER -> {"smb", "http"}

(* Shutdown of a server closes its listener and its connections within a    *)
(* bound, so that it is no longer serving whether or not it reports an      *)
(* error; a stage that fails does not keep the next ones from running.      *)
Stop(stage, ok) ==
    /\ pc = "stop" /\ stage \in sequence \ stopped
    /\ StopBefore(stage) \cap sequence \subseteq stopped
    /\ stopped' = stopped \cup {stage}
    /\ serve' = [s \in Servers |-> IF s = stage /\ serve[s] = "serving" THEN "returned" ELSE serve[s]]
    /\ serveErr' = IF stage \in Servers /\ serve[stage] = "serving" THEN serveErr \cup {stage} ELSE serveErr
    /\ failed' = IF ok THEN failed ELSE failed \cup {stage}
    /\ UNCHANGED <<pc, wanted, mounted, sequence, signal, unmount, timer>>

UnmountBegin ==
    /\ pc = "stop" /\ sequence \subseteq stopped
    /\ pc' = "unmount"
    /\ unmount' = [m \in Mounts |-> IF m <= mounted THEN "running" ELSE unmount[m]]
    /\ timer' = "running"
    /\ UNCHANGED <<wanted, mounted, sequence, stopped, serve, serveErr, signal, failed>>

(* a call that returns queues its outcome; one that hangs never does *)
UnmountReturns(m, ok) ==
    /\ pc = "unmount" /\ unmount[m] = "running"
    /\ unmount' = [unmount EXCEPT ![m] = IF ok THEN "queued" ELSE "queuedErr"]
    /\ UNCHANGED <<pc, wanted, mounted, sequence, stopped, serve, serveErr, signal, timer, failed>>

Queued == {m \in Mounts : unmount[m] \in {"queued", "queuedErr"}}
Pending == {m \in 1..mounted : unmount[m] # "recorded"}

Record(m) ==
    /\ pc = "unmount" /\ m \in Queued
    /\ unmount' = [unmount EXCEPT ![m] = "recorded"]
    /\ failed' = IF unmount[m] = "queuedErr" THEN failed \cup {"unmount"} ELSE failed
    /\ UNCHANGED <<pc, wanted, mounted, sequence, stopped, serve, serveErr, signal, timer>>

Fire ==
    /\ pc = "unmount" /\ timer = "running"
    /\ timer' = "fired"
    /\ UNCHANGED <<pc, wanted, mounted, sequence, stopped, serve, serveErr, signal, unmount, failed>>

(* faulty: outcomes queued when the deadline fires are given up *)
GiveUpAtOnce == timer = "fired"

(* the deadline has fired and no outcome is queued *)
GiveUp == timer = "fired" /\ Queued = {}

UnmountEnd ==
    /\ pc = "unmount" /\ (Pending = {} \/ GiveUp)
    /\ unmount' = [m \in Mounts |-> IF m \in Pending THEN "late" ELSE unmount[m]]
    /\ failed' = IF Pending = {} THEN failed ELSE failed \cup {"unmount"}
    /\ pc' = "exit"
    /\ UNCHANGED <<wanted, mounted, sequence, stopped, serve, serveErr, signal, timer>>

Run ==
    \/ \E ok \in BOOLEAN : NewSession(ok) \/ NewAPI(ok) \/ Mount(ok) \/ StartServers(ok)
    \/ Wait
    \/ \E stage \in Stages, ok \in BOOLEAN : Stop(stage, ok)
    \/ UnmountBegin \/ UnmountEnd
    \/ \E m \in Mounts : Record(m)

Next ==
    \/ Run \/ Signal \/ Fire
    \/ \E s \in Servers : ServeBegin(s) \/ ServeReturn(s)
    \/ \E m \in Mounts, ok \in BOOLEAN : UnmountReturns(m, ok)

(* run keeps going and its timer fires; nothing is assumed of the servers or *)
(* of an Unmount call                                                       *)
Fairness == WF_vars(Run) /\ WF_vars(Fire)

Spec == Init /\ [][Next]_vars

-----------------------------------------------------------------------------
TypeOK ==
    /\ pc \in {"session", "api", "mount", "wait", "stop", "unmount", "exit"}
    /\ wanted \in [servers : SUBSET Servers, mounts : 0..MaxMounts]
    /\ mounted \in 0..wanted.mounts
    /\ sequence \subseteq Stages /\ stopped \subseteq sequence
    /\ serve \in [Servers -> {"idle", "starting", "serving", "returned"}]
    /\ serveErr \subseteq Servers /\ signal \in BOOLEAN
    /\ unmount \in [Mounts -> {"idle", "mounted", "running", "queued", "queuedErr", "recorded", "late"}]
    /\ timer \in {"idle", "running", "fired"}

(* Once the session is closed nothing serves requests from it, also when the *)
(* signal came while a server was still starting, and unmounting begins only *)
(* after that, so that it does not wait for reads in flight                  *)
(* (shutdownSequence.run).                                                   *)
StopOrder ==
    /\ "session" \in stopped => \A s \in Servers : serve[s] # "serving"
    /\ pc = "unmount" => "session" \in stopped

(* Wherever the start failed or the run ended, the process does not leave    *)
(* before everything it had started was taken down: the session closed,      *)
(* every server shut down and every mount given its Unmount call, and one    *)
(* that did not return makes the exit code 1 (run, mountFilesystems).        *)
EverythingStopped ==
    pc = "exit" => /\ sequence \subseteq stopped
                   /\ \A m \in Mounts : unmount[m] \in {"idle", "recorded"} \/ (unmount[m] = "late" /\ failed # {})

(* An unmount whose outcome was there when the shared deadline fired is not  *)
(* reported as timed out (the inner loop of unmount).                        *)
KeepsOutcomes == pc = "unmount" /\ pc' = "exit" => \A m \in Queued : unmount'[m] # "late"
OutcomesKept == [][KeepsOutcomes]_vars

(* what has to end: the process, once it is told to or cannot start *)
Ending == pc = "stop" \/ (pc = "wait" /\ (signal \/ serveErr # {}))
Exited == pc = "exit"

-----------------------------------------------------------------------------
(* Why: the stages of the sequence are stopped in order and only while run   *)
(* stops, the session last; a server that serves is one of the sequence and  *)
(* not stopped; and each mount is at a step that fits where run is.          *)
StagesInOrder ==
    /\ pc \in {"session", "api", "mount", "wait"} => stopped = {}
    /\ pc = "session" => sequence = {} /\ mounted = 0
    /\ pc \in {"api", "mount", "wait", "stop", "unmount"} => "session" \in sequence
    /\ pc \in {"unmount", "exit"} => sequence \subseteq stopped
    /\ "session" \in stopped => sequence \subseteq stopped

ServersKnown ==
    \A s \in Servers :
        /\ serve[s] # "idle" => s \in sequence
        /\ serve[s] = "serving" => s \notin stopped

MountsTracked ==
    \A m \in Mounts :
        /\ m > mounted => unmount[m] = "idle"
        /\ m <= mounted =>
             \/ pc = "unmount" /\ unmount[m] \in {"running", "queued", "queuedErr", "recorded"}
             \/ pc = "exit" /\ (unmount[m] = "recorded" \/ (unmount[m] = "late" /\ failed # {}))
             \/ pc \notin {"unmount", "exit"} /\ unmount[m] = "mounted"

Inductive == TypeOK /\ StagesInOrder /\ ServersKnown /\ MountsTracked

=============================================================================
