----------------------------- MODULE UploadRate -----------------------------
(* The upload limit: its settings file (internal/session/                    *)
(* upload_rate_settings.go) and the controller that keeps the limiter in     *)
(* step with the daily window (upload_rate.go).                              *)
(*                                                                           *)
(* The clock counts ticks; Wall says which minute of the day a tick shows.   *)
(* It is periodic, and where daylight saving begins or ends it leaves out or *)
(* repeats minutes.                                                          *)
EXTENDS StateFile, Integers, FiniteSets, FiniteSetsExt

CONSTANTS
    Wall,           \* minute of the day at each tick of one period
    MinuteTicks,    \* ticks of a minute (probeStep)
    Lookahead,      \* ticks nextTransition looks ahead (maxLookahead)
    Settings,       \* what callers of the API may ask for
    MaxLag,         \* bound: ticks a goroutine is held up with a reading of the clock
    MaxSets,        \* bound on updates
    None

VARIABLES
    clock,
    file,           \* the settings file
    settings,       \* Session.uploadRateSettings, None when no session runs
    policy, limit,  \* of the uploadRateController
    wake,           \* its wake channel
    ctx,            \* the session's background context is live
    runner,         \* run: age of its reading; ticks until its timer fires; age when armed
    setter,         \* SetUploadRateSettings: settings to apply, and age of its reading
    sets            \* updates so far

vars == <<clock, file, settings, policy, limit, wake, ctx, runner, setter, sets>>

-----------------------------------------------------------------------------
Ticks == DOMAIN Wall
After(t, d) == (t + d) % Cardinality(Ticks)
Minutes == {Wall[t] : t \in Ticks}

NoPolicy == [limit |-> 0, scheduled |-> FALSE, start |-> 0, end |-> 0]

(* compileUploadRatePolicy, of settings that were validated *)
Compile(s) ==
    CASE s.rate <= 0 -> NoPolicy
      [] s.rate > 0 /\ s.window = None -> [NoPolicy EXCEPT !.limit = s.rate]
      [] OTHER -> [limit |-> s.rate, scheduled |-> TRUE, start |-> s.window[1], end |-> s.window[2]]

(* validateUploadRateSettings; a boundary that does not parse is no minute *)
Valid(s) ==
    /\ s.rate >= 0
    /\ s.window # None =>
         s.rate > 0 /\ s.window[1] \in Minutes /\ s.window[2] \in Minutes /\ s.window[1] < s.window[2]

LimitedAt(p, t) == p.scheduled => Wall[t] >= p.start /\ Wall[t] < p.end

Unlimited == 0

EffectiveLimit(p, t) == IF p.limit > 0 /\ LimitedAt(p, t) THEN p.limit ELSE Unlimited

(* faulty: the boundary is taken to be where the probe found the change *)
NextTransitionProbed(p, t) ==
    LET flips == {k * MinuteTicks : k \in 1 .. Lookahead \div MinuteTicks}
                   \cap {d \in 1 .. Lookahead : LimitedAt(p, After(t, d)) # LimitedAt(p, t)}
    IN  IF ~p.scheduled THEN None ELSE IF flips = {} THEN Lookahead ELSE Min(flips)

(* nextTransition, as ticks from t: probes find a minute in which the limit  *)
(* changes, a scan of that minute the change                                 *)
NextTransition(p, t) ==
    LET differs(d) == LimitedAt(p, After(t, d)) # LimitedAt(p, t)
        flips == {d \in {k * MinuteTicks : k \in 1 .. Lookahead \div MinuteTicks} : differs(d)}
        probe == Min(flips)
    IN  IF ~p.scheduled THEN None
        ELSE IF flips = {} THEN Lookahead
        ELSE Min({d \in probe - MinuteTicks + 1 .. probe : differs(d)})

-----------------------------------------------------------------------------
Asleep == [pc |-> "read", age |-> 0, fire |-> None, lag |-> 0]
NoSet == [pc |-> "idle", to |-> None, age |-> 0]
Stopped == [Asleep EXCEPT !.pc = "done"]

Off == /\ settings = None /\ policy = NoPolicy /\ limit = Unlimited
       /\ wake = FALSE /\ ctx = FALSE /\ runner = Stopped /\ setter = NoSet

(* an earlier run may have left a file *)
Init ==
    /\ clock = 0 /\ sets = 0 /\ Off
    /\ \E v \in {s \in Settings : Valid(s)} \cup {None} : file = FileOf(v)

Ended == UNCHANGED <<clock, file, settings, policy, limit, wake, ctx, setter, sets>>

(* loadUploadRateSettings *)
Loaded == IF file.now = None THEN [rate |-> 0, window |-> None] ELSE file.now

(* newUploadRateController and start *)
Start ==
    /\ settings = None /\ runner = Stopped
    /\ settings' = Loaded /\ policy' = Compile(Loaded)
    /\ limit' = EffectiveLimit(Compile(Loaded), clock)
    /\ wake' = FALSE /\ ctx' = TRUE /\ runner' = Asleep
    /\ UNCHANGED <<clock, file, setter, sets>>

(* Session.Close: nobody may set anything any more, and the runner is told *)
Close ==
    /\ settings # None /\ setter = NoSet
    /\ settings' = None /\ ctx' = FALSE
    /\ UNCHANGED <<clock, file, policy, limit, wake, runner, setter, sets>>

(* the machine fails *)
PowerFailure ==
    /\ settings # None
    /\ file' \in AfterPowerFailure(file)
    /\ settings' = None /\ policy' = NoPolicy /\ limit' = Unlimited
    /\ wake' = FALSE /\ ctx' = FALSE /\ runner' = Stopped /\ setter' = NoSet
    /\ UNCHANGED <<clock, sets>>

Held(who) == who.pc \in {"apply", "arm", "applies"}

Tick ==
    /\ Held(runner) => runner.age < MaxLag
    /\ Held(setter) => setter.age < MaxLag
    /\ clock' = After(clock, 1)
    /\ runner' = CASE Held(runner) -> [runner EXCEPT !.age = @ + 1]
                   [] runner.pc = "wait" /\ runner.fire \notin {None, 0} -> [runner EXCEPT !.fire = @ - 1]
                   [] OTHER -> runner
    /\ setter' = IF Held(setter) THEN [setter EXCEPT !.age = @ + 1] ELSE setter
    /\ UNCHANGED <<file, settings, policy, limit, wake, ctx, sets>>

-----------------------------------------------------------------------------
(* SetUploadRateSettings up to the rename, which may fail *)
SetRejected(s) ==
    /\ settings # None /\ setter = NoSet /\ ~Valid(s)
    /\ UNCHANGED vars

SetSaved(s) ==
    /\ settings # None /\ setter = NoSet /\ Valid(s) /\ sets < MaxSets
    /\ sets' = sets + 1
    /\ file' = Renamed(file, s)
    /\ setter' = [NoSet EXCEPT !.pc = "sync", !.to = s]
    /\ UNCHANGED <<clock, settings, policy, limit, wake, ctx, runner>>

(* faulty: settings whose directory could not be synced are not applied *)
SetUnsyncedDropped(ok) ==
    /\ setter.pc = "sync"
    /\ file' = IF ok THEN Synced(file) ELSE file
    /\ settings' = IF ok THEN setter.to ELSE settings
    /\ setter' = IF ok THEN [setter EXCEPT !.pc = "applies"] ELSE NoSet
    /\ UNCHANGED <<clock, policy, limit, wake, ctx, runner, sets>>

(* the file is published whether the directory was synced or not, so memory  *)
(* follows; the time for setPolicy is read                                   *)
SetSynced(ok) ==
    /\ setter.pc = "sync"
    /\ file' = IF ok THEN Synced(file) ELSE file
    /\ settings' = setter.to
    /\ setter' = [setter EXCEPT !.pc = "applies"]
    /\ UNCHANGED <<clock, policy, limit, wake, ctx, runner, sets>>

(* setPolicy: with the time its caller read *)
SetPolicy ==
    LET p == Compile(setter.to)
    IN  /\ setter.pc = "applies"
        /\ policy' = p
        /\ limit' = EffectiveLimit(p, After(clock, Cardinality(Ticks) - setter.age))
        /\ setter' = [NoSet EXCEPT !.pc = "wake"]
        /\ UNCHANGED <<clock, file, settings, wake, ctx, runner, sets>>

SignalWake ==
    /\ setter.pc = "wake"
    /\ wake' = TRUE /\ setter' = NoSet
    /\ UNCHANGED <<clock, file, settings, policy, limit, ctx, runner, sets>>

-----------------------------------------------------------------------------
(* run: one reading of the clock a round, *)
RunRead ==
    /\ runner.pc = "read"
    /\ runner' = [Asleep EXCEPT !.pc = "apply"]
    /\ Ended

(* applied under the lock, *)
RunApply ==
    LET now == After(clock, Cardinality(Ticks) - runner.age)
    IN  /\ runner.pc = "apply"
        /\ limit' = EffectiveLimit(policy, now)
        /\ runner' = [runner EXCEPT !.pc = "arm", !.fire = NextTransition(policy, now)]
        /\ UNCHANGED <<clock, file, settings, policy, wake, ctx, setter, sets>>

(* faulty: the clock is read again for the boundary *)
RunArmRereading ==
    /\ runner.pc = "arm"
    /\ runner' = [Asleep EXCEPT !.pc = "wait", !.fire = NextTransition(policy, clock)]
    /\ Ended

(* and used for the timer, which starts late by the reading's age *)
RunArm ==
    /\ runner.pc = "arm"
    /\ runner' = [runner EXCEPT !.pc = "wait", !.lag = runner.age, !.age = 0]
    /\ Ended

(* waitForBoundary *)
RunWoken ==
    /\ runner.pc = "wait" /\ wake
    /\ wake' = FALSE /\ runner' = Asleep
    /\ UNCHANGED <<clock, file, settings, policy, limit, ctx, setter, sets>>

RunTimer ==
    /\ runner.pc = "wait" /\ runner.fire = 0
    /\ runner' = Asleep
    /\ Ended

Ends ==
    /\ runner' = Stopped /\ policy' = NoPolicy /\ limit' = Unlimited /\ wake' = FALSE
    /\ UNCHANGED <<clock, file, settings, ctx, setter, sets>>

RunStop ==
    /\ runner.pc = "wait" /\ ~ctx
    /\ Ends

-----------------------------------------------------------------------------
Run == RunRead \/ RunApply \/ RunArm \/ RunWoken \/ RunTimer \/ RunStop

Set == SetPolicy \/ SignalWake \/ \E ok \in BOOLEAN : SetSynced(ok)

Next ==
    \/ Start \/ Close \/ PowerFailure \/ Tick \/ Run \/ Set
    \/ \E s \in Settings : SetSaved(s) \/ SetRejected(s)

Spec == Init /\ [][Next]_vars

(* Fairness: goroutines run.  Select may prefer any of its ready cases, but  *)
(* a context that is done stays so.                                          *)
Fairness == WF_vars(Run) /\ SF_vars(RunStop) /\ WF_vars(Set)

-----------------------------------------------------------------------------
(* Correctness *)

TypeOK ==
    /\ clock \in Ticks /\ wake \in BOOLEAN /\ ctx \in BOOLEAN
    /\ settings # None => Valid(settings)
    /\ file.now # None => Valid(file.now)
    /\ limit \in {0} \cup {s.rate : s \in Settings}
    /\ runner.fire \in {None} \cup 0 .. Lookahead

(* "The atomic rename is the commit point": between updates a session runs   *)
(* under what a restart would read, also after a directory could not be      *)
(* synced, and the policy is the one of these settings.                      *)
MemoryFollowsFile ==
    settings # None /\ setter = NoSet => settings = Loaded /\ policy = Compile(settings)

(* While the runner sleeps and nothing has been signalled, the limit is the  *)
(* one the current policy asks for, up to the boundary it sleeps for.  No    *)
(* order of updates, wake-ups, timers and readings of the clock leaves the   *)
(* limit of another window or of an older policy in force ("Reading the      *)
(* clock twice could straddle a boundary").                                  *)
RightUntilBoundary ==
    /\ runner.pc = "wait" /\ ~wake /\ settings # None /\ setter.pc \notin {"applies", "wake"}
    /\ runner.fire = None \/ runner.fire > runner.lag
    => limit = EffectiveLimit(policy, clock)

(* nextTransition finds "the earliest instant after t at which the limit in  *)
(* force differs from the limit at t", also where the clock skips or repeats *)
(* minutes; a change farther away than it looks makes it look again there.   *)
TransitionExact ==
    policy.scheduled =>
        LET changes == {d \in 1 .. Lookahead : LimitedAt(policy, After(clock, d)) # LimitedAt(policy, clock)}
        IN  NextTransition(policy, clock) = IF changes = {} THEN Lookahead ELSE Min(changes)

(* what has to end: the runner, for which Session.Close waits *)
Stopping == ~ctx
RunnerDone == runner.pc = "done"

-----------------------------------------------------------------------------
(* Why: what the file holds, or would hold after a power failure, was valid; *)
FileSound ==
    \A v \in file.older \cup {file.now} : v # None => v \in Settings /\ Valid(v)

(* an update runs inside a session, and memory and the file are apart by     *)
(* what it has still to do;                                                  *)
SetterSound ==
    /\ setter \in [pc : {"idle", "sync", "applies", "wake"}, to : Settings \cup {None}, age : Nat]
    /\ setter.pc \in {"idle", "wake"} <=> setter.to = None
    /\ setter.pc \in {"idle", "sync", "wake"} => setter.age = 0
    /\ setter # NoSet => settings # None
    /\ setter.to # None => file.now = setter.to

PolicySound ==
    /\ ctx <=> settings # None
    /\ settings # None =>
         /\ setter.pc # "sync" => settings = Loaded
         /\ setter.pc # "applies" => policy = Compile(settings)
    /\ policy.limit \in {0} \cup {s.rate : s \in Settings}

(* and, unless a wake-up is due, there is an instant at which the limit was  *)
(* set, and for whose next boundary the timer was.                           *)
TimerSet ==
    \E t \in Ticks, e \in Nat :
        /\ clock = After(t, e) /\ limit = EffectiveLimit(policy, t)
        /\ runner.pc = "arm" => e = runner.age /\ runner.fire = NextTransition(policy, t)
        /\ runner.pc = "wait" =>
             IF runner.fire = None THEN NextTransition(policy, t) = None
             ELSE e >= runner.lag /\ runner.fire + e - runner.lag = NextTransition(policy, t)

RunnerSound ==
    /\ runner \in [pc : {"read", "apply", "arm", "wait", "done"}, age : Nat,
                    fire : {None} \cup Nat, lag : Nat]
    /\ /\ runner.pc \in {"arm", "wait"} /\ ~wake /\ setter.pc # "wake"
       /\ runner.pc = "wait" => runner.fire = None \/ runner.fire > runner.lag
       => TimerSet

Inductive == TypeOK /\ FileSound /\ SetterSound /\ PolicySound /\ RunnerSound

=============================================================================
