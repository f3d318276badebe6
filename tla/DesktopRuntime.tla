--------------------------- MODULE DesktopRuntime ---------------------------
(***************************************************************************)
(* The supervisor of a Chrome container, chrome-runtime.py: relay handlers *)
(* take leases on the desktop (BrowserLifecycle.acquire), the first starts *)
(* it (DesktopProcess.start), a monitor thread stops it when it has been   *)
(* idle, and SIGTERM closes the lifecycle.                                 *)
(*                                                                         *)
(* acquire runs start while it holds the lifecycle's condition, so a       *)
(* handler in Starting is the only thread in the lifecycle.  Desktops are  *)
(* process trees: each has a supervisor process that may die alone, and    *)
(* serves CDP once booted.  Only one of them can have the CDP port.        *)
(***************************************************************************)
EXTENDS Naturals, FiniteSets

CONSTANTS Handlers, \* relay handler threads, each serving one client at a time
          Desktops, \* identities of process trees, used again when dead
          None,     \* not a desktop
          Stubborn  \* whether processes may outlive a SIGTERM

ASSUME DesktopAssumption ==
    None \notin Desktops /\ IsFiniteSet(Handlers) /\ Stubborn \in BOOLEAN

VARIABLES at,         \* where each handler is
          leases,     \* _active_leases
          running,    \* _running
          failure,    \* _start_failure: none, within its cooldown, or past it
          idle,       \* whether idle_timeout has passed since _idle_since
          monitor,    \* the monitor thread: waiting, in a timed wait, awake
          closing,    \* _closing
          main,       \* the main thread
          process,    \* the desktop whose supervisor, _process, is running
          known,      \* _known_pids: desktops whose processes are recorded
          tree        \* the processes of each desktop

lifecycle == <<leases, running, failure, idle, closing>>
records == <<process, known>>
vars == <<at, lifecycle, monitor, main, records, tree>>

\* Steps of start(), all of them under the lock.
Starting == {"probe", "launch", "boot"}
Leasing == Starting \cup {"leased"}

Init ==
    /\ at = [h \in Handlers |-> "idle"]
    /\ leases = 0
    /\ running = FALSE
    /\ failure = "none"
    /\ idle = FALSE
    /\ monitor = "awake"
    /\ closing = FALSE
    /\ main = "serving"
    /\ process = None
    /\ known = {}
    /\ tree = [d \in Desktops |-> "none"]

Goto(h, step) == at' = [at EXCEPT ![h] = step]

LockFree == main # "exited" /\ \A h \in Handlers : at[h] \notin Starting

\* notify_all: whatever it waits for, the monitor looks again.
Notify == monitor' = IF monitor = "ended" THEN monitor ELSE "awake"

-----------------------------------------------------------------------------
(* Processes.                                                              *)

Alive == {d \in Desktops : tree[d] # "none"}
Ready == {d \in Desktops : tree[d] = "ready"}

\* _owned_pids: what descends from a recorded process or the live supervisor.
Owned == Alive \cap (known \cup {process})

Kill(dead) == tree' = [d \in Desktops |-> IF d \in dead THEN "none" ELSE tree[d]]

\* All get SIGTERM, and recorded processes SIGKILL in the end.  Those of a
\* desktop not yet recorded are out of reach once its supervisor is gone.
Stops(dead) ==
    /\ dead \subseteq Owned
    /\ known \subseteq dead
    /\ Stubborn \/ dead = Owned

StopDesktop ==
    /\ \E dead \in SUBSET Owned : Stops(dead) /\ Kill(dead)
    /\ process' = None
    /\ known' = {}

\* Chrome has bound the CDP port.
Boot(d) ==
    /\ tree[d] = "booting"
    /\ Ready = {}
    /\ tree' = [tree EXCEPT ![d] = "ready"]
    /\ UNCHANGED <<at, lifecycle, monitor, main, records>>

\* Its pids no longer match what was recorded of them.
Die(d) ==
    /\ d \in Alive
    /\ Kill({d})
    /\ known' = known \ {d}
    /\ process' = IF d = process THEN None ELSE process
    /\ UNCHANGED <<at, lifecycle, monitor, main>>

\* The OOM killer takes the supervisor process and leaves the browser.
SupervisorDies ==
    /\ process # None
    /\ process' = None
    /\ UNCHANGED <<at, lifecycle, monitor, main, known, tree>>

-----------------------------------------------------------------------------
(* Leases.                                                                 *)

\* Fault: the lease of a request that failed is kept.
Fault_FailKeepsLease(h) ==
    /\ Goto(h, "idle")
    /\ running' = FALSE
    /\ UNCHANGED leases

\* acquire raises; a request refused at once has not counted up to here.
Fail(h) ==
    /\ Goto(h, "idle")
    /\ leases' = leases - (IF at[h] = "idle" THEN 0 ELSE 1)
    /\ running' = FALSE

\* A request comes while the start failed less than the cooldown ago.
AcquireRefused(h) ==
    /\ at[h] = "idle"
    /\ LockFree
    /\ failure = "fresh"
    /\ Fail(h)
    /\ UNCHANGED <<failure, idle, closing, monitor, main, records, tree>>

\* Another request: it takes a lease and runs start().
Acquire(h) ==
    /\ at[h] = "idle"
    /\ LockFree
    /\ failure # "fresh"
    /\ failure' = "none"
    /\ leases' = leases + 1
    /\ Goto(h, "probe")
    /\ UNCHANGED <<running, idle, closing, monitor, main, records, tree>>

\* start() succeeded: _start_shared notifies, acquire returns.
Succeed(h) ==
    /\ Goto(h, "leased")
    /\ running' = TRUE
    /\ Notify
    /\ UNCHANGED <<leases, failure, idle, closing, main, process, tree>>

\* start() failed, after stop().
StartFails(h) ==
    /\ Fail(h)
    /\ failure' = "fresh"
    /\ Notify
    /\ StopDesktop
    /\ UNCHANGED <<idle, closing, main>>

\* The CDP probe is answered.  A desktop whose supervisor is gone is adopted:
\* every process of the desktop user is recorded.
ProbeHit(h) ==
    /\ at[h] = "probe"
    /\ Ready # {}
    /\ known' = IF process = None THEN Alive ELSE known
    /\ Succeed(h)

\* It is not, or not within UPSTREAM_PROBE_TIMEOUT_SECS.
ProbeMiss(h) ==
    /\ at[h] = "probe"
    /\ Goto(h, "launch")
    /\ UNCHANGED <<lifecycle, monitor, main, records, tree>>

\* Fault: a desktop that does not answer is not stopped first.
Fault_LaunchBeside(h) ==
    /\ at[h] = "launch"
    /\ \E d \in Desktops \ Alive :
        /\ tree' = [tree EXCEPT ![d] = "booting"]
        /\ process' = d
    /\ Goto(h, "boot")
    /\ UNCHANGED <<lifecycle, monitor, main, known>>

\* What is left of the old desktop is stopped, the Singleton locks of the
\* profile are removed, and a new desktop is started.  Bound: once nobody owns
\* any of the Desktops, one of those ends as the new one starts.
Launch(h) ==
    /\ at[h] = "launch"
    /\ \E dead \in SUBSET Owned, d \in Desktops :
        /\ Stops(dead)
        /\ d \notin Alive \/ d \in dead \/ Desktops = Alive \ Owned
        /\ tree' = [e \in Desktops |-> IF e = d THEN "booting"
                                       ELSE IF e \in dead THEN "none" ELSE tree[e]]
        /\ process' = d
    /\ known' = {}
    /\ Goto(h, "boot")
    /\ UNCHANGED <<lifecycle, monitor, main>>

\* The desktop answers in time; its processes are recorded.
Booted(h) ==
    /\ at[h] = "boot"
    /\ Ready # {}
    /\ known' = Owned
    /\ Succeed(h)

\* Fault: the wait for CDP has no deadline.
Fault_BootEndless(h) ==
    /\ at[h] = "boot"
    /\ process = None
    /\ StartFails(h)

\* The supervisor exited, or DESKTOP_STARTUP_TIMEOUT_SECS have passed.
BootFails(h) ==
    /\ at[h] = "boot"
    /\ StartFails(h)

\* Fault: the last release does not wake the monitor.
Fault_ReleaseSilently(h) ==
    /\ at[h] = "leased"
    /\ LockFree
    /\ leases' = leases - 1
    /\ idle' = (leases # 1 /\ idle)
    /\ Goto(h, "idle")
    /\ UNCHANGED <<running, failure, closing, monitor, main, records, tree>>

\* The relayed connection ended.
Release(h) ==
    /\ at[h] = "leased"
    /\ LockFree
    /\ leases' = leases - 1
    /\ IF leases = 1 THEN idle' = FALSE /\ Notify ELSE UNCHANGED <<idle, monitor>>
    /\ Goto(h, "idle")
    /\ UNCHANGED <<running, failure, closing, main, records, tree>>

-----------------------------------------------------------------------------
(* Time, the monitor and the main thread.                                  *)

CooldownPasses ==
    /\ failure = "fresh"
    /\ failure' = "old"
    /\ UNCHANGED <<at, leases, running, idle, closing, monitor, main, records, tree>>

IdlePasses ==
    /\ ~idle
    /\ idle' = TRUE
    /\ UNCHANGED <<at, leases, running, failure, closing, monitor, main, records, tree>>

\* A timed wait of the monitor ends.
MonitorTimeout ==
    /\ monitor = "timed"
    /\ monitor' = "awake"
    /\ UNCHANGED <<at, lifecycle, main, records, tree>>

\* Fault: the leases are not looked at again after the wait.
Fault_MonitorStep ==
    /\ monitor = "awake"
    /\ LockFree
    /\ \/ /\ closing
          /\ monitor' = "ended"
          /\ UNCHANGED <<running, records, tree>>
       \/ /\ ~closing /\ running /\ idle
          /\ StopDesktop
          /\ running' = FALSE
          /\ UNCHANGED monitor
       \/ /\ ~closing /\ ~(running /\ idle)
          /\ monitor' = IF running THEN "timed" ELSE "waiting"
          /\ UNCHANGED <<running, records, tree>>
    /\ UNCHANGED <<at, leases, failure, idle, closing, main>>

\* One turn of the loop of _monitor_idle.
MonitorStep ==
    /\ monitor = "awake"
    /\ LockFree
    /\ \/ /\ closing
          /\ monitor' = "ended"
          /\ UNCHANGED <<running, records, tree>>
       \/ /\ ~closing /\ running /\ leases = 0 /\ idle
          /\ StopDesktop
          /\ running' = FALSE
          /\ UNCHANGED monitor
       \/ /\ ~closing /\ ~(running /\ leases = 0 /\ idle)
          /\ monitor' = IF running /\ leases = 0 THEN "timed" ELSE "waiting"
          /\ UNCHANGED <<running, records, tree>>
    /\ UNCHANGED <<at, leases, failure, idle, closing, main>>

\* SIGTERM has ended serve_forever; close() begins.
StartClose ==
    /\ main = "serving"
    /\ LockFree
    /\ main' = "joining"
    /\ closing' = TRUE
    /\ Notify
    /\ UNCHANGED <<at, leases, running, failure, idle, records, tree>>

FinishClose ==
    /\ main = "joining"
    /\ monitor = "ended"
    /\ LockFree
    /\ main' = "closed"
    /\ IF running THEN StopDesktop ELSE UNCHANGED <<records, tree>>
    /\ running' = FALSE
    /\ UNCHANGED <<at, leases, failure, idle, closing, monitor>>

\* The container ends with the process, its daemon threads and desktops too.
Exit ==
    /\ main = "closed"
    /\ main' = "exited"
    /\ at' = [h \in Handlers |-> "idle"]
    /\ Kill(Desktops)
    /\ process' = None
    /\ known' = {}
    /\ UNCHANGED <<lifecycle, monitor>>

StartStep(h) ==
    ProbeHit(h) \/ ProbeMiss(h) \/ Launch(h) \/ Booted(h) \/ BootFails(h)

Next ==
    \/ \E h \in Handlers :
        AcquireRefused(h) \/ Acquire(h) \/ StartStep(h) \/ Release(h)
    \/ \E d \in Desktops : Boot(d) \/ Die(d)
    \/ SupervisorDies
    \/ CooldownPasses \/ IdlePasses \/ MonitorTimeout \/ MonitorStep
    \/ StartClose \/ FinishClose \/ Exit

Spec == Init /\ [][Next]_vars

\* Probes and the startup have deadlines, timers fire, threads that have the
\* lock to themselves run.  Nothing is said of clients, desktops or SIGTERM.
Fairness ==
    /\ \A h \in Handlers : WF_vars(StartStep(h))
    /\ WF_vars(IdlePasses) /\ WF_vars(MonitorTimeout) /\ WF_vars(MonitorStep)
    /\ WF_vars(FinishClose) /\ WF_vars(Exit)

FairSpec == Spec /\ Fairness

-----------------------------------------------------------------------------
(* Properties.                                                             *)

TypeOK ==
    /\ at \in [Handlers -> {"idle"} \cup Leasing]
    /\ leases \in Nat
    /\ running \in BOOLEAN /\ idle \in BOOLEAN /\ closing \in BOOLEAN
    /\ failure \in {"none", "fresh", "old"}
    /\ monitor \in {"awake", "timed", "waiting", "ended"}
    /\ main \in {"serving", "joining", "closed", "exited"}
    /\ process \in Alive \cup {None}
    /\ known \subseteq Alive
    /\ tree \in [Desktops -> {"none", "booting", "ready"}]

\* The count the monitor goes by is the number of requests that use the
\* desktop or wait for it, whatever start() answered them.
LeasesCounted ==
    main # "exited" => leases = Cardinality({h \in Handlers : at[h] \in Leasing})

\* The idle monitor and close() see every desktop the supervisor could stop:
\* one that is owned is marked running, between two turns of the lock.
OwnedIsRunning == LockFree /\ Owned # {} => running

\* A desktop once recorded never gets a second one beside it: it is adopted or
\* stopped first, also when its supervisor process died.
NoneBesideRecorded ==
    [][\A d, e \in Desktops :
        d # e /\ tree[e] = "none" /\ tree'[e] = "booting" /\ d \in known
            => tree'[d] = "none"]_vars

\* The idle timer stops no desktop under a lease: only a request whose probe
\* was missed, close() and the end of the process do.
IdleStopSparesLeases ==
    [][MonitorStep /\ tree' # tree => \A h \in Handlers : at[h] = "idle"]_vars

\* A desktop the supervisor owns and nobody uses goes in the end.
IdleDesktopStops ==
    Owned # {} /\ leases = 0 ~> Owned = {} \/ leases > 0

\* The lock is given back: no start goes on for ever.
EveryStartEnds ==
    \A h \in Handlers : at[h] \in Starting ~> at[h] \notin Starting

\* CHANGELOG.md:23: the runtime "adopts a surviving browser instead of deleting
\* the profile's Singleton* locks and starting a second desktop when the
\* supervisor died but Chromium lived".
OneDesktop == Cardinality(Alive) <= 1
=============================================================================
