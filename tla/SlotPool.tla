------------------------------ MODULE SlotPool ------------------------------
(***************************************************************************)
(* PooledBrowserFactory: how logins share the configured Chrome slots.     *)
(* Each slot has a tokio semaphore of one permit: permit[s] is the login   *)
(* that has it, or was handed it and has not yet been polled, and queue[s] *)
(* the acquire_owned futures waiting for it, oldest first.  acquire scans  *)
(* the slots in order with try_acquire and, when some were busy, waits on  *)
(* all of those at once; at[u] is where login u is in it.  A login gives   *)
(* its permit back at the end of its browser cleanup and may come again.   *)
(***************************************************************************)
EXTENDS Naturals, Sequences

CONSTANTS Users,     \* logins that compete for a browser
          NumSlots,  \* number of configured CDP endpoints
          Free       \* not a login

ASSUME SlotPoolAssumption == NumSlots \in Nat /\ Free \notin Users

VARIABLES at,     \* the step of acquire, or of the session, each login is in
          slot,   \* the slot it tries or uses
          busy,   \* slots found busy by its scan
          permit,
          queue

semaphores == <<permit, queue>>
vars == <<at, slot, busy, permit, queue>>

Slots == 1 .. NumSlots

Connecting == {"connect", "connect_waited"}
Using == Connecting \cup {"session", "cleanup"}
Acquiring == {"scan", "wait"} \cup Connecting
Step == {"idle"} \cup Acquiring \cup Using

Init ==
    /\ at = [u \in Users |-> "idle"]
    /\ slot = [u \in Users |-> 1]
    /\ busy = [u \in Users |-> {}]
    /\ permit = [s \in Slots |-> Free]
    /\ queue = [s \in Slots |-> << >>]

-----------------------------------------------------------------------------
(* The semaphores.                                                         *)

Waits(u, s) == \E i \in DOMAIN queue[s] : queue[s][i] = u

\* queue[s] without the future of login u, which is in it at most once.
Without(u, s) ==
    IF Waits(u, s)
    THEN LET k == CHOOSE i \in DOMAIN queue[s] : queue[s][i] = u
         IN [i \in 1 .. Len(queue[s]) - 1 |->
                IF i < k THEN queue[s][i] ELSE queue[s][i + 1]]
    ELSE queue[s]

\* Fault: the permit becomes free and the waiters are not told.
Fault_KeepUnwoken(u, kept) ==
    /\ permit' = [s \in Slots |->
                    IF s \in kept THEN u
                    ELSE IF permit[s] = u THEN Free ELSE permit[s]]
    /\ queue' = [s \in Slots |-> Without(u, s)]

\* Fault: the youngest waiter is served.
Fault_KeepYoungest(u, kept) ==
    /\ permit' = [s \in Slots |->
                    IF s \in kept THEN u
                    ELSE IF permit[s] # u THEN permit[s]
                    ELSE IF Without(u, s) = << >> THEN Free
                    ELSE Without(u, s)[Len(Without(u, s))]]
    /\ queue' = [s \in Slots |->
                    IF s \notin kept /\ permit[s] = u /\ Without(u, s) # << >>
                    THEN SubSeq(Without(u, s), 1, Len(Without(u, s)) - 1)
                    ELSE Without(u, s)]

\* Login u ends up with the permits in kept and no other, and its futures are
\* dropped: a permit it had goes to the oldest waiter of that slot, if any.
Keep(u, kept) ==
    /\ permit' = [s \in Slots |->
                    IF s \in kept THEN u
                    ELSE IF permit[s] # u THEN permit[s]
                    ELSE IF Without(u, s) = << >> THEN Free
                    ELSE Head(Without(u, s))]
    /\ queue' = [s \in Slots |->
                    IF s \notin kept /\ permit[s] = u /\ Without(u, s) # << >>
                    THEN Tail(Without(u, s))
                    ELSE Without(u, s)]

-----------------------------------------------------------------------------
(* acquire.                                                                *)

Acquire(u) ==
    /\ at[u] = "idle"
    /\ at' = [at EXCEPT ![u] = "scan"]
    /\ slot' = [slot EXCEPT ![u] = 1]
    /\ busy' = [busy EXCEPT ![u] = {}]
    /\ UNCHANGED semaphores

TryAcquire(u) ==
    /\ at[u] = "scan"
    /\ slot[u] \in Slots
    /\ IF permit[slot[u]] = Free
       THEN /\ permit' = [permit EXCEPT ![slot[u]] = u]
            /\ at' = [at EXCEPT ![u] = "connect"]
            /\ UNCHANGED <<slot, busy>>
       ELSE /\ busy' = [busy EXCEPT ![u] = @ \cup {slot[u]}]
            /\ slot' = [slot EXCEPT ![u] = @ + 1]
            /\ UNCHANGED <<at, permit>>
    /\ UNCHANGED queue

\* No slot is configured, every connection failed, or there are busy slots.
EndScan(u) ==
    /\ at[u] = "scan"
    /\ slot[u] \notin Slots
    /\ at' = [at EXCEPT ![u] = IF busy[u] = {} THEN "idle" ELSE "wait"]
    /\ UNCHANGED <<slot, busy, semaphores>>

\* The first poll of one of the futures of wait_for_slot finds no permit.
Enqueue(u, s) ==
    /\ at[u] = "wait"
    /\ s \in busy[u]
    /\ permit[s] \notin {Free, u}
    /\ ~Waits(u, s)
    /\ queue' = [queue EXCEPT ![s] = Append(@, u)]
    /\ UNCHANGED <<at, slot, busy, permit>>

\* A future is ready; wait_for_slot returns and drops the others, of which
\* one may have been handed a permit meanwhile.
TakeSlot(u, s) ==
    /\ at[u] = "wait"
    /\ s \in busy[u]
    /\ permit[s] \in {Free, u}
    /\ Keep(u, {s})
    /\ at' = [at EXCEPT ![u] = "connect_waited"]
    /\ slot' = [slot EXCEPT ![u] = s]
    /\ UNCHANGED busy

Connect(u) ==
    /\ at[u] \in Connecting
    /\ at' = [at EXCEPT ![u] = "session"]
    /\ UNCHANGED <<slot, busy, semaphores>>

\* Fault: the permit of a slot that cannot be reached is kept.
Fault_ConnectFailsKeeping(u) ==
    /\ at[u] \in Connecting
    /\ IF at[u] = "connect"
       THEN /\ at' = [at EXCEPT ![u] = "scan"]
            /\ slot' = [slot EXCEPT ![u] = @ + 1]
       ELSE /\ at' = [at EXCEPT ![u] = "idle"]
            /\ UNCHANGED slot
    /\ UNCHANGED <<busy, semaphores>>

\* An error or connect_timeout: the scan goes on with the next slot; after
\* waiting, acquire fails.
ConnectFails(u) ==
    /\ at[u] \in Connecting
    /\ Keep(u, {})
    /\ IF at[u] = "connect"
       THEN /\ at' = [at EXCEPT ![u] = "scan"]
            /\ slot' = [slot EXCEPT ![u] = @ + 1]
       ELSE /\ at' = [at EXCEPT ![u] = "idle"]
            /\ UNCHANGED slot
    /\ UNCHANGED busy

\* Fault: futures that were granted a permit are forgotten, not dropped.
Fault_AbandonForgetting(u) ==
    /\ at[u] \in Acquiring \ {"scan"}
    /\ at' = [at EXCEPT ![u] = "idle"]
    /\ UNCHANGED <<slot, busy, semaphores>>

\* LoginControl::run drops the future of acquire at any await of it, or
\* acquire_timeout passes while it waits.
Abandon(u) ==
    /\ at[u] \in Acquiring \ {"scan"}
    /\ Keep(u, {})
    /\ at' = [at EXCEPT ![u] = "idle"]
    /\ UNCHANGED <<slot, busy>>

-----------------------------------------------------------------------------
(* The end of a session.                                                   *)

\* Fault: the permit is dropped with the session, not moved to the cleanup.
Fault_CloseReleasing(u) ==
    /\ at[u] = "session"
    /\ Keep(u, {})
    /\ at' = [at EXCEPT ![u] = "cleanup"]
    /\ UNCHANGED <<slot, busy>>

\* close, or the drop of the session, moves the permit to cleanup_session.
Close(u) ==
    /\ at[u] = "session"
    /\ at' = [at EXCEPT ![u] = "cleanup"]
    /\ UNCHANGED <<slot, busy, semaphores>>

EndCleanup(u) ==
    /\ at[u] = "cleanup"
    /\ Keep(u, {})
    /\ at' = [at EXCEPT ![u] = "idle"]
    /\ UNCHANGED <<slot, busy>>

Next ==
    \E u \in Users :
        \/ Acquire(u) \/ TryAcquire(u) \/ EndScan(u)
        \/ \E s \in Slots : Enqueue(u, s) \/ TakeSlot(u, s)
        \/ Connect(u) \/ ConnectFails(u) \/ Abandon(u)
        \/ Close(u) \/ EndCleanup(u)

Spec == Init /\ [][Next]_vars

\* Ready futures are polled, connections end within connect_timeout, and
\* sessions and cleanups end (Login's PermitsReturn).  No timer of acquire
\* itself need fire.
Progress(u) ==
    /\ WF_vars(TryAcquire(u)) /\ WF_vars(EndScan(u))
    /\ WF_vars(\E s \in Slots : Enqueue(u, s) \/ TakeSlot(u, s))
    /\ WF_vars(Connect(u) \/ ConnectFails(u))
    /\ WF_vars(Close(u)) /\ WF_vars(EndCleanup(u))

FairSpec == Spec /\ \A u \in Users : Progress(u)

-----------------------------------------------------------------------------
(* Properties.                                                             *)

TypeOK ==
    /\ at \in [Users -> Step]
    /\ slot \in [Users -> 1 .. NumSlots + 1]
    /\ busy \in [Users -> SUBSET Slots]
    /\ permit \in [Slots -> Users \cup {Free}]
    /\ queue \in [Slots -> Seq(Users)]

Uses(u, s) == at[u] \in Using /\ slot[u] = s

\* One login at a time connects to, drives or cleans up a Chrome instance,
\* although the cleanup runs on after its login has gone.
ExclusiveUse ==
    \A u, v \in Users : at[u] \in Using /\ at[v] \in Using /\ slot[u] = slot[v]
                            => u = v

\* A permit is with a login that uses the slot, or that is about to choose
\* among the slots it waits for: connect errors, timeouts and dropped futures
\* lose none, and a login handed two keeps one.
NoPermitLost ==
    \A s \in Slots : permit[s] # Free =>
        \/ Uses(permit[s], s)
        \/ at[permit[s]] = "wait" /\ s \in busy[permit[s]]

\* No login sleeps on a slot that is free.
NoLostWakeup == \A s \in Slots : queue[s] # << >> => permit[s] # Free

\* A slot with waiters goes to the one that waited longest: neither a scan nor
\* a later waiter overtakes it.
ServedInOrder ==
    [][\A s \in Slots : queue[s] # << >> /\ permit'[s] # permit[s] =>
            permit'[s] = Head(queue[s])]_vars

\* acquire returns a session or an error even if none of its deadlines fires.
EveryAcquireEnds ==
    \A u \in Users : at[u] \in Acquiring ~> at[u] \notin Acquiring

UsersOf(s) == {u \in Users : Uses(u, s)}

owner == [s \in Slots |-> IF UsersOf(s) = {} THEN Free
                          ELSE CHOOSE u \in UsersOf(s) : TRUE]

Lock == INSTANCE SlotLock WITH Nobody <- Free
ImplementsSlotLock == Lock!Spec
=============================================================================
