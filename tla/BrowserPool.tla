----------------------------- MODULE BrowserPool ----------------------------
(***************************************************************************)
(* The pool and the sessions it hands out, composed: SlotPool decides who  *)
(* may use a Chrome, BrowserSession what is done to it.  They share the    *)
(* slot of a login, and three steps: the connection acquire makes becomes  *)
(* the session's, close moves connection, tab and permit into the cleanup  *)
(* at once, and the end of the cleanup releases the permit.                *)
(***************************************************************************)
EXTENDS Naturals, Sequences

CONSTANTS Users, NumSlots, Free

ASSUME BrowserPoolAssumption == NumSlots \in Nat /\ Free \notin Users

VARIABLES at, slot, busy, permit, queue,
          phase, conn, creation, target, request, tab, chrome, lost

Pool == INSTANCE SlotPool
Browser == INSTANCE BrowserSession
           WITH Sessions <- Users, Slots <- 1 .. NumSlots, place <- slot

poolVars == <<at, slot, busy, permit, queue>>
browserVars == <<phase, conn, creation, target, request, tab, chrome, lost>>
vars == <<poolVars, browserVars>>

Init ==
    /\ Pool!Init
    /\ Browser!Init

\* A login acquires one session in its life.
Acquire(u) == phase[u] = "new" /\ Pool!Acquire(u)

AcquireStep(u) ==
    /\ \/ Acquire(u) \/ Pool!TryAcquire(u) \/ Pool!EndScan(u)
       \/ \E s \in Pool!Slots : Pool!Enqueue(u, s) \/ Pool!TakeSlot(u, s)
       \/ Pool!ConnectFails(u) \/ Pool!Abandon(u)
    /\ UNCHANGED browserVars

Connect(u) == Pool!Connect(u) /\ Browser!Open(u)

SessionStep(u) ==
    /\ Browser!Call(u) \/ Browser!CleanupStep(u)
    /\ UNCHANGED poolVars

\* Fault: the permit is dropped with the session, the rest moves.
Fault_CloseReleasing(u) == Pool!Fault_CloseReleasing(u) /\ Browser!Close(u)

Close(u) == Pool!Close(u) /\ Browser!Close(u)

\* Fault: the cleanup does not end before the tab is closed.
Fault_EndCleanupClosed(u) ==
    /\ Browser!CloseTab(u)
    /\ lost'[u] = {}
    /\ Pool!EndCleanup(u)

\* cleanup_session returns, whether or not it closed the tab.
EndCleanup(u) == Browser!CloseTab(u) /\ Pool!EndCleanup(u)

Next ==
    \/ \E u \in Users :
        AcquireStep(u) \/ Connect(u) \/ SessionStep(u) \/ Close(u) \/ EndCleanup(u)
    \/ Browser!External /\ UNCHANGED poolVars

Spec == Init /\ [][Next]_vars

\* As in the two modules: futures are polled, connect_timeout and the timeouts
\* of the cleanup fire, and a login closes its session.
Progress(u) ==
    /\ WF_vars(Pool!TryAcquire(u) /\ UNCHANGED browserVars)
    /\ WF_vars(Pool!EndScan(u) /\ UNCHANGED browserVars)
    /\ WF_vars(/\ \E s \in Pool!Slots : Pool!Enqueue(u, s) \/ Pool!TakeSlot(u, s)
               /\ UNCHANGED browserVars)
    /\ WF_vars(Connect(u) \/ (Pool!ConnectFails(u) /\ UNCHANGED browserVars))
    /\ WF_vars(Close(u))
    /\ WF_vars(Browser!CleanupStep(u) /\ UNCHANGED poolVars)
    /\ WF_vars(EndCleanup(u))

FairSpec == Spec /\ \A u \in Users : Progress(u)

-----------------------------------------------------------------------------
(* Properties.                                                             *)

\* Types, and that the two modules agree on where a login is.
TypeOK ==
    /\ Pool!TypeOK
    /\ Browser!SessionsOK
    /\ \A u \in Users :
        /\ at[u] = "session" <=> phase[u] \in Browser!Live
        /\ at[u] = "cleanup" <=> phase[u] \in Browser!Cleanup

\* Whoever has a slot finds there no tab of an earlier login, open or about to
\* open, unless a step that had to close it failed.
NoForeignTab ==
    \A u, v \in Users :
        /\ u # v /\ Pool!Uses(v, slot[u])
        /\ phase[u] # "new" /\ Browser!Leftover(u)
        => lost[u] # {}

\* A connection or a page creation still running belongs to the login that has
\* the permit of that slot: nothing is driven behind the back of the pool.
DrivenOnlyByHolder ==
    \A u \in Users : conn[u] # "none" \/ creation[u] # "none" =>
        permit[slot[u]] = u

\* A login that waits for a browser gets one or an error whatever Chrome does
\* to the sessions before it, with none of its own deadlines firing.
WaitersAreServed ==
    \A u \in Users : at[u] = "wait" ~> at[u] # "wait"
=============================================================================
