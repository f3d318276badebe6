------------------------- MODULE BrowserPoolProofs -------------------------
(***************************************************************************)
(* Proofs about BrowserPool, for any number of logins and slots.           *)
(*                                                                         *)
(* What the two modules prove of themselves carries over: a step of the    *)
(* composition is a step of the pool, of one session, or of both.  The     *)
(* invariant joins theirs by the agreement on where a login is: then a     *)
(* login with a connection, or a page creation under way, is one that uses *)
(* its slot, and so has its permit.                                        *)
(***************************************************************************)
EXTENDS BrowserPool, TLAPS

PoolP == INSTANCE SlotPoolProofs
SessionP == INSTANCE BrowserSessionProofs
            WITH Sessions <- Users, Slots <- 1 .. NumSlots, place <- slot

Agree(u) ==
    /\ at[u] = "session" <=> phase[u] \in Browser!Live
    /\ at[u] = "cleanup" <=> phase[u] \in Browser!Cleanup

IInv ==
    /\ PoolP!IInv
    /\ SessionP!SessionsOK
    /\ \A u \in Users : SessionP!Tracked(u) /\ Agree(u)

-----------------------------------------------------------------------------
(* The instances of the proof modules say of the same variables what those *)
(* of BrowserPool say.                                                     *)

LEMMA SamePool ==
    /\ PoolP!Init <=> Pool!Init
    /\ PoolP!TypeOK <=> Pool!TypeOK
    /\ \A u \in Users :
        /\ PoolP!Acquire(u) <=> Pool!Acquire(u)
        /\ PoolP!TryAcquire(u) <=> Pool!TryAcquire(u)
        /\ PoolP!EndScan(u) <=> Pool!EndScan(u)
        /\ \A s \in Pool!Slots :
            /\ PoolP!Enqueue(u, s) <=> Pool!Enqueue(u, s)
            /\ PoolP!TakeSlot(u, s) <=> Pool!TakeSlot(u, s)
        /\ PoolP!Connect(u) <=> Pool!Connect(u)
        /\ PoolP!ConnectFails(u) <=> Pool!ConnectFails(u)
        /\ PoolP!Abandon(u) <=> Pool!Abandon(u)
        /\ PoolP!Close(u) <=> Pool!Close(u)
        /\ PoolP!EndCleanup(u) <=> Pool!EndCleanup(u)
<1>1. \A u \in Users, s \in Pool!Slots : PoolP!Waits(u, s) <=> Pool!Waits(u, s)
  BY DEF PoolP!Waits, Pool!Waits
<1>2. \A u \in Users, s \in Pool!Slots : PoolP!Without(u, s) = Pool!Without(u, s)
  BY DEF PoolP!Without, Pool!Without, PoolP!Waits, Pool!Waits
<1>3. PoolP!Slots = Pool!Slots
  BY DEF PoolP!Slots, Pool!Slots
<1>4. \A u \in Users : \A kept \in SUBSET Pool!Slots :
        PoolP!Keep(u, kept) <=> Pool!Keep(u, kept)
  BY <1>2, <1>3 DEF PoolP!Keep, Pool!Keep
<1>. USE DEF PoolP!Connecting, Pool!Connecting, PoolP!Acquiring, Pool!Acquiring,
             PoolP!semaphores, Pool!semaphores
<1>5. PoolP!Init <=> Pool!Init
  BY <1>3 DEF PoolP!Init, Pool!Init
<1>6. PoolP!TypeOK <=> Pool!TypeOK
  BY <1>3 DEF PoolP!TypeOK, Pool!TypeOK, PoolP!Step, Pool!Step, PoolP!Using, Pool!Using
<1>7. ASSUME NEW u \in Users
      PROVE  /\ PoolP!Acquire(u) <=> Pool!Acquire(u)
             /\ PoolP!TryAcquire(u) <=> Pool!TryAcquire(u)
             /\ PoolP!EndScan(u) <=> Pool!EndScan(u)
             /\ PoolP!Connect(u) <=> Pool!Connect(u)
             /\ PoolP!Close(u) <=> Pool!Close(u)
  BY <1>3 DEF PoolP!Acquire, Pool!Acquire, PoolP!TryAcquire, Pool!TryAcquire,
     PoolP!EndScan, Pool!EndScan, PoolP!Connect, Pool!Connect, PoolP!Close, Pool!Close
<1>8. ASSUME NEW u \in Users
      PROVE  /\ PoolP!ConnectFails(u) <=> Pool!ConnectFails(u)
             /\ PoolP!Abandon(u) <=> Pool!Abandon(u)
             /\ PoolP!EndCleanup(u) <=> Pool!EndCleanup(u)
  BY <1>4 DEF PoolP!ConnectFails, Pool!ConnectFails, PoolP!Abandon, Pool!Abandon,
     PoolP!EndCleanup, Pool!EndCleanup
<1>9. ASSUME NEW u \in Users, NEW s \in Pool!Slots
      PROVE  /\ PoolP!Enqueue(u, s) <=> Pool!Enqueue(u, s)
             /\ PoolP!TakeSlot(u, s) <=> Pool!TakeSlot(u, s)
  BY <1>1, <1>4 DEF PoolP!Enqueue, Pool!Enqueue, PoolP!TakeSlot, Pool!TakeSlot
<1>. QED BY <1>5, <1>6, <1>7, <1>8, <1>9

LEMMA SameSession ==
    /\ Browser!SessionsOK <=> SessionP!SessionsOK
    /\ Browser!External <=> SessionP!External
    /\ \A u \in Users :
        /\ Browser!Leftover(u) <=> SessionP!Leftover(u)
        /\ Browser!Open(u) <=> SessionP!Open(u)
        /\ Browser!Call(u) <=> SessionP!Call(u)
        /\ Browser!Close(u) <=> SessionP!Close(u)
        /\ Browser!CleanupStep(u) <=> SessionP!CleanupStep(u)
        /\ Browser!CloseTab(u) <=> SessionP!CloseTab(u)
<1>. USE DEF Browser!session, SessionP!session, Browser!Goto, SessionP!Goto,
             Browser!Set, SessionP!Set, Browser!Loses, SessionP!Loses
<1>1. Browser!SessionsOK <=> SessionP!SessionsOK
  BY DEF Browser!SessionsOK, SessionP!SessionsOK, Browser!Live, SessionP!Live,
     Browser!Cleanup, SessionP!Cleanup
<1>2. \A u \in Users :
        /\ Browser!OpenTab(u) <=> SessionP!OpenTab(u)
        /\ Browser!DiscardRequest(u) <=> SessionP!DiscardRequest(u)
        /\ Browser!TabCloses(u) <=> SessionP!TabCloses(u)
        /\ Browser!CreationAnswers(u) <=> SessionP!CreationAnswers(u)
        /\ Browser!CreationFails(u) <=> SessionP!CreationFails(u)
        /\ Browser!ConnectionDrops(u) <=> SessionP!ConnectionDrops(u)
  BY DEF Browser!OpenTab, SessionP!OpenTab, Browser!DiscardRequest,
     SessionP!DiscardRequest, Browser!TabCloses, SessionP!TabCloses,
     Browser!CreationAnswers, SessionP!CreationAnswers, Browser!CreationFails,
     SessionP!CreationFails, Browser!ConnectionDrops, SessionP!ConnectionDrops
<1>3. \A s \in 1 .. NumSlots :
        /\ Browser!ChromeStops(s) <=> SessionP!ChromeStops(s)
        /\ Browser!ChromeStarts(s) <=> SessionP!ChromeStarts(s)
  BY DEF Browser!ChromeStops, SessionP!ChromeStops, Browser!ChromeStarts,
     SessionP!ChromeStarts
<1>4. Browser!External <=> SessionP!External
  BY <1>2, <1>3 DEF Browser!External, SessionP!External
<1>5. \A u \in Users : Browser!Call(u) <=> SessionP!Call(u)
  BY DEF Browser!Call, SessionP!Call, Browser!NewPage, SessionP!NewPage,
     Browser!FinishPageCreation, SessionP!FinishPageCreation, Browser!Attach,
     SessionP!Attach, Browser!StartReconnect, SessionP!StartReconnect,
     Browser!Reconnect, SessionP!Reconnect, Browser!ReconnectFails,
     SessionP!ReconnectFails
<1>6. \A u \in Users : Browser!CleanupStep(u) <=> SessionP!CleanupStep(u)
  BY DEF Browser!CleanupStep, SessionP!CleanupStep, Browser!AwaitCreation,
     SessionP!AwaitCreation, Browser!AbortCreation, SessionP!AbortCreation,
     Browser!Reopen, SessionP!Reopen, Browser!ReopenFails, SessionP!ReopenFails,
     Browser!AfterCreation, SessionP!AfterCreation
<1>7. \A u \in Users :
        /\ Browser!Leftover(u) <=> SessionP!Leftover(u)
        /\ Browser!Open(u) <=> SessionP!Open(u)
        /\ Browser!Close(u) <=> SessionP!Close(u)
        /\ Browser!CloseTab(u) <=> SessionP!CloseTab(u)
  BY DEF Browser!Leftover, SessionP!Leftover, Browser!Open, SessionP!Open,
     Browser!Close, SessionP!Close, Browser!CloseTab, SessionP!CloseTab,
     Browser!AfterCreation, SessionP!AfterCreation, Browser!Live, SessionP!Live
<1>. QED BY <1>1, <1>4, <1>5, <1>6, <1>7

-----------------------------------------------------------------------------
(* Steps.                                                                  *)

\* Where a step of its session takes a login.
LEMMA Phases ==
    ASSUME SessionP!SessionsOK, NEW u \in Users
    PROVE  /\ SessionP!Open(u) => phase[u] = "new" /\ phase'[u] = "open"
           /\ SessionP!Call(u) => phase[u] \in Browser!Live /\ phase'[u] \in Browser!Live
           /\ SessionP!Close(u) =>
                phase[u] \in Browser!Live /\ phase'[u] \in Browser!Cleanup
           /\ SessionP!CleanupStep(u) =>
                phase[u] \in Browser!Cleanup /\ phase'[u] \in Browser!Cleanup
           /\ SessionP!CloseTab(u) => phase[u] = "close_tab" /\ phase'[u] = "closed"
<1>. USE DEF SessionP!SessionsOK, SessionP!Goto, SessionP!Live, Browser!Live,
             Browser!Cleanup
<1>1. SessionP!Open(u) => phase[u] = "new" /\ phase'[u] = "open"
  BY DEF SessionP!Open
<1>2. SessionP!Call(u) => phase[u] \in Browser!Live /\ phase'[u] \in Browser!Live
  BY DEF SessionP!Call, SessionP!NewPage, SessionP!FinishPageCreation,
     SessionP!Attach, SessionP!StartReconnect, SessionP!Reconnect,
     SessionP!ReconnectFails
<1>3. SessionP!Close(u) => phase[u] \in Browser!Live /\ phase'[u] \in Browser!Cleanup
  BY DEF SessionP!Close, SessionP!AfterCreation
<1>4. SessionP!CleanupStep(u) =>
        phase[u] \in Browser!Cleanup /\ phase'[u] \in Browser!Cleanup
  BY DEF SessionP!CleanupStep, SessionP!AwaitCreation, SessionP!AbortCreation,
     SessionP!Reopen, SessionP!ReopenFails, SessionP!AfterCreation
<1>5. SessionP!CloseTab(u) => phase[u] = "close_tab" /\ phase'[u] = "closed"
  BY DEF SessionP!CloseTab
<1>. QED BY <1>1, <1>2, <1>3, <1>4, <1>5

\* A step of one session: it follows its tab, and the others stay as they are.
LEMMA SessionMoves ==
    ASSUME SessionP!SessionsOK, \A v \in Users : SessionP!Tracked(v),
           NEW u \in Users, SessionP!Local(u)
    PROVE  /\ \A v \in Users : SessionP!Tracked(v)'
           /\ \A v \in Users : v # u => phase'[v] = phase[v]
<1>1. SessionP!Tracked(u)'
  BY SessionP!TrackedStep
<1>2. ASSUME NEW v \in Users, v # u PROVE SessionP!Same(v)
  BY <1>2, SessionP!LocalStep
<1>3. ASSUME NEW v \in Users, v # u PROVE SessionP!Tracked(v)'
  BY <1>2, <1>3, SessionP!Frame
<1>. QED BY <1>1, <1>2, <1>3 DEF SessionP!Same

LEMMA ChromeMoves ==
    ASSUME SessionP!SessionsOK, \A v \in Users : SessionP!Tracked(v),
           SessionP!External
    PROVE  /\ SessionP!SessionsOK'
           /\ \A v \in Users : SessionP!Tracked(v)'
           /\ phase' = phase
<1>1. SessionP!SessionsOK'
  BY SessionP!TypeExternal
<1>2. phase' = phase
  BY DEF SessionP!External, SessionP!OpenTab, SessionP!DiscardRequest,
     SessionP!TabCloses, SessionP!CreationAnswers, SessionP!CreationFails,
     SessionP!ConnectionDrops, SessionP!ChromeStops, SessionP!ChromeStarts,
     SessionP!session
<1>3. ASSUME NEW u \in Users, SessionP!Local(u), NEW v \in Users
      PROVE  SessionP!Tracked(v)'
  BY <1>3, SessionMoves
<1>4. ASSUME NEW s \in 1 .. NumSlots,
             SessionP!ChromeStops(s) \/ SessionP!ChromeStarts(s), NEW v \in Users
      PROVE  SessionP!Tracked(v)'
  BY <1>4, SessionP!TrackedChrome
<1>. QED BY <1>1, <1>2, <1>3, <1>4 DEF SessionP!External, SessionP!Local

LEMMA PoolMoves == PoolP!IInv /\ PoolP!Next => PoolP!IInv'
  BY PoolP!StepIInv, BrowserPoolAssumption

\* Where a step of the pool takes a login.
LEMMA Places ==
    ASSUME Pool!TypeOK, NEW u \in Users
    PROVE  /\ Pool!Connect(u) => at[u] \in Pool!Connecting /\ at'[u] = "session"
           /\ Pool!Close(u) => at[u] = "session" /\ at'[u] = "cleanup"
           /\ Pool!EndCleanup(u) => at[u] = "cleanup" /\ at'[u] = "idle"
           /\ AcquireStep(u) => {at[u], at'[u]} \cap {"session", "cleanup"} = {}
           /\ Pool!Connect(u) \/ Pool!Close(u) \/ Pool!EndCleanup(u) \/ AcquireStep(u)
                => \A v \in Users : v # u => at'[v] = at[v]
<1>. USE DEF Pool!TypeOK, Pool!Connecting, Pool!Acquiring
<1>1. /\ Pool!Connect(u) => at[u] \in Pool!Connecting /\ at'[u] = "session"
      /\ Pool!Close(u) => at[u] = "session" /\ at'[u] = "cleanup"
      /\ Pool!EndCleanup(u) => at[u] = "cleanup" /\ at'[u] = "idle"
      /\ Pool!Connect(u) \/ Pool!Close(u) \/ Pool!EndCleanup(u)
            => \A v \in Users : v # u => at'[v] = at[v]
  BY DEF Pool!Connect, Pool!Close, Pool!EndCleanup
<1>2. AcquireStep(u) =>
        /\ at[u] \notin {"session", "cleanup"} /\ at'[u] \notin {"session", "cleanup"}
        /\ \A v \in Users : v # u => at'[v] = at[v]
  BY DEF AcquireStep, Acquire, Pool!Acquire, Pool!TryAcquire, Pool!EndScan,
     Pool!Enqueue, Pool!TakeSlot, Pool!ConnectFails, Pool!Abandon
<1>. QED BY <1>1, <1>2

-----------------------------------------------------------------------------
(* The invariant.                                                          *)

LEMMA InitIInv == Init => IInv
<1>. SUFFICES ASSUME Init PROVE IInv
  OBVIOUS
<1>1. PoolP!IInv
  BY PoolP!InitIInv, SamePool, BrowserPoolAssumption DEF Init
<1>2. /\ SessionP!SessionsOK
      /\ \A u \in Users : SessionP!Tracked(u)
  BY DEF Init, Browser!Init, SessionP!SessionsOK, SessionP!Live, SessionP!Cleanup,
     SessionP!Tracked, SessionP!OneTab, SessionP!Held, SessionP!CanClose,
     SessionP!Settled, SessionP!Leftover, SessionP!Connected
<1>3. ASSUME NEW u \in Users PROVE Agree(u)
  BY DEF Init, Pool!Init, Browser!Init, Agree, Browser!Live, Browser!Cleanup
<1>. QED BY <1>1, <1>2, <1>3 DEF IInv

LEMMA AcquireKeeps ==
    ASSUME IInv, NEW u \in Users, AcquireStep(u)
    PROVE  IInv'
<1>1. PoolP!IInv'
  <2>1. PoolP!Next
    BY SamePool DEF AcquireStep, Acquire, PoolP!Next, PoolP!Slots, Pool!Slots
  <2>. QED BY <2>1, PoolMoves DEF IInv
<1>2. /\ SessionP!SessionsOK'
      /\ \A v \in Users : SessionP!Tracked(v)'
  <2>1. \A v \in Users : SessionP!Same(v)
    BY DEF AcquireStep, browserVars, SessionP!Same
  <2>2. SessionP!SessionsOK'
    BY DEF IInv, AcquireStep, browserVars, SessionP!SessionsOK
  <2>3. ASSUME NEW v \in Users PROVE SessionP!Tracked(v)'
    BY <2>1, SessionP!Frame DEF IInv
  <2>. QED BY <2>2, <2>3
<1>3. ASSUME NEW v \in Users PROVE Agree(v)'
  <2>1. Pool!TypeOK
    BY SamePool DEF IInv, PoolP!IInv
  <2>2. phase' = phase
    BY DEF AcquireStep, browserVars
  <2>3. /\ {at[u], at'[u]} \cap {"session", "cleanup"} = {}
        /\ v # u => at'[v] = at[v]
    BY <2>1, Places
  <2>. QED BY <2>2, <2>3 DEF IInv, Agree
<1>. QED BY <1>1, <1>2, <1>3 DEF IInv

\* A step of a session with which the login stays where it is, or that goes
\* with a step of the pool that moves it accordingly.
LEMMA SessionKeeps ==
    ASSUME IInv, NEW u \in Users, SessionP!Local(u), SessionP!SessionsOK',
           PoolP!IInv', Agree(u)', \A v \in Users : v # u => at'[v] = at[v]
    PROVE  IInv'
<1>1. /\ \A v \in Users : SessionP!Tracked(v)'
      /\ \A v \in Users : v # u => phase'[v] = phase[v]
  BY SessionMoves DEF IInv
<1>2. ASSUME NEW v \in Users, v # u PROVE Agree(v)'
  BY <1>1, <1>2 DEF IInv, Agree
<1>. QED BY <1>1, <1>2 DEF IInv

LEMMA StepIInv == IInv /\ [Next]_vars => IInv'
<1>. SUFFICES ASSUME IInv, [Next]_vars PROVE IInv'
  OBVIOUS
<1>1. Pool!TypeOK
  BY SamePool DEF IInv, PoolP!IInv
<1>2. ASSUME UNCHANGED poolVars PROVE PoolP!IInv' /\ at' = at
  <2>1. UNCHANGED PoolP!vars
    BY <1>2 DEF poolVars, PoolP!vars
  <2>2. PoolP!IInv'
    BY <2>1, PoolP!StepIInv, BrowserPoolAssumption DEF IInv
  <2>. QED BY <1>2, <2>2 DEF poolVars
<1>3. ASSUME NEW u \in Users, AcquireStep(u) PROVE IInv'
  BY <1>3, AcquireKeeps
<1>4. ASSUME NEW u \in Users, Connect(u) PROVE IInv'
  <2>1. PoolP!IInv'
    BY <1>4, SamePool, PoolMoves DEF Connect, PoolP!Next, IInv
  <2>2. SessionP!Open(u)
    BY <1>4, SameSession DEF Connect
  <2>3. SessionP!Local(u) /\ SessionP!SessionsOK'
    BY <2>2, SessionP!TypeSession DEF SessionP!Local, IInv
  <2>4. Agree(u)' /\ \A v \in Users : v # u => at'[v] = at[v]
    BY <1>1, <1>4, <2>2, Places, Phases DEF Connect, IInv, Agree, Browser!Live,
       Browser!Cleanup
  <2>. QED BY <2>1, <2>3, <2>4, SessionKeeps
<1>5. ASSUME NEW u \in Users, SessionStep(u) PROVE IInv'
  <2>1. PoolP!IInv' /\ at' = at
    BY <1>2, <1>5 DEF SessionStep
  <2>2. SessionP!Call(u) \/ SessionP!CleanupStep(u)
    BY <1>5, SameSession DEF SessionStep
  <2>3. SessionP!Local(u) /\ SessionP!SessionsOK'
    BY <2>2, SessionP!TypeSession DEF SessionP!Local, IInv
  <2>4. Agree(u)'
    BY <2>1, <2>2, Phases DEF IInv, Agree, Browser!Live, Browser!Cleanup
  <2>. QED BY <2>1, <2>3, <2>4, SessionKeeps
<1>6. ASSUME NEW u \in Users, Close(u) PROVE IInv'
  <2>1. PoolP!IInv'
    BY <1>6, SamePool, PoolMoves DEF Close, PoolP!Next, IInv
  <2>2. SessionP!Close(u)
    BY <1>6, SameSession DEF Close
  <2>3. SessionP!Local(u) /\ SessionP!SessionsOK'
    BY <2>2, SessionP!TypeSession DEF SessionP!Local, IInv
  <2>4. Agree(u)' /\ \A v \in Users : v # u => at'[v] = at[v]
    BY <1>1, <1>6, <2>2, Places, Phases DEF Close, IInv, Agree, Browser!Live,
       Browser!Cleanup
  <2>. QED BY <2>1, <2>3, <2>4, SessionKeeps
<1>7. ASSUME NEW u \in Users, EndCleanup(u) PROVE IInv'
  <2>1. PoolP!IInv'
    BY <1>7, SamePool, PoolMoves DEF EndCleanup, PoolP!Next, IInv
  <2>2. SessionP!CloseTab(u)
    BY <1>7, SameSession DEF EndCleanup
  <2>3. SessionP!Local(u) /\ SessionP!SessionsOK'
    BY <2>2, SessionP!TypeSession DEF SessionP!Local, IInv
  <2>4. Agree(u)' /\ \A v \in Users : v # u => at'[v] = at[v]
    BY <1>1, <1>7, <2>2, Places, Phases DEF EndCleanup, IInv, Agree, Browser!Live,
       Browser!Cleanup
  <2>. QED BY <2>1, <2>3, <2>4, SessionKeeps
<1>8. CASE Browser!External /\ UNCHANGED poolVars
  <2>1. PoolP!IInv' /\ at' = at
    BY <1>2, <1>8
  <2>2. SessionP!External
    BY <1>8, SameSession
  <2>3. /\ SessionP!SessionsOK'
        /\ \A v \in Users : SessionP!Tracked(v)'
        /\ phase' = phase
    BY <2>2, ChromeMoves DEF IInv
  <2>. QED BY <2>1, <2>3 DEF IInv, Agree
<1>9. CASE UNCHANGED vars
  <2>1. PoolP!IInv' /\ at' = at
    BY <1>2, <1>9 DEF vars
  <2>2. \A v \in Users : SessionP!Same(v)
    BY <1>9 DEF vars, browserVars, SessionP!Same
  <2>3. SessionP!SessionsOK' /\ phase' = phase
    BY <1>9 DEF IInv, vars, browserVars, SessionP!SessionsOK
  <2>4. ASSUME NEW v \in Users PROVE SessionP!Tracked(v)'
    BY <2>2, SessionP!Frame DEF IInv
  <2>. QED BY <2>1, <2>3, <2>4 DEF IInv, Agree
<1>. QED BY <1>3, <1>4, <1>5, <1>6, <1>7, <1>8, <1>9 DEF Next

LEMMA Invariant == Spec => []IInv
  BY InitIInv, StepIInv, PTL DEF Spec

\* The variables keep their types, and pool and session agree on where a login
\* is, for any number of logins and slots.
THEOREM TypeCorrect == Spec => []TypeOK
<1>1. IInv => TypeOK
  BY SamePool, SameSession DEF IInv, Agree, TypeOK, PoolP!IInv
<1>. QED BY <1>1, Invariant, PTL

\* Whoever has a slot finds there no tab of an earlier login, unless a step
\* that had to close it failed.
THEOREM SlotsAreClean == Spec => []NoForeignTab
<1>1. IInv => NoForeignTab
  <2>. SUFFICES ASSUME IInv, NEW u \in Users, NEW v \in Users, u # v,
                       Pool!Uses(v, slot[u]), phase[u] # "new", Browser!Leftover(u)
                PROVE  lost[u] # {}
    BY DEF NoForeignTab
  <2>1. CASE phase[u] = "closed"
    <3>1. SessionP!Leftover(u) /\ SessionP!Settled(u)
      BY SameSession DEF IInv, SessionP!Tracked
    <3>. QED BY <2>1, <3>1 DEF SessionP!Settled
  <2>2. CASE phase[u] # "closed"
    <3>1. phase[u] \in Browser!Live \cup Browser!Cleanup
      BY <2>2 DEF IInv, SessionP!SessionsOK, SessionP!Live, SessionP!Cleanup,
         Browser!Live, Browser!Cleanup
    <3>2. at[u] \in {"session", "cleanup"}
      BY <3>1 DEF IInv, Agree
    <3>3. permit[slot[u]] = u /\ permit[slot[v]] = v
      BY <3>2 DEF IInv, PoolP!IInv, PoolP!HoldersHavePermit, PoolP!Using,
         PoolP!Connecting, Pool!Uses, Pool!Using, Pool!Connecting
    <3>. QED BY <3>3 DEF Pool!Uses
  <2>. QED BY <2>1, <2>2
<1>. QED BY <1>1, Invariant, PTL

\* A connection or a page creation under way belongs to the login that has the
\* permit of that slot.
THEOREM PermitHolderDrives == Spec => []DrivenOnlyByHolder
<1>1. IInv => DrivenOnlyByHolder
  <2>. SUFFICES ASSUME IInv, NEW u \in Users, conn[u] # "none" \/ creation[u] # "none"
                PROVE  permit[slot[u]] = u
    BY DEF DrivenOnlyByHolder
  <2>1. phase[u] \in Browser!Live \cup Browser!Cleanup
    BY DEF IInv, SessionP!SessionsOK, SessionP!Tracked, SessionP!Connected,
       SessionP!Live, SessionP!Cleanup, Browser!Live, Browser!Cleanup
  <2>2. at[u] \in {"session", "cleanup"}
    BY <2>1 DEF IInv, Agree
  <2>. QED BY <2>2 DEF IInv, PoolP!IInv, PoolP!HoldersHavePermit, PoolP!Using
<1>. QED BY <1>1, Invariant, PTL
=============================================================================
