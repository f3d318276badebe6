------------------------ MODULE BrowserSessionProofs ------------------------
(***************************************************************************)
(* Proofs about BrowserSession, for any number of sessions and slots.      *)
(*                                                                         *)
(* NothingLeftUnexplained looks at a session that is over.  The invariant  *)
(* follows its tab from the start: as long as nothing went wrong (lost is  *)
(* empty), a CreateTarget under way has its task, an open tab has its task *)
(* or its id, and a cleanup that reached close_tab has a connection.       *)
(***************************************************************************)
EXTENDS BrowserSession, TLAPS

\* No tab before new_page, and one CreateTarget per session.
OneTab(l) ==
    /\ phase[l] \in {"new", "open"} => tab[l] = "none" /\ ~request[l]
    /\ request[l] => tab[l] = "none"
    /\ creation[l] = "answered" \/ target[l] => tab[l] # "none"

\* What is or may come to be in Chrome is held by a task or known by its id.
Held(l) ==
    /\ creation[l] = "failed" => lost[l] # {}
    /\ request[l] /\ lost[l] = {} => creation[l] = "running"
    /\ tab[l] = "open" /\ lost[l] = {} =>
        creation[l] \in {"running", "answered"} \/ target[l]

\* The connection through which the tab can be closed.
CanClose(l) ==
    phase[l] = "close_tab" /\ target[l] /\ conn[l] = "none" => lost[l] # {}

Settled(l) == phase[l] = "closed" /\ Leftover(l) => lost[l] # {}

\* A connection is held only between Open and the end of the cleanup.
Connected(l) == conn[l] # "none" => phase[l] \in Live \cup Cleanup

Tracked(l) == OneTab(l) /\ Held(l) /\ CanClose(l) /\ Settled(l) /\ Connected(l)

IInv == TypeOK /\ \A l \in Sessions : Tracked(l)

\* A step that leaves all there is of a session alone keeps its invariant.
Same(l) ==
    /\ phase'[l] = phase[l] /\ conn'[l] = conn[l] /\ creation'[l] = creation[l]
    /\ target'[l] = target[l] /\ request'[l] = request[l]
    /\ tab'[l] = tab[l] /\ lost'[l] = lost[l]

LEMMA Frame ==
    ASSUME NEW l \in Sessions, Same(l), Tracked(l)
    PROVE  Tracked(l)'
<1>1. OneTab(l)'
  BY DEF Same, Tracked, OneTab
<1>2. Held(l)'
  BY DEF Same, Tracked, Held
<1>3. CanClose(l)'
  BY DEF Same, Tracked, CanClose
<1>4. Settled(l)'
  BY DEF Same, Tracked, Settled, Leftover
<1>5. Connected(l)'
  BY DEF Same, Tracked, Connected, Live, Cleanup
<1>. QED BY <1>1, <1>2, <1>3, <1>4, <1>5 DEF Tracked

LEMMA InitIInv == Init => IInv
  BY DEF Init, IInv, TypeOK, SessionsOK, Live, Cleanup, Tracked, OneTab, Held,
         CanClose, Settled, Leftover, Connected

-----------------------------------------------------------------------------
(* Types.                                                                  *)

LEMMA TypeExternal == SessionsOK /\ External => SessionsOK'
<1>. SUFFICES ASSUME SessionsOK, External PROVE SessionsOK'
  OBVIOUS
<1>. USE DEF SessionsOK, session, Set, Loses
<1>1. ASSUME NEW l \in Sessions, OpenTab(l) PROVE SessionsOK'
  BY <1>1 DEF OpenTab
<1>2. ASSUME NEW l \in Sessions, DiscardRequest(l) PROVE SessionsOK'
  BY <1>2 DEF DiscardRequest
<1>3. ASSUME NEW l \in Sessions, TabCloses(l) PROVE SessionsOK'
  BY <1>3 DEF TabCloses
<1>4. ASSUME NEW l \in Sessions, CreationAnswers(l) PROVE SessionsOK'
  BY <1>4 DEF CreationAnswers
<1>5. ASSUME NEW l \in Sessions, CreationFails(l) PROVE SessionsOK'
  BY <1>5 DEF CreationFails
<1>6. ASSUME NEW l \in Sessions, ConnectionDrops(l) PROVE SessionsOK'
  BY <1>6 DEF ConnectionDrops
<1>7. ASSUME NEW s \in Slots, ChromeStops(s) PROVE SessionsOK'
  BY <1>7 DEF ChromeStops
<1>8. ASSUME NEW s \in Slots, ChromeStarts(s) PROVE SessionsOK'
  BY <1>8 DEF ChromeStarts
<1>. QED BY <1>1, <1>2, <1>3, <1>4, <1>5, <1>6, <1>7, <1>8 DEF External

LEMMA TypeSession ==
    ASSUME SessionsOK, NEW l \in Sessions,
           Open(l) \/ Call(l) \/ Close(l) \/ CleanupStep(l) \/ CloseTab(l)
    PROVE  SessionsOK'
<1>. USE DEF SessionsOK, Goto, Set, Loses, Live, Cleanup
<1>1. CASE Open(l)
  BY <1>1 DEF Open
<1>2. CASE NewPage(l)
  BY <1>2 DEF NewPage
<1>3. CASE FinishPageCreation(l)
  BY <1>3 DEF FinishPageCreation
<1>4. CASE Attach(l)
  BY <1>4 DEF Attach
<1>5. CASE StartReconnect(l)
  BY <1>5 DEF StartReconnect
<1>6. CASE Reconnect(l)
  BY <1>6 DEF Reconnect
<1>7. CASE ReconnectFails(l)
  BY <1>7 DEF ReconnectFails
<1>8. CASE Close(l)
  BY <1>8 DEF Close, AfterCreation
<1>9. CASE AwaitCreation(l)
  BY <1>9 DEF AwaitCreation, AfterCreation
<1>10. CASE AbortCreation(l)
  BY <1>10 DEF AbortCreation
<1>11. CASE Reopen(l)
  BY <1>11 DEF Reopen
<1>12. CASE ReopenFails(l)
  BY <1>12 DEF ReopenFails
<1>13. CASE CloseTab(l)
  BY <1>13 DEF CloseTab
<1>. QED BY <1>1, <1>2, <1>3, <1>4, <1>5, <1>6, <1>7, <1>8, <1>9, <1>10,
            <1>11, <1>12, <1>13
         DEF Call, CleanupStep

\* A session stays on its slot.
LEMMA TypeStep == TypeOK /\ [Next]_vars => TypeOK'
<1>. SUFFICES ASSUME TypeOK, [Next]_vars PROVE TypeOK'
  OBVIOUS
<1>1. CASE UNCHANGED vars
  BY <1>1 DEF vars, session, TypeOK, SessionsOK
<1>2. CASE Next
  <2>1. SessionsOK'
    BY <1>2, TypeExternal, TypeSession DEF Next, TypeOK
  <2>2. UNCHANGED place
    <3>1. ASSUME NEW l \in Sessions,
                 Open(l) \/ Call(l) \/ Close(l) \/ CleanupStep(l) \/ CloseTab(l)
          PROVE  UNCHANGED place
      BY <3>1 DEF Open, Call, NewPage, FinishPageCreation, Attach, StartReconnect,
         Reconnect, ReconnectFails, Close, CleanupStep, AwaitCreation,
         AbortCreation, Reopen, ReopenFails, CloseTab
    <3>2. External => UNCHANGED place
      BY DEF External, OpenTab, DiscardRequest, TabCloses, CreationAnswers,
         CreationFails, ConnectionDrops, ChromeStops, ChromeStarts, session
    <3>. QED BY <1>2, <3>1, <3>2 DEF Next
  <2>. QED BY <2>1, <2>2 DEF TypeOK
<1>. QED BY <1>1, <1>2

-----------------------------------------------------------------------------
(* Tracked.                                                                *)

\* A step of a session, or of Chrome on its behalf, touches no other.
Local(l) ==
    \/ OpenTab(l) \/ DiscardRequest(l) \/ TabCloses(l)
    \/ CreationAnswers(l) \/ CreationFails(l) \/ ConnectionDrops(l)
    \/ Open(l) \/ Call(l) \/ Close(l) \/ CleanupStep(l) \/ CloseTab(l)

LEMMA LocalStep ==
    ASSUME SessionsOK, NEW l \in Sessions, Local(l), NEW m \in Sessions, m # l
    PROVE  Same(m)
<1>. USE DEF SessionsOK, session, Goto, Set, Loses, Same
<1>1. CASE OpenTab(l)
  BY <1>1 DEF OpenTab
<1>2. CASE DiscardRequest(l)
  BY <1>2 DEF DiscardRequest
<1>3. CASE TabCloses(l)
  BY <1>3 DEF TabCloses
<1>4. CASE CreationAnswers(l)
  BY <1>4 DEF CreationAnswers
<1>5. CASE CreationFails(l)
  BY <1>5 DEF CreationFails
<1>6. CASE ConnectionDrops(l)
  BY <1>6 DEF ConnectionDrops
<1>7. CASE Open(l)
  BY <1>7 DEF Open
<1>8. CASE NewPage(l)
  BY <1>8 DEF NewPage
<1>9. CASE FinishPageCreation(l)
  BY <1>9 DEF FinishPageCreation
<1>10. CASE Attach(l)
  BY <1>10 DEF Attach
<1>11. CASE StartReconnect(l)
  BY <1>11 DEF StartReconnect
<1>12. CASE Reconnect(l)
  BY <1>12 DEF Reconnect
<1>13. CASE ReconnectFails(l)
  BY <1>13 DEF ReconnectFails
<1>14. CASE Close(l)
  BY <1>14 DEF Close
<1>15. CASE AwaitCreation(l)
  BY <1>15 DEF AwaitCreation
<1>16. CASE AbortCreation(l)
  BY <1>16 DEF AbortCreation
<1>17. CASE Reopen(l)
  BY <1>17 DEF Reopen
<1>18. CASE ReopenFails(l)
  BY <1>18 DEF ReopenFails
<1>19. CASE CloseTab(l)
  BY <1>19 DEF CloseTab
<1>. QED BY <1>1, <1>2, <1>3, <1>4, <1>5, <1>6, <1>7, <1>8, <1>9, <1>10,
            <1>11, <1>12, <1>13, <1>14, <1>15, <1>16, <1>17, <1>18, <1>19
         DEF Local, Call, CleanupStep

LEMMA TrackedStep ==
    ASSUME SessionsOK, NEW l \in Sessions, Local(l), Tracked(l)
    PROVE  Tracked(l)'
<1>. USE DEF SessionsOK, session, Goto, Set, Loses, Tracked, OneTab, Held,
             CanClose, Settled, Leftover, Connected, Live, Cleanup
<1>1. CASE OpenTab(l)
  BY <1>1 DEF OpenTab
<1>2. CASE DiscardRequest(l)
  BY <1>2 DEF DiscardRequest
<1>3. CASE TabCloses(l)
  BY <1>3 DEF TabCloses
<1>4. CASE CreationAnswers(l)
  BY <1>4 DEF CreationAnswers
<1>5. CASE CreationFails(l)
  BY <1>5 DEF CreationFails
<1>6. CASE ConnectionDrops(l)
  BY <1>6 DEF ConnectionDrops
<1>7. CASE Open(l)
  BY <1>7 DEF Open
<1>8. CASE NewPage(l)
  BY <1>8 DEF NewPage
<1>9. CASE FinishPageCreation(l)
  BY <1>9 DEF FinishPageCreation
<1>10. CASE Attach(l)
  BY <1>10 DEF Attach
<1>11. CASE StartReconnect(l)
  BY <1>11 DEF StartReconnect
<1>12. CASE Reconnect(l)
  BY <1>12 DEF Reconnect
<1>13. CASE ReconnectFails(l)
  BY <1>13 DEF ReconnectFails
<1>14. CASE Close(l)
  BY <1>14 DEF Close, AfterCreation
<1>15. CASE AwaitCreation(l)
  BY <1>15 DEF AwaitCreation, AfterCreation
<1>16. CASE AbortCreation(l)
  BY <1>16 DEF AbortCreation
<1>17. CASE Reopen(l)
  BY <1>17 DEF Reopen
<1>18. CASE ReopenFails(l)
  BY <1>18 DEF ReopenFails
<1>19. CASE CloseTab(l)
  <2>1. /\ phase[l] = "close_tab" /\ creation[l] = "none"
        /\ phase'[l] = "closed" /\ conn'[l] = "none" /\ creation'[l] = "none"
        /\ target'[l] = target[l] /\ request'[l] = request[l]
    BY <1>19 DEF CloseTab
  <2>2. \/ target[l] /\ tab'[l] = "closed" /\ lost'[l] = lost[l]
        \/ target[l] /\ lost'[l] # {} /\ tab'[l] = tab[l]
        \/ /\ ~target[l] \/ conn[l] = "none"
           /\ tab'[l] = tab[l] /\ lost'[l] = lost[l]
    <3>1. CASE target[l] /\ tab' = Set(tab, l, "closed") /\ UNCHANGED lost
      BY <3>1
    <3>2. CASE /\ target[l] /\ UNCHANGED tab
               /\ Loses(l, IF conn[l] = "up" THEN "close" ELSE "dead_connection")
      <4>1. lost'[l] = lost[l] \cup
                {IF conn[l] = "up" THEN "close" ELSE "dead_connection"}
        BY <3>2
      <4>. QED BY <3>2, <4>1
    <3>3. CASE (~target[l] \/ conn[l] = "none") /\ UNCHANGED <<tab, lost>>
      BY <3>3
    <3>. QED BY <1>19, <3>1, <3>2, <3>3 DEF CloseTab
  <2>3. OneTab(l)'
    BY <2>1, <2>2
  <2>4. Held(l)' /\ CanClose(l)'
    BY <2>1, <2>2
  <2>5. Settled(l)'
    BY <2>1, <2>2
  <2>6. Connected(l)'
    BY <2>1
  <2>. QED BY <2>3, <2>4, <2>5, <2>6
<1>. QED BY <1>1, <1>2, <1>3, <1>4, <1>5, <1>6, <1>7, <1>8, <1>9, <1>10,
            <1>11, <1>12, <1>13, <1>14, <1>15, <1>16, <1>17, <1>18, <1>19
         DEF Local, Call, CleanupStep

\* A Chrome that stops takes tabs, requests and connections with it.
LEMMA TrackedChrome ==
    ASSUME SessionsOK, NEW s \in Slots, ChromeStops(s) \/ ChromeStarts(s),
           NEW l \in Sessions, Tracked(l)
    PROVE  Tracked(l)'
<1>1. CASE ChromeStarts(s)
  BY <1>1, Frame DEF ChromeStarts, session, Same
<1>2. CASE ChromeStops(s)
  BY <1>2 DEF ChromeStops, SessionsOK, Tracked, OneTab, Held, CanClose,
     Settled, Leftover, Connected
<1>. QED BY <1>1, <1>2

LEMMA StepIInv == IInv /\ [Next]_vars => IInv'
<1>. SUFFICES ASSUME IInv, [Next]_vars PROVE IInv'
  OBVIOUS
<1>1. TypeOK /\ TypeOK' /\ SessionsOK
  BY TypeStep DEF IInv, TypeOK
<1>2. SUFFICES ASSUME NEW m \in Sessions PROVE Tracked(m)'
  BY <1>1 DEF IInv
<1>3. Tracked(m)
  BY DEF IInv
<1>4. CASE UNCHANGED vars
  BY <1>3, <1>4, Frame DEF vars, session, Same
<1>5. ASSUME NEW l \in Sessions, Local(l) PROVE Tracked(m)'
  BY <1>1, <1>3, <1>5, Frame, LocalStep, TrackedStep
<1>6. ASSUME NEW s \in Slots, ChromeStops(s) \/ ChromeStarts(s) PROVE Tracked(m)'
  BY <1>1, <1>3, <1>6, TrackedChrome
<1>. QED BY <1>4, <1>5, <1>6 DEF Next, External, Local

THEOREM Invariant == Spec => []IInv
  BY InitIInv, StepIInv, PTL DEF Spec

\* BrowserSession's variables keep their types, and no creation task is held
\* when nothing awaits it.
THEOREM TypeCorrect == Spec => []TypeOK
  BY Invariant, PTL DEF IInv

\* Wherever the calls of a session are dropped, its cleanup leaves a tab behind
\* only after a creation, connection or close that failed, for any number of
\* sessions and Chrome instances.
THEOREM CleanupComplete == Spec => []NothingLeftUnexplained
<1>1. IInv => NothingLeftUnexplained
  BY DEF IInv, Tracked, Settled, NothingLeftUnexplained
<1>. QED BY <1>1, Invariant, PTL
=============================================================================
