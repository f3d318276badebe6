--------------------------- MODULE BrowserSession ---------------------------
(***************************************************************************)
(* ChromiumOxideBrowserSession: one login's hold on a Chrome instance, its *)
(* CDP connection, the one tab it opens there, and the detached cleanup    *)
(* that closes the tab.  Chrome is external: it opens a requested tab at   *)
(* any later time, also when nobody waits for the answer any more; it may  *)
(* stop, which closes its tabs, and connections to it may drop without it. *)
(***************************************************************************)
CONSTANTS Sessions, Slots

VARIABLES phase,    \* where the session is
          place,    \* the slot whose Chrome it uses
          conn,     \* its connection: none, up, or down (held but dead)
          creation, \* its page_creation task
          target,   \* whether it knows the id of its tab
          request,  \* whether Chrome still has its CreateTarget command
          tab,      \* its tab in Chrome
          chrome,   \* whether the Chrome of each slot runs
          lost      \* history: the steps at which its tab may have been lost

session == <<phase, place, conn, creation, target, lost>>
vars == <<session, request, tab, chrome>>

Live == {"open", "creating", "attaching", "page", "reconnecting", "failed"}
Cleanup == {"await_creation", "reopen", "close_tab"}

Init ==
    /\ phase = [l \in Sessions |-> "new"]
    /\ place \in [Sessions -> Slots]
    /\ conn = [l \in Sessions |-> "none"]
    /\ creation = [l \in Sessions |-> "none"]
    /\ target = [l \in Sessions |-> FALSE]
    /\ request = [l \in Sessions |-> FALSE]
    /\ tab = [l \in Sessions |-> "none"]
    /\ chrome = [s \in Slots |-> TRUE]
    /\ lost = [l \in Sessions |-> {}]

Goto(l, step) == phase' = [phase EXCEPT ![l] = step]
Loses(l, how) == lost' = [lost EXCEPT ![l] = @ \cup {how}]
Set(f, l, value) == [f EXCEPT ![l] = value]

-----------------------------------------------------------------------------
(* Chrome and the network.                                                 *)

OpenTab(l) ==
    /\ request[l]
    /\ chrome[place[l]]
    /\ request' = Set(request, l, FALSE)
    /\ tab' = Set(tab, l, "open")
    /\ UNCHANGED <<session, chrome>>

\* Chrome answers with an error, or the socket closed before it read the
\* command.
DiscardRequest(l) ==
    /\ request[l]
    /\ request' = Set(request, l, FALSE)
    /\ UNCHANGED <<session, tab, chrome>>

\* The user or the site closes the tab.
TabCloses(l) ==
    /\ tab[l] = "open"
    /\ tab' = Set(tab, l, "closed")
    /\ UNCHANGED <<session, request, chrome>>

ConnectionDrops(l) ==
    /\ conn[l] = "up"
    /\ conn' = Set(conn, l, "down")
    /\ UNCHANGED <<phase, place, creation, target, lost, request, tab, chrome>>

ChromeStops(s) ==
    /\ chrome[s]
    /\ chrome' = [chrome EXCEPT ![s] = FALSE]
    /\ conn' = [l \in Sessions |->
                    IF place[l] = s /\ conn[l] = "up" THEN "down" ELSE conn[l]]
    /\ tab' = [l \in Sessions |->
                    IF place[l] = s /\ tab[l] = "open" THEN "closed" ELSE tab[l]]
    /\ request' = [l \in Sessions |-> request[l] /\ place[l] # s]
    /\ UNCHANGED <<phase, place, creation, target, lost>>

ChromeStarts(s) ==
    /\ ~chrome[s]
    /\ chrome' = [chrome EXCEPT ![s] = TRUE]
    /\ UNCHANGED <<session, request, tab>>

-----------------------------------------------------------------------------
(* The session.                                                            *)

\* PooledBrowserFactory::session, with the connection acquire has just made.
Open(l) ==
    /\ phase[l] = "new"
    /\ chrome[place[l]]
    /\ Goto(l, "open")
    /\ conn' = Set(conn, l, "up")
    /\ UNCHANGED <<place, creation, target, lost, request, tab, chrome>>

\* Fault: the future of new_page itself sends the command and waits.
Fault_NewPageInline(l) ==
    /\ phase[l] = "open"
    /\ Goto(l, "creating")
    /\ request' = Set(request, l, conn[l] = "up")
    /\ UNCHANGED <<place, conn, creation, target, lost, tab, chrome>>

\* new_page spawns the task that sends CreateTarget.
NewPage(l) ==
    /\ phase[l] = "open"
    /\ Goto(l, "creating")
    /\ creation' = Set(creation, l, "running")
    /\ request' = Set(request, l, conn[l] = "up")
    /\ UNCHANGED <<place, conn, target, lost, tab, chrome>>

CreationAnswers(l) ==
    /\ creation[l] = "running"
    /\ conn[l] = "up"
    /\ tab[l] # "none"
    /\ creation' = Set(creation, l, "answered")
    /\ UNCHANGED <<phase, place, conn, target, lost, request, tab, chrome>>

\* The connection is dead, the command timed out, or Chrome refused.
CreationFails(l) ==
    /\ creation[l] = "running"
    /\ creation' = Set(creation, l, "failed")
    /\ Loses(l, "creation")
    /\ UNCHANGED <<phase, place, conn, target, request, tab, chrome>>

\* finish_page_creation: the task is gone before its result is looked at.
FinishPageCreation(l) ==
    /\ phase[l] = "creating"
    /\ creation[l] \in {"answered", "failed"}
    /\ creation' = Set(creation, l, "none")
    /\ target' = Set(target, l, creation[l] = "answered")
    /\ Goto(l, IF creation[l] = "answered" THEN "attaching" ELSE "failed")
    /\ UNCHANGED <<place, conn, lost, request, tab, chrome>>

Attach(l) ==
    /\ phase[l] = "attaching"
    /\ conn[l] = "up"
    /\ tab[l] = "open"
    /\ Goto(l, "page")
    /\ UNCHANGED <<place, conn, creation, target, lost, request, tab, chrome>>

\* reconnect takes and shuts down the old connection before it has a new one.
StartReconnect(l) ==
    /\ phase[l] = "page"
    /\ conn' = Set(conn, l, "none")
    /\ Goto(l, "reconnecting")
    /\ UNCHANGED <<place, creation, target, lost, request, tab, chrome>>

\* The new connection must find the tab it had.
Reconnect(l) ==
    /\ phase[l] = "reconnecting"
    /\ chrome[place[l]]
    /\ tab[l] = "open"
    /\ conn' = Set(conn, l, "up")
    /\ Goto(l, "page")
    /\ UNCHANGED <<place, creation, target, lost, request, tab, chrome>>

ReconnectFails(l) ==
    /\ phase[l] = "reconnecting"
    /\ Goto(l, "failed")
    /\ UNCHANGED <<place, conn, creation, target, lost, request, tab, chrome>>

-----------------------------------------------------------------------------
(* close, or the drop of the session, and the cleanup it spawns.           *)

\* A session that owns a tab and has no connection opens one to close it.
AfterCreation(l, known) ==
    IF known /\ conn[l] = "none" THEN "reopen" ELSE "close_tab"

\* Whatever call of the session was pending has been dropped.
Close(l) ==
    /\ phase[l] \in Live
    /\ Goto(l, IF creation[l] # "none" THEN "await_creation"
               ELSE AfterCreation(l, target[l]))
    /\ UNCHANGED <<place, conn, creation, target, lost, request, tab, chrome>>

AwaitCreation(l) ==
    /\ phase[l] = "await_creation"
    /\ creation[l] \in {"answered", "failed"}
    /\ creation' = Set(creation, l, "none")
    /\ target' = Set(target, l, creation[l] = "answered")
    /\ Goto(l, AfterCreation(l, creation[l] = "answered"))
    /\ UNCHANGED <<place, conn, lost, request, tab, chrome>>

\* Fault: the task is awaited without a timeout.
Fault_AbortNever(l) == FALSE /\ UNCHANGED vars

\* No answer within SESSION_CLOSE_TIMEOUT.
AbortCreation(l) ==
    /\ phase[l] = "await_creation"
    /\ creation[l] = "running"
    /\ creation' = Set(creation, l, "none")
    /\ Loses(l, "creation")
    /\ Goto(l, "close_tab")
    /\ UNCHANGED <<place, conn, target, request, tab, chrome>>

Reopen(l) ==
    /\ phase[l] = "reopen"
    /\ chrome[place[l]]
    /\ tab[l] = "open"
    /\ conn' = Set(conn, l, "up")
    /\ Goto(l, "close_tab")
    /\ UNCHANGED <<place, creation, target, lost, request, tab, chrome>>

ReopenFails(l) ==
    /\ phase[l] = "reopen"
    /\ Loses(l, "reopen")
    /\ Goto(l, "close_tab")
    /\ UNCHANGED <<place, conn, creation, target, request, tab, chrome>>

\* CloseTarget succeeds, fails or takes too long; without a connection or a
\* known tab it is not sent.  Then the connection is shut down.
CloseTab(l) ==
    /\ phase[l] = "close_tab"
    /\ \/ /\ target[l] /\ conn[l] = "up"
          /\ tab' = Set(tab, l, "closed")
          /\ UNCHANGED lost
       \/ /\ target[l] /\ conn[l] # "none"
          /\ Loses(l, IF conn[l] = "up" THEN "close" ELSE "dead_connection")
          /\ UNCHANGED tab
       \/ /\ ~target[l] \/ conn[l] = "none"
          /\ UNCHANGED <<tab, lost>>
    /\ conn' = Set(conn, l, "none")
    /\ Goto(l, "closed")
    /\ UNCHANGED <<place, creation, target, request, chrome>>

External ==
    \/ \E l \in Sessions :
        \/ OpenTab(l) \/ DiscardRequest(l) \/ TabCloses(l)
        \/ CreationAnswers(l) \/ CreationFails(l) \/ ConnectionDrops(l)
    \/ \E s \in Slots : ChromeStops(s) \/ ChromeStarts(s)

Call(l) ==
    \/ NewPage(l) \/ FinishPageCreation(l) \/ Attach(l)
    \/ StartReconnect(l) \/ Reconnect(l) \/ ReconnectFails(l)

CleanupStep(l) ==
    \/ AwaitCreation(l) \/ AbortCreation(l) \/ Reopen(l) \/ ReopenFails(l)

Next ==
    \/ External
    \/ \E l \in Sessions :
        Open(l) \/ Call(l) \/ Close(l) \/ CleanupStep(l) \/ CloseTab(l)

Spec == Init /\ [][Next]_vars

\* Every await of the cleanup has its timeout.
CleanupFairness ==
    \A l \in Sessions : WF_vars(CleanupStep(l)) /\ WF_vars(CloseTab(l))

FairSpec == Spec /\ CleanupFairness

-----------------------------------------------------------------------------
(* Properties.                                                             *)

\* Types, and that a page creation is held only while something awaits it.
SessionsOK ==
    /\ phase \in [Sessions -> {"new", "closed"} \cup Live \cup Cleanup]
    /\ conn \in [Sessions -> {"none", "up", "down"}]
    /\ creation \in [Sessions -> {"none", "running", "answered", "failed"}]
    /\ target \in [Sessions -> BOOLEAN]
    /\ request \in [Sessions -> BOOLEAN]
    /\ tab \in [Sessions -> {"none", "open", "closed"}]
    /\ chrome \in [Slots -> BOOLEAN]
    /\ lost \in [Sessions ->
                    SUBSET {"creation", "reopen", "close", "dead_connection"}]
    /\ \A l \in Sessions : creation[l] # "none" =>
            phase[l] \in {"creating", "await_creation"}

TypeOK == SessionsOK /\ place \in [Sessions -> Slots]

Leftover(l) == request[l] \/ tab[l] = "open"

\* A session that is over leaves no tab in Chrome, open or about to open,
\* unless a step that had to fail did: the creation never answered, a
\* connection to close it could not be had or was dead, or Chrome would not
\* close it.  No point at which a call is dropped adds to these.
NothingLeftUnexplained ==
    \A l \in Sessions : phase[l] = "closed" /\ Leftover(l) => lost[l] # {}

\* The cleanup comes to its end, and with it the permit to its release.
CleanupEnds ==
    \A l \in Sessions : phase[l] \in Cleanup ~> phase[l] = "closed"

\* The comment in shutdown, browser_factory.rs:360: a caller-side timeout
\* "cannot strand an owned login target: the task finishes closing the tab".
\* Here: unless Chrome fails to answer a creation, a connection or a close.
OwnedTargetIsClosed ==
    \A l \in Sessions : phase[l] = "closed" /\ tab[l] = "open" =>
        lost[l] \cap {"creation", "reopen", "close"} # {}
=============================================================================
