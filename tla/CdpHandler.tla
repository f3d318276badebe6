----------------------------- MODULE CdpHandler -----------------------------
(***************************************************************************)
(* The task that drives one connection to Chrome (chromiumoxide's Handler  *)
(* and the Targets it holds): it takes calls from the Browser and its      *)
(* Pages, sends commands, and hands answers, pages and navigation results  *)
(* back.  A call waits on one oneshot channel; at[c] says who holds the    *)
(* sending half.  Dropping it answers "canceled", and the caller of a Page *)
(* command stops waiting by itself.                                        *)
(*                                                                         *)
(* Chrome may answer, not answer, create, attach, detach and destroy at    *)
(* any time; the frames of a target (FrameManager) are reduced to how far  *)
(* the main one has loaded, a chain of initialization commands to one.     *)
(*                                                                         *)
(* A deadline passes only for a task that looks at the time: between two   *)
(* polls the task sleeps, until a message comes or the timer of its        *)
(* housekeeping (PeriodicJob) wakes it.                                    *)
(***************************************************************************)
EXTENDS Naturals, FiniteSets

CONSTANTS
    Calls,          \* calls of the application, each made once
    Targets,        \* tabs of the browser
    Sessions,       \* sessions Chrome may attach, each once
    Nil,
    HasViewport     \* whether a viewport is configured

ASSUME HandlerAssumption ==
    HasViewport \in BOOLEAN /\ {"unused", Nil} \cap Targets = {}

VARIABLES
    calls,      \* the call: its kind, its target, and its answer
    at,         \* [Calls -> where the sender of the answer is]
    nav,        \* the NavigationRequest and FrameManager state of a goto
    targets,    \* Handler.targets: the record of a target, or Nil
    sessions,   \* Handler.sessions: [Sessions -> Targets, Nil or "unused"]
    handler,    \* "running" or "stopped"
    task        \* "awake": it is polled; asleep: "armed" if the timer of the
                \* sweep has its waker, else "unarmed"

handlerVars == <<calls, at, nav, targets, sessions, handler, task>>

BrowserKinds == {"createPage", "fetchTargets", "execute", "close", "getPage"}
PageKinds == {"command", "element", "navigate", "query", "waitNavigation"}
Kinds == BrowserKinds \cup PageKinds
Stages == {"attach", "frame", "network", "page", "emulation", "ready",
           "closing"}

Known == {t \in Targets : targets[t] # Nil}
Waits(c) == at[c] \notin {"idle", "gone"}

\* A step of poll_next, and the arrival of a message of Chrome, which wakes
\* the task and has it poll everything again.
InPoll == handler = "running" /\ task = "awake" /\ task' = task
Heard == handler = "running" /\ task' = "awake"

\* Target::new.
NewTarget == [stage |-> "attach", waiting |-> FALSE, session |-> Nil,
              page |-> Nil, loaded |-> "none"]

NoNav == [watch |-> "none", sent |-> FALSE, responded |-> FALSE,
          navigated |-> FALSE]

HandlerFresh ==
    /\ calls = [c \in Calls |->
            [kind |-> "none", on |-> Nil, answer |-> "none"]]
    /\ at = [c \in Calls |-> "idle"]
    /\ nav = [c \in Calls |-> NoNav]
    /\ targets = [t \in Targets |-> Nil]
    /\ sessions = [s \in Sessions |-> "unused"]
    /\ handler = "running"
HandlerInit == HandlerFresh /\ task = "awake"

\* The senders of these calls are used or dropped; a caller that gave up
\* keeps the timeout it already returned.
Answered(answer) ==
    [c \in Calls |-> IF c \in DOMAIN answer /\ calls[c].answer = "none"
                     THEN [calls[c] EXCEPT !.answer = answer[c]]
                     ELSE calls[c]]
Gone(S) == [c \in Calls |-> IF c \in S THEN "gone" ELSE at[c]]
Answer(S, what) ==
    /\ calls' = Answered([c \in S |-> what])
    /\ at' = Gone(S)

-----------------------------------------------------------------------------
(* Calls.                                                                  *)

\* Browser::new_page, fetch_targets, execute, close, get_page; a stopped
\* handler has dropped its receiver.
AskBrowser(c, k, t) ==
    /\ at[c] = "idle" /\ k \in BrowserKinds
    /\ calls' = [calls EXCEPT ![c] =
            [kind |-> k, on |-> IF k = "getPage" THEN t ELSE Nil,
             answer |-> IF handler = "running" THEN "none" ELSE "canceled"]]
    /\ at' = [at EXCEPT ![c] = IF handler = "running" THEN "browserq"
                                                       ELSE "gone"]
    /\ task' = "awake"
    /\ UNCHANGED <<nav, targets, sessions, handler>>

\* A page's or an element's execute, goto, url, wait_for_navigation, put into
\* the page's channel, which is polled, and so wakes the task, once the target
\* is initialized.
AskPage(c, k, t) ==
    /\ at[c] = "idle" /\ k \in PageKinds
    /\ t \in Known /\ targets[t].page # Nil
    /\ calls' = [calls EXCEPT ![c] =
                    [kind |-> k, on |-> t, answer |-> "none"]]
    /\ at' = [at EXCEPT ![c] = "pageq"]
    /\ task' = IF targets[t].stage = "ready" THEN "awake" ELSE task
    /\ UNCHANGED <<nav, targets, sessions, handler>>

\* CommandFuture's delay: what a Page executes has one; the Browser's calls,
\* the messages that ask for state and what PageInner executes for an Element
\* have none.
GiveUp(c) ==
    /\ calls[c].kind \in {"command", "navigate"} /\ calls[c].answer = "none"
    /\ calls' = [calls EXCEPT ![c].answer = "timeout"]
    /\ UNCHANGED <<at, nav, targets, sessions, handler, task>>

\* get_or_create_page: the page keeps the session it was created with.
PageOf(r) == IF r.page # Nil THEN r.page ELSE r.session

\* poll_next takes a message of the Browser.
Receive(c) ==
    /\ InPoll /\ at[c] = "browserq"
    /\ LET k == calls[c].kind
           t == calls[c].on
       IN  \/ /\ k # "getPage"
              /\ at' = [at EXCEPT ![c] = "pending"]
              /\ UNCHANGED <<calls, targets>>
           \/ k = "createPage" /\ Answer({c}, "error") /\ UNCHANGED targets
           \/ /\ k = "getPage"
              /\ IF t \in Known /\ PageOf(targets[t]) # Nil
                 THEN /\ Answer({c}, "page")
                      /\ targets' = [targets EXCEPT ![t].page = PageOf(targets[t])]
                 ELSE Answer({c}, "no page") /\ UNCHANGED targets
    /\ UNCHANGED <<nav, sessions, handler>>

-----------------------------------------------------------------------------
(* Target::poll.                                                           *)

Set(t, r) == targets' = [targets EXCEPT ![t] = r]

\* What the last command of a chain leads to.
NextStage(stage) ==
    CASE stage = "frame" -> "network"
      [] stage = "network" -> "page"
      [] stage = "page" -> IF HasViewport THEN "emulation" ELSE "ready"
      [] stage = "emulation" -> "ready"

HasChain(r) == r.stage \in {"frame", "network", "page", "emulation"}

\* The target asks to be attached; then the commands of its stage are sent,
\* the first of them only once a session is there.
InitDue(t) ==
    /\ t \in Known
    /\ LET r == targets[t]
       IN  \/ r.stage = "attach"
           \/ /\ HasChain(r) /\ ~r.waiting
              /\ r.stage = "frame" => r.session # Nil

PollInit(t) ==
    /\ InPoll /\ InitDue(t)
    /\ Set(t, IF targets[t].stage = "attach"
              THEN [targets[t] EXCEPT !.stage = "frame"]
              ELSE [targets[t] EXCEPT !.waiting = TRUE])
    /\ UNCHANGED <<calls, at, nav, sessions, handler>>

\* A chain past its deadline: whoever asked for the page is told, and the
\* target is not polled any more.
ChainExpires(t) ==
    /\ InPoll /\ t \in Known
    /\ HasChain(targets[t]) /\ targets[t].waiting
    /\ targets[t].stage = "frame" => targets[t].session # Nil
    /\ Set(t, [targets[t] EXCEPT !.stage = "closing", !.waiting = FALSE])
    /\ Answer({c \in Calls : at[c] = "initiator" /\ calls[c].on = t},
              "timeout")
    /\ UNCHANGED <<nav, sessions, handler>>

\* What an initialized target hands its page over to, reads from the page's
\* channel and answers.
On(t, place) == {c \in Calls : calls[c].on = t /\ at[c] = place}
IsLoaded(t) == targets[t].loaded = "loaded"
Handed(t) ==
    IF IsLoaded(t) /\ PageOf(targets[t]) # Nil THEN On(t, "initiator") ELSE {}
PageAfter(t) == IF Handed(t) = {} THEN targets[t].page ELSE PageOf(targets[t])
Taken(t) == IF PageAfter(t) = Nil THEN {} ELSE On(t, "pageq")
Settled(t) ==
    (IF IsLoaded(t) THEN On(t, "waiter") ELSE {}) \cup
    {c \in Taken(t) : \/ calls[c].kind = "query"
                      \/ calls[c].kind = "waitNavigation" /\ IsLoaded(t)}
ReadyDue(t) ==
    /\ t \in Known /\ targets[t].stage = "ready"
    /\ Handed(t) \cup Taken(t) \cup Settled(t) # {}

\* An initialized target hands its page over and answers what waits for the
\* main frame, then drains its page's channel; a goto becomes an entry of
\* Handler.navigations and a request of the frame manager.
PollReady(t) ==
    /\ InPoll /\ ReadyDue(t)
    /\ LET r == targets[t]
           hand == Handed(t)
           read == Taken(t)
           done == Settled(t)
           gotos == {c \in read : calls[c].kind = "navigate"}
       IN  /\ calls' = Answered([c \in hand \cup done |->
                            IF c \in hand THEN "page" ELSE "ok"])
           /\ at' = [c \in Calls |->
                CASE c \in hand \cup done -> "gone"
                  [] c \in gotos -> "goto"
                  [] c \in read \ (gotos \cup done) ->
                        IF calls[c].kind \in {"command", "element"} THEN "pending"
                        ELSE "waiter"
                  [] OTHER -> at[c]]
           /\ nav' = [c \in Calls |-> IF c \notin gotos THEN nav[c]
                ELSE [nav[c] EXCEPT !.watch =
                        IF r.loaded = "none" THEN "dropped" ELSE "queued"]]
           /\ Set(t, [r EXCEPT !.page = PageAfter(t)])
    /\ UNCHANGED <<sessions, handler>>

\* FrameManager::poll starts to watch the next navigation: Page.navigate is
\* sent.
GotoDue(c) ==
    /\ nav[c].watch = "queued" /\ calls[c].on \in Known
    /\ \A d \in Calls :
        ~(calls[d].on = calls[c].on /\ nav[d].watch = "watched")

PollGoto(c) ==
    /\ InPoll /\ GotoDue(c)
    /\ nav' = [nav EXCEPT ![c].watch = "watched", ![c].sent = TRUE]
    /\ UNCHANGED <<calls, at, targets, sessions, handler>>

\* Fault: the page that finished loading is enough to answer.
Fault_LoadedIsEnough(c) ==
    /\ InPoll /\ nav[c].watch = "watched"
    /\ calls[c].on \in Known
    /\ nav' = [nav EXCEPT ![c].watch = "over", ![c].navigated = TRUE]
    /\ Answer({c}, "ok")
    /\ UNCHANGED <<targets, sessions, handler>>

\* The frame manager reports the navigation's end
\* (on_navigation_lifecycle_completed): an entry is answered once the
\* command has its response too, and at once by an error.
NavigationEnds(c) ==
    /\ InPoll /\ nav[c].watch = "watched"
    /\ calls[c].on \in Known
    /\ \/ /\ nav' = [nav EXCEPT ![c].watch = "over", ![c].navigated = TRUE]
          /\ IF at[c] = "goto" /\ nav[c].responded THEN Answer({c}, "ok")
             ELSE UNCHANGED <<calls, at>>
       \/ /\ nav' = [nav EXCEPT ![c].watch = "over"]
          /\ IF at[c] = "goto" THEN Answer({c}, "error")
             ELSE UNCHANGED <<calls, at>>
    /\ UNCHANGED <<targets, sessions, handler>>

-----------------------------------------------------------------------------
(* Responses (on_response).                                                *)

\* The chain's command is answered: the next stage follows.
InternalResponse(t) ==
    /\ Heard /\ t \in Known
    /\ HasChain(targets[t]) /\ targets[t].waiting
    /\ Set(t, [targets[t] EXCEPT !.stage = NextStage(@), !.waiting = FALSE])
    /\ UNCHANGED <<calls, at, nav, sessions, handler>>

\* A command's response goes to its caller; Chrome may answer any request
\* with an error.  CloseBrowser also ends the handler (see Stop).
Response(c) ==
    /\ Heard /\ at[c] = "pending"
    /\ \/ calls[c].kind \in {"execute", "command", "element"} /\ Answer({c}, "ok")
       \/ calls[c].kind \in {"createPage", "fetchTargets"}
          /\ Answer({c}, "error")
    /\ UNCHANGED <<nav, targets, sessions, handler>>

\* on_navigation_response: the entry is answered if the page has loaded.
NavigationResponse(c) ==
    /\ Heard /\ nav[c].sent
    /\ nav' = [nav EXCEPT ![c].sent = FALSE,
                          ![c].responded = (at[c] = "goto")]
    /\ IF at[c] = "goto" /\ nav[c].navigated THEN Answer({c}, "ok")
       ELSE UNCHANGED <<calls, at>>
    /\ UNCHANGED <<targets, sessions, handler>>

\* The calls a target holds: they go with it.
HeldBy(t) == {c \in Calls : /\ calls[c].on = t
                            /\ at[c] \in {"initiator", "waiter", "pageq"}}

\* The new target will give its page to the call; an older one loses it.
CreateResponse(c, t) ==
    /\ Heard
    /\ at[c] = "pending" /\ calls[c].kind = "createPage"
    /\ t \in Known
    /\ LET old == {d \in Calls : at[d] = "initiator" /\ calls[d].on = t}
       IN  /\ calls' = [Answered([d \in old |-> "canceled"])
                            EXCEPT ![c].on = t]
           /\ at' = [Gone(old) EXCEPT ![c] = "initiator"]
    /\ UNCHANGED <<nav, targets, sessions, handler>>

\* GetTargets: every target listed is made anew, and what the old one held
\* is dropped.
FetchResponse(c, listed) ==
    /\ Heard
    /\ at[c] = "pending" /\ calls[c].kind = "fetchTargets"
    /\ targets' = [t \in Targets |-> IF t \in listed THEN NewTarget
                                     ELSE targets[t]]
    /\ LET held == UNION {HeldBy(t) : t \in listed}
       IN  /\ calls' = Answered([d \in held \cup {c} |->
                            IF d = c THEN "ok" ELSE "canceled"])
           /\ at' = Gone(held \cup {c})
    /\ nav' = [d \in Calls |-> IF calls[d].on \in listed
                               THEN [nav[d] EXCEPT !.watch = "none"]
                               ELSE nav[d]]
    /\ UNCHANGED <<sessions, handler>>

\* The task ends and everything it holds is dropped: after the answer to
\* CloseBrowser, on a broken connection, or with the panic at a created
\* target that is not there.
Stop ==
    /\ Heard /\ handler' = "stopped"
    /\ \E closed \in {{}} \cup {{c} : c \in {d \in Calls :
                        at[d] = "pending" /\ calls[d].kind = "close"}} :
         LET held == {c \in Calls : Waits(c)}
         IN  /\ calls' = Answered([c \in held |->
                            IF c \in closed THEN "ok" ELSE "canceled"])
             /\ at' = Gone(held)
    /\ nav' = [c \in Calls |-> [nav[c] EXCEPT !.watch = "none",
                                              !.sent = FALSE]]
    /\ targets' = [t \in Targets |-> Nil]
    /\ sessions' = [s \in Sessions |-> IF sessions[s] = "unused"
                                       THEN "unused" ELSE Nil]

\* The housekeeping forgets one kind of entry.
Fault_EvictCommandsOnly(c) ==
    /\ InPoll
    /\ at[c] = "pending" /\ calls[c].kind \in {"execute", "command", "element"}
    /\ Answer({c}, "timeout")
    /\ UNCHANGED <<nav, targets, sessions, handler>>

\* evict_timed_out_commands; a timed out Page.navigate takes the entry of its
\* navigation along, and the frame manager watches on.
Evict(c) ==
    /\ InPoll
    /\ \/ at[c] = "pending" /\ Answer({c}, "timeout") /\ UNCHANGED nav
       \/ /\ nav[c].sent
          /\ nav' = [nav EXCEPT ![c].sent = FALSE]
          /\ IF at[c] = "goto" THEN Answer({c}, "timeout")
             ELSE UNCHANGED <<calls, at>>
    /\ UNCHANGED <<targets, sessions, handler>>

\* The poll is over when nothing is left to do and to read.  Last of all the
\* sweep's timer is polled: it keeps the task's waker, or, if its time was
\* up, it is reset, and a timer that is reset has no waker until it is polled
\* again (PeriodicJob::poll_ready).
Sleep ==
    /\ handler = "running" /\ task = "awake"
    /\ \A c \in Calls : at[c] # "browserq" /\ ~GotoDue(c)
    /\ \A t \in Targets : ~InitDue(t) /\ ~ReadyDue(t)
    /\ task' \in {"armed", "unarmed"}
    /\ UNCHANGED <<calls, at, nav, targets, sessions, handler>>

TimerWakes ==
    /\ handler = "running" /\ task = "armed" /\ task' = "awake"
    /\ UNCHANGED <<calls, at, nav, targets, sessions, handler>>

-----------------------------------------------------------------------------
(* Events (on_event).                                                      *)

\* A message that changes nothing here wakes the task like any other.
Overheard == Heard /\ UNCHANGED <<calls, at, nav, targets, sessions, handler>>

Created(t) ==
    /\ Heard /\ t \notin Known
    /\ Set(t, NewTarget)
    /\ UNCHANGED <<calls, at, nav, sessions, handler>>

\* A session may be attached to a target the handler does not know.
Attached(s, t) ==
    /\ Heard /\ sessions[s] = "unused"
    /\ sessions' = [sessions EXCEPT ![s] = t]
    /\ IF t \in Known THEN Set(t, [targets[t] EXCEPT !.session = s])
       ELSE UNCHANGED targets
    /\ UNCHANGED <<calls, at, nav, handler>>

\* Fault: the session's target keeps it.
Fault_DetachSessionOnly(s) ==
    /\ Heard /\ sessions[s] \in Targets
    /\ sessions' = [sessions EXCEPT ![s] = Nil]
    /\ UNCHANGED <<calls, at, nav, targets, handler>>

\* Whichever of its sessions is detached, the target has none then.
Detached(s) ==
    /\ Heard /\ sessions[s] \in Targets
    /\ sessions' = [sessions EXCEPT ![s] = Nil]
    /\ IF sessions[s] \in Known
       THEN Set(sessions[s], [targets[sessions[s]] EXCEPT !.session = Nil])
       ELSE UNCHANGED targets
    /\ UNCHANGED <<calls, at, nav, handler>>

\* The target is dropped with what it holds; the entries of its navigations
\* stay in the handler, which will not hear of them again.
Destroyed(t) ==
    /\ Heard /\ t \in Known
    /\ Set(t, Nil)
    /\ sessions' = [s \in Sessions |-> IF targets[t].session = s THEN Nil
                                       ELSE sessions[s]]
    /\ Answer(HeldBy(t), "canceled")
    /\ nav' = [c \in Calls |-> IF calls[c].on = t
                               THEN [nav[c] EXCEPT !.watch = "none"]
                               ELSE nav[c]]
    /\ UNCHANGED handler

\* Events of the page come with a session and go to its target.
PageLoads(t, how) ==
    /\ Heard /\ t \in Known
    /\ \E s \in Sessions : sessions[s] = t
    /\ targets[t].loaded # how
    /\ Set(t, [targets[t] EXCEPT !.loaded = how])
    /\ UNCHANGED <<calls, at, nav, sessions, handler>>

HandlerNext ==
    \/ \E c \in Calls :
        \/ \E t \in Targets : \/ \E k \in BrowserKinds : AskBrowser(c, k, t)
                              \/ \E k \in PageKinds : AskPage(c, k, t)
                              \/ CreateResponse(c, t)
        \/ GiveUp(c) \/ Receive(c) \/ PollGoto(c) \/ NavigationEnds(c)
        \/ Response(c) \/ NavigationResponse(c) \/ Evict(c)
        \/ \E listed \in SUBSET Targets : FetchResponse(c, listed)
    \/ \E t \in Targets :
        \/ PollInit(t) \/ ChainExpires(t) \/ PollReady(t)
        \/ InternalResponse(t) \/ Created(t) \/ Destroyed(t)
        \/ \E s \in Sessions : Attached(s, t)
        \/ \E how \in {"loading", "loaded"} : PageLoads(t, how)
    \/ \E s \in Sessions : Detached(s)
    \/ Stop \/ Sleep \/ TimerWakes \/ Overheard

\* A poll does what there is to do before it ends, an armed timer wakes the
\* task, and the caller's own delay fires.  What a deadline ends is found by
\* one of the polls after it, if there are any: it is as fair as the task is
\* awake again and again.  (A call is timed out or ends its navigation once,
\* so the calls share a condition.)  Chrome owes nothing.
HandlerFairness ==
    /\ WF_handlerVars(Sleep)
    /\ WF_handlerVars(TimerWakes)
    /\ WF_handlerVars(\E c \in Calls : GiveUp(c))
    /\ \A c \in Calls : WF_handlerVars(Receive(c)) /\ WF_handlerVars(PollGoto(c))
    /\ \A t \in Targets : /\ WF_handlerVars(PollInit(t))
                          /\ WF_handlerVars(PollReady(t))
                          /\ SF_handlerVars(ChainExpires(t))
    /\ SF_handlerVars(\E c \in Calls : Evict(c) \/ NavigationEnds(c))

HandlerSpec == HandlerInit /\ [][HandlerNext]_handlerVars
HandlerFairSpec == HandlerSpec /\ HandlerFairness

-----------------------------------------------------------------------------
(* Properties.                                                             *)

HandlerTypeOK ==
    /\ calls \in [Calls -> [kind : Kinds \cup {"none"},
                            on : Targets \cup {Nil},
                            answer : {"none", "ok", "page", "no page",
                                      "error", "timeout", "canceled"}]]
    /\ at \in [Calls -> {"idle", "browserq", "pageq", "pending",
                         "initiator", "waiter", "goto", "gone"}]
    /\ nav \in [Calls -> [watch : {"none", "queued", "watched", "dropped",
                                   "over"},
                          sent : BOOLEAN, responded : BOOLEAN,
                          navigated : BOOLEAN]]
    /\ \A t \in Known :
        targets[t] \in [stage : Stages, waiting : BOOLEAN,
                        session : Sessions \cup {Nil},
                        page : Sessions \cup {Nil},
                        loaded : {"none", "loading", "loaded"}]
    /\ sessions \in [Sessions -> Targets \cup {Nil, "unused"}]
    /\ handler \in {"running", "stopped"}
    /\ task \in {"awake", "armed", "unarmed"}

\* Events reach a target only through Handler.sessions: the session a target
\* takes for its own is registered there, and for this target.
SessionReachesTarget ==
    \A t \in Known : targets[t].session # Nil =>
        sessions[targets[t].session] = t

\* A goto succeeds exactly when both halves of it are in, in either order:
\* the response to the command and the end of the navigation.  An entry that
\* had both and stayed would wait for ever, as nothing more will come.
GotoNeedsBothHalves ==
    \A c \in Calls :
        LET both == nav[c].responded /\ nav[c].navigated
        IN  calls[c].kind = "navigate" =>
                /\ calls[c].answer = "ok" => both
                /\ both => at[c] = "gone"

\* What has no deadline: a page that is asked for waits for Chrome to attach
\* a session or load the page, or for the target that failed to go away; a
\* wait for a navigation, for the page to load; and a message to a page, for
\* the target to be initialized.
NoDeadline(c) ==
    /\ at[c] \in {"initiator", "waiter", "pageq"}
    /\ LET r == targets[calls[c].on]
       IN  \/ r.stage = "closing"
           \/ r.stage = "frame" /\ r.session = Nil
           \/ /\ r.stage = "ready" /\ at[c] # "pageq"
              /\ (r.loaded # "loaded" \/ PageOf(r) = Nil)

\* The sweep has reset its timer and nobody speaks to the handler: what only
\* a deadline can end waits on, until something else wakes the task.
Overslept(c) ==
    /\ handler = "running" /\ task = "unarmed"
    /\ \/ at[c] \in {"pending", "goto"}
       \/ at[c] \in {"initiator", "pageq"} /\ targets[calls[c].on].waiting

\* Every call ends, whatever Chrome does or does not, except while it is at
\* one of the waits above, or if the handler sleeps for good with its timer
\* unarmed and the call's deadline still to be looked at.
CallsEnd ==
    \A c \in Calls :
        \/ []<>(at[c] = "idle" \/ calls[c].answer # "none" \/ NoDeadline(c))
        \/ <>[]Overslept(c)

\* "The duration after a request with no response should time out"
\* (request_timeout, browser/config.rs): no request is pending for ever.
RequestsTimeOut ==
    \A c \in Calls : at[c] = "pending" ~> at[c] # "pending"
=============================================================================
