------------------------------- MODULE Login -------------------------------
(***************************************************************************)
(* The login use case: one task per Login RPC (LoginUseCase::execute), the *)
(* admission semaphore in front of it (AuthGrpcService::login), the event  *)
(* stream to the client, and the SQLite tables it writes.                  *)
(*                                                                         *)
(* A task awaits one thing at a time; pc names the await it is in.  Every  *)
(* await is either under LoginControl::run (a biased select of: client     *)
(* gone, deadline, the operation, the stored row deleted) or under the 5 s *)
(* CLEANUP_TIMEOUT.  A statement whose future is dropped or timed out may  *)
(* already be with SQLite: it stays in inflight and lands later, in any    *)
(* order, or never.  The browser is reduced to the results its calls give; *)
(* module BrowserPool models what is behind them.                          *)
(***************************************************************************)
EXTENDS Naturals, Sequences, FiniteSets

CONSTANTS Logins,           \* Login RPCs; each gets a fresh session id
          Platforms,
          ChromeSlots,      \* number of configured CDP endpoints
          MaxPendingLogins, \* logins that may queue for a browser
          MaxPermits,       \* Semaphore::MAX_PERMITS
          MaxErrors,        \* MAX_ERRORS_BEFORE_RECONNECT
          Rechecks,         \* reads of the row after save_login timed out
          MaxCrashes        \* bound on server crashes in one behaviour

ASSUME LoginAssumption ==
    /\ ChromeSlots \in Nat \ {0}
    /\ MaxPendingLogins \in Nat
    /\ MaxPermits \in Nat \ {0}
    /\ MaxErrors \in Nat \ {0}
    /\ Rechecks \in Nat \ {0}
    /\ MaxCrashes \in Nat

VARIABLES pc,       \* the await each task is in
          platform, \* the platform each request names
          admitted, \* logins holding a permit of login_capacity
          closed,   \* the client dropped the event stream
          stream,   \* statuses sent to the client, in order
          expired,  \* the deadline of the task's current LoginControl fired
          errors,   \* consecutive cookie-poll errors
          tries,    \* rechecks left after save_login timed out
          error,    \* the LoginFailure the task ended with, or "none"
          row,      \* sessions table: the stored status
          jar,      \* cookies table: the logins whose cookies were upserted
          inflight, \* statements their caller no longer waits for
          crashes

client == <<closed, stream>>
task == <<pc, expired, errors, tries, error>>
store == <<row, jar, inflight>>
vars == <<client, task, store, platform, admitted, crashes>>

SessionState == {"idle", "loading", "authenticating", "waiting_for_user",
                 "connected", "failed"}

\* The statuses save_login may complete: the ones of a login still going on.
Open == {"idle", "loading", "authenticating", "waiting_for_user"}

Failure == {"cancelled", "timed_out", "operation", "persistence"}

\* What a client of GetStatus finds: a status, no row yet, or a row deleted.
Row == SessionState \cup {"absent", "deleted"}

\* Awaits under LoginControl::run, before and after the browser is acquired.
BeforeBrowser == {"started", "acquire"}
Loop == {"get", "poll", "pause", "reconnect"}
InBrowser == {"new_page", "loading", "navigate", "waiting", "send_waiting"}
             \cup Loop
\* Fault: the reconnect is awaited outside LoginControl::run.
Fault_ReconnectUncontrolled ==
    BeforeBrowser \cup (InBrowser \ {"reconnect"})

Controlled == BeforeBrowser \cup InBrowser

\* Awaits bounded by CLEANUP_TIMEOUT instead.
Bounded == {"create", "save", "recheck", "close", "fail", "final"}

Running == Controlled \cup Bounded
Await == Running \cup {"new", "refused", "done", "crashed"}

Capacity == IF ChromeSlots + MaxPendingLogins < MaxPermits
            THEN ChromeSlots + MaxPendingLogins ELSE MaxPermits

Init ==
    /\ platform \in [Logins -> Platforms]
    /\ pc = [l \in Logins |-> "new"]
    /\ admitted = {}
    /\ closed = [l \in Logins |-> FALSE]
    /\ stream = [l \in Logins |-> << >>]
    /\ expired = [l \in Logins |-> FALSE]
    /\ errors = [l \in Logins |-> 0]
    /\ tries = [l \in Logins |-> Rechecks]
    /\ error = [l \in Logins |-> "none"]
    /\ row = [l \in Logins |-> "absent"]
    /\ jar = [p \in Platforms |-> {}]
    /\ inflight = [l \in Logins |-> {}]
    /\ crashes = 0

-----------------------------------------------------------------------------
(* The store: what one statement does when SQLite executes it.             *)

InsertRow(l) ==
    /\ row' = [row EXCEPT ![l] = IF @ = "absent" THEN "idle" ELSE @]
    /\ UNCHANGED jar

\* Fault: the update is an upsert.
Fault_UpsertRow(l, status) ==
    /\ row' = [row EXCEPT ![l] = status]
    /\ UNCHANGED jar

\* UPDATE ... WHERE id: whatever the status was, nothing if the row is gone.
UpdateRow(l, status) ==
    /\ row' = [row EXCEPT ![l] = IF @ \in SessionState THEN status ELSE @]
    /\ UNCHANGED jar

\* Fault: the status is updated before, and outside, the cookie transaction.
Fault_CommitWithoutCookies(l) ==
    /\ row' = [row EXCEPT ![l] = IF @ \in Open THEN "connected" ELSE @]
    /\ UNCHANGED jar

\* Fault: the UPDATE of save_login lacks its "status IN" condition.
Fault_CommitTerminalRow(l) ==
    IF row[l] \in SessionState
    THEN /\ row' = [row EXCEPT ![l] = "connected"]
         /\ jar' = [jar EXCEPT ![platform[l]] = @ \cup {l}]
    ELSE UNCHANGED <<row, jar>>

\* The save_login transaction: cookies and status together, or rollback.
CommitLogin(l) ==
    IF row[l] \in Open
    THEN /\ row' = [row EXCEPT ![l] = "connected"]
         /\ jar' = [jar EXCEPT ![platform[l]] = @ \cup {l}]
    ELSE UNCHANGED <<row, jar>>

\* Statements are named by the status they write.
Execute(l, stmt) ==
    \/ stmt = "idle" /\ InsertRow(l)
    \/ stmt \in {"loading", "waiting_for_user", "failed"} /\ UpdateRow(l, stmt)
    \/ stmt = "connected" /\ CommitLogin(l)

Abandon(l, stmts) == inflight' = [inflight EXCEPT ![l] = @ \cup stmts]

\* A statement nobody waits for any more takes effect ...
Land(l) ==
    \E stmt \in inflight[l] :
        /\ Execute(l, stmt)
        /\ inflight' = [inflight EXCEPT ![l] = @ \ {stmt}]
        /\ UNCHANGED <<client, task, platform, admitted, crashes>>

\* ... or never reaches a connection, or fails there.
Discard(l) ==
    \E stmt \in inflight[l] :
        /\ inflight' = [inflight EXCEPT ![l] = @ \ {stmt}]
        /\ UNCHANGED <<client, task, row, jar, platform, admitted, crashes>>

-----------------------------------------------------------------------------
(* Admission and task control.                                             *)

Goto(l, await) == pc' = [pc EXCEPT ![l] = await]
Send(l, status) == stream' = [stream EXCEPT ![l] = Append(@, status)]

\* Fault: one permit too many.
Fault_LoginOverCapacity(l) ==
    /\ pc[l] = "new"
    /\ Cardinality(admitted) <= Capacity
    /\ admitted' = admitted \cup {l}
    /\ Goto(l, "create")
    /\ UNCHANGED <<client, store, expired, errors, tries, error, platform, crashes>>

Login(l) ==
    /\ pc[l] = "new"
    /\ Cardinality(admitted) < Capacity
    /\ admitted' = admitted \cup {l}
    /\ Goto(l, "create")
    /\ UNCHANGED <<client, store, expired, errors, tries, error, platform, crashes>>

\* RESOURCE_EXHAUSTED: no task, no session.
Refuse(l) ==
    /\ pc[l] = "new"
    /\ Cardinality(admitted) >= Capacity
    /\ Goto(l, "refused")
    /\ UNCHANGED <<client, store, expired, errors, tries, error, platform,
                   admitted, crashes>>

\* The operation of a select in LoginControl::run wins only while the client
\* listens and the deadline has not fired: the select is biased.
OperationWins(l) == ~closed[l] /\ ~expired[l]

\* The task leaves login_in_browser, or the steps before it, with a failure.
Leave(l, failure) ==
    /\ error' = [error EXCEPT ![l] = failure]
    /\ Goto(l, IF pc[l] \in BeforeBrowser THEN "fail" ELSE "close")

\* The statement a dropped operation may leave behind.
Dropped(l) == {stmt \in {"loading", "waiting_for_user"} :
                    pc[l] = IF stmt = "loading" THEN "loading" ELSE "waiting"}

\* Fault: no wait_cancelled branch.
Fault_AbortUncancelled(l) ==
    /\ pc[l] \in Controlled
    /\ \/ closed[l] /\ Leave(l, "cancelled")
       \/ ~closed[l] /\ expired[l] /\ Leave(l, "timed_out")
    /\ Abandon(l, Dropped(l))
    /\ UNCHANGED <<client, expired, errors, tries, row, jar, platform,
                   admitted, crashes>>

\* LoginControl::run drops its operation and returns Cancelled or TimedOut.
Abort(l) ==
    /\ pc[l] \in Controlled
    /\ \/ closed[l] /\ Leave(l, "cancelled")
       \/ ~closed[l] /\ expired[l] /\ Leave(l, "timed_out")
       \/ OperationWins(l) /\ row[l] = "deleted" /\ Leave(l, "cancelled")
    /\ Abandon(l, Dropped(l))
    /\ UNCHANGED <<client, expired, errors, tries, row, jar, platform,
                   admitted, crashes>>

\* The operation itself fails, having changed nothing, and `?` returns it.
\* Sends cannot fail while the client listens; a failed poll goes to
\* PollCookies.
OperationFails(l) ==
    /\ pc[l] \in {"acquire", "new_page", "loading", "navigate", "waiting",
                  "get", "reconnect"}
    /\ OperationWins(l)
    /\ Leave(l, "operation")
    /\ UNCHANGED <<client, store, expired, errors, tries, platform, admitted,
                   crashes>>

DeadlineExpires(l) ==
    /\ pc[l] \in Controlled
    /\ ~expired[l]
    /\ expired' = [expired EXCEPT ![l] = TRUE]
    /\ UNCHANGED <<client, store, pc, errors, tries, error, platform, admitted,
                   crashes>>

-----------------------------------------------------------------------------
(* LoginUseCase::execute and login_in_browser.                             *)

\* Fault: a failed INSERT returns like a client that left.
Fault_CreateSilently(l) ==
    /\ pc[l] = "create"
    /\ Goto(l, "done")
    /\ admitted' = admitted \ {l}
    /\ error' = [error EXCEPT ![l] = "operation"]
    /\ UNCHANGED <<client, store, expired, errors, tries, platform, crashes>>

\* The client goes first in the select: the task then ends without an event.
\* Otherwise the INSERT succeeds, fails, or is still running after 5 s.
CreateSession(l) ==
    /\ pc[l] = "create"
    /\ \/ /\ closed[l]
          /\ Goto(l, "done")
          /\ admitted' = admitted \ {l}
          /\ error' = [error EXCEPT ![l] = "cancelled"]
          /\ Abandon(l, {"idle"})
          /\ UNCHANGED <<row, jar>>
       \/ /\ ~closed[l]
          /\ InsertRow(l)
          /\ Goto(l, "started")
          /\ UNCHANGED <<admitted, error, inflight>>
       \/ /\ ~closed[l]
          /\ Goto(l, "final")
          /\ error' = [error EXCEPT ![l] = "operation"]
          /\ \E stmts \in {{}, {"idle"}} : Abandon(l, stmts)
          /\ UNCHANGED <<admitted, row, jar>>
    /\ UNCHANGED <<client, expired, errors, tries, platform, crashes>>

SendStarted(l) ==
    /\ pc[l] = "started"
    /\ OperationWins(l)
    /\ Send(l, "idle")
    /\ Goto(l, "acquire")
    /\ UNCHANGED <<closed, store, expired, errors, tries, error, platform,
                   admitted, crashes>>

\* Browser calls whose success only moves the task on.
BrowserCall(l, await, next) ==
    /\ pc[l] = await
    /\ OperationWins(l)
    /\ Goto(l, next)
    /\ UNCHANGED <<client, store, expired, errors, tries, error, platform,
                   admitted, crashes>>

AcquireBrowser(l) == BrowserCall(l, "acquire", "new_page")
NewPage(l) == BrowserCall(l, "new_page", "loading")
Navigate(l) == BrowserCall(l, "navigate", "waiting")

StoreTransition(l, await, status, next) ==
    /\ pc[l] = await
    /\ OperationWins(l)
    /\ UpdateRow(l, status)
    /\ Goto(l, next)
    /\ UNCHANGED <<client, inflight, expired, errors, tries, error, platform,
                   admitted, crashes>>

UpdateLoading(l) == StoreTransition(l, "loading", "loading", "navigate")
UpdateWaiting(l) == StoreTransition(l, "waiting", "waiting_for_user", "send_waiting")

\* The user-login control starts here, with a deadline and counter of its own.
SendWaiting(l) ==
    /\ pc[l] = "send_waiting"
    /\ OperationWins(l)
    /\ Send(l, "waiting_for_user")
    /\ Goto(l, "get")
    /\ errors' = [errors EXCEPT ![l] = 0]
    /\ expired' = [expired EXCEPT ![l] = FALSE]
    /\ UNCHANGED <<closed, store, tries, error, platform, admitted, crashes>>

GetSession(l) ==
    /\ pc[l] = "get"
    /\ OperationWins(l)
    /\ IF row[l] \in SessionState
       THEN Goto(l, "poll") /\ UNCHANGED error
       ELSE Leave(l, "cancelled")
    /\ UNCHANGED <<client, store, expired, errors, tries, platform, admitted,
                   crashes>>

\* get_cookies: the session cookie is there, it is not, or the call failed.
PollCookies(l) ==
    /\ pc[l] = "poll"
    /\ OperationWins(l)
    /\ \/ /\ errors' = [errors EXCEPT ![l] = 0]
          /\ \E next \in {"save", "pause"} : Goto(l, next)
       \/ /\ errors' = [errors EXCEPT ![l] = @ + 1]
          /\ \/ errors[l] + 1 >= MaxErrors /\ Goto(l, "reconnect")
             \/ errors[l] + 1 < MaxErrors /\ Goto(l, "pause")
    /\ UNCHANGED <<client, store, expired, tries, error, platform, admitted,
                   crashes>>

\* Two seconds pass, or the connection drops and is replaced at once.
Pause(l) ==
    /\ pc[l] = "pause"
    /\ OperationWins(l)
    /\ \E next \in {"get", "reconnect"} : Goto(l, next)
    /\ UNCHANGED <<client, store, expired, errors, tries, error, platform,
                   admitted, crashes>>

\* Fault: the viewer URL is announced again after a reconnect.
Fault_ReconnectAnnounces(l) ==
    /\ pc[l] = "reconnect"
    /\ OperationWins(l)
    /\ errors' = [errors EXCEPT ![l] = 0]
    /\ Send(l, "waiting_for_user")
    /\ Goto(l, "get")
    /\ UNCHANGED <<closed, store, expired, tries, error, platform, admitted,
                   crashes>>

Reconnect(l) ==
    /\ pc[l] = "reconnect"
    /\ OperationWins(l)
    /\ errors' = [errors EXCEPT ![l] = 0]
    /\ Goto(l, "get")
    /\ UNCHANGED <<client, store, expired, tries, error, platform, admitted,
                   crashes>>

\* Fault: save_login runs under the user-login deadline.
Fault_SaveUnderDeadline(l) ==
    /\ pc[l] = "save"
    /\ Leave(l, "timed_out")
    /\ Abandon(l, {"connected"})
    /\ UNCHANGED <<client, expired, errors, tries, row, jar, platform,
                   admitted, crashes>>

\* save_login runs outside the deadline: it commits, returns an error (a row
\* that is not open always does), or is still running after CLEANUP_TIMEOUT.
SaveLogin(l) ==
    /\ pc[l] = "save"
    /\ \/ /\ row[l] \in Open
          /\ CommitLogin(l)
          /\ Goto(l, "close")
          /\ UNCHANGED <<inflight, tries, error>>
       \/ /\ Leave(l, "operation")
          /\ UNCHANGED <<store, tries>>
       \/ /\ Abandon(l, {"connected"})
          /\ tries' = [tries EXCEPT ![l] = Rechecks]
          /\ Goto(l, "recheck")
          /\ UNCHANGED <<row, jar, error>>
    /\ UNCHANGED <<client, expired, errors, platform, admitted, crashes>>

\* Fault: any stored row counts as the commit having landed.
Fault_RecheckAnyRow(l) ==
    /\ pc[l] = "recheck"
    /\ row[l] \in SessionState
    /\ Goto(l, "close")
    /\ UNCHANGED <<client, store, expired, errors, tries, error, platform,
                   admitted, crashes>>

\* Read the row until the late commit shows.  A read that fails, times out or
\* finds no row gives up at once.
Recheck(l) ==
    /\ pc[l] = "recheck"
    /\ \/ /\ row[l] = "connected"
          /\ Goto(l, "close")
          /\ UNCHANGED <<tries, error>>
       \/ /\ row[l] \in SessionState \ {"connected"}
          /\ tries[l] > 1
          /\ tries' = [tries EXCEPT ![l] = @ - 1]
          /\ UNCHANGED <<pc, error>>
       \/ /\ row[l] \in SessionState \ {"connected"}
          /\ tries[l] = 1
          /\ Leave(l, "persistence")
          /\ UNCHANGED tries
       \/ Leave(l, "persistence") /\ UNCHANGED tries
    /\ UNCHANGED <<client, store, expired, errors, platform, admitted, crashes>>

\* Whatever close() answers, and also when it does not within the timeout.
CloseBrowser(l) ==
    /\ pc[l] = "close"
    /\ Goto(l, IF error[l] = "none" THEN "final" ELSE "fail")
    /\ UNCHANGED <<client, store, expired, errors, tries, error, platform,
                   admitted, crashes>>

\* transition(Failed) and its update, whose failure is only logged.
UpdateFailed(l) ==
    /\ pc[l] = "fail"
    /\ \/ UpdateRow(l, "failed") /\ UNCHANGED inflight
       \/ UNCHANGED <<row, jar>> /\ \E stmts \in {{}, {"failed"}} : Abandon(l, stmts)
    /\ Goto(l, "final")
    /\ UNCHANGED <<client, expired, errors, tries, error, platform, admitted,
                   crashes>>

\* The last event, then the task returns and drops its permit.
SendFinal(l) ==
    /\ pc[l] = "final"
    /\ IF closed[l] THEN UNCHANGED stream
       ELSE Send(l, IF error[l] = "none" THEN "connected" ELSE "failed")
    /\ Goto(l, "done")
    /\ admitted' = admitted \ {l}
    /\ UNCHANGED <<closed, store, expired, errors, tries, error, platform, crashes>>

-----------------------------------------------------------------------------
(* The client and the machine.                                             *)

CloseStream(l) ==
    /\ pc[l] \in Running
    /\ ~closed[l]
    /\ closed' = [closed EXCEPT ![l] = TRUE]
    /\ UNCHANGED <<stream, task, store, platform, admitted, crashes>>

\* The Cancel RPC, for any session id a stream has shown, at any time after.
Cancel(l) ==
    /\ stream[l] # << >>
    /\ row' = [row EXCEPT ![l] = IF @ \in SessionState THEN "deleted" ELSE @]
    /\ UNCHANGED <<client, task, jar, inflight, platform, admitted, crashes>>

\* The server dies and starts again.  Tasks, permits, streams and statements
\* not yet executed are lost; the tables are as the last commit left them.
Crash ==
    /\ crashes < MaxCrashes
    /\ admitted # {}
    /\ crashes' = crashes + 1
    /\ pc' = [l \in Logins |-> IF l \in admitted THEN "crashed" ELSE pc[l]]
    /\ closed' = [l \in Logins |-> closed[l] \/ l \in admitted]
    /\ admitted' = {}
    /\ inflight' = [l \in Logins |-> {}]
    /\ UNCHANGED <<stream, expired, errors, tries, error, row, jar, platform>>

Operation(l) ==
    \/ CreateSession(l) \/ SendStarted(l) \/ AcquireBrowser(l) \/ NewPage(l)
    \/ UpdateLoading(l) \/ Navigate(l) \/ UpdateWaiting(l) \/ SendWaiting(l)
    \/ GetSession(l) \/ PollCookies(l) \/ Pause(l) \/ Reconnect(l)
    \/ SaveLogin(l) \/ Recheck(l) \/ CloseBrowser(l) \/ UpdateFailed(l)
    \/ SendFinal(l) \/ OperationFails(l)

Next ==
    \/ \E l \in Logins :
        \/ Login(l) \/ Refuse(l) \/ Operation(l) \/ Abort(l) \/ DeadlineExpires(l)
        \/ Land(l) \/ Discard(l) \/ CloseStream(l) \/ Cancel(l)
    \/ Crash

Spec == Init /\ [][Next]_vars

\* Awaits that end by themselves within CLEANUP_TIMEOUT, and sends into a
\* channel that is never full.
BoundedAwait(l) ==
    \/ CreateSession(l) \/ SaveLogin(l) \/ Recheck(l) \/ CloseBrowser(l)
    \/ UpdateFailed(l) \/ SendFinal(l)

\* The executor polls a select whose branch is ready; nothing is said of the
\* browser, the user or the deadlines.
PollFairness == \A l \in Logins : WF_vars(Abort(l)) /\ WF_vars(BoundedAwait(l))

\* Deadlines fire.
TimerFairness == \A l \in Logins : WF_vars(DeadlineExpires(l))

FairSpec == Spec /\ PollFairness /\ TimerFairness

\* For what must happen even if no deadline ever fires.
CancelSpec == Spec /\ PollFairness

-----------------------------------------------------------------------------
(* Properties.                                                             *)

TypeOK ==
    /\ pc \in [Logins -> Await]
    /\ platform \in [Logins -> Platforms]
    /\ admitted \subseteq Logins
    /\ closed \in [Logins -> BOOLEAN]
    /\ stream \in [Logins -> Seq(SessionState)]
    /\ expired \in [Logins -> BOOLEAN]
    /\ errors \in [Logins -> 0 .. MaxErrors]
    /\ tries \in [Logins -> 1 .. Rechecks]
    /\ error \in [Logins -> Failure \cup {"none"}]
    /\ row \in [Logins -> Row]
    /\ jar \in [Platforms -> SUBSET Logins]
    /\ inflight \in [Logins -> SUBSET SessionState]
    /\ crashes \in 0 .. MaxCrashes

Stored(l) == l \in jar[platform[l]]

\* A session row says connected only if the cookies of that login are stored,
\* also after a crash between any two steps: save_login is one transaction.
ConnectedRowHasCookies ==
    \A l \in Logins : row[l] = "connected" => Stored(l)

\* A login that ended with a failure has left no cookies behind, whatever
\* statement of it landed late, unless the failure is that save_login timed
\* out and the rechecks did not see its commit.
OnlySaveTimeoutTears ==
    \A l \in Logins : Stored(l) /\ error[l] # "none" => error[l] = "persistence"

\* "Only a successful commit reports Connected": a client told so finds the
\* cookies stored, and the row connected until somebody cancels it.
ReportedConnectedIsDurable ==
    \A l \in Logins : \A i \in DOMAIN stream[l] :
        stream[l][i] = "connected" =>
            Stored(l) /\ row[l] \in {"connected", "deleted"}

\* A task that returns has told its client how the login ended, unless the
\* client left or the server died first.
EndsWithFinalEvent ==
    \A l \in Logins : pc[l] = "done" /\ ~closed[l] =>
        /\ stream[l] # << >>
        /\ stream[l][Len(stream[l])] \in {"connected", "failed"}

\* Permits of login_capacity are held by exactly the tasks still running, and
\* there are never more than the slots and the queue allow.
PermitsHeldByRunningTasks ==
    /\ admitted = {l \in Logins : pc[l] \in Running}
    /\ Cardinality(admitted) <= Capacity

\* A poll never starts with the error budget used up: the connection is
\* replaced, and the counter reset, before MAX_ERRORS_BEFORE_RECONNECT is
\* passed.
ReconnectsInTime ==
    \A l \in Logins : pc[l] \in {"get", "poll", "pause", "save"} =>
        errors[l] < MaxErrors

\* Cancelling is for good: no statement, late or not, brings a deleted
\* session back, and cookies not yet stored then never are.
CancelledStays ==
    [][\A l \in Logins : row[l] = "deleted" =>
        /\ row'[l] = "deleted"
        /\ (l \in jar'[platform[l]] => Stored(l))]_vars

\* The stream reports idle, then waiting_for_user, then one final status; a
\* failure may come at any point, a connection only after the user was asked.
StreamFollowsProtocol ==
    [][\A l \in Logins : stream'[l] # stream[l] =>
        \E status \in SessionState :
            /\ stream'[l] = Append(stream[l], status)
            /\ <<stream[l], status>> \in
                {<< << >>, "idle">>, << << >>, "failed">>,
                 << <<"idle">>, "waiting_for_user">>, << <<"idle">>, "failed">>,
                 << <<"idle", "waiting_for_user">>, "connected">>,
                 << <<"idle", "waiting_for_user">>, "failed">>}]_vars

\* The tables behave as LoginLifecycle says: an open row of a login that gave
\* up without a save in flight counts as stale.
phase ==
    [l \in Logins |->
        CASE row[l] = "absent" -> "none"
          [] row[l] \in Open /\ error[l] \in {"none", "persistence"} -> "open"
          [] row[l] \in Open /\ error[l] \notin {"none", "persistence"} -> "stale"
          [] OTHER -> row[l]]

Lifecycle == INSTANCE LoginLifecycle
ImplementsLifecycle == Lifecycle!Spec

\* Every admitted login gives its permit back, whatever the browser, the user
\* and the store do: all its awaits are bounded.
PermitsReturn == \A l \in Logins : l \in admitted ~> l \notin admitted

\* A cancelled session, or one whose client is gone, ends without waiting for
\* any deadline.
CancelStopsTask ==
    \A l \in Logins :
        (l \in admitted /\ (closed[l] \/ row[l] = "deleted")) ~> l \notin admitted

\* The changelog of 0.8.0: "cookies can no longer land under a session marked
\* failed".
NoCookiesUnderFailedSession ==
    \A l \in Logins : row[l] = "failed" => ~Stored(l)
=============================================================================
