---------------------------- MODULE LoginProofs ----------------------------
(***************************************************************************)
(* Theorems about Login for any number of logins and any value of its      *)
(* constants.  The safety properties follow from one inductive invariant,  *)
(* IndInv: what each await and each statement in flight say about the      *)
(* failure recorded and the cookies stored.                                *)
(***************************************************************************)
EXTENDS Login, FiniteSetTheorems, TLAPS

-----------------------------------------------------------------------------
(* Typing.  The sets of literals are unfolded once, here.                  *)

LEMMA Bounds ==
    /\ 0 \in 0 .. MaxErrors
    /\ 0 < MaxErrors
    /\ Rechecks \in 1 .. Rechecks
    /\ 0 \in 0 .. MaxCrashes
  BY LoginAssumption

LEMMA Statuses ==
    /\ {"idle", "loading", "waiting_for_user", "connected", "failed"}
           \subseteq SessionState
    /\ SessionState \cup {"absent", "deleted"} \subseteq Row
  BY DEF SessionState, Row

LEMMA Failures ==
    {"none", "cancelled", "timed_out", "operation", "persistence"}
        \subseteq Failure \cup {"none"}
  BY DEF Failure

LEMMA Awaits ==
    {"new", "refused", "done", "crashed", "create", "started", "acquire",
     "new_page", "loading", "navigate", "waiting", "send_waiting", "get", "poll",
     "pause", "reconnect", "save", "recheck", "close", "fail", "final"}
        \subseteq Await
  BY DEF Await, Running, Bounded, Controlled, BeforeBrowser, InBrowser, Loop

LEMMA InitTypeOK == Init => TypeOK
  BY Bounds, Statuses, Awaits DEF Init, TypeOK

\* What a statement writes is a status, and what it adds to a jar is a login.
LEMMA StatementTypes ==
    ASSUME NEW l \in Logins, TypeOK,
           \/ InsertRow(l)
           \/ \E status \in SessionState : UpdateRow(l, status)
           \/ CommitLogin(l)
    PROVE  /\ row' \in [Logins -> Row]
           /\ jar' \in [Platforms -> SUBSET Logins]
  <1>1. CASE InsertRow(l)
      BY <1>1, Statuses DEF TypeOK, InsertRow
  <1>2. CASE \E status \in SessionState : UpdateRow(l, status)
      BY <1>2, Statuses DEF TypeOK, UpdateRow
  <1>3. CASE CommitLogin(l)
    <2>1. "connected" \in Row /\ platform[l] \in Platforms
        BY Statuses DEF TypeOK
    <2>2. CASE row[l] \in Open
      <3>1. row' = [row EXCEPT ![l] = "connected"]
            /\ jar' = [jar EXCEPT ![platform[l]] = @ \cup {l}]
          BY <1>3, <2>2 DEF CommitLogin
      <3> QED BY <2>1, <3>1 DEF TypeOK
    <2>3. CASE row[l] \notin Open
        BY <1>3, <2>3 DEF TypeOK, CommitLogin
    <2> QED BY <2>2, <2>3
  <1> QED BY <1>1, <1>2, <1>3

\* The end of a task's stay in the browser is well typed.
LEMMA LeaveTypes ==
    ASSUME NEW l \in Logins, TypeOK,
           NEW failure \in {"cancelled", "timed_out", "operation", "persistence"},
           Leave(l, failure)
    PROVE  /\ pc' \in [Logins -> Await]
           /\ error' \in [Logins -> Failure \cup {"none"}]
  BY Failures, Awaits DEF TypeOK, Leave, Goto

LEMMA AbandonTypes ==
    ASSUME NEW l \in Logins, TypeOK, NEW stmts \in SUBSET SessionState,
           Abandon(l, stmts)
    PROVE  inflight' \in [Logins -> SUBSET SessionState]
  BY DEF TypeOK, Abandon

\* One operation of a task keeps every variable in its type.  The error
\* counter needs ReconnectsInTime: it grows by one only below the limit.
LEMMA OperationTypeOK ==
    ASSUME TypeOK, ReconnectsInTime, NEW l \in Logins, Operation(l)
    PROVE  TypeOK'
  <1>1. CASE CreateSession(l)
    <2>1. {} \in SUBSET SessionState /\ {"idle"} \in SUBSET SessionState
        BY Statuses
    <2>2. inflight' \in [Logins -> SUBSET SessionState]
        BY <1>1, <2>1, AbandonTypes DEF CreateSession, TypeOK
    <2>3. row' \in [Logins -> Row] /\ jar' \in [Platforms -> SUBSET Logins]
        BY <1>1, StatementTypes DEF CreateSession, TypeOK
    <2>4. pc' \in [Logins -> Await]
      <3>1. \E next \in {"done", "started", "final"} : Goto(l, next)
          BY <1>1 DEF CreateSession
      <3> QED BY <3>1, Awaits DEF TypeOK, Goto
    <2>5. error' \in [Logins -> Failure \cup {"none"}]
        BY <1>1, Failures DEF CreateSession, TypeOK
    <2>6. admitted' \subseteq Logins
        BY <1>1 DEF CreateSession, TypeOK
    <2> QED BY <1>1, <2>2, <2>3, <2>4, <2>5, <2>6 DEF CreateSession, TypeOK, client
  <1>2. CASE SendStarted(l)
      BY <1>2, Awaits, Statuses DEF SendStarted, Send, Goto, TypeOK, store
  <1>3. CASE AcquireBrowser(l) \/ NewPage(l) \/ Navigate(l)
      BY <1>3, Awaits DEF AcquireBrowser, NewPage, Navigate, BrowserCall, Goto,
                          TypeOK, client, store
  <1>4. CASE UpdateLoading(l) \/ UpdateWaiting(l)
    <2>1. row' \in [Logins -> Row] /\ jar' \in [Platforms -> SUBSET Logins]
        BY <1>4, StatementTypes, Statuses DEF UpdateLoading, UpdateWaiting, StoreTransition
    <2> QED BY <1>4, <2>1, Awaits DEF UpdateLoading, UpdateWaiting, StoreTransition,
                                      Goto, TypeOK, client
  <1>5. CASE SendWaiting(l)
      BY <1>5, Awaits, Bounds, Statuses DEF SendWaiting, Send, Goto, TypeOK, store
  <1>6. CASE GetSession(l)
    <2>1. /\ pc' \in [Logins -> Await]
          /\ error' \in [Logins -> Failure \cup {"none"}]
      <3>1. CASE Leave(l, "cancelled")
          BY <3>1, LeaveTypes
      <3>2. CASE Goto(l, "poll") /\ UNCHANGED error
          BY <3>2, Awaits DEF Goto, TypeOK
      <3> QED BY <1>6, <3>1, <3>2 DEF GetSession
    <2> QED BY <1>6, <2>1 DEF GetSession, TypeOK, client, store
  <1>7. CASE PollCookies(l)
    <2>1. errors[l] \in 0 .. MaxErrors /\ errors[l] < MaxErrors
        BY <1>7 DEF PollCookies, TypeOK, ReconnectsInTime
    <2>2. errors[l] + 1 \in 0 .. MaxErrors
        BY <2>1, LoginAssumption
    <2>3. errors' \in [Logins -> 0 .. MaxErrors]
        BY <1>7, <2>2, Bounds DEF PollCookies, TypeOK
    <2>4. \E next \in {"save", "pause", "reconnect"} : Goto(l, next)
        BY <1>7 DEF PollCookies
    <2>5. pc' \in [Logins -> Await]
        BY <2>4, Awaits DEF Goto, TypeOK
    <2> QED BY <1>7, <2>3, <2>5 DEF PollCookies, TypeOK, client, store
  <1>8. CASE Pause(l)
      BY <1>8, Awaits DEF Pause, Goto, TypeOK, client, store
  <1>9. CASE Reconnect(l)
      BY <1>9, Awaits, Bounds DEF Reconnect, Goto, TypeOK, client, store
  <1>10. CASE SaveLogin(l)
    <2>1. row' \in [Logins -> Row] /\ jar' \in [Platforms -> SUBSET Logins]
        BY <1>10, StatementTypes DEF SaveLogin, TypeOK, store
    <2>2. {"connected"} \in SUBSET SessionState
        BY Statuses
    <2>3. inflight' \in [Logins -> SUBSET SessionState]
        BY <1>10, <2>2, AbandonTypes DEF SaveLogin, TypeOK, store
    <2>4. /\ pc' \in [Logins -> Await]
          /\ error' \in [Logins -> Failure \cup {"none"}]
      <3>1. CASE Leave(l, "operation")
          BY <3>1, LeaveTypes
      <3>2. CASE (Goto(l, "close") \/ Goto(l, "recheck")) /\ UNCHANGED error
          BY <3>2, Awaits DEF Goto, TypeOK
      <3> QED BY <1>10, <3>1, <3>2 DEF SaveLogin
    <2>5. tries' \in [Logins -> 1 .. Rechecks]
        BY <1>10, Bounds DEF SaveLogin, TypeOK
    <2> QED BY <1>10, <2>1, <2>3, <2>4, <2>5 DEF SaveLogin, TypeOK, client
  <1>11. CASE Recheck(l)
    <2>1. /\ pc' \in [Logins -> Await]
          /\ error' \in [Logins -> Failure \cup {"none"}]
      <3>1. CASE Leave(l, "persistence")
          BY <3>1, LeaveTypes
      <3>2. CASE (Goto(l, "close") \/ UNCHANGED pc) /\ UNCHANGED error
          BY <3>2, Awaits DEF Goto, TypeOK
      <3> QED BY <1>11, <3>1, <3>2 DEF Recheck
    <2>2. tries[l] > 1 => tries[l] - 1 \in 1 .. Rechecks
        BY LoginAssumption DEF TypeOK
    <2>3. tries' \in [Logins -> 1 .. Rechecks]
        BY <1>11, <2>2 DEF Recheck, TypeOK
    <2> QED BY <1>11, <2>1, <2>3 DEF Recheck, TypeOK, client, store
  <1>12. CASE CloseBrowser(l)
      BY <1>12, Awaits DEF CloseBrowser, Goto, TypeOK, client, store
  <1>13. CASE UpdateFailed(l)
    <2>1. {} \in SUBSET SessionState /\ {"failed"} \in SUBSET SessionState
        BY Statuses
    <2>2. inflight' \in [Logins -> SUBSET SessionState]
        BY <1>13, <2>1, AbandonTypes DEF UpdateFailed, TypeOK
    <2>3. row' \in [Logins -> Row] /\ jar' \in [Platforms -> SUBSET Logins]
        BY <1>13, StatementTypes, Statuses DEF UpdateFailed, TypeOK
    <2> QED BY <1>13, <2>2, <2>3, Awaits DEF UpdateFailed, TypeOK, Goto, client
  <1>14. CASE SendFinal(l)
    <2>1. stream' \in [Logins -> Seq(SessionState)]
      <3>1. ASSUME NEW status \in {"connected", "failed"}, Send(l, status)
            PROVE  stream' \in [Logins -> Seq(SessionState)]
          BY <3>1, Statuses DEF Send, TypeOK
      <3> QED BY <1>14, <3>1 DEF SendFinal, TypeOK
    <2> QED BY <1>14, <2>1, Awaits DEF SendFinal, Goto, TypeOK, store
  <1>15. CASE OperationFails(l)
      BY <1>15, LeaveTypes DEF OperationFails, TypeOK, client, store
  <1> QED BY <1>1, <1>2, <1>3, <1>4, <1>5, <1>6, <1>7, <1>8, <1>9, <1>10, <1>11,
             <1>12, <1>13, <1>14, <1>15 DEF Operation

LEMMA StepTypeOK == TypeOK /\ ReconnectsInTime /\ [Next]_vars => TypeOK'
  <1> SUFFICES ASSUME TypeOK, ReconnectsInTime, [Next]_vars PROVE TypeOK'
      OBVIOUS
  <1>1. ASSUME NEW l \in Logins, Login(l) PROVE TypeOK'
      BY <1>1, Awaits DEF Login, Goto, TypeOK, client, store
  <1>2. ASSUME NEW l \in Logins, Refuse(l) PROVE TypeOK'
      BY <1>2, Awaits DEF Refuse, Goto, TypeOK, client, store
  <1>3. ASSUME NEW l \in Logins, Abort(l) PROVE TypeOK'
    <2>1. Dropped(l) \in SUBSET SessionState
        BY Statuses DEF Dropped
    <2>2. inflight' \in [Logins -> SUBSET SessionState]
        BY <1>3, <2>1, AbandonTypes DEF Abort
    <2>3. /\ pc' \in [Logins -> Await]
          /\ error' \in [Logins -> Failure \cup {"none"}]
        BY <1>3, LeaveTypes DEF Abort
    <2> QED BY <1>3, <2>2, <2>3 DEF Abort, TypeOK, client
  <1>4. ASSUME NEW l \in Logins, DeadlineExpires(l) PROVE TypeOK'
      BY <1>4 DEF DeadlineExpires, TypeOK, client, store
  <1>5. ASSUME NEW l \in Logins, Land(l) PROVE TypeOK'
    <2>1. PICK stmt \in inflight[l] :
            /\ Execute(l, stmt)
            /\ inflight' = [inflight EXCEPT ![l] = @ \ {stmt}]
            /\ UNCHANGED <<client, task, platform, admitted, crashes>>
        BY <1>5 DEF Land
    <2>2. row' \in [Logins -> Row] /\ jar' \in [Platforms -> SUBSET Logins]
        BY <2>1, StatementTypes, Statuses DEF Execute
    <2> QED BY <2>1, <2>2 DEF TypeOK, client, task
  <1>6. ASSUME NEW l \in Logins, Discard(l) PROVE TypeOK'
      BY <1>6 DEF Discard, TypeOK, client, task
  <1>7. ASSUME NEW l \in Logins, CloseStream(l) PROVE TypeOK'
      BY <1>7 DEF CloseStream, TypeOK, task, store
  <1>8. ASSUME NEW l \in Logins, Cancel(l) PROVE TypeOK'
      BY <1>8, Statuses DEF Cancel, TypeOK, client, task
  <1>9. CASE Crash
      BY <1>9, Awaits, LoginAssumption DEF Crash, TypeOK
  <1>10. ASSUME NEW l \in Logins, Operation(l) PROVE TypeOK'
      BY <1>10, OperationTypeOK
  <1>11. CASE UNCHANGED vars
      BY <1>11 DEF vars, client, task, store, TypeOK
  <1> QED BY <1>1, <1>2, <1>3, <1>4, <1>5, <1>6, <1>7, <1>8, <1>9, <1>10, <1>11 DEF Next

-----------------------------------------------------------------------------
(* The inductive invariant.                                                *)

GivenUp == {"cancelled", "timed_out", "operation"}
BeforeSave == {"new", "refused", "create", "save"} \cup Controlled

\* Nothing is stored, nothing is in flight and nothing has failed before
\* save_login; a task past it that has not failed has its cookies stored.
AwaitInv(l) ==
    /\ pc[l] \in BeforeSave => error[l] = "none" /\ ~Stored(l) /\ inflight[l] = {}
    /\ pc[l] = "recheck" => error[l] = "none" /\ inflight[l] \subseteq {"connected"}
    /\ pc[l] = "fail" => error[l] # "none"
    /\ pc[l] \in {"close", "final", "done"} /\ error[l] = "none" =>
           Stored(l) /\ row[l] \in {"connected", "deleted"}

StoreInv(l) ==
    /\ Stored(l) => row[l] \in {"connected", "failed", "deleted"}
    /\ row[l] = "connected" => Stored(l)
    /\ Stored(l) /\ error[l] # "none" => error[l] = "persistence"

\* Which statements may still be in flight follows from how the task ended.
InflightInv(l) ==
    /\ "connected" \in inflight[l] =>
           ~Stored(l) /\ (pc[l] = "recheck" \/ error[l] = "persistence")
    /\ \A stmt \in {"loading", "waiting_for_user"} :
           stmt \in inflight[l] => error[l] \in GivenUp
    /\ "failed" \in inflight[l] => error[l] # "none"

StreamInv(l) ==
    \A i \in DOMAIN stream[l] :
        stream[l][i] = "connected" => pc[l] = "done" /\ error[l] = "none"

LoginInv(l) == AwaitInv(l) /\ StoreInv(l) /\ InflightInv(l) /\ StreamInv(l)

PermitInv == IsFiniteSet(admitted) /\ PermitsHeldByRunningTasks

IndInv ==
    /\ TypeOK
    /\ ReconnectsInTime
    /\ PermitInv
    /\ \A l \in Logins : LoginInv(l)

-----------------------------------------------------------------------------
(* A step of one login leaves the others as they are.                      *)

Same(k) ==
    /\ pc'[k] = pc[k]
    /\ error'[k] = error[k]
    /\ row'[k] = row[k]
    /\ inflight'[k] = inflight[k]
    /\ stream'[k] = stream[k]
    /\ errors'[k] = errors[k]
    /\ Stored(k)' = Stored(k)

LEMMA SameKeeps ==
    ASSUME NEW k \in Logins, LoginInv(k), Same(k)
    PROVE  LoginInv(k)'
  <1>1. AwaitInv(k)'
      BY DEF LoginInv, Same, AwaitInv
  <1>2. StoreInv(k)'
      BY DEF LoginInv, Same, StoreInv
  <1>3. InflightInv(k)'
      BY DEF LoginInv, Same, InflightInv
  <1>4. StreamInv(k)'
      BY DEF LoginInv, Same, StreamInv
  <1> QED BY <1>1, <1>2, <1>3, <1>4 DEF LoginInv

\* What a statement of login l does to another login: nothing.
LEMMA StatementFrame ==
    ASSUME TypeOK, NEW l \in Logins, NEW k \in Logins, k # l,
           platform' = platform,
           \/ InsertRow(l)
           \/ \E status \in SessionState : UpdateRow(l, status)
           \/ CommitLogin(l)
           \/ UNCHANGED <<row, jar>>
    PROVE  row'[k] = row[k] /\ Stored(k)' = Stored(k)
  <1>1. CASE UNCHANGED jar
      BY <1>1 DEF Stored, TypeOK, InsertRow, UpdateRow, CommitLogin
  <1>2. CASE ~(UNCHANGED jar)
    <2>1. /\ row' = [row EXCEPT ![l] = "connected"]
          /\ jar' = [jar EXCEPT ![platform[l]] = @ \cup {l}]
        BY <1>2 DEF InsertRow, UpdateRow, CommitLogin
    <2>2. platform[l] \in Platforms /\ platform[k] \in Platforms
        BY DEF TypeOK
    <2> QED BY <2>1, <2>2 DEF TypeOK, Stored
  <1> QED BY <1>1, <1>2

LEMMA OperationFrame ==
    ASSUME TypeOK, NEW l \in Logins, NEW k \in Logins, k # l, Operation(l)
    PROVE  Same(k)
  <1> USE DEF Goto, Leave, Abandon, Send, client, store, Same
  <1>1. platform' = platform
      BY DEF Operation, CreateSession, SendStarted, AcquireBrowser, NewPage,
             Navigate, BrowserCall, UpdateLoading, UpdateWaiting, StoreTransition,
             SendWaiting, GetSession, PollCookies, Pause, Reconnect, SaveLogin,
             Recheck, CloseBrowser, UpdateFailed, SendFinal, OperationFails
  <1>2. \/ InsertRow(l)
        \/ \E status \in SessionState : UpdateRow(l, status)
        \/ CommitLogin(l)
        \/ UNCHANGED <<row, jar>>
      BY Statuses
         DEF Operation, CreateSession, SendStarted, AcquireBrowser, NewPage,
             Navigate, BrowserCall, UpdateLoading, UpdateWaiting, StoreTransition,
             SendWaiting, GetSession, PollCookies, Pause, Reconnect, SaveLogin,
             Recheck, CloseBrowser, UpdateFailed, SendFinal, OperationFails
  <1>3. row'[k] = row[k] /\ Stored(k)' = Stored(k)
      BY <1>1, <1>2, StatementFrame
  <1>4. pc'[k] = pc[k] /\ error'[k] = error[k]
      BY DEF TypeOK, Operation, CreateSession, SendStarted, AcquireBrowser, NewPage,
             Navigate, BrowserCall, UpdateLoading, UpdateWaiting, StoreTransition,
             SendWaiting, GetSession, PollCookies, Pause, Reconnect, SaveLogin,
             Recheck, CloseBrowser, UpdateFailed, SendFinal, OperationFails
  <1>5. inflight'[k] = inflight[k] /\ stream'[k] = stream[k] /\ errors'[k] = errors[k]
      BY DEF TypeOK, Operation, CreateSession, SendStarted, AcquireBrowser, NewPage,
             Navigate, BrowserCall, UpdateLoading, UpdateWaiting, StoreTransition,
             SendWaiting, GetSession, PollCookies, Pause, Reconnect, SaveLogin,
             Recheck, CloseBrowser, UpdateFailed, SendFinal, OperationFails
  <1> QED BY <1>3, <1>4, <1>5

\* The other steps named after a login.
Other(l) ==
    \/ Login(l) \/ Refuse(l) \/ Abort(l) \/ DeadlineExpires(l) \/ Land(l)
    \/ Discard(l) \/ CloseStream(l) \/ Cancel(l)

LEMMA OtherFrame ==
    ASSUME TypeOK, NEW l \in Logins, NEW k \in Logins, k # l, Other(l)
    PROVE  Same(k)
  <1> USE DEF Goto, Leave, Abandon, client, store, task, Same
  <1>1. CASE Land(l)
    <2>1. PICK stmt \in inflight[l] :
            /\ Execute(l, stmt)
            /\ inflight' = [inflight EXCEPT ![l] = @ \ {stmt}]
            /\ UNCHANGED <<client, task, platform, admitted, crashes>>
        BY <1>1 DEF Land
    <2>2. \/ InsertRow(l)
          \/ \E status \in SessionState : UpdateRow(l, status)
          \/ CommitLogin(l)
        BY <2>1, Statuses DEF Execute
    <2>3. row'[k] = row[k] /\ Stored(k)' = Stored(k)
        BY <2>1, <2>2, StatementFrame
    <2> QED BY <2>1, <2>3 DEF TypeOK
  <1>2. CASE Cancel(l)
      BY <1>2 DEF Cancel, Stored, TypeOK
  <1>3. CASE Login(l) \/ Refuse(l) \/ DeadlineExpires(l) \/ CloseStream(l)
      BY <1>3 DEF Login, Refuse, DeadlineExpires, CloseStream, Stored, TypeOK
  <1>4. CASE Abort(l)
      BY <1>4 DEF Abort, Stored, TypeOK
  <1>5. CASE Discard(l)
      BY <1>5 DEF Discard, Stored, TypeOK
  <1> QED BY <1>1, <1>2, <1>3, <1>4, <1>5 DEF Other

-----------------------------------------------------------------------------
(* What a step of a login does to that login.                              *)

\* A task that is not done keeps StreamInv as long as it adds no connected.
LEMMA StreamKept ==
    ASSUME TypeOK, NEW l \in Logins, StreamInv(l), pc[l] # "done",
           \/ UNCHANGED stream
           \/ \E status \in SessionState \ {"connected"} : Send(l, status)
    PROVE  StreamInv(l)'
  <1>1. \A i \in DOMAIN stream[l] : stream[l][i] # "connected"
      BY DEF StreamInv
  <1>2. stream[l] \in Seq(SessionState)
      BY DEF TypeOK
  <1>3. \A i \in DOMAIN stream'[l] : stream'[l][i] # "connected"
    <2>1. CASE UNCHANGED stream
        BY <1>1, <2>1
    <2>2. CASE \E status \in SessionState \ {"connected"} : Send(l, status)
      <3>1. PICK status \in SessionState \ {"connected"} :
                stream'[l] = Append(stream[l], status)
          BY <2>2 DEF Send, TypeOK
      <3> QED BY <1>1, <1>2, <3>1
    <2> QED BY <2>1, <2>2
  <1> QED BY <1>3 DEF StreamInv

\* Steps between two awaits that come before save_login.
LEMMA QuietStep ==
    ASSUME TypeOK, NEW l \in Logins, LoginInv(l),
           pc[l] \in BeforeSave, pc'[l] \in BeforeSave,
           UNCHANGED <<error, platform, inflight, jar>>,
           row'[l] # "connected",
           StreamInv(l)'
    PROVE  LoginInv(l)'
  <1>1. error[l] = "none" /\ ~Stored(l) /\ inflight[l] = {}
      BY DEF LoginInv, AwaitInv
  <1>2. error'[l] = "none" /\ ~Stored(l)' /\ inflight'[l] = {}
      BY <1>1 DEF Stored
  <1>3. pc'[l] \notin {"recheck", "fail", "close", "final", "done"}
      BY DEF BeforeSave, Controlled, BeforeBrowser, InBrowser, Loop
  <1>4. AwaitInv(l)' /\ StoreInv(l)' /\ InflightInv(l)'
      BY <1>2, <1>3 DEF AwaitInv, StoreInv, InflightInv
  <1> QED BY <1>4 DEF LoginInv

\* A task that fails before its save: nothing of it is stored, and only a
\* status of an open row can be in flight.
LEMMA GivingUp ==
    ASSUME TypeOK, NEW l \in Logins, LoginInv(l),
           pc[l] \in BeforeSave, pc'[l] \in {"fail", "close", "final", "done"},
           error'[l] \in GivenUp,
           inflight'[l] \subseteq {"idle", "loading", "waiting_for_user"},
           UNCHANGED <<stream, platform, row, jar>>
    PROVE  LoginInv(l)'
  <1>1. ~Stored(l) /\ row[l] # "connected"
      BY DEF LoginInv, AwaitInv, StoreInv
  <1>2. ~Stored(l)' /\ row'[l] # "connected"
      BY <1>1 DEF Stored
  <1>3. error'[l] # "none" /\ pc'[l] \notin BeforeSave \cup {"recheck"}
      BY DEF GivenUp, BeforeSave, Controlled, BeforeBrowser, InBrowser, Loop
  <1>4. AwaitInv(l)' /\ StoreInv(l)' /\ InflightInv(l)'
      BY <1>2, <1>3 DEF AwaitInv, StoreInv, InflightInv
  <1>5. pc[l] # "done"
      BY DEF BeforeSave, Controlled, BeforeBrowser, InBrowser, Loop
  <1>6. StreamInv(l)'
      BY <1>5, StreamKept DEF LoginInv
  <1> QED BY <1>4, <1>6 DEF LoginInv

LEMMA PlacesBeforeSave ==
    {"create", "started", "acquire", "new_page", "loading", "navigate", "waiting",
     "send_waiting", "get", "poll", "pause", "reconnect", "save"} \subseteq BeforeSave
  BY DEF BeforeSave, Controlled, BeforeBrowser, InBrowser, Loop

LEMMA NotConnectedBefore ==
    ASSUME NEW l \in Logins, LoginInv(l), pc[l] \in BeforeSave
    PROVE  row[l] # "connected" /\ inflight[l] = {} /\ pc[l] # "done"
  BY DEF LoginInv, AwaitInv, StoreInv, BeforeSave, Controlled, BeforeBrowser,
         InBrowser, Loop

\* Leaving with a failure other than "persistence" from before the save.
LEMMA LeaveGivesUp ==
    ASSUME TypeOK, NEW l \in Logins, LoginInv(l), pc[l] \in BeforeSave,
           NEW failure \in GivenUp, Leave(l, failure),
           \/ UNCHANGED inflight
           \/ Abandon(l, Dropped(l)),
           UNCHANGED <<stream, platform, row, jar>>
    PROVE  LoginInv(l)'
  <1>1. pc'[l] \in {"fail", "close"} /\ error'[l] = failure
      BY DEF Leave, Goto, TypeOK
  <1>2. inflight[l] = {}
      BY NotConnectedBefore
  <1>3. inflight'[l] \subseteq {"loading", "waiting_for_user"}
      BY <1>2 DEF Abandon, Dropped, TypeOK
  <1> QED BY <1>1, <1>3, GivingUp

LEMMA OperationOwn ==
    ASSUME TypeOK, NEW l \in Logins, LoginInv(l), Operation(l)
    PROVE  LoginInv(l)'
  <1>1. CASE CreateSession(l)
    <2>1. pc[l] \in BeforeSave /\ row[l] # "connected" /\ inflight[l] = {}
        BY <1>1, PlacesBeforeSave, NotConnectedBefore DEF CreateSession
    <2>2. UNCHANGED <<stream, platform>>
        BY <1>1 DEF CreateSession, client
    <2>3. CASE InsertRow(l) /\ Goto(l, "started") /\ UNCHANGED <<error, inflight>>
      <3>1. pc'[l] \in BeforeSave /\ row'[l] # "connected" /\ UNCHANGED jar
          BY <2>1, <2>3, PlacesBeforeSave DEF InsertRow, Goto, TypeOK
      <3>2. StreamInv(l)'
          BY <2>1, <2>2, NotConnectedBefore, StreamKept DEF LoginInv
      <3> QED BY <2>1, <2>2, <2>3, <3>1, <3>2, QuietStep
    <2>4. CASE /\ \E next \in {"done", "final"} : Goto(l, next)
               /\ \E failure \in GivenUp : error' = [error EXCEPT ![l] = failure]
               /\ \E stmts \in {{}, {"idle"}} : Abandon(l, stmts)
               /\ UNCHANGED <<row, jar>>
      <3>1. pc'[l] \in {"done", "final"} /\ error'[l] \in GivenUp
          BY <2>4 DEF Goto, TypeOK
      <3>2. inflight'[l] \subseteq {"idle"}
          BY <2>1, <2>4 DEF Abandon, TypeOK
      <3> QED BY <2>1, <2>2, <2>4, <3>1, <3>2, GivingUp
    <2>5. "cancelled" \in GivenUp /\ "operation" \in GivenUp
        BY DEF GivenUp
    <2>6. \/ InsertRow(l) /\ Goto(l, "started") /\ UNCHANGED <<error, inflight>>
          \/ /\ Goto(l, "done") \/ Goto(l, "final")
             /\ \/ error' = [error EXCEPT ![l] = "cancelled"]
                \/ error' = [error EXCEPT ![l] = "operation"]
             /\ Abandon(l, {}) \/ Abandon(l, {"idle"})
             /\ UNCHANGED <<row, jar>>
        BY <1>1 DEF CreateSession
    <2> QED BY <2>3, <2>4, <2>5, <2>6
  <1>2. CASE SendStarted(l) \/ SendWaiting(l)
    <2>1. /\ pc[l] \in BeforeSave /\ pc'[l] \in BeforeSave
          /\ UNCHANGED <<error, platform, row, jar, inflight>>
          /\ \E status \in SessionState \ {"connected"} : Send(l, status)
        BY <1>2, PlacesBeforeSave, Statuses
           DEF SendStarted, SendWaiting, Goto, store, TypeOK
    <2>2. pc[l] # "done" /\ row'[l] # "connected"
        BY <2>1, NotConnectedBefore
    <2>3. StreamInv(l)'
        BY <2>1, <2>2, StreamKept DEF LoginInv
    <2> QED BY <2>1, <2>2, <2>3, QuietStep
  <1>3. CASE \/ AcquireBrowser(l) \/ NewPage(l) \/ Navigate(l) \/ PollCookies(l)
             \/ Pause(l) \/ Reconnect(l)
    <2>1. /\ pc[l] \in BeforeSave /\ pc'[l] \in BeforeSave
          /\ UNCHANGED <<error, platform, row, jar, inflight, stream>>
        BY <1>3, PlacesBeforeSave
           DEF AcquireBrowser, NewPage, Navigate, BrowserCall, PollCookies, Pause,
               Reconnect, Goto, client, store, TypeOK
    <2>2. pc[l] # "done" /\ row'[l] # "connected"
        BY <2>1, NotConnectedBefore
    <2>3. StreamInv(l)'
        BY <2>1, <2>2, StreamKept DEF LoginInv
    <2> QED BY <2>1, <2>2, <2>3, QuietStep
  <1>4. CASE UpdateLoading(l) \/ UpdateWaiting(l)
    <2>1. /\ pc[l] \in BeforeSave /\ pc'[l] \in BeforeSave
          /\ UNCHANGED <<error, platform, jar, inflight, stream>>
        BY <1>4, PlacesBeforeSave
           DEF UpdateLoading, UpdateWaiting, StoreTransition, UpdateRow, Goto, client,
               TypeOK
    <2>2. pc[l] # "done" /\ row[l] # "connected"
        BY <2>1, NotConnectedBefore
    <2>3. row'[l] # "connected"
        BY <1>4, <2>2 DEF UpdateLoading, UpdateWaiting, StoreTransition, UpdateRow,
                          TypeOK
    <2>4. StreamInv(l)'
        BY <2>1, <2>2, StreamKept DEF LoginInv
    <2> QED BY <2>1, <2>3, <2>4, QuietStep
  <1>5. CASE GetSession(l) \/ OperationFails(l)
    <2>1. /\ pc[l] \in BeforeSave
          /\ UNCHANGED <<platform, row, jar, inflight, stream>>
        BY <1>5, PlacesBeforeSave DEF GetSession, OperationFails, client, store
    <2>2. CASE \E failure \in GivenUp : Leave(l, failure)
        BY <2>1, <2>2, LeaveGivesUp
    <2>3. CASE Goto(l, "poll") /\ UNCHANGED error
      <3>1. pc'[l] \in BeforeSave
          BY <2>3, PlacesBeforeSave DEF Goto, TypeOK
      <3>2. StreamInv(l)' /\ row'[l] # "connected"
          BY <2>1, NotConnectedBefore, StreamKept DEF LoginInv
      <3> QED BY <2>1, <2>3, <3>1, <3>2, QuietStep
    <2> QED BY <1>5, <2>2, <2>3 DEF GetSession, OperationFails, GivenUp
  <1>6. CASE SaveLogin(l)
    <2>1. /\ pc[l] = "save" /\ pc[l] \in BeforeSave /\ pc[l] # "done"
          /\ error[l] = "none" /\ ~Stored(l) /\ inflight[l] = {} /\ row[l] # "connected"
        BY <1>6, PlacesBeforeSave, NotConnectedBefore DEF SaveLogin, LoginInv, AwaitInv
    <2>2. UNCHANGED <<stream, platform>> /\ StreamInv(l)'
        BY <1>6, <2>1, StreamKept DEF SaveLogin, client, LoginInv
    <2>3. CASE /\ row[l] \in Open /\ CommitLogin(l) /\ Goto(l, "close")
               /\ UNCHANGED <<inflight, error>>
      <3>1. row'[l] = "connected" /\ Stored(l)' /\ pc'[l] = "close"
          BY <2>2, <2>3 DEF CommitLogin, Stored, Goto, TypeOK
      <3>2. error'[l] = "none" /\ inflight'[l] = {}
          BY <2>1, <2>3
      <3>3. AwaitInv(l)' /\ StoreInv(l)' /\ InflightInv(l)'
          BY <3>1, <3>2 DEF AwaitInv, StoreInv, InflightInv, BeforeSave, Controlled,
                            BeforeBrowser, InBrowser, Loop
      <3> QED BY <2>2, <3>3 DEF LoginInv
    <2>4. CASE Leave(l, "operation") /\ UNCHANGED store
        BY <2>1, <2>2, <2>4, LeaveGivesUp DEF GivenUp, store
    <2>5. CASE /\ Abandon(l, {"connected"}) /\ Goto(l, "recheck")
               /\ UNCHANGED <<row, jar, error>>
      <3>1. pc'[l] = "recheck" /\ inflight'[l] = {"connected"}
          BY <2>1, <2>5 DEF Abandon, Goto, TypeOK
      <3>2. error'[l] = "none" /\ row'[l] # "connected" /\ ~Stored(l)'
          BY <2>1, <2>2, <2>5 DEF Stored
      <3>3. AwaitInv(l)' /\ StoreInv(l)' /\ InflightInv(l)'
          BY <3>1, <3>2 DEF AwaitInv, StoreInv, InflightInv, BeforeSave, Controlled,
                            BeforeBrowser, InBrowser, Loop
      <3> QED BY <2>2, <3>3 DEF LoginInv
    <2> QED BY <1>6, <2>3, <2>4, <2>5 DEF SaveLogin
  <1>7. CASE Recheck(l)
    <2>1. /\ pc[l] = "recheck" /\ error[l] = "none"
          /\ inflight[l] \subseteq {"connected"}
          /\ UNCHANGED <<platform, row, jar, inflight, stream>>
        BY <1>7 DEF Recheck, LoginInv, AwaitInv, store, client
    <2>2. StreamInv(l)' /\ (Stored(l)' = Stored(l))
        BY <2>1, StreamKept DEF LoginInv, Stored
    <2>3. CASE row[l] = "connected" /\ Goto(l, "close") /\ UNCHANGED error
      <3>1. pc'[l] = "close"
          BY <2>3 DEF Goto, TypeOK
      <3>2. Stored(l) /\ "connected" \notin inflight[l]
          BY <2>3 DEF LoginInv, StoreInv, InflightInv
      <3>3. inflight'[l] = {} /\ error'[l] = "none" /\ row'[l] = "connected"
          BY <2>1, <2>3, <3>2
      <3>4. AwaitInv(l)' /\ StoreInv(l)' /\ InflightInv(l)'
          BY <2>2, <3>1, <3>2, <3>3 DEF AwaitInv, StoreInv, InflightInv, BeforeSave,
                      Controlled, BeforeBrowser, InBrowser, Loop
      <3> QED BY <2>2, <3>4 DEF LoginInv
    <2>4. CASE UNCHANGED <<pc, error>>
      <3>1. AwaitInv(l)' /\ StoreInv(l)' /\ InflightInv(l)'
          BY <2>1, <2>2, <2>4 DEF LoginInv, AwaitInv, StoreInv, InflightInv
      <3> QED BY <2>2, <3>1 DEF LoginInv
    <2>5. CASE Leave(l, "persistence")
      <3>1. pc'[l] = "close" /\ error'[l] = "persistence"
          BY <2>1, <2>5 DEF Leave, Goto, BeforeBrowser, TypeOK
      <3>2. AwaitInv(l)' /\ StoreInv(l)' /\ InflightInv(l)'
          BY <2>1, <2>2, <3>1 DEF LoginInv, AwaitInv, StoreInv, InflightInv, BeforeSave,
                      Controlled, BeforeBrowser, InBrowser, Loop
      <3> QED BY <2>2, <3>2 DEF LoginInv
    <2> QED BY <1>7, <2>3, <2>4, <2>5 DEF Recheck
  <1>8. CASE CloseBrowser(l)
    <2>1. /\ pc[l] = "close" /\ pc'[l] = IF error[l] = "none" THEN "final" ELSE "fail"
          /\ UNCHANGED <<error, platform, row, jar, inflight, stream>>
        BY <1>8 DEF CloseBrowser, Goto, TypeOK, client, store
    <2>2. StreamInv(l)' /\ (Stored(l)' = Stored(l))
        BY <2>1, StreamKept DEF LoginInv, Stored
    <2>3. AwaitInv(l)' /\ StoreInv(l)' /\ InflightInv(l)'
        BY <2>1, <2>2 DEF LoginInv, AwaitInv, StoreInv, InflightInv, BeforeSave,
                      Controlled, BeforeBrowser, InBrowser, Loop
    <2> QED BY <2>2, <2>3 DEF LoginInv
  <1>9. CASE UpdateFailed(l)
    <2>1. /\ pc[l] = "fail" /\ pc'[l] = "final" /\ error[l] # "none"
          /\ UNCHANGED <<error, platform, jar, stream>>
          /\ inflight'[l] \subseteq inflight[l] \cup {"failed"}
          /\ row'[l] = row[l] \/ row'[l] = "failed"
        BY <1>9 DEF UpdateFailed, UpdateRow, Abandon, Goto, TypeOK, client, LoginInv,
                    AwaitInv
    <2>2. StreamInv(l)' /\ (Stored(l)' = Stored(l))
        BY <2>1, StreamKept DEF LoginInv, Stored
    <2>3. AwaitInv(l)' /\ StoreInv(l)' /\ InflightInv(l)'
        BY <2>1, <2>2 DEF LoginInv, AwaitInv, StoreInv, InflightInv, BeforeSave,
                      Controlled, BeforeBrowser, InBrowser, Loop
    <2> QED BY <2>2, <2>3 DEF LoginInv
  <1>10. CASE SendFinal(l)
    <2>1. /\ pc[l] = "final" /\ pc'[l] = "done"
          /\ UNCHANGED <<error, platform, row, jar, inflight>>
        BY <1>10 DEF SendFinal, Goto, TypeOK, store
    <2>2. Stored(l)' = Stored(l)
        BY <2>1 DEF Stored
    <2>3. AwaitInv(l)' /\ StoreInv(l)' /\ InflightInv(l)'
        BY <2>1, <2>2 DEF LoginInv, AwaitInv, StoreInv, InflightInv, BeforeSave,
                      Controlled, BeforeBrowser, InBrowser, Loop
    <2>4. CASE error[l] = "none"
      <3>1. StreamInv(l)'
          BY <2>1, <2>4 DEF StreamInv
      <3> QED BY <2>3, <3>1 DEF LoginInv
    <2>5. CASE error[l] # "none"
      <3>1. UNCHANGED stream \/ Send(l, "failed")
          BY <1>10, <2>5 DEF SendFinal
      <3>2. "failed" \in SessionState \ {"connected"}
          BY Statuses
      <3>3. StreamInv(l)'
          BY <2>1, <3>1, <3>2, StreamKept DEF LoginInv
      <3> QED BY <2>3, <3>3 DEF LoginInv
    <2> QED BY <2>4, <2>5
  <1> QED BY <1>1, <1>2, <1>3, <1>4, <1>5, <1>6, <1>7, <1>8, <1>9, <1>10 DEF Operation

\* A statement that lands late: a commit only for a task that waited for it
\* or gave up on it, another status only over a row without cookies or after
\* a failure.
LEMMA LandOwn ==
    ASSUME TypeOK, NEW l \in Logins, LoginInv(l), Land(l)
    PROVE  LoginInv(l)'
  <1>1. PICK stmt \in inflight[l] :
            /\ Execute(l, stmt)
            /\ inflight' = [inflight EXCEPT ![l] = @ \ {stmt}]
            /\ UNCHANGED <<client, task, platform, admitted, crashes>>
      BY DEF Land
  <1>2. /\ UNCHANGED <<stream, pc, error, platform>>
        /\ inflight'[l] = inflight[l] \ {stmt}
      BY <1>1 DEF client, task, TypeOK
  <1>3. StreamInv(l)'
      BY <1>2 DEF LoginInv, StreamInv
  <1>4. CASE stmt = "idle" /\ InsertRow(l)
    <2>1. /\ Stored(l)' = Stored(l)
          /\ row'[l] = row[l] \/ (row[l] = "absent" /\ row'[l] = "idle")
        BY <1>2, <1>4 DEF InsertRow, Stored, TypeOK
    <2>2. AwaitInv(l)' /\ StoreInv(l)' /\ InflightInv(l)'
        BY <1>2, <2>1 DEF LoginInv, AwaitInv, StoreInv, InflightInv
    <2> QED BY <1>3, <2>2 DEF LoginInv
  <1>5. CASE stmt \in {"loading", "waiting_for_user"} /\ UpdateRow(l, stmt)
    <2>1. /\ Stored(l)' = Stored(l)
          /\ row'[l] = row[l] \/ row'[l] = stmt
        BY <1>2, <1>5 DEF UpdateRow, Stored, TypeOK
    <2>2. error[l] \in GivenUp /\ ~Stored(l)
        BY <1>5 DEF LoginInv, InflightInv, StoreInv, GivenUp
    <2>3. AwaitInv(l)' /\ StoreInv(l)' /\ InflightInv(l)'
        BY <1>2, <1>5, <2>1, <2>2 DEF LoginInv, AwaitInv, StoreInv, InflightInv, GivenUp
    <2> QED BY <1>3, <2>3 DEF LoginInv
  <1>6. CASE stmt = "failed" /\ UpdateRow(l, stmt)
    <2>1. /\ Stored(l)' = Stored(l)
          /\ row'[l] = row[l] \/ row'[l] = "failed"
        BY <1>2, <1>6 DEF UpdateRow, Stored, TypeOK
    <2>2. error[l] # "none"
        BY <1>6 DEF LoginInv, InflightInv
    <2>3. AwaitInv(l)' /\ StoreInv(l)' /\ InflightInv(l)'
        BY <1>2, <2>1, <2>2 DEF LoginInv, AwaitInv, StoreInv, InflightInv
    <2> QED BY <1>3, <2>3 DEF LoginInv
  <1>7. CASE stmt = "connected" /\ CommitLogin(l)
    <2>1. /\ ~Stored(l)
          /\ pc[l] = "recheck" \/ error[l] = "persistence"
        BY <1>7 DEF LoginInv, InflightInv
    <2>2. CASE row[l] \in Open
      <3>1. row'[l] = "connected" /\ Stored(l)'
          BY <1>2, <1>7, <2>2 DEF CommitLogin, Stored, TypeOK
      <3>2. pc[l] = "recheck" => error[l] = "none"
          BY DEF LoginInv, AwaitInv
      <3>3. AwaitInv(l)' /\ StoreInv(l)' /\ InflightInv(l)'
          BY <1>2, <1>7, <2>1, <3>1, <3>2
             DEF LoginInv, AwaitInv, StoreInv, InflightInv, GivenUp
      <3> QED BY <1>3, <3>3 DEF LoginInv
    <2>3. CASE row[l] \notin Open
      <3>1. UNCHANGED row /\ Stored(l)' = Stored(l)
          BY <1>2, <1>7, <2>3 DEF CommitLogin, Stored
      <3>2. AwaitInv(l)' /\ StoreInv(l)' /\ InflightInv(l)'
          BY <1>2, <3>1 DEF LoginInv, AwaitInv, StoreInv, InflightInv
      <3> QED BY <1>3, <3>2 DEF LoginInv
    <2> QED BY <2>2, <2>3
  <1> QED BY <1>1, <1>4, <1>5, <1>6, <1>7 DEF Execute

LEMMA OtherOwn ==
    ASSUME TypeOK, NEW l \in Logins, LoginInv(l), Other(l)
    PROVE  LoginInv(l)'
  <1>1. CASE Login(l) \/ Refuse(l)
    <2>1. /\ pc[l] \in BeforeSave /\ pc'[l] \in BeforeSave
          /\ UNCHANGED <<error, platform, row, jar, inflight, stream>>
        BY <1>1 DEF Login, Refuse, Goto, client, store, TypeOK, BeforeSave
    <2>2. row'[l] # "connected" /\ StreamInv(l)'
        BY <2>1, NotConnectedBefore, StreamKept DEF LoginInv
    <2> QED BY <2>1, <2>2, QuietStep
  <1>2. CASE Abort(l)
    <2>1. /\ pc[l] \in BeforeSave
          /\ \E failure \in GivenUp : Leave(l, failure)
          /\ Abandon(l, Dropped(l))
          /\ UNCHANGED <<stream, platform, row, jar>>
        BY <1>2 DEF Abort, client, BeforeSave, GivenUp
    <2> QED BY <2>1, LeaveGivesUp
  <1>3. CASE DeadlineExpires(l) \/ CloseStream(l)
    <2>1. Same(l)
        BY <1>3 DEF DeadlineExpires, CloseStream, Same, Stored, client, store, task,
                    TypeOK
    <2> QED BY <2>1, SameKeeps
  <1>4. CASE Discard(l)
    <2>1. /\ UNCHANGED <<stream, pc, error, platform, row, jar>>
          /\ inflight'[l] \subseteq inflight[l]
        BY <1>4 DEF Discard, client, task, TypeOK
    <2>2. Stored(l)' = Stored(l)
        BY <2>1 DEF Stored
    <2>3. AwaitInv(l)' /\ StoreInv(l)' /\ InflightInv(l)' /\ StreamInv(l)'
        BY <2>1, <2>2 DEF LoginInv, AwaitInv, StoreInv, InflightInv, StreamInv
    <2> QED BY <2>3 DEF LoginInv
  <1>5. CASE Cancel(l)
    <2>1. /\ UNCHANGED <<stream, pc, error, platform, jar, inflight>>
          /\ row'[l] = row[l] \/ row'[l] = "deleted"
        BY <1>5 DEF Cancel, client, task, TypeOK
    <2>2. Stored(l)' = Stored(l)
        BY <2>1 DEF Stored
    <2>3. AwaitInv(l)' /\ StoreInv(l)' /\ InflightInv(l)' /\ StreamInv(l)'
        BY <2>1, <2>2 DEF LoginInv, AwaitInv, StoreInv, InflightInv, StreamInv
    <2> QED BY <2>3 DEF LoginInv
  <1>6. CASE Land(l)
      BY <1>6, LandOwn
  <1> QED BY <1>1, <1>2, <1>3, <1>4, <1>5, <1>6 DEF Other

-----------------------------------------------------------------------------
(* The invariant holds.                                                    *)

\* The counter of poll errors stays below the limit wherever a poll follows.
LEMMA OwnReconnects ==
    ASSUME TypeOK, ReconnectsInTime, NEW l \in Logins, Operation(l) \/ Other(l),
           pc'[l] \in {"get", "poll", "pause", "save"}
    PROVE  errors'[l] < MaxErrors
  <1>1. CASE SendWaiting(l) \/ Reconnect(l)
      BY <1>1, Bounds DEF SendWaiting, Reconnect, TypeOK
  <1>2. CASE PollCookies(l)
    <2>1. errors[l] < MaxErrors /\ errors[l] \in Nat /\ MaxErrors \in Nat
        BY <1>2, LoginAssumption DEF PollCookies, ReconnectsInTime, TypeOK
    <2>2. errors'[l] = 0 \/ (errors'[l] = errors[l] + 1 /\ pc'[l] = "reconnect")
          \/ (errors'[l] = errors[l] + 1 /\ errors[l] + 1 < MaxErrors)
        BY <1>2 DEF PollCookies, Goto, TypeOK
    <2> QED BY <2>1, <2>2, Bounds
  <1>3. CASE GetSession(l) \/ Pause(l)
      BY <1>3 DEF GetSession, Pause, Goto, Leave, ReconnectsInTime, TypeOK
  <1>4. CASE \/ DeadlineExpires(l) \/ Land(l) \/ Discard(l) \/ CloseStream(l)
             \/ Cancel(l)
      BY <1>4 DEF DeadlineExpires, Land, Discard, CloseStream, Cancel, task,
                  ReconnectsInTime, TypeOK
  <1>5. CASE Recheck(l)
      BY <1>5 DEF Recheck, Goto, Leave, BeforeBrowser, TypeOK
  <1>6. CASE SaveLogin(l) \/ OperationFails(l)
      BY <1>6 DEF SaveLogin, OperationFails, Goto, Leave, TypeOK
  <1>7. CASE Abort(l)
      BY <1>7 DEF Abort, Goto, Leave, TypeOK
  <1>8. CASE \/ CreateSession(l) \/ SendStarted(l) \/ AcquireBrowser(l) \/ NewPage(l)
             \/ Navigate(l) \/ UpdateLoading(l) \/ UpdateWaiting(l) \/ CloseBrowser(l)
             \/ UpdateFailed(l) \/ SendFinal(l) \/ Login(l) \/ Refuse(l)
      BY <1>8 DEF CreateSession, SendStarted, AcquireBrowser, NewPage, Navigate,
                  BrowserCall, UpdateLoading, UpdateWaiting, StoreTransition,
                  CloseBrowser, UpdateFailed, SendFinal, Login, Refuse, Goto, TypeOK
  <1> QED BY <1>1, <1>2, <1>3, <1>4, <1>5, <1>6, <1>7, <1>8 DEF Operation, Other

LEMMA RunningAwaits ==
    /\ {"create", "started", "acquire", "new_page", "loading", "navigate", "waiting",
        "send_waiting", "get", "poll", "pause", "reconnect", "save", "recheck",
        "close", "fail", "final"} \subseteq Running
    /\ \A await \in {"new", "refused", "done", "crashed"} : await \notin Running
    /\ Controlled \subseteq Running
  BY DEF Running, Bounded, Controlled, BeforeBrowser, InBrowser, Loop

\* A running task keeps its permit until it is done.
LEMMA OperationPermit ==
    ASSUME TypeOK, NEW l \in Logins, Operation(l)
    PROVE  /\ pc[l] \in Running
           /\ \/ pc'[l] \in Running /\ UNCHANGED admitted
              \/ pc'[l] = "done" /\ admitted' = admitted \ {l}
  <1> USE RunningAwaits DEF TypeOK, Goto
  <1>1. CASE CreateSession(l)
      BY <1>1 DEF CreateSession
  <1>2. CASE SendFinal(l)
      BY <1>2 DEF SendFinal
  <1>3. CASE GetSession(l) \/ Recheck(l) \/ SaveLogin(l) \/ OperationFails(l)
      BY <1>3 DEF GetSession, Recheck, SaveLogin, OperationFails, Leave
  <1>4. CASE PollCookies(l) \/ Pause(l) \/ Reconnect(l) \/ CloseBrowser(l) \/ UpdateFailed(l)
      BY <1>4 DEF PollCookies, Pause, Reconnect, CloseBrowser, UpdateFailed
  <1>5. CASE \/ SendStarted(l) \/ SendWaiting(l) \/ AcquireBrowser(l) \/ NewPage(l)
             \/ Navigate(l) \/ UpdateLoading(l) \/ UpdateWaiting(l)
      BY <1>5 DEF SendStarted, SendWaiting, AcquireBrowser, NewPage, Navigate,
                  BrowserCall, UpdateLoading, UpdateWaiting, StoreTransition
  <1> QED BY <1>1, <1>2, <1>3, <1>4, <1>5 DEF Operation

LEMMA StepPermits ==
    ASSUME TypeOK, PermitInv, [Next]_vars
    PROVE  PermitInv'
  <1>1. /\ IsFiniteSet(admitted) /\ Cardinality(admitted) \in Nat
        /\ Cardinality(admitted) <= Capacity /\ Capacity \in Nat
        /\ admitted = {k \in Logins : pc[k] \in Running}
      BY FS_CardinalityType, LoginAssumption DEF PermitInv, PermitsHeldByRunningTasks,
                                                 Capacity
  <1>2. ASSUME NEW l \in Logins, pc' = [pc EXCEPT ![l] = pc'[l]],
               pc'[l] \in Running <=> pc[l] \in Running, UNCHANGED admitted
        PROVE  PermitInv'
    <2>1. admitted' = {k \in Logins : pc'[k] \in Running}
        BY <1>1, <1>2 DEF TypeOK
    <2> QED BY <1>1, <1>2, <2>1 DEF PermitInv, PermitsHeldByRunningTasks, Capacity
  <1>3. ASSUME NEW l \in Logins, pc' = [pc EXCEPT ![l] = "done"],
               admitted' = admitted \ {l}
        PROVE  PermitInv'
    <2>1. admitted' = {k \in Logins : pc'[k] \in Running}
        BY <1>1, <1>3, RunningAwaits DEF TypeOK
    <2>2. IsFiniteSet(admitted') /\ Cardinality(admitted') <= Cardinality(admitted)
        BY <1>1, <1>3, FS_Subset
    <2>3. Cardinality(admitted') \in Nat
        BY <2>2, FS_CardinalityType
    <2> QED BY <1>1, <2>1, <2>2, <2>3 DEF PermitInv, PermitsHeldByRunningTasks, Capacity
  <1>4. ASSUME NEW l \in Logins, Login(l) PROVE PermitInv'
    <2>1. admitted' = admitted \cup {l} /\ pc' = [pc EXCEPT ![l] = "create"]
        BY <1>4 DEF Login, Goto
    <2>2. admitted' = {k \in Logins : pc'[k] \in Running}
        BY <1>1, <2>1, RunningAwaits DEF TypeOK
    <2>3. /\ IsFiniteSet(admitted')
          /\ Cardinality(admitted') <= Cardinality(admitted) + 1
          /\ Cardinality(admitted') \in Nat
      <3>1. IsFiniteSet(admitted')
            /\ Cardinality(admitted') = IF l \in admitted THEN Cardinality(admitted)
                                        ELSE Cardinality(admitted) + 1
          BY <1>1, <2>1, FS_AddElement
      <3> QED BY <1>1, <3>1
    <2>4. Cardinality(admitted) < Capacity
        BY <1>4 DEF Login
    <2> QED BY <1>1, <2>2, <2>3, <2>4 DEF PermitInv, PermitsHeldByRunningTasks, Capacity
  <1>5. ASSUME NEW l \in Logins, Operation(l) PROVE PermitInv'
    <2>1. pc' = [pc EXCEPT ![l] = pc'[l]]
        BY <1>5 DEF TypeOK, Goto, Leave, Operation, CreateSession, SendStarted, AcquireBrowser, NewPage,
             Navigate, BrowserCall, UpdateLoading, UpdateWaiting, StoreTransition,
             SendWaiting, GetSession, PollCookies, Pause, Reconnect, SaveLogin,
             Recheck, CloseBrowser, UpdateFailed, SendFinal, OperationFails
    <2> QED BY <1>2, <1>3, <1>5, <2>1, OperationPermit
  <1>6. ASSUME NEW l \in Logins, Refuse(l) \/ Abort(l) PROVE PermitInv'
    <2>1. /\ pc' = [pc EXCEPT ![l] = pc'[l]] /\ UNCHANGED admitted
          /\ pc'[l] \in Running <=> pc[l] \in Running
        BY <1>6, RunningAwaits DEF Refuse, Abort, Leave, Goto, TypeOK
    <2> QED BY <1>2, <2>1
  <1>7. CASE Crash
    <2>1. admitted' = {} /\ \A k \in Logins : pc'[k] \notin Running
        BY <1>1, <1>7, RunningAwaits DEF Crash
    <2> QED BY <1>1, <2>1, FS_EmptySet DEF PermitInv, PermitsHeldByRunningTasks, Capacity
  <1>8. CASE UNCHANGED <<pc, admitted>>
      BY <1>8 DEF PermitInv, PermitsHeldByRunningTasks, Capacity
  <1> QED BY <1>4, <1>5, <1>6, <1>7, <1>8
          DEF Next, vars, task, DeadlineExpires, Land, Discard, CloseStream, Cancel

LEMMA CrashKeeps == IndInv /\ Crash => IndInv'
  <1> SUFFICES ASSUME IndInv, Crash PROVE IndInv'
      OBVIOUS
  <1>1. TypeOK'
      BY StepTypeOK DEF IndInv, Next
  <1>2. ReconnectsInTime'
      BY DEF IndInv, ReconnectsInTime, Crash, TypeOK
  <1>3. ASSUME NEW k \in Logins PROVE LoginInv(k)'
    <2>1. /\ UNCHANGED <<stream, error, row, jar, platform>>
          /\ inflight'[k] = {}
          /\ pc'[k] = pc[k] \/ pc'[k] = "crashed"
        BY DEF Crash
    <2>2. Stored(k)' = Stored(k)
        BY <2>1 DEF Stored
    <2>3. k \in admitted => pc[k] # "done"
        BY RunningAwaits DEF IndInv, PermitInv, PermitsHeldByRunningTasks
    <2>4. pc'[k] = "done" <=> pc[k] = "done"
        BY <2>3 DEF Crash
    <2>5. LoginInv(k)
        BY DEF IndInv
    <2>6. AwaitInv(k)' /\ StoreInv(k)' /\ InflightInv(k)'
        BY <2>1, <2>2, <2>5 DEF LoginInv, AwaitInv, StoreInv, InflightInv, BeforeSave,
                    Controlled, BeforeBrowser, InBrowser, Loop
    <2>7. StreamInv(k)'
        BY <2>1, <2>4, <2>5 DEF LoginInv, StreamInv
    <2> QED BY <2>6, <2>7 DEF LoginInv
  <1>4. PermitInv'
      BY StepPermits DEF IndInv, Next
  <1> QED BY <1>1, <1>2, <1>3, <1>4 DEF IndInv

LEMMA InitIndInv == Init => IndInv
  <1> SUFFICES ASSUME Init PROVE IndInv
      OBVIOUS
  <1>1. TypeOK /\ ReconnectsInTime
      BY InitTypeOK, Bounds DEF Init, ReconnectsInTime
  <1>2. PermitInv
      BY FS_EmptySet, LoginAssumption, RunningAwaits
         DEF Init, PermitInv, PermitsHeldByRunningTasks, Capacity
  <1>3. ASSUME NEW l \in Logins PROVE LoginInv(l)
    <2>1. ~Stored(l) /\ pc[l] = "new" /\ error[l] = "none" /\ inflight[l] = {}
          /\ row[l] = "absent" /\ stream[l] = << >>
        BY <1>1 DEF Init, Stored, TypeOK
    <2> QED BY <2>1 DEF LoginInv, AwaitInv, StoreInv, InflightInv, StreamInv
  <1> QED BY <1>1, <1>2, <1>3 DEF IndInv

LEMMA StepIndInv == IndInv /\ [Next]_vars => IndInv'
  <1> SUFFICES ASSUME IndInv, [Next]_vars PROVE IndInv'
      OBVIOUS
  <1>1. TypeOK /\ ReconnectsInTime /\ PermitInv /\ \A k \in Logins : LoginInv(k)
      BY DEF IndInv
  <1>2. TypeOK' /\ PermitInv'
      BY <1>1, StepTypeOK, StepPermits
  <1>3. ASSUME NEW l \in Logins, Operation(l) \/ Other(l) PROVE IndInv'
    <2>1. ASSUME NEW k \in Logins, k # l PROVE Same(k)
        BY <1>1, <1>3, <2>1, OperationFrame, OtherFrame
    <2>2. \A k \in Logins : LoginInv(k)'
        BY <1>1, <1>3, <2>1, SameKeeps, OperationOwn, OtherOwn
    <2>3. ReconnectsInTime'
        BY <1>1, <1>3, <2>1, OwnReconnects DEF Same, ReconnectsInTime
    <2> QED BY <1>2, <2>2, <2>3 DEF IndInv
  <1>4. CASE Crash
      BY <1>4, CrashKeeps
  <1>5. CASE UNCHANGED vars
    <2>1. ReconnectsInTime'
        BY <1>1, <1>5 DEF vars, task, ReconnectsInTime
    <2>2. ASSUME NEW k \in Logins PROVE Same(k)
        BY <1>5 DEF vars, task, store, client, Same, Stored
    <2> QED BY <1>1, <1>2, <2>1, <2>2, SameKeeps DEF IndInv
  <1> QED BY <1>3, <1>4, <1>5 DEF Next, Other

THEOREM Inductive == Spec => []IndInv
  BY InitIndInv, StepIndInv, PTL DEF Spec

-----------------------------------------------------------------------------
(* What follows.                                                           *)

\* Every variable always has the type TypeOK gives it.
THEOREM TypeCorrect == Spec => []TypeOK
  <1>1. IndInv => TypeOK
      BY DEF IndInv
  <1> QED BY <1>1, Inductive, PTL

\* Atomic persistence: no crash, late statement or second login can leave a
\* session connected without its cookies.
THEOREM AtomicPersistence == Spec => []ConnectedRowHasCookies
  <1>1. IndInv => ConnectedRowHasCookies
      BY DEF IndInv, LoginInv, StoreInv, ConnectedRowHasCookies
  <1> QED BY <1>1, Inductive, PTL

\* Cookies of a login that failed can only come from a save that timed out.
THEOREM TornOnlyBySaveTimeout == Spec => []OnlySaveTimeoutTears
  <1>1. IndInv => OnlySaveTimeoutTears
      BY DEF IndInv, LoginInv, StoreInv, OnlySaveTimeoutTears
  <1> QED BY <1>1, Inductive, PTL

\* Only a successful commit reports Connected, and it stays so until deleted.
THEOREM ConnectedIsDurable == Spec => []ReportedConnectedIsDurable
  <1>1. IndInv => ReportedConnectedIsDurable
      BY DEF IndInv, LoginInv, StreamInv, AwaitInv, ReportedConnectedIsDurable
  <1> QED BY <1>1, Inductive, PTL

\* Admission: permits belong to running tasks and never exceed the capacity.
THEOREM PermitsBounded == Spec => []PermitsHeldByRunningTasks
  <1>1. IndInv => PermitsHeldByRunningTasks
      BY DEF IndInv, PermitInv
  <1> QED BY <1>1, Inductive, PTL

\* The connection is replaced before the error budget is passed.
THEOREM ErrorBudget == Spec => []ReconnectsInTime
  <1>1. IndInv => ReconnectsInTime
      BY DEF IndInv
  <1> QED BY <1>1, Inductive, PTL

-----------------------------------------------------------------------------
(* The event stream: what has been sent follows from the await a task is   *)
(* in.                                                                     *)

Begun == {"new", "create", "started"}
Started == {"acquire", "new_page", "loading", "navigate", "waiting", "send_waiting"}
Asked == Loop \cup {"save", "recheck"}
Ending == {"close", "fail", "final"}

Prefixes == {<< >>, <<"idle">>, <<"idle", "waiting_for_user">>}

SentAt(l) ==
    /\ pc[l] \in Begun => stream[l] = << >>
    /\ pc[l] \in Started => stream[l] = <<"idle">>
    /\ pc[l] \in Asked => stream[l] = <<"idle", "waiting_for_user">>
    /\ pc[l] \in Ending =>
        /\ stream[l] \in Prefixes
        /\ error[l] = "none" => stream[l] = <<"idle", "waiting_for_user">>
    /\ pc[l] = "done" /\ ~closed[l] =>
        /\ stream[l] # << >>
        /\ stream[l][Len(stream[l])] \in {"connected", "failed"}

LEMMA Appends ==
    /\ Append(<< >>, "idle") = <<"idle">>
    /\ Append(<<"idle">>, "waiting_for_user") = <<"idle", "waiting_for_user">>
    /\ \A s \in Seq(SessionState) : \A status \in SessionState :
        /\ Append(s, status) # << >>
        /\ Append(s, status)[Len(Append(s, status))] = status
  <1>1. Append(<< >>, "idle") = <<"idle">>
      OBVIOUS
  <1>2. ASSUME NEW s \in Seq(SessionState), NEW status \in SessionState
        PROVE  /\ Append(s, status) # << >>
               /\ Append(s, status)[Len(Append(s, status))] = status
      OBVIOUS
  <1>3. Append(<<"idle">>, "waiting_for_user") = <<"idle", "waiting_for_user">>
    <2> DEFINE s == <<"idle">>
               t == Append(s, "waiting_for_user")
               u == <<"idle", "waiting_for_user">>
    <2>1. s \in Seq(SessionState) /\ Len(s) = 1 /\ s[1] = "idle"
        BY Statuses
    <2>2. u \in Seq(SessionState) /\ Len(u) = 2 /\ u[1] = "idle"
          /\ u[2] = "waiting_for_user"
        BY Statuses
    <2> HIDE DEF s, u
    <2>3. t \in Seq(SessionState) /\ Len(t) = 2 /\ t[2] = "waiting_for_user"
      <3>1. "waiting_for_user" \in SessionState
          BY Statuses
      <3>2. t \in Seq(SessionState)
          BY <2>1, <3>1
      <3>3. Len(t) = Len(s) + 1
          BY <2>1, <3>1
      <3>4. t[Len(t)] = "waiting_for_user"
          BY <1>2, <2>1, <3>1
      <3> HIDE DEF t
      <3> QED BY <2>1, <3>2, <3>3, <3>4
    <2>4. t[1] = "idle"
        BY <2>1
    <2> HIDE DEF t
    <2>5. t = u
        BY <2>2, <2>3, <2>4
    <2> QED BY <2>5 DEF s, t, u
  <1> QED BY <1>1, <1>2, <1>3

\* What one step of a task sends, and where it goes then.
Sends(l) ==
    \/ pc[l] = "started" /\ pc'[l] = "acquire" /\ Send(l, "idle")
    \/ pc[l] = "send_waiting" /\ pc'[l] = "get" /\ Send(l, "waiting_for_user")
    \/ /\ pc[l] = "final" /\ pc'[l] = "done" /\ ~closed[l]
       /\ Send(l, IF error[l] = "none" THEN "connected" ELSE "failed")

\* A step that sends nothing leaves a task among the awaits with one stream,
\* ends its stay there, or ends the task of a client that is gone.
Silent(l) ==
    /\ stream' = stream
    /\ \/ pc'[l] = pc[l] /\ error'[l] = error[l]
       \/ \E part \in {Begun, Started, Asked} : pc[l] \in part /\ pc'[l] \in part
       \/ /\ pc[l] \in Begun \cup Started \cup Asked
          /\ pc'[l] \in Ending /\ error'[l] # "none"
       \/ pc[l] \in Asked /\ pc'[l] \in Ending
       \/ pc[l] \in Ending /\ pc'[l] \in Ending /\ error'[l] = error[l]
       \/ pc'[l] = "refused"
       \/ pc'[l] = "done" /\ closed[l]

LEMMA OperationSends ==
    ASSUME TypeOK, NEW l \in Logins, Operation(l)
    PROVE  /\ Sends(l) \/ Silent(l)
           /\ closed' = closed
  <1> USE DEF Goto, Leave, client, store, TypeOK, Silent, Begun, Started, Asked,
              Ending, Loop, BeforeBrowser
  <1>1. CASE CreateSession(l)
      BY <1>1 DEF CreateSession
  <1>2. CASE SendStarted(l) \/ SendWaiting(l)
      BY <1>2 DEF SendStarted, SendWaiting, Sends
  <1>3. CASE AcquireBrowser(l) \/ NewPage(l) \/ Navigate(l)
      BY <1>3 DEF AcquireBrowser, NewPage, Navigate, BrowserCall
  <1>4. CASE UpdateLoading(l) \/ UpdateWaiting(l)
      BY <1>4 DEF UpdateLoading, UpdateWaiting, StoreTransition
  <1>5. CASE GetSession(l) \/ PollCookies(l) \/ Pause(l) \/ Reconnect(l)
      BY <1>5 DEF GetSession, PollCookies, Pause, Reconnect
  <1>6. CASE SaveLogin(l) \/ Recheck(l)
      BY <1>6 DEF SaveLogin, Recheck
  <1>7. CASE CloseBrowser(l) \/ UpdateFailed(l)
      BY <1>7 DEF CloseBrowser, UpdateFailed
  <1>8. CASE SendFinal(l)
      BY <1>8 DEF SendFinal, Sends
  <1>9. CASE OperationFails(l)
      BY <1>9 DEF OperationFails
  <1> QED BY <1>1, <1>2, <1>3, <1>4, <1>5, <1>6, <1>7, <1>8, <1>9 DEF Operation

LEMMA OtherSends ==
    ASSUME TypeOK, NEW l \in Logins, Other(l)
    PROVE  /\ Silent(l)
           /\ closed[l] => closed'[l]
           /\ \A k \in Logins : k # l => closed'[k] = closed[k]
           /\ closed'[l] # closed[l] => pc'[l] # "done"
  <1> USE DEF Goto, Leave, client, task, store, TypeOK, Silent, Begun, Started,
              Asked, Ending, Loop, BeforeBrowser, InBrowser
  <1>1. CASE Login(l) \/ Refuse(l) \/ DeadlineExpires(l) \/ Cancel(l)
      BY <1>1 DEF Login, Refuse, DeadlineExpires, Cancel
  <1>2. CASE CloseStream(l)
      BY <1>2 DEF CloseStream, Running, Controlled, Bounded
  <1>3. CASE Abort(l)
      BY <1>3 DEF Abort, Controlled
  <1>4. CASE Land(l) \/ Discard(l)
      BY <1>4 DEF Land, Discard
  <1> QED BY <1>1, <1>2, <1>3, <1>4 DEF Other

LEMMA SentOwn ==
    ASSUME TypeOK, NEW l \in Logins, SentAt(l), Sends(l) \/ Silent(l),
           closed[l] => closed'[l]
    PROVE  SentAt(l)'
  <1>1. stream[l] \in Seq(SessionState) /\ error[l] \in Failure \cup {"none"}
      BY DEF TypeOK
  <1>2. CASE Sends(l)
    <2>1. CASE pc[l] = "started" /\ pc'[l] = "acquire" /\ Send(l, "idle")
      <3>1. stream'[l] = <<"idle">>
          BY <2>1, Appends DEF SentAt, Begun, Send, TypeOK
      <3> QED BY <2>1, <3>1 DEF SentAt, Begun, Started, Asked, Ending, Loop
    <2>2. CASE pc[l] = "send_waiting" /\ pc'[l] = "get" /\ Send(l, "waiting_for_user")
      <3>1. stream'[l] = <<"idle", "waiting_for_user">>
          BY <2>2, Appends DEF SentAt, Started, Send, TypeOK
      <3> QED BY <2>2, <3>1 DEF SentAt, Begun, Started, Asked, Ending, Loop
    <2>3. CASE /\ pc[l] = "final" /\ pc'[l] = "done" /\ ~closed[l]
               /\ Send(l, IF error[l] = "none" THEN "connected" ELSE "failed")
      <3>1. PICK status \in {"connected", "failed"} :
                stream'[l] = Append(stream[l], status)
          BY <2>3 DEF Send, TypeOK
      <3>2. stream'[l] # << >> /\ stream'[l][Len(stream'[l])] = status
          BY <1>1, <3>1, Statuses, Appends
      <3> QED BY <2>3, <3>2 DEF SentAt, Begun, Started, Asked, Ending, Loop
    <2> QED BY <1>2, <2>1, <2>2, <2>3 DEF Sends
  <1>3. CASE Silent(l)
    <2>1. stream'[l] = stream[l]
        BY <1>3 DEF Silent
    <2> QED BY <1>3, <2>1
        DEF Silent, SentAt, Begun, Started, Asked, Ending, Loop, Prefixes
  <1> QED BY <1>2, <1>3

\* What does not touch a task, its client and its stream.
Untouched(k) ==
    /\ pc'[k] = pc[k] /\ error'[k] = error[k]
    /\ stream'[k] = stream[k] /\ closed'[k] = closed[k]

LEMMA UntouchedKeeps ==
    ASSUME NEW k \in Logins, SentAt(k), Untouched(k)
    PROVE  SentAt(k)'
  BY DEF SentAt, Untouched

SentInv == \A l \in Logins : SentAt(l)

LEMMA InitSent == Init => SentInv
  BY DEF Init, SentInv, SentAt, Begun, Started, Asked, Ending, Loop

LEMMA StepSent == IndInv /\ SentInv /\ [Next]_vars => SentInv'
  <1> SUFFICES ASSUME IndInv, SentInv, [Next]_vars, NEW k \in Logins
               PROVE  SentAt(k)'
      BY DEF SentInv
  <1>1. TypeOK /\ SentAt(k)
      BY DEF IndInv, SentInv
  <1>2. ASSUME NEW l \in Logins, Operation(l) \/ Other(l) PROVE SentAt(k)'
    <2>1. CASE k = l
        BY <1>1, <1>2, <2>1, OperationSends, OtherSends, SentOwn
    <2>2. CASE k # l
      <3>1. Same(k)
          BY <1>1, <1>2, <2>2, OperationFrame, OtherFrame
      <3>2. closed'[k] = closed[k]
          BY <1>1, <1>2, <2>2, OperationSends, OtherSends
      <3> QED BY <1>1, <3>1, <3>2, UntouchedKeeps DEF Same, Untouched
    <2> QED BY <2>1, <2>2
  <1>3. CASE Crash
    <2>1. pc'[k] = "crashed" \/ Untouched(k)
      <3>1. /\ pc'[k] = IF k \in admitted THEN "crashed" ELSE pc[k]
            /\ closed'[k] = (closed[k] \/ k \in admitted)
            /\ stream' = stream /\ error' = error
          BY <1>3 DEF Crash
      <3>2. closed[k] \in BOOLEAN
          BY <1>1 DEF TypeOK
      <3> QED BY <3>1, <3>2 DEF Untouched
    <2>2. CASE pc'[k] = "crashed"
        BY <2>2 DEF SentAt, Begun, Started, Asked, Ending, Loop
    <2> QED BY <1>1, <2>1, <2>2, UntouchedKeeps
  <1>4. CASE UNCHANGED vars
      BY <1>1, <1>4, UntouchedKeeps DEF vars, task, client, Untouched
  <1> QED BY <1>2, <1>3, <1>4 DEF Next, Other

LEMMA StreamInvariant == Spec => [](IndInv /\ SentInv)
  <1>1. Init => IndInv /\ SentInv
      BY InitIndInv, InitSent
  <1>2. IndInv /\ SentInv /\ [Next]_vars => (IndInv /\ SentInv)'
      BY StepIndInv, StepSent
  <1> QED BY <1>1, <1>2, PTL DEF Spec

\* A task that returns has told its client how the login ended, unless the
\* client left first.
THEOREM FinalEvent == Spec => []EndsWithFinalEvent
  <1>1. IndInv /\ SentInv => EndsWithFinalEvent
      BY DEF SentInv, SentAt, EndsWithFinalEvent
  <1> QED BY <1>1, StreamInvariant, PTL

LEMMA StepStream ==
    ASSUME IndInv, SentInv, Next, NEW k \in Logins, stream'[k] # stream[k]
    PROVE  \E status \in SessionState :
            /\ stream'[k] = Append(stream[k], status)
            /\ <<stream[k], status>> \in
                {<< << >>, "idle">>, << << >>, "failed">>,
                 << <<"idle">>, "waiting_for_user">>, << <<"idle">>, "failed">>,
                 << <<"idle", "waiting_for_user">>, "connected">>,
                 << <<"idle", "waiting_for_user">>, "failed">>}
  <1>1. TypeOK /\ SentAt(k)
      BY DEF IndInv, SentInv
  <1>2. ASSUME NEW l \in Logins, Operation(l) \/ Other(l) PROVE Sends(k)
    <2>1. k = l
        BY <1>1, <1>2, OperationFrame, OtherFrame DEF Same
    <2> QED BY <1>1, <1>2, <2>1, OperationSends, OtherSends DEF Silent
  <1>3. ~Crash
      BY DEF Crash
  <1>4. Sends(k)
      BY <1>2, <1>3 DEF Next, Other
  <1>5. CASE pc[k] = "started" /\ Send(k, "idle")
    <2>1. stream[k] = << >> /\ stream'[k] = Append(stream[k], "idle")
        BY <1>1, <1>5 DEF SentAt, Begun, Send, TypeOK
    <2> QED BY <2>1, Statuses
  <1>6. CASE pc[k] = "send_waiting" /\ Send(k, "waiting_for_user")
    <2>1. stream[k] = <<"idle">> /\ stream'[k] = Append(stream[k], "waiting_for_user")
        BY <1>1, <1>6 DEF SentAt, Started, Send, TypeOK
    <2> QED BY <2>1, Statuses
  <1>7. CASE /\ pc[k] = "final"
             /\ Send(k, IF error[k] = "none" THEN "connected" ELSE "failed")
    <2>1. /\ stream[k] \in Prefixes
          /\ error[k] = "none" => stream[k] = <<"idle", "waiting_for_user">>
        BY <1>1, <1>7 DEF SentAt, Ending
    <2>2. CASE error[k] = "none"
      <3>1. stream'[k] = Append(stream[k], "connected")
          BY <1>1, <1>7, <2>2 DEF Send, TypeOK
      <3> QED BY <2>1, <2>2, <3>1, Statuses
    <2>3. CASE error[k] # "none"
      <3>1. stream'[k] = Append(stream[k], "failed")
          BY <1>1, <1>7, <2>3 DEF Send, TypeOK
      <3> QED BY <2>1, <3>1, Statuses DEF Prefixes
    <2> QED BY <2>2, <2>3
  <1> QED BY <1>4, <1>5, <1>6, <1>7 DEF Sends

\* The stream reports idle, then waiting_for_user, then one final status.
THEOREM StreamProtocol == Spec => StreamFollowsProtocol
  <1>1. IndInv /\ SentInv /\ [Next]_vars =>
            [\A l \in Logins : stream'[l] # stream[l] =>
                \E status \in SessionState :
                    /\ stream'[l] = Append(stream[l], status)
                    /\ <<stream[l], status>> \in
                        {<< << >>, "idle">>, << << >>, "failed">>,
                         << <<"idle">>, "waiting_for_user">>, << <<"idle">>, "failed">>,
                         << <<"idle", "waiting_for_user">>, "connected">>,
                         << <<"idle", "waiting_for_user">>, "failed">>}]_vars
      BY StepStream
  <1> QED BY <1>1, StreamInvariant, PTL DEF Spec, StreamFollowsProtocol

-----------------------------------------------------------------------------
(* Cancelling is for good.                                                 *)

\* What a statement does to the login it is of.
LEMMA StatementOfDeleted ==
    ASSUME TypeOK, NEW l \in Logins, row[l] = "deleted", platform' = platform,
           \/ InsertRow(l)
           \/ \E status \in SessionState : UpdateRow(l, status)
           \/ CommitLogin(l)
           \/ UNCHANGED <<row, jar>>
    PROVE  row'[l] = "deleted" /\ jar' = jar
  BY DEF TypeOK, InsertRow, UpdateRow, CommitLogin, SessionState, Open

LEMMA StepDeleted ==
    ASSUME TypeOK, Next, NEW k \in Logins, row[k] = "deleted"
    PROVE  row'[k] = "deleted" /\ Stored(k)' = Stored(k)
  <1>1. ASSUME NEW l \in Logins, l # k, Operation(l) \/ Other(l)
        PROVE  row'[k] = "deleted" /\ Stored(k)' = Stored(k)
      BY <1>1, OperationFrame, OtherFrame DEF Same
  <1>2. CASE Operation(k) \/ Land(k)
    <2>1. platform' = platform
        BY <1>2
         DEF Operation, CreateSession, SendStarted, AcquireBrowser, NewPage,
             Navigate, BrowserCall, UpdateLoading, UpdateWaiting, StoreTransition,
             SendWaiting, GetSession, PollCookies, Pause, Reconnect, SaveLogin,
             Recheck, CloseBrowser, UpdateFailed, SendFinal, OperationFails, Land
    <2>2. \/ InsertRow(k)
          \/ \E status \in SessionState : UpdateRow(k, status)
          \/ CommitLogin(k)
          \/ UNCHANGED <<row, jar>>
        BY <1>2, Statuses
         DEF Operation, CreateSession, SendStarted, AcquireBrowser, NewPage,
             Navigate, BrowserCall, UpdateLoading, UpdateWaiting, StoreTransition,
             SendWaiting, GetSession, PollCookies, Pause, Reconnect, SaveLogin,
             Recheck, CloseBrowser, UpdateFailed, SendFinal, OperationFails, store,
             Land, Execute
    <2> QED BY <2>1, <2>2, StatementOfDeleted DEF Stored
  <1>3. CASE Cancel(k)
      BY <1>3 DEF Cancel, TypeOK, SessionState, Stored
  <1>4. CASE \/ Login(k) \/ Refuse(k) \/ Abort(k) \/ DeadlineExpires(k)
             \/ Discard(k) \/ CloseStream(k)
      BY <1>4 DEF Login, Refuse, Abort, DeadlineExpires, Discard, CloseStream,
                  store, Stored
  <1>5. CASE Crash
      BY <1>5 DEF Crash, Stored
  <1> QED BY <1>1, <1>2, <1>3, <1>4, <1>5 DEF Next, Other

\* No statement, late or not, brings a deleted session back, and cookies not
\* yet stored then never are.
THEOREM CancelIsFinal == Spec => CancelledStays
  <1>1. TypeOK /\ [Next]_vars =>
            [\A l \in Logins : row[l] = "deleted" =>
                /\ row'[l] = "deleted"
                /\ (l \in jar'[platform[l]] => Stored(l))]_vars
    <2>1. ASSUME TypeOK, Next, NEW l \in Logins, row[l] = "deleted"
          PROVE  row'[l] = "deleted" /\ (l \in jar'[platform[l]] => Stored(l))
      <3>1. row'[l] = "deleted" /\ Stored(l)' = Stored(l)
          BY <2>1, StepDeleted
      <3>2. platform' = platform
          BY <2>1 DEF Next, Operation, CreateSession, SendStarted, AcquireBrowser,
             NewPage, Navigate, BrowserCall, UpdateLoading, UpdateWaiting,
             StoreTransition, SendWaiting, GetSession, PollCookies, Pause, Reconnect,
             SaveLogin, Recheck, CloseBrowser, UpdateFailed, SendFinal,
             OperationFails, Land, Login, Refuse, Abort, DeadlineExpires, Discard,
             CloseStream, Cancel, Crash
      <3> QED BY <3>1, <3>2 DEF Stored
    <2> QED BY <2>1
  <1> QED BY <1>1, TypeCorrect, PTL DEF Spec, CancelledStays

-----------------------------------------------------------------------------
(* Login implements LoginLifecycle.                                        *)

\* A row says failed only of a login that did.
FailedInv == \A l \in Logins : row[l] = "failed" => error[l] # "none"

Kept(l) == row'[l] = row[l] /\ jar' = jar
SameError(l) == error'[l] = error[l]

\* What a step does to the row, the failure and the cookies of its login.
GivesUp(l) == Kept(l) /\ error[l] = "none" /\ error'[l] # "none"
Inserts(l) == row[l] = "absent" /\ row'[l] = "idle" /\ jar' = jar /\ SameError(l)
Advances(l) == /\ row[l] \in Open /\ row'[l] \in Open /\ jar' = jar /\ SameError(l)
Revives(l) == /\ row[l] = "failed" /\ row'[l] \in Open /\ jar' = jar
              /\ SameError(l) /\ error[l] \in GivenUp
MarksFailed(l) == /\ row[l] \in SessionState /\ row'[l] = "failed" /\ jar' = jar
                  /\ SameError(l) /\ error[l] # "none"
Commits(l) == /\ row[l] \in Open /\ row'[l] = "connected" /\ SameError(l)
              /\ error[l] \in {"none", "persistence"}
              /\ jar' = [jar EXCEPT ![platform[l]] = @ \cup {l}]
Deletes(l) == /\ row[l] \in SessionState /\ row'[l] = "deleted" /\ jar' = jar
              /\ SameError(l)

Effect(l) ==
    \/ Kept(l) /\ SameError(l)
    \/ GivesUp(l) \/ Inserts(l) \/ Advances(l) \/ Revives(l) \/ MarksFailed(l)
    \/ Commits(l) \/ Deletes(l)

\* An update of the row by a login that goes on, or gave up before its save.
LEMMA UpdateEffect ==
    ASSUME TypeOK, NEW l \in Logins, NEW status \in {"loading", "waiting_for_user"},
           UpdateRow(l, status), SameError(l), row[l] # "connected",
           row[l] = "failed" => error[l] \in GivenUp
    PROVE  Effect(l)
  <1>1. jar' = jar /\ row'[l] = IF row[l] \in SessionState THEN status ELSE row[l]
      BY DEF UpdateRow, TypeOK
  <1>2. row[l] \in SessionState => row[l] \in Open \cup {"failed"}
      BY DEF SessionState, Open
  <1>3. status \in Open
      BY DEF Open
  <1> QED BY <1>1, <1>2, <1>3 DEF Effect, Kept, Advances, Revives

LEMMA FailedEffect ==
    ASSUME TypeOK, NEW l \in Logins, UpdateRow(l, "failed"), SameError(l),
           error[l] # "none"
    PROVE  Effect(l)
  BY DEF UpdateRow, TypeOK, Effect, Kept, MarksFailed

LEMMA CommitEffect ==
    ASSUME TypeOK, NEW l \in Logins, CommitLogin(l), SameError(l),
           error[l] \in {"none", "persistence"}
    PROVE  Effect(l)
  BY DEF CommitLogin, TypeOK, Effect, Kept, Commits

LEMMA InsertEffect ==
    ASSUME TypeOK, NEW l \in Logins, InsertRow(l), SameError(l)
    PROVE  Effect(l)
  BY DEF InsertRow, TypeOK, Effect, Kept, Inserts

LEMMA LeaveEffect ==
    ASSUME TypeOK, NEW l \in Logins, UNCHANGED <<row, jar>>, error[l] = "none",
           \E failure \in Failure : Leave(l, failure)
    PROVE  Effect(l)
  BY DEF Leave, TypeOK, Effect, Kept, GivesUp, Failure

LEMMA OperationEffect ==
    ASSUME IndInv, FailedInv, NEW l \in Logins, Operation(l)
    PROVE  Effect(l)
  <1>1. /\ TypeOK /\ LoginInv(l)
        /\ row[l] = "failed" => error[l] # "none"
      BY DEF IndInv, FailedInv
  <1>2. pc[l] \in BeforeSave \cup {"recheck"} =>
            error[l] = "none" /\ row[l] # "failed"
      BY <1>1 DEF LoginInv, AwaitInv
  <1>3. pc[l] \in BeforeSave => row[l] # "connected"
      BY <1>1, NotConnectedBefore
  <1> USE DEF SameError
  <1>4. CASE CreateSession(l)
    <2>1. error[l] = "none"
        BY <1>2, <1>4, PlacesBeforeSave DEF CreateSession
    <2>2. CASE InsertRow(l) /\ UNCHANGED error
        BY <1>1, <2>2, InsertEffect
    <2>3. CASE UNCHANGED <<row, jar>> /\ error'[l] # "none"
        BY <2>1, <2>3 DEF Effect, Kept, GivesUp
    <2> QED BY <1>1, <1>4, <2>2, <2>3 DEF CreateSession, TypeOK
  <1>5. CASE UpdateLoading(l) \/ UpdateWaiting(l)
    <2>1. /\ pc[l] \in {"loading", "waiting"} /\ error' = error
          /\ \E status \in {"loading", "waiting_for_user"} : UpdateRow(l, status)
        BY <1>5 DEF UpdateLoading, UpdateWaiting, StoreTransition
    <2> QED BY <1>1, <1>2, <1>3, <2>1, PlacesBeforeSave, UpdateEffect
  <1>6. CASE SaveLogin(l)
    <2>1. error[l] = "none"
        BY <1>2, <1>6, PlacesBeforeSave DEF SaveLogin
    <2>2. CASE CommitLogin(l) /\ UNCHANGED error
        BY <1>1, <2>1, <2>2, CommitEffect
    <2>3. CASE UNCHANGED <<row, jar, error>>
        BY <2>3 DEF Effect, Kept
    <2>4. CASE Leave(l, "operation") /\ UNCHANGED <<row, jar>>
        BY <1>1, <2>1, <2>4, LeaveEffect DEF Failure
    <2> QED BY <1>6, <2>2, <2>3, <2>4 DEF SaveLogin, store
  <1>7. CASE GetSession(l) \/ Recheck(l) \/ OperationFails(l)
    <2>1. error[l] = "none"
        BY <1>2, <1>7, PlacesBeforeSave DEF GetSession, Recheck, OperationFails
    <2>2. CASE UNCHANGED <<row, jar, error>>
        BY <2>2 DEF Effect, Kept
    <2>3. CASE /\ UNCHANGED <<row, jar>>
               /\ \E failure \in Failure : Leave(l, failure)
        BY <1>1, <2>1, <2>3, LeaveEffect
    <2> QED BY <1>7, <2>2, <2>3
        DEF GetSession, Recheck, OperationFails, store, Failure
  <1>8. CASE UpdateFailed(l)
    <2>1. error[l] # "none" /\ error' = error
        BY <1>1, <1>8 DEF UpdateFailed, LoginInv, AwaitInv
    <2>2. CASE UpdateRow(l, "failed")
        BY <1>1, <2>1, <2>2, FailedEffect
    <2>3. CASE UNCHANGED <<row, jar>>
        BY <2>1, <2>3 DEF Effect, Kept
    <2> QED BY <1>8, <2>2, <2>3 DEF UpdateFailed
  <1>9. CASE \/ SendStarted(l) \/ AcquireBrowser(l) \/ NewPage(l) \/ Navigate(l)
             \/ SendWaiting(l) \/ PollCookies(l) \/ Pause(l) \/ Reconnect(l)
             \/ CloseBrowser(l) \/ SendFinal(l)
      BY <1>9 DEF SendStarted, AcquireBrowser, NewPage, Navigate, BrowserCall,
                  SendWaiting, PollCookies, Pause, Reconnect, CloseBrowser,
                  SendFinal, store, Effect, Kept
  <1> QED BY <1>4, <1>5, <1>6, <1>7, <1>8, <1>9 DEF Operation

LEMMA OtherEffect ==
    ASSUME IndInv, FailedInv, NEW l \in Logins, Other(l)
    PROVE  Effect(l)
  <1>1. /\ TypeOK /\ LoginInv(l)
        /\ row[l] = "failed" => error[l] # "none"
      BY DEF IndInv, FailedInv
  <1> USE DEF SameError
  <1>2. CASE Abort(l)
    <2>1. error[l] = "none"
        BY <1>1, <1>2 DEF Abort, LoginInv, AwaitInv, BeforeSave
    <2> QED BY <1>1, <1>2, <2>1, LeaveEffect DEF Abort, Failure
  <1>3. CASE Land(l)
    <2>1. PICK stmt \in inflight[l] : Execute(l, stmt) /\ error' = error
        BY <1>3 DEF Land, task
    <2>2. CASE stmt = "idle"
        BY <1>1, <2>1, <2>2, InsertEffect DEF Execute
    <2>3. CASE stmt \in {"loading", "waiting_for_user"}
      <3>1. error[l] \in GivenUp /\ row[l] # "connected"
          BY <1>1, <2>1, <2>3 DEF LoginInv, InflightInv, StoreInv, GivenUp
      <3>2. UpdateRow(l, stmt)
          BY <2>1, <2>3 DEF Execute
      <3> QED BY <1>1, <2>1, <2>3, <3>1, <3>2, UpdateEffect
    <2>4. CASE stmt = "failed"
      <3>1. error[l] # "none"
          BY <1>1, <2>1, <2>4 DEF LoginInv, InflightInv
      <3> QED BY <1>1, <2>1, <2>4, <3>1, FailedEffect DEF Execute
    <2>5. CASE stmt = "connected"
      <3>1. error[l] \in {"none", "persistence"}
          BY <1>1, <2>1, <2>5 DEF LoginInv, InflightInv, AwaitInv
      <3> QED BY <1>1, <2>1, <2>5, <3>1, CommitEffect DEF Execute
    <2> QED BY <2>1, <2>2, <2>3, <2>4, <2>5 DEF Execute
  <1>4. CASE Cancel(l)
      BY <1>1, <1>4 DEF Cancel, task, TypeOK, Effect, Kept, Deletes
  <1>5. CASE Login(l) \/ Refuse(l) \/ DeadlineExpires(l) \/ Discard(l) \/ CloseStream(l)
      BY <1>5 DEF Login, Refuse, DeadlineExpires, Discard, CloseStream, store, task,
                  Effect, Kept
  <1> QED BY <1>2, <1>3, <1>4, <1>5 DEF Other

\* Every step changes what the tables say of one login at most.
OneEffect(l) ==
    /\ Effect(l)
    /\ \A k \in Logins : k # l => row'[k] = row[k] /\ error'[k] = error[k]
    /\ platform' = platform

Quiet == UNCHANGED <<row, error, jar, platform>>

LEMMA StepEffect ==
    ASSUME IndInv, FailedInv, [Next]_vars
    PROVE  Quiet \/ \E l \in Logins : OneEffect(l)
  <1>1. TypeOK
      BY DEF IndInv
  <1>2. platform' = platform
      BY DEF Next, Operation, CreateSession, SendStarted, AcquireBrowser,
         NewPage, Navigate, BrowserCall, UpdateLoading, UpdateWaiting,
         StoreTransition, SendWaiting, GetSession, PollCookies, Pause, Reconnect,
         SaveLogin, Recheck, CloseBrowser, UpdateFailed, SendFinal,
         OperationFails, Land, Login, Refuse, Abort, DeadlineExpires, Discard,
         CloseStream, Cancel, Crash, vars
  <1>3. ASSUME NEW l \in Logins, Operation(l) \/ Other(l) PROVE OneEffect(l)
    <2>1. Effect(l)
        BY <1>3, OperationEffect, OtherEffect
    <2>2. ASSUME NEW k \in Logins, k # l PROVE Same(k)
        BY <1>1, <1>3, <2>2, OperationFrame, OtherFrame
    <2> QED BY <1>2, <2>1, <2>2 DEF OneEffect, Same
  <1>4. Crash => Quiet
      BY DEF Crash, Quiet
  <1>5. UNCHANGED vars => Quiet
      BY DEF vars, task, store, Quiet
  <1> QED BY <1>3, <1>4, <1>5 DEF Next, Other

LEMMA StepFailed == IndInv /\ FailedInv /\ [Next]_vars => FailedInv'
  <1> SUFFICES ASSUME IndInv, FailedInv, [Next]_vars, NEW k \in Logins,
                      row'[k] = "failed"
               PROVE  error'[k] # "none"
      BY DEF FailedInv
  <1>1. row[k] = "failed" => error[k] # "none"
      BY DEF FailedInv
  <1>2. CASE Quiet
      BY <1>1, <1>2 DEF Quiet
  <1>3. ASSUME NEW l \in Logins, OneEffect(l) PROVE error'[k] # "none"
    <2>1. CASE k # l
        BY <1>1, <1>3, <2>1 DEF OneEffect
    <2>2. CASE k = l
        BY <1>1, <1>3, <2>2 DEF OneEffect, Effect, Kept, SameError, GivesUp,
           Inserts, Advances, Revives, MarksFailed, Commits, Deletes, Open
    <2> QED BY <2>1, <2>2
  <1> QED BY <1>2, <1>3, StepEffect

\* The phase of a login, case by case.
LEMMA Phases ==
    ASSUME NEW l \in Logins, row[l] \in Row
    PROVE  /\ row[l] = "absent" => phase[l] = "none"
           /\ row[l] \in Open /\ error[l] \in {"none", "persistence"} => phase[l] = "open"
           /\ row[l] \in Open /\ error[l] \notin {"none", "persistence"}
                => phase[l] = "stale"
           /\ row[l] \in {"connected", "failed", "deleted"} => phase[l] = row[l]
  BY DEF phase, Open

LEMMA PhasesNext ==
    ASSUME NEW l \in Logins, row'[l] \in Row
    PROVE  /\ row'[l] = "absent" => phase'[l] = "none"
           /\ row'[l] \in Open /\ error'[l] \in {"none", "persistence"}
                => phase'[l] = "open"
           /\ row'[l] \in Open /\ error'[l] \notin {"none", "persistence"}
                => phase'[l] = "stale"
           /\ row'[l] \in {"connected", "failed", "deleted"} => phase'[l] = row'[l]
  BY DEF phase, Open

LEMMA RowCases ==
    ASSUME NEW r \in Row
    PROVE  /\ r \in {"absent", "deleted"} \/ r \in SessionState
           /\ r \in SessionState <=> r \in Open \cup {"connected", "failed"}
  BY DEF Row, SessionState, Open

\* Phases change like functions.
LEMMA PhaseExcept ==
    ASSUME NEW l \in Logins, NEW to, phase'[l] = to,
           \A k \in Logins : k # l => row'[k] = row[k] /\ error'[k] = error[k]
    PROVE  phase' = [phase EXCEPT ![l] = to]
  <1>1. ASSUME NEW k \in Logins, k # l PROVE phase'[k] = phase[k]
      BY <1>1 DEF phase
  <1>2. /\ phase = [k \in Logins |-> phase[k]]
        /\ phase' = [k \in Logins |-> phase'[k]]
      BY DEF phase
  <1> HIDE DEF phase
  <1> QED BY <1>1, <1>2

LEMMA LifecycleStep ==
    ASSUME TypeOK, TypeOK', NEW l \in Logins, OneEffect(l)
    PROVE  [Lifecycle!Next]_Lifecycle!vars
  <1> USE DEF Lifecycle!Move, Lifecycle!Present, SameError
  <1>1. row[l] \in Row /\ row'[l] \in Row
      BY DEF TypeOK
  <1>2. /\ platform' = platform
        /\ \A k \in Logins : k # l => row'[k] = row[k] /\ error'[k] = error[k]
      BY DEF OneEffect
  <1>3. \A to : phase'[l] = to => phase' = [phase EXCEPT ![l] = to]
      BY <1>2, PhaseExcept
  <1>4. phase = [k \in Logins |-> phase[k]]
      BY DEF phase
  <1>5. ASSUME phase'[l] = phase[l], jar' = jar PROVE UNCHANGED Lifecycle!vars
    <2>1. phase' = phase
        BY <1>3, <1>4, <1>5
    <2> QED BY <1>2, <1>5, <2>1 DEF Lifecycle!vars
  <1>6. CASE Kept(l) /\ SameError(l)
      BY <1>1, <1>5, <1>6 DEF Kept, phase
  <1>7. CASE GivesUp(l)
    <2>1. row'[l] = row[l] /\ jar' = jar /\ error[l] = "none"
        BY <1>7 DEF GivesUp, Kept
    <2>2. CASE row[l] \in Open /\ error'[l] # "persistence"
      <3>1. phase[l] = "open" /\ phase'[l] = "stale"
          BY <1>1, <1>7, <2>1, <2>2, Phases, PhasesNext DEF GivesUp
      <3>2. Lifecycle!GiveUp(l)
          BY <1>2, <1>3, <2>1, <3>1 DEF Lifecycle!GiveUp
      <3> QED BY <3>2 DEF Lifecycle!Next
    <2>3. CASE row[l] \notin Open \/ error'[l] = "persistence"
      <3>1. phase'[l] = phase[l]
        <4>1. CASE row[l] \in Open
            BY <1>1, <2>1, <2>3, <4>1, Phases, PhasesNext
        <4>2. CASE row[l] \notin Open
            BY <1>1, <2>1, <4>2, RowCases, Phases, PhasesNext
        <4> QED BY <4>1, <4>2
      <3> QED BY <1>5, <2>1, <3>1
    <2> QED BY <2>2, <2>3
  <1>8. CASE Inserts(l)
    <2>1. phase[l] = "none" /\ phase'[l] \in {"open", "stale"} /\ jar' = jar
        BY <1>1, <1>8, Phases, PhasesNext DEF Inserts, Open
    <2>2. Lifecycle!Begin(l)
        BY <1>2, <1>3, <2>1 DEF Lifecycle!Begin
    <2> QED BY <2>2 DEF Lifecycle!Next
  <1>9. CASE Advances(l)
    <2>1. phase'[l] = phase[l] /\ jar' = jar
        BY <1>1, <1>9, Phases, PhasesNext DEF Advances
    <2> QED BY <1>5, <2>1
  <1>10. CASE Revives(l)
    <2>1. phase[l] = "failed" /\ phase'[l] = "stale" /\ jar' = jar
        BY <1>1, <1>10, Phases, PhasesNext DEF Revives, GivenUp
    <2>2. Lifecycle!Relapse(l)
        BY <1>2, <1>3, <2>1 DEF Lifecycle!Relapse
    <2> QED BY <2>2 DEF Lifecycle!Next
  <1>11. CASE MarksFailed(l)
    <2>1. phase'[l] = "failed" /\ jar' = jar
        BY <1>1, <1>11, PhasesNext DEF MarksFailed
    <2>2. phase[l] \in {"open", "stale", "connected", "failed"}
        BY <1>1, <1>11, RowCases, Phases DEF MarksFailed
    <2>3. CASE phase[l] = "failed"
        BY <1>5, <2>1, <2>3
    <2>4. CASE phase[l] # "failed"
      <3>1. Lifecycle!Fail(l)
          BY <1>2, <1>3, <2>1, <2>2, <2>4 DEF Lifecycle!Fail
      <3> QED BY <3>1 DEF Lifecycle!Next
    <2> QED BY <2>3, <2>4
  <1>12. CASE Commits(l)
    <2>1. phase[l] = "open" /\ phase'[l] = "connected"
        BY <1>1, <1>12, Phases, PhasesNext DEF Commits
    <2>2. Lifecycle!Connect(l)
        BY <1>2, <1>3, <1>12, <2>1 DEF Commits, Lifecycle!Connect
    <2> QED BY <2>2 DEF Lifecycle!Next
  <1>13. CASE Deletes(l)
    <2>1. phase'[l] = "deleted" /\ jar' = jar
        BY <1>1, <1>13, PhasesNext DEF Deletes
    <2>2. phase[l] \in {"open", "stale", "connected", "failed"}
        BY <1>1, <1>13, RowCases, Phases DEF Deletes
    <2>3. Lifecycle!Delete(l)
        BY <1>2, <1>3, <2>1, <2>2 DEF Lifecycle!Delete
    <2> QED BY <2>3 DEF Lifecycle!Next
  <1> QED BY <1>6, <1>7, <1>8, <1>9, <1>10, <1>11, <1>12, <1>13
          DEF OneEffect, Effect

\* The tables behave as the abstract life cycle of one login says.
THEOREM Refinement == Spec => ImplementsLifecycle
  <1>1. Init => IndInv /\ FailedInv
      BY InitIndInv DEF Init, FailedInv
  <1>2. IndInv /\ FailedInv /\ [Next]_vars => (IndInv /\ FailedInv)'
      BY StepIndInv, StepFailed
  <1>3. Init => Lifecycle!Init
    <2> SUFFICES ASSUME Init PROVE Lifecycle!Init
        OBVIOUS
    <2>1. ASSUME NEW l \in Logins PROVE phase[l] = "none"
      <3>1. row[l] = "absent" /\ row[l] \in Row
          BY DEF Init, Row
      <3> QED BY <3>1, Phases
    <2>2. phase = [l \in Logins |-> phase[l]]
        BY DEF phase
    <2>3. phase = [l \in Logins |-> "none"]
        BY <2>1, <2>2
    <2> QED BY <2>3 DEF Init, Lifecycle!Init
  <1>4. IndInv /\ FailedInv /\ IndInv' /\ [Next]_vars =>
            [Lifecycle!Next]_Lifecycle!vars
    <2> SUFFICES ASSUME IndInv, FailedInv, IndInv', [Next]_vars
                 PROVE  [Lifecycle!Next]_Lifecycle!vars
        OBVIOUS
    <2>1. TypeOK /\ TypeOK'
        BY DEF IndInv
    <2>2. CASE Quiet
        BY <2>2 DEF Quiet, Lifecycle!vars, phase
    <2>3. ASSUME NEW l \in Logins, OneEffect(l)
          PROVE  [Lifecycle!Next]_Lifecycle!vars
        BY <2>1, <2>3, LifecycleStep
    <2> QED BY <2>2, <2>3, StepEffect
  <1> QED BY <1>1, <1>2, <1>3, <1>4, PTL DEF Spec, ImplementsLifecycle, Lifecycle!Spec
=============================================================================
