------------------------------- MODULE Client -------------------------------
(***************************************************************************)
(* The credential service and its callers: the Python SDK (blocking and    *)
(* asyncio), the TypeScript SDK and the command line.  A call is a request,*)
(* one statement on the credentials table and an answer; the connection    *)
(* may be lost at any point, and then the caller does not know whether the *)
(* statement ran, is still to run, or never will.  GetStatus, Cancel and   *)
(* the calls about cookies are here for what their answers become; the     *)
(* server's side of them is in Login and CookieJar.                        *)
(*                                                                         *)
(* Rows carry no data but the call that wrote them.                        *)
(***************************************************************************)
CONSTANTS Rpcs,   \* calls, each made once
          Uses,   \* <<client, op>>: the calls that are made
          Nobody  \* written by no call

VARIABLES row,    \* the last save or delete of the table, or Nobody
          rpc,    \* [client, op, stage, code, seen, result] of each call
          before, \* the calls that had been answered when each began
          adrift  \* calls whose statement may still run though nobody waits

clientVars == <<row, rpc, before, adrift>>

Clients == {"python", "asyncio", "typescript", "cli"}
RpcOps == {"save", "get", "delete", "status", "cancel", "cookies"}
Unsent == [client |-> "cli", op |-> "get", stage |-> "new", code |-> "-",
           seen |-> Nobody, result |-> "-"]

-----------------------------------------------------------------------------
\* What a call returns, or raises, for the code of its answer.

\* ImauthNotFoundError is suppressed where the absence is an answer.
PythonResult(op, code) ==
    CASE code = "OK" -> [get |-> "info", status |-> "event", delete |-> "true",
                         save |-> "done", cancel |-> "done",
                         cookies |-> "value"][op]
      [] code = "NOT_FOUND" -> [get |-> "none", status |-> "none",
                                delete |-> "false", cancel |-> "done",
                                save |-> "not found error",
                                cookies |-> "not found error"][op]
      [] code = "UNAVAILABLE" -> "connection error"
      [] code \in {"UNAUTHENTICATED", "PERMISSION_DENIED"} -> "auth error"
      [] OTHER -> "error"

AsyncPythonResult(op, code) == PythonResult(op, code)

\* Every other code rejects the promise with the gRPC error itself.
TypeScriptResult(op, code) ==
    CASE code = "OK" -> PythonResult(op, code)
      [] code = "NOT_FOUND" /\ op \notin {"save", "cookies"} ->
             PythonResult(op, code)
      [] OTHER -> "error"

\* Any status that is not OK ends the command with exit code 1.
CliResult(op, code) == IF code = "OK" THEN "printed" ELSE "error"

Result(client, op, code) ==
    CASE client = "python" -> PythonResult(op, code)
      [] client = "asyncio" -> AsyncPythonResult(op, code)
      [] client = "typescript" -> TypeScriptResult(op, code)
      [] client = "cli" -> CliResult(op, code)

\* The bearer token sent for a configured key: the SDKs take an empty key for
\* none, the command line sends it.
Bearer(client, key) == IF client # "cli" /\ key = "" THEN "none" ELSE key

-----------------------------------------------------------------------------
ASSUME ClientAssumption ==
    Nobody \notin Rpcs /\ Uses \subseteq Clients \X RpcOps

ClientInit ==
    /\ row = Nobody /\ adrift = {}
    /\ rpc = [c \in Rpcs |-> Unsent]
    /\ before = [c \in Rpcs |-> {}]

End(c, result) == rpc' = [rpc EXCEPT ![c].stage = "ended", ![c].result = result]
Ended == {c \in Rpcs : rpc[c].stage = "ended" /\ rpc[c].code = "OK"}

\* A caller makes a call.  The command line looks at the platform and at the
\* password first and opens its connection before the call.
Call(c, client, op) ==
    /\ rpc[c].stage = "new"
    /\ \/ rpc' = [rpc EXCEPT ![c] = [Unsent EXCEPT !.client = client, !.op = op,
                                                   !.stage = "sent"]]
       \/ /\ client = "cli"
          /\ rpc' = [rpc EXCEPT ![c] = [Unsent EXCEPT !.op = op,
                        !.stage = "ended", !.result = "error"]]
    /\ before' = [before EXCEPT ![c] = Ended]
    /\ UNCHANGED <<row, adrift>>

Answered(c, code) == rpc' = [rpc EXCEPT ![c].stage = "answered", ![c].code = code]

\* The interceptor and platform_from_proto turn a request down; the server of
\* these calls has the key "k".
Refuse(c) ==
    /\ rpc[c].stage = "sent"
    /\ \/ /\ \E key \in {"none", "", "k"} : Bearer(rpc[c].client, key) # "k"
          /\ Answered(c, "UNAUTHENTICATED")
       \/ Answered(c, "INVALID_ARGUMENT")
    /\ UNCHANGED <<row, before, adrift>>

Write(c) == row' = IF rpc[c].op \in {"save", "delete"} THEN c ELSE row

\* Fault: the service answers at once and leaves the statement to a task.
Fault_ExecuteInBackground(c) ==
    /\ rpc[c].stage = "sent"
    /\ rpc' = [rpc EXCEPT ![c].stage = "answered", ![c].seen = row,
                          ![c].code = "OK"]
    /\ adrift' = adrift \cup {c}
    /\ UNCHANGED <<row, before>>

\* The use case awaits the repository's one statement, then the answer is
\* made of its result.
Execute(c) ==
    /\ rpc[c].stage = "sent"
    /\ \/ /\ rpc' = [rpc EXCEPT ![c].stage = "answered", ![c].seen = row,
                ![c].code =
                    IF /\ rpc[c].op = "get"
                       /\ (row = Nobody \/ rpc[row].op = "delete")
                    THEN "NOT_FOUND" ELSE "OK"]
          /\ Write(c)
       \/ /\ \/ Answered(c, "INTERNAL")
             \/ rpc[c].op \in {"status", "cancel"} /\ Answered(c, "NOT_FOUND")
          /\ UNCHANGED row
    /\ UNCHANGED <<before, adrift>>

\* The answer arrives.
Return(c) ==
    /\ rpc[c].stage = "answered"
    /\ End(c, Result(rpc[c].client, rpc[c].op, rpc[c].code))
    /\ UNCHANGED <<row, before, adrift>>

\* The connection is lost; a statement on its way may still run.
Lose(c) ==
    /\ rpc[c].stage \in {"sent", "answered"}
    /\ rpc' = [rpc EXCEPT ![c].stage = "ended", ![c].code = "UNAVAILABLE",
                  ![c].result = Result(rpc[c].client, rpc[c].op, "UNAVAILABLE")]
    /\ adrift' \in {adrift, IF rpc[c].stage = "sent" THEN adrift \cup {c}
                            ELSE adrift}
    /\ UNCHANGED <<row, before>>

RunAdrift(c) ==
    /\ c \in adrift
    /\ adrift' = adrift \ {c}
    /\ Write(c)
    /\ UNCHANGED <<rpc, before>>

ClientNext ==
    \E c \in Rpcs :
        \/ \E use \in Uses : Call(c, use[1], use[2])
        \/ Refuse(c) \/ Execute(c) \/ Return(c) \/ Lose(c) \/ RunAdrift(c)

ClientSpec == ClientInit /\ [][ClientNext]_clientVars

-----------------------------------------------------------------------------
\* w was answered before some write of S began, so it may be seen no more.
Outdated(w, S) ==
    LET writes == {v \in S : rpc[v].op \in {"save", "delete"}}
    IN  IF w = Nobody THEN writes # {} ELSE \E v \in writes : w \in before[v]

\* A write that was answered is never seen or left again once another one,
\* which began after that, was answered too; what a call answers is what the
\* table held at one moment of the call; and a caller is told that there is
\* nothing only when at that moment there was nothing.  A write whose answer
\* was lost is held to none of this: it may still run, over a later one.
CredentialsAreCurrent ==
    /\ ~Outdated(row, Ended)
    /\ \A c \in Rpcs :
          rpc[c].op = "get" /\ rpc[c].stage = "ended" =>
              /\ rpc[c].code \in {"OK", "NOT_FOUND"} =>
                     ~Outdated(rpc[c].seen, before[c])
              /\ rpc[c].result = "info" =>
                     rpc[c].seen # Nobody /\ rpc[rpc[c].seen].op = "save"
              /\ rpc[c].result = "none" =>
                     rpc[c].seen = Nobody \/ rpc[rpc[c].seen].op = "delete"
=============================================================================
