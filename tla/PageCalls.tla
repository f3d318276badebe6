----------------------------- MODULE PageCalls -----------------------------
(***************************************************************************)
(* The operations of a Page and of its Elements (handler/page.rs, page.rs, *)
(* element.rs): each is a sequence of protocol commands, every one awaited *)
(* before the next.  Page is a handle that is cloned, so the commands of   *)
(* several callers interleave; any command may fail, which ends its        *)
(* operation there, and a caller may drop the future between two commands. *)
(***************************************************************************)
EXTENDS Naturals, Sequences

CONSTANTS Users,
          MaxDocs, \* bound on the documents and on the node id tables
          MaxOps   \* bound on the operations

VARIABLES document, \* the number of the document the page shows
          nodes,    \* of the table node ids are from
          held,     \* what operations have put in force in the page
          left,     \* what those that failed left so
          op,       \* per user, the operation: see NoOp
          begun     \* how many there were

pageCallVars == <<document, nodes, held, left, op, begun>>

NoOp == [name |-> "none", rest |-> << >>, state |-> "idle",
          doc |-> 0,     \* the document its element or context is of
          table |-> 0,   \* the table its node id is from
          opened |-> {}, \* what it put in force and has not undone
          alone |-> TRUE, \* no other operation was there meanwhile
          shot |-> {}]   \* what was in force when it captured
Running == {u \in Users : op[u].state = "running"}

\* What a command puts in force, and what undoes it.
Opens == [setMetrics |-> "metrics", setBackground |-> "background",
          press |-> "button", keyDown |-> "key", performSearch |-> "search",
          replaceCookie |-> "cookieGap"]
Closes == [clearMetrics |-> "metrics", clearBackground |-> "background",
           release |-> "button", keyUp |-> "key", discardSearch |-> "search",
           setCookie |-> "cookieGap"]

-----------------------------------------------------------------------------
\* The commands of the operations.
PressKey == <<"keyDown", "keyUp">>
TypeStr == PressKey \o PressKey
ClickWith == <<"move", "press", "release">>
ClickablePoint == <<"scroll", "quads">>
ElementClick == ClickablePoint \o ClickWith
Hover == ClickablePoint \o <<"move">>

\* Fault: the override is not cleared when the background is omitted too.
Fault_ScreenshotClearsOne(full, omit) ==
    LET If(b, s) == IF b THEN s ELSE << >>
    IN  <<"activate">> \o If(full, <<"layout", "setMetrics">>)
        \o If(omit, <<"setBackground">>) \o <<"capture">>
        \o IF omit THEN <<"clearBackground">> ELSE If(full, <<"clearMetrics">>)

Screenshot(full, omit) ==
    LET If(b, s) == IF b THEN s ELSE << >>
    IN  <<"activate">> \o If(full, <<"layout", "setMetrics">>)
        \o If(omit, <<"setBackground">>) \o <<"capture">>
        \o If(omit, <<"clearBackground">>) \o If(full, <<"clearMetrics">>)

ElementScreenshot == <<"scroll", "box", "layout">> \o Screenshot(FALSE, FALSE)

\* Element::new, of a node id.
NewElement == <<"describe", "resolve">>
FindElement == <<"getDocument", "query">> \o NewElement
FindXpath == <<"getDocument", "performSearch", "results", "discardSearch">>
                 \o NewElement
FindIn == <<"query">> \o NewElement
SetCookies == <<"url", "replaceCookie", "setCookie">>
DeleteCookies == <<"url", "deleteCookie">>
ElementProperty == <<"callFunction">>

\* An expression that turns out to be a function is called then.
EvaluateExpression == <<"context", "evaluate">>
Evaluate == EvaluateExpression \o <<"evaluate">>
SetContent == <<"context", "evaluate", "loaded">>
Reload == <<"reload", "loaded">>
ExposeFunction == <<"addBinding", "addScript">>
Stealth == [i \in 1 .. 5 |-> "addScript"] \o <<"userAgent">>

\* One command, and one question the handler answers itself.
Emulate == <<"set">>
Query == <<"ask">>

Commands ==
    [type |-> TypeStr, click |-> ClickWith, elementClick |-> ElementClick,
     hover |-> Hover, full |-> Screenshot(TRUE, FALSE),
     both |-> Screenshot(TRUE, TRUE), elementShot |-> ElementScreenshot,
     find |-> FindElement, xpath |-> FindXpath, setCookies |-> SetCookies,
     findIn |-> FindIn, deleteCookies |-> DeleteCookies,
     expression |-> EvaluateExpression, evaluate |-> Evaluate,
     property |-> ElementProperty, setContent |-> SetContent, reload |-> Reload,
     expose |-> ExposeFunction, stealth |-> Stealth, emulate |-> Emulate,
     query |-> Query]
OnElement == {"elementClick", "hover", "elementShot", "property", "findIn"}
OfNode == {"query", "describe", "results"}
OfDocument == {"scroll", "quads", "box", "resolve", "evaluate", "callFunction"}

-----------------------------------------------------------------------------
PageCallsInit ==
    /\ document = 1 /\ nodes = 0 /\ held = {} /\ left = {}
    /\ op = [u \in Users |-> NoOp] /\ begun = 0

\* A caller begins; its element, if it has one, is of any document so far, and
\* its node id of any table.
Begin(u, name) ==
    /\ op[u].state # "running"
    /\ begun < MaxOps /\ begun' = begun + 1
    /\ \E doc \in 1 .. document, table \in 0 .. nodes :
          /\ name \in OnElement \/ doc = document
          /\ name = "findIn" \/ table = 0
          /\ op' = [v \in Users |->
                IF v = u
                THEN [NoOp EXCEPT !.name = name, !.rest = Commands[name],
                         !.state = "running", !.doc = doc,
                         !.table = table,
                         !.alone = Running = {} /\ held = {}]
                ELSE IF v \in Running THEN [op[v] EXCEPT !.alone = FALSE]
                ELSE op[v]]
    /\ UNCHANGED <<document, nodes, held, left>>

\* Chrome knows no node id of an earlier table, and no object or context of
\* an earlier document.
StillThere(u, command) ==
    /\ command \in OfNode => op[u].table = nodes
    /\ command \in OfDocument => op[u].doc = document

\* The next command is answered; the last one ends the operation.
Perform(u) ==
    LET o == op[u]
        command == Head(o.rest)
        opens == IF command \in DOMAIN Opens THEN {Opens[command]} ELSE {}
        closes == IF command \in DOMAIN Closes THEN {Closes[command]} ELSE {}
        table == IF command = "getDocument" THEN nodes + 1 ELSE nodes
    IN  /\ o.state = "running" /\ StillThere(u, command)
        /\ table <= MaxDocs
        /\ nodes' = table
        /\ held' = (held \cup opens) \ closes
        /\ left' = left \ (opens \cup closes)
        /\ op' = [op EXCEPT ![u] =
              [o EXCEPT !.rest = Tail(@),
                  !.state = IF Len(o.rest) = 1 THEN "ok" ELSE @,
                  !.opened = (@ \cup opens) \ closes,
                  !.table = IF command = "getDocument" THEN table ELSE @,
                  !.doc = IF command \in {"getDocument", "context"}
                          THEN document ELSE @,
                  !.shot = IF command = "capture" THEN held ELSE @]]
        /\ UNCHANGED <<document, begun>>

\* The command fails, or the caller is gone before it is sent.
EndEarly(u) ==
    /\ op[u].state = "running"
    /\ op' = [op EXCEPT ![u] = [NoOp EXCEPT !.state = "failed"]]
    /\ left' = left \cup (op[u].opened \cap held)
    /\ UNCHANGED <<document, nodes, held, begun>>

\* The page shows another document.
NewDocument ==
    /\ document < MaxDocs /\ nodes < MaxDocs
    /\ document' = document + 1
    /\ nodes' = nodes + 1
    /\ UNCHANGED <<held, left, op, begun>>

PageCallsNext ==
    \/ \E u \in Users :
          \/ \E name \in DOMAIN Commands : Begin(u, name)
          \/ Perform(u) \/ EndEarly(u)
    \/ NewDocument

PageCallsSpec == PageCallsInit /\ [][PageCallsNext]_pageCallVars

-----------------------------------------------------------------------------
Asked(name) ==
    CASE name = "full" -> {"metrics"}
      [] name = "both" -> {"metrics", "background"}
      [] OTHER -> {}

\* An operation that ends well leaves nothing in force, whatever others do in
\* between: an override, a pressed button or key, a search or a missing
\* cookie is there only because of an operation that is under way, failed
\* half-way or was dropped.  And a screenshot that had the page for itself,
\* with nothing left over from an earlier failure, was taken under exactly
\* the overrides it asked for.
OperationsCleanUp ==
    /\ \A thing \in held \ left : \E u \in Running : thing \in op[u].opened
    /\ \A u \in Users :
          op[u].state = "ok" /\ op[u].alone
             /\ op[u].name \in {"full", "both", "elementShot"} =>
                 op[u].shot = Asked(op[u].name)
=============================================================================
