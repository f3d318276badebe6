-------------------------- MODULE CdpHandlerProofs --------------------------
(***************************************************************************)
(* Proofs about the driver: CdpHandler for any number of calls, targets    *)
(* and sessions, then Listeners for any number of subscribers and events,  *)
(* then PageCalls for any number of users of a page.                       *)
(*                                                                         *)
(* The two results about CdpHandler need two invariants that have nothing  *)
(* to do with each other: TargetInv is about the maps of the targets and   *)
(* the sessions, which change together, and CallInv about one call at a    *)
(* time.  For the latter it matters that the command of a goto is sent     *)
(* once (SentOnce): a second response would find the entry gone and take   *)
(* back that there was a first.                                            *)
(***************************************************************************)
EXTENDS CdpHandler, Listeners, PageCalls, TLAPS

Answers == {"none", "ok", "page", "no page", "error", "timeout", "canceled"}
Places == {"idle", "browserq", "pageq", "pending", "initiator", "waiter",
           "goto", "gone"}
Watches == {"none", "queued", "watched", "dropped", "over"}
Loads == {"none", "loading", "loaded"}
CallRecords == [kind : Kinds \cup {"none"}, on : Targets \cup {Nil},
                answer : Answers]
NavRecords == [watch : Watches, sent : BOOLEAN, responded : BOOLEAN,
               navigated : BOOLEAN]
TargetRecords == [stage : Stages, waiting : BOOLEAN,
                  session : Sessions \cup {Nil}, page : Sessions \cup {Nil},
                  loaded : Loads]

TargetTypes ==
    /\ targets \in [Targets -> TargetRecords \cup {Nil}]
    /\ sessions \in [Sessions -> Targets \cup {Nil, "unused"}]
    /\ handler \in {"running", "stopped"}
CallTypes ==
    /\ calls \in [Calls -> CallRecords]
    /\ at \in [Calls -> Places]
    /\ nav \in [Calls -> NavRecords]

TargetInv == TargetTypes /\ SessionReachesTarget

\* A call is where its kind can be, and until it is a goto of the handler it
\* has no navigation.
PlaceFits(c) ==
    /\ at[c] = "idle" => calls[c].kind = "none"
    /\ at[c] = "browserq" => calls[c].kind \in BrowserKinds
    /\ at[c] = "pageq" => calls[c].kind \in PageKinds
    /\ at[c] \in {"pending", "initiator", "waiter"} =>
          calls[c].kind # "navigate"
    /\ at[c] \notin {"goto", "gone"} =>
          /\ nav[c].watch = "none"
          /\ ~nav[c].sent /\ ~nav[c].responded /\ ~nav[c].navigated

\* The command of a goto is sent once, when its navigation is first watched.
SentOnce(c) ==
    /\ nav[c].watch = "queued" =>
          ~nav[c].sent /\ ~nav[c].responded /\ ~nav[c].navigated
    /\ nav[c].responded => ~nav[c].sent

BothHalves(c) ==
    LET both == nav[c].responded /\ nav[c].navigated
    IN  calls[c].kind = "navigate" =>
            /\ calls[c].answer = "ok" => both
            /\ both => at[c] = "gone"

CallFits(c) == PlaceFits(c) /\ SentOnce(c) /\ BothHalves(c)
CallInv == CallTypes /\ \A c \in Calls : CallFits(c)

-----------------------------------------------------------------------------
(* The targets and their sessions.                                         *)

\* A field of a target's record that is set leaves the others.
LEMMA TargetFields ==
    ASSUME NEW r \in TargetRecords
    PROVE  /\ \A x \in Stages :
                 /\ [r EXCEPT !.stage = x] \in TargetRecords
                 /\ [r EXCEPT !.stage = x].session = r.session
           /\ \A x \in Stages :
                 /\ [r EXCEPT !.stage = x, !.waiting = FALSE] \in TargetRecords
                 /\ [r EXCEPT !.stage = x, !.waiting = FALSE].session = r.session
           /\ [r EXCEPT !.waiting = TRUE] \in TargetRecords
           /\ [r EXCEPT !.waiting = TRUE].session = r.session
           /\ \A p \in Sessions \cup {Nil} :
                 /\ [r EXCEPT !.page = p] \in TargetRecords
                 /\ [r EXCEPT !.page = p].session = r.session
           /\ \A l \in Loads :
                 /\ [r EXCEPT !.loaded = l] \in TargetRecords
                 /\ [r EXCEPT !.loaded = l].session = r.session
           /\ \A s \in Sessions \cup {Nil} :
                 /\ [r EXCEPT !.session = s] \in TargetRecords
                 /\ [r EXCEPT !.session = s].session = s
BY DEF TargetRecords

LEMMA NewTargetIs == NewTarget \in TargetRecords /\ NewTarget.session = Nil
BY DEF NewTarget, TargetRecords, Stages, Loads

\* A known target that keeps its session may change otherwise.
LEMMA SetKeeps ==
    ASSUME TargetInv, NEW t \in Known, NEW r \in TargetRecords,
           r.session = targets[t].session, Set(t, r),
           UNCHANGED <<sessions, handler>>
    PROVE  TargetInv'
BY DEF TargetInv, TargetTypes, SessionReachesTarget, Set, Known

LEMMA KnownIs ==
    ASSUME TargetInv, NEW t \in Known
    PROVE  t \in Targets /\ targets[t] \in TargetRecords
BY DEF TargetInv, TargetTypes, Known

\* What a call or an answer does leaves the sessions and the targets, but for
\* the page a target is given.
LEMMA CallsKeepTargets ==
    ASSUME TargetInv, NEW c \in Calls,
           \/ GiveUp(c) \/ Receive(c) \/ PollGoto(c) \/ NavigationEnds(c)
           \/ Response(c) \/ NavigationResponse(c) \/ Evict(c)
    PROVE  TargetInv'
<1>1. CASE UNCHANGED <<targets, sessions, handler>>
  BY <1>1 DEF TargetInv, TargetTypes, SessionReachesTarget, Known
<1>2. CASE Receive(c)
  <2>. DEFINE u == calls[c].on
  <2>1. CASE /\ u \in Known /\ UNCHANGED <<sessions, handler>>
             /\ targets' = [targets EXCEPT ![u].page = PageOf(targets[u])]
    <3>1. /\ targets[u] \in TargetRecords
          /\ PageOf(targets[u]) \in Sessions \cup {Nil}
      BY <2>1, KnownIs DEF PageOf, TargetRecords
    <3>2. Set(u, [targets[u] EXCEPT !.page = PageOf(targets[u])])
      BY <2>1, KnownIs DEF Set, TargetInv, TargetTypes
    <3>. QED BY <2>1, <3>1, <3>2, TargetFields, SetKeeps
  <2>. QED BY <1>1, <1>2, <2>1 DEF Receive
<1>. QED
  BY <1>1, <1>2 DEF GiveUp, PollGoto, NavigationEnds, Response,
     NavigationResponse, Evict

\* Polling a target, and its events, leave it its session.
LEMMA PollsKeepSessions ==
    ASSUME TargetInv, NEW t \in Targets,
           \/ PollInit(t) \/ ChainExpires(t) \/ PollReady(t)
           \/ InternalResponse(t)
           \/ \E how \in {"loading", "loaded"} : PageLoads(t, how)
    PROVE  TargetInv'
<1>. DEFINE r == targets[t]
<1>1. t \in Known /\ r \in TargetRecords /\ UNCHANGED <<sessions, handler>>
  BY KnownIs DEF PollInit, InitDue, ChainExpires, PollReady, ReadyDue,
     InternalResponse, PageLoads
<1>2. CASE PollInit(t)
  <2>1. \/ Set(t, [r EXCEPT !.stage = "frame"])
        \/ Set(t, [r EXCEPT !.waiting = TRUE])
    BY <1>2 DEF PollInit
  <2>2. "frame" \in Stages
    BY DEF Stages
  <2>. QED BY <1>1, <2>1, <2>2, TargetFields, SetKeeps
<1>3. CASE ChainExpires(t)
  <2>1. Set(t, [r EXCEPT !.stage = "closing", !.waiting = FALSE])
    BY <1>3 DEF ChainExpires
  <2>2. "closing" \in Stages
    BY DEF Stages
  <2>. QED BY <1>1, <2>1, <2>2, TargetFields, SetKeeps
<1>4. CASE PollReady(t)
  <2>1. PICK p \in Sessions \cup {Nil} : Set(t, [r EXCEPT !.page = p])
    <3>1. PageAfter(t) \in Sessions \cup {Nil}
      BY <1>1 DEF PageAfter, PageOf, TargetRecords
    <3>. QED BY <1>4, <3>1 DEF PollReady
  <2>2. /\ [r EXCEPT !.page = p] \in TargetRecords
        /\ [r EXCEPT !.page = p].session = r.session
    BY <1>1, TargetFields
  <2>. QED BY <1>1, <2>1, <2>2, SetKeeps
<1>5. CASE InternalResponse(t)
  <2>1. NextStage(r.stage) \in Stages
    BY <1>5, HandlerAssumption DEF InternalResponse, HasChain, NextStage, Stages
  <2>2. Set(t, [r EXCEPT !.stage = NextStage(r.stage), !.waiting = FALSE])
    BY <1>1, <1>5 DEF InternalResponse, TargetRecords
  <2>. QED BY <1>1, <2>1, <2>2, TargetFields, SetKeeps
<1>6. CASE \E how \in {"loading", "loaded"} : PageLoads(t, how)
  <2>1. PICK how \in Loads : Set(t, [r EXCEPT !.loaded = how])
    BY <1>6 DEF PageLoads, Loads
  <2>. QED BY <1>1, <2>1, TargetFields, SetKeeps
<1>. HIDE DEF r
<1>. QED BY <1>2, <1>3, <1>4, <1>5, <1>6, Zenon

\* What changes a session changes the target it is registered for, too.
LEMMA SessionsKeepTargets ==
    ASSUME TargetInv,
           \/ \E t \in Targets :
                 \/ Created(t) \/ Destroyed(t)
                 \/ \E s \in Sessions : Attached(s, t)
           \/ \E s \in Sessions : Detached(s)
           \/ \E c \in Calls, listed \in SUBSET Targets :
                 FetchResponse(c, listed)
           \/ Stop
    PROVE  TargetInv'
<1>1. ASSUME NEW t \in Targets, Created(t) PROVE TargetInv'
  BY <1>1, NewTargetIs DEF Created, Set, TargetInv, TargetTypes,
     SessionReachesTarget, Known
<1>2. ASSUME NEW t \in Targets, Destroyed(t) PROVE TargetInv'
  BY <1>2 DEF Destroyed, Set, TargetInv, TargetTypes, SessionReachesTarget,
     Known, TargetRecords
<1>3. ASSUME NEW t \in Targets, NEW s \in Sessions, Attached(s, t)
      PROVE  TargetInv'
  <2>1. sessions[s] \notin Targets
    BY <1>3, HandlerAssumption DEF Attached
  <2>2. CASE t \in Known
    <3>. DEFINE q == [targets[t] EXCEPT !.session = s]
    <3>1. q \in TargetRecords /\ q.session = s
      BY <2>2, KnownIs, TargetFields
    <3>2. targets' = [targets EXCEPT ![t] = q]
      BY <1>3, <2>2 DEF Attached, Set
    <3>. HIDE DEF q
    <3>. QED
      BY <1>3, <2>1, <3>1, <3>2 DEF Attached, TargetInv, TargetTypes,
         SessionReachesTarget, Known
  <2>3. CASE t \notin Known
    BY <1>3, <2>1, <2>3 DEF Attached, TargetInv, TargetTypes,
       SessionReachesTarget, Known
  <2>. QED BY <2>2, <2>3
<1>4. ASSUME NEW s \in Sessions, Detached(s) PROVE TargetInv'
  <2>. PICK u \in Targets : u = sessions[s]
    BY <1>4 DEF Detached
  <2>1. CASE u \in Known
    <3>. DEFINE q == [targets[u] EXCEPT !.session = Nil]
    <3>1. q \in TargetRecords /\ q.session = Nil
      BY <2>1, KnownIs, TargetFields
    <3>2. targets' = [targets EXCEPT ![u] = q]
      BY <1>4, <2>1 DEF Detached, Set
    <3>. HIDE DEF q
    <3>. QED
      BY <1>4, <3>1, <3>2 DEF Detached, TargetInv, TargetTypes,
         SessionReachesTarget, Known
  <2>2. CASE u \notin Known
    BY <1>4, <2>2 DEF Detached, TargetInv, TargetTypes,
       SessionReachesTarget, Known
  <2>. QED BY <2>1, <2>2
<1>5. CASE \E c \in Calls, listed \in SUBSET Targets :
             FetchResponse(c, listed)
  BY <1>5, NewTargetIs DEF FetchResponse, TargetInv, TargetTypes,
     SessionReachesTarget, Known
<1>6. CASE Stop
  BY <1>6 DEF Stop, TargetInv, TargetTypes, SessionReachesTarget, Known
<1>. QED BY <1>1, <1>2, <1>3, <1>4, <1>5, <1>6

-----------------------------------------------------------------------------
(* The calls.                                                              *)

LEMMA AnsweredIs ==
    ASSUME CallTypes, NEW f, \A c \in DOMAIN f : f[c] \in Answers
    PROVE  /\ Answered(f) \in [Calls -> CallRecords]
           /\ \A c \in Calls :
                /\ Answered(f)[c].kind = calls[c].kind
                /\ c \notin DOMAIN f => Answered(f)[c] = calls[c]
                /\ c \in DOMAIN f =>
                      Answered(f)[c].answer \in {calls[c].answer, f[c]}
<1>1. ASSUME NEW c \in Calls, NEW a \in Answers
      PROVE  /\ [calls[c] EXCEPT !.answer = a] \in CallRecords
             /\ [calls[c] EXCEPT !.answer = a].kind = calls[c].kind
             /\ [calls[c] EXCEPT !.answer = a].answer = a
  BY DEF CallTypes, CallRecords
<1>. QED BY <1>1 DEF Answered, CallTypes

\* What the calls of S that are answered become, and the others.
LEMMA AnswerIs ==
    ASSUME CallTypes, NEW S, NEW what \in Answers, Answer(S, what)
    PROVE  /\ calls' \in [Calls -> CallRecords] /\ at' \in [Calls -> Places]
           /\ \A c \in Calls :
                /\ calls'[c].kind = calls[c].kind
                /\ c \notin S => calls'[c] = calls[c] /\ at'[c] = at[c]
                /\ c \in S => /\ at'[c] = "gone"
                              /\ calls'[c].answer \in {calls[c].answer, what}
BY AnsweredIs DEF Answer, Gone, CallTypes, Places

\* A call that nothing starts or succeeds in stays as it should be.
LEMMA FitsOn ==
    ASSUME NEW d \in Calls, CallFits(d),
           calls'[d].kind = calls[d].kind, at'[d] \in {at[d], "gone"},
           calls'[d].kind = "navigate" /\ calls'[d].answer = "ok"
               => calls[d].answer = "ok",
           nav'[d].watch = "queued" => nav[d].watch = "queued",
           nav[d].watch = "none" => nav'[d].watch = "none",
           nav'[d].sent => nav[d].sent,
           nav'[d].responded = nav[d].responded,
           nav'[d].navigated = nav[d].navigated
    PROVE  CallFits(d)'
BY DEF CallFits, PlaceFits, SentOnce, BothHalves

LEMMA AskBrowserKeeps ==
    ASSUME CallInv, NEW c \in Calls, NEW t \in Targets, NEW k \in BrowserKinds,
           AskBrowser(c, k, t)
    PROVE  CallInv'
<1>. DEFINE r == [kind |-> k, on |-> IF k = "getPage" THEN t ELSE Nil,
                  answer |-> IF handler = "running" THEN "none" ELSE "canceled"]
<1>1. /\ r \in CallRecords /\ r.kind = k
      /\ calls' = [calls EXCEPT ![c] = r]
  BY DEF AskBrowser, CallRecords, Kinds, Answers
<1>. HIDE DEF r
<1>2. PICK p : p \in {"browserq", "gone"} /\ at' = [at EXCEPT ![c] = p]
  BY DEF AskBrowser
<1>3. CallTypes'
  BY <1>1, <1>2 DEF AskBrowser, CallInv, CallTypes, Places
<1>4. CallFits(c)'
  BY <1>1, <1>2 DEF AskBrowser, CallInv, CallTypes, CallFits, PlaceFits,
     SentOnce, BothHalves, BrowserKinds
<1>5. ASSUME NEW d \in Calls \ {c} PROVE CallFits(d)'
  BY <1>1, <1>2, FitsOn DEF AskBrowser, CallInv, CallTypes
<1>. QED BY <1>3, <1>4, <1>5 DEF CallInv

LEMMA AskPageKeeps ==
    ASSUME CallInv, NEW c \in Calls, NEW t \in Targets, NEW k \in PageKinds,
           AskPage(c, k, t)
    PROVE  CallInv'
<1>1. PICK r : /\ r \in CallRecords /\ r.kind = k /\ r.answer = "none"
               /\ calls' = [calls EXCEPT ![c] = r]
  BY DEF AskPage, CallRecords, Kinds, Answers
<1>2. CallTypes'
  BY <1>1 DEF AskPage, CallInv, CallTypes, Places
<1>3. CallFits(c)'
  BY <1>1 DEF AskPage, CallInv, CallTypes, CallFits, PlaceFits, SentOnce,
     BothHalves
<1>4. ASSUME NEW d \in Calls \ {c} PROVE CallFits(d)'
  BY <1>1, FitsOn DEF AskPage, CallInv, CallTypes
<1>. QED BY <1>2, <1>3, <1>4 DEF CallInv

\* The handler takes a message, a call gives up, a command is answered.
LEMMA ReceiveKeeps ==
    ASSUME CallInv, NEW c \in Calls, Receive(c)
    PROVE  CallInv'
<1>1. CASE calls' = calls /\ at' = [at EXCEPT ![c] = "pending"]
  <2>1. CallTypes'
    BY <1>1 DEF Receive, CallInv, CallTypes, Places
  <2>2. CallFits(c)'
    BY <1>1 DEF Receive, CallInv, CallTypes, CallFits, PlaceFits, SentOnce,
       BothHalves, BrowserKinds
  <2>3. ASSUME NEW d \in Calls \ {c} PROVE CallFits(d)'
    BY <1>1, FitsOn DEF Receive, CallInv, CallTypes
  <2>. QED BY <2>1, <2>2, <2>3 DEF CallInv
<1>2. ASSUME NEW what \in {"error", "page", "no page"}, Answer({c}, what)
      PROVE  CallInv'
  <2>1. what \in Answers /\ what # "ok"
    BY <1>2 DEF Answers
  <2>2. CallTypes'
    BY <1>2, <2>1, AnswerIs DEF Receive, CallInv, CallTypes
  <2>3. ASSUME NEW d \in Calls PROVE CallFits(d)'
    BY <1>2, <2>1, AnswerIs, FitsOn DEF Receive, CallInv
  <2>. QED BY <2>2, <2>3 DEF CallInv
<1>. QED BY <1>1, <1>2 DEF Receive

LEMMA GiveUpKeeps ==
    ASSUME CallInv, NEW c \in Calls, GiveUp(c)
    PROVE  CallInv'
<1>. DEFINE r == [calls[c] EXCEPT !.answer = "timeout"]
<1>1. /\ r \in CallRecords /\ r.kind = calls[c].kind /\ r.answer = "timeout"
      /\ calls' = [calls EXCEPT ![c] = r]
  BY DEF GiveUp, CallInv, CallTypes, CallRecords, Answers
<1>. HIDE DEF r
<1>2. CallTypes'
  BY <1>1 DEF GiveUp, CallInv, CallTypes
<1>3. ASSUME NEW d \in Calls PROVE CallFits(d)'
  BY <1>1, FitsOn DEF GiveUp, CallInv, CallTypes
<1>. QED BY <1>2, <1>3 DEF CallInv

LEMMA ResponseKeeps ==
    ASSUME CallInv, NEW c \in Calls, Response(c)
    PROVE  CallInv'
<1>1. PICK what \in {"ok", "error"} : Answer({c}, what)
  BY DEF Response
<1>2. what \in Answers
  BY DEF Answers
<1>3. CallTypes'
  BY <1>1, <1>2, AnswerIs DEF Response, CallInv, CallTypes
<1>4. calls[c].kind # "navigate"
  BY DEF Response, CallInv, CallFits, PlaceFits
<1>5. ASSUME NEW d \in Calls PROVE CallFits(d)'
  BY <1>1, <1>2, <1>4, AnswerIs, FitsOn DEF Response, CallInv
<1>. QED BY <1>3, <1>5 DEF CallInv

\* The end of a goto: its entry is answered, or it has only one half yet.
LEMMA NavigationEndsKeeps ==
    ASSUME CallInv, NEW c \in Calls, NavigationEnds(c)
    PROVE  CallInv'
<1>. nav[c] \in NavRecords /\ "over" \in Watches
  BY DEF CallInv, CallTypes, Watches
<1>. "ok" \in Answers /\ "error" \in Answers
  BY DEF Answers
<1>1. CASE /\ nav' = [nav EXCEPT ![c].watch = "over", ![c].navigated = TRUE]
           /\ IF at[c] = "goto" /\ nav[c].responded THEN Answer({c}, "ok")
              ELSE UNCHANGED <<calls, at>>
  <2>. DEFINE n == [nav[c] EXCEPT !.watch = "over", !.navigated = TRUE]
  <2>a. nav' = [nav EXCEPT ![c] = n]
    BY <1>1 DEF CallInv, CallTypes
  <2>b. /\ n \in NavRecords /\ n.watch = "over" /\ n.sent = nav[c].sent
        /\ n.responded = nav[c].responded /\ n.navigated = TRUE
    BY DEF NavRecords, Watches
  <2>. HIDE DEF n
  <2>1. /\ nav' = [nav EXCEPT ![c] = n] /\ n \in NavRecords
        /\ n.watch = "over" /\ n.sent = nav[c].sent
        /\ n.responded = nav[c].responded /\ n.navigated = TRUE
    BY <2>a, <2>b
  <2>2. CASE at[c] = "goto" /\ nav[c].responded /\ Answer({c}, "ok")
    <3>1. CallTypes'
      BY <2>1, <2>2, AnswerIs DEF CallInv, CallTypes
    <3>2. CallFits(c)'
      BY <2>1, <2>2, AnswerIs DEF CallInv, CallTypes, CallFits, PlaceFits,
         SentOnce, BothHalves
    <3>3. ASSUME NEW d \in Calls \ {c} PROVE CallFits(d)'
      BY <2>1, <2>2, AnswerIs, FitsOn DEF CallInv, CallTypes
    <3>. QED BY <3>1, <3>2, <3>3 DEF CallInv
  <2>3. CASE ~(at[c] = "goto" /\ nav[c].responded) /\ UNCHANGED <<calls, at>>
    <3>1. CallTypes'
      BY <2>1, <2>3 DEF CallInv, CallTypes
    <3>2. at[c] \in {"goto", "gone"}
      BY DEF NavigationEnds, CallInv, CallFits, PlaceFits, CallTypes, Places
    <3>3. CallFits(c)'
      BY <2>1, <2>3, <3>2 DEF CallInv, CallTypes, CallFits, PlaceFits,
         SentOnce, BothHalves
    <3>4. ASSUME NEW d \in Calls \ {c} PROVE CallFits(d)'
      BY <2>1, <2>3, FitsOn DEF CallInv, CallTypes
    <3>. QED BY <3>1, <3>3, <3>4 DEF CallInv
  <2>. QED BY <1>1, <2>2, <2>3 DEF NavigationEnds
<1>2. CASE /\ nav' = [nav EXCEPT ![c].watch = "over"]
           /\ IF at[c] = "goto" THEN Answer({c}, "error")
              ELSE UNCHANGED <<calls, at>>
  <2>. DEFINE n == [nav[c] EXCEPT !.watch = "over"]
  <2>a. nav' = [nav EXCEPT ![c] = n]
    BY <1>2 DEF CallInv, CallTypes
  <2>b. /\ n \in NavRecords /\ n.watch = "over" /\ n.sent = nav[c].sent
        /\ n.responded = nav[c].responded /\ n.navigated = nav[c].navigated
    BY DEF NavRecords, Watches
  <2>. HIDE DEF n
  <2>1. /\ nav' = [nav EXCEPT ![c] = n] /\ n \in NavRecords
        /\ n.watch = "over" /\ n.sent = nav[c].sent
        /\ n.responded = nav[c].responded /\ n.navigated = nav[c].navigated
    BY <2>a, <2>b
  <2>c. nav[c].watch = "watched"
    BY DEF NavigationEnds
  <2>2. CASE Answer({c}, "error")
    <3>1. CallTypes'
      BY <2>1, <2>2, AnswerIs DEF CallInv, CallTypes
    <3>2. ASSUME NEW d \in Calls PROVE CallFits(d)'
      BY <2>1, <2>2, <2>c, AnswerIs, FitsOn DEF CallInv, CallTypes
    <3>. QED BY <3>1, <3>2 DEF CallInv
  <2>3. CASE UNCHANGED <<calls, at>>
    <3>1. CallTypes'
      BY <2>1, <2>3 DEF CallInv, CallTypes
    <3>2. ASSUME NEW d \in Calls PROVE CallFits(d)'
      BY <2>1, <2>3, <2>c, FitsOn DEF CallInv, CallTypes
    <3>. QED BY <3>1, <3>2 DEF CallInv
  <2>. QED BY <1>2, <2>2, <2>3 DEF NavigationEnds
<1>. QED BY <1>1, <1>2 DEF NavigationEnds

LEMMA NavigationResponseKeeps ==
    ASSUME CallInv, NEW c \in Calls, NavigationResponse(c)
    PROVE  CallInv'
<1>. nav[c] \in NavRecords /\ "ok" \in Answers
  BY DEF CallInv, CallTypes, Answers
<1>. DEFINE n == [nav[c] EXCEPT !.sent = FALSE, !.responded = (at[c] = "goto")]
<1>a. nav' = [nav EXCEPT ![c] = n]
  BY DEF NavigationResponse, CallInv, CallTypes
<1>b. (at[c] = "goto") \in BOOLEAN
  OBVIOUS
<1>c. /\ n \in NavRecords /\ n.watch = nav[c].watch /\ n.sent = FALSE
      /\ n.responded = (at[c] = "goto") /\ n.navigated = nav[c].navigated
  BY <1>b DEF NavRecords
<1>. HIDE DEF n
<1>1. /\ nav' = [nav EXCEPT ![c] = n] /\ n \in NavRecords
      /\ n.watch = nav[c].watch /\ n.sent = FALSE
      /\ n.responded <=> at[c] = "goto"
      /\ n.navigated = nav[c].navigated
  BY <1>a, <1>c
<1>2. /\ nav[c].sent /\ ~nav[c].responded /\ nav[c].watch # "queued"
      /\ at[c] \in {"goto", "gone"}
  BY DEF NavigationResponse, CallInv, CallFits, PlaceFits, SentOnce, CallTypes,
         Places
<1>3. CASE at[c] = "goto" /\ nav[c].navigated /\ Answer({c}, "ok")
  <2>1. CallTypes'
    BY <1>1, <1>3, AnswerIs DEF CallInv, CallTypes
  <2>2. CallFits(c)'
    BY <1>1, <1>2, <1>3, AnswerIs DEF CallInv, CallTypes, CallFits, PlaceFits,
       SentOnce, BothHalves
  <2>3. ASSUME NEW d \in Calls \ {c} PROVE CallFits(d)'
    BY <1>1, <1>3, AnswerIs, FitsOn DEF CallInv, CallTypes
  <2>. QED BY <2>1, <2>2, <2>3 DEF CallInv
<1>4. CASE ~(at[c] = "goto" /\ nav[c].navigated) /\ UNCHANGED <<calls, at>>
  <2>1. CallTypes'
    BY <1>1, <1>4 DEF CallInv, CallTypes
  <2>2. CallFits(c)'
    BY <1>1, <1>2, <1>4 DEF CallInv, CallTypes, CallFits, PlaceFits, SentOnce,
       BothHalves
  <2>3. ASSUME NEW d \in Calls \ {c} PROVE CallFits(d)'
    BY <1>1, <1>4, FitsOn DEF CallInv, CallTypes
  <2>. QED BY <2>1, <2>2, <2>3 DEF CallInv
<1>. QED BY <1>3, <1>4 DEF NavigationResponse

LEMMA EvictKeeps ==
    ASSUME CallInv, NEW c \in Calls, Evict(c)
    PROVE  CallInv'
<1>. nav[c] \in NavRecords /\ "timeout" \in Answers
  BY DEF CallInv, CallTypes, Answers
<1>. DEFINE n == [nav[c] EXCEPT !.sent = FALSE]
<1>1. PICK m \in NavRecords :
         /\ nav' = [nav EXCEPT ![c] = m] /\ m.watch = nav[c].watch
         /\ m.sent => nav[c].sent
         /\ m.responded = nav[c].responded /\ m.navigated = nav[c].navigated
  <2>1. CASE nav' = [nav EXCEPT ![c].sent = FALSE]
    <3>1. /\ nav' = [nav EXCEPT ![c] = n] /\ n \in NavRecords
          /\ n.watch = nav[c].watch /\ n.sent = FALSE
          /\ n.responded = nav[c].responded /\ n.navigated = nav[c].navigated
      BY <2>1 DEF CallInv, CallTypes, NavRecords
    <3>. HIDE DEF n
    <3>. QED BY <3>1
  <2>2. CASE nav' = nav
    <3>1. nav' = [nav EXCEPT ![c] = nav[c]]
      BY <2>2 DEF CallInv, CallTypes
    <3>. QED BY <3>1
  <2>. QED BY <2>1, <2>2 DEF Evict
<1>2. CASE Answer({c}, "timeout")
  <2>1. CallTypes'
    BY <1>1, <1>2, AnswerIs DEF CallInv, CallTypes
  <2>2. ASSUME NEW d \in Calls PROVE CallFits(d)'
    BY <1>1, <1>2, AnswerIs, FitsOn DEF CallInv, CallTypes
  <2>. QED BY <2>1, <2>2 DEF CallInv
<1>3. CASE UNCHANGED <<calls, at>>
  <2>1. CallTypes'
    BY <1>1, <1>3 DEF CallInv, CallTypes
  <2>2. ASSUME NEW d \in Calls PROVE CallFits(d)'
    BY <1>1, <1>3, FitsOn DEF CallInv, CallTypes
  <2>. QED BY <2>1, <2>2 DEF CallInv
<1>. QED BY <1>2, <1>3 DEF Evict

\* Page.navigate is sent: the goto had no half before.
LEMMA PollGotoKeeps ==
    ASSUME CallInv, NEW c \in Calls, PollGoto(c)
    PROVE  CallInv'
<1>. nav[c] \in NavRecords /\ "watched" \in Watches
  BY DEF CallInv, CallTypes, Watches
<1>. DEFINE n == [nav[c] EXCEPT !.watch = "watched", !.sent = TRUE]
<1>a. nav' = [nav EXCEPT ![c] = n]
  BY DEF PollGoto, CallInv, CallTypes
<1>b. /\ n \in NavRecords /\ n.watch = "watched" /\ n.sent = TRUE
      /\ n.responded = nav[c].responded /\ n.navigated = nav[c].navigated
  BY DEF NavRecords, Watches
<1>. HIDE DEF n
<1>1. /\ nav' = [nav EXCEPT ![c] = n] /\ n \in NavRecords
      /\ n.watch = "watched" /\ n.sent = TRUE
      /\ n.responded = nav[c].responded /\ n.navigated = nav[c].navigated
  BY <1>a, <1>b
<1>2. CallTypes'
  BY <1>1 DEF PollGoto, CallInv, CallTypes
<1>3. CallFits(c)'
  BY <1>1 DEF PollGoto, GotoDue, CallInv, CallTypes, CallFits, PlaceFits,
     SentOnce, BothHalves
<1>4. ASSUME NEW d \in Calls \ {c} PROVE CallFits(d)'
  BY <1>1, FitsOn DEF PollGoto, CallInv, CallTypes
<1>. QED BY <1>2, <1>3, <1>4 DEF CallInv

LEMMA CreateResponseKeeps ==
    ASSUME CallInv, NEW c \in Calls, NEW t \in Targets, CreateResponse(c, t)
    PROVE  CallInv'
<1>. DEFINE old == {d \in Calls : at[d] = "initiator" /\ calls[d].on = t}
            f == [d \in old |-> "canceled"]
<1>1. c \notin old /\ calls[c].kind = "createPage" /\ at[c] = "pending"
  BY DEF CreateResponse
<1>2. /\ calls' = [Answered(f) EXCEPT ![c].on = t]
      /\ at' = [Gone(old) EXCEPT ![c] = "initiator"] /\ nav' = nav
  BY DEF CreateResponse
<1>3. /\ Answered(f) \in [Calls -> CallRecords]
      /\ \A d \in Calls : /\ Answered(f)[d].kind = calls[d].kind
                          /\ Answered(f)[d].answer \in {calls[d].answer, "canceled"}
  BY AnsweredIs DEF CallInv, Answers
<1>. HIDE DEF f
<1>4. calls' \in [Calls -> CallRecords] /\ calls'[c].kind = calls[c].kind
  BY <1>2, <1>3 DEF CallRecords
<1>5. CallTypes'
  BY <1>2, <1>4 DEF CallInv, CallTypes, Gone, Places
<1>6. CallFits(c)'
  BY <1>1, <1>2, <1>4 DEF CallInv, CallTypes, CallFits, PlaceFits, SentOnce,
     BothHalves, Gone
<1>7. ASSUME NEW d \in Calls \ {c} PROVE CallFits(d)'
  BY <1>2, <1>3, FitsOn DEF CallInv, CallTypes, Gone
<1>. QED BY <1>5, <1>6, <1>7 DEF CallInv

\* What a target held, and what the handler held, goes: nothing succeeds but
\* the call that asked for it.
LEMMA DropsKeep ==
    ASSUME CallInv, NEW f, \A c \in DOMAIN f : f[c] \in Answers,
           \A c \in Calls : c \in DOMAIN f /\ f[c] = "ok"
                                => calls[c].kind # "navigate",
           calls' = Answered(f),
           at' \in [Calls -> Places],
           \A c \in Calls : at'[c] \in {at[c], "gone"},
           nav' \in [Calls -> NavRecords],
           \A c \in Calls :
               /\ nav'[c].watch \in {nav[c].watch, "none"}
               /\ nav'[c].sent => nav[c].sent
               /\ nav'[c].responded = nav[c].responded
               /\ nav'[c].navigated = nav[c].navigated
    PROVE  CallInv'
<1>1. CallTypes'
  BY AnsweredIs DEF CallInv, CallTypes
<1>2. ASSUME NEW d \in Calls PROVE CallFits(d)'
  BY AnsweredIs, FitsOn DEF CallInv
<1>. QED BY <1>1, <1>2 DEF CallInv

LEMMA WatchEnds ==
    ASSUME NEW n \in NavRecords, NEW b \in BOOLEAN
    PROVE  /\ [n EXCEPT !.watch = "none"] \in NavRecords
           /\ [n EXCEPT !.watch = "none"].watch = "none"
           /\ [n EXCEPT !.watch = "none"].sent = n.sent
           /\ [n EXCEPT !.watch = "none"].responded = n.responded
           /\ [n EXCEPT !.watch = "none"].navigated = n.navigated
           /\ [n EXCEPT !.watch = "none", !.sent = FALSE] \in NavRecords
           /\ [n EXCEPT !.watch = "none", !.sent = FALSE].watch = "none"
           /\ [n EXCEPT !.watch = "none", !.sent = FALSE].sent = FALSE
           /\ [n EXCEPT !.watch = "none", !.sent = FALSE].responded = n.responded
           /\ [n EXCEPT !.watch = "none", !.sent = FALSE].navigated = n.navigated
BY DEF NavRecords, Watches

LEMMA FetchResponseKeeps ==
    ASSUME CallInv, NEW c \in Calls, NEW listed \in SUBSET Targets,
           FetchResponse(c, listed)
    PROVE  CallInv'
<1>. DEFINE halted == UNION {HeldBy(t) : t \in listed}
            f == [d \in halted \cup {c} |-> IF d = c THEN "ok" ELSE "canceled"]
<1>1. calls' = Answered(f) /\ at' = Gone(halted \cup {c})
  BY DEF FetchResponse
<1>2. /\ \A d \in DOMAIN f : f[d] \in Answers
      /\ \A d \in Calls : d \in DOMAIN f /\ f[d] = "ok"
                             => calls[d].kind # "navigate"
  BY DEF FetchResponse, Answers
<1>3. /\ nav' \in [Calls -> NavRecords]
      /\ \A d \in Calls : /\ nav'[d].watch \in {nav[d].watch, "none"}
                          /\ nav'[d].sent => nav[d].sent
                          /\ nav'[d].responded = nav[d].responded
                          /\ nav'[d].navigated = nav[d].navigated
  BY WatchEnds DEF FetchResponse, CallInv, CallTypes
<1>4. at' \in [Calls -> Places] /\ \A d \in Calls : at'[d] \in {at[d], "gone"}
  BY <1>1 DEF Gone, CallInv, CallTypes, Places
<1>. HIDE DEF f
<1>. QED BY <1>1, <1>2, <1>3, <1>4, DropsKeep

LEMMA CancelKeeps ==
    ASSUME CallInv, NEW S, NEW what \in {"timeout", "canceled"},
           Answer(S, what),
           nav' \in [Calls -> NavRecords],
           \A d \in Calls : /\ nav'[d].watch \in {nav[d].watch, "none"}
                            /\ nav'[d].sent => nav[d].sent
                            /\ nav'[d].responded = nav[d].responded
                            /\ nav'[d].navigated = nav[d].navigated
    PROVE  CallInv'
<1>. DEFINE f == [d \in S |-> what]
<1>1. /\ \A d \in DOMAIN f : f[d] \in Answers /\ f[d] # "ok"
      /\ calls' = Answered(f) /\ at' = Gone(S)
  BY DEF Answer, Answers
<1>2. at' \in [Calls -> Places] /\ \A d \in Calls : at'[d] \in {at[d], "gone"}
  BY <1>1 DEF Gone, CallInv, CallTypes, Places
<1>. HIDE DEF f
<1>. QED BY <1>1, <1>2, DropsKeep

LEMMA TargetGoneKeeps ==
    ASSUME CallInv, NEW t \in Targets, ChainExpires(t) \/ Destroyed(t)
    PROVE  CallInv'
<1>1. CASE ChainExpires(t)
  <2>1. nav' = nav
    BY <1>1 DEF ChainExpires
  <2>2. Answer({c \in Calls : at[c] = "initiator" /\ calls[c].on = t},
               "timeout")
    BY <1>1 DEF ChainExpires
  <2>. QED BY <2>1, <2>2, CancelKeeps DEF CallInv, CallTypes
<1>2. CASE Destroyed(t)
  <2>1. nav' = [d \in Calls |-> IF calls[d].on = t
                               THEN [nav[d] EXCEPT !.watch = "none"]
                               ELSE nav[d]]
    BY <1>2 DEF Destroyed
  <2>2. /\ nav' \in [Calls -> NavRecords]
        /\ \A d \in Calls : /\ nav'[d].watch \in {nav[d].watch, "none"}
                            /\ nav'[d].sent => nav[d].sent
                            /\ nav'[d].responded = nav[d].responded
                            /\ nav'[d].navigated = nav[d].navigated
    BY <2>1, WatchEnds DEF CallInv, CallTypes
  <2>3. Answer(HeldBy(t), "canceled")
    BY <1>2 DEF Destroyed
  <2>. QED BY <2>2, <2>3, CancelKeeps
<1>. QED BY <1>1, <1>2

LEMMA StopKeeps ==
    ASSUME CallInv, Stop
    PROVE  CallInv'
<1>1. PICK closed \in {{}} \cup {{c} : c \in {d \in Calls :
                        at[d] = "pending" /\ calls[d].kind = "close"}} :
         LET halted == {c \in Calls : Waits(c)}
         IN  /\ calls' = Answered([c \in halted |->
                            IF c \in closed THEN "ok" ELSE "canceled"])
             /\ at' = Gone(halted)
  BY DEF Stop
<1>. DEFINE halted == {c \in Calls : Waits(c)}
            f == [c \in halted |-> IF c \in closed THEN "ok" ELSE "canceled"]
<1>2. /\ \A d \in DOMAIN f : f[d] \in Answers
      /\ \A d \in Calls : d \in DOMAIN f /\ f[d] = "ok"
                             => calls[d].kind # "navigate"
      /\ calls' = Answered(f) /\ at' = Gone(halted)
  BY <1>1 DEF Answers
<1>3. /\ nav' \in [Calls -> NavRecords]
      /\ \A d \in Calls : /\ nav'[d].watch \in {nav[d].watch, "none"}
                          /\ nav'[d].sent => nav[d].sent
                          /\ nav'[d].responded = nav[d].responded
                          /\ nav'[d].navigated = nav[d].navigated
  BY WatchEnds DEF Stop, CallInv, CallTypes
<1>4. at' \in [Calls -> Places] /\ \A d \in Calls : at'[d] \in {at[d], "gone"}
  BY <1>2 DEF Gone, CallInv, CallTypes, Places
<1>. HIDE DEF f
<1>. QED BY <1>2, <1>3, <1>4, DropsKeep

\* The messages of a page: only a goto becomes an entry, and nothing that is
\* answered here is one.
LEMMA PollReadyKeeps ==
    ASSUME CallInv, NEW t \in Targets, PollReady(t)
    PROVE  CallInv'
<1>. DEFINE
     r == targets[t]
     hand == Handed(t)
     read == Taken(t)
     done == Settled(t)
     gotos == {c \in read : calls[c].kind = "navigate"}
     w == IF r.loaded = "none" THEN "dropped" ELSE "queued"
<1>a. /\ calls' = Answered([c \in hand \cup done |->
                               IF c \in hand THEN "page" ELSE "ok"])
      /\ at' = [c \in Calls |->
              CASE c \in hand \cup done -> "gone"
                [] c \in gotos -> "goto"
                [] c \in read \ (gotos \cup done) ->
                      IF calls[c].kind \in {"command", "element"}
                      THEN "pending"
                      ELSE "waiter"
                [] OTHER -> at[c]]
      /\ nav' = [c \in Calls |-> IF c \notin gotos THEN nav[c]
                                 ELSE [nav[c] EXCEPT !.watch = w]]
  BY DEF PollReady
<1>b. /\ hand \in SUBSET {c \in Calls : at[c] = "initiator"}
      /\ read \in SUBSET {c \in Calls : at[c] = "pageq"}
      /\ done \in SUBSET Calls /\ w \in {"dropped", "queued"}
      /\ \A c \in done : \/ at[c] = "waiter"
                         \/ c \in read /\ calls[c].kind
                                          \in {"query", "waitNavigation"}
      /\ \A c \in read : calls[c].kind = "query" => c \in done
      /\ gotos = {c \in read : calls[c].kind = "navigate"}
  BY DEF Handed, Taken, Settled, On
<1>. HIDE DEF hand, read, done, gotos, w
<1>. DEFINE f == [c \in hand \cup done |-> IF c \in hand THEN "page" ELSE "ok"]
<1>2. /\ \A c \in DOMAIN f : f[c] \in Answers
      /\ calls' = Answered(f)
      /\ DOMAIN f = hand \cup done
  BY <1>a, <1>b DEF Answers
<1>. HIDE DEF f
<1>3. /\ calls' \in [Calls -> CallRecords]
      /\ \A c \in Calls : /\ calls'[c].kind = calls[c].kind
                          /\ c \notin hand \cup done => calls'[c] = calls[c]
  BY <1>2, AnsweredIs DEF CallInv
<1>4. at' \in [Calls -> Places]
  BY <1>a, <1>b DEF CallInv, CallTypes, Places
<1>5. \A c \in Calls :
        /\ nav'[c] \in NavRecords
        /\ c \notin gotos => nav'[c] = nav[c]
        /\ c \in gotos => /\ nav'[c].sent = nav[c].sent
                          /\ nav'[c].responded = nav[c].responded
                          /\ nav'[c].navigated = nav[c].navigated
  BY <1>a, <1>b DEF CallInv, CallTypes, NavRecords, Watches
<1>6. CallTypes'
  BY <1>a, <1>b, <1>3, <1>4, <1>5 DEF CallTypes
<1>7. ASSUME NEW d \in hand \cup done PROVE CallFits(d)'
  <2>1. d \in Calls /\ calls[d].kind # "navigate" /\ d \notin gotos
    BY <1>a, <1>b DEF CallInv, CallFits, PlaceFits
  <2>2. at'[d] = "gone"
    BY <1>a, <1>b, <2>1
  <2>. QED BY <1>3, <1>5, <2>1, <2>2, FitsOn DEF CallInv
<1>8. ASSUME NEW d \in gotos, d \notin hand \cup done PROVE CallFits(d)'
  <2>1. d \in Calls /\ at[d] = "pageq" /\ at'[d] = "goto"
    BY <1>a, <1>b, <1>8
  <2>. QED
    BY <1>3, <1>5, <1>8, <2>1 DEF CallInv, CallFits, PlaceFits, SentOnce,
       BothHalves
<1>9. ASSUME NEW d \in Calls, d \notin hand \cup done, d \notin gotos
      PROVE  CallFits(d)'
  <2>1. CASE d \in read
    <3>1. /\ at[d] = "pageq" /\ at'[d] \in {"pending", "waiter"}
          /\ calls[d].kind # "navigate"
      BY <1>a, <1>b, <1>9, <2>1
    <3>. QED
      BY <1>3, <1>5, <1>9, <3>1 DEF CallInv, CallFits, PlaceFits, SentOnce,
         BothHalves
  <2>2. CASE d \notin read
    <3>1. at'[d] = at[d]
      BY <1>a, <1>b, <1>9, <2>2
    <3>. QED BY <1>3, <1>5, <1>9, <3>1, FitsOn DEF CallInv
  <2>. QED BY <2>1, <2>2
<1>. QED BY <1>6, <1>7, <1>8, <1>9 DEF CallInv

\* The other steps of the targets touch no call.
LEMMA TargetsKeepCalls ==
    ASSUME CallInv, UNCHANGED <<calls, at, nav>>
    PROVE  CallInv'
BY DEF CallInv, CallTypes, CallFits, PlaceFits, SentOnce, BothHalves

-----------------------------------------------------------------------------
LEMMA InitInv == HandlerInit => TargetInv /\ CallInv
<1>. SUFFICES ASSUME HandlerInit PROVE TargetInv /\ CallInv
  OBVIOUS
<1>1. TargetInv
  BY DEF HandlerInit, HandlerFresh, TargetInv, TargetTypes, SessionReachesTarget, Known
<1>2. /\ [kind |-> "none", on |-> Nil, answer |-> "none"] \in CallRecords
      /\ NoNav \in NavRecords /\ NoNav.watch = "none"
      /\ ~NoNav.sent /\ ~NoNav.responded /\ ~NoNav.navigated
  BY DEF CallRecords, NavRecords, NoNav, Answers, Watches
<1>3. CallTypes
  BY <1>2 DEF HandlerInit, HandlerFresh, CallTypes, Places
<1>4. ASSUME NEW c \in Calls PROVE CallFits(c)
  BY <1>2 DEF HandlerInit, HandlerFresh, CallFits, PlaceFits, SentOnce, BothHalves
<1>. QED BY <1>1, <1>3, <1>4 DEF CallInv

LEMMA NextKeepsTargets == TargetInv /\ [HandlerNext]_handlerVars => TargetInv'
<1>. SUFFICES ASSUME TargetInv, [HandlerNext]_handlerVars PROVE TargetInv'
  OBVIOUS
<1>1. CASE UNCHANGED handlerVars
  BY <1>1 DEF handlerVars, TargetInv, TargetTypes, SessionReachesTarget, Known
<1>2. ASSUME NEW c \in Calls, NEW t \in Targets,
             \/ \E k \in BrowserKinds : AskBrowser(c, k, t)
             \/ \E k \in PageKinds : AskPage(c, k, t)
             \/ CreateResponse(c, t)
      PROVE  TargetInv'
  BY <1>2 DEF AskBrowser, AskPage, CreateResponse, TargetInv, TargetTypes,
     SessionReachesTarget, Known
<1>3. ASSUME NEW c \in Calls,
             \/ GiveUp(c) \/ Receive(c) \/ PollGoto(c) \/ NavigationEnds(c)
             \/ Response(c) \/ NavigationResponse(c) \/ Evict(c)
      PROVE  TargetInv'
  BY <1>3, CallsKeepTargets
<1>4. ASSUME NEW c \in Calls, NEW listed \in SUBSET Targets,
             FetchResponse(c, listed)
      PROVE  TargetInv'
  BY <1>4, SessionsKeepTargets
<1>5. ASSUME NEW t \in Targets,
             \/ PollInit(t) \/ ChainExpires(t) \/ PollReady(t)
             \/ InternalResponse(t)
             \/ \E how \in {"loading", "loaded"} : PageLoads(t, how)
      PROVE  TargetInv'
  BY <1>5, PollsKeepSessions
<1>6. ASSUME NEW t \in Targets,
             \/ Created(t) \/ Destroyed(t)
             \/ \E s \in Sessions : Attached(s, t)
      PROVE  TargetInv'
  BY <1>6, SessionsKeepTargets
<1>7. ASSUME NEW s \in Sessions, Detached(s) PROVE TargetInv'
  BY <1>7, SessionsKeepTargets
<1>8. CASE Stop
  BY <1>8, SessionsKeepTargets
<1>9. CASE Sleep \/ TimerWakes \/ Overheard
  BY <1>9 DEF Sleep, TimerWakes, Overheard, TargetInv, TargetTypes,
     SessionReachesTarget, Known
<1>. QED
  BY <1>1, <1>2, <1>3, <1>4, <1>5, <1>6, <1>7, <1>8, <1>9 DEF HandlerNext

LEMMA NextKeepsCalls == CallInv /\ [HandlerNext]_handlerVars => CallInv'
<1>. SUFFICES ASSUME CallInv, [HandlerNext]_handlerVars PROVE CallInv'
  OBVIOUS
<1>1. CASE UNCHANGED handlerVars
  BY <1>1, TargetsKeepCalls DEF handlerVars
<1>2. ASSUME NEW c \in Calls, NEW t \in Targets,
             \/ \E k \in BrowserKinds : AskBrowser(c, k, t)
             \/ \E k \in PageKinds : AskPage(c, k, t)
             \/ CreateResponse(c, t)
      PROVE  CallInv'
  BY <1>2, AskBrowserKeeps, AskPageKeeps, CreateResponseKeeps
<1>3. ASSUME NEW c \in Calls,
             \/ GiveUp(c) \/ Receive(c) \/ PollGoto(c) \/ NavigationEnds(c)
             \/ Response(c) \/ NavigationResponse(c) \/ Evict(c)
             \/ \E listed \in SUBSET Targets : FetchResponse(c, listed)
      PROVE  CallInv'
  BY <1>3, GiveUpKeeps, ReceiveKeeps, PollGotoKeeps, NavigationEndsKeeps,
     ResponseKeeps, NavigationResponseKeeps, EvictKeeps, FetchResponseKeeps
<1>4. ASSUME NEW t \in Targets, ChainExpires(t) \/ PollReady(t) \/ Destroyed(t)
      PROVE  CallInv'
  BY <1>4, TargetGoneKeeps, PollReadyKeeps
<1>5. ASSUME NEW t \in Targets,
             \/ PollInit(t) \/ InternalResponse(t) \/ Created(t)
             \/ \E s \in Sessions : Attached(s, t)
             \/ \E how \in {"loading", "loaded"} : PageLoads(t, how)
      PROVE  CallInv'
  BY <1>5, TargetsKeepCalls DEF PollInit, InternalResponse, Created, Attached,
     PageLoads
<1>6. ASSUME NEW s \in Sessions, Detached(s) PROVE CallInv'
  BY <1>6, TargetsKeepCalls DEF Detached
<1>7. CASE Stop
  BY <1>7, StopKeeps
<1>8. CASE Sleep \/ TimerWakes \/ Overheard
  BY <1>8, TargetsKeepCalls DEF Sleep, TimerWakes, Overheard
<1>. QED
  BY <1>1, <1>2, <1>3, <1>4, <1>5, <1>6, <1>7, <1>8 DEF HandlerNext

\* The task is awake, or asleep in one of two ways.
TaskTypes == task \in {"awake", "armed", "unarmed"}

LEMMA NextKeepsTask == TaskTypes /\ [HandlerNext]_handlerVars => TaskTypes'
<1>. SUFFICES ASSUME TaskTypes, [HandlerNext]_handlerVars PROVE TaskTypes'
  OBVIOUS
<1>. USE DEF TaskTypes, InPoll, Heard
<1>1. CASE UNCHANGED handlerVars
  BY <1>1 DEF handlerVars
<1>2. ASSUME NEW c \in Calls, NEW t \in Targets,
             \/ \E k \in BrowserKinds : AskBrowser(c, k, t)
             \/ \E k \in PageKinds : AskPage(c, k, t)
             \/ CreateResponse(c, t)
      PROVE  TaskTypes'
  BY <1>2 DEF AskBrowser, AskPage, CreateResponse
<1>3. ASSUME NEW c \in Calls,
             \/ GiveUp(c) \/ Receive(c) \/ PollGoto(c) \/ NavigationEnds(c)
             \/ Response(c) \/ NavigationResponse(c) \/ Evict(c)
             \/ \E listed \in SUBSET Targets : FetchResponse(c, listed)
      PROVE  TaskTypes'
  BY <1>3 DEF GiveUp, Receive, PollGoto, NavigationEnds, Response,
     NavigationResponse, Evict, FetchResponse
<1>4. ASSUME NEW t \in Targets,
             \/ PollInit(t) \/ ChainExpires(t) \/ PollReady(t)
             \/ InternalResponse(t) \/ Created(t) \/ Destroyed(t)
             \/ \E s \in Sessions : Attached(s, t)
             \/ \E how \in {"loading", "loaded"} : PageLoads(t, how)
      PROVE  TaskTypes'
  BY <1>4 DEF PollInit, ChainExpires, PollReady, InternalResponse, Created,
     Destroyed, Attached, PageLoads
<1>5. ASSUME NEW s \in Sessions, Detached(s) PROVE TaskTypes'
  BY <1>5 DEF Detached
<1>6. CASE Stop \/ Sleep \/ TimerWakes \/ Overheard
  BY <1>6 DEF Stop, Sleep, TimerWakes, Overheard
<1>. QED
  BY <1>1, <1>2, <1>3, <1>4, <1>5, <1>6 DEF HandlerNext

\* The types of the handler's state, which the two results rest on.
THEOREM HandlerTypes == HandlerSpec => []HandlerTypeOK
<1>1. TargetInv /\ CallInv /\ TaskTypes => HandlerTypeOK
  BY DEF TargetInv, CallInv, TargetTypes, CallTypes, TaskTypes, HandlerTypeOK,
     CallRecords, NavRecords, TargetRecords, Answers, Places, Watches, Loads,
     Known
<1>2. HandlerInit => TaskTypes
  BY DEF HandlerInit, HandlerFresh, TaskTypes
<1>. QED
  BY <1>1, <1>2, InitInv, NextKeepsTargets, NextKeepsCalls, NextKeepsTask, PTL
     DEF HandlerSpec

\* SessionReachesTarget: whatever Chrome attaches, detaches and destroys, the
\* session a target has is registered for it.
THEOREM SessionsReachTargets == HandlerSpec => []SessionReachesTarget
<1>1. TargetInv => SessionReachesTarget
  BY DEF TargetInv
<1>. QED BY <1>1, InitInv, NextKeepsTargets, PTL DEF HandlerSpec

\* GotoNeedsBothHalves: a goto succeeds with its second half, whichever that is,
\* and never stays behind with both.
THEOREM GotosNeedBothHalves == HandlerSpec => []GotoNeedsBothHalves
<1>1. CallInv => GotoNeedsBothHalves
  BY DEF CallInv, CallFits, BothHalves, GotoNeedsBothHalves
<1>. QED BY <1>1, InitInv, NextKeepsCalls, PTL DEF HandlerSpec

-----------------------------------------------------------------------------
(***************************************************************************)
(* Subscriptions.  What is on its way to a subscriber is one sequence, in  *)
(* three pieces: every step but a send moves the boundaries of the pieces, *)
(* or throws away an event of another type.                                *)
(***************************************************************************)
Event == [no : Nat, type : Types]
Sub == [id : Subscribers, queue : Seq(Event)]
Reader == [type : Types, state : {"none", "open", "stuck", "dropped"},
           got : Seq(Event), due : SUBSET Nat]

ListenersTypes ==
    /\ known \in BOOLEAN /\ turn \in Nat /\ sent \in Nat
    /\ subs \in Seq(Sub)
    /\ channel \in [Subscribers -> Seq(Event)]
    /\ reader \in [Subscribers -> Reader]

\* Events, of numbers up to last, bring a subscriber of a type what is due.
Brings(events, type, due, last) ==
    /\ \A m, n \in DOMAIN events : m < n => events[m].no < events[n].no
    /\ \A n \in DOMAIN events : events[n].no <= last
    /\ due = {events[n].no : n \in {n \in DOMAIN events :
                                       events[n].type = type}}

\* A subscriber is in the Vec once; what the pass has been over is drained.
VecInv ==
    /\ \A i, j \in DOMAIN subs : subs[i].id = subs[j].id => i = j
    /\ \A i \in DOMAIN subs : reader[subs[i].id].state # "none"
    /\ \A r \in Subscribers : reader[r].state \in {"open", "stuck"} =>
          \E i \in DOMAIN subs : subs[i].id = r
    /\ turn <= Len(subs)
    /\ turn > 0 => \A i \in DOMAIN subs : i > turn => subs[i].queue = << >>

FlowInv ==
    /\ \A r \in Subscribers : reader[r].state = "none" =>
          reader[r].got = << >> /\ reader[r].due = {} /\ channel[r] = << >>
    /\ \A i \in DOMAIN subs : reader[subs[i].id].state \in {"open", "stuck"} =>
          Brings(OnItsWay(subs[i].id, subs[i].queue), reader[subs[i].id].type,
                 reader[subs[i].id].due, sent)

ListenersInv == ListenersTypes /\ VecInv /\ FlowInv

-----------------------------------------------------------------------------
LEMMA EventsTyped ==
    ASSUME NEW w \in Seq(Event)
    PROVE  \A n \in DOMAIN w : w[n] \in Event /\ w[n].no \in Nat
<1>1. \A n \in DOMAIN w : w[n] \in Event
  OBVIOUS
<1>. QED BY <1>1 DEF Event

LEMMA Typed ==
    ASSUME ListenersTypes
    PROVE  /\ DOMAIN subs = 1 .. Len(subs) /\ Len(subs) \in Nat
           /\ \A i \in DOMAIN subs :
                 /\ subs[i] \in Sub
                 /\ subs[i].id \in Subscribers /\ subs[i].queue \in Seq(Event)
           /\ \A r \in Subscribers :
                 /\ reader[r] \in Reader /\ reader[r].type \in Types
                 /\ reader[r].got \in Seq(Event) /\ reader[r].due \in SUBSET Nat
                 /\ channel[r] \in Seq(Event)
           /\ Ids \subseteq Subscribers
<1>1. \A i \in DOMAIN subs : subs[i] \in Sub
  BY DEF ListenersTypes
<1>2. \A i \in DOMAIN subs :
         subs[i].id \in Subscribers /\ subs[i].queue \in Seq(Event)
  BY <1>1 DEF Sub
<1>3. \A r \in Subscribers : reader[r] \in Reader
  BY DEF ListenersTypes
<1>. QED BY <1>1, <1>2, <1>3 DEF ListenersTypes, Reader, Ids

\* Sequences.

LEMMA WayOfSend ==
    ASSUME NEW g \in Seq(Event), NEW c \in Seq(Event), NEW q \in Seq(Event),
           NEW e \in Event
    PROVE  g \o c \o Append(q, e) = Append(g \o c \o q, e)
OBVIOUS

LEMMA WayOfDrain ==
    ASSUME NEW g \in Seq(Event), NEW c \in Seq(Event), NEW q \in Seq(Event)
    PROVE  g \o (c \o q) \o << >> = g \o c \o q
OBVIOUS

LEMMA WayOfRead ==
    ASSUME NEW g \in Seq(Event), NEW c \in Seq(Event), NEW q \in Seq(Event),
           c # << >>
    PROVE  Append(g, c[1]) \o Tail(c) \o q = g \o c \o q
OBVIOUS

\* Throwing away the head of c takes one place out of the whole.
LEMMA WayOfLoss ==
    ASSUME NEW g \in Seq(Event), NEW c \in Seq(Event), NEW q \in Seq(Event),
           c # << >>
    PROVE  LET w == g \o c \o q
               v == g \o Tail(c) \o q
               k == Len(g) + 1
           IN  /\ w \in Seq(Event) /\ v \in Seq(Event)
               /\ k \in DOMAIN w /\ w[k] = c[1]
               /\ Len(v) = Len(w) - 1
               /\ \A n \in DOMAIN v : v[n] = w[IF n < k THEN n ELSE n + 1]
<1> DEFINE w == g \o c \o q
           v == g \o Tail(c) \o q
           k == Len(g) + 1
<1>1. w \in Seq(Event) /\ k \in DOMAIN w /\ w[k] = c[1]
  OBVIOUS
<1>2. v \in Seq(Event) /\ Len(v) = Len(w) - 1
  OBVIOUS
<1>3. \A n \in DOMAIN v : v[n] = w[IF n < k THEN n ELSE n + 1]
  OBVIOUS
<1>. QED BY <1>1, <1>2, <1>3

LEMMA BringsMore ==
    ASSUME NEW w \in Seq(Event), NEW type, NEW due, NEW last \in Nat,
           Brings(w, type, due, last),
           NEW e \in Event, e.no = last + 1
    PROVE  Brings(Append(w, e), type,
                  IF e.type = type THEN due \cup {e.no} ELSE due, last + 1)
<1> DEFINE v == Append(w, e)
<1>1. /\ DOMAIN v = 1 .. Len(w) + 1 /\ DOMAIN w = 1 .. Len(w)
      /\ Len(w) \in Nat
      /\ v[Len(w) + 1] = e /\ \A n \in DOMAIN w : v[n] = w[n]
  OBVIOUS
<1>2. \A n \in DOMAIN w : w[n] \in Event /\ w[n].no \in Nat
  BY EventsTyped
<1> HIDE DEF v
<1>3. \A m, n \in DOMAIN v : m < n => v[m].no < v[n].no
  BY <1>1, <1>2 DEF Brings
<1>4. \A n \in DOMAIN v : v[n].no <= last + 1
  BY <1>1, <1>2 DEF Brings
<1>5. {v[n].no : n \in {n \in DOMAIN v : v[n].type = type}}
        = IF e.type = type THEN due \cup {e.no} ELSE due
  <2>1. due = {w[n].no : n \in {n \in DOMAIN w : w[n].type = type}}
    BY DEF Brings
  <2>. QED BY <1>1, <2>1
<1>. QED BY <1>3, <1>4, <1>5 DEF Brings, v

LEMMA BringsLater ==
    ASSUME NEW w \in Seq(Event), NEW type, NEW due, NEW last \in Nat,
           Brings(w, type, due, last)
    PROVE  Brings(w, type, due, last + 1)
<1>1. \A n \in DOMAIN w : w[n].no \in Nat
  BY EventsTyped
<1>2. \A n \in DOMAIN w : w[n].no <= last => w[n].no <= last + 1
  BY <1>1
<1>. QED BY <1>2 DEF Brings

LEMMA BringsLess ==
    ASSUME NEW w \in Seq(Event), NEW v \in Seq(Event), NEW type, NEW due,
           NEW last \in Nat, Brings(w, type, due, last),
           NEW k \in DOMAIN w, w[k].type # type,
           Len(v) = Len(w) - 1,
           \A n \in DOMAIN v : v[n] = w[IF n < k THEN n ELSE n + 1]
    PROVE  Brings(v, type, due, last)
<1>1. DOMAIN w = 1 .. Len(w) /\ DOMAIN v = 1 .. Len(w) - 1 /\ Len(w) \in Nat
  OBVIOUS
<1>2. \A n \in DOMAIN w : w[n].no \in Nat
  BY EventsTyped
<1>3. ASSUME NEW m \in DOMAIN v, NEW n \in DOMAIN v, m < n
      PROVE  v[m].no < v[n].no
  <2> DEFINE At(j) == IF j < k THEN j ELSE j + 1
  <2>1. At(m) \in DOMAIN w /\ At(n) \in DOMAIN w /\ At(m) < At(n)
    BY <1>1, <1>3
  <2>2. w[At(m)].no < w[At(n)].no
    BY <2>1 DEF Brings
  <2>. QED BY <2>2
<1>4. \A n \in DOMAIN v : v[n].no <= last
  BY <1>1, <1>2 DEF Brings
<1>5. due = {v[n].no : n \in {n \in DOMAIN v : v[n].type = type}}
  <2>1. due = {w[n].no : n \in {n \in DOMAIN w : w[n].type = type}}
    BY DEF Brings
  <2>2. ASSUME NEW n \in DOMAIN w, w[n].type = type
        PROVE  \E m \in DOMAIN v : v[m] = w[n]
    <3>1. CASE n < k
      BY <1>1, <3>1
    <3>2. CASE n > k
      <4>1. n - 1 \in DOMAIN v /\ ~(n - 1 < k) /\ (n - 1) + 1 = n
        BY <1>1, <3>2
      <4>. QED BY <4>1
    <3>. QED BY <2>2, <3>1, <3>2, <1>1
  <2>3. \A m \in DOMAIN v : \E n \in DOMAIN w : v[m] = w[n]
    BY <1>1
  <2>. QED BY <2>1, <2>2, <2>3
<1>. QED BY <1>3, <1>4, <1>5 DEF Brings

LEMMA WayIsEvents ==
    ASSUME ListenersTypes, NEW r \in Subscribers, NEW q \in Seq(Event)
    PROVE  /\ OnItsWay(r, q) \in Seq(Event)
           /\ reader[r].got \in Seq(Event) /\ channel[r] \in Seq(Event)
BY DEF ListenersTypes, OnItsWay, Reader

-----------------------------------------------------------------------------
LEMMA ListenersInit0 == ListenersInit => ListenersInv
BY ListenersAssumption DEF ListenersInit, ListenersInv, ListenersTypes, VecInv,
   FlowInv, Reader, Sub, Types

LEMMA AddStep ==
    ASSUME ListenersInv, NEW r \in Subscribers, NEW type \in Types,
           AddListener(r, type)
    PROVE  ListenersInv'
<1> DEFINE s == [id |-> r, queue |-> << >>]
<1> USE DEF ListenersInv
<1>1. /\ turn = 0 /\ reader[r].state = "none" /\ subs' = Append(subs, s)
      /\ reader' = [reader EXCEPT ![r].type = type, ![r].state = "open"]
      /\ UNCHANGED <<known, turn, channel, sent>>
  BY DEF AddListener
<1>2. s \in Sub
  BY DEF Sub, Event
<1>3. ListenersTypes'
  BY <1>1, <1>2 DEF ListenersTypes, Reader
<1>4. /\ DOMAIN subs' = 1 .. Len(subs) + 1 /\ DOMAIN subs = 1 .. Len(subs)
      /\ Len(subs) \in Nat /\ Len(subs') = Len(subs) + 1
      /\ subs'[Len(subs) + 1] = s
      /\ \A i \in DOMAIN subs : subs'[i] = subs[i] /\ subs[i] \in Sub
  BY <1>1, <1>2 DEF ListenersTypes
<1>5. \A i \in DOMAIN subs : subs[i].id # r
  BY <1>1 DEF VecInv
<1>6. /\ reader'[r].state = "open"
      /\ reader'[r].got = reader[r].got /\ reader'[r].due = reader[r].due
      /\ \A q \in Subscribers : q # r => reader'[q] = reader[q]
  BY <1>1 DEF ListenersTypes, Reader
<1>7. VecInv'
  <2>1. \A i, j \in DOMAIN subs' : subs'[i].id = subs'[j].id => i = j
    BY <1>4, <1>5 DEF VecInv
  <2>2. \A i \in DOMAIN subs' : reader'[subs'[i].id].state # "none"
    BY <1>4, <1>5, <1>6 DEF VecInv, Sub
  <2>3. \A q \in Subscribers : reader'[q].state \in {"open", "stuck"} =>
           \E i \in DOMAIN subs' : subs'[i].id = q
    BY <1>4, <1>6 DEF VecInv
  <2>4. turn' <= Len(subs') /\ ~(turn' > 0)
    BY <1>1, <1>4
  <2>. QED BY <2>1, <2>2, <2>3, <2>4 DEF VecInv
<1>8. FlowInv'
  <2>1. reader[r].got = << >> /\ reader[r].due = {} /\ channel'[r] = << >>
    BY <1>1 DEF FlowInv
  <2>2. Brings(OnItsWay(r, << >>)', reader'[r].type, reader'[r].due, sent')
    BY <1>6, <2>1 DEF Brings, OnItsWay
  <2>3. ASSUME NEW i \in DOMAIN subs',
               reader'[subs'[i].id].state \in {"open", "stuck"}
        PROVE  Brings(OnItsWay(subs[i].id, subs[i].queue)',
                      reader'[subs'[i].id].type, reader'[subs'[i].id].due, sent')
    <3>1. CASE i = Len(subs) + 1
      BY <3>1, <2>2, <1>4
    <3>2. CASE i \in DOMAIN subs
      <4>1. reader'[subs[i].id] = reader[subs[i].id] /\ subs'[i] = subs[i]
        BY <3>2, <1>4, <1>5, <1>6 DEF Sub
      <4>. QED BY <3>2, <4>1, <2>3, <1>1 DEF FlowInv, OnItsWay
    <3>. QED BY <3>1, <3>2, <1>4
  <2>4. \A q \in Subscribers : reader'[q].state = "none" =>
           reader'[q].got = << >> /\ reader'[q].due = {} /\ channel'[q] = << >>
    BY <1>1, <1>6 DEF FlowInv
  <2>. QED BY <2>3, <2>4 DEF FlowInv
<1>. QED BY <1>3, <1>7, <1>8

LEMMA SendStep ==
    ASSUME ListenersInv, turn = 0, sent' = sent + 1,
           UNCHANGED <<known, turn, channel>>,
           NEW type \in Types, NEW T \in SUBSET Subscribers,
           subs' = [i \in DOMAIN subs |->
                       IF subs[i].id \in T
                       THEN [subs[i] EXCEPT !.queue =
                                Append(@, [no |-> sent + 1, type |-> type])]
                       ELSE subs[i]],
           \A r \in Ids : reader[r].type = type => r \in T,
           reader' = [r \in Subscribers |->
                         IF r \in Ids /\ r \in T /\ reader[r].type = type
                         THEN [reader[r] EXCEPT !.due = @ \cup {sent + 1}]
                         ELSE reader[r]]
    PROVE  ListenersInv'
<1> DEFINE e == [no |-> sent + 1, type |-> type]
<1> USE DEF ListenersInv
<1>1. e \in Event /\ e.no = sent + 1 /\ e.type = type
  BY DEF Event, ListenersTypes
<1>2. \A i \in DOMAIN subs : subs[i] \in Sub
  BY DEF ListenersTypes
<1>3. /\ DOMAIN subs' = DOMAIN subs /\ Len(subs') = Len(subs)
      /\ subs' \in Seq(Sub)
  <2>1. ASSUME NEW i \in DOMAIN subs  PROVE  subs'[i] \in Sub
    <3>1. Append(subs[i].queue, e) \in Seq(Event)
      BY <1>1, Typed
    <3>2. [subs[i] EXCEPT !.queue = Append(subs[i].queue, e)] \in Sub
      BY <3>1, <1>2 DEF Sub
    <3>. QED BY <3>2, <1>2
  <2>2. subs \in Seq(Sub) /\ DOMAIN subs = 1 .. Len(subs) /\ Len(subs) \in Nat
    BY DEF ListenersTypes
  <2>3. DOMAIN subs' = 1 .. Len(subs)
    BY <2>2
  <2>4. subs' = [i \in 1 .. Len(subs) |-> subs'[i]]
    BY <2>2
  <2>5. \A i \in 1 .. Len(subs) : subs'[i] \in Sub
    BY <2>1, <2>2
  <2>. HIDE DEF Sub
  <2>6. subs' \in [1 .. Len(subs) -> Sub]
    BY ONLY <2>4, <2>5
  <2>7. subs' \in Seq(Sub) /\ Len(subs') = Len(subs)
    BY ONLY <2>2, <2>6
  <2>. QED BY <2>2, <2>3, <2>7
<1>4. \A i \in DOMAIN subs :
         /\ subs'[i].id = subs[i].id
         /\ subs'[i].queue = IF subs[i].id \in T THEN Append(subs[i].queue, e)
                             ELSE subs[i].queue
  BY <1>2 DEF Sub
<1>5. \A r \in Subscribers :
         /\ reader'[r].state = reader[r].state
         /\ reader'[r].got = reader[r].got /\ reader'[r].type = reader[r].type
         /\ reader'[r].due = IF r \in Ids /\ reader[r].type = type
                             THEN reader[r].due \cup {e.no} ELSE reader[r].due
  BY DEF ListenersTypes, Reader
<1>6. ListenersTypes'
  <2>1. ASSUME NEW r \in Subscribers  PROVE  reader'[r] \in Reader
    <3>1. reader[r] \in Reader /\ sent + 1 \in Nat
      BY Typed DEF ListenersTypes
    <3>2. [reader[r] EXCEPT !.due = @ \cup {sent + 1}] \in Reader
      BY <3>1 DEF Reader
    <3>. QED BY <3>1, <3>2
  <2>2. reader' \in [Subscribers -> Reader]
    BY <2>1
  <2>3. sent' \in Nat
    BY DEF ListenersTypes
  <2>. QED BY <1>3, <2>2, <2>3 DEF ListenersTypes
<1>7. VecInv'
  <2>1. \A i \in DOMAIN subs : subs[i].id \in Subscribers
    BY Typed
  <2>2. turn' <= Len(subs') /\ ~(turn' > 0)
    BY <1>3 DEF VecInv
  <2>. QED BY <2>1, <2>2, <1>3, <1>4, <1>5 DEF VecInv
<1> HIDE DEF e
<1>8. FlowInv'
  <2>1. ASSUME NEW r \in Subscribers, reader'[r].state = "none"
        PROVE  /\ reader'[r].got = << >> /\ reader'[r].due = {}
               /\ channel'[r] = << >>
    <3>1. r \notin Ids
      BY <2>1, <1>5 DEF Ids, VecInv
    <3>. QED BY <2>1, <3>1, <1>5 DEF FlowInv
  <2>2. ASSUME NEW i \in DOMAIN subs,
               reader'[subs[i].id].state \in {"open", "stuck"}
        PROVE  Brings(OnItsWay(subs[i].id, subs[i].queue)',
                      reader'[subs'[i].id].type, reader'[subs'[i].id].due, sent')
    <3> DEFINE r == subs[i].id
               w == OnItsWay(r, subs[i].queue)
    <3>1. r \in Subscribers /\ r \in Ids /\ subs[i].queue \in Seq(Event)
      BY <1>2 DEF Sub, Ids
    <3>2. Brings(w, reader[r].type, reader[r].due, sent)
      BY <2>2, <3>1, <1>5 DEF FlowInv
    <3>3. /\ w \in Seq(Event) /\ reader[r].got \in Seq(Event)
          /\ channel[r] \in Seq(Event) /\ sent \in Nat
      BY <3>1, WayIsEvents DEF ListenersTypes
    <3>4. CASE r \in T
      <4>1. OnItsWay(subs[i].id, subs[i].queue)' = Append(w, e)
        <5>1. subs'[i].queue = Append(subs[i].queue, e)
          BY <3>4, <1>4
        <5>2. reader'[r].got = reader[r].got /\ channel' = channel
          BY <3>1, <1>5
        <5>3. subs'[i].id = r
          BY <1>4
        <5>4. OnItsWay(subs[i].id, subs[i].queue)'
                = reader[r].got \o channel[r] \o Append(subs[i].queue, e)
          BY <5>1, <5>2, <5>3 DEF OnItsWay
        <5>5. @ = Append(reader[r].got \o channel[r] \o subs[i].queue, e)
          BY <3>1, <3>3, <1>1, WayOfSend
        <5>6. @ = Append(w, e)
          BY DEF OnItsWay
        <5>. QED BY <5>4, <5>5, <5>6
      <4>2. Brings(Append(w, e), reader[r].type,
                   IF e.type = reader[r].type THEN reader[r].due \cup {e.no}
                   ELSE reader[r].due, sent + 1)
        BY <3>2, <3>3, <1>1, BringsMore
      <4>3. /\ reader'[r].type = reader[r].type /\ subs'[i].id = r
            /\ reader'[r].due = IF e.type = reader[r].type
                                THEN reader[r].due \cup {e.no}
                                ELSE reader[r].due
        BY <3>1, <1>1, <1>4, <1>5
      <4> HIDE DEF w, r
      <4>. QED BY <4>1, <4>2, <4>3
    <3>5. CASE r \notin T
      <4>1. reader[r].type # type
        BY <3>1, <3>5
      <4>2. OnItsWay(subs[i].id, subs[i].queue)' = w
        BY <3>1, <3>5, <1>4, <1>5 DEF OnItsWay
      <4>3. Brings(w, reader[r].type, reader[r].due, sent + 1)
        BY <3>2, <3>3, BringsLater
      <4>. QED BY <4>1, <4>2, <4>3, <3>1, <1>4, <1>5
    <3>. QED BY <3>4, <3>5
  <2>3. \A i \in DOMAIN subs : subs'[i].id = subs[i].id
    BY <1>4
  <2>. QED BY <2>1, <2>2, <2>3, <1>3 DEF FlowInv
<1>. QED BY <1>6, <1>7, <1>8

LEMMA StartSendStep == ListenersInv /\ StartSend => ListenersInv'
<1> SUFFICES ASSUME ListenersInv, StartSend  PROVE ListenersInv'
  OBVIOUS
<1>1. /\ turn = 0 /\ sent' = sent + 1 /\ UNCHANGED <<known, turn, channel>>
      /\ subs' = [i \in DOMAIN subs |->
                     [subs[i] EXCEPT !.queue =
                          Append(@, [no |-> sent + 1, type |-> "builtin"])]]
      /\ reader' = [r \in Subscribers |->
                       IF r \in Ids /\ reader[r].type = "builtin"
                       THEN [reader[r] EXCEPT !.due = @ \cup {sent + 1}]
                       ELSE reader[r]]
  BY DEF StartSend, Send
<1>2. Ids \subseteq Subscribers
  BY Typed DEF ListenersInv
<1>3. subs' = [i \in DOMAIN subs |->
                       IF subs[i].id \in Ids
                       THEN [subs[i] EXCEPT !.queue =
                                Append(@, [no |-> sent + 1, type |-> "builtin"])]
                       ELSE subs[i]]
  BY <1>1 DEF Ids
<1>4. "builtin" \in Types
  BY DEF Types
<1>. QED BY <1>1, <1>2, <1>3, <1>4, SendStep

LEMMA TrySendStep == ListenersInv /\ TrySendCustom => ListenersInv'
<1> SUFFICES ASSUME ListenersInv, TrySendCustom  PROVE ListenersInv'
  OBVIOUS
<1>1. CASE sent' = sent + 1 /\ UNCHANGED <<known, subs, turn, channel, reader>>
  <2>1. ListenersTypes' /\ VecInv'
    BY <1>1 DEF ListenersInv, ListenersTypes, VecInv
  <2>2. ASSUME NEW i \in DOMAIN subs,
               reader[subs[i].id].state \in {"open", "stuck"}
        PROVE  Brings(OnItsWay(subs[i].id, subs[i].queue),
                      reader[subs[i].id].type, reader[subs[i].id].due, sent + 1)
    <3>1. subs[i].id \in Subscribers /\ subs[i].queue \in Seq(Event)
      BY Typed DEF ListenersInv
    <3>. QED BY <3>1, <2>2, BringsLater, WayIsEvents
             DEF ListenersInv, FlowInv, ListenersTypes
  <2>3. FlowInv'
    BY <2>2, <1>1 DEF ListenersInv, FlowInv, OnItsWay
  <2>. QED BY <2>1, <2>3 DEF ListenersInv
<1>2. ASSUME NEW i \in DOMAIN subs, Custom(i), turn = 0,
             Send([no |-> sent + 1, type |-> reader[subs[i].id].type],
                  LAMBDA r : reader[r].type # "builtin")
      PROVE  ListenersInv'
  <2> DEFINE type == reader[subs[i].id].type
             T == {r \in Subscribers : reader[r].type # "builtin"}
  <2>1. subs[i].id \in Subscribers /\ type \in Types /\ type # "builtin"
    BY <1>2, Typed DEF ListenersInv, Custom
  <2>2. \A j \in DOMAIN subs : subs[j].id \in Subscribers
    BY Typed DEF ListenersInv
  <2>3. /\ sent' = sent + 1 /\ UNCHANGED <<known, turn, channel>>
        /\ subs' = [j \in DOMAIN subs |->
                       IF reader[subs[j].id].type # "builtin"
                       THEN [subs[j] EXCEPT !.queue =
                            Append(@, [no |-> sent + 1, type |-> type])]
                       ELSE subs[j]]
        /\ reader' = [r \in Subscribers |->
                       IF /\ r \in Ids /\ reader[r].type # "builtin"
                          /\ reader[r].type = type
                       THEN [reader[r] EXCEPT !.due = @ \cup {sent + 1}]
                       ELSE reader[r]]
    BY <1>2 DEF Send
  <2> HIDE DEF type
  <2>4. subs' = [j \in DOMAIN subs |->
                       IF subs[j].id \in T
                       THEN [subs[j] EXCEPT !.queue =
                                Append(@, [no |-> sent + 1, type |-> type])]
                       ELSE subs[j]]
    BY <2>2, <2>3
  <2>5. reader' = [r \in Subscribers |->
                         IF r \in Ids /\ r \in T /\ reader[r].type = type
                         THEN [reader[r] EXCEPT !.due = @ \cup {sent + 1}]
                         ELSE reader[r]]
    BY <2>3
  <2>6. \A r \in Ids : reader[r].type = type => r \in T
    BY <2>1, <2>2 DEF Ids
  <2> HIDE DEF T
  <2>7. T \in SUBSET Subscribers
    BY DEF T
  <2>. QED BY <1>2, <2>1, <2>3, <2>4, <2>5, <2>6, <2>7, SendStep
<1>. QED BY <1>1, <1>2 DEF TrySendCustom

LEMMA StartPassStep == ListenersInv /\ StartPass => ListenersInv'
BY DEF ListenersInv, ListenersTypes, VecInv, FlowInv, StartPass, OnItsWay

\* What is left of the Vec when listener n is taken out.
LEMMA Removed ==
    ASSUME NEW S, NEW s \in Seq(S), NEW n \in 1 .. Len(s)
    PROVE  /\ SwapRemove(s, n) \in Seq(S)
           /\ Len(SwapRemove(s, n)) = Len(s) - 1
           /\ \A i \in 1 .. Len(s) - 1 :
                 SwapRemove(s, n)[i] = IF i = n THEN s[Len(s)] ELSE s[i]
<1> DEFINE t == [s EXCEPT ![n] = s[Len(s)]]
<1>1. t \in Seq(S) /\ Len(t) = Len(s) /\ Len(s) \in Nat /\ Len(s) >= 1
  OBVIOUS
<1>2. \A i \in 1 .. Len(s) : t[i] = IF i = n THEN s[Len(s)] ELSE s[i]
  OBVIOUS
<1> HIDE DEF t
<1>3. /\ SubSeq(t, 1, Len(s) - 1) \in Seq(S)
      /\ Len(SubSeq(t, 1, Len(s) - 1)) = Len(s) - 1
      /\ \A i \in 1 .. Len(s) - 1 : SubSeq(t, 1, Len(s) - 1)[i] = t[i]
  BY <1>1
<1>. QED BY <1>1, <1>2, <1>3 DEF SwapRemove, t

LEMMA PollStep ==
    ASSUME ListenersInv, PollListener
    PROVE  /\ ListenersInv'
           /\ turn' = 0 => \A i \in DOMAIN subs' : subs'[i].queue = << >>
<1> DEFINE n == turn
           sub == subs[n]
           rest == SwapRemove(subs, n)
           done == [sub EXCEPT !.queue = << >>]
<1> USE DEF ListenersInv
<1>1. /\ n \in 1 .. Len(subs) /\ turn' = n - 1 /\ Len(subs) \in Nat
      /\ DOMAIN subs = 1 .. Len(subs) /\ n \in Nat
      /\ UNCHANGED <<known, reader, sent>>
  BY DEF PollListener, ListenersTypes, VecInv
<1>2. /\ \A i \in DOMAIN subs : subs[i] \in Sub
      /\ done \in Sub /\ done.id = sub.id /\ done.queue = << >>
      /\ sub.id \in Subscribers /\ sub.queue \in Seq(Event)
  <2>1. sub \in Sub /\ sub.id \in Subscribers /\ sub.queue \in Seq(Event)
    BY <1>1, Typed
  <2>2. done \in Sub /\ done.id = sub.id /\ done.queue = << >>
    <3>1. << >> \in Seq(Event)
      OBVIOUS
    <3>. QED BY <2>1, <3>1 DEF Sub
  <2>. QED BY <2>1, <2>2, Typed
<1>3. /\ rest \in Seq(Sub) /\ Len(rest) = Len(subs) - 1
      /\ DOMAIN rest = 1 .. Len(subs) - 1
      /\ \A i \in 1 .. Len(subs) - 1 :
            rest[i] = IF i = n THEN subs[Len(subs)] ELSE subs[i]
  <2>1. subs \in Seq(Sub)
    BY DEF ListenersTypes
  <2>2. rest \in Seq(Sub) /\ Len(rest) = Len(subs) - 1
    BY <2>1, <1>1, Removed
  <2>3. DOMAIN rest = 1 .. Len(rest)
    BY <2>2
  <2>. QED BY <2>1, <2>2, <2>3, <1>1, Removed
<1>4. IF reader[sub.id].state = "dropped"
      THEN subs' = rest /\ channel' = channel
      ELSE /\ subs' = Append(rest, done)
           /\ channel' = [channel EXCEPT ![sub.id] = @ \o sub.queue]
  BY DEF PollListener, DrainListener
<1> HIDE DEF rest, done, n
<1>5. CASE reader[sub.id].state = "dropped"
  <2>1. subs' = rest /\ channel' = channel
    BY <1>4, <1>5
  <2>2. ListenersTypes'
    BY <1>1, <1>3, <2>1 DEF ListenersTypes
  <2>3. \A i \in DOMAIN rest : \E j \in DOMAIN subs :
           rest[i] = subs[j] /\ j # n /\ (i < n => j = i)
    BY <1>1, <1>3
  <2>4. \A j \in DOMAIN subs : j # n => \E i \in DOMAIN rest : rest[i] = subs[j]
    <3>1. ASSUME NEW j \in DOMAIN subs, j # n
          PROVE  \E i \in DOMAIN rest : rest[i] = subs[j]
      <4>1. CASE j = Len(subs)
        BY <4>1, <3>1, <1>1, <1>3
      <4>2. CASE j # Len(subs)
        BY <4>2, <3>1, <1>1, <1>3
      <4>. QED BY <4>1, <4>2
    <3>. QED BY <3>1
  <2>5. \A i, j \in DOMAIN rest : rest[i].id = rest[j].id => i = j
    BY <1>1, <1>3 DEF VecInv
  <2>6. \A i \in DOMAIN rest : i > n - 1 => rest[i].queue = << >>
    BY <1>1, <1>3 DEF VecInv, n
  <2>7. VecInv'
    <3>1. \A r \in Subscribers : reader[r].state \in {"open", "stuck"} =>
             \E i \in DOMAIN rest : rest[i].id = r
      BY <2>4, <1>5 DEF VecInv
    <3>2. \A i \in DOMAIN rest : reader[rest[i].id].state # "none"
      BY <2>3 DEF VecInv
    <3>3. n - 1 <= Len(rest)
      BY <1>1, <1>3
    <3>. QED BY <3>1, <3>2, <3>3, <2>1, <2>5, <2>6, <1>1 DEF VecInv
  <2>8. FlowInv'
    BY <2>1, <2>3, <1>1 DEF FlowInv, OnItsWay
  <2>9. turn' = 0 => \A i \in DOMAIN subs' : subs'[i].queue = << >>
    BY <2>1, <2>6, <1>1, <1>3
  <2>. QED BY <2>2, <2>7, <2>8, <2>9
<1>6. CASE reader[sub.id].state # "dropped"
  <2>1. /\ subs' = Append(rest, done)
        /\ channel' = [channel EXCEPT ![sub.id] = @ \o sub.queue]
    BY <1>4, <1>6
  <2>2. /\ Len(subs') = Len(subs) /\ DOMAIN subs' = DOMAIN subs
        /\ subs'[Len(subs)] = done /\ subs' \in Seq(Sub)
        /\ \A i \in 1 .. Len(subs) - 1 :
              subs'[i] = IF i = n THEN subs[Len(subs)] ELSE subs[i]
    <3>1. subs' \in Seq(Sub) /\ Len(subs') = Len(subs)
      <4>1. done \in Sub /\ rest \in Seq(Sub) /\ Len(rest) = Len(subs) - 1
        BY <1>2, <1>3
      <4>. QED BY <4>1, <2>1, <1>1
    <3>2. DOMAIN subs' = 1 .. Len(subs')
      BY <3>1
    <3>3. /\ subs'[Len(rest) + 1] = done
          /\ \A i \in 1 .. Len(rest) : subs'[i] = rest[i]
      BY <2>1, <1>2, <1>3
    <3>4. Len(rest) + 1 = Len(subs)
      BY <1>1, <1>3
    <3>. QED BY <3>1, <3>2, <3>3, <3>4, <1>1, <1>3
  <2>3. ListenersTypes'
    <3>1. channel' \in [Subscribers -> Seq(Event)]
      BY <2>1, <1>2 DEF ListenersTypes
    <3>. QED BY <3>1, <2>2, <1>1 DEF ListenersTypes
  <2>4. /\ channel'[sub.id] = channel[sub.id] \o sub.queue
        /\ \A r \in Subscribers : r # sub.id => channel'[r] = channel[r]
    BY <2>1, <1>2 DEF ListenersTypes
  <2>5. ASSUME NEW i \in DOMAIN subs
        PROVE  \/ subs'[i] = done
               \/ \E j \in DOMAIN subs :
                     subs'[i] = subs[j] /\ j # n /\ (i < n => j = i)
    BY <1>1, <2>2
  <2>6. \A i, j \in DOMAIN subs' : subs'[i].id = subs'[j].id => i = j
    BY <2>2, <1>1, <1>2 DEF VecInv
  <2>7. \A i \in DOMAIN subs' : i > n - 1 => subs'[i].queue = << >>
    BY <1>1, <1>2, <2>2 DEF VecInv, n
  <2>8. VecInv'
    <3>1. \A j \in DOMAIN subs : \E i \in DOMAIN subs' : subs'[i].id = subs[j].id
      <4>1. ASSUME NEW j \in DOMAIN subs
            PROVE  \E i \in DOMAIN subs' : subs'[i].id = subs[j].id
        <5>1. CASE j = n
          BY <5>1, <2>2, <1>1, <1>2
        <5>2. CASE j # n /\ j = Len(subs)
          BY <5>2, <2>2, <1>1
        <5>3. CASE j # n /\ j # Len(subs)
          BY <5>3, <2>2, <1>1
        <5>. QED BY <5>1, <5>2, <5>3
      <4>. QED BY <4>1
    <3>2. \A r \in Subscribers : reader[r].state \in {"open", "stuck"} =>
             \E i \in DOMAIN subs' : subs'[i].id = r
      BY <3>1 DEF VecInv
    <3>3. \A i \in DOMAIN subs' : reader[subs'[i].id].state # "none"
      BY <2>2, <2>5, <1>1, <1>2 DEF VecInv
    <3>. QED BY <3>2, <3>3, <2>2, <2>6, <2>7, <1>1 DEF VecInv
  <2>9. FlowInv'
    <3>1. \A r \in Subscribers : reader[r].state = "none" => channel'[r] = channel[r]
      BY <2>4, <1>1 DEF VecInv
    <3>2. ASSUME NEW i \in DOMAIN subs,
                 reader[subs'[i].id].state \in {"open", "stuck"}
          PROVE  Brings(OnItsWay(subs[i].id, subs[i].queue)',
                        reader[subs'[i].id].type, reader[subs'[i].id].due, sent)
      <4>1. CASE subs'[i] = done
        <5>1. OnItsWay(subs[i].id, subs[i].queue)'
                = reader[sub.id].got \o (channel[sub.id] \o sub.queue) \o << >>
          BY <4>1, <2>4, <1>1, <1>2 DEF OnItsWay
        <5>2. @ = OnItsWay(sub.id, sub.queue)
          <6>1. reader[sub.id].got \in Seq(Event) /\ channel[sub.id] \in Seq(Event)
            BY <1>2, Typed
          <6>2. sub.queue \in Seq(Event)
            BY <1>2
          <6>. QED BY <6>1, <6>2, WayOfDrain DEF OnItsWay
        <5>3. subs'[i].id = sub.id /\ n \in DOMAIN subs
          BY <4>1, <1>1, <1>2
        <5>4. Brings(OnItsWay(sub.id, sub.queue), reader[sub.id].type,
                     reader[sub.id].due, sent)
          BY <5>3, <3>2 DEF FlowInv
        <5>. QED BY <5>1, <5>2, <5>3, <5>4
      <4>2. ASSUME NEW j \in DOMAIN subs, subs'[i] = subs[j], j # n
            PROVE  Brings(OnItsWay(subs[i].id, subs[i].queue)',
                        reader[subs'[i].id].type, reader[subs'[i].id].due, sent)
        <5>1. subs[j].id # sub.id /\ subs[j].id \in Subscribers
          BY <4>2, <1>1, <1>2 DEF VecInv, Sub
        <5>2. OnItsWay(subs[i].id, subs[i].queue)'
                = OnItsWay(subs[j].id, subs[j].queue)
          BY <5>1, <4>2, <2>4, <1>1 DEF OnItsWay
        <5>. QED BY <5>2, <4>2, <3>2 DEF FlowInv
      <4>. QED BY <4>1, <4>2, <2>5
    <3>. QED BY <3>1, <3>2, <2>2, <1>1 DEF FlowInv
  <2>. QED BY <2>3, <2>7, <2>8, <2>9, <2>2, <1>1
<1>. QED BY <1>5, <1>6

LEMMA ReadStep ==
    ASSUME ListenersInv, NEW r \in Subscribers, PollNext(r)
    PROVE  ListenersInv'
<1> DEFINE g == reader[r].got
           c == channel[r]
           e == c[1]
<1> USE DEF ListenersInv
<1>1. /\ reader[r].state = "open" /\ c # << >>
      /\ channel' = [channel EXCEPT ![r] = Tail(c)]
      /\ reader' = IF e.type = reader[r].type
                   THEN [reader EXCEPT ![r].got = Append(g, e)]
                   ELSE [reader EXCEPT ![r].state = "stuck"]
      /\ UNCHANGED <<known, subs, turn, sent>>
  BY DEF PollNext
<1>2. g \in Seq(Event) /\ c \in Seq(Event) /\ e \in Event /\ Tail(c) \in Seq(Event)
  BY <1>1 DEF ListenersTypes, Reader
<1>3. /\ channel'[r] = Tail(c)
      /\ \A q \in Subscribers : q # r =>
            channel'[q] = channel[q] /\ reader'[q] = reader[q]
      /\ reader'[r].due = reader[r].due /\ reader'[r].type = reader[r].type
      /\ reader'[r].state \in {"open", "stuck"}
      /\ reader'[r].got = IF e.type = reader[r].type THEN Append(g, e) ELSE g
  BY <1>1 DEF ListenersTypes, Reader
<1>4. ListenersTypes'
  <2>1. channel' \in [Subscribers -> Seq(Event)]
    BY <1>1, <1>2 DEF ListenersTypes
  <2>2. reader' \in [Subscribers -> Reader]
    <3>1. reader[r] \in Reader
      BY Typed
    <3>2. /\ [reader[r] EXCEPT !.got = Append(g, e)] \in Reader
          /\ [reader[r] EXCEPT !.state = "stuck"] \in Reader
      <4>1. Append(g, e) \in Seq(Event)
        BY <1>2
      <4>. QED BY <3>1, <4>1 DEF Reader
    <3>. QED BY <3>1, <3>2, <1>1 DEF ListenersTypes
  <2>. QED BY <2>1, <2>2, <1>1 DEF ListenersTypes
<1>5. VecInv'
  BY <1>1, <1>3 DEF VecInv, ListenersTypes, Sub
<1>6. FlowInv'
  <2>1. ASSUME NEW i \in DOMAIN subs,
               reader'[subs[i].id].state \in {"open", "stuck"}
        PROVE  Brings(OnItsWay(subs[i].id, subs[i].queue)',
                      reader'[subs[i].id].type, reader'[subs[i].id].due, sent)
    <3> DEFINE q == subs[i].queue
    <3>1. subs[i].id \in Subscribers /\ q \in Seq(Event)
      BY Typed
    <3>2. CASE subs[i].id # r
      BY <3>1, <3>2, <2>1, <1>1, <1>3 DEF FlowInv, OnItsWay
    <3>3. CASE subs[i].id = r
      <4> DEFINE w == g \o c \o q
      <4>1. Brings(w, reader[r].type, reader[r].due, sent) /\ w \in Seq(Event)
        <5>1. Brings(OnItsWay(r, q), reader[r].type, reader[r].due, sent)
          BY <3>3, <1>1 DEF FlowInv
        <5>2. OnItsWay(r, q) = w
          BY DEF OnItsWay
        <5>3. w \in Seq(Event)
          BY <3>1, <1>2
        <5>. QED BY <5>1, <5>2, <5>3
      <4>2. OnItsWay(subs[i].id, subs[i].queue)'
              = reader'[r].got \o Tail(c) \o q
        BY <3>3, <1>1, <1>3 DEF OnItsWay
      <4>3. CASE e.type = reader[r].type
        <5>1. reader'[r].got \o Tail(c) \o q = w
          <6>1. reader'[r].got = Append(g, c[1])
            BY <4>3, <1>3
          <6>2. Append(g, c[1]) \o Tail(c) \o q = g \o c \o q
            BY <3>1, <1>1, <1>2, WayOfRead
          <6>. QED BY <6>1, <6>2
        <5> HIDE DEF w
        <5>. QED BY <5>1, <4>1, <4>2, <3>3, <1>3
      <4>4. CASE e.type # reader[r].type
        <5> HIDE DEF g, c, q
        <5> DEFINE v == g \o Tail(c) \o q
                   k == Len(g) + 1
        <5>1. /\ v \in Seq(Event) /\ k \in DOMAIN w /\ w[k] = e
              /\ Len(v) = Len(w) - 1
              /\ \A n \in DOMAIN v : v[n] = w[IF n < k THEN n ELSE n + 1]
          <6>1. /\ g \in Seq(Event) /\ c \in Seq(Event) /\ q \in Seq(Event)
                /\ c # << >> /\ e = c[1]
            BY <3>1, <1>1, <1>2 DEF e
          <6>. HIDE DEF e
          <6>. QED BY <6>1, WayOfLoss
        <5>2. sent \in Nat
          BY DEF ListenersTypes
        <5> HIDE DEF w, v, k
        <5>3. Brings(v, reader[r].type, reader[r].due, sent)
          BY <4>1, <4>4, <5>1, <5>2, BringsLess
        <5>. QED BY <5>3, <4>2, <4>4, <3>3, <1>3 DEF v
      <4>. QED BY <4>3, <4>4
    <3>. QED BY <3>2, <3>3
  <2>. QED BY <2>1, <1>1, <1>3 DEF FlowInv
<1>. QED BY <1>4, <1>5, <1>6

\* Being woken or dropped moves nothing.
LEMMA ReaderStep ==
    ASSUME ListenersInv, NEW r \in Subscribers, Repoll(r) \/ DropStream(r)
    PROVE  ListenersInv'
<1> USE DEF ListenersInv
<1>1. /\ reader[r].state # "none"
      /\ UNCHANGED <<known, subs, turn, sent>>
      /\ \A q \in Subscribers : q # r =>
            channel'[q] = channel[q] /\ reader'[q] = reader[q]
      /\ \/ /\ reader[r].state = "stuck" /\ reader'[r].state = "open"
            /\ channel' = channel
         \/ reader'[r].state = "dropped"
      /\ reader'[r].due = reader[r].due /\ reader'[r].type = reader[r].type
      /\ reader'[r].got = reader[r].got
  BY DEF Repoll, DropStream, ListenersTypes, Reader
<1>2. ListenersTypes'
  <2>1. \A q \in Subscribers : channel'[q] \in Seq(Event)
    <3>1. << >> \in Seq(Event) /\ \A q \in Subscribers : channel[q] \in Seq(Event)
      BY Typed
    <3>2. channel \in [Subscribers -> Seq(Event)]
      BY DEF ListenersTypes
    <3>3. channel' \in {channel, [channel EXCEPT ![r] = << >>]}
      BY DEF Repoll, DropStream
    <3>. QED BY <3>1, <3>2, <3>3
  <2>2. reader[r] \in Reader
    BY Typed
  <2>3. /\ [reader[r] EXCEPT !.state = "open"] \in Reader
        /\ [reader[r] EXCEPT !.state = "dropped"] \in Reader
    BY <2>2 DEF Reader
  <2>4. reader' \in [Subscribers -> Reader]
    BY <2>3 DEF Repoll, DropStream, ListenersTypes
  <2>5. channel' \in [Subscribers -> Seq(Event)]
    BY <2>1 DEF Repoll, DropStream, ListenersTypes
  <2>. QED BY <2>4, <2>5, <1>1 DEF ListenersTypes
<1>3. VecInv'
  <2>1. \A i \in DOMAIN subs : subs[i].id \in Subscribers
    BY Typed
  <2>. QED BY <1>1, <2>1 DEF VecInv
<1>4. FlowInv'
  <2>1. \A i \in DOMAIN subs : subs[i].id \in Subscribers
    BY Typed
  <2>. QED BY <1>1, <2>1 DEF FlowInv, OnItsWay
<1>. QED BY <1>2, <1>3, <1>4

LEMMA ListenersStep == ListenersInv /\ [ListenersNext]_listenerVars => ListenersInv'
<1> SUFFICES ASSUME ListenersInv, [ListenersNext]_listenerVars
             PROVE  ListenersInv'
  OBVIOUS
<1>1. CASE UNCHANGED listenerVars
  BY <1>1 DEF listenerVars, ListenersInv, ListenersTypes, VecInv, FlowInv,
     OnItsWay
<1>. QED BY <1>1, AddStep, StartSendStep, TrySendStep, StartPassStep, PollStep,
         ReadStep, ReaderStep DEF ListenersNext

\* Every subscriber gets the events of its type, once and in order, whoever
\* subscribes and goes at any time, and for any number of events.
THEOREM SubscribersGetTheirEvents == ListenersSpec => EachGetsItsEvents
<1>1. ListenersInv => AllServed
  <2> SUFFICES ASSUME ListenersInv, NEW r \in Subscribers,
                      reader[r].state \in {"open", "stuck"}
               PROVE  \E i \in DOMAIN subs :
                         /\ \A j \in DOMAIN subs : subs[j].id = r <=> j = i
                         /\ Delivers(r, OnItsWay(r, subs[i].queue))
    BY DEF AllServed
  <2>1. PICK i \in DOMAIN subs : subs[i].id = r
    BY DEF ListenersInv, VecInv
  <2>2. \A j \in DOMAIN subs : subs[j].id = r <=> j = i
    BY <2>1 DEF ListenersInv, VecInv
  <2>3. Brings(OnItsWay(r, subs[i].queue), reader[r].type, reader[r].due, sent)
    BY <2>1 DEF ListenersInv, FlowInv
  <2>. QED BY <2>2, <2>3 DEF Brings, Delivers
<1>2. ListenersInv /\ ListenersNext => PassDrains
  <2> SUFFICES ASSUME ListenersInv, ListenersNext, turn = 1, turn' = 0
               PROVE  \A i \in DOMAIN subs' : subs'[i].queue = << >>
    BY DEF PassDrains
  <2>1. PollListener
    BY DEF ListenersNext, StartSend, TrySendCustom, Send, StartPass,
       AddListener, PollNext, Repoll, DropStream
  <2>. QED BY <2>1, PollStep
<1>3. ListenersInv /\ [ListenersNext]_listenerVars
        => [AllServed /\ PassDrains]_listenerVars
  BY <1>1, <1>2
<1>. QED BY <1>3, ListenersInit0, ListenersStep, PTL
         DEF ListenersSpec, EachGetsItsEvents

-----------------------------------------------------------------------------
(***************************************************************************)
(* Operations.  A command sequence that is under way closes whatever it    *)
(* has opened and whatever it still opens; a screenshot that is alone has  *)
(* in force exactly what it is between opening and closing.                *)
(***************************************************************************)
Things == {"metrics", "background", "button", "key", "search", "cookieGap"}
Shots == {"full", "both", "elementShot"}
Plain == {"move", "activate", "layout", "capture", "scroll", "quads", "box",
          "describe", "resolve", "getDocument", "query", "results", "url",
          "deleteCookie", "callFunction", "context", "evaluate", "loaded",
          "reload", "addBinding", "addScript", "userAgent", "set", "ask"}
Command == Plain \cup DOMAIN Opens \cup DOMAIN Closes

OpensIt(command, t) == command \in DOMAIN Opens /\ Opens[command] = t
ClosesIt(command, t) == command \in DOMAIN Closes /\ Closes[command] = t

WellClosed(rest) ==
    \A i \in DOMAIN rest, t \in Things : OpensIt(rest[i], t) =>
        \E j \in DOMAIN rest : i < j /\ ClosesIt(rest[j], t)

\* Nothing is opened or closed twice; at the capture everything asked for is
\* open and nothing else will be.
ShotPlan(name, rest) ==
    /\ \A i, j \in DOMAIN rest, t \in Things : i < j =>
          /\ ~(OpensIt(rest[i], t) /\ OpensIt(rest[j], t))
          /\ ~(ClosesIt(rest[i], t) /\ ClosesIt(rest[j], t))
          /\ ~(ClosesIt(rest[i], t) /\ OpensIt(rest[j], t))
    /\ \A k \in DOMAIN rest : rest[k] = "capture" =>
          \A t \in Things :
             /\ \A i \in DOMAIN rest : OpensIt(rest[i], t) => i < k
             /\ \A i \in DOMAIN rest : ClosesIt(rest[i], t) => k < i
             /\ t \in Asked(name) <=> \E i \in DOMAIN rest : ClosesIt(rest[i], t)

\* What is in force between the commands before rest and rest.
Between(rest) ==
    {t \in Things : /\ \E j \in DOMAIN rest : ClosesIt(rest[j], t)
                    /\ \A j \in DOMAIN rest : ~OpensIt(rest[j], t)}

Operation ==
    [name : DOMAIN Commands \cup {"none"}, rest : Seq(Command),
     state : {"idle", "running", "ok", "failed"}, doc : Nat, table : Nat,
     opened : SUBSET Things, alone : BOOLEAN, shot : SUBSET Things]

PageTypes ==
    /\ op \in [Users -> Operation]
    /\ held \in SUBSET Things /\ left \in SUBSET Things
    /\ document \in Nat /\ nodes \in Nat

\* An operation under way will close what it has opened.
WillClose(o) ==
    /\ Len(o.rest) > 0 /\ WellClosed(o.rest)
    /\ \A t \in o.opened : \E j \in DOMAIN o.rest : ClosesIt(o.rest[j], t)

\* One that is alone knows what is in force; a screenshot has it as planned.
Undisturbed(u, o) ==
    /\ Running = {u} /\ held = o.opened
    /\ o.name \in Shots =>
          /\ ShotPlan(o.name, o.rest)
          /\ o.opened = Between(o.rest)
          /\ (\A k \in DOMAIN o.rest : o.rest[k] # "capture")
                => o.shot = Asked(o.name)

PageInv ==
    /\ PageTypes
    /\ \A u \in Running : WillClose(op[u])
    /\ \A t \in held \ left : \E u \in Running : t \in op[u].opened
    /\ \A u \in Running : op[u].alone => Undisturbed(u, op[u])
    /\ \A u \in Users : op[u].state = "ok" /\ op[u].alone /\ op[u].name \in Shots
                          => op[u].shot = Asked(op[u].name)

-----------------------------------------------------------------------------
LEMMA WhatOpens ==
    /\ \A c : c \notin DOMAIN Opens => \A t : ~OpensIt(c, t)
    /\ DOMAIN Opens = {"setMetrics", "setBackground", "press",
                       "keyDown", "performSearch", "replaceCookie"}
    /\ \A t : OpensIt("setMetrics", t) <=> t = "metrics"
    /\ \A t : OpensIt("setBackground", t) <=> t = "background"
    /\ \A t : OpensIt("press", t) <=> t = "button"
    /\ \A t : OpensIt("keyDown", t) <=> t = "key"
    /\ \A t : OpensIt("performSearch", t) <=> t = "search"
    /\ \A t : OpensIt("replaceCookie", t) <=> t = "cookieGap"
<1>1. DOMAIN Opens = {"setMetrics", "setBackground", "press",
                      "keyDown", "performSearch", "replaceCookie"}
  BY DEF Opens
<1>2. /\ Opens["setMetrics"] = "metrics"
      /\ Opens["setBackground"] = "background"
      /\ Opens["press"] = "button"
      /\ Opens["keyDown"] = "key"
      /\ Opens["performSearch"] = "search"
      /\ Opens["replaceCookie"] = "cookieGap"
  BY DEF Opens
<1>3. \A c : c \notin DOMAIN Opens => \A t : ~OpensIt(c, t)
  BY DEF OpensIt
<1>. QED BY <1>1, <1>2, <1>3 DEF OpensIt

LEMMA WhatCloses ==
    /\ \A c : c \notin DOMAIN Closes => \A t : ~ClosesIt(c, t)
    /\ DOMAIN Closes = {"clearMetrics", "clearBackground", "release",
                        "keyUp", "discardSearch", "setCookie"}
    /\ \A t : ClosesIt("clearMetrics", t) <=> t = "metrics"
    /\ \A t : ClosesIt("clearBackground", t) <=> t = "background"
    /\ \A t : ClosesIt("release", t) <=> t = "button"
    /\ \A t : ClosesIt("keyUp", t) <=> t = "key"
    /\ \A t : ClosesIt("discardSearch", t) <=> t = "search"
    /\ \A t : ClosesIt("setCookie", t) <=> t = "cookieGap"
<1>1. DOMAIN Closes = {"clearMetrics", "clearBackground", "release",
                       "keyUp", "discardSearch", "setCookie"}
  BY DEF Closes
<1>2. /\ Closes["clearMetrics"] = "metrics"
      /\ Closes["clearBackground"] = "background"
      /\ Closes["release"] = "button"
      /\ Closes["keyUp"] = "key"
      /\ Closes["discardSearch"] = "search"
      /\ Closes["setCookie"] = "cookieGap"
  BY DEF Closes
<1>3. \A c : c \notin DOMAIN Closes => \A t : ~ClosesIt(c, t)
  BY DEF ClosesIt
<1>. QED BY <1>1, <1>2, <1>3 DEF ClosesIt

LEMMA PlainDoesNothing ==
    ASSUME NEW c \in Plain, NEW t
    PROVE  ~OpensIt(c, t) /\ ~ClosesIt(c, t)
<1>1. c \notin DOMAIN Opens /\ c \notin DOMAIN Closes
  BY WhatOpens, WhatCloses DEF Plain
<1>. QED BY <1>1, WhatOpens, WhatCloses

\* An opening command closes nothing, and the other way round.
LEMMA OneOrTheOther ==
    \A t : /\ ~ClosesIt("setMetrics", t) /\ ~ClosesIt("setBackground", t)
          /\ ~ClosesIt("press", t) /\ ~ClosesIt("keyDown", t)
          /\ ~ClosesIt("performSearch", t) /\ ~ClosesIt("replaceCookie", t)
          /\ ~OpensIt("clearMetrics", t) /\ ~OpensIt("clearBackground", t)
          /\ ~OpensIt("release", t) /\ ~OpensIt("keyUp", t)
          /\ ~OpensIt("discardSearch", t) /\ ~OpensIt("setCookie", t)
<1>1. DOMAIN Opens \cap DOMAIN Closes = {}
  BY WhatOpens, WhatCloses
<1>. QED BY <1>1, WhatOpens, WhatCloses

\* The commands beside those that open and close.
LEMMA Harmless ==
    \A t : /\ ~OpensIt("move", t) /\ ~ClosesIt("move", t)
          /\ ~OpensIt("url", t) /\ ~ClosesIt("url", t)
          /\ ~OpensIt("getDocument", t) /\ ~ClosesIt("getDocument", t)
          /\ ~OpensIt("results", t) /\ ~ClosesIt("results", t)
          /\ ~OpensIt("activate", t) /\ ~ClosesIt("activate", t)
          /\ ~OpensIt("layout", t) /\ ~ClosesIt("layout", t)
          /\ ~OpensIt("capture", t) /\ ~ClosesIt("capture", t)
          /\ ~OpensIt("scroll", t) /\ ~ClosesIt("scroll", t)
          /\ ~OpensIt("box", t) /\ ~ClosesIt("box", t)
<1>1. /\ "move" \in Plain /\ "url" \in Plain /\ "getDocument" \in Plain
      /\ "results" \in Plain /\ "activate" \in Plain /\ "layout" \in Plain
      /\ "capture" \in Plain /\ "scroll" \in Plain /\ "box" \in Plain
  BY DEF Plain
<1>. QED BY <1>1, PlainDoesNothing, Zenon

LEMMA AllCommands ==
    /\ DOMAIN Opens = {"setMetrics", "setBackground", "press", "keyDown",
                       "performSearch", "replaceCookie"}
    /\ DOMAIN Closes = {"clearMetrics", "clearBackground", "release", "keyUp",
                        "discardSearch", "setCookie"}
    /\ Plain \subseteq Command
BY DEF Opens, Closes, Command

\* A sequence that closes what it opens stays so among others.
Sound(s) == s \in Seq(Command) /\ Len(s) > 0 /\ WellClosed(s)

LEMMA SoundTogether ==
    ASSUME NEW s, NEW t, Sound(s), Sound(t)
    PROVE  Sound(s \o t)
<1>1. /\ s \in Seq(Command) /\ t \in Seq(Command)
      /\ DOMAIN s = 1 .. Len(s) /\ DOMAIN t = 1 .. Len(t)
      /\ Len(s) \in Nat /\ Len(t) \in Nat /\ Len(s) > 0
  BY DEF Sound
<1>2. /\ s \o t \in Seq(Command) /\ Len(s \o t) = Len(s) + Len(t)
      /\ DOMAIN (s \o t) = 1 .. Len(s) + Len(t)
      /\ \A i \in 1 .. Len(s) : (s \o t)[i] = s[i]
      /\ \A i \in 1 .. Len(t) : (s \o t)[Len(s) + i] = t[i]
  BY <1>1
<1> DEFINE w == s \o t
<1> HIDE DEF w
<1>3. ASSUME NEW i \in DOMAIN w, NEW x \in Things, OpensIt(w[i], x)
      PROVE  \E j \in DOMAIN w : i < j /\ ClosesIt(w[j], x)
  <2>1. CASE i <= Len(s)
    <3>1. i \in DOMAIN s /\ OpensIt(s[i], x)
      BY <2>1, <1>1, <1>2, <1>3 DEF w
    <3>2. PICK j \in DOMAIN s : i < j /\ ClosesIt(s[j], x)
      BY <3>1 DEF Sound, WellClosed
    <3>3. j \in DOMAIN w /\ w[j] = s[j]
      BY <3>2, <1>1, <1>2 DEF w
    <3>. QED BY <3>2, <3>3
  <2>2. CASE i > Len(s)
    <3> DEFINE k == i - Len(s)
    <3>0. i \in 1 .. Len(s) + Len(t)
      BY <1>2, <1>3 DEF w
    <3>1. k \in DOMAIN t /\ i = Len(s) + k /\ k \in Nat
      BY <2>2, <3>0, <1>1
    <3>2. OpensIt(t[k], x)
      BY <3>1, <1>1, <1>2, <1>3 DEF w
    <3> HIDE DEF k
    <3>3. PICK j \in DOMAIN t : k < j /\ ClosesIt(t[j], x)
      BY <3>1, <3>2 DEF Sound, WellClosed
    <3>4. Len(s) + j \in DOMAIN w /\ i < Len(s) + j /\ w[Len(s) + j] = t[j]
      BY <3>1, <3>3, <1>1, <1>2 DEF w
    <3>. QED BY <3>3, <3>4
  <2>. QED BY <2>1, <2>2, <1>1, <1>2 DEF w
<1>. QED BY <1>1, <1>2, <1>3 DEF Sound, WellClosed, w

LEMMA PlainIsSound ==
    ASSUME NEW s \in Seq(Plain), Len(s) > 0
    PROVE  Sound(s)
<1>1. \A i \in DOMAIN s : s[i] \in Plain
  OBVIOUS
<1>2. s \in Seq(Command)
  BY AllCommands
<1>. QED BY <1>1, <1>2, PlainDoesNothing DEF Sound, WellClosed

LEMMA Brackets ==
    /\ Sound(<<"keyDown", "keyUp">>)
    /\ Sound(<<"move", "press", "release">>)
    /\ Sound(<<"url", "replaceCookie", "setCookie">>)
    /\ Sound(<<"getDocument", "performSearch", "results", "discardSearch">>)
    /\ Sound(<<"activate", "layout", "setMetrics", "capture", "clearMetrics">>)
    /\ Sound(<<"activate", "layout", "setMetrics", "setBackground", "capture",
               "clearBackground", "clearMetrics">>)
<1>1. Sound(<<"keyDown", "keyUp">>)
  <2> DEFINE s == <<"keyDown", "keyUp">>
  <2>1. /\ DOMAIN s = 1 .. 2 /\ Len(s) = 2
        /\ s[1] = "keyDown" /\ s[2] = "keyUp"
    OBVIOUS
  <2>2. s \in Seq(Command)
    BY AllCommands DEF Command, Plain
  <2> HIDE DEF s
  <2>3. \A i \in DOMAIN s, t \in Things :
           /\ OpensIt(s[i], t) <=> i = 1 /\ t = "key"
           /\ ClosesIt(s[i], t) <=> i = 2 /\ t = "key"
    <3>1. \A t :
             /\ (OpensIt(s[1], t) <=> t = "key") /\ ~ClosesIt(s[1], t)
             /\ ~OpensIt(s[2], t) /\ (ClosesIt(s[2], t) <=> t = "key")
      BY <2>1, WhatOpens, WhatCloses, OneOrTheOther, Harmless, Zenon
    <3>. QED BY <3>1, <2>1
  <2>4. WellClosed(s)
    BY <2>1, <2>3 DEF WellClosed
  <2>. QED BY <2>1, <2>2, <2>4 DEF Sound, s
<1>2. Sound(<<"move", "press", "release">>)
  <2> DEFINE s == <<"move", "press", "release">>
  <2>1. /\ DOMAIN s = 1 .. 3 /\ Len(s) = 3
        /\ s[1] = "move" /\ s[2] = "press" /\ s[3] = "release"
    OBVIOUS
  <2>2. s \in Seq(Command)
    BY AllCommands DEF Command, Plain
  <2> HIDE DEF s
  <2>3. \A i \in DOMAIN s, t \in Things :
           /\ OpensIt(s[i], t) <=> i = 2 /\ t = "button"
           /\ ClosesIt(s[i], t) <=> i = 3 /\ t = "button"
    <3>1. \A t :
             /\ ~OpensIt(s[1], t) /\ ~ClosesIt(s[1], t)
             /\ (OpensIt(s[2], t) <=> t = "button") /\ ~ClosesIt(s[2], t)
             /\ ~OpensIt(s[3], t) /\ (ClosesIt(s[3], t) <=> t = "button")
      BY <2>1, WhatOpens, WhatCloses, OneOrTheOther, Harmless, Zenon
    <3>. QED BY <3>1, <2>1
  <2>4. WellClosed(s)
    BY <2>1, <2>3 DEF WellClosed
  <2>. QED BY <2>1, <2>2, <2>4 DEF Sound, s
<1>3. Sound(<<"url", "replaceCookie", "setCookie">>)
  <2> DEFINE s == <<"url", "replaceCookie", "setCookie">>
  <2>1. /\ DOMAIN s = 1 .. 3 /\ Len(s) = 3
        /\ s[1] = "url" /\ s[2] = "replaceCookie" /\ s[3] = "setCookie"
    OBVIOUS
  <2>2. s \in Seq(Command)
    BY AllCommands DEF Command, Plain
  <2> HIDE DEF s
  <2>3. \A i \in DOMAIN s, t \in Things :
           /\ OpensIt(s[i], t) <=> i = 2 /\ t = "cookieGap"
           /\ ClosesIt(s[i], t) <=> i = 3 /\ t = "cookieGap"
    <3>1. \A t :
             /\ ~OpensIt(s[1], t) /\ ~ClosesIt(s[1], t)
             /\ (OpensIt(s[2], t) <=> t = "cookieGap") /\ ~ClosesIt(s[2], t)
             /\ ~OpensIt(s[3], t) /\ (ClosesIt(s[3], t) <=> t = "cookieGap")
      BY <2>1, WhatOpens, WhatCloses, OneOrTheOther, Harmless, Zenon
    <3>. QED BY <3>1, <2>1
  <2>4. WellClosed(s)
    BY <2>1, <2>3 DEF WellClosed
  <2>. QED BY <2>1, <2>2, <2>4 DEF Sound, s
<1>4. Sound(<<"getDocument", "performSearch", "results", "discardSearch">>)
  <2> DEFINE s == <<"getDocument", "performSearch", "results",
                   "discardSearch">>
  <2>1. /\ DOMAIN s = 1 .. 4 /\ Len(s) = 4
        /\ s[1] = "getDocument" /\ s[2] = "performSearch" /\ s[3] = "results"
        /\ s[4] = "discardSearch"
    OBVIOUS
  <2>2. s \in Seq(Command)
    BY AllCommands DEF Command, Plain
  <2> HIDE DEF s
  <2>3. \A i \in DOMAIN s, t \in Things :
           /\ OpensIt(s[i], t) <=> i = 2 /\ t = "search"
           /\ ClosesIt(s[i], t) <=> i = 4 /\ t = "search"
    <3>1. \A t :
             /\ ~OpensIt(s[1], t) /\ ~ClosesIt(s[1], t)
             /\ (OpensIt(s[2], t) <=> t = "search") /\ ~ClosesIt(s[2], t)
             /\ ~OpensIt(s[3], t) /\ ~ClosesIt(s[3], t)
             /\ ~OpensIt(s[4], t) /\ (ClosesIt(s[4], t) <=> t = "search")
      BY <2>1, WhatOpens, WhatCloses, OneOrTheOther, Harmless, Zenon
    <3>. QED BY <3>1, <2>1
  <2>4. WellClosed(s)
    BY <2>1, <2>3 DEF WellClosed
  <2>. QED BY <2>1, <2>2, <2>4 DEF Sound, s
<1>5. Sound(<<"activate", "layout", "setMetrics", "capture", "clearMetrics">>)
  <2> DEFINE s == <<"activate", "layout", "setMetrics", "capture",
                   "clearMetrics">>
  <2>1. /\ DOMAIN s = 1 .. 5 /\ Len(s) = 5
        /\ s[1] = "activate" /\ s[2] = "layout" /\ s[3] = "setMetrics"
        /\ s[4] = "capture" /\ s[5] = "clearMetrics"
    OBVIOUS
  <2>2. s \in Seq(Command)
    BY AllCommands DEF Command, Plain
  <2> HIDE DEF s
  <2>3. \A i \in DOMAIN s, t \in Things :
           /\ OpensIt(s[i], t) <=> i = 3 /\ t = "metrics"
           /\ ClosesIt(s[i], t) <=> i = 5 /\ t = "metrics"
    <3>1. \A t :
             /\ ~OpensIt(s[1], t) /\ ~ClosesIt(s[1], t)
             /\ ~OpensIt(s[2], t) /\ ~ClosesIt(s[2], t)
             /\ (OpensIt(s[3], t) <=> t = "metrics") /\ ~ClosesIt(s[3], t)
             /\ ~OpensIt(s[4], t) /\ ~ClosesIt(s[4], t)
             /\ ~OpensIt(s[5], t) /\ (ClosesIt(s[5], t) <=> t = "metrics")
      BY <2>1, WhatOpens, WhatCloses, OneOrTheOther, Harmless, Zenon
    <3>. QED BY <3>1, <2>1
  <2>4. WellClosed(s)
    BY <2>1, <2>3 DEF WellClosed
  <2>. QED BY <2>1, <2>2, <2>4 DEF Sound, s
<1>6. Sound(<<"activate", "layout", "setMetrics", "setBackground", "capture",
              "clearBackground", "clearMetrics">>)
  <2> DEFINE s == <<"activate", "layout", "setMetrics", "setBackground",
                   "capture", "clearBackground", "clearMetrics">>
  <2>1. /\ DOMAIN s = 1 .. 7 /\ Len(s) = 7
        /\ s[1] = "activate" /\ s[2] = "layout" /\ s[3] = "setMetrics"
        /\ s[4] = "setBackground" /\ s[5] = "capture"
        /\ s[6] = "clearBackground" /\ s[7] = "clearMetrics"
    OBVIOUS
  <2>2. s \in Seq(Command)
    BY AllCommands DEF Command, Plain
  <2> HIDE DEF s
  <2>3. \A i \in DOMAIN s, t \in Things :
           /\ OpensIt(s[i], t) <=> \/ i = 3 /\ t = "metrics"
                                   \/ i = 4 /\ t = "background"
           /\ ClosesIt(s[i], t) <=> \/ i = 6 /\ t = "background"
                                    \/ i = 7 /\ t = "metrics"
    <3>1. \A t :
             /\ ~OpensIt(s[1], t) /\ ~ClosesIt(s[1], t)
             /\ ~OpensIt(s[2], t) /\ ~ClosesIt(s[2], t)
             /\ (OpensIt(s[3], t) <=> t = "metrics") /\ ~ClosesIt(s[3], t)
             /\ (OpensIt(s[4], t) <=> t = "background") /\ ~ClosesIt(s[4], t)
             /\ ~OpensIt(s[5], t) /\ ~ClosesIt(s[5], t)
             /\ ~OpensIt(s[6], t) /\ (ClosesIt(s[6], t) <=> t = "background")
             /\ ~OpensIt(s[7], t) /\ (ClosesIt(s[7], t) <=> t = "metrics")
      BY <2>1, WhatOpens, WhatCloses, OneOrTheOther, Harmless, Zenon
    <3>. QED BY <3>1, <2>1
  <2>4. WellClosed(s)
    BY <2>1, <2>3 DEF WellClosed
  <2>. QED BY <2>1, <2>2, <2>4 DEF Sound, s
<1>. QED BY <1>1, <1>2, <1>3, <1>4, <1>5, <1>6

\* The commands of the screenshots, written out.
LEMMA ShotCommands ==
    /\ Screenshot(TRUE, FALSE) = <<"activate", "layout", "setMetrics", "capture",
                                   "clearMetrics">>
    /\ Screenshot(TRUE, TRUE) = <<"activate", "layout", "setMetrics",
                                  "setBackground", "capture", "clearBackground",
                                  "clearMetrics">>
    /\ ElementScreenshot = <<"scroll", "box", "layout", "activate", "capture">>
<1>1. Screenshot(TRUE, FALSE) = <<"activate", "layout", "setMetrics",
                                  "capture", "clearMetrics">>
  <2> DEFINE x == Screenshot(TRUE, FALSE)
  <2>1. /\ Len(x) = 5
        /\ x \in Seq({"activate", "layout", "setMetrics", "capture",
                      "clearMetrics"})
        /\ x[1] = "activate"
        /\ x[2] = "layout"
        /\ x[3] = "setMetrics"
        /\ x[4] = "capture"
        /\ x[5] = "clearMetrics"
    BY DEF Screenshot
  <2> HIDE DEF x
  <2>2. x = <<"activate", "layout", "setMetrics", "capture", "clearMetrics">>
    BY <2>1
  <2>. QED BY <2>2 DEF x
<1>2. Screenshot(TRUE, TRUE) = <<"activate", "layout", "setMetrics",
                                 "setBackground", "capture",
                                 "clearBackground", "clearMetrics">>
  <2> DEFINE x == Screenshot(TRUE, TRUE)
  <2>1. /\ Len(x) = 7
        /\ x \in Seq({"activate", "layout", "setMetrics", "setBackground",
                      "capture", "clearBackground", "clearMetrics"})
        /\ x[1] = "activate"
        /\ x[2] = "layout"
        /\ x[3] = "setMetrics"
        /\ x[4] = "setBackground"
        /\ x[5] = "capture"
        /\ x[6] = "clearBackground"
        /\ x[7] = "clearMetrics"
    BY DEF Screenshot
  <2> HIDE DEF x
  <2>2. x = <<"activate", "layout", "setMetrics", "setBackground", "capture",
              "clearBackground", "clearMetrics">>
    BY <2>1
  <2>. QED BY <2>2 DEF x
<1>3. ElementScreenshot = <<"scroll", "box", "layout", "activate", "capture">>
  <2> DEFINE x == ElementScreenshot
  <2>1. /\ Len(x) = 5
        /\ x \in Seq({"scroll", "box", "layout", "activate", "capture"})
        /\ x[1] = "scroll"
        /\ x[2] = "box"
        /\ x[3] = "layout"
        /\ x[4] = "activate"
        /\ x[5] = "capture"
    BY DEF Screenshot, ElementScreenshot
  <2> HIDE DEF x
  <2>2. x = <<"scroll", "box", "layout", "activate", "capture">>
    BY <2>1
  <2>. QED BY <2>2 DEF x
<1>. QED BY <1>1, <1>2, <1>3

LEMMA PlainSequences ==
    /\ FindElement \in Seq(Plain) /\ Len(FindElement) > 0
    /\ NewElement \in Seq(Plain) /\ Len(NewElement) > 0
    /\ ClickablePoint \in Seq(Plain) /\ Len(ClickablePoint) > 0
    /\ Hover \in Seq(Plain) /\ Len(Hover) > 0
    /\ FindIn \in Seq(Plain) /\ Len(FindIn) > 0
    /\ DeleteCookies \in Seq(Plain) /\ Len(DeleteCookies) > 0
    /\ EvaluateExpression \in Seq(Plain) /\ Len(EvaluateExpression) > 0
    /\ Evaluate \in Seq(Plain) /\ Len(Evaluate) > 0
    /\ ElementProperty \in Seq(Plain) /\ Len(ElementProperty) > 0
    /\ SetContent \in Seq(Plain) /\ Len(SetContent) > 0
    /\ Reload \in Seq(Plain) /\ Len(Reload) > 0
    /\ ExposeFunction \in Seq(Plain) /\ Len(ExposeFunction) > 0
    /\ Stealth \in Seq(Plain) /\ Len(Stealth) > 0
    /\ Emulate \in Seq(Plain) /\ Len(Emulate) > 0
    /\ Query \in Seq(Plain) /\ Len(Query) > 0
    /\ ElementScreenshot \in Seq(Plain) /\ Len(ElementScreenshot) > 0
<1>1. /\ NewElement \in Seq(Plain) /\ Len(NewElement) = 2
      /\ ClickablePoint \in Seq(Plain) /\ Len(ClickablePoint) = 2
      /\ EvaluateExpression \in Seq(Plain) /\ Len(EvaluateExpression) = 2
      /\ DeleteCookies \in Seq(Plain) /\ Len(DeleteCookies) = 2
      /\ ElementProperty \in Seq(Plain) /\ Len(ElementProperty) = 1
      /\ SetContent \in Seq(Plain) /\ Len(SetContent) = 3
      /\ Reload \in Seq(Plain) /\ Len(Reload) = 2
      /\ ExposeFunction \in Seq(Plain) /\ Len(ExposeFunction) = 2
      /\ Emulate \in Seq(Plain) /\ Len(Emulate) = 1
      /\ Query \in Seq(Plain) /\ Len(Query) = 1
  BY DEF Plain, NewElement, ClickablePoint, EvaluateExpression, DeleteCookies,
     ElementProperty, SetContent, Reload, ExposeFunction, Emulate, Query
<1>2. ElementScreenshot \in Seq(Plain) /\ Len(ElementScreenshot) = 5
  BY ShotCommands DEF Plain
<1>3. /\ <<"getDocument", "query">> \in Seq(Plain) /\ <<"query">> \in Seq(Plain)
      /\ <<"move">> \in Seq(Plain) /\ <<"evaluate">> \in Seq(Plain)
      /\ <<"userAgent">> \in Seq(Plain)
      /\ [i \in 1 .. 5 |-> "addScript"] \in Seq(Plain)
  BY DEF Plain
<1>4. \A s, t \in Seq(Plain) : s \o t \in Seq(Plain) /\ Len(s \o t) = Len(s) + Len(t)
  OBVIOUS
<1>5. /\ FindElement \in Seq(Plain) /\ Len(FindElement) > 0
      /\ Hover \in Seq(Plain) /\ Len(Hover) > 0
      /\ FindIn \in Seq(Plain) /\ Len(FindIn) > 0
      /\ Evaluate \in Seq(Plain) /\ Len(Evaluate) > 0
  BY <1>1, <1>3, <1>4 DEF FindElement, Hover, FindIn, Evaluate
<1>6. Stealth \in Seq(Plain) /\ Len(Stealth) > 0
  BY <1>3, <1>4 DEF Stealth
<1>. QED BY <1>1, <1>2, <1>5, <1>6

LEMMA CommandsClose ==
    ASSUME NEW name \in DOMAIN Commands
    PROVE  Sound(Commands[name])
<1>1. /\ Sound(FindElement) /\ Sound(NewElement) /\ Sound(ClickablePoint)
      /\ Sound(Hover) /\ Sound(FindIn) /\ Sound(DeleteCookies)
      /\ Sound(EvaluateExpression) /\ Sound(Evaluate) /\ Sound(ElementProperty)
      /\ Sound(SetContent) /\ Sound(Reload) /\ Sound(ExposeFunction)
      /\ Sound(Stealth) /\ Sound(Emulate) /\ Sound(Query)
      /\ Sound(ElementScreenshot)
  BY PlainSequences, PlainIsSound
<1>2. Sound(TypeStr) /\ Sound(ClickWith) /\ Sound(SetCookies)
  BY Brackets, SoundTogether DEF TypeStr, PressKey, ClickWith, SetCookies
<1>3. Sound(ElementClick)
  BY <1>1, <1>2, SoundTogether DEF ElementClick
<1>4. Sound(FindXpath)
  BY <1>1, Brackets, SoundTogether DEF FindXpath
<1>5. Sound(Screenshot(TRUE, FALSE)) /\ Sound(Screenshot(TRUE, TRUE))
  BY Brackets, ShotCommands
<1>6. DOMAIN Commands =
         {"type", "click", "elementClick", "hover", "full", "both", "elementShot",
          "find", "xpath", "setCookies", "findIn", "deleteCookies", "expression",
          "evaluate", "property", "setContent", "reload", "expose", "stealth",
          "emulate", "query"}
  BY DEF Commands
<1>7. /\ Commands["type"] = TypeStr /\ Commands["click"] = ClickWith
      /\ Commands["elementClick"] = ElementClick /\ Commands["hover"] = Hover
      /\ Commands["full"] = Screenshot(TRUE, FALSE)
      /\ Commands["both"] = Screenshot(TRUE, TRUE)
      /\ Commands["elementShot"] = ElementScreenshot
      /\ Commands["find"] = FindElement /\ Commands["xpath"] = FindXpath
      /\ Commands["setCookies"] = SetCookies /\ Commands["findIn"] = FindIn
      /\ Commands["deleteCookies"] = DeleteCookies
      /\ Commands["expression"] = EvaluateExpression
      /\ Commands["evaluate"] = Evaluate /\ Commands["property"] = ElementProperty
      /\ Commands["setContent"] = SetContent /\ Commands["reload"] = Reload
      /\ Commands["expose"] = ExposeFunction /\ Commands["stealth"] = Stealth
      /\ Commands["emulate"] = Emulate /\ Commands["query"] = Query
  BY DEF Commands
<1>. QED BY <1>1, <1>2, <1>3, <1>4, <1>5, <1>6, <1>7

LEMMA ShotsAsPlanned ==
    ASSUME NEW name \in Shots
    PROVE  /\ ShotPlan(name, Commands[name])
           /\ Between(Commands[name]) = {}
           /\ \E k \in DOMAIN Commands[name] : Commands[name][k] = "capture"
<1>1. CASE name = "full"
  <2>1. Commands[name] = <<"activate", "layout", "setMetrics", "capture",
                         "clearMetrics">>
    BY <1>1, ShotCommands DEF Commands
  <2>2. Asked(name) = {"metrics"}
    BY <1>1 DEF Asked
  <2> DEFINE s == Commands[name]
  <2>3. /\ DOMAIN s = 1 .. 5
        /\ s[1] = "activate" /\ s[2] = "layout" /\ s[3] = "setMetrics"
        /\ s[4] = "capture" /\ s[5] = "clearMetrics"
    BY <2>1
  <2> HIDE DEF s
  <2>4. \A i \in DOMAIN s, t \in Things :
           /\ OpensIt(s[i], t) <=> i = 3 /\ t = "metrics"
           /\ ClosesIt(s[i], t) <=> i = 5 /\ t = "metrics"
    <3>1. \A t :
             /\ ~OpensIt(s[1], t) /\ ~ClosesIt(s[1], t)
             /\ ~OpensIt(s[2], t) /\ ~ClosesIt(s[2], t)
             /\ (OpensIt(s[3], t) <=> t = "metrics") /\ ~ClosesIt(s[3], t)
             /\ ~OpensIt(s[4], t) /\ ~ClosesIt(s[4], t)
             /\ ~OpensIt(s[5], t) /\ (ClosesIt(s[5], t) <=> t = "metrics")
      BY <2>3, WhatOpens, WhatCloses, OneOrTheOther, Harmless, Zenon
    <3>. QED BY <3>1, <2>3
  <2>5. ShotPlan(name, s)
    BY <2>2, <2>3, <2>4 DEF ShotPlan
  <2>6. Between(s) = {}
    BY <2>3, <2>4 DEF Between
  <2>. QED BY <2>3, <2>5, <2>6 DEF s
<1>2. CASE name = "both"
  <2>1. Commands[name] = <<"activate", "layout", "setMetrics", "setBackground",
                         "capture", "clearBackground", "clearMetrics">>
    BY <1>2, ShotCommands DEF Commands
  <2>2. Asked(name) = {"metrics", "background"}
    BY <1>2 DEF Asked
  <2> DEFINE s == Commands[name]
  <2>3. /\ DOMAIN s = 1 .. 7
        /\ s[1] = "activate" /\ s[2] = "layout" /\ s[3] = "setMetrics"
        /\ s[4] = "setBackground" /\ s[5] = "capture"
        /\ s[6] = "clearBackground" /\ s[7] = "clearMetrics"
    BY <2>1
  <2> HIDE DEF s
  <2>4. \A i \in DOMAIN s, t \in Things :
           /\ OpensIt(s[i], t) <=> \/ i = 3 /\ t = "metrics"
                                   \/ i = 4 /\ t = "background"
           /\ ClosesIt(s[i], t) <=> \/ i = 6 /\ t = "background"
                                    \/ i = 7 /\ t = "metrics"
    <3>1. \A t :
             /\ ~OpensIt(s[1], t) /\ ~ClosesIt(s[1], t)
             /\ ~OpensIt(s[2], t) /\ ~ClosesIt(s[2], t)
             /\ (OpensIt(s[3], t) <=> t = "metrics") /\ ~ClosesIt(s[3], t)
             /\ (OpensIt(s[4], t) <=> t = "background") /\ ~ClosesIt(s[4], t)
             /\ ~OpensIt(s[5], t) /\ ~ClosesIt(s[5], t)
             /\ ~OpensIt(s[6], t) /\ (ClosesIt(s[6], t) <=> t = "background")
             /\ ~OpensIt(s[7], t) /\ (ClosesIt(s[7], t) <=> t = "metrics")
      BY <2>3, WhatOpens, WhatCloses, OneOrTheOther, Harmless, Zenon
    <3>. QED BY <3>1, <2>3
  <2>5. ShotPlan(name, s)
    BY <2>2, <2>3, <2>4 DEF ShotPlan
  <2>6. Between(s) = {}
    BY <2>3, <2>4 DEF Between
  <2>. QED BY <2>3, <2>5, <2>6 DEF s
<1>3. CASE name = "elementShot"
  <2>1. Commands[name] = <<"scroll", "box", "layout", "activate", "capture">>
    BY <1>3, ShotCommands DEF Commands
  <2>2. Asked(name) = {}
    BY <1>3 DEF Asked
  <2> DEFINE s == Commands[name]
  <2>3. /\ DOMAIN s = 1 .. 5
        /\ s[1] = "scroll" /\ s[2] = "box" /\ s[3] = "layout"
        /\ s[4] = "activate" /\ s[5] = "capture"
    BY <2>1
  <2> HIDE DEF s
  <2>4. \A i \in DOMAIN s, t \in Things :
           /\ ~OpensIt(s[i], t)
           /\ ~ClosesIt(s[i], t)
    <3>1. \A t :
             /\ ~OpensIt(s[1], t) /\ ~ClosesIt(s[1], t)
             /\ ~OpensIt(s[2], t) /\ ~ClosesIt(s[2], t)
             /\ ~OpensIt(s[3], t) /\ ~ClosesIt(s[3], t)
             /\ ~OpensIt(s[4], t) /\ ~ClosesIt(s[4], t)
             /\ ~OpensIt(s[5], t) /\ ~ClosesIt(s[5], t)
      BY <2>3, WhatOpens, WhatCloses, OneOrTheOther, Harmless, Zenon
    <3>. QED BY <3>1, <2>3
  <2>5. ShotPlan(name, s)
    BY <2>2, <2>3, <2>4 DEF ShotPlan
  <2>6. Between(s) = {}
    BY <2>3, <2>4 DEF Between
  <2>. QED BY <2>3, <2>5, <2>6 DEF s
<1>. QED BY <1>1, <1>2, <1>3 DEF Shots

-----------------------------------------------------------------------------
\* One command further.

LEMMA TailFacts ==
    ASSUME NEW rest \in Seq(Command), Len(rest) > 0
    PROVE  /\ Tail(rest) \in Seq(Command) /\ Head(rest) = rest[1]
           /\ Head(rest) \in Command
           /\ Len(rest) \in Nat /\ Len(rest) > 0
           /\ DOMAIN rest = 1 .. Len(rest)
           /\ DOMAIN Tail(rest) = 1 .. Len(rest) - 1
           /\ \A i \in DOMAIN Tail(rest) : Tail(rest)[i] = rest[i + 1]
           /\ Len(Tail(rest)) = Len(rest) - 1
OBVIOUS

LEMMA TailCloses ==
    ASSUME NEW rest \in Seq(Command), Len(rest) > 0, WellClosed(rest),
           NEW t \in Things
    PROVE  /\ WellClosed(Tail(rest))
           /\ OpensIt(Head(rest), t) =>
                 \E j \in DOMAIN Tail(rest) : ClosesIt(Tail(rest)[j], t)
           /\ (\E j \in DOMAIN rest : ClosesIt(rest[j], t)) =>
                 \/ ClosesIt(Head(rest), t)
                 \/ \E j \in DOMAIN Tail(rest) : ClosesIt(Tail(rest)[j], t)
<1>1. \A j \in DOMAIN rest : j > 1 =>
         j - 1 \in DOMAIN Tail(rest) /\ Tail(rest)[j - 1] = rest[j]
  BY TailFacts
<1>2. WellClosed(Tail(rest))
  <2> SUFFICES ASSUME NEW i \in DOMAIN Tail(rest), NEW s \in Things,
                      OpensIt(Tail(rest)[i], s)
               PROVE  \E j \in DOMAIN Tail(rest) :
                         i < j /\ ClosesIt(Tail(rest)[j], s)
    BY DEF WellClosed
  <2>1. i + 1 \in DOMAIN rest /\ OpensIt(rest[i + 1], s) /\ i \in Nat
    BY TailFacts
  <2>2. PICK j \in DOMAIN rest : i + 1 < j /\ ClosesIt(rest[j], s)
    BY <2>1 DEF WellClosed
  <2>3. j - 1 \in DOMAIN Tail(rest) /\ i < j - 1 /\ Tail(rest)[j - 1] = rest[j]
    BY <2>1, <2>2, <1>1, TailFacts
  <2>. QED BY <2>2, <2>3
<1>3. ASSUME OpensIt(Head(rest), t)
      PROVE  \E j \in DOMAIN Tail(rest) : ClosesIt(Tail(rest)[j], t)
  <2>1. PICK j \in DOMAIN rest : 1 < j /\ ClosesIt(rest[j], t)
    BY <1>3, TailFacts DEF WellClosed
  <2>. QED BY <2>1, <1>1
<1>4. ASSUME NEW j \in DOMAIN rest, ClosesIt(rest[j], t)
      PROVE  \/ ClosesIt(Head(rest), t)
             \/ \E i \in DOMAIN Tail(rest) : ClosesIt(Tail(rest)[i], t)
  <2>1. CASE j = 1
    BY <2>1, <1>4, TailFacts
  <2>2. CASE j > 1
    BY <2>2, <1>4, <1>1
  <2>. QED BY <2>1, <2>2, TailFacts
<1>. QED BY <1>2, <1>3, <1>4

LEMMA TailPlan ==
    ASSUME NEW rest \in Seq(Command), Len(rest) > 0, WellClosed(rest),
           NEW name, ShotPlan(name, rest), Asked(name) \in SUBSET Things
    PROVE  /\ ShotPlan(name, Tail(rest))
           /\ Head(rest) = "capture" => Between(rest) = Asked(name)
           /\ \A t \in Things : t \in Between(Tail(rest)) <=>
                 \/ t \in Between(rest) /\ ~ClosesIt(Head(rest), t)
                 \/ OpensIt(Head(rest), t)
<1> DEFINE next == Tail(rest)
<1>1. /\ DOMAIN rest = 1 .. Len(rest) /\ Len(rest) \in Nat /\ Len(rest) > 0
      /\ DOMAIN next = 1 .. Len(rest) - 1 /\ Head(rest) = rest[1]
      /\ 1 \in DOMAIN rest
      /\ \A i \in DOMAIN next : i + 1 \in DOMAIN rest /\ next[i] = rest[i + 1]
      /\ \A j \in DOMAIN rest : j # 1 => j - 1 \in DOMAIN next /\ rest[j] = next[j - 1]
  BY TailFacts
<1> HIDE DEF next
<1>2. ASSUME Head(rest) = "capture"
      PROVE  /\ Between(rest) = Asked(name)
  <2>1. \A t \in Things :
             /\ \A i \in DOMAIN rest : OpensIt(rest[i], t) => i < 1
             /\ t \in Asked(name) <=> \E i \in DOMAIN rest : ClosesIt(rest[i], t)
    BY <1>1, <1>2 DEF ShotPlan
  <2>2. \A t \in Things : \A i \in DOMAIN rest : ~OpensIt(rest[i], t)
    BY <2>1, <1>1
  <2>. QED BY <2>1, <2>2 DEF Between
<1>3. ShotPlan(name, next)
  <2>1. ASSUME NEW i \in DOMAIN next, NEW j \in DOMAIN next, NEW t \in Things,
               i < j
        PROVE  /\ ~(OpensIt(next[i], t) /\ OpensIt(next[j], t))
               /\ ~(ClosesIt(next[i], t) /\ ClosesIt(next[j], t))
               /\ ~(ClosesIt(next[i], t) /\ OpensIt(next[j], t))
    <3>1. i + 1 < j + 1 /\ i + 1 \in DOMAIN rest /\ j + 1 \in DOMAIN rest
      BY <2>1, <1>1
    <3>. QED BY <3>1, <1>1 DEF ShotPlan
  <2>2. ASSUME NEW k \in DOMAIN next, next[k] = "capture", NEW t \in Things
        PROVE  /\ \A i \in DOMAIN next : OpensIt(next[i], t) => i < k
               /\ \A i \in DOMAIN next : ClosesIt(next[i], t) => k < i
               /\ t \in Asked(name) <=> \E i \in DOMAIN next : ClosesIt(next[i], t)
    <3>1. /\ \A i \in DOMAIN rest : OpensIt(rest[i], t) => i < k + 1
          /\ \A i \in DOMAIN rest : ClosesIt(rest[i], t) => k + 1 < i
          /\ t \in Asked(name) <=> \E i \in DOMAIN rest : ClosesIt(rest[i], t)
      BY <2>2, <1>1 DEF ShotPlan
    <3>2. /\ \A i \in DOMAIN next : OpensIt(next[i], t) => i < k
          /\ \A i \in DOMAIN next : ClosesIt(next[i], t) => k < i
      BY <3>1, <1>1
    <3>3. ASSUME NEW i \in DOMAIN rest, ClosesIt(rest[i], t)
          PROVE  \E j \in DOMAIN next : ClosesIt(next[j], t)
      <4>1. i # 1
        BY <3>1, <3>3, <1>1
      <4>. QED BY <4>1, <3>3, <1>1
    <3>4. ASSUME NEW j \in DOMAIN next, ClosesIt(next[j], t)
          PROVE  \E i \in DOMAIN rest : ClosesIt(rest[i], t)
      BY <3>4, <1>1
    <3>. QED BY <3>1, <3>2, <3>3, <3>4
  <2>. QED BY <2>1, <2>2 DEF ShotPlan
<1>4. ASSUME NEW t \in Things
      PROVE  t \in Between(next) <=>
                 \/ t \in Between(rest) /\ ~ClosesIt(Head(rest), t)
                 \/ OpensIt(Head(rest), t)
  <2>1. ASSUME t \in Between(rest), ~ClosesIt(Head(rest), t)
        PROVE  t \in Between(next)
    <3>1. PICK j \in DOMAIN rest : ClosesIt(rest[j], t)
      BY <2>1 DEF Between
    <3>2. j # 1
      BY <3>1, <2>1, <1>1
    <3>3. \A i \in DOMAIN next : ~OpensIt(next[i], t)
      BY <2>1, <1>1 DEF Between
    <3>. QED BY <3>1, <3>2, <3>3, <1>1 DEF Between
  <2>2. ASSUME OpensIt(Head(rest), t)
        PROVE  t \in Between(next)
    <3>1. \E j \in DOMAIN next : ClosesIt(next[j], t)
      BY <2>2, TailCloses DEF next
    <3>2. ASSUME NEW i \in DOMAIN next  PROVE ~OpensIt(next[i], t)
      <4>1. i + 1 \in DOMAIN rest /\ 1 < i + 1 /\ next[i] = rest[i + 1]
        BY <1>1
      <4>2. ~(OpensIt(rest[1], t) /\ OpensIt(rest[i + 1], t))
        BY <4>1, <1>1 DEF ShotPlan
      <4>. QED BY <4>1, <4>2, <2>2, <1>1
    <3>. QED BY <3>1, <3>2 DEF Between
  <2>3. ASSUME t \in Between(next), ~OpensIt(Head(rest), t)
        PROVE  t \in Between(rest) /\ ~ClosesIt(Head(rest), t)
    <3>1. PICK j \in DOMAIN next : ClosesIt(next[j], t)
      BY <2>3 DEF Between
    <3>2. j + 1 \in DOMAIN rest /\ ClosesIt(rest[j + 1], t) /\ 1 < j + 1
      BY <3>1, <1>1
    <3>3. ~ClosesIt(rest[1], t)
      BY <3>2, <1>1 DEF ShotPlan
    <3>4. \A i \in DOMAIN rest : ~OpensIt(rest[i], t)
      BY <2>3, <1>1 DEF Between
    <3>. QED BY <3>2, <3>3, <3>4, <1>1 DEF Between
  <2>. QED BY <2>1, <2>2, <2>3
<1>. QED BY <1>2, <1>3, <1>4 DEF next

-----------------------------------------------------------------------------
\* What a command opens and what it closes, as Perform has it.
LEMMA OpensAndCloses ==
    ASSUME NEW c
    PROVE  /\ (IF c \in DOMAIN Opens THEN {Opens[c]} ELSE {})
                 = {t \in Things : OpensIt(c, t)}
           /\ (IF c \in DOMAIN Closes THEN {Closes[c]} ELSE {})
                 = {t \in Things : ClosesIt(c, t)}
           /\ \A t : ~(OpensIt(c, t) /\ ClosesIt(c, t))
<1>1. \A d \in DOMAIN Opens : Opens[d] \in Things
  BY DEF Opens, Things
<1>2. \A d \in DOMAIN Closes : Closes[d] \in Things
  BY DEF Closes, Things
<1>3. DOMAIN Opens \cap DOMAIN Closes = {}
  BY WhatOpens, WhatCloses
<1>. QED BY <1>1, <1>2, <1>3 DEF OpensIt, ClosesIt

LEMMA AskedIsThings ==
    ASSUME NEW name  PROVE Asked(name) \in SUBSET Things
BY DEF Asked, Things

LEMMA NoOpIsOne ==
    /\ NoOp \in Operation /\ NoOp.state = "idle" /\ NoOp.opened = {}
    /\ [NoOp EXCEPT !.state = "failed"] \in Operation
    /\ [NoOp EXCEPT !.state = "failed"].state = "failed"
<1>1. << >> \in Seq(Command)
  OBVIOUS
<1>. QED BY <1>1 DEF NoOp, Operation

THEOREM PageInvInit == PageCallsInit => PageInv
<1> SUFFICES ASSUME PageCallsInit  PROVE PageInv
  OBVIOUS
<1>1. PageTypes
  BY NoOpIsOne DEF PageCallsInit, PageTypes
<1>2. \A u \in Users : op[u].state = "idle"
  BY NoOpIsOne DEF PageCallsInit
<1>3. held = {}
  BY DEF PageCallsInit
<1>. QED BY <1>1, <1>2, <1>3 DEF PageInv, Running

LEMMA BeginStep ==
    ASSUME PageInv, NEW u \in Users, NEW name \in DOMAIN Commands, Begin(u, name)
    PROVE  PageInv'
<1>1. PICK doc \in 1 .. document, table \in 0 .. nodes :
          op' = [v \in Users |->
                    IF v = u
                    THEN [NoOp EXCEPT !.name = name, !.rest = Commands[name],
                             !.state = "running", !.doc = doc,
                             !.table = table,
                             !.alone = Running = {} /\ held = {}]
                    ELSE IF v \in Running THEN [op[v] EXCEPT !.alone = FALSE]
                    ELSE op[v]]
  BY DEF Begin
<1>2. /\ held' = held /\ left' = left /\ document' = document /\ nodes' = nodes
      /\ op[u].state # "running"
  BY DEF Begin
<1>3. /\ Sound(Commands[name]) /\ doc \in Nat /\ table \in Nat
      /\ PageTypes
  BY CommandsClose DEF PageInv, PageTypes
<1>4. /\ op'[u].name = name /\ op'[u].rest = Commands[name]
      /\ op'[u].state = "running" /\ op'[u].opened = {}
      /\ op'[u].alone <=> Running = {} /\ held = {}
      /\ op'[u] \in Operation
  BY <1>1, <1>3, NoOpIsOne DEF NoOp, Operation, Sound
<1>5. ASSUME NEW v \in Users, v # u
      PROVE  /\ op'[v] \in Operation
             /\ op'[v].name = op[v].name /\ op'[v].rest = op[v].rest
             /\ op'[v].state = op[v].state /\ op'[v].opened = op[v].opened
             /\ op'[v].shot = op[v].shot
             /\ op'[v].alone => op[v].alone /\ v \notin Running
  <2>1. op[v] \in Operation
    BY <1>3 DEF PageTypes
  <2>2. CASE v \in Running
    <3>1. op'[v] = [op[v] EXCEPT !.alone = FALSE]
      BY <1>1, <1>5, <2>2
    <3>. QED BY <3>1, <2>1 DEF Operation
  <2>3. CASE v \notin Running
    BY <1>1, <1>5, <2>1, <2>3
  <2>. QED BY <2>2, <2>3
<1>6. PageTypes'
  <2>1. op' \in [Users -> Operation]
    <3>1. \A v \in Users : op'[v] \in Operation
      BY <1>4, <1>5
    <3>2. op' = [v \in Users |-> op'[v]]
      BY <1>1
    <3>. QED BY <3>1, <3>2
  <2>. QED BY <1>2, <1>3, <2>1 DEF PageTypes
<1>7. Running' = Running \cup {u} /\ u \notin Running
  BY <1>2, <1>4, <1>5 DEF Running
<1>8. ASSUME NEW v \in Running'  PROVE WillClose(op[v])'
  <2>1. CASE v = u
    BY <1>3, <1>4, <2>1 DEF WillClose, Sound
  <2>2. CASE v # u
    BY <1>5, <1>7, <2>2 DEF PageInv, WillClose, Running
  <2>. QED BY <2>1, <2>2
<1>9. \A t \in held' \ left' : \E v \in Running' : t \in op'[v].opened
  BY <1>2, <1>5, <1>7 DEF PageInv, Running
<1>10. ASSUME NEW v \in Running', op'[v].alone  PROVE Undisturbed(v, op[v])'
  <2>1. v = u
    BY <1>5, <1>7, <1>10 DEF Running
  <2>2. Running = {} /\ held = {}
    BY <2>1, <1>4, <1>10
  <2>3. Running' = {u} /\ held' = op'[u].opened
    BY <2>2, <1>2, <1>4, <1>7
  <2>4. name \in Shots => /\ ShotPlan(name, Commands[name])
                          /\ Between(Commands[name]) = {}
                          /\ \E k \in DOMAIN Commands[name] :
                                Commands[name][k] = "capture"
    BY ShotsAsPlanned
  <2>. QED BY <2>1, <2>3, <2>4, <1>4 DEF Undisturbed
<1>11. ASSUME NEW v \in Users, op'[v].state = "ok", op'[v].alone,
              op'[v].name \in Shots
       PROVE  op'[v].shot = Asked(op'[v].name)
  <2>1. v # u
    BY <1>4, <1>11
  <2>. QED BY <2>1, <1>5, <1>11 DEF PageInv
<1>. QED BY <1>6, <1>8, <1>9, <1>10, <1>11 DEF PageInv

LEMMA PerformStep ==
    ASSUME PageInv, NEW u \in Users, Perform(u)
    PROVE  PageInv'
<1> DEFINE o == op[u]
           command == Head(o.rest)
           O == {t \in Things : OpensIt(command, t)}
           C == {t \in Things : ClosesIt(command, t)}
<1>1. /\ o \in Operation /\ o.state = "running" /\ u \in Running
      /\ Len(o.rest) > 0 /\ WellClosed(o.rest) /\ o.rest \in Seq(Command)
      /\ \A t \in o.opened : \E j \in DOMAIN o.rest : ClosesIt(o.rest[j], t)
      /\ o.opened \in SUBSET Things
  <2>1. o \in Operation /\ o.state = "running" /\ u \in Running
    BY DEF PageInv, PageTypes, Perform, Running
  <2>. QED BY <2>1 DEF PageInv, WillClose, Operation
<1>2. /\ (IF command \in DOMAIN Opens THEN {Opens[command]} ELSE {}) = O
      /\ (IF command \in DOMAIN Closes THEN {Closes[command]} ELSE {}) = C
      /\ O \cap C = {} /\ O \in SUBSET Things /\ C \in SUBSET Things
  BY OpensAndCloses
<1>3. PICK table : /\ table = IF command = "getDocument" THEN nodes + 1 ELSE nodes
                   /\ nodes' = table
                   /\ op' = [op EXCEPT ![u] =
                        [o EXCEPT !.rest = Tail(@),
                            !.state = IF Len(o.rest) = 1 THEN "ok" ELSE @,
                            !.opened = (@ \cup O) \ C,
                            !.table = IF command = "getDocument" THEN table ELSE @,
                            !.doc = IF command \in {"getDocument", "context"}
                                    THEN document ELSE @,
                            !.shot = IF command = "capture" THEN held ELSE @]]
                   /\ held' = (held \cup O) \ C
                   /\ left' = left \ (O \cup C)
                   /\ document' = document
  BY <1>2, Zenon DEF Perform
<1>4. /\ Tail(o.rest) \in Seq(Command)
      /\ DOMAIN Tail(o.rest) = 1 .. Len(o.rest) - 1
      /\ Len(Tail(o.rest)) = Len(o.rest) - 1 /\ Len(o.rest) \in Nat
  BY <1>1, TailFacts
<1>5. /\ PageTypes /\ table \in Nat
  BY <1>3 DEF PageInv, PageTypes
<1> HIDE DEF O, C
<1>6. /\ op'[u].rest = Tail(o.rest) /\ op'[u].name = o.name
      /\ op'[u].state = IF Len(o.rest) = 1 THEN "ok" ELSE "running"
      /\ op'[u].opened = (o.opened \cup O) \ C
      /\ op'[u].alone = o.alone
      /\ op'[u].shot = IF command = "capture" THEN held ELSE o.shot
      /\ op'[u] \in Operation
  <2> DEFINE s == IF Len(o.rest) = 1 THEN "ok" ELSE o.state
             b == IF command = "getDocument" THEN table ELSE o.table
             d == IF command \in {"getDocument", "context"} THEN document ELSE o.doc
             h == IF command = "capture" THEN held ELSE o.shot
             w == (o.opened \cup O) \ C
  <2>1. op'[u] = [o EXCEPT !.rest = Tail(o.rest), !.state = s, !.opened = w,
                           !.table = b, !.doc = d, !.shot = h]
    BY <1>3, <1>5 DEF PageTypes
  <2>2. /\ s \in {"idle", "running", "ok", "failed"} /\ b \in Nat /\ d \in Nat
        /\ h \in SUBSET Things /\ w \in SUBSET Things
    BY <1>1, <1>2, <1>5 DEF PageTypes, Operation
  <2>3. s = IF Len(o.rest) = 1 THEN "ok" ELSE "running"
    BY <1>1
  <2> HIDE DEF s, b, d, h, w
  <2>4. /\ op'[u].rest = Tail(o.rest) /\ op'[u].name = o.name
        /\ op'[u].state = s /\ op'[u].opened = w /\ op'[u].alone = o.alone
        /\ op'[u].shot = h /\ op'[u] \in Operation
    BY <2>1, <2>2, <1>1, <1>4 DEF Operation
  <2>. QED BY <2>3, <2>4 DEF h, w
<1>7. \A v \in Users : v # u => op'[v] = op[v]
  BY <1>3, <1>5 DEF PageTypes
<1>8. PageTypes'
  <2>1. op' \in [Users -> Operation]
    <3>1. \A v \in Users : op'[v] \in Operation
      BY <1>5, <1>6, <1>7 DEF PageTypes
    <3>2. op' = [v \in Users |-> op'[v]]
      BY <1>3, <1>5 DEF PageTypes
    <3>. QED BY <3>1, <3>2
  <2>. QED BY <1>2, <1>3, <1>5, <2>1 DEF PageTypes
<1>9. /\ \A v \in Users : v # u => (v \in Running' <=> v \in Running)
      /\ u \in Running' <=> Len(o.rest) # 1
      /\ Running' \subseteq Users
  BY <1>6, <1>7 DEF Running
<1>10. \A t \in Things :
          /\ OpensIt(command, t) =>
                \E j \in DOMAIN Tail(o.rest) : ClosesIt(Tail(o.rest)[j], t)
          /\ t \in o.opened => \/ t \in C
                               \/ \E j \in DOMAIN Tail(o.rest) :
                                     ClosesIt(Tail(o.rest)[j], t)
  BY <1>1, TailCloses DEF C
<1>11. \A t \in op'[u].opened :
          \E j \in DOMAIN Tail(o.rest) : ClosesIt(Tail(o.rest)[j], t)
  BY <1>1, <1>2, <1>6, <1>10 DEF O
<1>12. ASSUME NEW v \in Running'  PROVE WillClose(op[v])'
  <2>1. CASE v = u
    <3>1. Len(Tail(o.rest)) > 0
      <4>1. Len(o.rest) # 1
        BY <2>1, <1>9, <1>12
      <4>2. \A n \in Nat : n > 0 /\ n # 1 => n - 1 > 0
        OBVIOUS
      <4>3. Len(o.rest) - 1 > 0
        BY <4>1, <4>2, <1>1, <1>4, Zenon
      <4>. QED BY <4>3, <1>4, Zenon
    <3>2. WellClosed(Tail(o.rest))
      BY <1>1, TailCloses DEF Things
    <3>. QED BY <2>1, <3>1, <3>2, <1>6, <1>11 DEF WillClose
  <2>2. CASE v # u
    BY <1>7, <1>9, <1>12, <2>2 DEF PageInv, WillClose
  <2>. QED BY <2>1, <2>2
<1>13. ASSUME NEW t \in held' \ left'
       PROVE  \E v \in Running' : t \in op'[v].opened
  <2>1. CASE t \in op'[u].opened
    <3>1. Len(o.rest) # 1
      BY <2>1, <1>4, <1>11
    <3>. QED BY <2>1, <3>1, <1>9
  <2>2. CASE t \notin op'[u].opened
    <3>1. t \in held \ left /\ t \notin C
      BY <1>3, <1>6, <1>13, <2>2
    <3>2. PICK v \in Running : t \in op[v].opened
      BY <3>1 DEF PageInv
    <3>3. v # u
      BY <2>2, <3>1, <3>2, <1>6
    <3>. QED BY <3>2, <3>3, <1>7, <1>9 DEF Running
  <2>. QED BY <2>1, <2>2
<1>14. ASSUME o.alone, o.name \in Shots
       PROVE  /\ ShotPlan(o.name, Tail(o.rest))
              /\ op'[u].opened = Between(Tail(o.rest))
              /\ (\A k \in DOMAIN Tail(o.rest) : Tail(o.rest)[k] # "capture")
                    => op'[u].shot = Asked(o.name)
  <2>1. /\ ShotPlan(o.name, o.rest) /\ o.opened = Between(o.rest)
        /\ held = o.opened
        /\ (\A k \in DOMAIN o.rest : o.rest[k] # "capture")
                => o.shot = Asked(o.name)
    BY <1>1, <1>14 DEF PageInv, Undisturbed
  <2>2. /\ ShotPlan(o.name, Tail(o.rest))
        /\ command = "capture" => Between(o.rest) = Asked(o.name)
        /\ \A t \in Things : t \in Between(Tail(o.rest)) <=>
                 \/ t \in Between(o.rest) /\ ~ClosesIt(command, t)
                 \/ OpensIt(command, t)
    BY <2>1, <1>1, TailPlan, AskedIsThings
  <2>3. op'[u].opened = Between(Tail(o.rest))
    <3>1. Between(Tail(o.rest)) \subseteq Things
      BY DEF Between
    <3>2. \A t \in Things : t \in op'[u].opened <=> t \in Between(Tail(o.rest))
      BY <2>1, <2>2, <1>2, <1>6 DEF O, C
    <3>3. op'[u].opened \subseteq Things
      BY <1>1, <1>2, <1>6
    <3>. QED BY <3>1, <3>2, <3>3
  <2>4. ASSUME \A k \in DOMAIN Tail(o.rest) : Tail(o.rest)[k] # "capture"
        PROVE  op'[u].shot = Asked(o.name)
    <3>1. CASE command = "capture"
      BY <3>1, <2>1, <2>2, <1>6
    <3>2. CASE command # "capture"
      <4>1. ASSUME NEW k \in DOMAIN o.rest  PROVE o.rest[k] # "capture"
        <5>1. CASE k = 1
          BY <5>1, <3>2, <1>1, TailFacts
        <5>2. CASE k # 1
          <6>1. /\ k - 1 \in DOMAIN Tail(o.rest)
                /\ Tail(o.rest)[k - 1] = o.rest[(k - 1) + 1] /\ (k - 1) + 1 = k
            BY <5>2, <1>1, TailFacts
          <6>. QED BY <6>1, <2>4
        <5>. QED BY <5>1, <5>2
      <4>. QED BY <4>1, <3>2, <2>1, <1>6
    <3>. QED BY <3>1, <3>2
  <2>. QED BY <2>2, <2>3, <2>4
<1>15. ASSUME NEW v \in Running, op[v].alone
       PROVE  v = u /\ Running = {u} /\ held = o.opened
  BY <1>1, <1>15 DEF PageInv, Undisturbed
<1>16. ASSUME NEW v \in Running', op'[v].alone  PROVE Undisturbed(v, op[v])'
  <2>1. v = u
    BY <1>7, <1>9, <1>15, <1>16
  <2>2. o.alone /\ Running = {u} /\ held = o.opened
    BY <2>1, <1>1, <1>6, <1>15, <1>16
  <2>3. Running' = {u} /\ held' = op'[u].opened
    BY <2>1, <2>2, <1>3, <1>6, <1>9, <1>16
  <2>. QED BY <2>1, <2>2, <2>3, <1>6, <1>14 DEF Undisturbed
<1>17. ASSUME NEW v \in Users, op'[v].state = "ok", op'[v].alone,
              op'[v].name \in Shots
       PROVE  op'[v].shot = Asked(op'[v].name)
  <2>1. CASE v = u
    <3>1. Len(o.rest) = 1 /\ o.alone /\ o.name \in Shots
      BY <2>1, <1>6, <1>17
    <3>2. DOMAIN Tail(o.rest) = {}
      BY <3>1, <1>4
    <3>. QED BY <2>1, <3>1, <3>2, <1>6, <1>14
  <2>2. CASE v # u
    BY <2>2, <1>7, <1>17 DEF PageInv
  <2>. QED BY <2>1, <2>2
<1>. QED BY <1>8, <1>12, <1>13, <1>16, <1>17 DEF PageInv

LEMMA EndEarlyStep ==
    ASSUME PageInv, NEW u \in Users, EndEarly(u)
    PROVE  PageInv'
<1>1. /\ u \in Running /\ PageTypes
      /\ op' = [op EXCEPT ![u] = [NoOp EXCEPT !.state = "failed"]]
      /\ left' = left \cup (op[u].opened \cap held)
      /\ held' = held /\ document' = document /\ nodes' = nodes
  BY DEF EndEarly, Running, PageInv
<1>2. /\ \A v \in Users : v # u => op'[v] = op[v]
      /\ op'[u].state = "failed" /\ op' \in [Users -> Operation]
  BY <1>1, NoOpIsOne DEF PageTypes
<1>3. PageTypes'
  BY <1>1, <1>2 DEF PageTypes
<1>4. Running' = Running \ {u} /\ Running \subseteq Users
  BY <1>2 DEF Running
<1>5. \A v \in Running' : op'[v] = op[v] /\ v \in Running
  BY <1>2, <1>4
<1>6. \A v \in Running' : WillClose(op[v])'
  BY <1>5 DEF PageInv, WillClose
<1>7. \A t \in held' \ left' : \E v \in Running' : t \in op'[v].opened
  <2> SUFFICES ASSUME NEW t \in held' \ left'
               PROVE  \E v \in Running' : t \in op'[v].opened
    OBVIOUS
  <2>1. t \in held \ left /\ t \notin op[u].opened
    BY <1>1
  <2>2. PICK v \in Running : t \in op[v].opened
    BY <2>1 DEF PageInv
  <2>3. v # u
    BY <2>1, <2>2
  <2>. QED BY <2>2, <2>3, <1>4, <1>5
<1>8. \A v \in Running' : ~op'[v].alone
  BY <1>1, <1>4, <1>5 DEF PageInv, Undisturbed
<1>9. ASSUME NEW v \in Users, op'[v].state = "ok", op'[v].alone,
             op'[v].name \in Shots
      PROVE  op'[v].shot = Asked(op'[v].name)
  BY <1>2, <1>9 DEF PageInv
<1>. QED BY <1>3, <1>6, <1>7, <1>8, <1>9 DEF PageInv

LEMMA PageElsewhere ==
    ASSUME PageInv, UNCHANGED <<held, left, op>>, document' \in Nat, nodes' \in Nat
    PROVE  PageInv'
<1>1. Running' = Running
  BY DEF Running
<1>2. PageTypes'
  BY DEF PageInv, PageTypes
<1>. QED BY <1>1, <1>2 DEF PageInv, WillClose, Undisturbed

THEOREM PageInvStep == PageInv /\ [PageCallsNext]_pageCallVars => PageInv'
<1> SUFFICES ASSUME PageInv, [PageCallsNext]_pageCallVars  PROVE PageInv'
  OBVIOUS
<1>1. CASE NewDocument
  BY <1>1, PageElsewhere DEF NewDocument, PageInv, PageTypes
<1>2. CASE UNCHANGED pageCallVars
  BY <1>2, PageElsewhere DEF pageCallVars, PageInv, PageTypes
<1>. QED BY <1>1, <1>2, BeginStep, PerformStep, EndEarlyStep DEF PageCallsNext

\* Whatever the callers do and wherever their operations fail, what is in
\* force in the page is of an operation under way or of one that failed, and
\* a screenshot that was alone was taken under what it asked for.
THEOREM PagesAreCleanedUp == PageCallsSpec => []OperationsCleanUp
<1>1. PageInv => OperationsCleanUp
  BY DEF PageInv, OperationsCleanUp, Shots
<1>. QED BY <1>1, PageInvInit, PageInvStep, PTL DEF PageCallsSpec

=============================================================================
