--------------------------- MODULE NetworkManager ---------------------------
(***************************************************************************)
(* The driver's view of a page's network traffic (handler/network.rs).     *)
(* With interception on, Chrome tells of one request twice, in either      *)
(* order: Network.requestWillBeSent and Fetch.requestPaused; the manager   *)
(* announces it when it has both.  A redirect reuses the request id.  A    *)
(* request for a data: URL is not paused, and nothing redirects to one.    *)
(*                                                                         *)
(* Commands and announcements leave through queued_events, which the       *)
(* target drains.                                                          *)
(***************************************************************************)
EXTENDS Naturals, Sequences, FiniteSets

CONSTANTS Requests,
          MaxHops,  \* bound on the redirects of a request
          MaxQueue  \* bound on queued_events

VARIABLES requests,      \* announced requests: hop and its interception id
          willBeSent,    \* requests waiting for their pause: the hop
          interceptions, \* pauses waiting for their request: the hop
          attempted,     \* interception ids that got the credentials
          userIntercepts, hasCredentials, protocolIntercepts,
          cacheDisabled, offline,
          queuedEvents,
          hop,           \* Chrome: the hop each request is at
          told,          \* Chrome: what it has told of that hop
          data,          \* Chrome: the requests for data: URLs
          steady,        \* no interception was switched during its hops
          announced      \* how often it was announced, as long as it is steady

settings == <<userIntercepts, hasCredentials, protocolIntercepts,
              cacheDisabled, offline>>
tracking == <<requests, willBeSent, interceptions, attempted>>
chrome == <<hop, told, data, steady>>
netVars == <<settings, tracking, queuedEvents, chrome, announced>>

NetInit ==
    /\ requests = << >> /\ willBeSent = << >> /\ interceptions = << >>
    /\ attempted = {}
    /\ userIntercepts = FALSE /\ hasCredentials = FALSE
    /\ protocolIntercepts = FALSE /\ cacheDisabled = FALSE /\ offline = FALSE
    /\ queuedEvents = << >>
    /\ hop = [r \in Requests |-> 0]
    /\ told = [r \in Requests |-> {}]
    /\ data \in SUBSET Requests
    /\ steady = [r \in Requests |-> TRUE]
    /\ announced = [r \in Requests |-> 0]

Put(f, r, x) == [s \in DOMAIN f \cup {r} |-> IF s = r THEN x ELSE f[s]]
Drop(f, r) == [s \in DOMAIN f \ {r} |-> f[s]]

Queue(events) ==
    /\ Len(queuedEvents) + Len(events) <= MaxQueue
    /\ queuedEvents' = queuedEvents \o events

-----------------------------------------------------------------------------
(* Settings.                                                               *)

\* update_protocol_request_interception, with the cache command it queues
\* before the flag has its new value.
UpdateInterception(user, credentials) ==
    LET enabled == user \/ credentials IN
    IF enabled = protocolIntercepts
    THEN UNCHANGED <<protocolIntercepts, queuedEvents, steady>>
    ELSE /\ steady' = [r \in Requests |-> steady[r] /\ hop[r] = 0]
         /\ protocolIntercepts' = enabled
         /\ Queue(<<<<"cache", cacheDisabled \/ protocolIntercepts>>,
                    <<"fetch", enabled>>>>)

SetRequestInterception(enabled) ==
    /\ userIntercepts' = enabled
    /\ UpdateInterception(enabled, hasCredentials)
    /\ UNCHANGED <<hasCredentials, cacheDisabled, offline, tracking, hop, told,
                   data, announced>>

Authenticate ==
    /\ hasCredentials' = TRUE
    /\ UpdateInterception(userIntercepts, TRUE)
    /\ UNCHANGED <<userIntercepts, cacheDisabled, offline, tracking, hop, told,
                   data, announced>>

SetCacheEnabled(enabled) ==
    /\ cacheDisabled' = ~enabled
    /\ Queue(<<<<"cache", ~enabled \/ protocolIntercepts>>>>)
    /\ UNCHANGED <<userIntercepts, hasCredentials, protocolIntercepts,
                   offline, tracking, chrome, announced>>

SetOfflineMode(value) ==
    /\ value # offline
    /\ offline' = value
    /\ Queue(<<<<"offline", value>>>>)
    /\ UNCHANGED <<userIntercepts, hasCredentials, protocolIntercepts,
                   cacheDisabled, tracking, chrome, announced>>

-----------------------------------------------------------------------------
(* Requests.                                                               *)

\* The requests interception applies to, and those Chrome has told all of.
Intercepts(r) == protocolIntercepts /\ r \notin data
ToldAll(r) == "sent" \in told[r] /\ (Intercepts(r) => "paused" \in told[r])

\* on_request, of hop h and with interception id (0: none), after what is
\* queued before: a redirect replaces the request it continues, whose
\* credentials may be asked for again.
OnRequest(r, h, id, before) ==
    /\ requests' = Put(requests, r, [hop |-> h, id |-> id])
    /\ attempted' = IF h > 1 /\ r \in DOMAIN requests
                    THEN attempted \ {<<r, requests[r].id>>} ELSE attempted
    /\ Queue(before \o <<<<"request", r>>>>)
    /\ announced' = IF steady[r] THEN [announced EXCEPT ![r] = @ + 1]
                    ELSE announced

\* Chrome starts a request, or redirects it: after the pause, if it pauses.
NextHop(r) ==
    /\ hop[r] < MaxHops
    /\ hop[r] = 0 \/ (r \notin data /\ ToldAll(r))
    /\ hop' = [hop EXCEPT ![r] = @ + 1]
    /\ told' = [told EXCEPT ![r] = {}]
    /\ UNCHANGED <<settings, tracking, queuedEvents, data, steady, announced>>

Tell(r, what) ==
    /\ hop[r] > 0 /\ what \notin told[r]
    /\ told' = [told EXCEPT ![r] = @ \cup {what}]
    /\ UNCHANGED <<settings, hop, data, steady>>

\* A request that is intercepted and has no pause yet is filed.
RequestWillBeSent(r) ==
    /\ Tell(r, "sent")
    /\ IF Intercepts(r) /\ r \notin DOMAIN interceptions
       THEN /\ willBeSent' = Put(willBeSent, r, hop[r])
            /\ UNCHANGED <<requests, attempted, interceptions, queuedEvents,
                           announced>>
       ELSE /\ OnRequest(r, hop[r], IF Intercepts(r) THEN interceptions[r]
                                    ELSE 0, << >>)
            /\ interceptions' = IF Intercepts(r) THEN Drop(interceptions, r)
                                ELSE interceptions
            /\ UNCHANGED willBeSent

\* The manager lets the request go on unless the user asked for interception.
GoOn(r) == IF ~userIntercepts /\ protocolIntercepts
           THEN <<<<"continue", r>>>> ELSE << >>

\* Fault: the request that was filed is not announced.
Fault_PauseDropsRequest(r) ==
    /\ protocolIntercepts \/ ~steady[r]
    /\ r \notin data /\ Tell(r, "paused")
    /\ Queue(GoOn(r))
    /\ willBeSent' = Drop(willBeSent, r)
    /\ interceptions' = IF r \in DOMAIN willBeSent THEN interceptions
                        ELSE Put(interceptions, r, hop[r])
    /\ UNCHANGED <<requests, attempted, announced>>

\* The pause announces the request that was filed, or waits for it.
RequestPaused(r) ==
    /\ protocolIntercepts \/ ~steady[r]
    /\ r \notin data /\ Tell(r, "paused")
    /\ IF r \in DOMAIN willBeSent
       THEN /\ OnRequest(r, willBeSent[r], hop[r], GoOn(r))
            /\ willBeSent' = Drop(willBeSent, r)
            /\ UNCHANGED interceptions
       ELSE /\ interceptions' = Put(interceptions, r, hop[r])
            /\ Queue(GoOn(r))
            /\ UNCHANGED <<requests, willBeSent, attempted, announced>>

\* A challenge to a paused request: credentials once, then give up.
AuthRequired(r) ==
    LET id == <<r, hop[r]>> IN
    /\ "paused" \in told[r]
    /\ attempted' = IF hasCredentials THEN attempted \cup {id} ELSE attempted
    /\ Queue(<<<<"auth", r, IF id \in attempted THEN "cancel"
                            ELSE IF hasCredentials THEN "provide"
                            ELSE "default">>>>)
    /\ UNCHANGED <<settings, requests, willBeSent, interceptions, chrome,
                   announced>>

\* The response, or the end without one.  A request is reported by the first
\* of them; only loading finished or failed forgets its credentials.
Finished(r, event) ==
    /\ r \in DOMAIN requests
    /\ requests' = Drop(requests, r)
    /\ attempted' = IF event = "response" THEN attempted
                    ELSE attempted \ {<<r, requests[r].id>>}
    /\ Queue(<<<<IF event = "failed" THEN "failed" ELSE "finished", r>>>>)
    /\ UNCHANGED <<settings, willBeSent, interceptions, chrome, announced>>

Poll ==
    /\ queuedEvents # << >>
    /\ queuedEvents' = Tail(queuedEvents)
    /\ UNCHANGED <<settings, tracking, chrome, announced>>

NetNext ==
    \/ \E b \in BOOLEAN :
        SetRequestInterception(b) \/ SetCacheEnabled(b) \/ SetOfflineMode(b)
    \/ Authenticate
    \/ \E r \in Requests :
        \/ NextHop(r) \/ RequestWillBeSent(r) \/ RequestPaused(r)
        \/ AuthRequired(r)
        \/ \E e \in {"response", "finished", "failed"} : Finished(r, e)
    \/ Poll

NetSpec == NetInit /\ [][NetNext]_netVars

-----------------------------------------------------------------------------
(* Properties.                                                             *)

\* Whichever of its two events comes first, each hop of a request is announced
\* once: not before both are there and not later, and with the pause of that
\* hop; one that is not intercepted, such as a data: URL, with its one event
\* and no pause.  What is filed waits for the other half of the present hop.
\* (As long as interception is not switched while the request is under way.)
RequestsPaired ==
    \A r \in Requests : steady[r] =>
        /\ announced[r] = IF hop[r] = 0 \/ ToldAll(r) THEN hop[r]
                          ELSE hop[r] - 1
        /\ r \in DOMAIN requests =>
            requests[r] = [hop |-> announced[r],
                           id |-> IF Intercepts(r) THEN announced[r] ELSE 0]
        /\ r \in DOMAIN willBeSent => told[r] = {"sent"}
        /\ r \in DOMAIN interceptions => told[r] = {"paused"}
=============================================================================
