------------------------------ MODULE MCDriver ------------------------------
EXTENDS FrameManager, NetworkManager, CdpHandler, Listeners, PageCalls

VARIABLE part \* the part of the driver a behaviour is about

\* Contexts and navigations do not meet; navigations see few frames.
FewFrames ==
    LET asked == {n \in Navs : outcome[n].how # "new"}
    IN  \/ asked = {}
        \/ used = {} /\ Cardinality(Tracked) + Cardinality(asked) <= 3

\* Three subscribers and one event, or two and two.
FewReaders ==
    Cardinality({r \in Subscribers : reader[r].state # "none"}) + sent <= 4

\* Subscribers are alike, and so are users: the lower numbers come first.
InOrder ==
    /\ \A r \in Subscribers : reader[r].state # "none" =>
          \A q \in Subscribers : q < r => reader[q].state # "none"
    /\ \A u \in Users : op[u] # NoOp =>
          \A v \in Users : v < u => op[v] # NoOp

\* The handler, one page's frames, one page's traffic, the subscriptions to
\* one method and the calls on one page have their own states here; each
\* behaviour is of one of them.
MCInit ==
    /\ part \in {"handler", "frames", "network", "listeners", "page"}
    /\ FrameInit /\ NetInit /\ HandlerFresh /\ ListenersInit /\ PageCallsInit
    /\ task = IF part = "handler" THEN "awake" ELSE "unarmed"
    /\ part # "network" => data = {}
    /\ part # "listeners" => known
MCNext ==
    /\ \/ /\ part = "handler" /\ HandlerNext
          /\ UNCHANGED <<frameVars, netVars, listenerVars, pageCallVars>>
       \/ /\ part = "frames" /\ FrameNext /\ FewFrames'
          /\ UNCHANGED <<handlerVars, netVars, listenerVars, pageCallVars>>
       \/ /\ part = "network" /\ NetNext
          /\ UNCHANGED <<handlerVars, frameVars, listenerVars, pageCallVars>>
       \/ /\ part = "listeners" /\ ListenersNext /\ FewReaders'
          /\ UNCHANGED <<handlerVars, frameVars, netVars, pageCallVars>>
       \/ /\ part = "page" /\ PageCallsNext
          /\ UNCHANGED <<handlerVars, frameVars, netVars, listenerVars>>
    /\ UNCHANGED part /\ InOrder'
MCSpec ==
    /\ MCInit
    /\ [][MCNext]_<<frameVars, netVars, handlerVars, listenerVars, pageCallVars,
                   part>>
    /\ HandlerFairness
=============================================================================
