--------------------------- MODULE ManagerProofs ---------------------------
(***************************************************************************)
(* Safety of the two managers a target of the driver holds: of its frames  *)
(* (FrameManager) and of its traffic (NetworkManager), for any number of   *)
(* frames, contexts, navigations, requests and redirects.                  *)
(***************************************************************************)
EXTENDS FrameManager, NetworkManager, TLAPS

(***************************************************************************)
(* Traffic.                                                                *)
(***************************************************************************)
NetTypes ==
    /\ hop \in [Requests -> Nat]
    /\ told \in [Requests -> SUBSET {"sent", "paused"}]
    /\ steady \in [Requests -> BOOLEAN]
    /\ announced \in [Requests -> Nat]

\* What waits for its other half is what Chrome has told of this hop, and
\* what Chrome has told half of waits.
Paired(r) ==
    steady[r] =>
        /\ hop[r] = 0 => /\ told[r] = {}
                         /\ r \notin DOMAIN willBeSent
                         /\ r \notin DOMAIN interceptions
                         /\ r \notin DOMAIN requests
        /\ announced[r] = IF hop[r] = 0 \/ ToldAll(r) THEN hop[r]
                          ELSE hop[r] - 1
        /\ r \in DOMAIN requests =>
              requests[r] = [hop |-> announced[r],
                             id |-> IF Intercepts(r) THEN announced[r] ELSE 0]
        /\ r \in DOMAIN willBeSent => /\ told[r] = {"sent"} /\ Intercepts(r)
                                      /\ willBeSent[r] = hop[r]
        /\ r \in DOMAIN interceptions => /\ told[r] = {"paused"}
                                         /\ interceptions[r] = hop[r]
                                         /\ Intercepts(r)
        /\ Intercepts(r) => /\ told[r] = {"sent"} => r \in DOMAIN willBeSent
                            /\ told[r] = {"paused"} => r \in DOMAIN interceptions
NetInv == NetTypes /\ \A r \in Requests : Paired(r)

LEMMA NetInit0 == NetInit => NetInv
BY DEF NetInit, NetInv, NetTypes, Paired, ToldAll

\* What Paired(s) speaks of stays as it is.
Untouched(s) ==
    /\ UNCHANGED <<hop[s], told[s], steady[s], announced[s],
                   protocolIntercepts, data>>
    /\ s \in DOMAIN willBeSent <=> s \in DOMAIN willBeSent'
    /\ s \in DOMAIN interceptions <=> s \in DOMAIN interceptions'
    /\ s \in DOMAIN requests <=> s \in DOMAIN requests'
    /\ s \in DOMAIN willBeSent => willBeSent'[s] = willBeSent[s]
    /\ s \in DOMAIN interceptions => interceptions'[s] = interceptions[s]
    /\ s \in DOMAIN requests => requests'[s] = requests[s]

LEMMA PairedStays ==
    ASSUME NEW s, Paired(s), Untouched(s)
    PROVE  Paired(s)'
BY DEF Paired, Untouched, ToldAll, Intercepts

\* Switching interception only concerns requests that have not begun.
LEMMA InterceptionStep ==
    ASSUME NetInv, NEW u, NEW c, UpdateInterception(u, c),
           UNCHANGED <<requests, willBeSent, interceptions, hop, told, data,
                       announced>>
    PROVE  NetInv'
<1>1. CASE (u \/ c) = protocolIntercepts
  BY <1>1 DEF NetInv, NetTypes, Paired, UpdateInterception, ToldAll, Intercepts
<1>2. CASE (u \/ c) # protocolIntercepts
  <2>1. steady' = [r \in Requests |-> steady[r] /\ hop[r] = 0]
    BY <1>2 DEF UpdateInterception
  <2>2. NetTypes'
    BY <2>1 DEF NetInv, NetTypes
  <2>3. ASSUME NEW r \in Requests  PROVE  Paired(r)'
    BY <2>1, <2>3 DEF NetInv, NetTypes, Paired
  <2>. QED BY <2>2, <2>3 DEF NetInv
<1>. QED BY <1>1, <1>2

LEMMA HopStep ==
    ASSUME NetInv, NEW r \in Requests, NextHop(r)
    PROVE  NetInv'
<1>1. NetTypes'
  BY DEF NextHop, NetInv, NetTypes
<1>2. ASSUME NEW s \in Requests  PROVE  Paired(s)'
  <2>1. CASE s # r
    <3>1. Untouched(s)
      BY <2>1 DEF NextHop, NetInv, NetTypes, Untouched, settings, tracking
    <3>. QED BY <3>1, PairedStays DEF NetInv
  <2>2. CASE s = r
    <3>1. /\ hop'[r] = hop[r] + 1 /\ told'[r] = {} /\ hop[r] \in Nat
          /\ announced' = announced
          /\ steady' = steady /\ (Intercepts(r))' = Intercepts(r)
      BY DEF NextHop, NetInv, NetTypes, settings, Intercepts
    <3>2. steady[r] => /\ r \notin DOMAIN interceptions
                       /\ r \notin DOMAIN willBeSent
                       /\ announced[r] = hop[r]
      BY DEF NextHop, NetInv, NetTypes, Paired, ToldAll
    <3>3. ~(ToldAll(r))'
      BY <3>1 DEF ToldAll
    <3>4. UNCHANGED <<requests, willBeSent, interceptions>>
      BY DEF NextHop, tracking
    <3>5. steady[r] /\ r \in DOMAIN requests =>
             requests[r] = [hop |-> announced[r],
                            id |-> IF Intercepts(r) THEN announced[r] ELSE 0]
      BY DEF NetInv, Paired
    <3>. QED BY <2>2, <3>1, <3>2, <3>3, <3>4, <3>5 DEF Paired
  <2>. QED BY <2>1, <2>2
<1>. QED BY <1>1, <1>2 DEF NetInv

LEMMA TellIs ==
    ASSUME NetInv, NEW r \in Requests, NEW what \in {"sent", "paused"},
           Tell(r, what)
    PROVE  /\ told' \in [Requests -> SUBSET {"sent", "paused"}]
           /\ told'[r] = told[r] \cup {what} /\ what \notin told[r]
           /\ hop[r] \in Nat /\ hop[r] # 0
           /\ \A s \in Requests : s # r => told'[s] = told[s]
           /\ UNCHANGED <<hop, steady, protocolIntercepts, data>>
           /\ (Intercepts(r))' = Intercepts(r)
BY DEF Tell, NetInv, NetTypes, settings, Intercepts

\* What is announced, and how often that was.
LEMMA OnRequestIs ==
    ASSUME NetInv, NEW r \in Requests, NEW h, NEW id, NEW before,
           OnRequest(r, h, id, before)
    PROVE  /\ announced' \in [Requests -> Nat]
           /\ r \in DOMAIN requests' /\ requests'[r] = [hop |-> h, id |-> id]
           /\ steady[r] => announced'[r] = announced[r] + 1
           /\ \A s \in Requests : s # r =>
                 /\ announced'[s] = announced[s]
                 /\ (s \in DOMAIN requests') = (s \in DOMAIN requests)
                 /\ s \in DOMAIN requests => requests'[s] = requests[s]
<1>1. requests' = Put(requests, r, [hop |-> h, id |-> id])
  BY DEF OnRequest
<1>2. announced' = IF steady[r] THEN [announced EXCEPT ![r] = @ + 1]
                   ELSE announced
  BY DEF OnRequest
<1>3. /\ announced' \in [Requests -> Nat]
      /\ steady[r] => announced'[r] = announced[r] + 1
      /\ \A s \in Requests : s # r => announced'[s] = announced[s]
  BY <1>2 DEF NetInv, NetTypes
<1>. QED BY <1>1, <1>3 DEF Put

LEMMA SentStep ==
    ASSUME NetInv, NEW r \in Requests, RequestWillBeSent(r)
    PROVE  NetInv'
<1>0. Tell(r, "sent")
  BY DEF RequestWillBeSent
<1>1. steady[r] => announced[r] = hop[r] - 1
  BY <1>0, TellIs DEF NetInv, Paired, ToldAll
<1>2. CASE Intercepts(r) /\ r \notin DOMAIN interceptions
  <2>1. willBeSent' = Put(willBeSent, r, hop[r])
        /\ UNCHANGED <<requests, interceptions, announced>>
    BY <1>2 DEF RequestWillBeSent
  <2>2. NetTypes'
    BY <1>0, <2>1, TellIs DEF NetInv, NetTypes
  <2>3. ASSUME NEW s \in Requests, s # r  PROVE Paired(s)'
    <3>1. Untouched(s)
      BY <1>0, <2>1, <2>3, TellIs DEF Untouched, Put
    <3>. QED BY <3>1, PairedStays DEF NetInv
  <2>4. steady[r] => told'[r] = {"sent"}
    <3>1. steady[r] => told[r] # {"paused"}
      BY <1>2 DEF NetInv, Paired
    <3>. QED BY <1>0, <3>1, TellIs DEF NetInv, NetTypes
  <2>5. r \in DOMAIN willBeSent' /\ willBeSent'[r] = hop[r]
    BY <2>1 DEF Put
  <2>6. Paired(r)'
    <3>1. steady[r] => ~(ToldAll(r))'
      BY <1>0, <1>2, <2>4, TellIs DEF ToldAll
    <3>2. steady[r] /\ r \in DOMAIN requests =>
             requests[r] = [hop |-> announced[r],
                            id |-> IF Intercepts(r) THEN announced[r] ELSE 0]
      BY DEF NetInv, Paired
    <3>. QED
      BY <1>0, <1>1, <1>2, <2>1, <2>4, <2>5, <3>1, <3>2, TellIs DEF Paired
  <2>. QED BY <2>2, <2>3, <2>6 DEF NetInv
<1>3. CASE ~(Intercepts(r) /\ r \notin DOMAIN interceptions)
  <2>. DEFINE id == IF Intercepts(r) THEN interceptions[r] ELSE 0
  <2>1. /\ OnRequest(r, hop[r], id, << >>)
        /\ interceptions' = IF Intercepts(r) THEN Drop(interceptions, r)
                            ELSE interceptions
        /\ willBeSent' = willBeSent
    BY <1>3 DEF RequestWillBeSent
  <2>2. steady[r] => id = IF Intercepts(r) THEN hop[r] ELSE 0
    BY <1>3 DEF NetInv, Paired
  <2>. HIDE DEF id
  <2>3. NetTypes'
    BY <1>0, <2>1, OnRequestIs, TellIs DEF NetInv, NetTypes
  <2>4. ASSUME NEW s \in Requests, s # r  PROVE Paired(s)'
    <3>1. Untouched(s)
      BY <1>0, <2>1, <2>4, OnRequestIs, TellIs DEF Untouched, Drop
    <3>. QED BY <3>1, PairedStays DEF NetInv
  <2>5. steady[r] => r \notin DOMAIN willBeSent
    BY <1>0, TellIs DEF NetInv, Paired
  <2>6. steady[r] => r \notin DOMAIN interceptions'
    BY <1>3, <2>1 DEF NetInv, Paired, Drop
  <2>7. steady[r] => (ToldAll(r))'
    <3>1. steady[r] /\ Intercepts(r) => told[r] = {"paused"}
      BY <1>3 DEF NetInv, Paired
    <3>. QED BY <1>0, <3>1, TellIs DEF ToldAll
  <2>8. steady[r] => announced'[r] = hop[r]
    <3>1. steady[r] => announced'[r] = announced[r] + 1
      BY <2>1, OnRequestIs
    <3>. QED BY <1>0, <1>1, <3>1, TellIs
  <2>9. steady[r] => requests'[r] = [hop |-> announced'[r],
            id |-> IF (Intercepts(r))' THEN announced'[r] ELSE 0]
    BY <1>0, <2>1, <2>2, <2>8, OnRequestIs, TellIs
  <2>10. /\ told'[r] # {"paused"} /\ hop'[r] # 0 /\ steady' = steady
         /\ hop' = hop
         /\ steady[r] /\ (Intercepts(r))' => told'[r] # {"sent"}
    BY <1>0, <2>7, TellIs DEF ToldAll
  <2>11. Paired(r)'
    BY <2>1, <2>5, <2>6, <2>7, <2>8, <2>9, <2>10 DEF Paired
  <2>. QED BY <2>3, <2>4, <2>11 DEF NetInv
<1>. QED BY <1>2, <1>3

LEMMA PausedStep ==
    ASSUME NetInv, NEW r \in Requests, RequestPaused(r)
    PROVE  NetInv'
<1>0. Tell(r, "paused")
  BY DEF RequestPaused
<1>1. steady[r] => Intercepts(r) /\ announced[r] = hop[r] - 1
  BY <1>0, TellIs DEF RequestPaused, NetInv, Paired, ToldAll, Intercepts
<1>2. CASE r \in DOMAIN willBeSent
  <2>1. /\ OnRequest(r, willBeSent[r], hop[r], GoOn(r))
        /\ willBeSent' = Drop(willBeSent, r)
        /\ interceptions' = interceptions
    BY <1>2 DEF RequestPaused
  <2>2. NetTypes'
    BY <1>0, <2>1, OnRequestIs, TellIs DEF NetInv, NetTypes
  <2>3. ASSUME NEW s \in Requests, s # r  PROVE Paired(s)'
    <3>1. Untouched(s)
      BY <1>0, <2>1, <2>3, OnRequestIs, TellIs DEF Untouched, Drop
    <3>. QED BY <3>1, PairedStays DEF NetInv
  <2>4. steady[r] => r \notin DOMAIN interceptions
    BY <1>0, TellIs DEF NetInv, Paired
  <2>5. r \notin DOMAIN willBeSent'
    BY <2>1 DEF Drop
  <2>6. steady[r] => /\ told'[r] = {"sent", "paused"} /\ willBeSent[r] = hop[r]
    BY <1>0, <1>2, TellIs DEF NetInv, Paired
  <2>7. steady[r] => announced'[r] = hop[r]
    <3>1. steady[r] => announced'[r] = announced[r] + 1
      BY <2>1, OnRequestIs
    <3>. QED BY <1>0, <1>1, <3>1, TellIs
  <2>8. steady[r] => requests'[r] = [hop |-> announced'[r],
            id |-> IF (Intercepts(r))' THEN announced'[r] ELSE 0]
    BY <1>0, <1>1, <2>1, <2>6, <2>7, OnRequestIs, TellIs
  <2>9. steady[r] => (ToldAll(r))'
    BY <2>6 DEF ToldAll
  <2>10. Paired(r)'
    BY <1>0, <2>1, <2>4, <2>5, <2>6, <2>7, <2>8, <2>9, TellIs DEF Paired
  <2>. QED BY <2>2, <2>3, <2>10 DEF NetInv
<1>3. CASE r \notin DOMAIN willBeSent
  <2>1. /\ interceptions' = Put(interceptions, r, hop[r])
        /\ UNCHANGED <<requests, willBeSent, announced>>
    BY <1>3 DEF RequestPaused
  <2>2. NetTypes'
    BY <1>0, <2>1, TellIs DEF NetInv, NetTypes
  <2>3. ASSUME NEW s \in Requests, s # r  PROVE Paired(s)'
    <3>1. Untouched(s)
      BY <1>0, <2>1, <2>3, TellIs DEF Untouched, Put
    <3>. QED BY <3>1, PairedStays DEF NetInv
  <2>4. steady[r] => told'[r] = {"paused"}
    <3>1. steady[r] => told[r] # {"sent"}
      BY <1>1, <1>3 DEF NetInv, Paired
    <3>. QED BY <1>0, <3>1, TellIs DEF NetInv, NetTypes
  <2>5. r \in DOMAIN interceptions' /\ interceptions'[r] = hop[r]
    BY <2>1 DEF Put
  <2>6. steady[r] => ~(ToldAll(r))'
    BY <2>4 DEF ToldAll
  <2>7. steady[r] /\ r \in DOMAIN requests =>
           requests[r] = [hop |-> announced[r],
                          id |-> IF Intercepts(r) THEN announced[r] ELSE 0]
    BY DEF NetInv, Paired
  <2>8. Paired(r)'
    BY <1>0, <1>1, <1>3, <2>1, <2>4, <2>5, <2>6, <2>7, TellIs DEF Paired
  <2>. QED BY <2>2, <2>3, <2>8 DEF NetInv
<1>. QED BY <1>2, <1>3

LEMMA NetStep == NetInv /\ [NetNext]_netVars => NetInv'
<1>. SUFFICES ASSUME NetInv, [NetNext]_netVars  PROVE NetInv'
  OBVIOUS
<1>1. ASSUME NEW b \in BOOLEAN, SetRequestInterception(b)  PROVE NetInv'
  BY <1>1, InterceptionStep DEF SetRequestInterception, tracking
<1>2. CASE Authenticate
  BY <1>2, InterceptionStep DEF Authenticate, tracking
<1>3. CASE UNCHANGED <<protocolIntercepts, requests, willBeSent, interceptions,
                       chrome, announced>>
  BY <1>3 DEF chrome, NetInv, NetTypes, Paired, ToldAll, Intercepts
<1>4. ASSUME NEW b \in BOOLEAN, SetCacheEnabled(b) \/ SetOfflineMode(b)
      PROVE  NetInv'
  BY <1>3, <1>4 DEF SetCacheEnabled, SetOfflineMode, tracking
<1>5. ASSUME NEW r \in Requests, NextHop(r)  PROVE NetInv'
  BY <1>5, HopStep
<1>6. ASSUME NEW r \in Requests, RequestWillBeSent(r) \/ RequestPaused(r)
      PROVE  NetInv'
  BY <1>6, SentStep, PausedStep
<1>7. ASSUME NEW r \in Requests, AuthRequired(r)  PROVE NetInv'
  BY <1>3, <1>7 DEF AuthRequired, settings
<1>8. ASSUME NEW r \in Requests, NEW e, Finished(r, e)  PROVE NetInv'
  <2>1. requests' = Drop(requests, r)
        /\ UNCHANGED <<protocolIntercepts, willBeSent, interceptions, chrome,
                       announced>>
    BY <1>8 DEF Finished, settings
  <2>. QED
    BY <2>1 DEF NetInv, NetTypes, Paired, Drop, chrome, ToldAll, Intercepts
<1>9. CASE Poll
  BY <1>3, <1>9 DEF Poll, settings, tracking
<1>10. CASE UNCHANGED netVars
  BY <1>3, <1>10 DEF netVars, settings, tracking
<1>. QED BY <1>1, <1>2, <1>4, <1>5, <1>6, <1>7, <1>8, <1>9, <1>10 DEF NetNext

\* RequestsPaired: each hop of a request whose interception is not switched
\* meanwhile is announced once, when what Chrome tells of it is in and with its
\* own pause, in whichever order that comes.
THEOREM RequestsMeetTheirPauses == NetSpec => []RequestsPaired
<1>1. NetInv => RequestsPaired
  BY DEF NetInv, Paired, RequestsPaired
<1>. QED BY <1>1, NetInit0, NetStep, PTL DEF NetSpec

(***************************************************************************)
(* Frames.                                                                 *)
(***************************************************************************)
Milestones == {"init", "DOMContentLoaded", "load"}
Frame == [parent : FrameIds \cup {None}, children : SUBSET FrameIds,
          url : BOOLEAN, loader : Nat, events : SUBSET Milestones,
          main : Contexts \cup {None}, secondary : Contexts \cup {None}]

FrameTypes ==
    /\ Tracked \subseteq FrameIds
    /\ frames \in [Tracked -> Frame]
    /\ mainFrame \in FrameIds \cup {None}
    /\ renamed \subseteq FrameIds
    /\ DOMAIN contextIds \subseteq used
    /\ lastLoader \in Nat

\* Every frame is under the main one: there is no other set of frames that
\* holds the parents of all its members.
Rooted ==
    \A S \in SUBSET Tracked :
        /\ S # {}
        /\ \A g \in S : g # mainFrame => frames[g].parent \in S
        => mainFrame \in S

TreeInv == FrameTypes /\ FrameTree /\ Rooted

\* What a subtree removal takes: the roots and whatever is below them, and
\* nothing else.
Gone(fr, roots) == UNION {Subtree(fr, r) : r \in roots \cap DOMAIN fr}

LEMMA GoneIsBelow ==
    ASSUME NEW fr, NEW roots,
           \A h \in DOMAIN fr : \A c \in fr[h].children \cap DOMAIN fr :
               fr[c].parent = h
    PROVE  /\ Gone(fr, roots) \subseteq DOMAIN fr
           /\ roots \cap DOMAIN fr \subseteq Gone(fr, roots)
           /\ \A h \in Gone(fr, roots) :
                 /\ fr[h].children \cap DOMAIN fr \subseteq Gone(fr, roots)
                 /\ h \notin roots => fr[h].parent \in Gone(fr, roots)
<1>1. ASSUME NEW r \in roots \cap DOMAIN fr
      PROVE  /\ Subtree(fr, r) \subseteq DOMAIN fr
             /\ r \in Subtree(fr, r)
             /\ \A h \in Subtree(fr, r) :
                   fr[h].children \cap DOMAIN fr \subseteq Subtree(fr, r)
  BY DEF Subtree
<1>2. ASSUME NEW r \in roots \cap DOMAIN fr, NEW g \in Subtree(fr, r), g # r,
             fr[g].parent \notin Subtree(fr, r)
      PROVE  FALSE
  <2>. DEFINE S == Subtree(fr, r) \ {g}
  <2>1. S \in SUBSET DOMAIN fr /\ r \in S
    BY <1>1, <1>2
  <2>2. ASSUME NEW h \in S, NEW c \in fr[h].children \cap DOMAIN fr
        PROVE  c \in S
    <3>1. c \in Subtree(fr, r)
      BY <1>1
    <3>2. c # g
      BY <1>1, <1>2
    <3>. QED BY <3>1, <3>2
  <2>. HIDE DEF S
  <2>3. g \in S
    BY <2>1, <2>2 DEF Subtree
  <2>. QED BY <2>3 DEF S
<1>3. ASSUME NEW h \in Gone(fr, roots)
      PROVE  \E r \in roots \cap DOMAIN fr : h \in Subtree(fr, r)
  BY DEF Gone
<1>4. ASSUME NEW r \in roots \cap DOMAIN fr
      PROVE  Subtree(fr, r) \subseteq Gone(fr, roots)
  BY DEF Gone
<1>5. ASSUME NEW h \in Gone(fr, roots)
      PROVE  /\ h \in DOMAIN fr
             /\ fr[h].children \cap DOMAIN fr \subseteq Gone(fr, roots)
             /\ h \notin roots => fr[h].parent \in Gone(fr, roots)
  <2>1. PICK r \in roots \cap DOMAIN fr : h \in Subtree(fr, r)
    BY <1>3
  <2>2. h # r => fr[h].parent \in Subtree(fr, r)
    BY <1>2, <2>1
  <2>. QED BY <1>1, <1>4, <2>1, <2>2
<1>6. roots \cap DOMAIN fr \subseteq Gone(fr, roots)
  BY <1>1, <1>4
<1>. QED BY <1>5, <1>6

\* What is left after a removal: the frames with all they had, but for the
\* children that are gone.
Same(frame, fr, g, gone) ==
    /\ frame.parent = fr[g].parent
    /\ frame.main = fr[g].main
    /\ frame.secondary = fr[g].secondary
    /\ frame.loader = fr[g].loader
    /\ frame.children = fr[g].children \ {h \in gone : fr[h].parent = g}

LEMMA RemovedFrames ==
    ASSUME NEW fr, NEW roots, DOMAIN fr \subseteq FrameIds,
           fr \in [DOMAIN fr -> Frame]
    PROVE  /\ DOMAIN RemoveFrames(fr, roots) = DOMAIN fr \ Gone(fr, roots)
           /\ RemoveFrames(fr, roots) \in
                  [DOMAIN RemoveFrames(fr, roots) -> Frame]
           /\ \A g \in DOMAIN RemoveFrames(fr, roots) :
                 Same(RemoveFrames(fr, roots)[g], fr, g, Gone(fr, roots))
<1>. DEFINE gone == Gone(fr, roots)
            rest == RemoveFrames(fr, roots)
<1>1. rest = [g \in DOMAIN fr \ gone |->
            [fr[g] EXCEPT !.children = @ \ {h \in gone : fr[h].parent = g}]]
  BY DEF RemoveFrames, Gone
<1>. HIDE DEF gone, rest
<1>2. ASSUME NEW g \in DOMAIN fr \ gone
      PROVE  rest[g] \in Frame /\ Same(rest[g], fr, g, gone)
  <2>1. fr[g] \in Frame
    OBVIOUS
  <2>2. rest[g] =
            [fr[g] EXCEPT !.children = @ \ {h \in gone : fr[h].parent = g}]
    BY <1>1
  <2>. QED BY <2>1, <2>2 DEF Frame, Same
<1>3. DOMAIN rest = DOMAIN fr \ gone
  BY <1>1
<1>4. rest \in [DOMAIN rest -> Frame]
  BY <1>1, <1>2, <1>3
<1>. QED BY <1>2, <1>3, <1>4 DEF gone, rest

LEMMA TreeInit == FrameInit => TreeInv
BY DEF FrameInit, TreeInv, FrameTypes, FrameTree, Rooted, Tracked

\* A step that keeps parents and children keeps the tree.
LEMMA SameShape ==
    ASSUME TreeInv, FrameTypes', Tracked' = Tracked, mainFrame' = mainFrame,
           \A g \in Tracked : /\ frames'[g].parent = frames[g].parent
                              /\ frames'[g].children = frames[g].children
    PROVE  TreeInv'
<1>1. FrameTree'
  BY DEF TreeInv, FrameTree
<1>2. Rooted'
  BY DEF TreeInv, Rooted
<1>. QED BY <1>1, <1>2 DEF TreeInv

LEMMA AttachedStep ==
    ASSUME TreeInv, NEW f \in FrameIds, NEW p \in FrameIds, FrameAttached(f, p)
    PROVE  TreeInv'
<1>1. /\ f \notin Tracked /\ p \in Tracked
      /\ Tracked' = Tracked \cup {f}
      /\ frames'[f] = NewFrame(p)
      /\ \A g \in Tracked : frames'[g] =
            IF g = p THEN [frames[g] EXCEPT !.children = @ \cup {f}]
            ELSE frames[g]
      /\ UNCHANGED <<mainFrame, renamed, contextIds, used, lastLoader>>
  BY DEF FrameAttached, With, Tracked, TreeInv, FrameTypes, worlds
<1>2. /\ frames'[f].parent = p /\ frames'[f].children = {}
      /\ \A g \in Tracked :
            /\ frames'[g] \in Frame
            /\ frames'[g].parent = frames[g].parent
            /\ frames'[g].children = IF g = p THEN frames[g].children \cup {f}
                                     ELSE frames[g].children
  <2>1. ASSUME NEW g \in Tracked
        PROVE  /\ frames'[g].parent = frames[g].parent
               /\ frames'[g].children =
                     IF g = p THEN frames[g].children \cup {f}
                     ELSE frames[g].children
               /\ frames'[g] \in Frame
    <3>1. frames[g] \in Frame
      BY DEF TreeInv, FrameTypes
    <3>2. CASE g = p
      <4>. DEFINE more == frames[p].children \cup {f}
      <4>1. frames'[g] = [frames[g] EXCEPT !.children = more]
        BY <1>1, <3>2
      <4>2. more \in SUBSET FrameIds
        BY <3>1, <3>2 DEF Frame
      <4>. HIDE DEF more
      <4>3. frames'[g] \in Frame /\ frames'[g].parent = frames[g].parent
            /\ frames'[g].children = more
        BY <3>1, <4>1, <4>2 DEF Frame
      <4>. QED BY <3>2, <4>3 DEF more
    <3>3. CASE g # p
      BY <1>1, <3>1, <3>3
    <3>. QED BY <3>2, <3>3
  <2>. QED BY <1>1, <2>1 DEF NewFrame
<1>3. FrameTypes'
  <2>1. NewFrame(p) \in Frame
    BY DEF NewFrame, Frame
  <2>2. frames' = [g \in Tracked' |-> frames'[g]]
    BY DEF FrameAttached, With, Tracked
  <2>3. \A g \in Tracked' : frames'[g] \in Frame
    BY <1>1, <1>2, <2>1
  <2>4. frames' \in [Tracked' -> Frame]
    BY <2>2, <2>3
  <2>. QED BY <1>1, <2>4 DEF TreeInv, FrameTypes
<1>4. FrameTree'
  <2>1. mainFrame # None => mainFrame \in Tracked'
    BY <1>1 DEF TreeInv, FrameTree
  <2>2. ASSUME NEW g \in Tracked
        PROVE  /\ frames'[g].parent = None <=> g = mainFrame
               /\ g # mainFrame => /\ frames'[g].parent \in Tracked'
                                   /\ g \in frames'[frames'[g].parent].children
               /\ \A c \in frames'[g].children :
                     c \in Tracked' /\ frames'[c].parent = g
    <3>1. frames'[g].parent = None <=> g = mainFrame
      BY <1>2 DEF TreeInv, FrameTree
    <3>2. g # mainFrame => /\ frames'[g].parent \in Tracked'
                           /\ g \in frames'[frames'[g].parent].children
      <4>1. g # mainFrame => /\ frames[g].parent \in Tracked
                             /\ g \in frames[frames[g].parent].children
        BY DEF TreeInv, FrameTree
      <4>. QED BY <1>1, <1>2, <4>1
    <3>3. ASSUME NEW c \in frames'[g].children
          PROVE  c \in Tracked' /\ frames'[c].parent = g
      <4>1. CASE c \in frames[g].children
        BY <1>1, <1>2, <4>1 DEF TreeInv, FrameTree
      <4>2. CASE c \notin frames[g].children
        <5>1. c = f /\ g = p
          BY <1>2, <4>2
        <5>. QED BY <1>1, <1>2, <5>1
      <4>. QED BY <4>1, <4>2
    <3>. QED BY <3>1, <3>2, <3>3
  <2>3. f # mainFrame /\ p # None
    BY <1>1, FrameAssumption DEF TreeInv, FrameTree
  <2>4. /\ frames'[f].parent = None <=> f = mainFrame
        /\ frames'[f].parent \in Tracked'
        /\ f \in frames'[frames'[f].parent].children
        /\ frames'[f].children = {}
    BY <1>1, <1>2, <2>3
  <2>. QED BY <1>1, <2>1, <2>2, <2>4 DEF FrameTree
<1>5. Rooted'
  <2>. SUFFICES ASSUME NEW S \in SUBSET Tracked', S # {},
                       \A g \in S : g # mainFrame' => frames'[g].parent \in S
                PROVE  mainFrame' \in S
    BY DEF Rooted
  <2>. DEFINE T == S \ {f}
  <2>1. T \in SUBSET Tracked
    BY <1>1
  <2>2. T # {}
    <3>1. f # mainFrame
      BY <1>1, FrameAssumption DEF TreeInv, FrameTree
    <3>. QED BY <1>1, <1>2, <3>1
  <2>3. ASSUME NEW g \in T, g # mainFrame  PROVE frames[g].parent \in T
    <3>1. frames[g].parent \in Tracked
      BY <2>1, <2>3 DEF TreeInv, FrameTree
    <3>2. frames[g].parent \in S
      BY <1>1, <1>2, <2>1, <2>3
    <3>. QED BY <1>1, <3>1, <3>2
  <2>4. mainFrame \in T
    BY <2>1, <2>2, <2>3 DEF TreeInv, Rooted
  <2>. QED BY <1>1, <2>4
<1>. QED BY <1>3, <1>4, <1>5 DEF TreeInv

LEMMA DetachedStep ==
    ASSUME TreeInv, NEW f \in Tracked, f # mainFrame,
           frames' = RemoveFrames(frames, {f}),
           UNCHANGED <<mainFrame, renamed, contextIds, used, lastLoader>>
    PROVE  TreeInv'
<1>. DEFINE gone == Gone(frames, {f})
<1>1. /\ gone \subseteq Tracked /\ f \in gone
      /\ \A h \in gone : /\ frames[h].children \subseteq gone
                         /\ h # f => frames[h].parent \in gone
  <2>1. \A h \in Tracked : \A c \in frames[h].children :
            c \in Tracked /\ frames[c].parent = h
    BY DEF TreeInv, FrameTree
  <2>. QED BY <2>1, GoneIsBelow DEF Tracked
<1>2. /\ Tracked' = Tracked \ gone
      /\ frames' \in [Tracked' -> Frame]
      /\ \A g \in Tracked' :
            /\ frames'[g].parent = frames[g].parent
            /\ frames'[g].children =
                  frames[g].children \ {h \in gone : frames[h].parent = g}
  <2>1. DOMAIN frames \subseteq FrameIds /\ frames \in [DOMAIN frames -> Frame]
    BY DEF TreeInv, FrameTypes, Tracked
  <2>2. /\ DOMAIN RemoveFrames(frames, {f}) = DOMAIN frames \ Gone(frames, {f})
        /\ RemoveFrames(frames, {f}) \in
               [DOMAIN RemoveFrames(frames, {f}) -> Frame]
        /\ \A g \in DOMAIN RemoveFrames(frames, {f}) :
              Same(RemoveFrames(frames, {f})[g], frames, g, Gone(frames, {f}))
    BY <2>1, RemovedFrames, Zenon
  <2>. QED BY <2>2, Zenon DEF Tracked, Same
<1>. HIDE DEF gone
<1>3. FrameTypes'
  BY <1>2 DEF TreeInv, FrameTypes
<1>4. mainFrame \notin gone
  BY <1>1, FrameAssumption DEF TreeInv, FrameTypes, FrameTree
<1>5. FrameTree'
  <2>1. mainFrame # None => mainFrame \in Tracked'
    BY <1>2, <1>4 DEF TreeInv, FrameTree
  <2>2. ASSUME NEW g \in Tracked'
        PROVE  /\ frames'[g].parent = None <=> g = mainFrame
               /\ g # mainFrame => /\ frames'[g].parent \in Tracked'
                                   /\ g \in frames'[frames'[g].parent].children
               /\ \A c \in frames'[g].children :
                     c \in Tracked' /\ frames'[c].parent = g
    <3>1. frames'[g].parent = None <=> g = mainFrame
      BY <1>2 DEF TreeInv, FrameTree
    <3>2. ASSUME g # mainFrame
          PROVE  /\ frames'[g].parent \in Tracked'
                 /\ g \in frames'[frames'[g].parent].children
      <4>1. /\ frames[g].parent \in Tracked
            /\ g \in frames[frames[g].parent].children
        BY <1>2, <3>2 DEF TreeInv, FrameTree
      <4>2. frames[g].parent \notin gone
        BY <1>1, <1>2, <4>1
      <4>. QED BY <1>2, <4>1, <4>2
    <3>3. ASSUME NEW c \in frames'[g].children
          PROVE  c \in Tracked' /\ frames'[c].parent = g
      <4>1. g \in Tracked /\ c \in frames[g].children
        BY <1>2
      <4>2. c \in Tracked /\ frames[c].parent = g
        BY <4>1 DEF TreeInv, FrameTree
      <4>3. c \notin gone
        BY <1>2, <4>2
      <4>. QED BY <1>2, <4>2, <4>3
    <3>. QED BY <3>1, <3>2, <3>3
  <2>. QED BY <2>1, <2>2 DEF FrameTree
<1>6. Rooted'
  BY <1>1, <1>2 DEF TreeInv, Rooted
<1>. QED BY <1>3, <1>5, <1>6 DEF TreeInv

LEMMA ChildNavigatedStep ==
    ASSUME TreeInv, NEW f \in FrameIds, ChildNavigated(f)
    PROVE  TreeInv'
<1>. DEFINE fr == Without(frames, {f})
            gone == Gone(fr, frames[f].children)
            rest == RemoveFrames(fr, frames[f].children)
<1>0. f \in Tracked /\ f # mainFrame /\ UNCHANGED <<mainFrame, renamed,
                                            contextIds, used, lastLoader>>
      /\ frames' = With(rest, f, [frames[f] EXCEPT !.children = {},
                                                   !.url = TRUE])
  BY DEF ChildNavigated, worlds
<1>1. DOMAIN fr = Tracked \ {f} /\ \A g \in DOMAIN fr : fr[g] = frames[g]
  BY DEF Without, Tracked
<1>2. DOMAIN fr \subseteq FrameIds /\ fr \in [DOMAIN fr -> Frame]
  BY DEF Without, TreeInv, FrameTypes, Tracked
<1>. HIDE DEF fr
<1>3. /\ gone \subseteq DOMAIN fr
      /\ frames[f].children \cap DOMAIN fr \subseteq gone
      /\ \A h \in gone :
            /\ fr[h].children \cap DOMAIN fr \subseteq gone
            /\ h \notin frames[f].children => fr[h].parent \in gone
  <2>1. \A h \in DOMAIN fr : \A c \in fr[h].children \cap DOMAIN fr :
            fr[c].parent = h
    BY <1>1 DEF TreeInv, FrameTree
  <2>. QED BY <2>1, GoneIsBelow
<1>4. /\ DOMAIN rest = DOMAIN fr \ gone
      /\ rest \in [DOMAIN rest -> Frame]
      /\ \A g \in DOMAIN rest :
            /\ rest[g].parent = fr[g].parent
            /\ rest[g].children =
                  fr[g].children \ {h \in gone : fr[h].parent = g}
  <2>1. /\ DOMAIN rest = DOMAIN fr \ gone
        /\ rest \in [DOMAIN rest -> Frame]
        /\ \A g \in DOMAIN rest : Same(rest[g], fr, g, gone)
    BY <1>2, RemovedFrames, Zenon
  <2>. QED BY <2>1, Zenon DEF Same
<1>. HIDE DEF gone, rest
<1>5. /\ Tracked' = (Tracked \ gone)
      /\ \A g \in Tracked' \ {f} : frames'[g] = rest[g]
      /\ frames'[f] = [frames[f] EXCEPT !.children = {}, !.url = TRUE]
      /\ frames' = [g \in Tracked' |-> frames'[g]]
  BY <1>0, <1>1, <1>3, <1>4 DEF With, Tracked
<1>6. frames[f] \in Frame
  BY <1>0 DEF TreeInv, FrameTypes
<1>7. /\ frames'[f] \in Frame /\ frames'[f].children = {}
      /\ frames'[f].parent = frames[f].parent
  BY <1>5, <1>6 DEF Frame
<1>8. \A g \in Tracked' \ {f} :
          /\ g \in DOMAIN rest /\ frames'[g] \in Frame
          /\ frames'[g].parent = frames[g].parent
          /\ frames'[g].children =
                frames[g].children \ {h \in gone : frames[h].parent = g}
  BY <1>1, <1>3, <1>4, <1>5
<1>9. FrameTypes'
  BY <1>0, <1>5, <1>7, <1>8 DEF TreeInv, FrameTypes
<1>10. \A h \in gone : /\ h \in Tracked /\ h # f
                       /\ frames[h].parent = f \/ frames[h].parent \in gone
                       /\ frames[h].children \ {f} \subseteq gone
                       /\ h # mainFrame
  <2>1. \A h \in gone : /\ h \in Tracked /\ h # f
                        /\ frames[h].parent = f \/ frames[h].parent \in gone
    BY <1>0, <1>1, <1>3 DEF TreeInv, FrameTree
  <2>2. \A h \in gone : frames[h].children \ {f} \subseteq gone
    BY <1>1, <1>3, <2>1 DEF TreeInv, FrameTree
  <2>3. \A h \in gone : h # mainFrame
    BY <1>0, <2>1, FrameAssumption DEF TreeInv, FrameTypes, FrameTree
  <2>. QED BY <2>1, <2>2, <2>3
<1>11. frames[f].parent \in Tracked /\ frames[f].parent # f
       /\ frames[f].parent \notin gone
  <2>1. frames[f].parent \in Tracked
    BY <1>0 DEF TreeInv, FrameTree
  <2>2. ASSUME frames[f].parent \in gone \cup {f}  PROVE FALSE
    <3>. DEFINE S == gone \cup {f}
    <3>1. S \in SUBSET Tracked /\ S # {}
      BY <1>0, <1>10
    <3>2. \A g \in S : g # mainFrame => frames[g].parent \in S
      BY <1>10, <2>2
    <3>. HIDE DEF S
    <3>3. mainFrame \in S
      BY <3>1, <3>2 DEF TreeInv, Rooted
    <3>. QED BY <1>0, <1>10, <3>3 DEF S
  <2>. QED BY <2>1, <2>2
<1>12. \A c \in frames[f].children : c # f => c \in gone
  BY <1>0, <1>1, <1>3 DEF TreeInv, FrameTree
<1>13. FrameTree'
  <2>1. mainFrame # None => mainFrame \in Tracked'
    BY <1>5, <1>10 DEF TreeInv, FrameTree
  <2>2. ASSUME NEW g \in Tracked', g # f
        PROVE  /\ frames'[g].parent = None <=> g = mainFrame
               /\ g # mainFrame => /\ frames'[g].parent \in Tracked'
                                   /\ g \in frames'[frames'[g].parent].children
               /\ \A c \in frames'[g].children :
                     c \in Tracked' /\ frames'[c].parent = g
    <3>1. g \in Tracked /\ g \notin gone
      BY <1>5, <2>2
    <3>2. frames'[g].parent = None <=> g = mainFrame
      BY <1>8, <2>2, <3>1 DEF TreeInv, FrameTree
    <3>3. ASSUME g # mainFrame
          PROVE  /\ frames'[g].parent \in Tracked'
                 /\ g \in frames'[frames'[g].parent].children
      <4>1. /\ frames[g].parent \in Tracked
            /\ g \in frames[frames[g].parent].children
        BY <3>1, <3>3 DEF TreeInv, FrameTree
      <4>2. frames[g].parent # f
        BY <1>12, <2>2, <3>1, <4>1
      <4>3. frames[g].parent \notin gone
        BY <1>10, <2>2, <3>1, <4>1
      <4>. QED BY <1>5, <1>8, <2>2, <3>1, <4>1, <4>2, <4>3
    <3>4. ASSUME NEW c \in frames'[g].children
          PROVE  c \in Tracked' /\ frames'[c].parent = g
      <4>1. c \in frames[g].children /\ c \in Tracked /\ frames[c].parent = g
            /\ c \notin gone
        BY <1>8, <2>2, <3>1 DEF TreeInv, FrameTree
      <4>. QED BY <1>5, <1>7, <1>8, <4>1
    <3>. QED BY <3>2, <3>3, <3>4
  <2>3. /\ frames'[f].parent # None /\ frames'[f].parent \in Tracked'
        /\ f \in frames'[frames'[f].parent].children
    <3>1. f \in frames[frames[f].parent].children
      BY <1>0 DEF TreeInv, FrameTree
    <3>2. f \notin gone
      BY <1>10
    <3>3. frames[f].parent # None
      BY <1>11, FrameAssumption DEF TreeInv, FrameTypes
    <3>. QED BY <1>5, <1>7, <1>8, <1>11, <3>1, <3>2, <3>3
  <2>. QED BY <1>0, <1>7, <2>1, <2>2, <2>3 DEF FrameTree
<1>14. Rooted'
  <2>1. Tracked' \subseteq Tracked
        /\ \A g \in Tracked' : frames'[g].parent = frames[g].parent
    BY <1>5, <1>7, <1>8
  <2>. QED BY <1>0, <2>1 DEF TreeInv, Rooted
<1>. QED BY <1>9, <1>13, <1>14 DEF TreeInv

LEMMA MainNavigatedStep ==
    ASSUME TreeInv, NEW f \in FrameIds, MainNavigated(f)
    PROVE  /\ TreeInv'
           /\ Tracked' = {f} /\ mainFrame' = f
           /\ mainFrame # None =>
                 /\ frames'[f].main = frames[mainFrame].main
                 /\ frames'[f].secondary = frames[mainFrame].secondary
                 /\ frames'[f].loader = frames[mainFrame].loader
           /\ mainFrame = None =>
                 /\ frames'[f].main = None /\ frames'[f].secondary = None
                 /\ frames'[f].loader = 0
<1>. DEFINE old == IF mainFrame = None THEN NewFrame(None)
                   ELSE frames[mainFrame]
            fr == Without(frames, {mainFrame})
            gone == Gone(fr, old.children)
            rest == RemoveFrames(fr, old.children)
<1>0. /\ frames' = With(rest, f, [old EXCEPT !.children = {}, !.url = TRUE])
      /\ mainFrame' = f /\ renamed' = renamed \cup ({mainFrame} \ {None, f})
      /\ UNCHANGED <<contextIds, used, lastLoader>>
  BY DEF MainNavigated, worlds
<1>1. /\ DOMAIN fr = Tracked \ {mainFrame}
      /\ \A g \in DOMAIN fr : fr[g] = frames[g]
  BY DEF Without, Tracked
<1>2. DOMAIN fr \subseteq FrameIds /\ fr \in [DOMAIN fr -> Frame]
  BY DEF Without, TreeInv, FrameTypes, Tracked
<1>3. old \in Frame /\ old.parent = None
  <2>1. CASE mainFrame = None
    BY <2>1 DEF NewFrame, Frame
  <2>2. CASE mainFrame # None
    BY <2>2 DEF TreeInv, FrameTypes, FrameTree
  <2>. QED BY <2>1, <2>2
<1>4. \A g \in Tracked : frames[g].parent = mainFrame /\ mainFrame # None =>
          g \in old.children
  BY FrameAssumption DEF TreeInv, FrameTypes, FrameTree
<1>. HIDE DEF fr
<1>5. /\ gone \subseteq DOMAIN fr
      /\ old.children \cap DOMAIN fr \subseteq gone
      /\ \A h \in gone : fr[h].children \cap DOMAIN fr \subseteq gone
  <2>1. \A h \in DOMAIN fr : \A c \in fr[h].children \cap DOMAIN fr :
            fr[c].parent = h
    BY <1>1 DEF TreeInv, FrameTree
  <2>. QED BY <2>1, GoneIsBelow
<1>6. DOMAIN rest = DOMAIN fr \ gone
  BY <1>2, RemovedFrames, Zenon
<1>. HIDE DEF gone, rest, old
<1>7. DOMAIN rest = {}
  <2>. DEFINE S == DOMAIN rest
  <2>1. S \in SUBSET Tracked
    BY <1>1, <1>6
  <2>2. ASSUME NEW g \in S  PROVE frames[g].parent \in S
    <3>1. g \in Tracked /\ g # mainFrame /\ g \notin gone
      BY <1>1, <1>6
    <3>2. /\ frames[g].parent \in Tracked
          /\ g \in frames[frames[g].parent].children
      BY <3>1 DEF TreeInv, FrameTree
    <3>3. frames[g].parent # mainFrame
      <4>1. mainFrame # None => g \notin old.children
        BY <1>1, <1>5, <3>1
      <4>2. frames[g].parent # None
        BY <3>2, FrameAssumption DEF TreeInv, FrameTypes
      <4>. QED BY <1>4, <3>1, <4>1, <4>2
    <3>4. frames[g].parent \notin gone
      BY <1>1, <1>5, <3>1, <3>2
    <3>. QED BY <1>1, <1>6, <3>2, <3>3, <3>4
  <2>3. mainFrame \notin S
    BY <1>1, <1>6
  <2>. HIDE DEF S
  <2>4. S = {}
    BY <2>1, <2>2, <2>3 DEF TreeInv, Rooted
  <2>. QED BY <2>4 DEF S
<1>8. /\ Tracked' = {f}
      /\ frames' = [g \in {f} |-> [old EXCEPT !.children = {}, !.url = TRUE]]
  BY <1>0, <1>7 DEF With, Tracked
<1>9. /\ frames'[f] \in Frame
      /\ frames'[f].parent = None /\ frames'[f].children = {}
      /\ frames'[f].main = old.main /\ frames'[f].secondary = old.secondary
      /\ frames'[f].loader = old.loader
  BY <1>3, <1>8 DEF Frame
<1>10. FrameTypes'
  <2>1. frames' \in [Tracked' -> Frame]
    BY <1>8, <1>9
  <2>. QED BY <1>0, <1>8, <2>1 DEF TreeInv, FrameTypes
<1>11. FrameTree' /\ Rooted'
  BY <1>0, <1>8, <1>9 DEF FrameTree, Rooted
<1>. QED BY <1>0, <1>8, <1>9, <1>10, <1>11 DEF TreeInv, old, NewFrame

\* Everything else that is told of a frame leaves its place in the tree.
Keeps ==
    /\ Tracked' = Tracked /\ UNCHANGED <<mainFrame, renamed>>
    /\ frames' \in [Tracked -> Frame]
    /\ \A g \in Tracked : /\ frames'[g].parent = frames[g].parent
                          /\ frames'[g].children = frames[g].children

LEMMA OneFrame ==
    ASSUME FrameTypes, NEW f \in Tracked, NEW x \in Frame,
           x.parent = frames[f].parent, x.children = frames[f].children,
           frames' = [frames EXCEPT ![f] = x],
           UNCHANGED <<mainFrame, renamed>>
    PROVE  /\ Keeps /\ frames'[f] = x
           /\ \A g \in Tracked \ {f} : frames'[g] = frames[g]
BY DEF FrameTypes, Keeps, Tracked

LEMMA LoadingStep ==
    ASSUME FrameTypes, NEW f, StartedLoading(f)
    PROVE  /\ Keeps
           /\ \A g \in Tracked : /\ frames'[g].main = frames[g].main
                                 /\ frames'[g].secondary = frames[g].secondary
                                 /\ frames'[g].loader = frames[g].loader
<1>. DEFINE x == [frames[f] EXCEPT !.events = {}]
<1>1. f \in Tracked /\ frames[f] \in Frame
  BY DEF StartedLoading, FrameTypes
<1>2. /\ x \in Frame /\ x.parent = frames[f].parent
      /\ x.children = frames[f].children /\ x.main = frames[f].main
      /\ x.secondary = frames[f].secondary /\ x.loader = frames[f].loader
  BY <1>1 DEF Frame
<1>3. frames' = [frames EXCEPT ![f] = x] /\ UNCHANGED <<mainFrame, renamed>>
  BY DEF StartedLoading
<1>. HIDE DEF x
<1>4. /\ Keeps /\ frames'[f] = x
      /\ \A g \in Tracked \ {f} : frames'[g] = frames[g]
  BY <1>1, <1>2, <1>3, OneFrame, Zenon
<1>. QED BY <1>2, <1>4

LEMMA WithinStep ==
    ASSUME FrameTypes, NEW f, WithinDocument(f)
    PROVE  /\ Keeps
           /\ \A g \in Tracked : /\ frames'[g].main = frames[g].main
                                 /\ frames'[g].secondary = frames[g].secondary
                                 /\ frames'[g].loader = frames[g].loader
<1>. DEFINE x == [frames[f] EXCEPT !.url = TRUE]
<1>1. f \in Tracked /\ frames[f] \in Frame
  BY DEF WithinDocument, FrameTypes
<1>2. /\ x \in Frame /\ x.parent = frames[f].parent
      /\ x.children = frames[f].children /\ x.main = frames[f].main
      /\ x.secondary = frames[f].secondary /\ x.loader = frames[f].loader
  BY <1>1 DEF Frame
<1>3. frames' = [frames EXCEPT ![f] = x] /\ UNCHANGED <<mainFrame, renamed>>
  BY DEF WithinDocument
<1>. HIDE DEF x
<1>4. /\ Keeps /\ frames'[f] = x
      /\ \A g \in Tracked \ {f} : frames'[g] = frames[g]
  BY <1>1, <1>2, <1>3, OneFrame, Zenon
<1>. QED BY <1>2, <1>4

LEMMA LifecycleStep ==
    ASSUME FrameTypes, NEW f, NEW name \in Milestones,
           Lifecycle(f, name)
    PROVE  /\ Keeps
           /\ \A g \in Tracked :
                 /\ frames'[g].main = frames[g].main
                 /\ frames'[g].secondary = frames[g].secondary
           /\ lastLoader' \in Nat /\ lastLoader <= lastLoader'
           /\ \/ lastLoader' = lastLoader + 1
                 /\ frames'[mainFrame].loader = lastLoader'
              \/ lastLoader' = lastLoader
                 /\ \A g \in Tracked : frames'[g].loader = frames[g].loader
<1>1. f \in Tracked /\ frames[f] \in Frame /\ lastLoader \in Nat
      /\ UNCHANGED <<mainFrame, renamed>>
  BY DEF Lifecycle, FrameTypes
<1>2. CASE name = "init" /\ f = mainFrame
  <2>. DEFINE x == [frames[f] EXCEPT !.loader = lastLoader + 1, !.events = {}]
  <2>1. /\ x \in Frame /\ x.parent = frames[f].parent
        /\ x.children = frames[f].children /\ x.main = frames[f].main
        /\ x.secondary = frames[f].secondary /\ x.loader = lastLoader + 1
    <3>1. lastLoader + 1 \in Nat /\ {} \in SUBSET Milestones
      BY <1>1
    <3>. QED BY <1>1, <3>1 DEF Frame
  <2>2. frames' = [frames EXCEPT ![f] = x] /\ lastLoader' = lastLoader + 1
    BY <1>2 DEF Lifecycle
  <2>. HIDE DEF x
  <2>3. /\ Keeps /\ frames'[f] = x
        /\ \A g \in Tracked \ {f} : frames'[g] = frames[g]
    BY <1>1, <2>1, <2>2, OneFrame, Zenon
  <2>. QED BY <1>1, <1>2, <2>1, <2>2, <2>3
<1>3. CASE ~(name = "init" /\ f = mainFrame)
  <2>1. PICK e \in SUBSET Milestones :
            frames' = [frames EXCEPT ![f].events = e]
    <3>0. frames[f].events \in SUBSET Milestones
      BY <1>1 DEF Frame
    <3>1. /\ frames[f].events \cup {name} \in SUBSET Milestones
          /\ {} \in SUBSET Milestones
      BY <3>0, Zenon
    <3>. QED BY <1>1, <1>3, <3>1 DEF Lifecycle
  <2>. DEFINE x == [frames[f] EXCEPT !.events = e]
  <2>2. /\ x \in Frame /\ x.parent = frames[f].parent
        /\ x.children = frames[f].children /\ x.main = frames[f].main
        /\ x.secondary = frames[f].secondary /\ x.loader = frames[f].loader
    BY <1>1 DEF Frame
  <2>3. frames' = [frames EXCEPT ![f] = x] /\ lastLoader' = lastLoader
    BY <1>3, <2>1 DEF Lifecycle
  <2>. HIDE DEF x
  <2>4. /\ Keeps /\ frames'[f] = x
        /\ \A g \in Tracked \ {f} : frames'[g] = frames[g]
    BY <1>1, <2>2, <2>3, OneFrame, Zenon
  <2>. QED BY <1>1, <2>2, <2>3, <2>4
<1>. QED BY <1>2, <1>3

LEMMA CreatedStep ==
    ASSUME FrameTypes, NEW f, NEW ctx \in Contexts, NEW d \in BOOLEAN,
           ContextCreated(f, ctx, d)
    PROVE  /\ Keeps
           /\ \A g \in Tracked :
                 /\ frames'[g].loader = frames[g].loader
                 /\ frames'[g].main # frames[g].main =>
                       g = f /\ frames'[g].main = ctx
                 /\ frames'[g].secondary # frames[g].secondary =>
                       g = f /\ frames'[g].secondary = ctx
<1>. DEFINE m == IF d THEN ctx ELSE frames[f].main
            n == IF ~d /\ frames[f].secondary = None THEN ctx
                 ELSE frames[f].secondary
            x == [frames[f] EXCEPT !.main = m, !.secondary = n]
<1>1. f \in Tracked /\ frames[f] \in Frame
  BY DEF ContextCreated, FrameTypes
<1>2. /\ m \in Contexts \cup {None} /\ m \in {ctx, frames[f].main}
      /\ n \in Contexts \cup {None} /\ n \in {ctx, frames[f].secondary}
  BY <1>1 DEF Frame
<1>3. frames' = [frames EXCEPT ![f] = x] /\ UNCHANGED <<mainFrame, renamed>>
  BY DEF ContextCreated
<1>. HIDE DEF m, n
<1>4. /\ x \in Frame /\ x.parent = frames[f].parent
      /\ x.children = frames[f].children /\ x.main = m
      /\ x.secondary = n /\ x.loader = frames[f].loader
  BY <1>1, <1>2 DEF Frame
<1>. HIDE DEF x
<1>5. /\ Keeps /\ frames'[f] = x
      /\ \A g \in Tracked \ {f} : frames'[g] = frames[g]
  BY <1>1, <1>3, <1>4, OneFrame, Zenon
<1>. QED BY <1>2, <1>4, <1>5

LEMMA ForgetOne ==
    ASSUME NEW x \in Frame, NEW gone
    PROVE  LET y == Forget(x, gone)
           IN  /\ y \in Frame /\ y.parent = x.parent
               /\ y.children = x.children /\ y.loader = x.loader
               /\ y.main = IF x.main \in gone THEN None ELSE x.main
               /\ y.secondary =
                     IF x.secondary \in gone THEN None ELSE x.secondary
BY DEF Frame, Forget

\* The frames of G forget the contexts gone.
LEMMA ForgetStep ==
    ASSUME FrameTypes, NEW G, NEW gone,
           frames' = [f \in Tracked |-> IF f \in G THEN Forget(frames[f], gone)
                                        ELSE frames[f]],
           UNCHANGED <<mainFrame, renamed>>
    PROVE  /\ Keeps
           /\ \A g \in Tracked :
                 /\ frames'[g].loader = frames[g].loader
                 /\ frames'[g].main = IF g \in G /\ frames[g].main \in gone
                                      THEN None ELSE frames[g].main
                 /\ frames'[g].secondary =
                       IF g \in G /\ frames[g].secondary \in gone
                       THEN None ELSE frames[g].secondary
<1>1. ASSUME NEW g \in Tracked
      PROVE  /\ frames'[g] \in Frame
             /\ frames'[g].parent = frames[g].parent
             /\ frames'[g].children = frames[g].children
             /\ frames'[g].loader = frames[g].loader
             /\ frames'[g].main = IF g \in G /\ frames[g].main \in gone
                                  THEN None ELSE frames[g].main
             /\ frames'[g].secondary =
                   IF g \in G /\ frames[g].secondary \in gone
                   THEN None ELSE frames[g].secondary
  <2>1. frames[g] \in Frame
    BY DEF FrameTypes
  <2>2. CASE g \in G
    <3>1. frames'[g] = Forget(frames[g], gone)
      BY <2>2
    <3>. QED BY <2>1, <2>2, <3>1, ForgetOne
  <2>3. CASE g \notin G
    BY <2>1, <2>3
  <2>. QED BY <2>2, <2>3
<1>2. Tracked' = Tracked /\ frames' \in [Tracked -> Frame]
  BY <1>1 DEF Tracked
<1>. QED BY <1>1, <1>2 DEF Keeps

\* No frame has a context that is gone.
ContextsInv == TreeInv /\ ContextsForgotten

LEMMA ContextsInit == FrameInit => ContextsInv
BY TreeInit DEF ContextsInv, FrameInit, ContextsForgotten, Tracked

\* Contexts that a step leaves alone.
LEMMA SameContexts ==
    ASSUME ContextsInv, TreeInv', UNCHANGED <<mainFrame, contextIds>>,
           renamed \subseteq renamed', Tracked' \subseteq Tracked,
           \A g \in Tracked' : /\ frames'[g].main = frames[g].main
                               /\ frames'[g].secondary = frames[g].secondary
    PROVE  ContextsInv'
BY DEF ContextsInv, ContextsForgotten

LEMMA KeepsTree ==
    ASSUME TreeInv, Keeps, lastLoader' \in Nat,
           DOMAIN contextIds' \subseteq used'
    PROVE  TreeInv'
<1>1. FrameTypes'
  BY DEF TreeInv, FrameTypes, Keeps
<1>. QED BY <1>1, SameShape DEF Keeps

LEMMA AttachedContexts ==
    ASSUME ContextsInv, NEW f \in FrameIds, NEW p \in FrameIds,
           FrameAttached(f, p)
    PROVE  ContextsInv'
<1>1. TreeInv'
  BY AttachedStep DEF ContextsInv
<1>2. /\ UNCHANGED <<mainFrame, renamed, contextIds>>
      /\ Tracked' = Tracked \cup {f} /\ p \in Tracked /\ f \notin Tracked
      /\ frames'[f] = NewFrame(p)
      /\ \A g \in Tracked : frames'[g] =
            IF g = p THEN [frames[g] EXCEPT !.children = @ \cup {f}]
            ELSE frames[g]
  BY DEF FrameAttached, With, Tracked, ContextsInv, TreeInv, FrameTypes, worlds
<1>3. \A g \in Tracked : frames[g] \in Frame
  BY DEF ContextsInv, TreeInv, FrameTypes
<1>4. \A g \in Tracked : /\ frames'[g].main = frames[g].main
                         /\ frames'[g].secondary = frames[g].secondary
  BY <1>2, <1>3 DEF Frame
<1>5. frames'[f].main = None /\ frames'[f].secondary = None
  BY <1>2 DEF NewFrame
<1>. QED BY <1>1, <1>2, <1>4, <1>5 DEF ContextsInv, ContextsForgotten

LEMMA RemovedContexts ==
    ASSUME ContextsInv, NEW fr, NEW roots,
           DOMAIN fr \subseteq Tracked, \A g \in DOMAIN fr : fr[g] = frames[g],
           fr = [g \in DOMAIN fr |-> fr[g]]
    PROVE  LET rest == RemoveFrames(fr, roots)
           IN  /\ DOMAIN rest \subseteq DOMAIN fr
               /\ \A g \in DOMAIN rest :
                     /\ rest[g].main = frames[g].main
                     /\ rest[g].secondary = frames[g].secondary
                     /\ rest[g].loader = frames[g].loader
<1>1. DOMAIN fr \subseteq FrameIds /\ fr \in [DOMAIN fr -> Frame]
  BY DEF ContextsInv, TreeInv, FrameTypes
<1>. DEFINE rest == RemoveFrames(fr, roots)
            gone == Gone(fr, roots)
<1>2. /\ DOMAIN rest = DOMAIN fr \ gone
      /\ \A g \in DOMAIN rest : Same(rest[g], fr, g, gone)
  BY <1>1, RemovedFrames, Zenon
<1>. HIDE DEF rest, gone
<1>3. /\ DOMAIN rest \subseteq DOMAIN fr
      /\ \A g \in DOMAIN rest :
            /\ rest[g].main = frames[g].main
            /\ rest[g].secondary = frames[g].secondary
            /\ rest[g].loader = frames[g].loader
  BY <1>2 DEF Same
<1>. QED BY <1>3 DEF rest

LEMMA DetachedContexts ==
    ASSUME ContextsInv, NEW f \in FrameIds, FrameDetached(f)
    PROVE  /\ ContextsInv'
           /\ \A g \in Tracked' : /\ g \in Tracked
                                  /\ frames'[g].loader = frames[g].loader
<1>1. f \in Tracked /\ f # mainFrame /\ frames' = RemoveFrames(frames, {f})
      /\ UNCHANGED <<mainFrame, renamed, contextIds, used, lastLoader>>
  BY DEF FrameDetached, worlds
<1>2. TreeInv'
  BY <1>1, DetachedStep DEF ContextsInv
<1>3. /\ Tracked' \subseteq Tracked
      /\ \A g \in Tracked' : /\ frames'[g].main = frames[g].main
                             /\ frames'[g].secondary = frames[g].secondary
                             /\ frames'[g].loader = frames[g].loader
  <2>1. frames = [g \in DOMAIN frames |-> frames[g]]
    BY DEF ContextsInv, TreeInv, FrameTypes, Tracked
  <2>. QED BY <1>1, <2>1, RemovedContexts DEF Tracked
<1>. QED BY <1>1, <1>2, <1>3, SameContexts

LEMMA ChildNavigatedContexts ==
    ASSUME ContextsInv, NEW f \in FrameIds, ChildNavigated(f)
    PROVE  /\ ContextsInv'
           /\ \A g \in Tracked' : /\ g \in Tracked
                                  /\ frames'[g].loader = frames[g].loader
<1>. DEFINE fr == Without(frames, {f})
            rest == RemoveFrames(fr, frames[f].children)
<1>1. /\ f \in Tracked /\ f # mainFrame
      /\ UNCHANGED <<mainFrame, renamed, contextIds>>
      /\ frames' = With(rest, f, [frames[f] EXCEPT !.children = {},
                                                   !.url = TRUE])
  BY DEF ChildNavigated, worlds
<1>2. TreeInv'
  BY ChildNavigatedStep DEF ContextsInv
<1>3. /\ DOMAIN fr \subseteq Tracked
      /\ \A g \in DOMAIN fr : fr[g] = frames[g]
      /\ fr = [g \in DOMAIN fr |-> fr[g]]
  BY DEF Without, Tracked
<1>. HIDE DEF fr
<1>4. /\ DOMAIN rest \subseteq Tracked
      /\ \A g \in DOMAIN rest :
            /\ rest[g].main = frames[g].main
            /\ rest[g].secondary = frames[g].secondary
            /\ rest[g].loader = frames[g].loader
  BY <1>3, RemovedContexts
<1>. HIDE DEF rest
<1>5. /\ Tracked' = DOMAIN rest \cup {f}
      /\ \A g \in Tracked' : g # f => frames'[g] = rest[g]
      /\ frames'[f] = [frames[f] EXCEPT !.children = {}, !.url = TRUE]
  BY <1>1 DEF With, Tracked
<1>6. frames'[f].main = frames[f].main
      /\ frames'[f].secondary = frames[f].secondary
      /\ frames'[f].loader = frames[f].loader
  <2>1. frames[f] \in Frame
    BY <1>1 DEF ContextsInv, TreeInv, FrameTypes
  <2>. QED BY <1>5, <2>1 DEF Frame
<1>7. /\ Tracked' \subseteq Tracked
      /\ \A g \in Tracked' : /\ frames'[g].main = frames[g].main
                             /\ frames'[g].secondary = frames[g].secondary
                             /\ frames'[g].loader = frames[g].loader
  BY <1>1, <1>4, <1>5, <1>6
<1>. QED BY <1>1, <1>2, <1>7, SameContexts

LEMMA MainNavigatedContexts ==
    ASSUME ContextsInv, NEW f \in FrameIds, MainNavigated(f)
    PROVE  ContextsInv'
<1>1. /\ TreeInv' /\ Tracked' = {f} /\ mainFrame' = f
      /\ mainFrame # None =>
            /\ frames'[f].main = frames[mainFrame].main
            /\ frames'[f].secondary = frames[mainFrame].secondary
      /\ mainFrame = None =>
            frames'[f].main = None /\ frames'[f].secondary = None
  BY MainNavigatedStep DEF ContextsInv
<1>2. renamed' = renamed \cup ({mainFrame} \ {None, f})
      /\ UNCHANGED contextIds
  BY DEF MainNavigated, worlds
<1>3. mainFrame # None => mainFrame \in Tracked
  BY DEF ContextsInv, TreeInv, FrameTree
<1>4. CASE mainFrame = None
  BY <1>1, <1>4 DEF ContextsInv, ContextsForgotten
<1>5. CASE mainFrame = f /\ mainFrame # None
  BY <1>1, <1>2, <1>3, <1>5 DEF ContextsInv, ContextsForgotten
<1>6. CASE mainFrame # f /\ mainFrame # None
  <2>1. renamed' # {}
    BY <1>2, <1>6
  <2>. QED BY <1>1, <2>1 DEF ContextsInv, ContextsForgotten
<1>. QED BY <1>4, <1>5, <1>6

LEMMA CreatedContexts ==
    ASSUME ContextsInv, NEW f \in FrameIds, NEW ctx \in Contexts,
           NEW d \in BOOLEAN, ContextCreated(f, ctx, d)
    PROVE  ContextsInv'
<1>1. /\ ctx \notin used /\ used' = used \cup {ctx}
      /\ contextIds' = With(contextIds, ctx, f) /\ lastLoader' = lastLoader
  BY DEF ContextCreated
<1>2. /\ Keeps
      /\ \A g \in Tracked :
            /\ frames'[g].main # frames[g].main =>
                  g = f /\ frames'[g].main = ctx
            /\ frames'[g].secondary # frames[g].secondary =>
                  g = f /\ frames'[g].secondary = ctx
  BY CreatedStep DEF ContextsInv, TreeInv
<1>3. /\ DOMAIN contextIds' = DOMAIN contextIds \cup {ctx}
      /\ contextIds'[ctx] = f /\ ctx \notin DOMAIN contextIds
      /\ \A x \in DOMAIN contextIds : contextIds'[x] = contextIds[x]
  BY <1>1 DEF With, ContextsInv, TreeInv, FrameTypes
<1>4. TreeInv'
  BY <1>1, <1>2, <1>3, KeepsTree DEF ContextsInv, TreeInv, FrameTypes
<1>5. ContextsForgotten'
  BY <1>2, <1>3 DEF ContextsInv, ContextsForgotten, Keeps
<1>. QED BY <1>4, <1>5 DEF ContextsInv

LEMMA DestroyedContexts ==
    ASSUME ContextsInv, NEW ctx \in Contexts, ContextDestroyed(ctx)
    PROVE  ContextsInv'
<1>. DEFINE G == {contextIds[ctx]}
<1>1. /\ ctx \in DOMAIN contextIds
      /\ contextIds' = Without(contextIds, {ctx})
      /\ frames' = [f \in Tracked |-> IF f \in G THEN Forget(frames[f], {ctx})
                                      ELSE frames[f]]
      /\ UNCHANGED <<mainFrame, renamed, used, lastLoader>>
  BY DEF ContextDestroyed
<1>2. /\ Keeps
      /\ \A g \in Tracked :
            /\ frames'[g].main = IF g \in G /\ frames[g].main \in {ctx}
                                 THEN None ELSE frames[g].main
            /\ frames'[g].secondary =
                  IF g \in G /\ frames[g].secondary \in {ctx}
                  THEN None ELSE frames[g].secondary
  BY <1>1, ForgetStep DEF ContextsInv, TreeInv
<1>3. /\ DOMAIN contextIds' = DOMAIN contextIds \ {ctx}
      /\ \A x \in DOMAIN contextIds' : contextIds'[x] = contextIds[x]
  BY <1>1 DEF Without
<1>4. TreeInv'
  BY <1>1, <1>2, <1>3, KeepsTree DEF ContextsInv, TreeInv, FrameTypes
<1>5. Tracked' = Tracked /\ mainFrame' = mainFrame /\ renamed' = renamed
  BY <1>1, <1>2 DEF Keeps
<1>6. ASSUME NEW g \in Tracked, NEW w, NEW v,
             w = None \/ (w \in DOMAIN contextIds /\ contextIds[w] = g)
                      \/ (g = mainFrame /\ renamed # {}),
             v = IF g \in G /\ w \in {ctx} THEN None ELSE w
      PROVE  v = None \/ (v \in DOMAIN contextIds' /\ contextIds'[v] = g)
                      \/ (g = mainFrame' /\ renamed' # {})
  <2>1. CASE w = ctx /\ contextIds[ctx] = g
    BY <1>6, <2>1
  <2>2. CASE w # ctx
    BY <1>1, <1>3, <1>6, <2>2
  <2>3. CASE w = ctx /\ contextIds[ctx] # g
    BY <1>1, <1>5, <1>6, <2>3
  <2>. QED BY <2>1, <2>2, <2>3
<1>7. ContextsForgotten'
  <2>. SUFFICES ASSUME NEW g \in Tracked,
                       NEW x \in {frames'[g].main, frames'[g].secondary}
                PROVE  \/ x = None
                       \/ x \in DOMAIN contextIds' /\ contextIds'[x] = g
                       \/ g = mainFrame' /\ renamed' # {}
    BY <1>5 DEF ContextsForgotten
  <2>. HIDE DEF G
  <2>1. CASE x = frames'[g].main
    <3>. DEFINE w == frames[g].main
    <3>1. w = None \/ (w \in DOMAIN contextIds /\ contextIds[w] = g)
                   \/ (g = mainFrame /\ renamed # {})
      BY DEF ContextsInv, ContextsForgotten
    <3>2. x = IF g \in G /\ w \in {ctx} THEN None ELSE w
      BY <1>2, <2>1
    <3>. HIDE DEF w
    <3>. QED BY <1>6, <3>1, <3>2
  <2>2. CASE x = frames'[g].secondary
    <3>. DEFINE w == frames[g].secondary
    <3>1. w = None \/ (w \in DOMAIN contextIds /\ contextIds[w] = g)
                   \/ (g = mainFrame /\ renamed # {})
      BY DEF ContextsInv, ContextsForgotten
    <3>2. x = IF g \in G /\ w \in {ctx} THEN None ELSE w
      BY <1>2, <2>2
    <3>. HIDE DEF w
    <3>. QED BY <1>6, <3>1, <3>2
  <2>. QED BY <2>1, <2>2
<1>. QED BY <1>4, <1>7 DEF ContextsInv

LEMMA ClearedContexts ==
    ASSUME ContextsInv, ContextsCleared
    PROVE  ContextsInv'
<1>. DEFINE G == {f \in Tracked : \E ctx \in DOMAIN contextIds :
                                      contextIds[ctx] = f}
<1>1. /\ frames' = [f \in Tracked |-> IF f \in G
                                      THEN Forget(frames[f], Contexts)
                                      ELSE frames[f]]
      /\ contextIds' = << >>
      /\ UNCHANGED <<mainFrame, renamed, used, lastLoader>>
  BY DEF ContextsCleared
<1>2. /\ Keeps
      /\ \A g \in Tracked :
            /\ frames'[g].main = IF g \in G /\ frames[g].main \in Contexts
                                 THEN None ELSE frames[g].main
            /\ frames'[g].secondary =
                  IF g \in G /\ frames[g].secondary \in Contexts
                  THEN None ELSE frames[g].secondary
  <2>. HIDE DEF G
  <2>. QED BY <1>1, ForgetStep DEF ContextsInv, TreeInv
<1>3. DOMAIN contextIds' = {}
  BY <1>1
<1>4. TreeInv'
  BY <1>1, <1>2, <1>3, KeepsTree DEF ContextsInv, TreeInv, FrameTypes
<1>5. ASSUME NEW g \in Tracked
      PROVE  /\ frames[g].main \in Contexts \cup {None}
             /\ frames[g].secondary \in Contexts \cup {None}
  BY DEF ContextsInv, TreeInv, FrameTypes, Frame
<1>6. ContextsForgotten'
  BY <1>1, <1>2, <1>5 DEF ContextsInv, ContextsForgotten, Keeps
<1>. QED BY <1>4, <1>6 DEF ContextsInv

LEMMA ContextsStep == ContextsInv /\ [FrameNext]_frameVars => ContextsInv'
<1>. SUFFICES ASSUME ContextsInv, [FrameNext]_frameVars  PROVE ContextsInv'
  OBVIOUS
<1>0. ASSUME Keeps, UNCHANGED <<contextIds, used>>, lastLoader' \in Nat,
             \A g \in Tracked : /\ frames'[g].main = frames[g].main
                                /\ frames'[g].secondary = frames[g].secondary
      PROVE  ContextsInv'
  <2>1. TreeInv'
    BY <1>0, KeepsTree DEF ContextsInv, TreeInv, FrameTypes
  <2>. QED BY <1>0, <2>1, SameContexts DEF Keeps
<1>1. FrameTypes /\ lastLoader \in Nat
  BY DEF ContextsInv, TreeInv, FrameTypes
<1>2. ASSUME NEW f \in FrameIds, NEW p \in FrameIds, FrameAttached(f, p)
      PROVE  ContextsInv'
  BY <1>2, AttachedContexts
<1>3. ASSUME NEW f \in FrameIds, FrameDetached(f)  PROVE ContextsInv'
  BY <1>3, DetachedContexts
<1>4. ASSUME NEW f \in FrameIds, ChildNavigated(f)  PROVE ContextsInv'
  BY <1>4, ChildNavigatedContexts
<1>5. ASSUME NEW f \in FrameIds, MainNavigated(f)  PROVE ContextsInv'
  BY <1>5, MainNavigatedContexts
<1>6. ASSUME NEW f \in FrameIds, StartedLoading(f)  PROVE ContextsInv'
  <2>1. UNCHANGED <<contextIds, used, lastLoader>>
    BY <1>6 DEF StartedLoading, worlds
  <2>. QED BY <1>0, <1>1, <1>6, <2>1, LoadingStep
<1>7. ASSUME NEW f \in FrameIds, WithinDocument(f)  PROVE ContextsInv'
  <2>1. UNCHANGED <<contextIds, used, lastLoader>>
    BY <1>7 DEF WithinDocument, worlds
  <2>. QED BY <1>0, <1>1, <1>7, <2>1, WithinStep
<1>8. ASSUME NEW f \in FrameIds, NEW name \in Milestones, Lifecycle(f, name)
      PROVE  ContextsInv'
  <2>1. UNCHANGED <<contextIds, used>>
    BY <1>8 DEF Lifecycle, worlds
  <2>. QED BY <1>0, <1>1, <1>8, <2>1, LifecycleStep
<1>9. ASSUME NEW f \in FrameIds, NEW ctx \in Contexts, NEW d \in BOOLEAN,
             ContextCreated(f, ctx, d)
      PROVE  ContextsInv'
  BY <1>9, CreatedContexts
<1>10. ASSUME NEW ctx \in Contexts, ContextDestroyed(ctx)  PROVE ContextsInv'
  BY <1>10, DestroyedContexts
<1>11. CASE ContextsCleared
  BY <1>11, ClearedContexts
<1>12. ASSUME UNCHANGED <<tree, worlds, lastLoader>>  PROVE ContextsInv'
  <2>1. Keeps /\ UNCHANGED <<frames, contextIds, used, lastLoader>>
    BY <1>1, <1>12 DEF tree, worlds, Keeps, Tracked, FrameTypes
  <2>. QED BY <1>0, <1>1, <2>1
<1>13. (\E n \in Navs : Goto(n)) \/ PollRequest \/ PollResult
          \/ UNCHANGED frameVars => UNCHANGED <<tree, worlds, lastLoader>>
  BY DEF Goto, PollRequest, PollResult, frameVars, tree, worlds
<1>. QED BY <1>2, <1>3, <1>4, <1>5, <1>6, <1>7, <1>8, <1>9, <1>10, <1>11,
            <1>12, <1>13 DEF FrameNext, Milestones

-----------------------------------------------------------------------------
(* Navigations.  The newest document is always the main frame's, and a     *)
(* watch is of the main frame, or of what was once the main frame and is   *)
(* not tracked any more.  A goto that did not have to wait is issued       *)
(* before any event can bring another document.                            *)

Watch == [id : Navs, frame : FrameIds, same : BOOLEAN, loader : Nat]
Hows == {"new", "asked", "dropped", "timeout", "no frame", "same",
         "loaded"}
Outcome == [how : Hows, queued : BOOLEAN, issued : Nat, loader : Nat]

NewestIsMain == IF mainFrame = None THEN lastLoader = 0 /\ renamed = {}
                ELSE frames[mainFrame].loader = lastLoader

Watches(w, former, main, last, out) ==
    /\ w \in Watch
    /\ w.frame \in former \cup {main} /\ w.loader <= last
    /\ out[w.id].how # "new"
Watched(w) == Watches(w, renamed, mainFrame, lastLoader, outcome)
WatchedNext(w) == Watches(w, renamed', mainFrame', lastLoader', outcome')

\* Only the oldest request, and only while nothing is watched, is unqueued.
PendingInv ==
    /\ pending \in Seq(Watch)
    /\ \A i \in 1..Len(pending) :
        /\ Watched(pending[i])
        /\ ~outcome[pending[i].id].queued =>
              /\ i = 1 /\ navigation = None
              /\ outcome[pending[i].id].how = "asked"
              /\ pending[i].loader = lastLoader

CurrentInv ==
    navigation # None =>
        /\ Watched(navigation)
        /\ ~outcome[navigation.id].queued =>
              navigation.loader = outcome[navigation.id].issued

NavInv ==
    /\ NewestIsMain
    /\ renamed \cap Tracked = {}
    /\ outcome \in [Navs -> Outcome]
    /\ PendingInv
    /\ CurrentInv
    /\ GotoWaitsForItsDocument

LEMMA NavInit == FrameInit => NavInv
<1>. SUFFICES ASSUME FrameInit  PROVE NavInv
  OBVIOUS
<1>. DEFINE fresh == [how |-> "new", queued |-> FALSE,
                      issued |-> 0, loader |-> 0]
<1>1. fresh \in Outcome /\ fresh.how = "new"
  BY DEF Outcome, Hows
<1>2. /\ outcome = [n \in Navs |-> fresh]
      /\ mainFrame = None /\ lastLoader = 0 /\ renamed = {}
      /\ pending = << >> /\ navigation = None
  BY DEF FrameInit
<1>. HIDE DEF fresh
<1>3. outcome \in [Navs -> Outcome] /\ GotoWaitsForItsDocument
  BY <1>1, <1>2 DEF GotoWaitsForItsDocument
<1>4. PendingInv
  BY <1>2 DEF PendingInv
<1>. QED BY <1>2, <1>3, <1>4 DEF NavInv, NewestIsMain, CurrentInv

LEMMA OneOutcome ==
    ASSUME outcome \in [Navs -> Outcome], NEW n \in Navs, NEW o \in Outcome,
           outcome' = [outcome EXCEPT ![n] = o]
    PROVE  /\ outcome' \in [Navs -> Outcome] /\ outcome'[n] = o
           /\ \A m \in Navs : m # n => outcome'[m] = outcome[m]
OBVIOUS

\* An event leaves the requests alone, but for what the current one has seen
\* of its document.
LEMMA EventKeepsNavs ==
    ASSUME NavInv, Polled, UNCHANGED <<pending, outcome>>,
           \/ navigation' = navigation
           \/ navigation # None
              /\ navigation' = [navigation EXCEPT !.same = TRUE],
           lastLoader \in Nat, lastLoader' \in Nat,
           lastLoader <= lastLoader',
           (renamed \cup {mainFrame}) \cap FrameIds
               \subseteq renamed' \cup {mainFrame'},
           NewestIsMain', renamed' \cap Tracked' = {}
    PROVE  NavInv'
<1>1. ASSUME NEW w, Watched(w)  PROVE WatchedNext(w)
  BY <1>1 DEF Watched, WatchedNext, Watches, Watch
<1>2. PendingInv'
  BY <1>1 DEF NavInv, PendingInv, Polled, Watched, WatchedNext
<1>3. CurrentInv'
  <2>1. CASE navigation' = navigation
    BY <1>1, <2>1 DEF NavInv, CurrentInv, Watched, WatchedNext
  <2>2. CASE /\ navigation # None
             /\ navigation' = [navigation EXCEPT !.same = TRUE]
    <3>1. WatchedNext(navigation) /\ navigation \in Watch
      BY <1>1, <2>2 DEF NavInv, CurrentInv, Watched, Watches
    <3>2. /\ navigation' \in Watch /\ navigation'.id = navigation.id
          /\ navigation'.frame = navigation.frame
          /\ navigation'.loader = navigation.loader
      BY <2>2, <3>1 DEF Watch
    <3>3. Watched(navigation) /\
          (~outcome[navigation.id].queued =>
              navigation.loader = outcome[navigation.id].issued)
      BY <2>2 DEF NavInv, CurrentInv
    <3>4. WatchedNext(navigation')
      BY <3>1, <3>2 DEF WatchedNext, Watches
    <3>. QED BY <3>2, <3>3, <3>4 DEF CurrentInv, Watched, WatchedNext
  <2>. QED BY <2>1, <2>2
<1>. QED BY <1>2, <1>3 DEF NavInv, GotoWaitsForItsDocument

LEMMA GotoKeepsNavs ==
    ASSUME ContextsInv, NavInv, NEW n \in Navs, Polled, Goto(n)
    PROVE  NavInv'
<1>1. /\ outcome[n].how = "new" /\ outcome[n] \in Outcome
      /\ UNCHANGED <<frames, mainFrame, renamed, lastLoader, navigation>>
  BY DEF Goto, tree, NavInv
<1>2. NewestIsMain' /\ (renamed \cap Tracked = {})'
  BY <1>1 DEF NavInv, NewestIsMain, Tracked
<1>3. ASSUME NEW m \in Navs, m # n  PROVE outcome'[m] = outcome[m]
  BY <1>3 DEF Goto, NavInv
<1>4. ASSUME NEW w, Watched(w)
      PROVE  /\ WatchedNext(w) /\ outcome'[w.id] = outcome[w.id]
             /\ w.id \in Navs /\ w.id # n
  BY <1>1, <1>3, <1>4 DEF Watched, WatchedNext, Watches, Watch
<1>5. CurrentInv'
  BY <1>1, <1>4 DEF NavInv, CurrentInv, Watched, WatchedNext
<1>6. CASE mainFrame = None
  <2>1. /\ outcome' = [outcome EXCEPT ![n].how = "dropped"]
        /\ pending' = pending
    BY <1>6 DEF Goto
  <2>2. outcome' \in [Navs -> Outcome] /\ outcome'[n].how = "dropped"
    <3>. DEFINE o == [outcome[n] EXCEPT !.how = "dropped"]
    <3>1. o \in Outcome /\ o.how = "dropped"
      BY <1>1 DEF Outcome, Hows
    <3>2. outcome' = [outcome EXCEPT ![n] = o]
      BY <2>1
    <3>. HIDE DEF o
    <3>. QED BY <3>1, <3>2, OneOutcome DEF NavInv
  <2>3. PendingInv'
    BY <1>1, <1>4, <2>1 DEF NavInv, PendingInv, Watched, WatchedNext
  <2>4. GotoWaitsForItsDocument'
    BY <1>3, <2>2 DEF NavInv, GotoWaitsForItsDocument
  <2>. QED BY <1>2, <1>5, <2>2, <2>3, <2>4 DEF NavInv
<1>7. CASE mainFrame # None
  <2>. DEFINE w == [id |-> n, frame |-> mainFrame, same |-> FALSE,
                    loader |-> frames[mainFrame].loader]
  <2>1. /\ outcome' = [outcome EXCEPT ![n].how = "asked",
                                     ![n].queued = navigation # None]
        /\ pending' = Append(pending, w)
    BY <1>7 DEF Goto
  <2>2. /\ outcome' \in [Navs -> Outcome] /\ outcome'[n].how = "asked"
        /\ ~outcome'[n].queued => navigation = None
    <3>. DEFINE q == navigation # None
                o == [outcome[n] EXCEPT !.how = "asked", !.queued = q]
    <3>0. outcome' = [outcome EXCEPT ![n] = o] /\ q \in BOOLEAN
      BY <2>1
    <3>. HIDE DEF q
    <3>1. o \in Outcome /\ o.how = "asked" /\ o.queued = q
      BY <1>1, <3>0 DEF Outcome, Hows
    <3>. HIDE DEF o
    <3>2. /\ outcome' \in [Navs -> Outcome] /\ outcome'[n] = o
      BY <3>0, <3>1, OneOutcome DEF NavInv
    <3>3. outcome'[n].queued = q
      BY <3>1, <3>2
    <3>. QED BY <3>1, <3>2, <3>3 DEF q
  <2>3. w \in Watch /\ w.id = n /\ w.frame = mainFrame
        /\ w.loader = lastLoader /\ lastLoader \in Nat
    BY <1>7 DEF NavInv, NewestIsMain, ContextsInv, TreeInv, FrameTypes, Watch
  <2>. HIDE DEF w
  <2>4. WatchedNext(w)
    BY <1>1, <2>2, <2>3 DEF WatchedNext, Watches
  <2>5. /\ pending' \in Seq(Watch) /\ Len(pending') = Len(pending) + 1
        /\ pending'[Len(pending) + 1] = w /\ Len(pending) \in Nat
        /\ \A i \in 1..Len(pending) : pending'[i] = pending[i]
    BY <2>1, <2>3 DEF NavInv, PendingInv
  <2>6. navigation = None => Len(pending) = 0
    BY DEF Polled
  <2>7. PendingInv'
    <3>. SUFFICES ASSUME NEW i \in 1..Len(pending) + 1
                  PROVE  /\ WatchedNext(pending'[i])
                         /\ ~outcome'[pending'[i].id].queued =>
                               /\ i = 1 /\ navigation' = None
                               /\ outcome'[pending'[i].id].how = "asked"
                               /\ pending'[i].loader = lastLoader'
      BY <2>5 DEF PendingInv, Watched, WatchedNext
    <3>1. CASE i \in 1..Len(pending)
      BY <1>1, <1>4, <2>5, <3>1 DEF NavInv, PendingInv
    <3>2. CASE i = Len(pending) + 1
      BY <1>1, <2>2, <2>3, <2>4, <2>5, <2>6, <3>2
    <3>. QED BY <2>5, <3>1, <3>2
  <2>8. GotoWaitsForItsDocument'
    BY <1>3, <2>2 DEF NavInv, GotoWaitsForItsDocument
  <2>. QED BY <1>2, <1>5, <2>2, <2>7, <2>8 DEF NavInv
<1>. QED BY <1>6, <1>7

LEMMA RequestKeepsNavs ==
    ASSUME ContextsInv, NavInv, PollRequest
    PROVE  NavInv'
<1>. DEFINE w == Head(pending)
<1>1. /\ navigation = None /\ pending # << >>
      /\ navigation' = w /\ pending' = Tail(pending)
      /\ outcome' = [outcome EXCEPT ![w.id].issued = frames[mainFrame].loader]
      /\ UNCHANGED <<frames, mainFrame, renamed, lastLoader>>
  BY DEF PollRequest, tree
<1>2. NewestIsMain' /\ (renamed \cap Tracked = {})'
  BY <1>1 DEF NavInv, NewestIsMain, Tracked
<1>3. /\ pending \in Seq(Watch) /\ w = pending[1] /\ 1 \in 1..Len(pending)
      /\ Tail(pending) \in Seq(Watch)
      /\ Len(Tail(pending)) = Len(pending) - 1 /\ Len(pending) \in Nat
      /\ \A i \in 1..Len(Tail(pending)) :
            i + 1 \in 1..Len(pending) /\ Tail(pending)[i] = pending[i + 1]
  BY <1>1 DEF NavInv, PendingInv
<1>4. /\ Watched(w)
      /\ ~outcome[w.id].queued => /\ outcome[w.id].how = "asked"
                                  /\ w.loader = lastLoader
  BY <1>3 DEF NavInv, PendingInv
<1>5. w \in Watch /\ w.id \in Navs /\ w.frame \in FrameIds
  BY <1>4 DEF Watched, Watches, Watch
<1>. HIDE DEF w
<1>6. frames[mainFrame].loader = lastLoader /\ lastLoader \in Nat
  <2>1. mainFrame # None
    BY <1>4, <1>5, FrameAssumption DEF NavInv, NewestIsMain, Watched, Watches
  <2>. QED BY <2>1 DEF NavInv, NewestIsMain, ContextsInv, TreeInv, FrameTypes
<1>7. /\ outcome' \in [Navs -> Outcome]
      /\ \A x \in Navs : /\ outcome'[x].how = outcome[x].how
                         /\ outcome'[x].queued = outcome[x].queued
                         /\ outcome'[x].loader = outcome[x].loader
                         /\ x # w.id => outcome'[x] = outcome[x]
      /\ outcome'[w.id].issued = lastLoader
  BY <1>1, <1>5, <1>6 DEF NavInv, Outcome, Hows
<1>8. ASSUME NEW v, Watched(v)
      PROVE  /\ WatchedNext(v) /\ outcome'[v.id].queued = outcome[v.id].queued
  BY <1>1, <1>7, <1>8 DEF Watched, WatchedNext, Watches, Watch
<1>9. CurrentInv'
  BY <1>1, <1>4, <1>7, <1>8 DEF CurrentInv, Watched, WatchedNext
<1>10. PendingInv'
  <2>. SUFFICES ASSUME NEW i \in 1..Len(Tail(pending))
                PROVE  /\ WatchedNext(Tail(pending)[i])
                       /\ outcome'[Tail(pending)[i].id].queued
    BY <1>1, <1>3 DEF PendingInv, Watched, WatchedNext
  <2>1. /\ Watched(pending[i + 1])
        /\ outcome[pending[i + 1].id].queued
    BY <1>3 DEF NavInv, PendingInv
  <2>. QED BY <1>3, <1>8, <2>1
<1>11. GotoWaitsForItsDocument'
  <2>. SUFFICES ASSUME NEW m \in Navs, outcome'[m].how = "loaded",
                       ~outcome'[m].queued
                PROVE  outcome'[m].loader > outcome'[m].issued
    BY DEF GotoWaitsForItsDocument
  <2>1. outcome[m].how = "loaded" /\ ~outcome[m].queued
    BY <1>7, Zenon
  <2>2. m # w.id
    BY <1>4, <2>1
  <2>3. outcome[m].loader > outcome[m].issued
    BY <2>1 DEF NavInv, GotoWaitsForItsDocument
  <2>4. outcome'[m] = outcome[m]
    BY <1>7, <2>2
  <2>. QED BY <2>3, <2>4
<1>. QED BY <1>2, <1>7, <1>9, <1>10, <1>11 DEF NavInv

LEMMA ResultKeepsNavs ==
    ASSUME ContextsInv, NavInv, PollResult
    PROVE  NavInv'
<1>. DEFINE n == navigation.id
            doc == frames[mainFrame].loader
<1>1. /\ navigation # None /\ navigation' = None
      /\ UNCHANGED <<frames, mainFrame, renamed, lastLoader, pending>>
  BY DEF PollResult, tree
<1>2. NewestIsMain' /\ (renamed \cap Tracked = {})'
  BY <1>1 DEF NavInv, NewestIsMain, Tracked
<1>3. /\ navigation \in Watch /\ n \in Navs /\ navigation.frame \in FrameIds
      /\ navigation.frame \in renamed \cup {mainFrame}
      /\ navigation.loader <= lastLoader /\ navigation.loader \in Nat
      /\ ~outcome[n].queued => navigation.loader = outcome[n].issued
  BY <1>1 DEF NavInv, CurrentInv, Watched, Watches, Watch
<1>4. PICK how \in Hows :
        /\ outcome' = [outcome EXCEPT ![n].how = how, ![n].loader = doc]
        /\ how # "new"
        /\ how = "loaded" => navigation.frame \in Tracked
                             /\ frames[navigation.frame].loader
                                   # navigation.loader
  <2>. DEFINE Out(how) == [outcome EXCEPT ![n].how = how, ![n].loader = doc]
  <2>1. CASE outcome' = Out("timeout")
    BY <2>1 DEF Hows
  <2>2. CASE outcome' = Out("no frame")
    BY <2>2 DEF Hows
  <2>3. CASE /\ navigation.frame \in Tracked /\ Complete(navigation)
             /\ outcome' = Out(IF navigation.same THEN "same" ELSE "loaded")
    <3>1. CASE navigation.same
      BY <2>3, <3>1 DEF Hows
    <3>2. CASE ~navigation.same
      BY <2>3, <3>2 DEF Complete, Hows
    <3>. QED BY <3>1, <3>2
  <2>. QED BY <2>1, <2>2, <2>3 DEF PollResult, Ends
<1>5. mainFrame # None /\ doc = lastLoader /\ lastLoader \in Nat
  <2>1. mainFrame # None
    <3>. SUFFICES ASSUME mainFrame = None  PROVE FALSE
      OBVIOUS
    <3>1. navigation.frame \in renamed
      BY <1>3, FrameAssumption
    <3>. QED BY <3>1 DEF NavInv, NewestIsMain
  <2>. QED BY <2>1 DEF NavInv, NewestIsMain, ContextsInv, TreeInv, FrameTypes
<1>6. how = "loaded" /\ ~outcome[n].queued => doc > outcome[n].issued
  <2>. SUFFICES ASSUME how = "loaded", ~outcome[n].queued
                PROVE  doc > outcome[n].issued
    OBVIOUS
  <2>1. navigation.frame = mainFrame
    BY <1>3, <1>4 DEF NavInv
  <2>. QED BY <1>3, <1>4, <1>5, <2>1
<1>. HIDE DEF n, doc
<1>7. /\ outcome' \in [Navs -> Outcome]
      /\ \A x \in Navs : /\ outcome'[x].queued = outcome[x].queued
                         /\ outcome'[x].issued = outcome[x].issued
                         /\ x # n => outcome'[x] = outcome[x]
      /\ outcome'[n].how = how /\ outcome'[n].loader = doc
  <2>. DEFINE o == [outcome[n] EXCEPT !.how = how, !.loader = doc]
  <2>1. outcome[n] \in Outcome
    BY <1>3 DEF NavInv
  <2>2. /\ o \in Outcome /\ o.how = how /\ o.loader = doc
        /\ o.queued = outcome[n].queued /\ o.issued = outcome[n].issued
    BY <1>5, <2>1 DEF Outcome, Hows
  <2>3. outcome' = [outcome EXCEPT ![n] = o]
    BY <1>4
  <2>. HIDE DEF o
  <2>. QED BY <1>3, <2>2, <2>3, OneOutcome DEF NavInv
<1>8. PendingInv'
  <2>. SUFFICES ASSUME NEW i \in 1..Len(pending)
                PROVE  /\ WatchedNext(pending[i])
                       /\ outcome'[pending[i].id].queued
    BY <1>1 DEF PendingInv, NavInv, Watched, WatchedNext
  <2>1. Watched(pending[i]) /\ outcome[pending[i].id].queued
    BY <1>1 DEF NavInv, PendingInv
  <2>. QED BY <1>1, <1>4, <1>7, <2>1 DEF Watched, WatchedNext, Watches, Watch
<1>9. CurrentInv'
  BY <1>1 DEF CurrentInv
<1>10. GotoWaitsForItsDocument'
  <2>. SUFFICES ASSUME NEW m \in Navs, outcome'[m].how = "loaded",
                       ~outcome'[m].queued
                PROVE  outcome'[m].loader > outcome'[m].issued
    BY DEF GotoWaitsForItsDocument
  <2>1. CASE m = n
    <3>1. how = "loaded" /\ ~outcome[n].queued
      BY <1>3, <1>7, <2>1, Zenon
    <3>2. outcome'[m].loader = doc /\ outcome'[m].issued = outcome[n].issued
      BY <1>3, <1>7, <2>1
    <3>. QED BY <1>6, <3>1, <3>2
  <2>2. CASE m # n
    <3>1. outcome'[m] = outcome[m]
      BY <1>7, <2>2
    <3>2. outcome[m].how = "loaded" /\ ~outcome[m].queued
      BY <3>1, Zenon
    <3>3. outcome[m].loader > outcome[m].issued
      BY <3>2 DEF NavInv, GotoWaitsForItsDocument
    <3>. QED BY <3>1, <3>3
  <2>. QED BY <2>1, <2>2
<1>. QED BY <1>2, <1>7, <1>8, <1>9, <1>10 DEF NavInv

FrameInv == ContextsInv /\ NavInv

LEMMA EventStep ==
    ASSUME FrameInv, ContextsInv', NEW f \in FrameIds, Polled,
           \/ FrameDetached(f) \/ ChildNavigated(f) \/ MainNavigated(f)
           \/ \E p \in FrameIds : FrameAttached(f, p)
    PROVE  NavInv'
<1>1. FrameTypes /\ FrameTree /\ NavInv /\ FrameTypes' /\ FrameTree'
  BY DEF FrameInv, ContextsInv, TreeInv
<1>2. UNCHANGED <<lastLoader, pending, navigation, outcome>>
  BY DEF FrameDetached, ChildNavigated, MainNavigated, FrameAttached, navs
<1>3. ASSUME UNCHANGED <<mainFrame, renamed>>,
             renamed \cap Tracked' = {},
             \A g \in Tracked : g \in Tracked' =>
                                 frames'[g].loader = frames[g].loader
      PROVE  NavInv'
  <2>1. NewestIsMain'
    BY <1>1, <1>2, <1>3 DEF NavInv, NewestIsMain, FrameTree
  <2>. QED BY <1>1, <1>2, <1>3, <2>1, EventKeepsNavs DEF FrameTypes
<1>4. CASE FrameDetached(f)
  <2>1. UNCHANGED <<mainFrame, renamed>>
    BY <1>4 DEF FrameDetached
  <2>2. \A g \in Tracked' : /\ g \in Tracked
                            /\ frames'[g].loader = frames[g].loader
    BY <1>4, DetachedContexts DEF FrameInv
  <2>. QED BY <1>1, <1>3, <2>1, <2>2 DEF NavInv
<1>5. CASE ChildNavigated(f)
  <2>1. UNCHANGED <<mainFrame, renamed>>
    BY <1>5 DEF ChildNavigated
  <2>2. \A g \in Tracked' : /\ g \in Tracked
                            /\ frames'[g].loader = frames[g].loader
    BY <1>5, ChildNavigatedContexts DEF FrameInv
  <2>. QED BY <1>1, <1>3, <2>1, <2>2 DEF NavInv
<1>6. ASSUME NEW p \in FrameIds, FrameAttached(f, p)  PROVE NavInv'
  <2>1. UNCHANGED <<mainFrame, renamed>> /\ f \notin Tracked \cup renamed
    BY <1>6 DEF FrameAttached
  <2>2. /\ Tracked' = Tracked \cup {f}
        /\ \A g \in Tracked : frames'[g] =
              IF g = p THEN [frames[g] EXCEPT !.children = @ \cup {f}]
              ELSE frames[g]
    BY <1>1, <1>6 DEF FrameAttached, With, Tracked, FrameTypes
  <2>3. \A g \in Tracked : frames'[g].loader = frames[g].loader
    BY <1>1, <2>2 DEF FrameTypes, Frame
  <2>. QED BY <1>1, <1>3, <2>1, <2>2, <2>3 DEF NavInv
<1>7. CASE MainNavigated(f)
  <2>1. f \notin renamed
        /\ renamed' = renamed \cup ({mainFrame} \ {None, f})
    BY <1>7 DEF MainNavigated
  <2>2. /\ Tracked' = {f} /\ mainFrame' = f
        /\ frames'[f].loader = IF mainFrame = None THEN 0
                               ELSE frames[mainFrame].loader
    BY <1>7, MainNavigatedStep DEF FrameInv, ContextsInv
  <2>3. NewestIsMain'
    BY <1>1, <1>2, <2>2, FrameAssumption DEF NavInv, NewestIsMain
  <2>4. renamed' \cap Tracked' = {}
    BY <2>1, <2>2
  <2>5. (renamed \cup {mainFrame}) \cap FrameIds
            \subseteq renamed' \cup {mainFrame'}
    BY <2>1, <2>2, FrameAssumption
  <2>. QED BY <1>1, <1>2, <2>3, <2>4, <2>5, EventKeepsNavs DEF FrameTypes
<1>. QED BY <1>4, <1>5, <1>6, <1>7

\* What leaves the tree alone and gives the main frame no other document
\* than the newest.
LEMMA QuietStep ==
    ASSUME FrameInv, ContextsInv', Polled, Keeps,
           lastLoader \in Nat, lastLoader' \in Nat, lastLoader <= lastLoader',
           \/ lastLoader' = lastLoader
              /\ \A g \in Tracked : frames'[g].loader = frames[g].loader
           \/ mainFrame \in Tracked
              /\ frames'[mainFrame].loader = lastLoader',
           UNCHANGED <<pending, outcome>>,
           \/ navigation' = navigation
           \/ navigation # None
              /\ navigation' = [navigation EXCEPT !.same = TRUE]
    PROVE  NavInv'
<1>1. NavInv /\ FrameTypes /\ FrameTree
      /\ Tracked' = Tracked /\ UNCHANGED <<mainFrame, renamed>>
  BY DEF FrameInv, ContextsInv, TreeInv, Keeps
<1>2. None \notin Tracked
  BY <1>1, FrameAssumption DEF FrameTypes
<1>3. NewestIsMain'
  BY <1>1, <1>2 DEF NavInv, NewestIsMain, FrameTree
<1>4. renamed' \cap Tracked' = {}
  BY <1>1 DEF NavInv
<1>. QED BY <1>1, <1>3, <1>4, EventKeepsNavs

LEMMA FrameStep == FrameInv /\ [FrameNext]_frameVars => FrameInv'
<1>. SUFFICES ASSUME FrameInv, [FrameNext]_frameVars  PROVE FrameInv'
  OBVIOUS
<1>0. /\ ContextsInv' /\ FrameTypes /\ TreeInv /\ lastLoader \in Nat
      /\ ContextsInv /\ NavInv
  BY ContextsStep DEF FrameInv, ContextsInv, TreeInv, FrameTypes
<1>. SUFFICES NavInv'
  BY <1>0 DEF FrameInv
<1>1. ASSUME NEW f \in FrameIds, Polled,
             \/ FrameDetached(f) \/ ChildNavigated(f) \/ MainNavigated(f)
             \/ \E p \in FrameIds : FrameAttached(f, p)
      PROVE  NavInv'
  BY <1>0, <1>1, EventStep
<1>2. ASSUME NEW f \in FrameIds, Polled, StartedLoading(f)  PROVE NavInv'
  <2>1. UNCHANGED <<lastLoader, pending, outcome, navigation>>
    BY <1>2 DEF StartedLoading, navs
  <2>2. Keeps /\ \A g \in Tracked : frames'[g].loader = frames[g].loader
    BY <1>0, <1>2, LoadingStep
  <2>. QED BY <1>0, <1>2, <2>1, <2>2, QuietStep
<1>3. ASSUME NEW f \in FrameIds, Polled, WithinDocument(f)  PROVE NavInv'
  <2>1. /\ UNCHANGED <<lastLoader, pending, outcome>>
        /\ \/ navigation' = navigation
           \/ navigation # None
              /\ navigation' = [navigation EXCEPT !.same = TRUE]
    BY <1>3 DEF WithinDocument
  <2>2. Keeps /\ \A g \in Tracked : frames'[g].loader = frames[g].loader
    BY <1>0, <1>3, WithinStep
  <2>. QED BY <1>0, <1>3, <2>1, <2>2, QuietStep
<1>4. ASSUME NEW f \in FrameIds, NEW name \in Milestones, Polled,
             Lifecycle(f, name)
      PROVE  NavInv'
  <2>1. UNCHANGED <<pending, outcome, navigation>>
    BY <1>4 DEF Lifecycle, navs
  <2>2. /\ Keeps /\ lastLoader' \in Nat /\ lastLoader <= lastLoader'
        /\ \/ mainFrame \in Tracked
              /\ frames'[mainFrame].loader = lastLoader'
           \/ lastLoader' = lastLoader
              /\ \A g \in Tracked : frames'[g].loader = frames[g].loader
    <3>1. lastLoader' = lastLoader + 1 => mainFrame \in Tracked
      BY <1>0, <1>4 DEF Lifecycle
    <3>. QED BY <1>0, <1>4, <3>1, LifecycleStep
  <2>. QED BY <1>0, <1>4, <2>1, <2>2, QuietStep
<1>5. ASSUME NEW f \in FrameIds, NEW ctx \in Contexts, NEW d \in BOOLEAN,
             Polled, ContextCreated(f, ctx, d)
      PROVE  NavInv'
  <2>1. UNCHANGED <<lastLoader, pending, outcome, navigation>>
    BY <1>5 DEF ContextCreated, navs
  <2>2. Keeps /\ \A g \in Tracked : frames'[g].loader = frames[g].loader
    BY <1>0, <1>5, CreatedStep
  <2>. QED BY <1>0, <1>5, <2>1, <2>2, QuietStep
<1>6. ASSUME NEW G, NEW gone, Polled,
             frames' = [f \in Tracked |->
                  IF f \in G THEN Forget(frames[f], gone) ELSE frames[f]],
             UNCHANGED <<mainFrame, renamed, lastLoader,
                         pending, outcome, navigation>>
      PROVE  NavInv'
  <2>1. Keeps /\ \A g \in Tracked : frames'[g].loader = frames[g].loader
    BY <1>0, <1>6, ForgetStep
  <2>. QED BY <1>0, <1>6, <2>1, QuietStep
<1>7. ASSUME NEW ctx \in Contexts, Polled, ContextDestroyed(ctx)
      PROVE  NavInv'
  <2>1. /\ frames' = [f \in Tracked |-> IF f \in {contextIds[ctx]}
                                        THEN Forget(frames[f], {ctx})
                                        ELSE frames[f]]
        /\ UNCHANGED <<mainFrame, renamed, lastLoader,
                       pending, outcome, navigation>>
    BY <1>7 DEF ContextDestroyed, navs
  <2>. QED BY <1>6, <1>7, <2>1
<1>8. CASE Polled /\ ContextsCleared
  <2>. DEFINE G == {f \in Tracked : \E ctx \in DOMAIN contextIds :
                                        contextIds[ctx] = f}
  <2>1. /\ frames' = [f \in Tracked |-> IF f \in G
                                        THEN Forget(frames[f], Contexts)
                                        ELSE frames[f]]
        /\ UNCHANGED <<mainFrame, renamed, lastLoader,
                       pending, outcome, navigation>>
    BY <1>8 DEF ContextsCleared, navs
  <2>. HIDE DEF G
  <2>. QED BY <1>6, <1>8, <2>1
<1>9. ASSUME NEW n \in Navs, Polled, Goto(n)  PROVE NavInv'
  BY <1>0, <1>9, GotoKeepsNavs
<1>10. CASE PollRequest
  BY <1>0, <1>10, RequestKeepsNavs
<1>11. CASE PollResult
  BY <1>0, <1>11, ResultKeepsNavs
<1>12. CASE UNCHANGED frameVars
  BY <1>0, <1>12 DEF frameVars, tree, worlds, navs, NavInv, NewestIsMain,
        PendingInv, CurrentInv, Watched, Watches, Tracked,
        GotoWaitsForItsDocument
<1>. QED BY <1>1, <1>2, <1>3, <1>4, <1>5, <1>7, <1>8, <1>9, <1>10, <1>11,
            <1>12 DEF FrameNext, Milestones

LEMMA FramesInvariant == FrameSpec => []FrameInv
<1>1. FrameInit => FrameInv
  BY ContextsInit, NavInit DEF FrameInv
<1>. QED BY <1>1, FrameStep, PTL DEF FrameSpec

\* Frames form one tree under the main frame, whatever is attached, detached
\* and navigated.
THEOREM FramesFormATree == FrameSpec => []FrameTree
<1>1. FrameInv => FrameTree
  BY DEF FrameInv, ContextsInv, TreeInv
<1>. QED BY <1>1, FramesInvariant, PTL

\* No frame holds a context that its destruction would not find.
THEOREM ContextsDie == FrameSpec => []ContextsForgotten
<1>1. FrameInv => ContextsForgotten
  BY DEF FrameInv, ContextsInv
<1>. QED BY <1>1, FramesInvariant, PTL
\* Whatever navigates, and however often: a goto that did not have to wait
\* its turn is never reported as loaded on the document it found.
THEOREM GotosSeeTheirDocument == FrameSpec => []GotoWaitsForItsDocument
<1>1. FrameInv => GotoWaitsForItsDocument
  BY DEF FrameInv, NavInv
<1>. QED BY <1>1, FramesInvariant, PTL
=============================================================================
