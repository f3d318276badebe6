---------------------------- MODULE FrameManager ----------------------------
(***************************************************************************)
(* What the driver knows of the frames of one page (handler/frame.rs): the *)
(* frame tree, the JavaScript contexts of each frame's two worlds, and the *)
(* navigations asked for, each watched until its frame has loaded.         *)
(*                                                                         *)
(* One action per CDP event, in any order Chrome may send them, and one    *)
(* per result of FrameManager::poll.  Chrome never detaches the main frame *)
(* (on_frame_navigated expects to find it), gives every document a new     *)
(* loader (only the main frame's is ever compared), and does not use the   *)
(* id of a former main frame again.                                        *)
(***************************************************************************)
EXTENDS Naturals, Sequences, FiniteSets

CONSTANTS FrameIds,
          Contexts,  \* unique ids of execution contexts
          Navs,      \* navigation ids, each asked for once
          None,
          MaxLoader  \* bound on the documents of the main frame

ASSUME FrameAssumption == None \notin FrameIds \cup Contexts

VARIABLES frames,     \* the tracked frames, by id
          mainFrame,
          renamed,    \* ids the main frame had before
          contextIds, \* the frame of each live context
          used,       \* contexts there have been
          lastLoader, \* the newest document of the main frame
          pending,    \* navigations waiting for their turn, oldest first
          navigation, \* the watcher of the current one, or None
          outcome     \* per navigation: how it ended, and on which document

tree == <<frames, mainFrame, renamed>>
worlds == <<contextIds, used>>
navs == <<pending, navigation, outcome>>
frameVars == <<tree, worlds, lastLoader, navs>>

Tracked == DOMAIN frames
NewFrame(parent) ==
    [parent |-> parent, children |-> {}, url |-> FALSE, loader |-> 0,
     events |-> {}, main |-> None, secondary |-> None]

FrameInit ==
    /\ frames = << >>
    /\ mainFrame = None
    /\ renamed = {}
    /\ contextIds = << >>
    /\ used = {}
    /\ lastLoader = 0
    /\ pending = << >>
    /\ navigation = None
    /\ outcome = [n \in Navs |-> [how |-> "new", queued |-> FALSE,
                                 issued |-> 0, loader |-> 0]]

-----------------------------------------------------------------------------
(* The frame tree.                                                         *)

\* f and the tracked frames below it.
Subtree(fr, f) ==
    {g \in DOMAIN fr :
        \A S \in SUBSET DOMAIN fr :
            (f \in S /\ \A h \in S : fr[h].children \cap DOMAIN fr \subseteq S)
                => g \in S}

Without(fr, ids) == [g \in DOMAIN fr \ ids |-> fr[g]]

\* Fault: the parent still lists a frame that was removed.
Fault_RemoveOnly(fr, roots) ==
    Without(fr, UNION {Subtree(fr, r) : r \in roots \cap DOMAIN fr})

\* remove_frames_recursively: every frame removed leaves its parent's list.
RemoveFrames(fr, roots) ==
    LET gone == UNION {Subtree(fr, r) : r \in roots \cap DOMAIN fr} IN
    [g \in DOMAIN fr \ gone |->
        [fr[g] EXCEPT !.children = @ \ {h \in gone : fr[h].parent = g}]]

With(fr, f, frame) ==
    [g \in DOMAIN fr \cup {f} |-> IF g = f THEN frame ELSE fr[g]]

FrameAttached(f, parent) ==
    /\ f \notin Tracked \cup renamed /\ parent \in Tracked
    /\ frames' = With([frames EXCEPT ![parent].children = @ \cup {f}],
                      f, NewFrame(parent))
    /\ UNCHANGED <<mainFrame, renamed, worlds, lastLoader, navs>>

FrameDetached(f) ==
    /\ f \in Tracked \ {mainFrame}
    /\ frames' = RemoveFrames(frames, {f})
    /\ UNCHANGED <<mainFrame, renamed, worlds, lastLoader, navs>>

\* A new document in a child frame: its own children are gone.
ChildNavigated(f) ==
    /\ f \in Tracked \ {mainFrame}
    /\ LET rest == RemoveFrames(Without(frames, {f}), frames[f].children) IN
       frames' = With(rest, f, [frames[f] EXCEPT !.children = {},
                                                 !.url = TRUE])
    /\ UNCHANGED <<mainFrame, renamed, worlds, lastLoader, navs>>

\* The frame tree of the start, or a new document in the main frame, which
\* may come under another id.
MainNavigated(f) ==
    /\ f \notin (Tracked \ {mainFrame}) \cup renamed
    /\ LET old == IF mainFrame = None THEN NewFrame(None)
                  ELSE frames[mainFrame]
           rest == RemoveFrames(Without(frames, {mainFrame}), old.children) IN
       frames' = With(rest, f, [old EXCEPT !.children = {}, !.url = TRUE])
    /\ mainFrame' = f
    /\ renamed' = renamed \cup ({mainFrame} \ {None, f})
    /\ UNCHANGED <<worlds, lastLoader, navs>>

StartedLoading(f) ==
    /\ f \in Tracked
    /\ frames' = [frames EXCEPT ![f].events = {}]
    /\ UNCHANGED <<mainFrame, renamed, worlds, lastLoader, navs>>

\* on_page_lifecycle_event: "init" begins a document, the others come in order.
Lifecycle(f, name) ==
    /\ f \in Tracked
    /\ \/ /\ name = "init"
          /\ IF f = mainFrame
             THEN /\ lastLoader < MaxLoader
                  /\ lastLoader' = lastLoader + 1
                  /\ frames' = [frames EXCEPT ![f].loader = lastLoader + 1,
                                              ![f].events = {}]
             ELSE /\ frames' = [frames EXCEPT ![f].events = {}]
                  /\ UNCHANGED lastLoader
       \/ /\ \/ name = "DOMContentLoaded"
             \/ name = "load" /\ "DOMContentLoaded" \in frames[f].events
          /\ frames' = [frames EXCEPT ![f].events = @ \cup {name}]
          /\ UNCHANGED lastLoader
    /\ UNCHANGED <<mainFrame, renamed, worlds, navs>>

-----------------------------------------------------------------------------
(* Execution contexts.                                                     *)

\* The default context replaces the main world's; the utility world keeps
\* the first context it got.
ContextCreated(f, ctx, isDefault) ==
    /\ f \in Tracked /\ ctx \notin used
    /\ frames' = [frames EXCEPT
            ![f].main = IF isDefault THEN ctx ELSE @,
            ![f].secondary = IF ~isDefault /\ @ = None THEN ctx ELSE @]
    /\ contextIds' = With(contextIds, ctx, f)
    /\ used' = used \cup {ctx}
    /\ UNCHANGED <<mainFrame, renamed, lastLoader, navs>>

\* Fault: only the main world is looked at.
Fault_ForgetMain(frame, gone) ==
    [frame EXCEPT !.main = IF @ \in gone THEN None ELSE @]

\* destroy_context, clear_contexts.
Forget(frame, gone) ==
    [frame EXCEPT !.main = IF @ \in gone THEN None ELSE @,
                  !.secondary = IF @ \in gone THEN None ELSE @]

ContextDestroyed(ctx) ==
    /\ ctx \in DOMAIN contextIds
    /\ contextIds' = Without(contextIds, {ctx})
    /\ frames' = [f \in Tracked |->
            IF contextIds[ctx] = f THEN Forget(frames[f], {ctx})
            ELSE frames[f]]
    /\ UNCHANGED <<mainFrame, renamed, used, lastLoader, navs>>

ContextsCleared ==
    /\ frames' = [f \in Tracked |->
            IF \E ctx \in DOMAIN contextIds : contextIds[ctx] = f
            THEN Forget(frames[f], Contexts) ELSE frames[f]]
    /\ contextIds' = << >>
    /\ UNCHANGED <<mainFrame, renamed, used, lastLoader, navs>>

-----------------------------------------------------------------------------
(* Navigations.                                                            *)

Ends(n, how) ==
    outcome' = [outcome EXCEPT ![n].how = how,
                               ![n].loader = frames[mainFrame].loader]

\* goto: without a main frame the request is dropped; the watcher remembers
\* the document the frame has now.
Goto(n) ==
    /\ outcome[n].how = "new"
    /\ IF mainFrame = None
       THEN /\ outcome' = [outcome EXCEPT ![n].how = "dropped"]
            /\ UNCHANGED pending
       ELSE /\ outcome' = [outcome EXCEPT ![n].how = "asked",
                                       ![n].queued = navigation # None]
            /\ pending' = Append(pending,
                    [id |-> n, frame |-> mainFrame, same |-> FALSE,
                     loader |-> frames[mainFrame].loader])
    /\ UNCHANGED <<tree, worlds, lastLoader, navigation>>

WithinDocument(f) ==
    /\ f \in Tracked
    /\ frames' = [frames EXCEPT ![f].url = TRUE]
    /\ navigation' = IF navigation # None /\ navigation.frame = f
                     THEN [navigation EXCEPT !.same = TRUE] ELSE navigation
    /\ UNCHANGED <<mainFrame, renamed, worlds, lastLoader, pending, outcome>>

\* check_lifecycle: the frame and all frames below it have loaded.
LifecycleReached(f) ==
    \A g \in Subtree(frames, f) :
        \/ "load" \in frames[g].events
        \/ ~frames[g].url /\ "DOMContentLoaded" \in frames[g].events

\* Fault: the document the frame already had will do.
Fault_AnyDocument(w) == LifecycleReached(w.frame)

\* check_lifecycle_complete.
Complete(w) ==
    /\ LifecycleReached(w.frame)
    /\ w.same \/ frames[w.frame].loader # w.loader

\* poll takes the next request out of the queue...
PollRequest ==
    /\ navigation = None /\ pending # << >>
    /\ navigation' = Head(pending)
    /\ pending' = Tail(pending)
    /\ outcome' = [outcome EXCEPT ![Head(pending).id].issued =
                                    frames[mainFrame].loader]
    /\ UNCHANGED <<tree, worlds, lastLoader>>

\* ...or reports the current one: loaded, its frame gone, or out of time.
PollResult ==
    /\ navigation # None
    /\ \/ Ends(navigation.id, "timeout")
       \/ navigation.frame \notin Tracked /\ Ends(navigation.id, "no frame")
       \/ /\ navigation.frame \in Tracked /\ Complete(navigation)
          /\ Ends(navigation.id, IF navigation.same THEN "same" ELSE "loaded")
    /\ navigation' = None
    /\ UNCHANGED <<tree, worlds, lastLoader, pending>>

\* The target polls until nothing is left to report, so that no event comes
\* between a goto, or a result, and the request that follows it.
Polled == navigation # None \/ pending = << >>

FrameNext ==
    \/ \E f \in FrameIds :
        \/ \E p \in FrameIds : Polled /\ FrameAttached(f, p)
        \/ Polled /\ FrameDetached(f)
        \/ Polled /\ ChildNavigated(f)
        \/ Polled /\ MainNavigated(f)
        \/ Polled /\ StartedLoading(f)
        \/ Polled /\ WithinDocument(f)
        \/ \E name \in {"init", "DOMContentLoaded", "load"} :
            Polled /\ Lifecycle(f, name)
        \/ \E ctx \in Contexts, d \in BOOLEAN :
            Polled /\ ContextCreated(f, ctx, d)
    \/ \E ctx \in Contexts : Polled /\ ContextDestroyed(ctx)
    \/ Polled /\ ContextsCleared
    \/ \E n \in Navs : Polled /\ Goto(n)
    \/ PollRequest
    \/ PollResult

FrameSpec == FrameInit /\ [][FrameNext]_frameVars

-----------------------------------------------------------------------------
(* Properties.                                                             *)

\* The frames form one tree: a frame and its parent know of each other, and
\* the main frame alone has no parent; whatever comes, goes and navigates.
FrameTree ==
    /\ mainFrame # None => mainFrame \in Tracked
    /\ \A f \in Tracked :
        /\ frames[f].parent = None <=> f = mainFrame
        /\ f # mainFrame => /\ frames[f].parent \in Tracked
                            /\ f \in frames[frames[f].parent].children
        /\ \A c \in frames[f].children :
            c \in Tracked /\ frames[c].parent = f

\* A context that is gone is used no more: whatever context a world of a
\* frame has is one that its destruction will find there.  A main frame that
\* was given another id is the exception: its contexts stay filed under the
\* old one.
ContextsForgotten ==
    \A f \in Tracked : \A ctx \in {frames[f].main, frames[f].secondary} :
        \/ ctx = None
        \/ ctx \in DOMAIN contextIds /\ contextIds[ctx] = f
        \/ f = mainFrame /\ renamed # {}

\* "Tracks the progress of an issued Page.navigate request until completion":
\* the document a goto reports as loaded is newer than the one the page had
\* when the command was sent; but for a goto that had to wait its turn, which
\* still remembers the document the page had when it was submitted.
GotoWaitsForItsDocument ==
    \A n \in Navs : outcome[n].how = "loaded" /\ ~outcome[n].queued =>
        outcome[n].loader > outcome[n].issued
=============================================================================
