--------------------------------- MODULE Jar ---------------------------------
(***************************************************************************)
(* What the cookie store promises.  It changes only when a batch of        *)
(* cookies is written, all at once.  A call says which parts of the store  *)
(* it wants; it looks at each part once, at all of it at one moment; and   *)
(* it answers when no part is left, with everything it has seen.           *)
(***************************************************************************)
CONSTANTS Slots,  \* places for a cookie: platform, name and domain
          Calls,
          Parts,  \* what a call may want: records whose .slots are Slots
          Held,   \* what a slot can hold, Absent included
          Writes, \* the batches: functions from some of the slots
          Absent

VARIABLES content, \* what each slot holds
          call     \* of each call, its stage, the parts left, what it has
                   \* seen and what it has answered

vars == <<content, call>>

Nothing == [s \in Slots |-> Absent]
At(stage, left, view, answer) ==
    [stage |-> stage, left |-> left, view |-> view, answer |-> answer]
New == At("new", {}, Nothing, Nothing)

Init ==
    /\ content \in [Slots -> Held]
    /\ call = [c \in Calls |-> New]

Write(batch) ==
    /\ content' = [s \in Slots |-> IF s \in DOMAIN batch THEN batch[s]
                                   ELSE content[s]]
    /\ UNCHANGED call

Ask(c, parts) ==
    /\ call[c] = New
    /\ call' = [call EXCEPT ![c] = At("asked", parts, Nothing, Nothing)]
    /\ UNCHANGED content

Look(c, part) ==
    /\ call[c].stage = "asked" /\ part \in call[c].left
    /\ LET view == [s \in Slots |-> IF s \in part.slots THEN content[s]
                                    ELSE call[c].view[s]]
       IN  call' = [call EXCEPT
                ![c] = At("asked", call[c].left \ {part}, view, Nothing)]
    /\ UNCHANGED content

Reply(c) ==
    /\ call[c].stage = "asked" /\ call[c].left = {}
    /\ call' = [call EXCEPT
            ![c] = At("answered", {}, call[c].view, call[c].view)]
    /\ UNCHANGED content

\* Calls fail, and have nothing to answer.
Fail(C) ==
    /\ \A c \in C : call[c].stage \in {"new", "asked"}
    /\ call' = [c \in Calls |-> IF c \in C
                                THEN At("failed", {}, Nothing, Nothing)
                                ELSE call[c]]
    /\ UNCHANGED content

Next ==
    \/ \E batch \in Writes : Write(batch)
    \/ \E C \in SUBSET Calls : Fail(C)
    \/ \E c \in Calls :
        \/ \E parts \in SUBSET Parts : Ask(c, parts)
        \/ \E part \in call[c].left : Look(c, part)
        \/ Reply(c)

Spec == Init /\ [][Next]_vars
=============================================================================
