--------------------------- MODULE LoginLifecycle ---------------------------
(***************************************************************************)
(* What the tables promise about one login, whatever happens to the task   *)
(* that runs it: the life of its session row, and when its cookies may     *)
(* enter the jar of its platform.  Module Login implements it.             *)
(***************************************************************************)
CONSTANTS Logins, Platforms

VARIABLES platform, \* the platform of each login
          phase,    \* where each login's row stands
          jar       \* per platform, the logins whose cookies are stored

vars == <<platform, phase, jar>>

\* "stale": the row says the login is going on, and the task has given up.
Present == {"open", "stale", "connected", "failed"}
Phase == Present \cup {"none", "deleted"}

Init ==
    /\ platform \in [Logins -> Platforms]
    /\ phase = [l \in Logins |-> "none"]
    /\ jar = [p \in Platforms |-> {}]

Move(l, from, to) ==
    /\ phase[l] \in from
    /\ phase' = [phase EXCEPT ![l] = to]

\* The row of a new session is stored, in time or after the task gave up.
Begin(l) ==
    /\ \/ Move(l, {"none"}, "open")
       \/ Move(l, {"none"}, "stale")
    /\ UNCHANGED <<platform, jar>>

GiveUp(l) == Move(l, {"open"}, "stale") /\ UNCHANGED <<platform, jar>>

\* The only step that stores cookies stores the outcome with them.
Connect(l) ==
    /\ Move(l, {"open"}, "connected")
    /\ jar' = [jar EXCEPT ![platform[l]] = @ \cup {l}]
    /\ UNCHANGED platform

\* A login that connected can still be marked failed, keeping its cookies.
Fail(l) ==
    /\ Move(l, {"open", "stale", "connected"}, "failed")
    /\ UNCHANGED <<platform, jar>>

\* A status written late hides that the login failed; it never revives it.
Relapse(l) ==
    /\ Move(l, {"failed"}, "stale")
    /\ UNCHANGED <<platform, jar>>

Delete(l) == Move(l, Present, "deleted") /\ UNCHANGED <<platform, jar>>

Next == \E l \in Logins :
    \/ Begin(l) \/ GiveUp(l) \/ Connect(l) \/ Fail(l) \/ Relapse(l) \/ Delete(l)

Spec == Init /\ [][Next]_vars
=============================================================================
