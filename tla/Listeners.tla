----------------------------- MODULE Listeners -----------------------------
(***************************************************************************)
(* Event subscriptions (listeners.rs): the handler, and each target, keep  *)
(* per method the listeners of that method and what is queued for each; a  *)
(* pass moves the queues to the channels of the subscribers, who read them *)
(* in tasks of their own and may go away at any time, also during a pass.  *)
(*                                                                         *)
(* This is one method.  Either the protocol knows it, and its events have  *)
(* the one type "builtin", or it is a custom method, whose JSON is decoded *)
(* to the type the first custom listener asks for.  An event is            *)
(* [no, type], of the number it was sent under.                            *)
(***************************************************************************)
EXTENDS Naturals, Sequences

CONSTANTS Subscribers, CustomTypes, MaxEvents

ASSUME ListenersAssumption ==
    /\ "builtin" \notin CustomTypes
    /\ MaxEvents \in Nat

VARIABLES known,   \* the protocol knows the method
          subs,    \* the Vec: [id, queue] per listener
          turn,    \* the index the pass is at, 0 between passes
          channel, \* what is in the channel of each subscriber
          reader,  \* [type, state, got, due]: the events it has been given,
                   \* and the numbers of all it was to be given
          sent     \* events so far

listenerVars == <<known, subs, turn, channel, reader, sent>>

Types == CustomTypes \cup {"builtin"}
Ids == {subs[i].id : i \in DOMAIN subs}

ListenersInit ==
    /\ known \in BOOLEAN
    /\ subs = << >> /\ turn = 0 /\ sent = 0
    /\ channel = [r \in Subscribers |-> << >>]
    /\ reader = [r \in Subscribers |-> [type |-> "builtin", state |-> "none",
                                        got |-> << >>, due |-> {}]]

\* event_listener::<T>() and add_listener; a builtin type is known.
AddListener(r, type) ==
    /\ turn = 0 /\ reader[r].state = "none"
    /\ type = "builtin" => known
    /\ subs' = Append(subs, [id |-> r, queue |-> << >>])
    /\ reader' = [reader EXCEPT ![r].type = type, ![r].state = "open"]
    /\ UNCHANGED <<known, turn, channel, sent>>

\* Queue event for the listeners of the Vec that pass Test; it is due to
\* those who asked for its type.
Send(event, Test(_)) ==
    /\ sent' = sent + 1
    /\ subs' = [i \in DOMAIN subs |->
                   IF Test(subs[i].id)
                   THEN [subs[i] EXCEPT !.queue = Append(@, event)]
                   ELSE subs[i]]
    /\ reader' = [r \in Subscribers |->
                     IF r \in Ids /\ Test(r) /\ reader[r].type = event.type
                     THEN [reader[r] EXCEPT !.due = @ \cup {event.no}]
                     ELSE reader[r]]
    /\ UNCHANGED <<known, turn, channel>>

\* An event of a known method goes to every listener of the method.
StartSend ==
    /\ known /\ turn = 0 /\ sent < MaxEvents
    /\ Send([no |-> sent + 1, type |-> "builtin"], LAMBDA r : TRUE)

Custom(i) == reader[subs[i].id].type # "builtin"

\* Any other is decoded once, for the first custom listener there is, and
\* goes to all custom listeners; one that does not decode goes to nobody.
TrySendCustom ==
    /\ ~known /\ turn = 0 /\ sent < MaxEvents
    /\ \/ \E i \in DOMAIN subs :
              /\ Custom(i) /\ \A j \in DOMAIN subs : j < i => ~Custom(j)
              /\ Send([no |-> sent + 1, type |-> reader[subs[i].id].type],
                      LAMBDA r : reader[r].type # "builtin")
       \/ sent' = sent + 1 /\ UNCHANGED <<known, subs, turn, channel, reader>>

\* poll() goes over the Vec from its end, so that swap_remove(n), which puts
\* the last listener in place of the nth, takes none twice.
StartPass ==
    /\ turn = 0 /\ subs # << >>
    /\ turn' = Len(subs)
    /\ UNCHANGED <<known, subs, channel, reader, sent>>

SwapRemove(s, n) == SubSeq([s EXCEPT ![n] = s[Len(s)]], 1, Len(s) - 1)

\* Drain a listener's queue and push it back, unless its subscriber is gone.
DrainListener(n) ==
    LET sub == subs[n] IN
    IF reader[sub.id].state = "dropped"
    THEN subs' = SwapRemove(subs, n) /\ UNCHANGED channel
    ELSE /\ subs' = Append(SwapRemove(subs, n), [sub EXCEPT !.queue = << >>])
         /\ channel' = [channel EXCEPT ![sub.id] = @ \o sub.queue]

\* Fault: the Vec is gone over from its start.
Fault_PollForwards ==
    /\ turn > 0
    /\ LET n == Len(subs) - turn + 1 IN
       IF n \in DOMAIN subs THEN DrainListener(n) ELSE UNCHANGED <<subs, channel>>
    /\ turn' = turn - 1
    /\ UNCHANGED <<known, reader, sent>>

PollListener ==
    /\ turn > 0
    /\ DrainListener(turn)
    /\ turn' = turn - 1
    /\ UNCHANGED <<known, reader, sent>>

\* EventStream::poll_next.  An event of another type is thrown away, and the
\* task sleeps though nothing is registered to wake it: it is stuck.
PollNext(r) ==
    /\ reader[r].state = "open" /\ channel[r] # << >>
    /\ channel' = [channel EXCEPT ![r] = Tail(@)]
    /\ reader' = IF channel[r][1].type = reader[r].type
                 THEN [reader EXCEPT ![r].got = Append(@, channel[r][1])]
                 ELSE [reader EXCEPT ![r].state = "stuck"]
    /\ UNCHANGED <<known, subs, turn, sent>>

\* The task is polled again for a reason of its own.
Repoll(r) ==
    /\ reader[r].state = "stuck"
    /\ reader' = [reader EXCEPT ![r].state = "open"]
    /\ UNCHANGED <<known, subs, turn, channel, sent>>

DropStream(r) ==
    /\ reader[r].state \in {"open", "stuck"}
    /\ reader' = [reader EXCEPT ![r].state = "dropped"]
    /\ channel' = [channel EXCEPT ![r] = << >>]
    /\ UNCHANGED <<known, subs, turn, sent>>

ListenersNext ==
    \/ StartSend \/ TrySendCustom \/ StartPass \/ PollListener
    \/ \E r \in Subscribers :
          \/ \E type \in Types : AddListener(r, type)
          \/ PollNext(r) \/ Repoll(r) \/ DropStream(r)

-----------------------------------------------------------------------------
ListenersSpec == ListenersInit /\ [][ListenersNext]_listenerVars

\* What r has been given, what is in its channel, and what is queued.
OnItsWay(r, queue) == reader[r].got \o channel[r] \o queue

\* Of its type, each once and in order.
Delivers(r, events) ==
    /\ \A m, n \in DOMAIN events : m < n => events[m].no < events[n].no
    /\ reader[r].due = {events[n].no :
          n \in {n \in DOMAIN events : events[n].type = reader[r].type}}

AllServed ==
    \A r \in Subscribers : reader[r].state \in {"open", "stuck"} =>
        \E i \in DOMAIN subs :
            /\ \A j \in DOMAIN subs : subs[j].id = r <=> j = i
            /\ Delivers(r, OnItsWay(r, subs[i].queue))

PassDrains ==
    turn = 1 /\ turn' = 0 => \A i \in DOMAIN subs' : subs'[i].queue = << >>

\* Whatever subscribers come and go, also during a pass, a subscriber gets
\* the events of its type sent since it subscribed, each once and in order,
\* and a pass leaves nothing queued for any listener it found.
EachGetsItsEvents == [][AllServed /\ PassDrains]_listenerVars
=============================================================================
