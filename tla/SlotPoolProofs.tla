--------------------------- MODULE SlotPoolProofs ---------------------------
(***************************************************************************)
(* Proofs about SlotPool, for any number of logins and slots.              *)
(*                                                                         *)
(* The invariant adds to the properties what links the three views of a    *)
(* slot: a login that uses a slot has its permit (HoldersHavePermit), and  *)
(* a queued future belongs to a login that waits, has no permit of that    *)
(* slot, and is queued once (QueuedWait, QueuedOnce).  All that changes    *)
(* permits other than a scan is Keep, so its effect is one lemma.          *)
(***************************************************************************)
EXTENDS SlotPool, TLAPS

HoldersHavePermit ==
    \A u \in Users : at[u] \in Using => slot[u] \in Slots /\ permit[slot[u]] = u

QueuedWait ==
    \A s \in Slots : \A i \in DOMAIN queue[s] :
        /\ at[queue[s][i]] = "wait"
        /\ s \in busy[queue[s][i]]
        /\ permit[s] # queue[s][i]

QueuedOnce ==
    \A s \in Slots : \A i, j \in DOMAIN queue[s] :
        queue[s][i] = queue[s][j] => i = j

IInv ==
    /\ TypeOK
    /\ HoldersHavePermit
    /\ NoPermitLost
    /\ QueuedWait
    /\ QueuedOnce
    /\ NoLostWakeup

-----------------------------------------------------------------------------
(* Queues.                                                                 *)

\* What is left of a queue: the other logins, once each, in the same order.
LEMMA WithoutOne ==
    ASSUME NEW u \in Users, NEW s \in Slots, queue[s] \in Seq(Users),
           \A i, j \in DOMAIN queue[s] : queue[s][i] = queue[s][j] => i = j
    PROVE  /\ Without(u, s) \in Seq(Users)
           /\ \A i \in DOMAIN Without(u, s) : Without(u, s)[i] # u
           /\ \A i \in DOMAIN Without(u, s) :
                \E j \in DOMAIN queue[s] : Without(u, s)[i] = queue[s][j]
           /\ \A i, j \in DOMAIN Without(u, s) :
                Without(u, s)[i] = Without(u, s)[j] => i = j
           /\ ~Waits(u, s) => Without(u, s) = queue[s]
<1>1. CASE ~Waits(u, s)
  <2>1. Without(u, s) = queue[s]
    BY <1>1 DEF Without
  <2>. QED BY <1>1, <2>1 DEF Waits
<1>2. CASE Waits(u, s)
  <2>. DEFINE q == queue[s]
              k == CHOOSE i \in DOMAIN q : q[i] = u
              rest == [i \in 1 .. Len(q) - 1 |-> IF i < k THEN q[i] ELSE q[i + 1]]
  <2>1. k \in 1 .. Len(q) /\ q[k] = u
    BY <1>2 DEF Waits
  <2>2. Without(u, s) = rest
    BY <1>2 DEF Without
  <2>3. Len(q) \in Nat /\ \A i \in 1 .. Len(q) : q[i] \in Users
    OBVIOUS
  <2>. HIDE DEF k
  <2>4. rest \in [1 .. Len(q) - 1 -> Users]
    BY <2>1, <2>3
  <2>5. rest \in Seq(Users) /\ Len(rest) = Len(q) - 1
    BY <2>1, <2>3, <2>4
  <2>6. ASSUME NEW i \in DOMAIN rest
        PROVE  \E j \in DOMAIN q : rest[i] = q[j] /\ j # k
               /\ j = (IF i < k THEN i ELSE i + 1)
    <3>1. i \in 1 .. Len(q) - 1 /\ DOMAIN q = 1 .. Len(q)
      BY <2>3
    <3>2. CASE i < k
      <4>1. i \in 1 .. Len(q) /\ i # k /\ rest[i] = q[i]
        BY <2>1, <2>3, <3>1, <3>2
      <4>. QED BY <3>1, <3>2, <4>1
    <3>3. CASE ~(i < k)
      <4>1. i + 1 \in 1 .. Len(q) /\ i + 1 # k /\ rest[i] = q[i + 1]
        BY <2>1, <2>3, <3>1, <3>3
      <4>. QED BY <3>1, <3>3, <4>1
    <3>. QED BY <3>2, <3>3
  <2>7. \A i \in DOMAIN rest : rest[i] # u
    BY <2>1, <2>6
  <2>8. \A i, j \in DOMAIN rest : rest[i] = rest[j] => i = j
    <3>. SUFFICES ASSUME NEW i \in DOMAIN rest, NEW j \in DOMAIN rest, rest[i] = rest[j]
                  PROVE  i = j
      OBVIOUS
    <3>1. PICK a \in DOMAIN q : rest[i] = q[a] /\ a = (IF i < k THEN i ELSE i + 1)
      BY <2>6
    <3>2. PICK b \in DOMAIN q : rest[j] = q[b] /\ b = (IF j < k THEN j ELSE j + 1)
      BY <2>6
    <3>3. a = b
      BY <3>1, <3>2
    <3>4. i \in Nat /\ j \in Nat /\ k \in Nat
      BY <2>1, <2>3, <2>5
    <3>. HIDE DEF rest
    <3>. QED BY <3>1, <3>2, <3>3, <3>4
  <2>9. \A i \in DOMAIN rest : \E j \in DOMAIN q : rest[i] = q[j]
    BY <2>6
  <2>. HIDE DEF rest
  <2>. QED BY <1>2, <2>2, <2>5, <2>7, <2>8, <2>9
<1>. QED BY <1>1, <1>2

LEMMA HeadTail ==
    ASSUME NEW q \in Seq(Users), q # << >>
    PROVE  /\ Head(q) = q[1] /\ 1 \in DOMAIN q
           /\ Tail(q) \in Seq(Users)
           /\ \A i \in DOMAIN Tail(q) : i + 1 \in DOMAIN q /\ Tail(q)[i] = q[i + 1]
  OBVIOUS

LEMMA EmptyQueue ==
    ASSUME NEW q \in Seq(Users), \A i \in DOMAIN q : FALSE
    PROVE  q = << >>
  <1>1. Len(q) \in Nat /\ DOMAIN q = 1 .. Len(q)
    OBVIOUS
  <1>2. Len(q) # 0 => 1 \in DOMAIN q
    BY <1>1
  <1>. QED BY <1>1, <1>2

\* What Keep(u, kept) does to one slot.
LEMMA KeepOne ==
    ASSUME IInv, NEW u \in Users, NEW kept \in SUBSET Slots, Keep(u, kept),
           NEW s \in Slots
    PROVE  /\ permit'[s] \in Users \cup {Free}
           /\ queue'[s] \in Seq(Users)
           /\ s \in kept => permit'[s] = u
           /\ s \notin kept => permit'[s] # u
           /\ s \notin kept /\ permit[s] # u => permit'[s] = permit[s]
           /\ \/ permit'[s] \in {u, Free, permit[s]}
              \/ \E j \in DOMAIN queue[s] : permit'[s] = queue[s][j]
           /\ s \notin kept /\ permit[s] = u /\ permit'[s] = Free =>
                queue'[s] = << >>
           /\ \A i \in DOMAIN queue'[s] :
                /\ queue'[s][i] # u
                /\ queue'[s][i] # permit'[s]
                /\ \E j \in DOMAIN queue[s] : queue'[s][i] = queue[s][j]
           /\ \A i, j \in DOMAIN queue'[s] : queue'[s][i] = queue'[s][j] => i = j
<1>. DEFINE q == Without(u, s)
<1>1. /\ q \in Seq(Users)
      /\ \A i \in DOMAIN q : q[i] # u
      /\ \A i \in DOMAIN q : \E j \in DOMAIN queue[s] : q[i] = queue[s][j]
      /\ \A i, j \in DOMAIN q : q[i] = q[j] => i = j
  BY WithoutOne DEF IInv, TypeOK, QueuedOnce
<1>2. /\ permit'[s] = IF s \in kept THEN u
                      ELSE IF permit[s] # u THEN permit[s]
                      ELSE IF q = << >> THEN Free ELSE Head(q)
      /\ queue'[s] = IF s \notin kept /\ permit[s] = u /\ q # << >>
                     THEN Tail(q) ELSE q
  BY DEF Keep
<1>3. permit[s] \in Users \cup {Free} /\ Free \notin Users
  BY SlotPoolAssumption DEF IInv, TypeOK
<1>4. \A j \in DOMAIN queue[s] : permit[s] # queue[s][j]
  BY DEF IInv, QueuedWait
<1>. HIDE DEF q
<1>5. CASE s \in kept \/ permit[s] # u
  <2>1. queue'[s] = q /\ permit'[s] = (IF s \in kept THEN u ELSE permit[s])
    BY <1>2, <1>5
  <2>2. \A i \in DOMAIN q : q[i] # permit'[s]
    BY <1>1, <1>4, <2>1
  <2>. QED BY <1>1, <1>3, <1>5, <2>1, <2>2
<1>6. CASE s \notin kept /\ permit[s] = u /\ q = << >>
  <2>1. queue'[s] = q /\ permit'[s] = Free
    BY <1>2, <1>6
  <2>. QED BY <1>1, <1>3, <1>6, <2>1
<1>7. CASE s \notin kept /\ permit[s] = u /\ q # << >>
  <2>1. queue'[s] = Tail(q) /\ permit'[s] = Head(q)
    BY <1>2, <1>7
  <2>2. /\ Head(q) = q[1] /\ 1 \in DOMAIN q /\ Tail(q) \in Seq(Users)
        /\ \A i \in DOMAIN Tail(q) : i + 1 \in DOMAIN q /\ Tail(q)[i] = q[i + 1]
    BY <1>1, <1>7, HeadTail
  <2>3. \A i \in DOMAIN Tail(q) : i \in Nat \ {0}
    BY <2>2
  <2>4. q[1] \in Users
    BY <1>1, <2>2
  <2>5. \A i \in DOMAIN Tail(q) : Tail(q)[i] # q[1]
    BY <1>1, <2>2, <2>3
  <2>6. \A i, j \in DOMAIN Tail(q) : Tail(q)[i] = Tail(q)[j] => i = j
    <3>1. SUFFICES ASSUME NEW i \in DOMAIN Tail(q), NEW j \in DOMAIN Tail(q),
                          Tail(q)[i] = Tail(q)[j]
                   PROVE  i = j
      OBVIOUS
    <3>2. i + 1 = j + 1
      BY <1>1, <2>2, <3>1
    <3>. QED BY <2>3, <3>2
  <2>7. \A i \in DOMAIN Tail(q) : Tail(q)[i] # u
                /\ \E j \in DOMAIN queue[s] : Tail(q)[i] = queue[s][j]
    BY <1>1, <2>2
  <2>8. q[1] # u /\ \E j \in DOMAIN queue[s] : q[1] = queue[s][j]
    BY <1>1, <2>2
  <2>. QED BY <1>3, <1>7, <2>1, <2>2, <2>4, <2>5, <2>6, <2>7, <2>8
<1>. QED BY <1>5, <1>6, <1>7

-----------------------------------------------------------------------------
(* The invariant.                                                          *)

\* A login that ends up with the permits in kept and uses no other slot.
LEMMA KeepStep ==
    ASSUME IInv, NEW u \in Users,
           NEW step \in Step, step # "wait",
           NEW n \in 1 .. NumSlots + 1,
           NEW kept \in SUBSET Slots,
           \/ kept = {} /\ step \notin Using
           \/ kept = {n} /\ step \in Using /\ permit[n] \in {Free, u},
           at' = [at EXCEPT ![u] = step],
           slot' = [slot EXCEPT ![u] = n],
           busy' = busy,
           Keep(u, kept)
    PROVE  IInv'
<1>1. TypeOK /\ Free \notin Users
  BY SlotPoolAssumption DEF IInv
<1>2. /\ at'[u] = step /\ slot'[u] = n
      /\ \A v \in Users : v # u => at'[v] = at[v] /\ slot'[v] = slot[v]
  BY <1>1 DEF TypeOK
<1>3. TypeOK'
  <2>1. permit' \in [Slots -> Users \cup {Free}] /\ queue' \in [Slots -> Seq(Users)]
    <3>1. permit' = [s \in Slots |-> permit'[s]] /\ queue' = [s \in Slots |-> queue'[s]]
      BY DEF Keep
    <3>. QED BY <3>1, KeepOne
  <2>. QED BY <1>1, <2>1 DEF TypeOK
<1>4. HoldersHavePermit'
  <2>1. SUFFICES ASSUME NEW v \in Users, at'[v] \in Using
                 PROVE  slot'[v] \in Slots /\ permit'[slot'[v]] = v
    BY DEF HoldersHavePermit
  <2>2. CASE v = u
    BY <1>2, <2>1, <2>2, KeepOne
  <2>3. CASE v # u
    <3>1. slot[v] \in Slots /\ permit[slot[v]] = v
      BY <1>2, <2>1, <2>3 DEF IInv, HoldersHavePermit
    <3>2. slot[v] \notin kept
      BY <1>1, <2>3, <3>1
    <3>. QED BY <1>2, <2>3, <3>1, <3>2, KeepOne
  <2>. QED BY <2>2, <2>3
<1>5. NoPermitLost'
  <2>1. SUFFICES ASSUME NEW s \in Slots, permit'[s] # Free
                 PROVE  \/ at'[permit'[s]] \in Using /\ slot'[permit'[s]] = s
                        \/ at'[permit'[s]] = "wait" /\ s \in busy'[permit'[s]]
    BY DEF NoPermitLost, Uses
  <2>2. CASE permit'[s] = u
    <3>1. s \in kept
      BY <2>2, KeepOne
    <3>2. s = n /\ step \in Using
      BY <3>1
    <3>. QED BY <1>2, <2>2, <3>2
  <2>3. CASE permit'[s] # u /\ permit'[s] = permit[s]
    <3>1. permit[s] \in Users
      BY <1>1, <2>1, <2>3 DEF TypeOK
    <3>. QED BY <1>2, <2>1, <2>3, <3>1 DEF IInv, NoPermitLost, Uses
  <2>4. CASE permit'[s] # u /\ permit'[s] # permit[s]
    <3>1. PICK j \in DOMAIN queue[s] : permit'[s] = queue[s][j]
      BY <2>1, <2>4, KeepOne
    <3>2. queue[s][j] \in Users
      BY <1>1 DEF TypeOK
    <3>. QED BY <1>2, <2>4, <3>1, <3>2 DEF IInv, QueuedWait
  <2>. QED BY <2>2, <2>3, <2>4
<1>6. QueuedWait'
  <2>1. SUFFICES ASSUME NEW s \in Slots, NEW i \in DOMAIN queue'[s]
                 PROVE  /\ at'[queue'[s][i]] = "wait"
                        /\ s \in busy'[queue'[s][i]]
                        /\ permit'[s] # queue'[s][i]
    BY DEF QueuedWait
  <2>2. queue'[s][i] # u /\ permit'[s] # queue'[s][i]
    BY KeepOne
  <2>3. PICK j \in DOMAIN queue[s] : queue'[s][i] = queue[s][j]
    BY KeepOne
  <2>4. queue[s][j] \in Users
    BY <1>1 DEF TypeOK
  <2>. QED BY <1>2, <2>2, <2>3, <2>4 DEF IInv, QueuedWait
<1>7. QueuedOnce'
  BY KeepOne DEF QueuedOnce
<1>8. NoLostWakeup'
  <2>1. SUFFICES ASSUME NEW s \in Slots, permit'[s] = Free
                 PROVE  queue'[s] = << >>
    BY DEF NoLostWakeup
  <2>2. s \notin kept
    BY <1>1, <2>1, KeepOne
  <2>3. CASE permit[s] = u
    BY <2>1, <2>2, <2>3, KeepOne
  <2>4. CASE permit[s] # u
    <3>1. permit[s] = Free
      BY <2>1, <2>2, <2>4, KeepOne
    <3>2. queue[s] = << >>
      BY <3>1 DEF IInv, NoLostWakeup
    <3>3. DOMAIN queue[s] = {}
      BY <3>2
    <3>4. \A i \in DOMAIN queue'[s] : FALSE
      BY <3>3, KeepOne
    <3>5. queue'[s] \in Seq(Users)
      BY KeepOne
    <3>. QED BY <3>4, <3>5, EmptyQueue
  <2>. QED BY <2>3, <2>4
<1>. QED BY <1>3, <1>4, <1>5, <1>6, <1>7, <1>8 DEF IInv

\* The names of the steps, unfolded once.
LEMMA Steps ==
    /\ {"idle", "scan", "wait", "connect", "connect_waited", "session", "cleanup"}
           \subseteq Step
    /\ {"connect", "connect_waited", "session", "cleanup"} = Using
    /\ Connecting = {"connect", "connect_waited"}
    /\ Acquiring = {"scan", "wait", "connect", "connect_waited"}
  BY DEF Step, Acquiring, Using, Connecting

LEMMA InitIInv == Init => IInv
<1>. SUFFICES ASSUME Init PROVE IInv
  OBVIOUS
<1>1. \A s \in Slots : permit[s] = Free /\ queue[s] = << >> /\ DOMAIN queue[s] = {}
  BY DEF Init
<1>2. \A u \in Users : at[u] = "idle"
  BY DEF Init
<1>3. TypeOK
  BY Steps, SlotPoolAssumption DEF Init, TypeOK
<1>. QED BY <1>1, <1>2, <1>3, Steps
         DEF IInv, HoldersHavePermit, NoPermitLost, QueuedWait, QueuedOnce, NoLostWakeup

\* A login moves on without a change to what it holds or waits for.
LEMMA MoveStep ==
    ASSUME IInv, NEW u \in Users, NEW step \in Step,
           at' = [at EXCEPT ![u] = step],
           \/ at[u] \in Using /\ step \in Using
           \/ at[u] \in {"idle", "scan"} /\ step \notin Using,
           slot' \in [Users -> 1 .. NumSlots + 1],
           \A v \in Users : v # u => slot'[v] = slot[v],
           step \in Using => slot'[u] = slot[u],
           busy' \in [Users -> SUBSET Slots],
           \A v \in Users : v # u => busy'[v] = busy[v],
           UNCHANGED semaphores
    PROVE  IInv'
<1>1. TypeOK /\ Free \notin Users /\ permit' = permit /\ queue' = queue
  BY SlotPoolAssumption DEF IInv, semaphores
<1>2. at'[u] = step /\ \A v \in Users : v # u => at'[v] = at[v]
  BY <1>1 DEF TypeOK
<1>3. at[u] # "wait"
  BY Steps
<1>4. TypeOK'
  BY <1>1 DEF TypeOK
<1>5. HoldersHavePermit'
  BY <1>1, <1>2 DEF IInv, HoldersHavePermit
<1>6. NoPermitLost'
  <2>1. SUFFICES ASSUME NEW s \in Slots, permit[s] # Free
                 PROVE  \/ at'[permit[s]] \in Using /\ slot'[permit[s]] = s
                        \/ at'[permit[s]] = "wait" /\ s \in busy'[permit[s]]
    BY <1>1 DEF NoPermitLost, Uses
  <2>2. permit[s] \in Users
    BY <1>1, <2>1 DEF TypeOK
  <2>3. \/ at[permit[s]] \in Using /\ slot[permit[s]] = s
        \/ at[permit[s]] = "wait" /\ s \in busy[permit[s]]
    BY <2>1 DEF IInv, NoPermitLost, Uses
  <2>4. CASE permit[s] = u
    BY <1>2, <1>3, <2>3, <2>4, Steps
  <2>5. CASE permit[s] # u
    BY <1>2, <2>2, <2>3, <2>5
  <2>. QED BY <2>4, <2>5
<1>7. QueuedWait'
  <2>1. SUFFICES ASSUME NEW s \in Slots, NEW i \in DOMAIN queue[s]
                 PROVE  /\ at'[queue[s][i]] = "wait"
                        /\ s \in busy'[queue[s][i]]
                        /\ permit[s] # queue[s][i]
    BY <1>1 DEF QueuedWait
  <2>2. /\ queue[s][i] \in Users
        /\ at[queue[s][i]] = "wait"
        /\ s \in busy[queue[s][i]]
        /\ permit[s] # queue[s][i]
    BY <1>1 DEF TypeOK, IInv, QueuedWait
  <2>. QED BY <1>2, <1>3, <2>2
<1>8. QueuedOnce' /\ NoLostWakeup'
  BY <1>1 DEF IInv, QueuedOnce, NoLostWakeup
<1>. QED BY <1>4, <1>5, <1>6, <1>7, <1>8 DEF IInv

\* A scan finds a slot free: nobody has the permit, so nobody is queued.
LEMMA TryAcquireFree ==
    ASSUME IInv, NEW u \in Users, TryAcquire(u), permit[slot[u]] = Free
    PROVE  IInv'
<1>. DEFINE t == slot[u]
<1>1. /\ TypeOK /\ Free \notin Users /\ t \in Slots /\ at[u] = "scan"
      /\ permit' = [permit EXCEPT ![t] = u] /\ queue' = queue
      /\ at' = [at EXCEPT ![u] = "connect"] /\ slot' = slot /\ busy' = busy
  BY SlotPoolAssumption DEF IInv, TryAcquire
<1>2. /\ at'[u] = "connect" /\ permit'[t] = u
      /\ \A v \in Users : v # u => at'[v] = at[v]
      /\ \A s \in Slots : s # t => permit'[s] = permit[s]
  BY <1>1 DEF TypeOK
<1>3. queue[t] = << >>
  BY <1>1 DEF IInv, NoLostWakeup
<1>4. TypeOK'
  BY <1>1, Steps DEF TypeOK
<1>5. HoldersHavePermit'
  <2>1. SUFFICES ASSUME NEW v \in Users, at'[v] \in Using
                 PROVE  slot[v] \in Slots /\ permit'[slot[v]] = v
    BY <1>1 DEF HoldersHavePermit
  <2>2. CASE v # u
    <3>1. slot[v] \in Slots /\ permit[slot[v]] = v
      BY <1>2, <2>1, <2>2 DEF IInv, HoldersHavePermit
    <3>2. slot[v] # t
      BY <1>1, <3>1
    <3>. QED BY <1>2, <3>1, <3>2
  <2>. QED BY <1>1, <1>2, <2>2
<1>6. NoPermitLost'
  <2>1. SUFFICES ASSUME NEW s \in Slots, permit'[s] # Free
                 PROVE  \/ at'[permit'[s]] \in Using /\ slot[permit'[s]] = s
                        \/ at'[permit'[s]] = "wait" /\ s \in busy[permit'[s]]
    BY <1>1 DEF NoPermitLost, Uses
  <2>2. CASE s = t
    BY <1>2, <2>2, Steps
  <2>3. CASE s # t
    <3>1. permit[s] \in Users /\ permit'[s] = permit[s]
      BY <1>1, <1>2, <2>1, <2>3 DEF TypeOK
    <3>2. \/ at[permit[s]] \in Using /\ slot[permit[s]] = s
          \/ at[permit[s]] = "wait" /\ s \in busy[permit[s]]
      BY <2>1, <3>1 DEF IInv, NoPermitLost, Uses
    <3>3. permit[s] # u
      BY <1>1, <3>2, Steps
    <3>. QED BY <1>2, <3>1, <3>2, <3>3
  <2>. QED BY <2>2, <2>3
<1>7. QueuedWait'
  <2>1. SUFFICES ASSUME NEW s \in Slots, NEW i \in DOMAIN queue[s]
                 PROVE  /\ at'[queue[s][i]] = "wait"
                        /\ s \in busy[queue[s][i]]
                        /\ permit'[s] # queue[s][i]
    BY <1>1 DEF QueuedWait
  <2>2. /\ queue[s][i] \in Users
        /\ at[queue[s][i]] = "wait"
        /\ s \in busy[queue[s][i]]
        /\ permit[s] # queue[s][i]
    BY <1>1 DEF TypeOK, IInv, QueuedWait
  <2>3. s # t
    BY <1>3, <2>1
  <2>. QED BY <1>1, <1>2, <2>2, <2>3
<1>8. QueuedOnce'
  BY <1>1 DEF IInv, QueuedOnce
<1>9. NoLostWakeup'
  BY <1>1, <1>2 DEF IInv, NoLostWakeup
<1>. QED BY <1>4, <1>5, <1>6, <1>7, <1>8, <1>9 DEF IInv

LEMMA EnqueueStep ==
    ASSUME IInv, NEW u \in Users, NEW t \in Slots, Enqueue(u, t)
    PROVE  IInv'
<1>1. /\ TypeOK /\ Free \notin Users
      /\ at[u] = "wait" /\ t \in busy[u] /\ permit[t] # Free /\ permit[t] # u
      /\ \A i \in DOMAIN queue[t] : queue[t][i] # u
      /\ queue' = [queue EXCEPT ![t] = Append(@, u)]
      /\ at' = at /\ slot' = slot /\ busy' = busy /\ permit' = permit
  BY SlotPoolAssumption DEF IInv, Enqueue, Waits
<1>2. queue[t] \in Seq(Users) /\ queue'[t] = Append(queue[t], u)
  BY <1>1 DEF TypeOK
<1>3. \A i \in DOMAIN queue'[t] :
        \/ i = Len(queue[t]) + 1 /\ queue'[t][i] = u
        \/ i \in DOMAIN queue[t] /\ queue'[t][i] = queue[t][i]
  BY <1>2
<1>4. \A s \in Slots : s # t => queue'[s] = queue[s]
  BY <1>1 DEF TypeOK
<1>5. TypeOK'
  BY <1>1, <1>2 DEF TypeOK
<1>6. HoldersHavePermit' /\ NoPermitLost'
  BY <1>1 DEF IInv, HoldersHavePermit, NoPermitLost, Uses
<1>7. QueuedWait'
  <2>1. SUFFICES ASSUME NEW s \in Slots, NEW i \in DOMAIN queue'[s]
                 PROVE  /\ at[queue'[s][i]] = "wait"
                        /\ s \in busy[queue'[s][i]]
                        /\ permit[s] # queue'[s][i]
    BY <1>1 DEF QueuedWait
  <2>2. CASE s = t
    BY <1>1, <1>3, <2>1, <2>2 DEF IInv, QueuedWait
  <2>3. CASE s # t
    BY <1>4, <2>1, <2>3 DEF IInv, QueuedWait
  <2>. QED BY <2>2, <2>3
<1>8. QueuedOnce'
  <2>1. SUFFICES ASSUME NEW s \in Slots, NEW i \in DOMAIN queue'[s],
                        NEW j \in DOMAIN queue'[s], queue'[s][i] = queue'[s][j]
                 PROVE  i = j
    BY DEF QueuedOnce
  <2>2. CASE s = t
    BY <1>1, <1>3, <2>1, <2>2 DEF IInv, QueuedOnce
  <2>3. CASE s # t
    BY <1>4, <2>1, <2>3 DEF IInv, QueuedOnce
  <2>. QED BY <2>2, <2>3
<1>9. NoLostWakeup'
  BY <1>1, <1>4 DEF IInv, NoLostWakeup
<1>. QED BY <1>5, <1>6, <1>7, <1>8, <1>9 DEF IInv

LEMMA StepIInv == IInv /\ [Next]_vars => IInv'
<1>. SUFFICES ASSUME IInv, [Next]_vars PROVE IInv'
  OBVIOUS
<1>1. TypeOK /\ NumSlots \in Nat
  BY SlotPoolAssumption DEF IInv
<1>2. \A u \in Users : slot[u] \in 1 .. NumSlots + 1 /\ busy[u] \in SUBSET Slots
  BY <1>1 DEF TypeOK
<1>3. \A u \in Users : slot[u] \in Slots => slot[u] + 1 \in 1 .. NumSlots + 1
  BY <1>1 DEF Slots
<1>4. \A u \in Users : at[u] \in Using => slot[u] \in Slots
  BY DEF IInv, HoldersHavePermit
<1>5. slot \in [Users -> 1 .. NumSlots + 1] /\ busy \in [Users -> SUBSET Slots]
      /\ at \in [Users -> Step]
  BY <1>1 DEF TypeOK
<1>6. CASE UNCHANGED vars
  BY <1>6 DEF vars, IInv, TypeOK, HoldersHavePermit, NoPermitLost, Uses, QueuedWait,
              QueuedOnce, NoLostWakeup
<1>7. ASSUME NEW u \in Users, Acquire(u) PROVE IInv'
  <2>1. 1 \in 1 .. NumSlots + 1
    BY <1>1
  <2>2. /\ slot' \in [Users -> 1 .. NumSlots + 1]
        /\ \A v \in Users : v # u => slot'[v] = slot[v]
        /\ busy' \in [Users -> SUBSET Slots]
        /\ \A v \in Users : v # u => busy'[v] = busy[v]
    BY <1>5, <1>7, <2>1 DEF Acquire
  <2>. QED BY <1>7, <2>2, Steps, MoveStep DEF Acquire
<1>8. ASSUME NEW u \in Users, TryAcquire(u) PROVE IInv'
  <2>1. CASE permit[slot[u]] = Free
    BY <1>8, <2>1, TryAcquireFree
  <2>2. CASE permit[slot[u]] # Free
    <3>1. /\ at[u] = "scan" /\ slot[u] \in Slots /\ at' = at /\ UNCHANGED semaphores
          /\ busy' = [busy EXCEPT ![u] = @ \cup {slot[u]}]
          /\ slot' = [slot EXCEPT ![u] = @ + 1]
      BY <1>8, <2>2 DEF TryAcquire, semaphores
    <3>2. /\ slot' \in [Users -> 1 .. NumSlots + 1]
          /\ \A v \in Users : v # u => slot'[v] = slot[v]
          /\ busy' \in [Users -> SUBSET Slots]
          /\ \A v \in Users : v # u => busy'[v] = busy[v]
      BY <1>2, <1>3, <1>5, <3>1
    <3>3. at' = [at EXCEPT ![u] = "scan"]
      BY <1>5, <3>1
    <3>. QED BY <3>1, <3>2, <3>3, Steps, MoveStep
  <2>. QED BY <2>1, <2>2
<1>9. ASSUME NEW u \in Users, EndScan(u) PROVE IInv'
  <2>1. PICK step \in {"idle", "wait"} : at' = [at EXCEPT ![u] = step]
    BY <1>9 DEF EndScan
  <2>. QED BY <1>5, <1>9, <2>1, Steps, MoveStep DEF EndScan
<1>10. ASSUME NEW u \in Users, NEW s \in Slots, TakeSlot(u, s) PROVE IInv'
  <2>1. s \in 1 .. NumSlots + 1
    BY <1>1 DEF Slots
  <2>. QED BY <1>10, <2>1, Steps, KeepStep DEF TakeSlot
<1>11. ASSUME NEW u \in Users, Connect(u) PROVE IInv'
  <2>1. at[u] \in Using /\ slot' = slot /\ busy' = busy /\ UNCHANGED semaphores
    BY <1>11, Steps DEF Connect
  <2>2. PICK step \in Step : step \in Using /\ at' = [at EXCEPT ![u] = step]
    BY <1>11, Steps DEF Connect
  <2>3. slot' \in [Users -> 1 .. NumSlots + 1] /\ busy' \in [Users -> SUBSET Slots]
        /\ \A v \in Users : slot'[v] = slot[v] /\ busy'[v] = busy[v]
    BY <1>5, <2>1
  <2>. QED BY <2>1, <2>2, <2>3, MoveStep
<1>12. ASSUME NEW u \in Users, ConnectFails(u) PROVE IInv'
  <2>1. at[u] \in Using
    BY <1>12, Steps DEF ConnectFails
  <2>2. PICK step \in {"scan", "idle"}, n \in 1 .. NumSlots + 1 :
            at' = [at EXCEPT ![u] = step] /\ slot' = [slot EXCEPT ![u] = n]
    <3>1. CASE at[u] = "connect"
      BY <1>3, <1>4, <1>12, <2>1, <3>1 DEF ConnectFails
    <3>2. CASE at[u] # "connect"
      <4>1. slot' = [slot EXCEPT ![u] = slot[u]] /\ at' = [at EXCEPT ![u] = "idle"]
        BY <1>5, <1>12, <3>2 DEF ConnectFails
      <4>. QED BY <1>2, <4>1
    <3>. QED BY <3>1, <3>2
  <2>. QED BY <1>12, <2>2, Steps, KeepStep DEF ConnectFails
<1>13. ASSUME NEW u \in Users, Abandon(u) \/ EndCleanup(u) PROVE IInv'
  <2>1. slot' = [slot EXCEPT ![u] = slot[u]] /\ at' = [at EXCEPT ![u] = "idle"]
        /\ busy' = busy /\ Keep(u, {})
    BY <1>5, <1>13 DEF Abandon, EndCleanup
  <2>. QED BY <1>2, <2>1, Steps, KeepStep
<1>14. ASSUME NEW u \in Users, Close(u) PROVE IInv'
  <2>1. at[u] \in Using /\ slot' = slot /\ busy' = busy /\ UNCHANGED semaphores
    BY <1>14, Steps DEF Close
  <2>2. PICK step \in Step : step \in Using /\ at' = [at EXCEPT ![u] = step]
    BY <1>14, Steps DEF Close
  <2>3. slot' \in [Users -> 1 .. NumSlots + 1] /\ busy' \in [Users -> SUBSET Slots]
        /\ \A v \in Users : slot'[v] = slot[v] /\ busy'[v] = busy[v]
    BY <1>5, <2>1
  <2>. QED BY <2>1, <2>2, <2>3, MoveStep
<1>. QED BY <1>6, <1>7, <1>8, <1>9, <1>10, <1>11, <1>12, <1>13, <1>14, EnqueueStep DEF Next

\* The links between permits, queues and logins hold in every reachable state.
THEOREM Invariant == Spec => []IInv
  BY InitIInv, StepIInv, PTL DEF Spec

\* SlotPool's variables keep their types: no login but a configured one is
\* queued or has a permit.
THEOREM TypeCorrect == Spec => []TypeOK
  BY Invariant, PTL DEF IInv

\* Two logins never use the same Chrome instance, whatever the number of slots
\* and logins and however connects fail, time out or are dropped.
THEOREM Exclusion == Spec => []ExclusiveUse
<1>1. IInv => ExclusiveUse
  BY DEF IInv, HoldersHavePermit, ExclusiveUse
<1>. QED BY <1>1, Invariant, PTL

\* Every permit is with a login that uses the slot or is about to take it.
THEOREM PermitsAccountedFor == Spec => []NoPermitLost
  BY Invariant, PTL DEF IInv

\* No free slot has a queue.
THEOREM Wakeups == Spec => []NoLostWakeup
  BY Invariant, PTL DEF IInv

-----------------------------------------------------------------------------
(* The order in which waiters are served.                                  *)

InOrder(s) ==
    queue[s] # << >> /\ permit'[s] # permit[s] => permit'[s] = Head(queue[s])

\* Keep passes a permit on to the head of the queue, provided the permits it
\* newly takes were free.
LEMMA KeepInOrder ==
    ASSUME IInv, NEW u \in Users, NEW kept \in SUBSET Slots, Keep(u, kept),
           \A s \in kept : permit[s] \in {Free, u}
    PROVE  \A s \in Slots : InOrder(s)
<1>. SUFFICES ASSUME NEW s \in Slots, queue[s] # << >>, permit'[s] # permit[s]
              PROVE  permit'[s] = Head(queue[s])
  BY DEF InOrder
<1>1. permit[s] # Free
  BY DEF IInv, NoLostWakeup
<1>2. permit'[s] = IF s \in kept THEN u
                   ELSE IF permit[s] # u THEN permit[s]
                   ELSE IF Without(u, s) = << >> THEN Free
                   ELSE Head(Without(u, s))
  BY DEF Keep
<1>3. s \notin kept /\ permit[s] = u
  BY <1>1, <1>2
<1>4. ~Waits(u, s)
  BY <1>3 DEF Waits, IInv, QueuedWait
<1>5. Without(u, s) = queue[s]
  BY <1>4 DEF Without
<1>. QED BY <1>2, <1>3, <1>5

LEMMA StepInOrder == IInv /\ [Next]_vars => \A s \in Slots : InOrder(s)
<1>. SUFFICES ASSUME IInv, [Next]_vars PROVE \A s \in Slots : InOrder(s)
  OBVIOUS
<1>1. CASE UNCHANGED permit
  BY <1>1 DEF InOrder
<1>2. ASSUME NEW u \in Users, TryAcquire(u) PROVE \A s \in Slots : InOrder(s)
  <2>1. CASE permit[slot[u]] = Free
    <3>1. queue[slot[u]] = << >>
      BY <1>2, <2>1 DEF TryAcquire, IInv, NoLostWakeup
    <3>2. \A s \in Slots : s # slot[u] => permit'[s] = permit[s]
      BY <1>2, <2>1 DEF TryAcquire, IInv, TypeOK
    <3>. QED BY <3>1, <3>2 DEF InOrder
  <2>2. CASE permit[slot[u]] # Free
    BY <1>1, <1>2, <2>2 DEF TryAcquire
  <2>. QED BY <2>1, <2>2
<1>3. ASSUME NEW u \in Users, NEW s \in Slots, TakeSlot(u, s)
      PROVE  \A r \in Slots : InOrder(r)
  <2>1. Keep(u, {s}) /\ permit[s] \in {Free, u}
    BY <1>3 DEF TakeSlot
  <2>. QED BY <2>1, KeepInOrder
<1>4. ASSUME NEW u \in Users, ConnectFails(u) \/ Abandon(u) \/ EndCleanup(u)
      PROVE  \A s \in Slots : InOrder(s)
  <2>1. Keep(u, {})
    BY <1>4 DEF ConnectFails, Abandon, EndCleanup
  <2>. QED BY <2>1, KeepInOrder
<1>5. ASSUME NEW u \in Users,
             \/ Acquire(u) \/ EndScan(u) \/ Connect(u) \/ Close(u)
             \/ \E s \in Slots : Enqueue(u, s)
      PROVE  \A s \in Slots : InOrder(s)
  BY <1>1, <1>5 DEF Acquire, EndScan, Connect, Close, Enqueue, semaphores
<1>6. CASE UNCHANGED vars
  BY <1>1, <1>6 DEF vars
<1>. QED BY <1>2, <1>3, <1>4, <1>5, <1>6 DEF Next

\* A slot with waiters goes to the one that waited longest, in every behaviour
\* of the pool.
THEOREM Fifo == Spec => ServedInOrder
<1>1. IInv /\ [Next]_vars =>
        [\A s \in Slots : queue[s] # << >> /\ permit'[s] # permit[s] =>
            permit'[s] = Head(queue[s])]_vars
  BY StepInOrder DEF InOrder
<1>. QED BY <1>1, Invariant, PTL DEF Spec, ServedInOrder

-----------------------------------------------------------------------------
(* SlotPool implements SlotLock: who uses a slot owns it.                  *)

LEMMA OwnerUses ==
    ASSUME ExclusiveUse, NEW s \in Slots
    PROVE  /\ \A u \in Users : Uses(u, s) => owner[s] = u
           /\ (\A u \in Users : ~Uses(u, s)) => owner[s] = Free
<1>1. owner[s] = IF UsersOf(s) = {} THEN Free ELSE CHOOSE v \in UsersOf(s) : TRUE
  BY DEF owner
<1>2. \A v : v \in UsersOf(s) <=> v \in Users /\ Uses(v, s)
  BY DEF UsersOf
<1>3. ASSUME NEW u \in Users, Uses(u, s) PROVE owner[s] = u
  <2>1. \A v \in Users : Uses(v, s) => v = u
    BY <1>3 DEF ExclusiveUse, Uses
  <2>2. UsersOf(s) = {u}
    BY <1>2, <1>3, <2>1
  <2>. QED BY <1>1, <2>2
<1>4. ASSUME \A u \in Users : ~Uses(u, s) PROVE owner[s] = Free
  BY <1>1, <1>2, <1>4
<1>. QED BY <1>3, <1>4

\* The same of the state after a step.
LEMMA OwnerUsesNext ==
    ASSUME ExclusiveUse', NEW s \in Slots
    PROVE  /\ \A u \in Users : Uses(u, s)' => owner'[s] = u
           /\ (\A u \in Users : ~Uses(u, s)') => owner'[s] = Free
<1>1. owner'[s] = IF UsersOf(s)' = {} THEN Free ELSE CHOOSE v \in UsersOf(s)' : TRUE
  BY DEF owner
<1>2. \A v : v \in UsersOf(s)' <=> v \in Users /\ Uses(v, s)'
  BY DEF UsersOf
<1>3. ASSUME NEW u \in Users, Uses(u, s)' PROVE owner'[s] = u
  <2>1. \A v \in Users : Uses(v, s)' => v = u
    BY <1>3 DEF ExclusiveUse, Uses
  <2>2. UsersOf(s)' = {u}
    BY <1>2, <1>3, <2>1
  <2>. QED BY <1>1, <2>2
<1>4. ASSUME \A u \in Users : ~Uses(u, s)' PROVE owner'[s] = Free
  BY <1>1, <1>2, <1>4
<1>. QED BY <1>3, <1>4

\* A step in which login u begins to use a slot, stops using one, or neither
\* is a step of SlotLock.
LEMMA OwnerStep ==
    ASSUME ExclusiveUse, ExclusiveUse', Free \notin Users, NEW u \in Users,
           \A v \in Users : v # u => at'[v] = at[v] /\ slot'[v] = slot[v],
           \/ at[u] \notin Using /\ at'[u] \notin Using
           \/ at[u] \in Using /\ at'[u] \in Using /\ slot'[u] = slot[u]
           \/ at[u] \in Using /\ at'[u] \notin Using /\ slot[u] \in Slots
           \/ /\ at[u] \notin Using /\ at'[u] \in Using /\ slot'[u] \in Slots
              /\ \A v \in Users : ~Uses(v, slot'[u])
    PROVE  [Lock!Next]_owner
<1>1. owner = [s \in Slots |-> owner[s]] /\ owner' = [s \in Slots |-> owner'[s]]
  BY DEF owner
<1>2. \A s \in Slots, v \in Users : v # u => (Uses(v, s)' <=> Uses(v, s))
  BY DEF Uses
<1>3. ASSUME NEW s \in Slots, Uses(u, s)' <=> Uses(u, s) PROVE owner'[s] = owner[s]
  <2>1. \A v \in Users : Uses(v, s)' <=> Uses(v, s)
    BY <1>2, <1>3
  <2>2. CASE \E v \in Users : Uses(v, s)
    BY <2>1, <2>2, OwnerUses, OwnerUsesNext
  <2>3. CASE \A v \in Users : ~Uses(v, s)
    BY <2>1, <2>3, OwnerUses, OwnerUsesNext
  <2>. QED BY <2>2, <2>3
<1>4. CASE \A s \in Slots : Uses(u, s)' <=> Uses(u, s)
  <2>1. owner' = owner
    BY <1>1, <1>3, <1>4
  <2>. QED BY <2>1
<1>5. CASE at[u] \in Using /\ at'[u] \notin Using /\ slot[u] \in Slots
  <2>. PICK t \in Slots : t = slot[u]
    BY <1>5
  <2>1. /\ Uses(u, t)
        /\ \A s \in Slots : ~Uses(u, s)'
        /\ \A s \in Slots : s # t => ~Uses(u, s)
    BY <1>5 DEF Uses
  <2>2. \A v \in Users : ~Uses(v, t)'
    BY <1>2, <2>1 DEF ExclusiveUse, Uses
  <2>3. owner[t] = u /\ owner'[t] = Free
    BY <2>1, <2>2, OwnerUses, OwnerUsesNext
  <2>4. owner' = [owner EXCEPT ![t] = Free]
    BY <1>1, <1>3, <2>1, <2>3
  <2>5. Lock!Give(u, t)
    BY <2>3, <2>4 DEF Lock!Give
  <2>. QED BY <2>1, <2>5 DEF Lock!Next
<1>6. CASE /\ at[u] \notin Using /\ at'[u] \in Using /\ slot'[u] \in Slots
           /\ \A v \in Users : ~Uses(v, slot'[u])
  <2>. PICK t \in Slots : t = slot'[u]
    BY <1>6
  <2>1. /\ Uses(u, t)'
        /\ \A s \in Slots : ~Uses(u, s)
        /\ \A s \in Slots : s # t => ~Uses(u, s)'
    BY <1>6 DEF Uses
  <2>2. owner[t] = Free /\ owner'[t] = u
    BY <1>6, <2>1, OwnerUses, OwnerUsesNext
  <2>3. \A s \in Slots : owner[s] # u
    <3>1. SUFFICES ASSUME NEW s \in Slots PROVE owner[s] # u
      OBVIOUS
    <3>2. CASE \E v \in Users : Uses(v, s)
      BY <2>1, <3>2, OwnerUses
    <3>3. CASE \A v \in Users : ~Uses(v, s)
      BY <3>3, OwnerUses
    <3>. QED BY <3>2, <3>3
  <2>4. owner' = [owner EXCEPT ![t] = u]
    BY <1>1, <1>3, <2>1, <2>2
  <2>5. Lock!Take(u, t)
    BY <2>2, <2>3, <2>4 DEF Lock!Take
  <2>. QED BY <2>1, <2>5 DEF Lock!Next
<1>7. \/ \A s \in Slots : Uses(u, s)' <=> Uses(u, s)
      \/ at[u] \in Using /\ at'[u] \notin Using /\ slot[u] \in Slots
      \/ /\ at[u] \notin Using /\ at'[u] \in Using /\ slot'[u] \in Slots
         /\ \A v \in Users : ~Uses(v, slot'[u])
  BY DEF Uses
<1>. QED BY <1>4, <1>5, <1>6, <1>7

LEMMA LockStep == IInv /\ IInv' /\ [Next]_vars => [Lock!Next]_owner
<1>. SUFFICES ASSUME IInv, IInv', [Next]_vars PROVE [Lock!Next]_owner
  OBVIOUS
<1>1. ExclusiveUse /\ ExclusiveUse' /\ Free \notin Users
  BY SlotPoolAssumption DEF IInv, HoldersHavePermit, ExclusiveUse
<1>2. at \in [Users -> Step] /\ slot \in [Users -> 1 .. NumSlots + 1]
  BY DEF IInv, TypeOK
<1>3. \A u \in Users : at[u] \in Using => slot[u] \in Slots /\ permit[slot[u]] = u
  BY DEF IInv, HoldersHavePermit
<1>4. CASE UNCHANGED vars
  BY <1>4 DEF vars, owner, UsersOf, Uses
<1>5. ASSUME NEW u \in Users, NEW s \in Slots, Enqueue(u, s) PROVE [Lock!Next]_owner
  BY <1>5 DEF Enqueue, owner, UsersOf, Uses
<1>6. ASSUME NEW u \in Users, Acquire(u) \/ EndScan(u) PROVE [Lock!Next]_owner
  <2>1. /\ \A v \in Users : v # u => at'[v] = at[v] /\ slot'[v] = slot[v]
        /\ at[u] \in {"idle", "scan"} /\ at'[u] \in {"idle", "scan", "wait"}
    BY <1>2, <1>6 DEF Acquire, EndScan
  <2>. QED BY <1>1, <2>1, Steps, OwnerStep
<1>7. ASSUME NEW u \in Users, TryAcquire(u) PROVE [Lock!Next]_owner
  <2>1. CASE permit[slot[u]] = Free
    <3>1. /\ \A v \in Users : v # u => at'[v] = at[v] /\ slot'[v] = slot[v]
          /\ at[u] = "scan" /\ at'[u] = "connect" /\ slot'[u] = slot[u]
          /\ slot[u] \in Slots
      BY <1>2, <1>7, <2>1 DEF TryAcquire
    <3>2. \A v \in Users : ~Uses(v, slot'[u])
      BY <1>1, <1>3, <2>1, <3>1 DEF Uses
    <3>. QED BY <1>1, <3>1, <3>2, Steps, OwnerStep
  <2>2. CASE permit[slot[u]] # Free
    <3>1. /\ \A v \in Users : v # u => at'[v] = at[v] /\ slot'[v] = slot[v]
          /\ at[u] = "scan" /\ at'[u] = "scan"
      BY <1>2, <1>7, <2>2 DEF TryAcquire
    <3>. QED BY <1>1, <3>1, Steps, OwnerStep
  <2>. QED BY <2>1, <2>2
<1>8. ASSUME NEW u \in Users, NEW s \in Slots, TakeSlot(u, s) PROVE [Lock!Next]_owner
  <2>1. /\ \A v \in Users : v # u => at'[v] = at[v] /\ slot'[v] = slot[v]
        /\ at[u] = "wait" /\ at'[u] = "connect_waited" /\ slot'[u] = s
        /\ permit[s] \in {Free, u}
    BY <1>2, <1>8 DEF TakeSlot
  <2>2. at[u] \notin Using /\ at'[u] \in Using
    BY <2>1, Steps
  <2>3. \A v \in Users : ~Uses(v, slot'[u])
    BY <1>1, <1>3, <2>1, <2>2 DEF Uses
  <2>. QED BY <1>1, <2>1, <2>2, <2>3, OwnerStep
<1>9. ASSUME NEW u \in Users, Connect(u) \/ Close(u) PROVE [Lock!Next]_owner
  <2>1. /\ \A v \in Users : v # u => at'[v] = at[v] /\ slot'[v] = slot[v]
        /\ at[u] \in Using /\ at'[u] \in {"session", "cleanup"} /\ slot'[u] = slot[u]
    BY <1>2, <1>9, Steps DEF Connect, Close
  <2>. QED BY <1>1, <2>1, Steps, OwnerStep
<1>10. ASSUME NEW u \in Users, ConnectFails(u) \/ Abandon(u) \/ EndCleanup(u)
       PROVE  [Lock!Next]_owner
  <2>1. /\ \A v \in Users : v # u => at'[v] = at[v] /\ slot'[v] = slot[v]
        /\ at'[u] \in {"idle", "scan"}
    BY <1>2, <1>10 DEF ConnectFails, Abandon, EndCleanup
  <2>2. at'[u] \notin Using
    BY <2>1, Steps
  <2>. QED BY <1>1, <1>3, <2>1, <2>2, OwnerStep
<1>. QED BY <1>4, <1>5, <1>6, <1>7, <1>8, <1>9, <1>10 DEF Next

LEMMA LockInit == Init => Lock!Init
  BY Steps DEF Init, Lock!Init, owner, UsersOf, Uses

\* The pool keeps the promise of SlotLock: each of its steps is a Take, a Give
\* or nothing to the lock, for any number of slots and logins.
THEOREM Refinement == Spec => ImplementsSlotLock
<1>1. IInv /\ IInv' /\ [Next]_vars => [Lock!Next]_owner
  BY LockStep
<1>. QED BY <1>1, Invariant, LockInit, PTL DEF Spec, ImplementsSlotLock, Lock!Spec
=============================================================================
