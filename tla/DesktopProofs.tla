--------------------------- MODULE DesktopProofs ---------------------------
(***************************************************************************)
(* Proofs about DesktopRuntime, for any number of handlers and desktops,   *)
(* whether or not processes survive a SIGTERM.                             *)
(*                                                                         *)
(* OwnedIsRunning is not inductive: a request refused within the cooldown  *)
(* clears _running without a stop(), which is harmless only because the    *)
(* start that failed stopped all the supervisor owned (RefusedOwnsNothing) *)
(* and because no other start can be under way meanwhile (OneStart).       *)
(***************************************************************************)
EXTENDS DesktopRuntime, FiniteSetTheorems, TLAPS

Users == {h \in Handlers : at[h] \in Leasing}

\* start() runs under the lock.
OneStart ==
    \A g, h \in Handlers : at[g] \in Starting /\ at[h] \in Starting => g = h

RefusedOwnsNothing ==
    failure = "fresh" => Owned = {} /\ \A h \in Handlers : at[h] \notin
       Starting

ExitedIsIdle == main = "exited" => \A h \in Handlers : at[h] = "idle"

IInv ==
    /\ TypeOK
    /\ OneStart
    /\ ExitedIsIdle
    /\ RefusedOwnsNothing
    /\ LeasesCounted
    /\ OwnedIsRunning

LEMMA UsersFinite == IsFiniteSet(Users) /\ Cardinality(Users) \in Nat
<1>1. Users \in SUBSET Handlers
  BY DEF Users
<1>. QED
  BY <1>1, DesktopAssumption, FS_Subset, FS_CardinalityType

\* What the requests come to when one of them takes a lease, gives it back, or
\* goes on with its start.
LEMMA UsersChange ==
    ASSUME TypeOK, NEW h \in Handlers, NEW step, Goto(h, step)
    PROVE  /\ at[h] = "idle" /\ step \in Leasing
                => Cardinality(Users') = Cardinality(Users) + 1
           /\ at[h] \in Leasing /\ step = "idle"
                => Cardinality(Users') = Cardinality(Users) - 1
           /\ at[h] \in Leasing /\ step \in Leasing => Users' = Users
           /\ at[h] = "idle" /\ step = "idle" => Users' = Users
<1>. USE DEF TypeOK, Goto, Leasing, Starting
<1>1. CASE at[h] = "idle" /\ step \in Leasing
  <2>1. Users' = Users \cup {h} /\ h \notin Users
    BY <1>1 DEF Users
  <2>. QED BY <1>1, <2>1, UsersFinite, FS_AddElement
<1>2. CASE at[h] \in Leasing /\ step = "idle"
  <2>1. Users' = Users \ {h} /\ h \in Users
    BY <1>2 DEF Users
  <2>. QED BY <1>2, <2>1, UsersFinite, FS_RemoveElement
<1>3. CASE at[h] \in Leasing /\ step \in Leasing
  <2>1. Users' = Users
    BY <1>3 DEF Users
  <2>. QED BY <1>3, <2>1
<1>4. CASE at[h] = "idle" /\ step = "idle"
  <2>1. Users' = Users
    BY <1>4 DEF Users
  <2>. QED BY <1>4, <2>1
<1>. QED BY <1>1, <1>2, <1>3, <1>4

\* A handler with a lease is counted.
LEMMA LeasesPositive ==
    ASSUME IInv, NEW h \in Handlers, at[h] \in Leasing
    PROVE  leases \in Nat /\ leases >= 1 /\ main # "exited"
<1>1. main # "exited"
  BY DEF IInv, ExitedIsIdle, Leasing, Starting
<1>2. leases = Cardinality(Users)
  BY <1>1 DEF IInv, LeasesCounted, Users
<1>3. Cardinality(Users) # 0
  BY UsersFinite, FS_EmptySet DEF Users
<1>. QED BY <1>1, <1>2, <1>3, UsersFinite

\* So none is missing when it is given back.
LEMMA FewerLeases ==
    ASSUME IInv, NEW h \in Handlers
    PROVE  /\ at[h] \in {"boot", "leased"} => leases - 1 \in Nat
           /\ at[h] = "idle" => leases - 0 \in Nat
<1>1. leases \in Nat
  BY DEF IInv, TypeOK
<1>2. ASSUME at[h] \in {"boot", "leased"} PROVE leases - 1 \in Nat
  BY <1>2, LeasesPositive DEF Leasing, Starting
<1>. QED BY <1>1, <1>2

\* stop() leaves nothing that the supervisor owns.
LEMMA StopOwnsNothing == StopDesktop => Owned' = {}
  BY DesktopAssumption DEF StopDesktop, Stops, Kill, Owned, Alive

LEMMA InitIInv == Init => IInv
<1>. SUFFICES ASSUME Init PROVE IInv
  OBVIOUS
<1>1. Users = {}
  BY DEF Init, Users, Leasing, Starting
<1>2. LeasesCounted
  BY <1>1, FS_EmptySet DEF Init, LeasesCounted, Users
<1>3. TypeOK
  BY DesktopAssumption DEF Init, TypeOK
<1>4. OneStart /\ ExitedIsIdle /\ RefusedOwnsNothing
  BY DEF Init, OneStart, ExitedIsIdle, RefusedOwnsNothing, Starting
<1>5. OwnedIsRunning
  BY DEF Init, OwnedIsRunning, Owned, Alive
<1>. QED BY <1>2, <1>3, <1>4, <1>5 DEF IInv

-----------------------------------------------------------------------------
(* One lemma per conjunct, one step per action.                            *)

LEMMA TypeStep ==
    ASSUME IInv, Next PROVE TypeOK'
<1>. USE DesktopAssumption DEF TypeOK, Leasing, Starting, Alive, Owned,
     lifecycle, records
<1>1. ASSUME NEW h \in Handlers, AcquireRefused(h) PROVE TypeOK'
  <2>1. leases' \in Nat
    BY <1>1, FewerLeases DEF AcquireRefused, Fail, LockFree, Goto, IInv
  <2>. QED BY <1>1, <2>1 DEF AcquireRefused, Fail, LockFree, Goto, IInv
<1>2. ASSUME NEW h \in Handlers, Acquire(h) PROVE TypeOK'
  BY <1>2 DEF Acquire, LockFree, Goto, IInv
<1>3. ASSUME NEW h \in Handlers, ProbeHit(h) PROVE TypeOK'
  BY <1>3 DEF ProbeHit, Succeed, Notify, Goto, IInv
<1>4. ASSUME NEW h \in Handlers, ProbeMiss(h) PROVE TypeOK'
  BY <1>4 DEF ProbeMiss, Goto, IInv
<1>5. ASSUME NEW h \in Handlers, Launch(h) PROVE TypeOK'
  BY <1>5 DEF Launch, Stops, Goto, IInv
<1>6. ASSUME NEW h \in Handlers, Booted(h) PROVE TypeOK'
  BY <1>6 DEF Booted, Succeed, Notify, Goto, IInv
<1>7. ASSUME NEW h \in Handlers, BootFails(h) PROVE TypeOK'
  <2>1. leases' \in Nat
    BY <1>7, FewerLeases DEF BootFails, StartFails, Fail, Notify,
       StopDesktop, Stops, Kill, Goto, IInv
  <2>. QED BY <1>7, <2>1 DEF BootFails, StartFails, Fail, Notify,
       StopDesktop, Stops, Kill, Goto, IInv
<1>8. ASSUME NEW h \in Handlers, Release(h) PROVE TypeOK'
  <2>1. leases' \in Nat
    BY <1>8, FewerLeases DEF Release, LockFree, Notify, Goto, IInv
  <2>. QED BY <1>8, <2>1 DEF Release, LockFree, Notify, Goto, IInv
<1>9. ASSUME NEW d \in Desktops, Boot(d) PROVE TypeOK'
  BY <1>9 DEF Boot, Ready, IInv
<1>10. ASSUME NEW d \in Desktops, Die(d) PROVE TypeOK'
  BY <1>10 DEF Die, Kill, IInv
<1>11. ASSUME SupervisorDies PROVE TypeOK'
  BY <1>11 DEF SupervisorDies, IInv
<1>12. ASSUME CooldownPasses PROVE TypeOK'
  BY <1>12 DEF CooldownPasses, IInv
<1>13. ASSUME IdlePasses PROVE TypeOK'
  BY <1>13 DEF IdlePasses, IInv
<1>14. ASSUME MonitorTimeout PROVE TypeOK'
  BY <1>14 DEF MonitorTimeout, IInv
<1>15. ASSUME MonitorStep PROVE TypeOK'
  BY <1>15 DEF MonitorStep, LockFree, StopDesktop, Stops, Kill, IInv
<1>16. ASSUME StartClose PROVE TypeOK'
  BY <1>16 DEF StartClose, LockFree, Notify, IInv
<1>17. ASSUME FinishClose PROVE TypeOK'
  BY <1>17 DEF FinishClose, LockFree, StopDesktop, Stops, Kill, IInv
<1>18. ASSUME Exit PROVE TypeOK'
  BY <1>18 DEF Exit, Kill, IInv
<1>. QED
  BY <1>1, <1>2, <1>3, <1>4, <1>5, <1>6, <1>7, <1>8, <1>9,
     <1>10, <1>11, <1>12, <1>13, <1>14, <1>15, <1>16, <1>17, <1>18
  DEF Next, StartStep

LEMMA OneStartStep ==
    ASSUME IInv, Next PROVE OneStart'
<1>. USE DEF IInv, TypeOK, OneStart, Starting, lifecycle, records
<1>1. ASSUME NEW h \in Handlers, AcquireRefused(h) PROVE OneStart'
  BY <1>1 DEF AcquireRefused, Fail, LockFree, Goto
<1>2. ASSUME NEW h \in Handlers, Acquire(h) PROVE OneStart'
  BY <1>2 DEF Acquire, LockFree, Goto
<1>3. ASSUME NEW h \in Handlers, ProbeHit(h) PROVE OneStart'
  BY <1>3 DEF ProbeHit, Succeed, Notify, Goto
<1>4. ASSUME NEW h \in Handlers, ProbeMiss(h) PROVE OneStart'
  BY <1>4 DEF ProbeMiss, Goto
<1>5. ASSUME NEW h \in Handlers, Launch(h) PROVE OneStart'
  BY <1>5 DEF Launch, Stops, Goto
<1>6. ASSUME NEW h \in Handlers, Booted(h) PROVE OneStart'
  BY <1>6 DEF Booted, Succeed, Notify, Goto
<1>7. ASSUME NEW h \in Handlers, BootFails(h) PROVE OneStart'
  BY <1>7 DEF BootFails, StartFails, Fail, Notify, StopDesktop, Stops, Kill,
     Goto
<1>8. ASSUME NEW h \in Handlers, Release(h) PROVE OneStart'
  BY <1>8 DEF Release, LockFree, Notify, Goto
<1>9. ASSUME NEW d \in Desktops, Boot(d) PROVE OneStart'
  BY <1>9 DEF Boot, Ready
<1>10. ASSUME NEW d \in Desktops, Die(d) PROVE OneStart'
  BY <1>10 DEF Die, Kill
<1>11. ASSUME SupervisorDies PROVE OneStart'
  BY <1>11 DEF SupervisorDies
<1>12. ASSUME CooldownPasses PROVE OneStart'
  BY <1>12 DEF CooldownPasses
<1>13. ASSUME IdlePasses PROVE OneStart'
  BY <1>13 DEF IdlePasses
<1>14. ASSUME MonitorTimeout PROVE OneStart'
  BY <1>14 DEF MonitorTimeout
<1>15. ASSUME MonitorStep PROVE OneStart'
  BY <1>15 DEF MonitorStep, LockFree, StopDesktop, Stops, Kill
<1>16. ASSUME StartClose PROVE OneStart'
  BY <1>16 DEF StartClose, LockFree, Notify
<1>17. ASSUME FinishClose PROVE OneStart'
  BY <1>17 DEF FinishClose, LockFree, StopDesktop, Stops, Kill
<1>18. ASSUME Exit PROVE OneStart'
  BY <1>18 DEF Exit, Kill
<1>. QED
  BY <1>1, <1>2, <1>3, <1>4, <1>5, <1>6, <1>7, <1>8, <1>9,
     <1>10, <1>11, <1>12, <1>13, <1>14, <1>15, <1>16, <1>17, <1>18
  DEF Next, StartStep

LEMMA ExitedStep ==
    ASSUME IInv, Next PROVE ExitedIsIdle'
<1>. USE DEF IInv, TypeOK, ExitedIsIdle, Starting, LockFree, lifecycle, records
<1>1. ASSUME NEW h \in Handlers, AcquireRefused(h) PROVE ExitedIsIdle'
  BY <1>1 DEF AcquireRefused, Fail, LockFree, Goto
<1>2. ASSUME NEW h \in Handlers, Acquire(h) PROVE ExitedIsIdle'
  BY <1>2 DEF Acquire, LockFree, Goto
<1>3. ASSUME NEW h \in Handlers, ProbeHit(h) PROVE ExitedIsIdle'
  BY <1>3 DEF ProbeHit, Succeed, Notify, Goto
<1>4. ASSUME NEW h \in Handlers, ProbeMiss(h) PROVE ExitedIsIdle'
  BY <1>4 DEF ProbeMiss, Goto
<1>5. ASSUME NEW h \in Handlers, Launch(h) PROVE ExitedIsIdle'
  BY <1>5 DEF Launch, Stops, Goto
<1>6. ASSUME NEW h \in Handlers, Booted(h) PROVE ExitedIsIdle'
  BY <1>6 DEF Booted, Succeed, Notify, Goto
<1>7. ASSUME NEW h \in Handlers, BootFails(h) PROVE ExitedIsIdle'
  BY <1>7 DEF BootFails, StartFails, Fail, Notify, StopDesktop, Stops, Kill,
     Goto
<1>8. ASSUME NEW h \in Handlers, Release(h) PROVE ExitedIsIdle'
  BY <1>8 DEF Release, LockFree, Notify, Goto
<1>9. ASSUME NEW d \in Desktops, Boot(d) PROVE ExitedIsIdle'
  BY <1>9 DEF Boot, Ready
<1>10. ASSUME NEW d \in Desktops, Die(d) PROVE ExitedIsIdle'
  BY <1>10 DEF Die, Kill
<1>11. ASSUME SupervisorDies PROVE ExitedIsIdle'
  BY <1>11 DEF SupervisorDies
<1>12. ASSUME CooldownPasses PROVE ExitedIsIdle'
  BY <1>12 DEF CooldownPasses
<1>13. ASSUME IdlePasses PROVE ExitedIsIdle'
  BY <1>13 DEF IdlePasses
<1>14. ASSUME MonitorTimeout PROVE ExitedIsIdle'
  BY <1>14 DEF MonitorTimeout
<1>15. ASSUME MonitorStep PROVE ExitedIsIdle'
  BY <1>15 DEF MonitorStep, LockFree, StopDesktop, Stops, Kill
<1>16. ASSUME StartClose PROVE ExitedIsIdle'
  BY <1>16 DEF StartClose, LockFree, Notify
<1>17. ASSUME FinishClose PROVE ExitedIsIdle'
  BY <1>17 DEF FinishClose, LockFree, StopDesktop, Stops, Kill
<1>18. ASSUME Exit PROVE ExitedIsIdle'
  BY <1>18 DEF Exit, Kill
<1>. QED
  BY <1>1, <1>2, <1>3, <1>4, <1>5, <1>6, <1>7, <1>8, <1>9,
     <1>10, <1>11, <1>12, <1>13, <1>14, <1>15, <1>16, <1>17, <1>18
  DEF Next, StartStep

LEMMA RefusedStep ==
    ASSUME IInv, Next PROVE RefusedOwnsNothing'
<1>. USE DesktopAssumption DEF IInv, TypeOK, OneStart, RefusedOwnsNothing,
     Starting, Owned, Alive, lifecycle, records
<1>1. ASSUME NEW h \in Handlers, AcquireRefused(h) PROVE RefusedOwnsNothing'
  BY <1>1 DEF AcquireRefused, Fail, LockFree, Goto
<1>2. ASSUME NEW h \in Handlers, Acquire(h) PROVE RefusedOwnsNothing'
  BY <1>2 DEF Acquire, LockFree, Goto
<1>3. ASSUME NEW h \in Handlers, ProbeHit(h) PROVE RefusedOwnsNothing'
  BY <1>3 DEF ProbeHit, Succeed, Notify, Goto
<1>4. ASSUME NEW h \in Handlers, ProbeMiss(h) PROVE RefusedOwnsNothing'
  BY <1>4 DEF ProbeMiss, Goto
<1>5. ASSUME NEW h \in Handlers, Launch(h) PROVE RefusedOwnsNothing'
  BY <1>5 DEF Launch, Stops, Goto
<1>6. ASSUME NEW h \in Handlers, Booted(h) PROVE RefusedOwnsNothing'
  BY <1>6 DEF Booted, Succeed, Notify, Goto
<1>7. ASSUME NEW h \in Handlers, BootFails(h) PROVE RefusedOwnsNothing'
  BY <1>7, StopOwnsNothing DEF BootFails, StartFails, Fail, Goto
<1>8. ASSUME NEW h \in Handlers, Release(h) PROVE RefusedOwnsNothing'
  BY <1>8 DEF Release, LockFree, Notify, Goto
<1>9. ASSUME NEW d \in Desktops, Boot(d) PROVE RefusedOwnsNothing'
  BY <1>9 DEF Boot, Ready
<1>10. ASSUME NEW d \in Desktops, Die(d) PROVE RefusedOwnsNothing'
  BY <1>10 DEF Die, Kill
<1>11. ASSUME SupervisorDies PROVE RefusedOwnsNothing'
  BY <1>11 DEF SupervisorDies
<1>12. ASSUME CooldownPasses PROVE RefusedOwnsNothing'
  BY <1>12 DEF CooldownPasses
<1>13. ASSUME IdlePasses PROVE RefusedOwnsNothing'
  BY <1>13 DEF IdlePasses
<1>14. ASSUME MonitorTimeout PROVE RefusedOwnsNothing'
  BY <1>14 DEF MonitorTimeout
<1>15. ASSUME MonitorStep PROVE RefusedOwnsNothing'
  BY <1>15 DEF MonitorStep, LockFree, StopDesktop, Stops, Kill
<1>16. ASSUME StartClose PROVE RefusedOwnsNothing'
  BY <1>16 DEF StartClose, LockFree, Notify
<1>17. ASSUME FinishClose PROVE RefusedOwnsNothing'
  BY <1>17 DEF FinishClose, LockFree, StopDesktop, Stops, Kill
<1>18. ASSUME Exit PROVE RefusedOwnsNothing'
  BY <1>18 DEF Exit, Kill
<1>. QED
  BY <1>1, <1>2, <1>3, <1>4, <1>5, <1>6, <1>7, <1>8, <1>9,
     <1>10, <1>11, <1>12, <1>13, <1>14, <1>15, <1>16, <1>17, <1>18
  DEF Next, StartStep

LEMMA OwnedStep ==
    ASSUME IInv, Next PROVE OwnedIsRunning'
<1>. USE DesktopAssumption DEF IInv, TypeOK, OneStart, RefusedOwnsNothing,
     OwnedIsRunning, LockFree, Starting, Owned, Alive, lifecycle, records
<1>1. ASSUME NEW h \in Handlers, AcquireRefused(h) PROVE OwnedIsRunning'
  BY <1>1 DEF AcquireRefused, Fail, LockFree, Goto
<1>2. ASSUME NEW h \in Handlers, Acquire(h) PROVE OwnedIsRunning'
  BY <1>2 DEF Acquire, LockFree, Goto
<1>3. ASSUME NEW h \in Handlers, ProbeHit(h) PROVE OwnedIsRunning'
  BY <1>3 DEF ProbeHit, Succeed, Notify, Goto
<1>4. ASSUME NEW h \in Handlers, ProbeMiss(h) PROVE OwnedIsRunning'
  BY <1>4 DEF ProbeMiss, Goto
<1>5. ASSUME NEW h \in Handlers, Launch(h) PROVE OwnedIsRunning'
  BY <1>5 DEF Launch, Stops, Goto
<1>6. ASSUME NEW h \in Handlers, Booted(h) PROVE OwnedIsRunning'
  BY <1>6 DEF Booted, Succeed, Notify, Goto
<1>7. ASSUME NEW h \in Handlers, BootFails(h) PROVE OwnedIsRunning'
  BY <1>7 DEF BootFails, StartFails, Fail, Notify, StopDesktop, Stops, Kill,
     Goto
<1>8. ASSUME NEW h \in Handlers, Release(h) PROVE OwnedIsRunning'
  BY <1>8 DEF Release, LockFree, Notify, Goto
<1>9. ASSUME NEW d \in Desktops, Boot(d) PROVE OwnedIsRunning'
  BY <1>9 DEF Boot, Ready
<1>10. ASSUME NEW d \in Desktops, Die(d) PROVE OwnedIsRunning'
  BY <1>10 DEF Die, Kill
<1>11. ASSUME SupervisorDies PROVE OwnedIsRunning'
  BY <1>11 DEF SupervisorDies
<1>12. ASSUME CooldownPasses PROVE OwnedIsRunning'
  BY <1>12 DEF CooldownPasses
<1>13. ASSUME IdlePasses PROVE OwnedIsRunning'
  BY <1>13 DEF IdlePasses
<1>14. ASSUME MonitorTimeout PROVE OwnedIsRunning'
  BY <1>14 DEF MonitorTimeout
<1>15. ASSUME MonitorStep PROVE OwnedIsRunning'
  BY <1>15 DEF MonitorStep, LockFree, StopDesktop, Stops, Kill
<1>16. ASSUME StartClose PROVE OwnedIsRunning'
  BY <1>16 DEF StartClose, LockFree, Notify
<1>17. ASSUME FinishClose PROVE OwnedIsRunning'
  BY <1>17 DEF FinishClose, LockFree, StopDesktop, Stops, Kill
<1>18. ASSUME Exit PROVE OwnedIsRunning'
  BY <1>18 DEF Exit, Kill
<1>. QED
  BY <1>1, <1>2, <1>3, <1>4, <1>5, <1>6, <1>7, <1>8, <1>9,
     <1>10, <1>11, <1>12, <1>13, <1>14, <1>15, <1>16, <1>17, <1>18
  DEF Next, StartStep

\* LeasesCounted: a handler's move changes the requests as UsersChange says,
\* other steps change neither them nor the count.
LEMMA LeasesStep ==
    ASSUME IInv, Next PROVE LeasesCounted'
<1>1. TypeOK
  BY DEF IInv
<1>2. main # "exited" => leases = Cardinality(Users)
  BY DEF IInv, LeasesCounted, Users
<1>3. SUFFICES ASSUME main' # "exited" PROVE leases' = Cardinality(Users')
  BY DEF LeasesCounted, Users
<1>4. ASSUME NEW h \in Handlers,
             AcquireRefused(h) \/ Acquire(h) \/ StartStep(h) \/ Release(h)
      PROVE  leases' = Cardinality(Users')
  <2>1. PICK n \in {-1, 0, 1} :
            /\ leases' = leases + n
            /\ Cardinality(Users') = Cardinality(Users) + n
    <3>1. CASE AcquireRefused(h)
      <4>1. Goto(h, "idle") /\ at[h] = "idle" /\ leases' = leases - 0
        BY <3>1 DEF AcquireRefused, Fail
      <4>. QED BY <1>1, <4>1, UsersChange, UsersFinite DEF TypeOK
    <3>2. CASE Acquire(h)
      <4>1. Goto(h, "probe") /\ at[h] = "idle" /\ leases' = leases + 1
        BY <3>2 DEF Acquire
      <4>. QED BY <1>1, <4>1, UsersChange DEF Leasing, Starting
    <3>3. CASE ProbeHit(h) \/ Booted(h)
      <4>1. Goto(h, "leased") /\ at[h] \in Starting /\ leases' = leases
        BY <3>3 DEF ProbeHit, Booted, Succeed, Starting
      <4>. QED BY <1>1, <4>1, UsersChange, UsersFinite DEF TypeOK, Leasing
    <3>4. CASE ProbeMiss(h)
      <4>1. Goto(h, "launch") /\ at[h] \in Starting /\ leases' = leases
        BY <3>4 DEF ProbeMiss, Starting, lifecycle
      <4>. QED
        BY <1>1, <4>1, UsersChange, UsersFinite DEF TypeOK, Leasing, Starting
    <3>5. CASE Launch(h)
      <4>1. Goto(h, "boot") /\ at[h] \in Starting /\ leases' = leases
        BY <3>5 DEF Launch, Starting, lifecycle
      <4>. QED
        BY <1>1, <4>1, UsersChange, UsersFinite DEF TypeOK, Leasing, Starting
    <3>6. CASE BootFails(h)
      <4>1. Goto(h, "idle") /\ at[h] = "boot" /\ leases' = leases - 1
        BY <3>6 DEF BootFails, StartFails, Fail
      <4>. QED
        BY <1>1, <4>1, UsersChange, UsersFinite DEF TypeOK, Leasing, Starting
    <3>7. CASE Release(h)
      <4>1. Goto(h, "idle") /\ at[h] = "leased" /\ leases' = leases - 1
        BY <3>7 DEF Release
      <4>. QED
        BY <1>1, <4>1, UsersChange, UsersFinite DEF TypeOK, Leasing, Starting
    <3>. QED
      BY <1>4, <3>1, <3>2, <3>3, <3>4, <3>5, <3>6, <3>7 DEF StartStep
  <2>2. main # "exited"
    BY <1>3, <1>4 DEF AcquireRefused, Acquire, StartStep, Release, LockFree,
         ProbeHit, ProbeMiss, Launch, Booted, BootFails, Succeed, StartFails
  <2>. QED BY <1>2, <2>1, <2>2
<1>5. ASSUME at' = at, leases' = leases, main # "exited"
      PROVE  leases' = Cardinality(Users')
  <2>1. Users' = Users
    BY <1>5 DEF Users
  <2>. QED BY <1>2, <1>5, <2>1
<1>6. ASSUME \/ \E d \in Desktops : Boot(d) \/ Die(d)
             \/ SupervisorDies \/ CooldownPasses \/ IdlePasses
             \/ MonitorTimeout \/ MonitorStep
             \/ StartClose \/ FinishClose
      PROVE  at' = at /\ leases' = leases /\ main # "exited"
  BY <1>3, <1>6 DEF Boot, Die, SupervisorDies, CooldownPasses, IdlePasses,
       MonitorTimeout, MonitorStep, StartClose, FinishClose, LockFree,
          lifecycle
<1>7. ~Exit
  BY <1>3 DEF Exit
<1>. QED BY <1>4, <1>5, <1>6, <1>7 DEF Next

LEMMA Stutter == IInv /\ UNCHANGED vars => IInv'
<1>. SUFFICES ASSUME IInv, UNCHANGED vars PROVE IInv'
  OBVIOUS
<1>. USE DEF vars, lifecycle, records, IInv
<1>1. TypeOK'
  BY DEF TypeOK, Alive
<1>2. OneStart' /\ ExitedIsIdle' /\ LeasesCounted'
  BY DEF OneStart, ExitedIsIdle, LeasesCounted
<1>3. RefusedOwnsNothing' /\ OwnedIsRunning'
  BY DEF RefusedOwnsNothing, OwnedIsRunning, LockFree, Owned, Alive
<1>. QED BY <1>1, <1>2, <1>3

LEMMA StepIInv == IInv /\ [Next]_vars => IInv'
<1>1. ASSUME IInv, Next PROVE IInv'
  BY <1>1, TypeStep, OneStartStep, ExitedStep, RefusedStep, LeasesStep,
     OwnedStep
  DEF IInv
<1>. QED BY <1>1, Stutter

-----------------------------------------------------------------------------
(* Theorems.                                                               *)

THEOREM Invariant == Spec => []IInv
  BY InitIInv, StepIInv, PTL DEF Spec

\* The state keeps its types; what is recorded of processes is of live ones.
THEOREM TypeCorrect == Spec => []TypeOK
<1>1. IInv => TypeOK
  BY DEF IInv
<1>. QED BY <1>1, Invariant, PTL

\* acquire and release keep the count of those who use the desktop, whatever
\* start() answers them.
THEOREM LeaseCount == Spec => []LeasesCounted
<1>1. IInv => LeasesCounted
  BY DEF IInv
<1>. QED BY <1>1, Invariant, PTL

\* The idle monitor and close() see every desktop the supervisor could stop.
THEOREM Ownership == Spec => []OwnedIsRunning
<1>1. IInv => OwnedIsRunning
  BY DEF IInv
<1>. QED BY <1>1, Invariant, PTL

-----------------------------------------------------------------------------
(* Action properties.                                                      *)

\* Only Launch starts a desktop, and it stops what is recorded first.
LEMMA LaunchStops ==
    ASSUME TypeOK, Next, NEW d \in Desktops, NEW e \in Desktops,
           d # e, tree[e] = "none", tree'[e] = "booting", d \in known
    PROVE  tree'[d] = "none"
<1>. USE DEF TypeOK, lifecycle, records
<1>1. ASSUME NEW h \in Handlers, Launch(h) PROVE tree'[d] = "none"
  BY <1>1 DEF Launch, Stops
<1>2. ASSUME NEW S \in SUBSET Desktops, Kill(S) PROVE FALSE
  BY <1>2 DEF Kill
<1>3. ASSUME tree' = tree PROVE FALSE
  BY <1>3
<1>4. ASSUME StopDesktop PROVE FALSE
  BY <1>2, <1>4 DEF StopDesktop, Owned, Alive
<1>5. ASSUME NEW f \in Desktops, Boot(f) PROVE FALSE
  BY <1>5 DEF Boot
<1>6. ASSUME NEW f \in Desktops, Die(f) PROVE FALSE
  BY <1>2, <1>6 DEF Die
<1>7. ASSUME MonitorStep \/ FinishClose PROVE FALSE
  BY <1>3, <1>4, <1>7 DEF MonitorStep, FinishClose
<1>8. ASSUME NEW h \in Handlers, BootFails(h) PROVE FALSE
  BY <1>4, <1>8 DEF BootFails, StartFails
<1>9. ~Exit
  BY <1>2 DEF Exit
<1>10. ASSUME NEW h \in Handlers,
              AcquireRefused(h) \/ Acquire(h) \/ ProbeHit(h) \/ ProbeMiss(h)
                  \/ Booted(h) \/ Release(h)
       PROVE  FALSE
  BY <1>3, <1>10 DEF AcquireRefused, Acquire, ProbeHit, ProbeMiss, Booted,
       Release, Succeed
<1>11. ~(SupervisorDies \/ CooldownPasses \/ IdlePasses \/ MonitorTimeout
             \/ StartClose)
  BY <1>3 DEF SupervisorDies, CooldownPasses, IdlePasses, MonitorTimeout,
       StartClose
<1>. QED
  BY <1>1, <1>5, <1>6, <1>7, <1>8, <1>9, <1>10, <1>11 DEF Next, StartStep

\* A desktop once recorded never gets a second one beside it.
THEOREM OneRecordedDesktop == Spec => NoneBesideRecorded
<1>1. TypeOK /\ [Next]_vars =>
        [\A d, e \in Desktops :
            d # e /\ tree[e] = "none" /\ tree'[e] = "booting" /\ d \in known
                => tree'[d] = "none"]_vars
  BY LaunchStops
<1>. QED BY <1>1, TypeCorrect, PTL DEF Spec, NoneBesideRecorded

\* The idle timer stops no desktop under a lease.
THEOREM IdleStop == Spec => IdleStopSparesLeases
<1>1. ASSUME IInv, MonitorStep, tree' # tree, NEW h \in Handlers
      PROVE  at[h] = "idle"
  <2>1. leases = 0
    BY <1>1 DEF MonitorStep
  <2>2. at[h] \notin Leasing
    BY <1>1, <2>1, LeasesPositive
  <2>. QED BY <1>1, <2>2 DEF IInv, TypeOK
<1>2. IInv /\ [Next]_vars =>
        [MonitorStep /\ tree' # tree => \A h \in Handlers : at[h] =
           "idle"]_vars
  BY <1>1
<1>. QED BY <1>2, Invariant, PTL DEF Spec, IdleStopSparesLeases
=============================================================================
