--------------------------- MODULE LifecycleProofs ---------------------------
(***************************************************************************)
(* The safety properties of Lifecycle for any number of plugins and tasks, *)
(* under the disciplined use: Quirks = {}.                                 *)
(***************************************************************************)
EXTENDS Lifecycle, TLAPS

Busy == {"starting", "rollback", "stopping", "unusing"}

\* A task is inside the critical section exactly when it holds the lock.
LockHeld == \A t \in Tasks : pc[t] \in Busy <=> lock = t

\* The lock holder awaits the plugin in a real slot.
AwaitsSlot ==
    \A t \in Tasks : pc[t] \in {"starting", "rollback", "stopping"} => cur \in Slots

TypeInv == TypeOK /\ LockHeld /\ AwaitsSlot

\* No instance is registered twice, and slots not handed out yet are empty.
Distinct ==
    /\ \A i, j \in Slots : entry[i] # None /\ entry[i] = entry[j] => i = j
    /\ \A i \in Slots : i > uses => entry[i] = None

\* A list the lock holder works on holds registered plugins with status s.
Holds(list, s) ==
    \A i \in Slots : list[i] # None => list[i] = entry[i] /\ status[i] = s

At(l) == \E t \in Tasks : pc[t] = l

Up(i) == entry[i] # None /\ status[i] = "STARTED"

\* No lists outside a critical section.
IdleInv ==
    lock = None \/ At("unusing") =>
        todo = Empty /\ newly = Empty /\ cur = 0 /\ ~subscribed

\* start() goes through what was unstarted when it took the lock, in order.
StartFacts ==
    /\ IsFirstOf(cur, todo)
    /\ Holds(todo, "REGISTERED")
    /\ Holds(newly, "STARTED")
    /\ mark <= uses
    /\ \A i \in Slots : i <= mark /\ entry[i] # None /\ status[i] = "REGISTERED"
                            => todo[i] # None
    /\ \A i \in Slots : todo[i] # None => i <= mark
    /\ \A i, j \in Slots : newly[i] # None /\ i < j /\ Up(j) => newly[j] # None
    /\ ~started => \A i \in Slots : Up(i) => newly[i] # None
StartingInv == At("starting") => StartFacts

\* The rollback undoes this pass from its end: nothing later is still up.
RollbackFacts ==
    /\ IsLastOf(cur, todo)
    /\ Holds(todo, "STARTED")
    /\ newly = Empty
    /\ ~subscribed
    /\ \A i, j \in Slots : todo[i] # None /\ i < j /\ Up(j) => todo[j] # None
    /\ ~started => \A i \in Slots : Up(i) => todo[i] # None
RollbackInv == At("rollback") => RollbackFacts

StopFacts ==
    /\ started
    /\ IsLastOf(cur, todo)
    /\ Holds(todo, "STARTED")
    /\ newly = Empty
    /\ ~subscribed
    /\ \A i \in Slots : Up(i) => todo[i] # None
StoppingInv == At("stopping") => StopFacts

\* Only a started harness has a started plugin to unuse.
UnusingInv == At("unusing") => started

\* _started is unset only when nothing is up, unless a first start is at work.
StartedInv == lock = None /\ ~started => \A i \in Slots : ~Up(i)

NoThreads == \A p \in Plugins : thread[p] = "none"

\* LiveIsTracked and SubscriptionsMatch, told in terms of slots.
UpIn(p) == \E i \in Slots : entry[i] = p /\ status[i] = "STARTED"
LiveUp == \A p \in Plugins : live[p] => UpIn(p)
SubsInv ==
    \A p \in Plugins :
        subs[p] = IF p \in Subscribers /\ (UpIn(p) \/ Subscribing(p)) THEN 1 ELSE 0

PhaseInv == IdleInv /\ StartingInv /\ RollbackInv /\ StoppingInv /\ UnusingInv /\ StartedInv
PluginInv == Distinct /\ DependencyOrder /\ LiveUp /\ SubsInv /\ NoThreads

\* The inductive invariant.
LifecycleInv == TypeInv /\ PhaseInv /\ PluginInv

-----------------------------------------------------------------------------
(* Types and mutual exclusion. *)

Lists == [Slots -> Plugins \cup {None}]

\* Lists indexed by slot: the empty one, and one with an entry overwritten.
LEMMA ListType ==
    /\ Empty \in Lists
    /\ \A i : \A list \in Lists, p \in Plugins \cup {None} : [list EXCEPT ![i] = p] \in Lists
    /\ \A list \in Lists, i \in Slots : list[i] \in Plugins \cup {None}
  BY DEF Lists, Empty

\* A slot, and the 0 of no slot, is a value of cur.
LEMMA SlotType == 0 \in 0..MaxUses /\ \A i \in Slots : i \in 0..MaxUses
  BY LifecycleAssumption DEF Slots

\* Types and mutual exclusion hold initially.
LEMMA TypeInit == Init => TypeInv
  <1> SUFFICES ASSUME Init PROVE TypeInv
    OBVIOUS
  <1>1. TypeRegistry
    BY LifecycleAssumption DEF Init, TypeRegistry, Empty, Status
  <1>2. TypeCalls
    BY LifecycleAssumption DEF Init, TypeCalls, Ops
  <1>3. TypeHolder
    BY ListType, SlotType DEF Init, TypeHolder, Lists
  <1>4. LockHeld /\ AwaitsSlot
    BY LifecycleAssumption DEF Init, LockHeld, AwaitsSlot, Busy
  <1>5. QED
    BY <1>1, <1>2, <1>3, <1>4 DEF TypeInv, TypeOK

\* The calls of the task that may go on: it holds the lock, or the lock is free.
Turn(t) == lock = t \/ (lock = None /\ pc[t] = "lock")

\* Leaving the lock keeps types and mutual exclusion.
LEMMA ReleaseType ==
    ASSUME TypeInv, NEW t \in Tasks, Turn(t), NEW l \in {"idle", "running"}, Release(t, l),
           started' \in BOOLEAN, UNCHANGED <<op, target>>
    PROVE  TypeCalls' /\ TypeHolder' /\ LockHeld' /\ AwaitsSlot'
  <1> USE LifecycleAssumption
  <1>1. TypeCalls'
    BY DEF TypeInv, TypeOK, TypeCalls, Release, Goto
  <1>2. TypeHolder'
    BY ListType, SlotType DEF TypeInv, TypeOK, TypeHolder, Release, Lists
  <1>3. LockHeld'
    BY DEF TypeInv, TypeOK, TypeCalls, LockHeld, Busy, Turn, Release, Goto
  <1>4. AwaitsSlot'
    BY DEF TypeInv, TypeOK, TypeCalls, LockHeld, AwaitsSlot, Busy, Turn, Release, Goto
  <1>5. QED
    BY <1>1, <1>2, <1>3, <1>4

\* Entering an await inside the lock keeps types and mutual exclusion.
LEMMA AwaitType ==
    ASSUME TypeInv, NEW t \in Tasks, Turn(t), NEW l \in {"starting", "rollback", "stopping"},
           Goto(t, l), lock' = t, cur' \in Slots, UNCHANGED <<started, op, target>>
    PROVE  TypeCalls' /\ LockHeld' /\ AwaitsSlot'
  <1> USE LifecycleAssumption
  <1>1. TypeCalls'
    BY DEF TypeInv, TypeOK, TypeCalls, Goto
  <1>2. LockHeld'
    BY DEF TypeInv, TypeOK, TypeCalls, LockHeld, Busy, Turn, Goto
  <1>3. QED
    BY <1>1, <1>2 DEF AwaitsSlot

\* A step of a call that keeps the lock's owner and every critical section.
LEMMA OutsideType ==
    ASSUME TypeInv, NEW t \in Tasks, pc[t] \notin Busy, NEW l \in {"idle", "lock"},
           Goto(t, l), UNCHANGED <<started, lock, holder>>,
           op' \in [Tasks -> Ops], target' \in [Tasks -> Plugins \cup {None}],
           \A u \in Tasks : op'[u] = "unuse" => target'[u] # None
    PROVE  TypeCalls' /\ TypeHolder' /\ LockHeld' /\ AwaitsSlot'
  BY DEF TypeInv, TypeOK, TypeCalls, TypeHolder, LockHeld, AwaitsSlot, Busy, Goto, holder

\* Updates of the registry are well typed.
LEMMA RegistryType ==
    ASSUME TypeRegistry
    PROVE  /\ \A p, s : s \in Status => SetStatus(p, s) \in [Slots -> Status]
           /\ \A S : RemoveSubscriptions(S) \in [Plugins -> Nat]
           /\ \A s : WithStatus(s) \in [Slots -> Plugins \cup {None}]
           /\ \A p : [live EXCEPT ![p] = FALSE] \in [Plugins -> BOOLEAN]
  BY DEF TypeRegistry, SetStatus, RemoveSubscriptions, WithStatus

\* Dropping subscriptions leaves their count typed.
LEMMA UntrackType ==
    ASSUME TypeRegistry, NEW p, Untrack(p), UNCHANGED <<entry, uses, thread>>
    PROVE  TypeRegistry'
  BY RegistryType DEF TypeRegistry, Untrack, Status

\* Removing an entry leaves the registry typed.
LEMMA RemoveType ==
    ASSUME TypeRegistry, NEW p, Remove(p), live' \in [Plugins -> BOOLEAN], UNCHANGED thread
    PROVE  TypeRegistry'
  BY RegistryType DEF TypeRegistry, Remove, Status

\* Every step keeps the types and the mutual exclusion of the lifecycle lock.
LEMMA TypeStep == TypeInv /\ [Next]_vars => TypeInv'
  <1> SUFFICES ASSUME TypeInv, [Next]_vars PROVE TypeInv'
    OBVIOUS
  <1> USE LifecycleAssumption
  <1>0. /\ TypeRegistry /\ TypeCalls /\ TypeHolder /\ LockHeld /\ AwaitsSlot
        /\ \A t \in Tasks : pc[t] \in Busy => Turn(t)
    BY DEF TypeInv, TypeOK, LockHeld, Turn
  <1> SUFFICES TypeRegistry' /\ TypeCalls' /\ TypeHolder' /\ LockHeld' /\ AwaitsSlot'
    BY DEF TypeInv, TypeOK
  <1> DEFINE Goal == TypeRegistry' /\ TypeCalls' /\ TypeHolder' /\ LockHeld' /\ AwaitsSlot'
  <1>1. CASE UNCHANGED vars
    BY <1>0, <1>1 DEF vars, registry, holder, TypeRegistry, TypeCalls, TypeHolder, LockHeld,
                      AwaitsSlot
  <1>2. ASSUME NEW p \in Plugins, Use(p) PROVE Goal
    <2>1. TypeRegistry'
      BY <1>0, <1>2 DEF Use, TypeRegistry, Status, Slots
    <2>2. QED
      BY <1>0, <1>2, <2>1 DEF Use, holder, TypeCalls, TypeHolder, LockHeld, AwaitsSlot
  <1>3. ASSUME NEW cap \in Capabilities, NEW p \in Plugins, Replace(cap, p) PROVE Goal
    <2>1. TypeRegistry'
      BY <1>0, <1>3, RegistryType DEF Replace, TypeRegistry, Status
    <2>2. QED
      BY <1>0, <1>3, <2>1 DEF Replace, holder, TypeCalls, TypeHolder, LockHeld, AwaitsSlot
  <1>4. ASSUME NEW t \in Tasks, NEW o \in Ops, NEW p \in Plugins \cup {None}, Call(t, o, p)
        PROVE Goal
    <2>1. /\ op' \in [Tasks -> Ops] /\ target' \in [Tasks -> Plugins \cup {None}]
          /\ \A u \in Tasks : op'[u] = "unuse" => target'[u] # None
      BY <1>0, <1>4 DEF Call, TypeCalls
    <2>2. TypeRegistry'
      BY <1>0, <1>4 DEF Call, registry, TypeRegistry
    <2>3. QED
      BY <1>4, <2>1, <2>2, OutsideType DEF Call, Busy
  <1>5. ASSUME NEW t \in Tasks, CancelWaiting(t) \/ RunEnds(t) PROVE Goal
    <2>1. /\ op' \in [Tasks -> Ops] /\ target' \in [Tasks -> Plugins \cup {None}]
          /\ \A u \in Tasks : op'[u] = "unuse" => target'[u] # None
      BY <1>0, <1>5 DEF CancelWaiting, RunEnds, TypeCalls
    <2>2. TypeRegistry'
      BY <1>0, <1>5 DEF CancelWaiting, RunEnds, registry, TypeRegistry
    <2>3. QED
      BY <1>5, <2>1, <2>2, OutsideType DEF CancelWaiting, RunEnds, Busy
  <1>6. ASSUME NEW t \in Tasks, BeginStart(t) PROVE Goal
    <2>1. TypeRegistry' /\ Turn(t)
      BY <1>0, <1>6 DEF BeginStart, Acquire, Turn, registry, TypeRegistry
    <2>2. CASE Release(t, "idle") /\ UNCHANGED started
      BY <1>0, <1>6, <2>1, <2>2, ReleaseType DEF BeginStart, TypeCalls
    <2>3. CASE /\ started' = TRUE /\ lock' = None /\ Goto(t, Started(t)) /\ mark' = uses
               /\ UNCHANGED <<todo, newly, cur, subscribed>>
      <3>1. TypeCalls'
        BY <1>0, <1>6, <2>3 DEF BeginStart, TypeCalls, Goto, Started
      <3>2. TypeHolder'
        BY <1>0, <1>6, <2>3 DEF TypeHolder, TypeRegistry
      <3>3. LockHeld' /\ AwaitsSlot'
        BY <1>0, <2>1, <2>3 DEF LockHeld, AwaitsSlot, Busy, Turn, Goto, Started, TypeCalls
      <3>4. QED
        BY <2>1, <3>1, <3>2, <3>3
    <2>4. CASE /\ Await(t, "starting", WithStatus("REGISTERED"), IsFirstOf) /\ lock' = t
               /\ newly' = Empty /\ mark' = uses /\ UNCHANGED started
      <3>1. cur' \in Slots /\ Goto(t, "starting")
        BY <2>4 DEF Await
      <3>2. TypeHolder'
        BY <1>0, <2>4, <3>1, RegistryType DEF TypeHolder, TypeRegistry, Await, Empty, Slots
      <3>3. QED
        BY <1>6, <2>1, <2>4, <3>1, <3>2, AwaitType DEF BeginStart
    <2>5. QED
      BY <1>6, <2>2, <2>3, <2>4 DEF BeginStart
  <1>7. ASSUME NEW t \in Tasks, PluginSubscribes(t) PROVE Goal
    BY <1>0, <1>7 DEF PluginSubscribes, TypeRegistry, TypeCalls, TypeHolder, LockHeld, AwaitsSlot
  <1>8. ASSUME NEW t \in Tasks, StartReturns(t) PROVE Goal
    <2>1. Turn(t) /\ cur \in Slots
      BY <1>0, <1>8 DEF StartReturns, Busy, AwaitsSlot
    <2>2. TypeRegistry'
      BY <1>0, <1>8, RegistryType DEF StartReturns, TypeRegistry, Status
    <2>3. CASE /\ newly' = [newly EXCEPT ![cur] = todo[cur]]
               /\ Await(t, "starting", [todo EXCEPT ![cur] = None], IsFirstOf)
               /\ UNCHANGED <<started, lock, mark>>
      <3>1. cur' \in Slots /\ Goto(t, "starting") /\ lock' = t
        BY <1>0, <1>8, <2>3 DEF Await, StartReturns, LockHeld, Busy
      <3>2. TypeHolder'
        BY <1>0, <2>1, <2>3, <3>1, ListType, SlotType DEF TypeHolder, Await, Lists
      <3>3. QED
        BY <1>8, <2>1, <2>2, <2>3, <3>1, <3>2, AwaitType DEF StartReturns
    <2>4. CASE started' = TRUE /\ Release(t, Started(t))
      BY <1>8, <2>1, <2>2, <2>4, ReleaseType DEF StartReturns, Started
    <2>5. QED
      BY <1>8, <2>3, <2>4 DEF StartReturns
  <1>9. ASSUME NEW t \in Tasks, pc[t] = "starting", AbortStart(t)
        PROVE TypeCalls' /\ TypeHolder' /\ LockHeld' /\ AwaitsSlot'
    <2>1. Turn(t) /\ UNCHANGED <<started, op, target>>
      BY <1>0, <1>9 DEF AbortStart, Busy
    <2>2. CASE Await(t, "rollback", newly, IsLastOf) /\ newly' = Empty /\ UNCHANGED <<lock, mark>>
      <3>1. cur' \in Slots /\ Goto(t, "rollback") /\ lock' = t
        BY <1>0, <1>9, <2>2 DEF Await, LockHeld, Busy
      <3>2. TypeHolder'
        BY <1>0, <2>2, <3>1, ListType, SlotType DEF TypeHolder, Await, Lists
      <3>3. QED
        BY <2>1, <3>1, <3>2, AwaitType
    <2>3. CASE Release(t, "idle")
      BY <1>0, <2>1, <2>3, ReleaseType DEF TypeCalls
    <2>4. QED
      BY <1>9, <2>2, <2>3 DEF AbortStart
  <1>10. ASSUME NEW t \in Tasks, StartRaises(t) \/ StartCancelled(t) PROVE Goal
    <2>1. TypeRegistry'
      BY <1>0, <1>10, RegistryType DEF StartRaises, StartCancelled, AbortStart, TypeRegistry, Status
    <2>2. QED
      BY <1>9, <1>10, <2>1 DEF StartRaises, StartCancelled
  <1>11. ASSUME NEW t \in Tasks, RollbackReturns(t) PROVE Goal
    <2>1. Turn(t) /\ UNCHANGED <<started, op, target>> /\ TypeRegistry'
      BY <1>0, <1>11, UntrackType DEF RollbackReturns, Busy
    <2>2. CASE /\ Await(t, "rollback", [todo EXCEPT ![cur] = None], IsLastOf)
               /\ UNCHANGED <<lock, newly, mark>>
      <3>1. cur' \in Slots /\ Goto(t, "rollback") /\ lock' = t
        BY <1>0, <1>11, <2>2 DEF RollbackReturns, Await, LockHeld, Busy
      <3>2. TypeHolder'
        BY <1>0, <2>2, <3>1, ListType, SlotType DEF TypeHolder, Await, Lists
      <3>3. QED
        BY <2>1, <3>1, <3>2, AwaitType
    <2>3. CASE Release(t, "idle")
      BY <1>0, <2>1, <2>3, ReleaseType DEF TypeCalls
    <2>4. QED
      BY <1>11, <2>2, <2>3 DEF RollbackReturns
  <1>12. ASSUME NEW t \in Tasks, RollbackCancelled(t) PROVE Goal
    <2>1. Turn(t) /\ TypeRegistry'
      BY <1>0, <1>12, UntrackType DEF RollbackCancelled, Busy
    <2>2. QED
      BY <1>0, <1>12, <2>1, ReleaseType DEF RollbackCancelled, TypeCalls
  <1>13. ASSUME NEW p \in Plugins, ThreadSubscribes(p) \/ ThreadReturns(p) PROVE Goal
    <2>1. CASE ThreadSubscribes(p)
      BY <1>0, <2>1 DEF ThreadSubscribes, TypeRegistry, holder, TypeCalls, TypeHolder, LockHeld,
                        AwaitsSlot
    <2>2. CASE ThreadReturns(p)
      BY <1>0, <2>2 DEF ThreadReturns, TypeRegistry, registry, holder, TypeCalls, TypeHolder,
                        LockHeld, AwaitsSlot
    <2>3. QED
      BY <1>13, <2>1, <2>2
  <1>14. ASSUME NEW t \in Tasks, BeginStop(t) PROVE Goal
    <2>1. Turn(t) /\ TypeRegistry'
      BY <1>0, <1>14 DEF BeginStop, Acquire, Turn, registry, TypeRegistry
    <2>2. CASE started' = FALSE /\ Release(t, "idle")
      BY <1>14, <2>1, <2>2, ReleaseType DEF BeginStop
    <2>3. CASE /\ Await(t, "stopping", WithStatus("STARTED"), IsLastOf)
               /\ lock' = t /\ UNCHANGED <<started, newly, mark>>
      <3>1. cur' \in Slots /\ Goto(t, "stopping")
        BY <2>3 DEF Await
      <3>2. TypeHolder'
        BY <1>0, <2>3, <3>1, RegistryType DEF TypeHolder, Await, Slots
      <3>3. QED
        BY <1>14, <2>1, <2>3, <3>1, <3>2, AwaitType DEF BeginStop
    <2>4. QED
      BY <1>14, <2>2, <2>3 DEF BeginStop
  <1>15. ASSUME NEW t \in Tasks, StopReturns(t) PROVE Goal
    <2>1. Turn(t) /\ UNCHANGED <<op, target>> /\ TypeRegistry'
      BY <1>0, <1>15, UntrackType DEF StopReturns, Busy
    <2>2. CASE /\ Await(t, "stopping", [todo EXCEPT ![cur] = None], IsLastOf)
               /\ UNCHANGED <<started, lock, newly, mark>>
      <3>1. cur' \in Slots /\ Goto(t, "stopping") /\ lock' = t
        BY <1>0, <1>15, <2>2 DEF StopReturns, Await, LockHeld, Busy
      <3>2. TypeHolder'
        BY <1>0, <2>2, <3>1, ListType, SlotType DEF TypeHolder, Await, Lists
      <3>3. QED
        BY <2>1, <2>2, <3>1, <3>2, AwaitType
    <2>3. CASE started' = FALSE /\ Release(t, "idle")
      BY <2>1, <2>3, ReleaseType
    <2>4. QED
      BY <1>15, <2>2, <2>3 DEF StopReturns
  <1>16. ASSUME NEW t \in Tasks, StopCancelled(t) PROVE Goal
    <2>1. Turn(t) /\ TypeRegistry'
      BY <1>0, <1>16, RegistryType DEF StopCancelled, Busy, registry, TypeRegistry
    <2>2. QED
      BY <1>0, <1>16, <2>1, ReleaseType DEF StopCancelled, TypeCalls
  <1>17. ASSUME NEW t \in Tasks, BeginUnuse(t) PROVE Goal
    <2>1. Turn(t)
      BY <1>17 DEF BeginUnuse, Acquire, Turn
    <2>2. CASE Remove(target[t]) /\ Release(t, "idle")
      BY <1>0, <1>17, <2>1, <2>2, RemoveType, ReleaseType DEF BeginUnuse, TypeCalls, TypeRegistry
    <2>3. CASE lock' = t /\ Goto(t, "unusing") /\ UNCHANGED <<registry, holder>>
      <3>1. TypeRegistry' /\ TypeHolder'
        BY <1>0, <1>17, <2>3 DEF BeginUnuse, registry, holder, TypeRegistry, TypeHolder
      <3>2. TypeCalls'
        BY <1>0, <1>17, <2>3 DEF BeginUnuse, TypeCalls, Goto
      <3>3. LockHeld' /\ AwaitsSlot'
        BY <1>0, <2>1, <2>3 DEF LockHeld, AwaitsSlot, Busy, Turn, Goto, TypeCalls
      <3>4. QED
        BY <3>1, <3>2, <3>3
    <2>4. QED
      BY <1>17, <2>2, <2>3 DEF BeginUnuse
  <1>18. ASSUME NEW t \in Tasks, UnuseReturns(t) \/ UnuseFails(t) PROVE Goal
    <2>1. Turn(t)
      BY <1>0, <1>18 DEF UnuseReturns, UnuseFails, Busy
    <2>2. TypeRegistry'
      BY <1>0, <1>18, RegistryType, RemoveType
         DEF UnuseReturns, UnuseFails, registry, TypeRegistry
    <2>3. QED
      BY <1>0, <1>18, <2>1, <2>2, ReleaseType DEF UnuseReturns, UnuseFails, TypeCalls
  <1>19. QED
    BY <1>1, <1>2, <1>3, <1>4, <1>5, <1>6, <1>7, <1>8, <1>10, <1>11, <1>12, <1>13, <1>14,
       <1>15, <1>16, <1>17, <1>18 DEF Next, Progress

\* The registry, the lock and every task keep their types in every execution,
\* with or without quirks of the application.
THEOREM TypeCorrect == Spec => []TypeOK
  <1>1. TypeInv => TypeOK
    BY DEF TypeInv
  <1>2. QED
    BY <1>1, TypeInit, TypeStep, PTL DEF Spec

-----------------------------------------------------------------------------
(* The disciplined use. *)

\* With no instance registered twice, _find finds the entry there is.
LEMMA FindDistinct ==
    ASSUME TypeOK, Distinct
    PROVE  /\ \A p \in Plugins, i \in Slots : IsFind(i, p) <=> entry[i] = p
           /\ \A p \in Plugins : IsStarted(p) <=> UpIn(p)
           /\ \A s : \A p \in Plugins : SetStatus(p, s) =
                [i \in Slots |-> IF entry[i] = p THEN s ELSE status[i]]
  <1>1. \A p \in Plugins, i \in Slots : IsFind(i, p) <=> entry[i] = p
    <2> SUFFICES ASSUME NEW p \in Plugins, NEW i \in Slots, entry[i] = p PROVE IsFind(i, p)
      BY DEF IsFind
    <2>1. ASSUME NEW j \in Slots, entry[j] = p PROVE j = i
      BY <2>1, LifecycleAssumption DEF Distinct
    <2>2. i <= i
      BY LifecycleAssumption DEF Slots
    <2>3. QED
      BY <2>1, <2>2 DEF IsFind
  <1>2. QED
    BY <1>1 DEF IsStarted, UpIn, SetStatus

\* With the lock free there is nothing to say but that the lists are gone.
LEMMA FreePhase ==
    ASSUME LockHeld', lock' = None, todo' = Empty, newly' = Empty, cur' = 0, ~subscribed',
           started' \/ \A i \in Slots : ~Up(i)'
    PROVE  PhaseInv' /\ \A q : ~Subscribing(q)'
  <1>1. \A t \in Tasks : pc'[t] \notin Busy
    BY LifecycleAssumption DEF LockHeld
  <1>2. QED
    BY <1>1 DEF PhaseInv, IdleInv, StartingInv, RollbackInv, StoppingInv, UnusingInv, StartedInv,
                Busy, At, Subscribing

\* What a free lock means before a step.
LEMMA FreeBefore ==
    ASSUME LifecycleInv, lock = None
    PROVE  /\ \A t \in Tasks : pc[t] \notin Busy
           /\ todo = Empty /\ newly = Empty /\ cur = 0 /\ ~subscribed
           /\ \A q : ~Subscribing(q)
           /\ ~started => \A i \in Slots : ~Up(i)
  BY LifecycleAssumption DEF LifecycleInv, TypeInv, LockHeld, PhaseInv, IdleInv, StartedInv,
                             Subscribing

\* With the lock held by t only t's phase counts.
LEMMA HeldPhase ==
    ASSUME NEW t \in Tasks, LockHeld', lock' = t
    PROVE  \A u \in Tasks : u # t => pc'[u] \notin Busy
  BY LifecycleAssumption DEF LockHeld

\* The invariant holds initially.
LEMMA InvInit == Init => LifecycleInv
  <1> SUFFICES ASSUME Init PROVE LifecycleInv
    OBVIOUS
  <1>1. TypeInv
    BY TypeInit
  <1>2. \A i \in Slots : entry[i] = None
    BY DEF Init, Empty
  <1>3. PhaseInv
    BY <1>2 DEF Init, PhaseInv, IdleInv, StartingInv, RollbackInv, StoppingInv, UnusingInv,
                StartedInv, At, Up
  <1>4. PluginInv
    BY <1>2, LifecycleAssumption DEF Init, PluginInv, Distinct, DependencyOrder, LiveUp, SubsInv,
                NoThreads, UpIn, Subscribing
  <1>5. QED
    BY <1>1, <1>3, <1>4 DEF LifecycleInv

\* use() registers a new instance behind all the others.
LEMMA UseStep ==
    ASSUME Quirks = {}, LifecycleInv, TypeInv', NEW p \in Plugins, Use(p)
    PROVE  LifecycleInv'
  <1> USE LifecycleAssumption
  <1>0. TypeRegistry /\ TypeHolder /\ Distinct
    BY DEF LifecycleInv, TypeInv, TypeOK, PluginInv
  <1>1. /\ uses + 1 \in Slots /\ entry[uses + 1] = None
        /\ \A i \in Slots : entry[i] # p
        /\ \A i \in Slots : i # uses + 1 => entry'[i] = entry[i] /\ status'[i] = status[i]
        /\ entry'[uses + 1] = p /\ status'[uses + 1] = "REGISTERED"
    BY <1>0 DEF Use, Registered, TypeRegistry, Distinct, Slots
  <1>2. /\ \A i \in Slots : Up(i)' <=> Up(i)
        /\ \A q \in Plugins : UpIn(q)' <=> UpIn(q)
        /\ \A q : Subscribing(q)' <=> Subscribing(q)
    BY <1>1 DEF Up, UpIn, Subscribing, Use, holder
  <1>3. Distinct'
    BY <1>0, <1>1 DEF Distinct, Use, TypeRegistry, Slots
  <1>4. DependencyOrder'
    <2> SUFFICES ASSUME NEW i \in Slots, NEW j \in Slots, j < i, entry'[i] # None,
                        entry'[j] # None, status'[i] = "STARTED"
                 PROVE  status'[j] \in {"STARTED", "FAILED"}
      BY DEF DependencyOrder
    <2>1. i # uses + 1 /\ entry[i] # None /\ ~(i > uses)
      BY <1>0, <1>1 DEF Distinct
    <2>2. j # uses + 1
      BY <1>0, <2>1 DEF TypeRegistry, Slots
    <2>3. QED
      BY <1>1, <2>1, <2>2 DEF LifecycleInv, PluginInv, DependencyOrder
  <1>5. LiveUp' /\ SubsInv' /\ NoThreads'
    BY <1>2 DEF LifecycleInv, PluginInv, LiveUp, SubsInv, NoThreads, Use
  <1>6. \A s : \A list \in Lists : Holds(list, s) => Holds(list, s)'
    BY <1>1 DEF Holds, Lists
  <1>7. StartFacts => StartFacts'
    <2> SUFFICES ASSUME StartFacts PROVE StartFacts'
      OBVIOUS
    <2>1. (IsFirstOf(cur, todo) /\ Holds(todo, "REGISTERED") /\ Holds(newly, "STARTED"))'
      BY <1>0, <1>6 DEF StartFacts, Use, holder, IsFirstOf, TypeHolder, Lists
    <2>2. QED
      BY <1>0, <1>1, <1>2, <2>1 DEF StartFacts, Use, holder, TypeHolder, TypeRegistry, Slots
  <1>8. RollbackFacts => RollbackFacts'
    BY <1>0, <1>2, <1>6 DEF RollbackFacts, Use, holder, IsLastOf, TypeHolder, Lists
  <1>9. StopFacts => StopFacts'
    BY <1>0, <1>2, <1>6 DEF StopFacts, Use, holder, IsLastOf, TypeHolder, Lists
  <1>10. PhaseInv'
    BY <1>2, <1>7, <1>8, <1>9 DEF LifecycleInv, PhaseInv, IdleInv, StartingInv, RollbackInv,
           StoppingInv, UnusingInv, StartedInv, At, Use, holder
  <1>11. QED
    BY <1>3, <1>4, <1>5, <1>10 DEF LifecycleInv, PluginInv

\* replace() works on a harness with nothing up, and leaves nothing up.
LEMMA ReplaceStep ==
    ASSUME Quirks = {}, LifecycleInv, TypeInv', NEW cap \in Capabilities, NEW p \in Plugins,
           Replace(cap, p)
    PROVE  LifecycleInv'
  <1> USE LifecycleAssumption
  <1>0. TypeRegistry /\ TypeRegistry' /\ LockHeld' /\ Distinct /\ LiveUp /\ SubsInv
    BY DEF LifecycleInv, TypeInv, TypeOK, PluginInv
  <1>1. lock = None /\ ~started /\ p \in cap /\ None \notin cap
    BY DEF Replace, InFlight
  <1>2. \A i \in Slots : ~Up(i)
    BY <1>1, FreeBefore
  <1>3. PICK first \in Slots :
           /\ entry[first] \in cap
           /\ entry' = [i \in Slots |-> IF i = first THEN p
                                        ELSE IF entry[i] \in cap THEN None ELSE entry[i]]
    BY DEF Replace
  <1>4. status' = [i \in Slots |-> IF entry[i] \in cap THEN "REGISTERED" ELSE status[i]]
    BY DEF Replace
  <1>5. \A i \in Slots : ~Up(i)'
    BY <1>2, <1>3, <1>4 DEF Up
  <1>6. PhaseInv' /\ \A q : ~Subscribing(q)'
    BY <1>0, <1>1, <1>5, FreeBefore, FreePhase DEF Replace, holder
  <1>7. Distinct'
    BY <1>0, <1>1, <1>3 DEF Distinct, Replace
  <1>8. DependencyOrder'
    BY <1>5 DEF DependencyOrder, Up
  <1>9. \A q \in Plugins : ~UpIn(q) /\ ~UpIn(q)'
    BY <1>2, <1>5 DEF Up, UpIn
  <1>10. LiveUp' /\ NoThreads'
    BY <1>0, <1>9 DEF LifecycleInv, PluginInv, LiveUp, NoThreads, Replace
  <1>11. SubsInv'
    BY <1>0, <1>1, <1>6, <1>9, FreeBefore DEF SubsInv, Replace, RemoveSubscriptions, TypeRegistry
  <1>12. QED
    BY <1>6, <1>7, <1>8, <1>10, <1>11 DEF LifecycleInv, PluginInv

\* A step that only moves a task between awaits outside the lock.
LEMMA OutsideStep ==
    ASSUME LifecycleInv, TypeInv', NEW t \in Tasks, pc[t] \notin Busy,
           NEW l \in {"idle", "lock", "running"}, Goto(t, l),
           UNCHANGED <<registry, started, lock, holder, live, thread>>
    PROVE  LifecycleInv'
  <1>1. /\ \A k \in Busy : At(k)' <=> At(k)
        /\ \A q : Subscribing(q)' <=> Subscribing(q)
    BY DEF LifecycleInv, TypeInv, TypeOK, TypeCalls, At, Busy, Goto, Subscribing, holder
  <1>2. /\ StartFacts' <=> StartFacts
        /\ RollbackFacts' <=> RollbackFacts
        /\ StopFacts' <=> StopFacts
        /\ \A i \in Slots : Up(i)' <=> Up(i)
    BY DEF StartFacts, RollbackFacts, StopFacts, Up, Holds, IsFirstOf, IsLastOf, registry, holder
  <1>3. PhaseInv'
    BY <1>1, <1>2 DEF LifecycleInv, PhaseInv, IdleInv, StartingInv, RollbackInv, StoppingInv,
           UnusingInv, StartedInv, Busy, registry, holder
  <1>4. PluginInv'
    BY <1>1 DEF LifecycleInv, PluginInv, Distinct, DependencyOrder, LiveUp, SubsInv, NoThreads,
           UpIn, registry
  <1>5. QED
    BY <1>3, <1>4 DEF LifecycleInv

\* A step that leaves the registry and the plugins alone keeps what is said of them.
LEMMA PluginFrame ==
    ASSUME PluginInv, UNCHANGED <<registry, live, thread>>,
           \A q \in Plugins : Subscribing(q)' <=> Subscribing(q)
    PROVE  PluginInv' /\ \A i \in Slots : Up(i)' <=> Up(i)
  BY DEF PluginInv, Distinct, DependencyOrder, LiveUp, SubsInv, NoThreads, UpIn, Up, registry

\* start() takes the lock: it fails validation, finds nothing to do, or begins a pass.
LEMMA BeginStartStep ==
    ASSUME LifecycleInv, TypeInv', NEW t \in Tasks, BeginStart(t)
    PROVE  LifecycleInv'
  <1> USE LifecycleAssumption
  <1>0. /\ TypeRegistry /\ TypeHolder /\ LockHeld' /\ PluginInv /\ lock = None
        /\ UNCHANGED <<registry, live, thread>>
    BY DEF LifecycleInv, TypeInv, TypeOK, BeginStart, Acquire
  <1>1. CASE lock' = None
    <2>1. todo' = Empty /\ newly' = Empty /\ cur' = 0 /\ ~subscribed'
      BY <1>0, <1>1, FreeBefore DEF BeginStart, Release
    <2>2. started' \/ \A i \in Slots : ~Up(i)'
      BY <1>0, <1>1, FreeBefore DEF BeginStart, Up, registry
    <2>3. PhaseInv' /\ \A q : ~Subscribing(q)'
      BY <1>0, <1>1, <2>1, <2>2, FreePhase
    <2>4. QED
      BY <1>0, <2>3, FreeBefore, PluginFrame DEF LifecycleInv
  <1>2. CASE lock' # None
    <2>1. /\ lock' = t /\ pc'[t] = "starting" /\ newly' = Empty /\ mark' = uses
          /\ todo' = WithStatus("REGISTERED") /\ IsFirstOf(cur', todo') /\ ~subscribed'
          /\ UNCHANGED started
      BY <1>2 DEF BeginStart, Release, Await, Goto, LifecycleInv, TypeInv, TypeOK, TypeCalls
    <2>2. At("starting")' /\ ~At("rollback")' /\ ~At("stopping")' /\ ~At("unusing")'
      BY <1>0, <2>1, HeldPhase DEF At, Busy
    <2>3. PluginInv' /\ \A i \in Slots : Up(i)' <=> Up(i)
      BY <1>0, <2>1, FreeBefore, PluginFrame DEF Subscribing
    <2>4. StartFacts'
      <3>1. \A i \in Slots : todo'[i] # None =>
               todo'[i] = entry'[i] /\ status'[i] = "REGISTERED" /\ i <= mark'
        BY <1>0, <2>1 DEF WithStatus, registry, PluginInv, Distinct, TypeRegistry, Slots
      <3>2. \A i \in Slots : entry'[i] # None /\ status'[i] = "REGISTERED" => todo'[i] # None
        BY <1>0, <2>1 DEF WithStatus, registry
      <3>3. ~started' => \A i \in Slots : ~Up(i)'
        BY <1>0, <2>1, <2>3, FreeBefore
      <3>4. mark' <= uses'
        BY <1>0, <2>1 DEF registry, TypeRegistry
      <3>5. \A i \in Slots : newly'[i] = None
        BY <2>1 DEF Empty
      <3>6. IsFirstOf(cur, todo)'
        BY <2>1 DEF IsFirstOf
      <3>7. QED
        BY <3>1, <3>2, <3>3, <3>4, <3>5, <3>6 DEF StartFacts, Holds
    <2>5. QED
      BY <2>1, <2>2, <2>3, <2>4 DEF LifecycleInv, PhaseInv, IdleInv, StartingInv, RollbackInv,
         StoppingInv, UnusingInv, StartedInv
  <1>3. QED
    BY <1>1, <1>2

\* What is known while start() awaits a plugin's start().
LEMMA WhileStarting ==
    ASSUME LifecycleInv, NEW t \in Tasks, pc[t] = "starting"
    PROVE  /\ TypeRegistry /\ TypeHolder /\ PluginInv /\ StartFacts
           /\ lock = t /\ cur \in Slots /\ todo[cur] \in Plugins
           /\ todo[cur] = entry[cur] /\ status[cur] = "REGISTERED"
           /\ \A i \in Slots : entry[i] = todo[cur] => i = cur
           /\ ~UpIn(todo[cur])
           /\ \A q \in Plugins : Subscribing(q) <=> (q = todo[cur] /\ subscribed)
  <1> USE LifecycleAssumption
  <1>1. TypeRegistry /\ TypeHolder /\ PluginInv /\ LockHeld /\ AwaitsSlot
    BY DEF LifecycleInv, TypeInv, TypeOK
  <1>2. StartFacts
    BY DEF LifecycleInv, PhaseInv, StartingInv, At
  <1>3. lock = t /\ cur \in Slots
    BY <1>1 DEF LockHeld, AwaitsSlot, Busy
  <1>4. todo[cur] # None /\ todo[cur] = entry[cur] /\ status[cur] = "REGISTERED"
    BY <1>2, <1>3 DEF StartFacts, IsFirstOf, Holds
  <1>5. todo[cur] \in Plugins
    BY <1>1, <1>3, <1>4, ListType DEF TypeHolder, Lists
  <1>6. \A i \in Slots : entry[i] = todo[cur] => i = cur
    BY <1>1, <1>3, <1>4 DEF PluginInv, Distinct
  <1>7. ~UpIn(todo[cur])
    BY <1>4, <1>6 DEF UpIn
  <1>8. \A q \in Plugins : Subscribing(q) <=> (q = todo[cur] /\ subscribed)
    BY DEF Subscribing
  <1>9. QED
    BY <1>1, <1>2, <1>3, <1>4, <1>5, <1>6, <1>7, <1>8

\* A plugin that subscribes within its start() keeps the invariant.
LEMMA PluginSubscribesStep ==
    ASSUME LifecycleInv, TypeInv', NEW t \in Tasks, PluginSubscribes(t)
    PROVE  LifecycleInv'
  <1>0. pc[t] = "starting"
    BY DEF PluginSubscribes
  <1>1. PICK p \in Plugins : p = todo[cur]
    BY <1>0, WhileStarting
  <1>2. /\ p \in Subscribers /\ ~subscribed /\ subscribed'
        /\ subs' = [subs EXCEPT ![p] = @ + 1]
        /\ UNCHANGED <<entry, status, uses, started, lock, pc, todo, newly, cur, mark, live, thread>>
    BY <1>1 DEF PluginSubscribes
  <1>3. \A q \in Plugins : UpIn(q)' <=> UpIn(q)
    BY <1>2 DEF UpIn
  <1>4. \A q \in Plugins : Subscribing(q)' <=> q = p
    BY <1>0, <1>1, <1>2 DEF Subscribing
  <1>5. SubsInv'
    <2>1. SubsInv /\ ~UpIn(p) /\ subs \in [Plugins -> Nat]
      BY <1>0, <1>1, WhileStarting DEF PluginInv, TypeRegistry
    <2>2. \A q \in Plugins : ~Subscribing(q)
      BY <1>2 DEF Subscribing
    <2>3. subs[p] = 0
      BY <2>1, <2>2 DEF SubsInv
    <2>4. QED
      BY <1>2, <1>3, <1>4, <2>1, <2>2, <2>3 DEF SubsInv
  <1>6. Distinct' /\ DependencyOrder' /\ LiveUp' /\ NoThreads'
    BY <1>2, <1>3 DEF LifecycleInv, PluginInv, Distinct, DependencyOrder, LiveUp, NoThreads
  <1>7. StartFacts' /\ At("starting")' /\ lock' = t
    BY <1>0, <1>2, WhileStarting DEF StartFacts, At, Up, Holds, IsFirstOf
  <1>8. ~At("rollback")' /\ ~At("stopping")' /\ ~At("unusing")'
    BY <1>2, <1>7, <1>0, HeldPhase DEF At, Busy, TypeInv
  <1>9. PhaseInv'
    BY <1>7, <1>8, LifecycleAssumption DEF PhaseInv, IdleInv, StartingInv, RollbackInv,
       StoppingInv, UnusingInv, StartedInv
  <1>10. QED
    BY <1>5, <1>6, <1>9 DEF LifecycleInv, PluginInv

\* A plugin's start() returned: it is up, and so is all that was registered before it.
LEMMA StartReturnsStep ==
    ASSUME LifecycleInv, TypeInv', NEW t \in Tasks, StartReturns(t)
    PROVE  LifecycleInv'
  <1> USE LifecycleAssumption
  <1>0. pc[t] = "starting" /\ LockHeld'
    BY DEF StartReturns, TypeInv
  <1>1. PICK p \in Plugins : p = todo[cur]
    BY <1>0, WhileStarting
  <1>2. /\ entry' = entry /\ subs' = subs /\ thread' = thread
        /\ live' = [live EXCEPT ![p] = TRUE]
        /\ status' = [status EXCEPT ![cur] = "STARTED"]
    <2>1. status' = [i \in Slots |-> IF entry[i] = p THEN "STARTED" ELSE status[i]]
      BY <1>1, FindDistinct DEF StartReturns, LifecycleInv, TypeInv, PluginInv
    <2>2. QED
      BY <1>0, <1>1, <2>1, WhileStarting DEF StartReturns, TypeRegistry
  <1>3. /\ \A i \in Slots : Up(i)' <=> (Up(i) \/ i = cur)
        /\ \A q \in Plugins : UpIn(q)' <=> (UpIn(q) \/ q = p)
    BY <1>0, <1>1, <1>2, WhileStarting DEF Up, UpIn, TypeRegistry
  <1>4. ~subscribed' /\ \A q : ~Subscribing(q)'
    BY DEF StartReturns, Release, Await, Subscribing
  <1>5. Distinct' /\ NoThreads' /\ LiveUp'
    BY <1>0, <1>2, <1>3, WhileStarting DEF PluginInv, Distinct, NoThreads, LiveUp, StartReturns,
       TypeRegistry
  <1>6. SubsInv'
    <2>1. \A q \in Plugins : subs[q] =
            IF q \in Subscribers /\ (UpIn(q) \/ (q = p /\ subscribed)) THEN 1 ELSE 0
      BY <1>0, <1>1, WhileStarting DEF PluginInv, SubsInv
    <2>2. p \in Subscribers => subscribed
      BY <1>1 DEF StartReturns
    <2>3. QED
      BY <1>2, <1>3, <1>4, <2>1, <2>2 DEF SubsInv
  <1>7. \A j \in Slots : j < cur /\ entry[j] # None => status[j] # "REGISTERED"
    <2> SUFFICES ASSUME NEW j \in Slots, j < cur, entry[j] # None, status[j] = "REGISTERED"
                 PROVE FALSE
      OBVIOUS
    <2>1. cur <= mark /\ cur \in Slots /\ mark \in 0..MaxUses /\ StartFacts
      BY <1>0, WhileStarting DEF StartFacts, TypeHolder
    <2>2. j <= mark
      BY <2>1 DEF Slots
    <2>3. todo[j] # None
      BY <2>1, <2>2 DEF StartFacts
    <2>4. cur <= j
      BY <2>1, <2>3 DEF StartFacts, IsFirstOf
    <2>5. QED
      BY <2>1, <2>4 DEF Slots
  <1>8. DependencyOrder'
    <2> SUFFICES ASSUME NEW i \in Slots, NEW j \in Slots, j < i, entry[i] # None,
                        entry[j] # None, status'[i] = "STARTED"
                 PROVE  status'[j] \in {"STARTED", "FAILED"}
      BY <1>2 DEF DependencyOrder
    <2>1. TypeRegistry /\ DependencyOrder
      BY <1>0, WhileStarting DEF PluginInv
    <2>2. CASE i = cur
      BY <1>2, <1>7, <2>1, <2>2 DEF TypeRegistry, Status
    <2>3. CASE i # cur
      BY <1>2, <2>1, <2>3 DEF TypeRegistry, DependencyOrder
    <2>4. QED
      BY <2>2, <2>3
  <1>9. CASE lock' = None
    <2>1. todo' = Empty /\ newly' = Empty /\ cur' = 0 /\ started'
      BY <1>0, <1>9, WhileStarting DEF StartReturns, Release
    <2>2. PhaseInv'
      BY <1>0, <1>4, <1>9, <2>1, FreePhase
    <2>3. QED
      BY <1>5, <1>6, <1>8, <2>2 DEF LifecycleInv, PluginInv
  <1>10. CASE lock' # None
    <2>1. /\ lock' = t /\ pc'[t] = "starting" /\ newly' = [newly EXCEPT ![cur] = p]
          /\ todo' = [todo EXCEPT ![cur] = None] /\ IsFirstOf(cur', todo')
          /\ UNCHANGED <<started, mark, uses>>
      BY <1>0, <1>1, <1>10, WhileStarting
         DEF StartReturns, Release, Await, Goto, LifecycleInv, TypeInv, TypeOK, TypeCalls
    <2>2. At("starting")' /\ ~At("rollback")' /\ ~At("stopping")' /\ ~At("unusing")'
      BY <1>0, <2>1, HeldPhase DEF At, Busy
    <2>3. StartFacts'
      <3>0. /\ StartFacts /\ todo \in Lists /\ newly \in Lists /\ cur \in Slots
            /\ status \in [Slots -> Status] /\ p = entry[cur] /\ status[cur] = "REGISTERED"
        BY <1>0, <1>1, WhileStarting DEF TypeHolder, TypeRegistry, Lists
      <3>1. Holds(todo, "REGISTERED")'
        BY <1>2, <2>1, <3>0 DEF StartFacts, Holds, Lists
      <3>2. Holds(newly, "STARTED")'
        BY <1>2, <2>1, <3>0 DEF StartFacts, Holds, Lists
      <3>3. \A i \in Slots : i <= mark' /\ entry'[i] # None /\ status'[i] = "REGISTERED"
                                 => todo'[i] # None
        BY <1>2, <2>1, <3>0 DEF StartFacts, Lists
      <3>4. \A i \in Slots : todo'[i] # None => i <= mark'
        BY <2>1, <3>0 DEF StartFacts, Lists
      <3>5. \A i, j \in Slots : newly'[i] # None /\ i < j /\ Up(j)' => newly'[j] # None
        <4> SUFFICES ASSUME NEW i \in Slots, NEW j \in Slots, newly'[i] # None, i < j, Up(j),
                            j # cur
                     PROVE newly'[j] # None
          BY <1>3, <2>1, <3>0 DEF Lists
        <4>1. i # cur
          BY <1>0, <3>0, WhileStarting DEF PluginInv, DependencyOrder, Up
        <4>2. QED
          BY <2>1, <3>0, <4>1 DEF StartFacts, Lists
      <3>6. ~started' => \A i \in Slots : Up(i)' => newly'[i] # None
        BY <1>3, <2>1, <3>0 DEF StartFacts, Lists
      <3>7. IsFirstOf(cur, todo)' /\ mark' <= uses'
        BY <2>1, <3>0 DEF IsFirstOf, StartFacts
      <3>8. QED
        BY <3>1, <3>2, <3>3, <3>4, <3>5, <3>6, <3>7 DEF StartFacts
    <2>4. PhaseInv'
      BY <2>1, <2>2, <2>3 DEF PhaseInv, IdleInv, StartingInv, RollbackInv, StoppingInv,
         UnusingInv, StartedInv
    <2>5. QED
      BY <1>5, <1>6, <1>8, <2>4 DEF LifecycleInv, PluginInv
  <1>11. QED
    BY <1>9, <1>10

\* A plugin's start() raised or was cancelled: it is not up, and the pass is rolled back.
LEMMA AbortStep ==
    ASSUME Quirks = {}, LifecycleInv, TypeInv', NEW t \in Tasks,
           StartRaises(t) \/ StartCancelled(t)
    PROVE  LifecycleInv'
  <1> USE LifecycleAssumption
  <1>0. pc[t] = "starting" /\ LockHeld' /\ AbortStart(t)
    BY DEF StartRaises, StartCancelled, TypeInv
  <1>1. PICK p \in Plugins : p = todo[cur]
    BY <1>0, WhileStarting
  <1>2. /\ UNCHANGED <<entry, uses, started, live, thread>> /\ subs' = RemoveSubscriptions({p})
        /\ \/ status' = status
           \/ status' = [status EXCEPT ![cur] = "FAILED"]
    <2>1. \/ status' = status
          \/ status' = [i \in Slots |-> IF entry[i] = p THEN "FAILED" ELSE status[i]]
      BY <1>1, FindDistinct DEF StartRaises, StartCancelled, LifecycleInv, TypeInv, PluginInv
    <2>2. UNCHANGED <<entry, uses, started, live, thread>> /\ subs' = RemoveSubscriptions({p})
      BY <1>0, <1>1 DEF StartRaises, StartCancelled, AbortStart
    <2>3. QED
      BY <1>0, <1>1, <2>1, <2>2, WhileStarting DEF TypeRegistry
  <1>3. /\ \A i \in Slots : i # cur => status'[i] = status[i]
        /\ status'[cur] \in {"REGISTERED", "FAILED"}
        /\ \A i \in Slots : status'[i] = status[i] \/ status'[i] = "FAILED"
    BY <1>0, <1>2, WhileStarting DEF TypeRegistry
  <1>4. /\ \A i \in Slots : Up(i)' <=> Up(i)
        /\ \A q \in Plugins : UpIn(q)' <=> UpIn(q)
    <2>1. \A i \in Slots : (status'[i] = "STARTED") <=> (status[i] = "STARTED")
      BY <1>0, <1>3, WhileStarting
    <2>2. QED
      BY <1>2, <2>1 DEF Up, UpIn
  <1>5. ~subscribed' /\ \A q : ~Subscribing(q)'
    BY <1>0 DEF AbortStart, Release, Await, Subscribing
  <1>6. Distinct' /\ NoThreads' /\ LiveUp'
    BY <1>0, <1>2, <1>4, WhileStarting DEF PluginInv, Distinct, NoThreads, LiveUp
  <1>7. DependencyOrder'
    <2>1. \A i \in Slots : (status'[i] = "STARTED") <=> (status[i] = "STARTED")
      BY <1>0, <1>3, WhileStarting
    <2>2. QED
      BY <1>0, <1>2, <1>3, <2>1, WhileStarting DEF PluginInv, DependencyOrder
  <1>8. SubsInv'
    <2>1. \A q \in Plugins : subs[q] =
            IF q \in Subscribers /\ (UpIn(q) \/ (q = p /\ subscribed)) THEN 1 ELSE 0
      BY <1>0, <1>1, WhileStarting DEF PluginInv, SubsInv
    <2>2. ~UpIn(p)
      BY <1>0, <1>1, WhileStarting
    <2>3. QED
      BY <1>2, <1>4, <1>5, <2>1, <2>2 DEF SubsInv, RemoveSubscriptions
  <1>9. CASE lock' = None
    <2>1. newly = Empty /\ todo' = Empty /\ newly' = Empty /\ cur' = 0
      BY <1>0, <1>9, WhileStarting DEF AbortStart, Release
    <2>2. started' \/ \A i \in Slots : ~Up(i)'
      BY <1>0, <1>2, <1>4, <2>1, WhileStarting DEF StartFacts, Empty
    <2>3. PhaseInv'
      BY <1>0, <1>5, <1>9, <2>1, <2>2, FreePhase
    <2>4. QED
      BY <1>6, <1>7, <1>8, <2>3 DEF LifecycleInv, PluginInv
  <1>10. CASE lock' # None
    <2>1. /\ lock' = t /\ pc'[t] = "rollback" /\ newly' = Empty /\ todo' = newly
          /\ IsLastOf(cur', todo')
      BY <1>0, <1>10, WhileStarting
         DEF AbortStart, Release, Await, Goto, LifecycleInv, TypeInv, TypeOK, TypeCalls
    <2>2. At("rollback")' /\ ~At("starting")' /\ ~At("stopping")' /\ ~At("unusing")'
      BY <1>0, <2>1, HeldPhase DEF At, Busy
    <2>3. RollbackFacts'
      <3>1. Holds(todo, "STARTED")'
        BY <1>0, <1>2, <1>3, <2>1, WhileStarting DEF StartFacts, Holds
      <3>2. IsLastOf(cur, todo)'
        BY <2>1 DEF IsLastOf
      <3>3. QED
        BY <1>0, <1>2, <1>4, <1>5, <2>1, <3>1, <3>2, WhileStarting DEF StartFacts, RollbackFacts
    <2>4. PhaseInv'
      BY <2>1, <2>2, <2>3 DEF PhaseInv, IdleInv, StartingInv, RollbackInv, StoppingInv,
         UnusingInv, StartedInv
    <2>5. QED
      BY <1>6, <1>7, <1>8, <2>4 DEF LifecycleInv, PluginInv
  <1>11. QED
    BY <1>9, <1>10

\* Stopping the last plugin that is up keeps the order and forgets its subscriptions.
LEMMA UntrackStep ==
    ASSUME LifecycleInv, cur \in Slots, todo[cur] \in Plugins, todo[cur] = entry[cur],
           \A i \in Slots : cur < i => ~Up(i),
           Untrack(todo[cur]), UNCHANGED <<entry, uses, thread>>,
           \A q \in Plugins : ~Subscribing(q) /\ ~Subscribing(q)'
    PROVE  /\ PluginInv'
           /\ \A i \in Slots : Up(i)' <=> (Up(i) /\ i # cur)
           /\ \A i \in Slots : i # cur => status'[i] = status[i]
  <1> USE LifecycleAssumption
  <1>0. TypeRegistry /\ PluginInv /\ TypeOK /\ Distinct
    BY DEF LifecycleInv, TypeInv, TypeOK, PluginInv
  <1>1. PICK p \in Plugins : p = todo[cur]
    OBVIOUS
  <1>2. \A i \in Slots : entry[i] = p <=> i = cur
    BY <1>0, <1>1 DEF Distinct
  <1>3. /\ status' = [i \in Slots |-> IF entry[i] = p THEN "REGISTERED" ELSE status[i]]
        /\ live' = [live EXCEPT ![p] = FALSE] /\ subs' = RemoveSubscriptions({p})
    BY <1>0, <1>1, FindDistinct DEF Untrack
  <1>4. status'[cur] = "REGISTERED" /\ \A i \in Slots : i # cur => status'[i] = status[i]
    BY <1>2, <1>3
  <1>5. /\ \A i \in Slots : Up(i)' <=> (Up(i) /\ i # cur)
        /\ \A q \in Plugins : UpIn(q)' <=> (UpIn(q) /\ q # p)
    BY <1>2, <1>4 DEF Up, UpIn
  <1>6. Distinct' /\ NoThreads'
    BY <1>0 DEF PluginInv, Distinct, NoThreads
  <1>7. LiveUp'
    BY <1>0, <1>3, <1>5 DEF PluginInv, LiveUp, TypeRegistry
  <1>8. SubsInv'
    BY <1>0, <1>3, <1>5 DEF PluginInv, SubsInv, RemoveSubscriptions
  <1>9. DependencyOrder'
    BY <1>0, <1>4 DEF PluginInv, DependencyOrder, Up
  <1>10. QED
    BY <1>4, <1>5, <1>6, <1>7, <1>8, <1>9 DEF PluginInv

\* What is known while a rollback or a stop() awaits the stop() of the plugin at cur.
LEMMA WhileSweeping ==
    ASSUME LifecycleInv, NEW t \in Tasks, pc[t] \in {"rollback", "stopping"}
    PROVE  /\ TypeRegistry /\ TypeHolder /\ lock = t /\ cur \in Slots /\ todo[cur] \in Plugins
           /\ todo[cur] = entry[cur] /\ newly = Empty /\ ~subscribed
           /\ \A i \in Slots : todo[i] # None => i <= cur
           /\ Holds(todo, "STARTED")
           /\ \A i \in Slots : cur < i => ~Up(i)
           /\ \A q \in Plugins : ~Subscribing(q)
           /\ pc[t] = "rollback" => RollbackFacts
           /\ pc[t] = "stopping" => StopFacts
  <1> USE LifecycleAssumption
  <1>1. TypeRegistry /\ TypeHolder /\ LockHeld /\ AwaitsSlot
    BY DEF LifecycleInv, TypeInv, TypeOK
  <1>2. /\ pc[t] = "rollback" => RollbackFacts
        /\ pc[t] = "stopping" => StopFacts
    BY DEF LifecycleInv, PhaseInv, RollbackInv, StoppingInv, At
  <1>3. lock = t /\ cur \in Slots
    BY <1>1 DEF LockHeld, AwaitsSlot, Busy
  <1>4. /\ IsLastOf(cur, todo) /\ Holds(todo, "STARTED") /\ newly = Empty /\ ~subscribed
        /\ \A i, j \in Slots : todo[i] # None /\ i < j /\ Up(j) => todo[j] # None
    BY <1>2 DEF RollbackFacts, StopFacts
  <1>5. /\ todo[cur] \in Plugins /\ todo[cur] = entry[cur]
        /\ \A i \in Slots : todo[i] # None => i <= cur
    BY <1>1, <1>3, <1>4 DEF IsLastOf, Holds, TypeHolder
  <1>6. \A i \in Slots : cur < i => ~Up(i)
    BY <1>3, <1>4 DEF IsLastOf, Slots
  <1>7. \A q \in Plugins : ~Subscribing(q)
    BY <1>4 DEF Subscribing
  <1>8. QED
    BY <1>1, <1>2, <1>3, <1>4, <1>5, <1>6, <1>7

\* A rollback or a stop() goes one plugin further down the list.
LEMMA SweepStep ==
    ASSUME LifecycleInv, TypeInv', NEW t \in Tasks, RollbackReturns(t) \/ StopReturns(t)
    PROVE  LifecycleInv'
  <1> USE LifecycleAssumption
  <1>0. pc[t] \in {"rollback", "stopping"} /\ LockHeld'
    BY DEF RollbackReturns, StopReturns, TypeInv
  <1>1. ~subscribed' /\ \A q : ~Subscribing(q)'
    BY DEF RollbackReturns, StopReturns, Release, Await, Subscribing
  <1>2. /\ PluginInv'
        /\ \A i \in Slots : Up(i)' <=> (Up(i) /\ i # cur)
        /\ \A i \in Slots : i # cur => status'[i] = status[i]
    BY <1>0, <1>1, WhileSweeping, UntrackStep DEF RollbackReturns, StopReturns
  <1>3. todo \in Lists /\ entry' = entry
    BY <1>0, WhileSweeping DEF TypeHolder, Lists, RollbackReturns, StopReturns
  <1>4. CASE lock' = None
    <2>1. /\ todo' = Empty /\ newly' = Empty /\ cur' = 0
          /\ [todo EXCEPT ![cur] = None] = Empty
      BY <1>0, <1>4, WhileSweeping DEF RollbackReturns, StopReturns, Release
    <2>2. \A i \in Slots : todo[i] # None => i = cur
      BY <1>3, <2>1 DEF Lists, Empty
    <2>3. started' \/ \A i \in Slots : ~Up(i)'
      <3>1. started' \/ \A i \in Slots : Up(i) => todo[i] # None
        <4>1. CASE RollbackReturns(t)
          BY <4>1, WhileSweeping DEF RollbackReturns, RollbackFacts
        <4>2. CASE StopReturns(t)
          BY <4>2, WhileSweeping DEF StopReturns, StopFacts
        <4>3. QED
          BY <4>1, <4>2
      <3>2. QED
        BY <1>2, <2>2, <3>1
    <2>4. PhaseInv'
      BY <1>0, <1>1, <1>4, <2>1, <2>3, FreePhase
    <2>5. QED
      BY <1>2, <2>4 DEF LifecycleInv
  <1>5. CASE lock' # None
    <2>1. /\ lock' = t /\ pc'[t] = pc[t] /\ newly' = Empty
          /\ todo' = [todo EXCEPT ![cur] = None]
          /\ IsLastOf(cur', todo') /\ UNCHANGED started
      BY <1>0, <1>5, WhileSweeping DEF RollbackReturns, StopReturns, Release, Await, Goto,
         LifecycleInv, TypeInv, TypeOK, TypeCalls
    <2>2. /\ ~At("starting")' /\ ~At("unusing")'
          /\ At("rollback")' => pc[t] = "rollback"
          /\ At("stopping")' => pc[t] = "stopping"
      BY <1>0, <2>1, HeldPhase DEF At, Busy
    <2>3. Holds(todo, "STARTED")' /\ IsLastOf(cur, todo)'
      BY <1>0, <1>2, <1>3, <2>1, WhileSweeping DEF Holds, IsLastOf, Lists
    <2>4. pc[t] = "rollback" => RollbackFacts'
      BY <1>0, <1>1, <1>2, <1>3, <2>1, <2>3, WhileSweeping DEF RollbackFacts, Lists
    <2>5. pc[t] = "stopping" => StopFacts'
      BY <1>0, <1>1, <1>2, <1>3, <2>1, <2>3, WhileSweeping DEF StopFacts, Lists
    <2>6. PhaseInv'
      BY <2>1, <2>2, <2>4, <2>5 DEF PhaseInv, IdleInv, StartingInv, RollbackInv, StoppingInv,
         UnusingInv, StartedInv
    <2>7. QED
      BY <1>2, <2>6 DEF LifecycleInv
  <1>6. QED
    BY <1>4, <1>5

\* stop() takes the lock and, unless there is nothing to do, starts its sweep.
LEMMA BeginStopStep ==
    ASSUME LifecycleInv, TypeInv', NEW t \in Tasks, BeginStop(t)
    PROVE  LifecycleInv'
  <1> USE LifecycleAssumption
  <1>0. /\ LockHeld' /\ PluginInv /\ lock = None /\ UNCHANGED <<registry, live, thread>>
    BY DEF LifecycleInv, TypeInv, BeginStop, Acquire
  <1>1. ~subscribed' /\ \A q : ~Subscribing(q)'
    BY DEF BeginStop, Release, Await, Subscribing
  <1>2. PluginInv' /\ \A i \in Slots : Up(i)' <=> Up(i)
    BY <1>0, <1>1, FreeBefore, PluginFrame
  <1>3. CASE lock' = None
    <2>1. /\ todo' = Empty /\ newly' = Empty /\ cur' = 0
          /\ ~started \/ WithStatus("STARTED") = Empty
      BY <1>3 DEF BeginStop, Release
    <2>2. \A i \in Slots : ~Up(i)
      BY <1>0, <2>1, FreeBefore DEF WithStatus, Empty, Up
    <2>3. PhaseInv'
      BY <1>0, <1>1, <1>2, <1>3, <2>1, <2>2, FreePhase
    <2>4. QED
      BY <1>2, <2>3 DEF LifecycleInv
  <1>4. CASE lock' # None
    <2>1. /\ lock' = t /\ pc'[t] = "stopping" /\ newly' = Empty /\ started'
          /\ todo' = WithStatus("STARTED") /\ IsLastOf(cur', todo')
      BY <1>0, <1>4, FreeBefore DEF BeginStop, Release, Await, Goto, LifecycleInv, TypeInv,
         TypeOK, TypeCalls
    <2>2. At("stopping")' /\ ~At("starting")' /\ ~At("rollback")' /\ ~At("unusing")'
      BY <1>0, <2>1, HeldPhase DEF At, Busy
    <2>3. StopFacts'
      BY <1>0, <1>1, <2>1 DEF StopFacts, Holds, IsLastOf, WithStatus, Up, registry
    <2>4. PhaseInv'
      BY <2>1, <2>2, <2>3 DEF PhaseInv, IdleInv, StartingInv, RollbackInv, StoppingInv,
         UnusingInv, StartedInv
    <2>5. QED
      BY <1>2, <2>4 DEF LifecycleInv
  <1>5. QED
    BY <1>3, <1>4

\* A cancelled stop() or a failed unuse() leaves the plugin STARTED and the harness started.
LEMMA GiveUpStep ==
    ASSUME LifecycleInv, TypeInv', NEW t \in Tasks, StopCancelled(t) \/ UnuseFails(t)
    PROVE  LifecycleInv'
  <1> USE LifecycleAssumption
  <1>0. /\ LockHeld' /\ PluginInv /\ TypeRegistry /\ started
        /\ \A q \in Plugins : ~Subscribing(q)
    <2>1. CASE StopCancelled(t)
      BY <2>1, WhileSweeping DEF StopCancelled, LifecycleInv, TypeInv, TypeOK, StopFacts
    <2>2. CASE UnuseFails(t)
      BY <2>2 DEF UnuseFails, LifecycleInv, TypeInv, TypeOK, PhaseInv, UnusingInv, IdleInv, At,
                  Subscribing
    <2>3. QED
      BY <2>1, <2>2
  <1>1. /\ UNCHANGED <<entry, status, uses, subs, started, thread>>
        /\ \E p : live' = [live EXCEPT ![p] = FALSE]
        /\ lock' = None /\ todo' = Empty /\ newly' = Empty /\ cur' = 0 /\ ~subscribed'
    BY DEF StopCancelled, UnuseFails, Release, registry
  <1>2. PhaseInv' /\ \A q : ~Subscribing(q)'
    BY <1>0, <1>1, FreePhase
  <1>3. \A q \in Plugins : UpIn(q)' <=> UpIn(q)
    BY <1>1 DEF UpIn
  <1>4. LiveUp'
    BY <1>0, <1>1, <1>3 DEF PluginInv, LiveUp, TypeRegistry
  <1>5. Distinct' /\ DependencyOrder' /\ SubsInv' /\ NoThreads'
    BY <1>0, <1>1, <1>2, <1>3 DEF PluginInv, Distinct, DependencyOrder, SubsInv, NoThreads
  <1>6. QED
    BY <1>2, <1>4, <1>5 DEF LifecycleInv, PluginInv

\* Removing an entry that is not up, or has just been stopped.
LEMMA RemoveStep ==
    ASSUME LifecycleInv, NEW p, Remove(p), UNCHANGED thread,
           \A q \in Plugins : live'[q] => live[q] /\ q # p,
           \A q \in Plugins : ~Subscribing(q) /\ ~Subscribing(q)'
    PROVE  PluginInv' /\ \A i \in Slots : Up(i)' => Up(i)
  <1> USE LifecycleAssumption
  <1>0. PluginInv
    BY DEF LifecycleInv
  <1>1. /\ \A i \in Slots : entry[i] # p => entry'[i] = entry[i] /\ status'[i] = status[i]
        /\ \A i \in Slots : entry[i] = p => entry'[i] = None
        /\ uses' = uses
    BY DEF Remove
  <1>2. /\ \A i \in Slots : Up(i)' => Up(i)
        /\ \A q \in Plugins : UpIn(q)' <=> (UpIn(q) /\ q # p)
    BY <1>1 DEF Up, UpIn
  <1>3. Distinct' /\ NoThreads'
    BY <1>0, <1>1 DEF PluginInv, Distinct, NoThreads
  <1>4. DependencyOrder'
    BY <1>0, <1>1 DEF PluginInv, DependencyOrder
  <1>5. LiveUp'
    BY <1>0, <1>2 DEF PluginInv, LiveUp
  <1>6. SubsInv'
    BY <1>0, <1>2 DEF PluginInv, SubsInv, Remove, RemoveSubscriptions
  <1>7. QED
    BY <1>2, <1>3, <1>4, <1>5, <1>6 DEF PluginInv

\* unuse() takes the lock; what is not started is removed at once.
LEMMA BeginUnuseStep ==
    ASSUME LifecycleInv, TypeInv', NEW t \in Tasks, BeginUnuse(t)
    PROVE  LifecycleInv'
  <1> USE LifecycleAssumption
  <1>0. /\ LockHeld' /\ TypeOK /\ PluginInv /\ lock = None
        /\ UNCHANGED <<started, live, thread>>
    BY DEF LifecycleInv, TypeInv, BeginUnuse, Acquire
  <1>1. CASE ~IsStarted(target[t]) /\ Remove(target[t]) /\ Release(t, "idle")
    <2>1. /\ lock' = None /\ todo' = Empty /\ newly' = Empty /\ cur' = 0 /\ ~subscribed'
          /\ \A q : ~Subscribing(q)'
      BY <1>1 DEF Release, Subscribing
    <2>2. \A q \in Plugins : live'[q] => live[q] /\ q # target[t]
      BY <1>0, <1>1, FindDistinct DEF PluginInv, LiveUp
    <2>3. PluginInv' /\ \A i \in Slots : Up(i)' => Up(i)
      BY <1>0, <1>1, <2>1, <2>2, FreeBefore, RemoveStep
    <2>4. PhaseInv'
      BY <1>0, <2>1, <2>3, FreeBefore, FreePhase
    <2>5. QED
      BY <2>3, <2>4 DEF LifecycleInv
  <1>2. CASE IsStarted(target[t]) /\ lock' = t /\ Goto(t, "unusing") /\ UNCHANGED <<registry, holder>>
    <2>1. todo' = Empty /\ newly' = Empty /\ cur' = 0 /\ ~subscribed' /\ \A q : ~Subscribing(q)'
      BY <1>0, <1>2, FreeBefore DEF holder, Subscribing
    <2>2. PluginInv'
      BY <1>0, <1>2, <2>1, FreeBefore, PluginFrame
    <2>3. pc'[t] = "unusing"
      BY <1>0, <1>2 DEF Goto, TypeOK, TypeCalls
    <2>4. At("unusing")' /\ ~At("starting")' /\ ~At("rollback")' /\ ~At("stopping")'
      BY <1>0, <1>2, <2>3, HeldPhase DEF At, Busy
    <2>5. started
      <3> SUFFICES ASSUME ~started PROVE FALSE
        OBVIOUS
      <3>1. \A i \in Slots : ~Up(i)
        BY <1>0, FreeBefore
      <3>2. PICK i \in Slots : IsFind(i, target[t]) /\ status[i] = "STARTED"
        BY <1>2 DEF IsStarted
      <3>3. entry[i] = None /\ target[t] = None
        BY <3>1, <3>2 DEF IsFind, Up
      <3>4. QED
        BY <1>0, <1>2, <3>3 DEF BeginUnuse, TypeOK, TypeCalls
    <2>6. PhaseInv'
      BY <1>0, <1>2, <2>1, <2>4, <2>5 DEF PhaseInv, IdleInv, StartingInv, RollbackInv,
         StoppingInv, UnusingInv, StartedInv
    <2>7. QED
      BY <2>2, <2>6 DEF LifecycleInv
  <1>3. QED
    BY <1>1, <1>2 DEF BeginUnuse

\* An unuse() whose stop() returned keeps the invariant.
LEMMA UnuseReturnsStep ==
    ASSUME LifecycleInv, TypeInv', NEW t \in Tasks, UnuseReturns(t)
    PROVE  LifecycleInv'
  <1> USE LifecycleAssumption
  <1>0. /\ LockHeld' /\ TypeRegistry /\ started /\ ~subscribed
    BY DEF LifecycleInv, TypeInv, TypeOK, UnuseReturns, PhaseInv, UnusingInv, IdleInv, At
  <1>1. /\ lock' = None /\ todo' = Empty /\ newly' = Empty /\ cur' = 0 /\ ~subscribed'
        /\ started' = started /\ \A q : ~Subscribing(q) /\ ~Subscribing(q)'
    BY <1>0 DEF UnuseReturns, Release, Subscribing
  <1>2. \A q \in Plugins : live'[q] => live[q] /\ q # target[t]
    BY <1>0 DEF UnuseReturns, TypeRegistry
  <1>3. PluginInv'
    BY <1>1, <1>2, RemoveStep DEF UnuseReturns
  <1>4. PhaseInv'
    BY <1>0, <1>1, FreePhase
  <1>5. QED
    BY <1>3, <1>4 DEF LifecycleInv

\* Under the disciplined use every step keeps the invariant.
LEMMA InvStep ==
    ASSUME Quirks = {} PROVE LifecycleInv /\ [Next]_vars => LifecycleInv'
  <1> SUFFICES ASSUME LifecycleInv, [Next]_vars PROVE LifecycleInv'
    OBVIOUS
  <1>0. TypeInv'
    BY TypeStep DEF LifecycleInv
  <1>1. CASE UNCHANGED vars
    <2>1. UNCHANGED <<registry, live, thread, pc, holder, started, lock>>
      BY <1>1 DEF vars
    <2>2. PluginInv' /\ \A i \in Slots : Up(i)' <=> Up(i)
      <3>1. \A q \in Plugins : Subscribing(q)' <=> Subscribing(q)
        BY <2>1 DEF Subscribing, holder
      <3>2. QED
        BY <2>1, <3>1, PluginFrame DEF LifecycleInv
    <2>3. PhaseInv'
      <3>1. (StartFacts' <=> StartFacts) /\ (RollbackFacts' <=> RollbackFacts)
            /\ (StopFacts' <=> StopFacts)
        BY <2>1, <2>2 DEF StartFacts, RollbackFacts, StopFacts, Holds, IsFirstOf, IsLastOf,
           registry, holder
      <3>2. QED
        BY <2>1, <2>2, <3>1 DEF LifecycleInv, PhaseInv, IdleInv, StartingInv, RollbackInv,
           StoppingInv, UnusingInv, StartedInv, At, holder
    <2>4. QED
      BY <1>0, <2>2, <2>3 DEF LifecycleInv
  <1>2. ASSUME NEW p \in Plugins, Use(p) PROVE LifecycleInv'
    BY <1>0, <1>2, UseStep
  <1>3. ASSUME NEW cap \in Capabilities, NEW p \in Plugins, Replace(cap, p) PROVE LifecycleInv'
    BY <1>0, <1>3, ReplaceStep
  <1>4. ASSUME NEW t \in Tasks, NEW o \in Ops, NEW p \in Plugins \cup {None}, Call(t, o, p)
        PROVE LifecycleInv'
    BY <1>0, <1>4, OutsideStep DEF Call, Busy
  <1>5. ASSUME NEW t \in Tasks, CancelWaiting(t) \/ RunEnds(t) PROVE LifecycleInv'
    BY <1>0, <1>5, OutsideStep DEF CancelWaiting, RunEnds, Busy
  <1>6. ASSUME NEW p \in Plugins, ThreadSubscribes(p) \/ ThreadReturns(p) PROVE LifecycleInv'
    BY <1>6 DEF ThreadSubscribes, ThreadReturns, LifecycleInv, PluginInv, NoThreads
  <1>7. ASSUME NEW t \in Tasks, RollbackCancelled(t) PROVE LifecycleInv'
    BY <1>7 DEF RollbackCancelled
  <1>8. ASSUME NEW t \in Tasks, Progress(t) PROVE LifecycleInv'
    BY <1>0, <1>8, BeginStartStep, PluginSubscribesStep, StartReturnsStep, AbortStep, SweepStep,
       BeginStopStep, BeginUnuseStep, UnuseReturnsStep, GiveUpStep DEF Progress
  <1>9. ASSUME NEW t \in Tasks, StartCancelled(t) PROVE LifecycleInv'
    BY <1>0, <1>9, AbortStep
  <1>10. ASSUME NEW t \in Tasks, StopCancelled(t) PROVE LifecycleInv'
    BY <1>0, <1>10, GiveUpStep
  <1>11. QED
    BY <1>1, <1>2, <1>3, <1>4, <1>5, <1>6, <1>7, <1>8, <1>9, <1>10 DEF Next

\* What the invariant says about each property.
LEMMA InvImplies ==
    LifecycleInv => /\ LiveIsTracked /\ DependencyOrder /\ SubscriptionsMatch
                    /\ StartsOnce /\ StoppedMeansReleased
  <1> SUFFICES ASSUME LifecycleInv
               PROVE  /\ LiveIsTracked /\ DependencyOrder /\ SubscriptionsMatch
                      /\ StartsOnce /\ StoppedMeansReleased
    OBVIOUS
  <1>1. \A p \in Plugins : IsStarted(p) <=> UpIn(p)
    BY FindDistinct DEF LifecycleInv, TypeInv, PluginInv
  <1>2. LiveIsTracked /\ DependencyOrder /\ SubscriptionsMatch
    BY <1>1 DEF LifecycleInv, PluginInv, LiveIsTracked, LiveUp, SubscriptionsMatch, SubsInv
  <1>3. StartsOnce
    BY WhileStarting DEF StartsOnce, PluginInv, LiveUp
  <1>4. StoppedMeansReleased
    BY FreeBefore, LifecycleAssumption
       DEF StoppedMeansReleased, LifecycleInv, PluginInv, LiveUp, UpIn, Up
  <1>5. QED
    BY <1>2, <1>3, <1>4

\* The invariant holds throughout every execution under the disciplined use.
LEMMA Invariance == ASSUME Quirks = {} PROVE Spec => []LifecycleInv
  BY InvInit, InvStep, PTL DEF Spec

\* No plugin that is up is ever lost from the registry's sight.
THEOREM NoPluginLeaks == ASSUME Quirks = {} PROVE Spec => []LiveIsTracked
  BY Invariance, InvImplies, PTL

\* Dependencies are up before, and until after, what was registered after them.
THEOREM StartOrder == ASSUME Quirks = {} PROVE Spec => []DependencyOrder
  BY Invariance, InvImplies, PTL

\* A plugin owns exactly the subscriptions of its one successful start().
THEOREM OneSubscription == ASSUME Quirks = {} PROVE Spec => []SubscriptionsMatch
  BY Invariance, InvImplies, PTL

\* start() is never called on a plugin that is up.
THEOREM StartedAtMostOnce == ASSUME Quirks = {} PROVE Spec => []StartsOnce
  BY Invariance, InvImplies, PTL

\* With no call in flight, an unset _started means that nothing is up.
THEOREM StopReleasesAll == ASSUME Quirks = {} PROVE Spec => []StoppedMeansReleased
  BY Invariance, InvImplies, PTL

\* The two steps that let a run() go on find every plugin of its pass up or FAILED.
LEMMA ReadyStep ==
    ASSUME LifecycleInv, [Next]_vars, NEW u \in Tasks, pc[u] # "running", pc'[u] = "running"
    PROVE  /\ started'
           /\ \A i \in 1..mark' : entry'[i] # None => status'[i] \in {"STARTED", "FAILED"}
  <1> USE LifecycleAssumption
  <1> DEFINE Ready == /\ started'
                      /\ \A i \in 1..mark' : entry'[i] # None => status'[i] \in {"STARTED", "FAILED"}
  <1>0. /\ pc \in [Tasks -> {"idle", "lock", "starting", "rollback", "stopping", "unusing", "running"}]
        /\ TypeRegistry /\ TypeHolder
    BY DEF LifecycleInv, TypeInv, TypeOK, TypeCalls
  <1>1. ASSUME NEW t \in Tasks, BeginStart(t) PROVE Ready
    <2>1. /\ WithStatus("REGISTERED") = Empty /\ started' /\ mark' = uses
          /\ entry' = entry /\ status' = status
      BY <1>0, <1>1 DEF BeginStart, Release, Await, Goto, registry
    <2>2. \A i \in Slots : entry[i] # None => status[i] # "REGISTERED"
      BY <2>1 DEF WithStatus, Empty
    <2>3. \A i \in 1..uses : i \in Slots
      BY <1>0 DEF TypeRegistry, Slots
    <2>4. QED
      BY <1>0, <2>1, <2>2, <2>3 DEF TypeRegistry, Status
  <1>2. ASSUME NEW t \in Tasks, StartReturns(t) PROVE Ready
    <2>0. pc[t] = "starting"
      BY <1>2 DEF StartReturns
    <2>1. /\ [todo EXCEPT ![cur] = None] = Empty /\ started' /\ mark' = mark /\ entry' = entry
          /\ status' = SetStatus(todo[cur], "STARTED")
      BY <1>0, <1>2 DEF StartReturns, Release, Await, Goto
    <2>2. \A i \in Slots : todo[i] # None => i = cur
      BY <1>0, <2>1 DEF TypeHolder, Empty
    <2>3. \A i \in 1..mark : i \in Slots /\ i <= mark
      BY <1>0 DEF TypeHolder, Slots
    <2>4. \A i \in 1..mark : entry[i] # None /\ status[i] = "REGISTERED" => i = cur
      BY <2>0, <2>2, <2>3, WhileStarting DEF StartFacts
    <2>5. status' = [i \in Slots |-> IF entry[i] = todo[cur] THEN "STARTED" ELSE status[i]]
      BY <2>0, <2>1, WhileStarting, FindDistinct DEF LifecycleInv, TypeInv, PluginInv
    <2>6. QED
      BY <1>0, <2>0, <2>1, <2>3, <2>4, <2>5, WhileStarting DEF TypeRegistry, Status
  <1>3. ASSUME NEW t \in Tasks, NEW l \in {"idle", "lock", "starting", "rollback", "stopping", "unusing"},
               pc' = pc \/ Goto(t, l)
        PROVE  Ready
    BY <1>0, <1>3 DEF Goto
  <1>4. CASE pc' = pc
    BY <1>4
  <1>5. ASSUME NEW t \in Tasks, Progress(t) PROVE Ready
    <2>1. CASE PluginSubscribes(t) \/ StartRaises(t) \/ RollbackReturns(t)
      BY <1>3, <2>1 DEF PluginSubscribes, StartRaises, AbortStart, RollbackReturns, Release, Await
    <2>2. CASE BeginStop(t) \/ StopReturns(t)
      BY <1>3, <2>2 DEF BeginStop, StopReturns, Release, Await
    <2>3. CASE BeginUnuse(t) \/ UnuseReturns(t) \/ UnuseFails(t)
      BY <1>3, <2>3 DEF BeginUnuse, UnuseReturns, UnuseFails, Release
    <2>4. QED
      BY <1>1, <1>2, <1>5, <2>1, <2>2, <2>3 DEF Progress
  <1>6. ASSUME NEW t \in Tasks, StartCancelled(t) \/ RollbackCancelled(t) \/ StopCancelled(t)
        PROVE Ready
    BY <1>3, <1>6 DEF StartCancelled, AbortStart, RollbackCancelled, StopCancelled, Release, Await
  <1>7. ASSUME NEW t \in Tasks, NEW o, NEW p, Call(t, o, p) \/ CancelWaiting(t) \/ RunEnds(t)
        PROVE Ready
    BY <1>3, <1>7 DEF Call, CancelWaiting, RunEnds
  <1>8. ASSUME NEW p, NEW cap, Use(p) \/ ThreadSubscribes(p) \/ ThreadReturns(p) \/ Replace(cap, p)
        PROVE Ready
    BY <1>4, <1>8 DEF Use, ThreadSubscribes, ThreadReturns, Replace
  <1>9. QED
    BY <1>4, <1>5, <1>6, <1>7, <1>8 DEF Next, vars

\* run() goes on only on a harness whose plugins are up.
THEOREM RunsReady == ASSUME Quirks = {} PROVE Spec => RunsOnReadyHarness
  <1>1. LifecycleInv /\ [Next]_vars =>
          [\A t \in Tasks : pc[t] # "running" /\ pc'[t] = "running" =>
              /\ started'
              /\ \A i \in 1..mark' : entry'[i] # None => status'[i] \in {"STARTED", "FAILED"}]_vars
    BY ReadyStep
  <1>2. QED
    BY <1>1, Invariance, PTL DEF Spec, RunsOnReadyHarness
=============================================================================
