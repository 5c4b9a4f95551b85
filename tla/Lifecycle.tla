------------------------------ MODULE Lifecycle ------------------------------
(***************************************************************************)
(* The plugin lifecycle of NexusAIHarness (harness/harness.py) over its    *)
(* Registry (harness/registry.py): use, unuse, replace, start, stop and    *)
(* run, called by concurrent asyncio tasks.                                *)
(*                                                                         *)
(* An action is the code between two awaits.  The awaits are the lock, a   *)
(* plugin's start() and a plugin's stop(); at each of them the awaited     *)
(* call may return, raise an Exception, or be cancelled (a BaseException). *)
(*                                                                         *)
(* Registry._entries is a list; here it is a function on Slots in which a  *)
(* removed entry leaves a hole, so list order is slot order.  Every plugin *)
(* of the model is a Lifecycle plugin: the others never enter the lists    *)
(* unstarted(Lifecycle) and started(Lifecycle).                            *)
(***************************************************************************)
EXTENDS Naturals

CONSTANTS
    Plugins,       \* plugin instances
    Tasks,         \* asyncio tasks calling the harness
    Subscribers,   \* the plugins whose start() calls ctx.on(...)
    Capabilities,  \* protocol types, each as the set of plugins implementing it
    Requires,      \* Requires[p]: the capabilities p declares in `requires`
    MaxUses,       \* bound: how many times use() is called
    Quirks,        \* what the application does beyond the disciplined use
    None           \* no plugin / no task

AllQuirks == {"double_use",         \* use() twice with the same instance
              "replace_in_flight",  \* replace() while a lifecycle call is in flight
              "cancel_rollback",    \* a second cancellation, during a rollback
              "cancel_thread"}      \* cancelling a start() written as a plain def

ASSUME LifecycleAssumption ==
    /\ MaxUses \in Nat
    /\ Subscribers \subseteq Plugins
    /\ Capabilities \subseteq SUBSET Plugins
    /\ Requires \in [Plugins -> SUBSET Capabilities]
    /\ Quirks \subseteq AllQuirks
    /\ None \notin Plugins
    /\ None \notin Tasks

Slots == 1..MaxUses
Ops == {"start", "run", "stop", "unuse"}
Status == {"REGISTERED", "STARTED", "FAILED"}

VARIABLES
    entry,      \* Registry._entries: entry[i] is the plugin in slot i, or None
    status,     \* Registration.status of the entry in slot i
    uses,       \* number of slots handed out so far
    subs,       \* how many event subscriptions each plugin owns
    started,    \* NexusAIHarness._started
    lock,       \* the task holding _lifecycle_lock, or None
    pc,         \* where each task is
    op,         \* the call each task is making
    target,     \* the argument of unuse()
    todo,       \* the list the lock holder iterates over, by slot
    newly,      \* the plugins start() has brought up in this pass, by slot
    cur,        \* slot of `current`, the plugin being awaited (0: none)
    subscribed, \* whether the start() being awaited has already subscribed
    mark,       \* uses when start() took its list of unstarted plugins
    live,       \* the plugin's own view: start() returned, stop() not called since
    thread      \* the worker thread abandoned inside a plugin's start(); the
                \* bound: at most one per plugin

registry == <<entry, status, uses, subs>>
holder == <<todo, newly, cur, subscribed, mark>>
vars == <<registry, started, lock, pc, op, target, holder, live, thread>>

Empty == [i \in Slots |-> None]

TypeRegistry ==
    /\ entry \in [Slots -> Plugins \cup {None}]
    /\ status \in [Slots -> Status]
    /\ uses \in 0..MaxUses
    /\ subs \in [Plugins -> Nat]
    /\ live \in [Plugins -> BOOLEAN]
    /\ thread \in [Plugins -> {"none", "subscribing", "returning", "ended"}]

TypeCalls ==
    /\ started \in BOOLEAN
    /\ lock \in Tasks \cup {None}
    /\ pc \in [Tasks -> {"idle", "lock", "starting", "rollback", "stopping",
                         "unusing", "running"}]
    /\ op \in [Tasks -> Ops]
    /\ target \in [Tasks -> Plugins \cup {None}]
    /\ \A t \in Tasks : op[t] = "unuse" => target[t] # None

TypeHolder ==
    /\ todo \in [Slots -> Plugins \cup {None}]
    /\ newly \in [Slots -> Plugins \cup {None}]
    /\ cur \in 0..MaxUses
    /\ subscribed \in BOOLEAN
    /\ mark \in 0..MaxUses

TypeOK == TypeRegistry /\ TypeCalls /\ TypeHolder

Init ==
    /\ entry = Empty
    /\ status = [i \in Slots |-> "REGISTERED"]
    /\ uses = 0
    /\ subs = [p \in Plugins |-> 0]
    /\ started = FALSE
    /\ lock = None
    /\ pc = [t \in Tasks |-> "idle"]
    /\ op = [t \in Tasks |-> "start"]
    /\ target = [t \in Tasks |-> None]
    /\ todo = Empty
    /\ newly = Empty
    /\ cur = 0
    /\ subscribed = FALSE
    /\ mark = 0
    /\ live = [p \in Plugins |-> FALSE]
    /\ thread = [p \in Plugins |-> "none"]

-----------------------------------------------------------------------------
(* The registry. *)

Registered(p) == \E i \in Slots : entry[i] = p

\* _find: only the first entry of an instance is ever looked at.
IsFind(i, p) == entry[i] = p /\ \A j \in Slots : entry[j] = p => i <= j

SetStatus(p, s) ==
    [i \in Slots |-> IF IsFind(i, p) THEN s ELSE status[i]]

IsStarted(p) == \E i \in Slots : IsFind(i, p) /\ status[i] = "STARTED"

\* Mutant: unstarted() excludes only the FAILED plugins.
\* unstarted(Lifecycle) and started(Lifecycle), as lists indexed by slot.
WithStatus(s) == [i \in Slots |-> IF status[i] = s THEN entry[i] ELSE None]

RemoveSubscriptions(S) == [p \in Plugins |-> IF p \in S THEN 0 ELSE subs[p]]

\* A requirement must be provided by another registered plugin.
Unmet ==
    \E i \in Slots : /\ entry[i] # None
                     /\ \E cap \in Requires[entry[i]] :
                            \A j \in Slots : entry[j] \in cap => entry[j] = entry[i]

-----------------------------------------------------------------------------
(* Iteration over a list, in order or reversed. *)

IsFirstOf(i, list) == list[i] # None /\ \A j \in Slots : list[j] # None => i <= j

\* Mutant: the teardown goes in registration order.
Mutant_NotReversed(i, list) == IsFirstOf(i, list)

IsLastOf(i, list) == list[i] # None /\ \A j \in Slots : list[j] # None => j <= i

Goto(t, l) == pc' = [pc EXCEPT ![t] = l]

\* Mutant: the lock is not released after a rollback.
Mutant_LockKept(t, l) ==
    /\ lock' = IF pc[t] = "rollback" THEN lock ELSE None
    /\ Goto(t, l)
    /\ todo' = Empty /\ newly' = Empty /\ cur' = 0 /\ subscribed' = FALSE
    /\ UNCHANGED mark

\* Leaving `async with self._lifecycle_lock`, and with it the call.
Release(t, l) ==
    /\ lock' = None
    /\ Goto(t, l)
    /\ todo' = Empty
    /\ newly' = Empty
    /\ cur' = 0
    /\ subscribed' = FALSE
    /\ UNCHANGED mark

\* Awaiting the next plugin of `list`, where Pick says which one is next.
Await(t, l, list, Pick(_, _)) ==
    /\ \E i \in Slots : Pick(i, list) /\ cur' = i
    /\ todo' = list
    /\ subscribed' = FALSE
    /\ Goto(t, l)

-----------------------------------------------------------------------------
(* Synchronous calls: they need no lock and run between any two awaits. *)

Use(p) ==
    /\ uses < MaxUses
    /\ "double_use" \in Quirks \/ ~Registered(p)
    /\ uses' = uses + 1
    /\ entry' = [entry EXCEPT ![uses + 1] = p]
    /\ status' = [status EXCEPT ![uses + 1] = "REGISTERED"]
    /\ UNCHANGED <<subs, started, lock, pc, op, target, holder, live, thread>>

InFlight == lock # None

Replace(cap, p) ==
    /\ ~started
    /\ "replace_in_flight" \in Quirks \/ ~InFlight
    /\ p \in cap
    /\ \E first \in Slots :
        /\ entry[first] \in cap
        /\ \A j \in Slots : entry[j] \in cap => first <= j
        /\ entry' = [i \in Slots |-> IF i = first THEN p
                                     ELSE IF entry[i] \in cap THEN None ELSE entry[i]]
    /\ status' = [i \in Slots |-> IF entry[i] \in cap THEN "REGISTERED" ELSE status[i]]
    /\ subs' = RemoveSubscriptions({entry[i] : i \in {j \in Slots : entry[j] \in cap}})
    /\ UNCHANGED <<uses, started, lock, pc, op, target, holder, live, thread>>

-----------------------------------------------------------------------------
(* A task makes a call and queues for the lock. *)

Call(t, o, p) ==
    /\ pc[t] = "idle"
    /\ (o = "unuse") <=> (p # None)
    /\ o = "stop" => started          \* stop() returns at once otherwise
    /\ op' = [op EXCEPT ![t] = o]
    /\ target' = [target EXCEPT ![t] = p]
    /\ Goto(t, "lock")
    /\ UNCHANGED <<registry, started, lock, holder, live, thread>>

CancelWaiting(t) ==
    /\ pc[t] = "lock"
    /\ Goto(t, "idle")
    /\ UNCHANGED <<registry, started, lock, op, target, holder, live, thread>>

Acquire(t) == pc[t] = "lock" /\ lock = None

-----------------------------------------------------------------------------
(* start(), and the start() every run() awaits first. *)

Started(t) == IF op[t] = "run" THEN "running" ELSE "idle"

\* Mutant: start() returns early on a harness that is already started.
Mutant_StartOnlyOnce(t) ==
    /\ Acquire(t)
    /\ op[t] \in {"start", "run"}
    /\ \/ /\ started \/ WithStatus("REGISTERED") = Empty
          /\ started' = TRUE
          /\ lock' = None
          /\ Goto(t, Started(t))
          /\ mark' = uses
          /\ UNCHANGED <<todo, newly, cur, subscribed>>
       \/ /\ ~started
          /\ Await(t, "starting", WithStatus("REGISTERED"), IsFirstOf)
          /\ lock' = t
          /\ newly' = Empty
          /\ mark' = uses
          /\ UNCHANGED started
    /\ UNCHANGED <<registry, op, target, live, thread>>

BeginStart(t) ==
    /\ Acquire(t)
    /\ op[t] \in {"start", "run"}
    /\ \/ /\ Unmet                    \* MissingDependencyError
          /\ Release(t, "idle")
          /\ UNCHANGED started
       \/ /\ ~Unmet
          /\ WithStatus("REGISTERED") = Empty
          /\ started' = TRUE
          /\ lock' = None
          /\ Goto(t, Started(t))
          /\ mark' = uses
          /\ UNCHANGED <<todo, newly, cur, subscribed>>
       \/ /\ ~Unmet
          /\ Await(t, "starting", WithStatus("REGISTERED"), IsFirstOf)
          /\ lock' = t
          /\ newly' = Empty
          /\ mark' = uses
          /\ UNCHANGED started
    /\ UNCHANGED <<registry, op, target, live, thread>>

\* The awaited start() calls ctx.on with the owned context it was given.
PluginSubscribes(t) ==
    /\ pc[t] = "starting"
    /\ todo[cur] \in Subscribers
    /\ ~subscribed
    /\ subs' = [subs EXCEPT ![todo[cur]] = @ + 1]
    /\ subscribed' = TRUE
    /\ UNCHANGED <<entry, status, uses, started, lock, pc, op, target,
                   todo, newly, cur, mark, live, thread>>

StartReturns(t) ==
    LET p == todo[cur]
        rest == [todo EXCEPT ![cur] = None] IN
    /\ pc[t] = "starting"
    /\ p \in Subscribers => subscribed
    /\ live' = [live EXCEPT ![p] = TRUE]
    /\ status' = SetStatus(p, "STARTED")
    /\ \/ /\ rest # Empty
          /\ newly' = [newly EXCEPT ![cur] = p]
          /\ Await(t, "starting", rest, IsFirstOf)
          /\ UNCHANGED <<started, lock, mark>>
       \/ /\ rest = Empty
          /\ started' = TRUE
          /\ Release(t, Started(t))
    /\ UNCHANGED <<entry, uses, subs, op, target, thread>>

\* Mutant: the subscriptions of the interrupted start() are kept.
Mutant_KeepSubscriptions(t) ==
    /\ \/ /\ newly # Empty
          /\ Await(t, "rollback", newly, IsLastOf)
          /\ newly' = Empty
          /\ UNCHANGED <<lock, mark>>
       \/ /\ newly = Empty
          /\ Release(t, "idle")
    /\ UNCHANGED <<subs, entry, uses, started, op, target, live>>

\* The except branch: drop the interrupted plugin, then roll this pass back.
AbortStart(t) ==
    /\ subs' = RemoveSubscriptions({todo[cur]})
    /\ \/ /\ newly # Empty
          /\ Await(t, "rollback", newly, IsLastOf)
          /\ newly' = Empty
          /\ UNCHANGED <<lock, mark>>
       \/ /\ newly = Empty
          /\ Release(t, "idle")
    /\ UNCHANGED <<entry, uses, started, op, target, live>>

StartRaises(t) ==
    /\ pc[t] = "starting"
    /\ AbortStart(t)
    /\ status' = SetStatus(todo[cur], "FAILED")
    /\ UNCHANGED thread

StartCancelled(t) ==
    /\ pc[t] = "starting"
    /\ AbortStart(t)
    /\ UNCHANGED status
    /\ \/ UNCHANGED thread            \* an async def start() stops where it was
       \/ /\ "cancel_thread" \in Quirks   \* a plain def runs on in its thread
          /\ thread[todo[cur]] = "none"
          /\ thread' = [thread EXCEPT ![todo[cur]] =
                          IF todo[cur] \in Subscribers /\ ~subscribed
                          THEN "subscribing" ELSE "returning"]

\* Mutant: stopping a plugin drops one subscription, whether or not it has one.
\* Stop has been called on the plugin at cur: forget it was started.
Untrack(p) ==
    /\ live' = [live EXCEPT ![p] = FALSE]
    /\ status' = SetStatus(p, "REGISTERED")
    /\ subs' = RemoveSubscriptions({p})

\* The rollback's stop() returned, or raised an Exception that is only logged.
RollbackReturns(t) ==
    LET rest == [todo EXCEPT ![cur] = None] IN
    /\ pc[t] = "rollback"
    /\ Untrack(todo[cur])
    /\ \/ /\ rest # Empty
          /\ Await(t, "rollback", rest, IsLastOf)
          /\ UNCHANGED <<lock, newly, mark>>
       \/ /\ rest = Empty
          /\ Release(t, "idle")
    /\ UNCHANGED <<entry, uses, started, op, target, thread>>

\* A BaseException leaves the for loop: the rest of the pass stays started.
RollbackCancelled(t) ==
    /\ "cancel_rollback" \in Quirks
    /\ pc[t] = "rollback"
    /\ Untrack(todo[cur])
    /\ Release(t, "idle")
    /\ UNCHANGED <<entry, uses, started, op, target, thread>>

\* A worker thread nobody awaits any more goes on with the plugin's start().
ThreadSubscribes(p) ==
    /\ thread[p] = "subscribing"
    /\ subs' = [subs EXCEPT ![p] = @ + 1]
    /\ thread' = [thread EXCEPT ![p] = "returning"]
    /\ UNCHANGED <<entry, status, uses, started, lock, pc, op, target, holder, live>>

ThreadReturns(p) ==
    /\ thread[p] = "returning"
    /\ live' = [live EXCEPT ![p] = TRUE]
    /\ thread' = [thread EXCEPT ![p] = "ended"]
    /\ UNCHANGED <<registry, started, lock, pc, op, target, holder>>

-----------------------------------------------------------------------------
(* stop() *)

\* Mutant: _started is cleared before the sweep.
Mutant_FlipBeforeSweep(t) ==
    /\ Acquire(t)
    /\ op[t] = "stop"
    /\ started' = FALSE
    /\ \/ /\ ~started \/ WithStatus("STARTED") = Empty
          /\ Release(t, "idle")
       \/ /\ started
          /\ Await(t, "stopping", WithStatus("STARTED"), IsLastOf)
          /\ lock' = t
          /\ UNCHANGED <<newly, mark>>
    /\ UNCHANGED <<registry, op, target, live, thread>>

BeginStop(t) ==
    /\ Acquire(t)
    /\ op[t] = "stop"
    /\ \/ /\ ~started \/ WithStatus("STARTED") = Empty
          /\ started' = FALSE
          /\ Release(t, "idle")
       \/ /\ started
          /\ Await(t, "stopping", WithStatus("STARTED"), IsLastOf)
          /\ lock' = t
          /\ UNCHANGED <<started, newly, mark>>
    /\ UNCHANGED <<registry, op, target, live, thread>>

\* plugin.stop() returned, or raised an Exception kept for the end of the sweep.
StopReturns(t) ==
    LET rest == [todo EXCEPT ![cur] = None] IN
    /\ pc[t] = "stopping"
    /\ Untrack(todo[cur])
    /\ \/ /\ rest # Empty
          /\ Await(t, "stopping", rest, IsLastOf)
          /\ UNCHANGED <<started, lock, newly, mark>>
       \/ /\ rest = Empty
          /\ started' = FALSE
          /\ Release(t, "idle")
    /\ UNCHANGED <<entry, uses, op, target, thread>>

\* A BaseException leaves the plugin STARTED, so a retried stop() stops it again.
StopCancelled(t) ==
    /\ pc[t] = "stopping"
    /\ live' = [live EXCEPT ![todo[cur]] = FALSE]
    /\ Release(t, "idle")
    /\ UNCHANGED <<registry, started, op, target, thread>>

-----------------------------------------------------------------------------
(* unuse(plugin) *)

Remove(p) ==
    /\ entry' = [i \in Slots |-> IF entry[i] = p THEN None ELSE entry[i]]
    /\ status' = [i \in Slots |-> IF entry[i] = p THEN "REGISTERED" ELSE status[i]]
    /\ subs' = RemoveSubscriptions({p})
    /\ UNCHANGED uses

\* Mutant: unuse() removes a started plugin without stopping it.
Mutant_UnuseWithoutStop(t) ==
    /\ Acquire(t)
    /\ op[t] = "unuse"
    /\ Remove(target[t])
    /\ Release(t, "idle")
    /\ UNCHANGED <<started, op, target, live, thread>>

BeginUnuse(t) ==
    /\ Acquire(t)
    /\ op[t] = "unuse"
    /\ \/ /\ ~IsStarted(target[t])
          /\ Remove(target[t])
          /\ Release(t, "idle")
       \/ /\ IsStarted(target[t])
          /\ lock' = t
          /\ Goto(t, "unusing")
          /\ UNCHANGED <<registry, holder>>
    /\ UNCHANGED <<started, op, target, live, thread>>

UnuseReturns(t) ==
    /\ pc[t] = "unusing"
    /\ live' = [live EXCEPT ![target[t]] = FALSE]
    /\ Remove(target[t])
    /\ Release(t, "idle")
    /\ UNCHANGED <<started, op, target, thread>>

\* stop() raised or was cancelled: the plugin stays registered and STARTED.
UnuseFails(t) ==
    /\ pc[t] = "unusing"
    /\ live' = [live EXCEPT ![target[t]] = FALSE]
    /\ Release(t, "idle")
    /\ UNCHANGED <<registry, started, op, target, thread>>

-----------------------------------------------------------------------------
\* The rest of run(), after its start(): no lifecycle state changes.
RunEnds(t) ==
    /\ pc[t] = "running"
    /\ Goto(t, "idle")
    /\ UNCHANGED <<registry, started, lock, op, target, holder, live, thread>>

\* The code of a task that holds or takes the lock, absent cancellation.
Progress(t) ==
    \/ BeginStart(t) \/ PluginSubscribes(t) \/ StartReturns(t) \/ StartRaises(t)
    \/ RollbackReturns(t)
    \/ BeginStop(t) \/ StopReturns(t)
    \/ BeginUnuse(t) \/ UnuseReturns(t) \/ UnuseFails(t)

Next ==
    \/ \E p \in Plugins : Use(p) \/ ThreadSubscribes(p) \/ ThreadReturns(p)
    \/ \E cap \in Capabilities, p \in Plugins : Replace(cap, p)
    \/ \E t \in Tasks :
        \/ \E o \in Ops, p \in Plugins \cup {None} : Call(t, o, p)
        \/ CancelWaiting(t) \/ StartCancelled(t) \/ RollbackCancelled(t)
        \/ StopCancelled(t) \/ Progress(t) \/ RunEnds(t)

Spec == Init /\ [][Next]_vars

\* Plugin methods return or raise, and asyncio.Lock serves its waiters in turn,
\* so a waiter for which the lock is free again and again gets it.
FairSpec == Spec /\ \A t \in Tasks : SF_vars(Progress(t))

-----------------------------------------------------------------------------
(* What the lifecycle promises.                                            *)

\* A plugin that is up is known to be up: whatever start() returned from is
\* marked STARTED in the registry until stop() has been called on it, so no
\* unuse, failed pass, rollback or cancellation leaks a running plugin.
LiveIsTracked == \A p \in Plugins : live[p] => IsStarted(p)

\* "register a dependency before the plugin that needs it so it is initialized
\* first and torn down last": a plugin is STARTED only while every plugin
\* registered before it is STARTED too, or FAILED.
DependencyOrder ==
    \A i, j \in Slots :
        /\ j < i
        /\ entry[i] # None /\ entry[j] # None
        /\ status[i] = "STARTED"
        => status[j] \in {"STARTED", "FAILED"}

\* The plugin whose start() is being awaited has subscribed already.
Subscribing(p) == \E t \in Tasks : pc[t] = "starting" /\ todo[cur] = p /\ subscribed

\* A plugin owns the subscriptions of exactly one start(): none before it, none
\* after a failed, cancelled or rolled back one, no second set after a restart.
SubscriptionsMatch ==
    \A p \in Plugins :
        subs[p] = IF p \in Subscribers /\ (IsStarted(p) \/ Subscribing(p)) THEN 1 ELSE 0

\* start() is never called on a plugin that is already up.
StartsOnce ==
    \A t \in Tasks : pc[t] = "starting" => ~live[todo[cur]]

\* stop() "release[s] every started lifecycle plugin".  It does nothing unless
\* _started is set, so with no call in flight an unset _started must mean that
\* no plugin is up.
StoppedMeansReleased ==
    lock = None /\ ~started => \A p \in Plugins : ~live[p]

\* run() goes on only when every plugin registered before its start() took its
\* list is up or has been marked FAILED, also when another task did the work.
RunsOnReadyHarness ==
    [][\A t \in Tasks : pc[t] # "running" /\ pc'[t] = "running" =>
          /\ started'
          /\ \A i \in 1..mark' : entry'[i] # None => status'[i] \in {"STARTED", "FAILED"}
      ]_vars

\* No lifecycle call waits for ever: every start(), stop() and unuse() gets the
\* lock and returns or raises.
CallsReturn ==
    \A t \in Tasks : pc[t] # "idle" ~> pc[t] \in {"idle", "running"}
=============================================================================
