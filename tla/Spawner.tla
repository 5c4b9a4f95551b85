------------------------------- MODULE Spawner -------------------------------
(***************************************************************************)
(* The Subagent tool (plugins/tools/subagent.py) on an InProcessSpawner    *)
(* (plugins/spawner/in_process.py): one run of a main agent and the tree   *)
(* of child agents it delegates to, all on one event loop and all behind   *)
(* the spawner's one semaphore.                                            *)
(*                                                                         *)
(* An agent is the path of call numbers that leads to it: <<>> is the main *)
(* agent, <<2, 1>> the first subagent call of its second one.  An agent    *)
(* makes one model call per iteration; the guards limit those of its own   *)
(* session, since a fork starts on a session of its own.                   *)
(***************************************************************************)
EXTENDS Naturals, Sequences, FiniteSets

CONSTANTS
    MaxConcurrent,  \* InProcessSpawner(max_concurrent=...)
    MaxDepth,       \* InProcessSpawner(max_depth=...)
    MaxCalls,       \* limit of the guards, in model calls of one session
    MaxFanout       \* bound: subagent calls in one response

ASSUME SpawnerAssumption ==
    /\ MaxConcurrent \in Nat /\ MaxDepth \in Nat
    /\ MaxCalls \in Nat \ {0} /\ MaxFanout \in Nat \ {0}

\* A call that would go deeper than MaxDepth is answered without an agent.
Agents == UNION {[1..d -> 1..MaxFanout] : d \in 0..(MaxDepth + 1)}
Root == <<>>
Parent(a) == SubSeq(a, 1, Len(a) - 1)
Children(a) == {c \in Agents : Len(c) = Len(a) + 1 /\ Parent(c) = a}

VARIABLES
    agent,        \* what each agent is doing: see Init
    calls,        \* CostState of each agent's session, in model calls
    slots,        \* agents that hold the semaphore
    waiters,      \* agents queueing for it
    interrupted   \* the interrupt signal, shared by the whole tree

vars == <<agent, calls, slots, waiters, interrupted>>

\* The states of an agent: "none", "called" (its tool call is dispatched, and not at the
\* semaphore yet), "queued", "looping" (between two awaits of its loop), "gathering"
\* (awaits its tool calls) and "answered".
Init ==
    /\ agent = [a \in Agents |-> "none"]
    /\ calls = [a \in Agents |-> 0]
    /\ slots = {} /\ waiters = <<>>
    /\ interrupted = FALSE

-----------------------------------------------------------------------------
(* asyncio.Semaphore: first come, first served. *)

Free == Cardinality(slots) < MaxConcurrent
EnterQueue(a) == waiters' = Append(waiters, a)

-----------------------------------------------------------------------------
(* The main agent. *)

\* harness.run() on a fresh session; the signal is cleared.
Run ==
    /\ agent[Root] \in {"none", "answered"}
    /\ agent' = [agent EXCEPT ![Root] = "looping"]
    /\ calls' = [a \in Agents |-> 0]
    /\ interrupted' = FALSE
    /\ UNCHANGED <<slots, waiters>>

Interrupt ==
    /\ agent[Root] \in {"looping", "gathering"}
    /\ ~interrupted
    /\ interrupted' = TRUE
    /\ UNCHANGED <<agent, calls, slots, waiters>>

-----------------------------------------------------------------------------
(* Any agent's loop. *)

\* No interrupt and no guard stops the agent: the model answers with n subagent calls.
Delegate(a, n) ==
    /\ agent[a] = "looping"
    /\ ~interrupted
    /\ calls[a] < MaxCalls
    /\ calls' = [calls EXCEPT ![a] = @ + 1]
    /\ agent' = [b \in Agents |-> IF b = a THEN "gathering"
                                  ELSE IF b \in Children(a) /\ b[Len(b)] <= n THEN "called"
                                  ELSE agent[b]]
    /\ UNCHANGED <<slots, waiters, interrupted>>

Mutant_AwaitsEveryChild(a) ==
    /\ agent[a] = "gathering"
    /\ \A c \in Children(a) : agent[c] = "answered"
    /\ agent' = [b \in Agents |-> IF b = a THEN "looping"
                                  ELSE IF b \in Children(a) THEN "none" ELSE agent[b]]
    /\ UNCHANGED <<calls, slots, waiters, interrupted>>

\* gather() has every answer, and the agent's next iteration begins.
Gathered(a) ==
    /\ agent[a] = "gathering"
    /\ \A c \in Children(a) : agent[c] \in {"none", "answered"}
    /\ agent' = [b \in Agents |-> IF b = a THEN "looping"
                                  ELSE IF b \in Children(a) THEN "none" ELSE agent[b]]
    /\ UNCHANGED <<calls, slots, waiters, interrupted>>

Mutant_SlotKept(a, final) ==
    /\ agent[a] = "looping"
    /\ final => ~interrupted /\ calls[a] < MaxCalls
    /\ agent' = [agent EXCEPT ![a] = "answered"]
    /\ calls' = [calls EXCEPT ![a] = IF final THEN @ + 1 ELSE @]
    /\ UNCHANGED <<slots, waiters, interrupted>>

\* The agent stops: interrupted, halted by a guard, with a final response that was
\* one more model call, failed or raised.  Its answer is a tool result, and leaving
\* `async with` frees the slot.
Finish(a, final) ==
    /\ agent[a] = "looping"
    /\ final => ~interrupted /\ calls[a] < MaxCalls
    /\ agent' = [agent EXCEPT ![a] = "answered"]
    /\ calls' = [calls EXCEPT ![a] = IF final THEN @ + 1 ELSE @]
    /\ slots' = slots \ {a}
    /\ UNCHANGED <<waiters, interrupted>>

-----------------------------------------------------------------------------
(* InProcessSpawner.run *)

\* Past the permission gate: a fork that is too deep is refused, another one
\* queues for the semaphore with a session of its own.
Spawn(a) ==
    /\ agent[a] = "called"
    /\ \/ /\ Len(a) > MaxDepth
          /\ agent' = [agent EXCEPT ![a] = "answered"]
          /\ UNCHANGED <<calls, slots, waiters>>
       \/ /\ Len(a) <= MaxDepth
          /\ calls' = [calls EXCEPT ![a] = 0]
          /\ agent' = [agent EXCEPT ![a] = "queued"]
          /\ EnterQueue(a)
          /\ UNCHANGED slots
    /\ UNCHANGED interrupted

\* Denied, or not approved: the call is answered and no agent comes of it.
Denied(a) ==
    /\ agent[a] = "called"
    /\ agent' = [agent EXCEPT ![a] = "answered"]
    /\ UNCHANGED <<calls, slots, waiters, interrupted>>

Acquire ==
    /\ waiters # <<>>
    /\ Free
    /\ slots' = slots \cup {Head(waiters)}
    /\ waiters' = Tail(waiters)
    /\ agent' = [agent EXCEPT ![Head(waiters)] = "looping"]
    /\ UNCHANGED <<calls, interrupted>>

-----------------------------------------------------------------------------
\* The task awaiting run() is cancelled: gather() cancels every coroutine below it,
\* each leaves its `async with` or the semaphore's queue.
Cancelled ==
    /\ agent[Root] \in {"looping", "gathering"}
    /\ agent' = [a \in Agents |-> IF a = Root THEN "answered" ELSE "none"]
    /\ slots' = {} /\ waiters' = <<>>
    /\ UNCHANGED <<calls, interrupted>>

Step(a) ==
    \/ \E n \in 1..MaxFanout : Delegate(a, n)
    \/ Gathered(a)
    \/ \E final \in BOOLEAN : Finish(a, final)
    \/ Spawn(a)
    \/ Denied(a)

Next ==
    \/ Run \/ Interrupt \/ Acquire \/ Cancelled
    \/ \E a \in Agents : Step(a)

Spec == Init /\ [][Next]_vars

\* The event loop runs every coroutine that is not waiting; models return or raise.
FairSpec == Spec /\ WF_vars(Acquire) /\ \A a \in Agents : WF_vars(Step(a))

-----------------------------------------------------------------------------
(* What the spawner promises. *)

Active == {a \in Agents : agent[a] \in {"looping", "gathering"}}

\* "cap how many run at once": the child agents that run are those that hold a slot,
\* no more than max_concurrent, and those that queue are in the queue once.  No agent
\* outlives the tool call that started it, and none holds or awaits a slot after its
\* run: its parent is gathering.
NoOrphans ==
    /\ slots = Active \ {Root} /\ Cardinality(slots) <= MaxConcurrent
    /\ \A a \in Agents \ {Root} : agent[a] # "none" => agent[Parent(a)] = "gathering"
    /\ \A a \in Agents : Cardinality({k \in 1..Len(waiters) : waiters[k] = a})
                           = (IF agent[a] = "queued" THEN 1 ELSE 0)

\* "a run can't loop, hang, or overspend unbounded": every run ends.
RunEnds == agent[Root] \in {"looping", "gathering"} ~> agent[Root] = "answered"

\* "Interrupting the main agent also stops any subagents it spawned."
InterruptStopsAll == interrupted ~> agent[Root] = "answered"
=============================================================================
