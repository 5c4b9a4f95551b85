---------------------------- MODULE SpawnerProofs ----------------------------
(***************************************************************************)
(* Proofs about Spawner for every limit on slots, depth, model calls and   *)
(* fan-out: agents, the semaphore and its queue always agree.              *)
(***************************************************************************)
EXTENDS Spawner, FiniteSetTheorems, SequenceTheorems, TLAPS

States == {"none", "called", "queued", "looping", "gathering", "answered"}

SpawnerType ==
    /\ agent \in [Agents -> States]
    /\ slots \subseteq Agents /\ IsFiniteSet(slots)
    /\ waiters \in Seq(Agents)
    /\ agent[Root] \notin {"called", "queued"}

\* The child agents that run are those that hold a slot.
SlotsInv == slots = Active \ {Root} /\ Cardinality(slots) <= MaxConcurrent

\* Whoever has been called is awaited.
AwaitedInv == \A a \in Agents \ {Root} : agent[a] # "none" => agent[Parent(a)] = "gathering"

\* The queue holds those who wait, each once.
QueueInv ==
    /\ \A k \in 1..Len(waiters) : agent[waiters[k]] = "queued"
    /\ \A k, l \in 1..Len(waiters) : waiters[k] = waiters[l] => k = l
    /\ \A a \in Agents : agent[a] = "queued" => \E k \in 1..Len(waiters) : waiters[k] = a

SpawnerInv == SpawnerType /\ SlotsInv /\ AwaitedInv /\ QueueInv

-----------------------------------------------------------------------------
(* The tree of agents.                                                     *)

\* An agent is a path; the main one is the empty path.
LEMMA AgentsArePaths ==
    /\ Root \in Agents /\ Len(Root) = 0
    /\ \A a \in Agents : a \in Seq(1..MaxFanout) /\ Len(a) \in 0..(MaxDepth + 1)
    /\ \A a \in Agents : Len(a) = 0 => a = Root
<1> USE SpawnerAssumption
<1>1. Root \in [1..0 -> 1..MaxFanout]
    BY DEF Root
<1>2. Root \in Agents /\ Len(Root) = 0
    BY <1>1 DEF Agents, Root
<1>3. \A a \in Agents : a \in Seq(1..MaxFanout) /\ Len(a) \in 0..(MaxDepth + 1)
    BY DEF Agents
<1>4. \A a \in Agents : Len(a) = 0 => a = Root
    BY <1>3, EmptySeq DEF Root
<1>5. QED
    BY <1>2, <1>3, <1>4

\* A prefix of a sequence.
LEMMA PrefixOf ==
    ASSUME NEW S, NEW s \in Seq(S), NEW n \in 0..Len(s)
    PROVE  SubSeq(s, 1, n) \in Seq(S) /\ Len(SubSeq(s, 1, n)) = n
OBVIOUS

\* Every other agent is a child of the one that made its call.
LEMMA ParentsAreAgents ==
    ASSUME NEW b \in Agents, b # Root
    PROVE  Parent(b) \in Agents /\ Parent(b) # b /\ b \in Children(Parent(b))
<1> USE SpawnerAssumption
<1>1. b \in Seq(1..MaxFanout) /\ Len(b) \in 1..(MaxDepth + 1)
    BY AgentsArePaths
<1>2. Parent(b) \in Seq(1..MaxFanout) /\ Len(Parent(b)) = Len(b) - 1
    <2>1. Len(b) - 1 \in 0..Len(b)
        BY <1>1
    <2>2. QED
        BY <1>1, <2>1, PrefixOf DEF Parent
<1>3. Parent(b) \in [1..(Len(b) - 1) -> 1..MaxFanout]
    BY <1>2, LenProperties
<1>4. Parent(b) \in Agents
    <2> DEFINE d == Len(b) - 1
    <2>1. d \in 0..(MaxDepth + 1) /\ Parent(b) \in [1..d -> 1..MaxFanout]
        BY <1>1, <1>3
    <2> HIDE DEF d
    <2>2. QED
        BY <2>1 DEF Agents
<1>5. QED
    BY <1>1, <1>2, <1>4 DEF Children

\* A child is neither its parent nor the main agent.
LEMMA ChildrenAreOthers ==
    ASSUME NEW a \in Agents, NEW c \in Children(a)
    PROVE  c \in Agents /\ c # a /\ c # Root /\ Parent(c) = a
BY AgentsArePaths DEF Children

-----------------------------------------------------------------------------
(* The invariant.                                                          *)

\* No slot is taken and nobody waits at the start.
LEMMA SpawnerInit == Init => SpawnerInv
<1> SUFFICES ASSUME Init PROVE SpawnerInv
    OBVIOUS
<1> USE SpawnerAssumption DEF Init
<1>1. SpawnerType
    BY AgentsArePaths, FS_EmptySet, EmptySeq DEF SpawnerType, States
<1>2. SlotsInv
    BY FS_EmptySet DEF SlotsInv, Active
<1>3. AwaitedInv /\ QueueInv
    BY DEF AwaitedInv, QueueInv
<1>4. QED
    BY <1>1, <1>2, <1>3 DEF SpawnerInv

\* An agent whose loop runs, or has answered or was never called, has no agent below it.
LEMMA NothingBelow ==
    ASSUME SpawnerInv, NEW a \in Agents, agent[a] # "gathering", NEW c \in Children(a)
    PROVE  agent[c] = "none"
BY ChildrenAreOthers DEF SpawnerInv, AwaitedInv

\* An agent that runs is the main one or holds a slot, and the others that run keep theirs.
LEMMA ActiveOnes ==
    ASSUME SpawnerType
    PROVE  \A a \in Agents : a \in Active <=> agent[a] \in {"looping", "gathering"}
BY DEF Active

\* A response with subagent calls: the children are called, and the agent awaits them.
LEMMA DelegateStep ==
    ASSUME SpawnerInv, NEW a \in Agents, NEW n \in 1..MaxFanout, Delegate(a, n)
    PROVE  SpawnerInv'
<1> USE DEF SpawnerInv, SpawnerType
<1>1. /\ agent[a] = "looping" /\ UNCHANGED <<slots, waiters>>
      /\ \A b \in Agents : agent'[b] = IF b = a THEN "gathering"
                                     ELSE IF b \in Children(a) /\ b[Len(b)] <= n THEN "called"
                                     ELSE agent[b]
      /\ agent' \in [Agents -> States]
    BY DEF Delegate, States
<1>2. Root \notin Children(a) /\ a \notin Children(a)
    BY ChildrenAreOthers
<1>3. \A c \in Children(a) : agent[c] = "none"
    BY <1>1, NothingBelow
<1>4. SpawnerType'
    BY <1>1, <1>2, AgentsArePaths
<1>5. SlotsInv'
    BY <1>1, <1>3 DEF SlotsInv, Active
<1>6. AwaitedInv'
    <2> SUFFICES ASSUME NEW b \in Agents \ {Root}, agent'[b] # "none"
                 PROVE  agent'[Parent(b)] = "gathering"
        BY DEF AwaitedInv
    <2>1. Parent(b) \in Agents /\ b \in Children(Parent(b))
        BY ParentsAreAgents
    <2>2. CASE b \in Children(a)
        BY <1>1, <2>2, ChildrenAreOthers
    <2>3. CASE b \notin Children(a)
        <3>1. agent[b] # "none"
            BY <1>1, <2>3
        <3>2. agent[Parent(b)] = "gathering"
            BY <3>1 DEF AwaitedInv
        <3>3. QED
            BY <1>1, <1>3, <2>1, <3>2
    <2>4. QED
        BY <2>2, <2>3
<1>7. QueueInv'
    BY <1>1, <1>3 DEF QueueInv
<1>8. QED
    BY <1>4, <1>5, <1>6, <1>7

\* gather() returns: nobody is left below the agent, whose next iteration begins.
LEMMA GatheredStep ==
    ASSUME SpawnerInv, NEW a \in Agents, Gathered(a)
    PROVE  SpawnerInv'
<1> USE DEF SpawnerInv, SpawnerType
<1>1. /\ agent[a] = "gathering" /\ UNCHANGED <<slots, waiters>>
      /\ \A c \in Children(a) : agent[c] \in {"none", "answered"}
      /\ \A b \in Agents : agent'[b] = IF b = a THEN "looping"
                                     ELSE IF b \in Children(a) THEN "none" ELSE agent[b]
      /\ agent' \in [Agents -> States]
    BY DEF Gathered, States
<1>2. Root \notin Children(a) /\ a \notin Children(a)
    BY ChildrenAreOthers
<1>3. SpawnerType'
    BY <1>1, <1>2, AgentsArePaths
<1>4. SlotsInv'
    BY <1>1 DEF SlotsInv, Active
<1>5. AwaitedInv'
    <2> SUFFICES ASSUME NEW b \in Agents \ {Root}, agent'[b] # "none"
                 PROVE  agent'[Parent(b)] = "gathering"
        BY DEF AwaitedInv
    <2>1. Parent(b) \in Agents /\ b \in Children(Parent(b))
        BY ParentsAreAgents
    <2>2. b \notin Children(a) /\ agent[b] # "none"
        BY <1>1, <1>2
    <2>3. agent[Parent(b)] = "gathering" /\ Parent(b) # a
        BY <2>1, <2>2 DEF AwaitedInv
    <2>4. QED
        BY <1>1, <2>1, <2>3
<1>6. QueueInv'
    BY <1>1 DEF QueueInv
<1>7. QED
    BY <1>3, <1>4, <1>5, <1>6

\* An agent ends and frees its slot.
LEMMA FinishStep ==
    ASSUME SpawnerInv, NEW a \in Agents, NEW final \in BOOLEAN, Finish(a, final)
    PROVE  SpawnerInv'
<1> USE DEF SpawnerInv, SpawnerType
<1>1. /\ agent[a] = "looping" /\ agent' = [agent EXCEPT ![a] = "answered"]
      /\ slots' = slots \ {a} /\ waiters' = waiters
    BY DEF Finish
<1>2. SpawnerType' /\ Cardinality(slots') <= MaxConcurrent
    <2>1. IsFiniteSet(slots') /\ Cardinality(slots') <= Cardinality(slots)
        BY <1>1, FS_Subset
    <2>2. Cardinality(slots) \in Nat /\ Cardinality(slots') \in Nat
        BY <2>1, FS_CardinalityType
    <2>3. QED
        BY <1>1, <2>1, <2>2, SpawnerAssumption, AgentsArePaths DEF States, SlotsInv
<1>3. SlotsInv'
    BY <1>1, <1>2 DEF SlotsInv, Active
<1>4. AwaitedInv'
    BY <1>1, ParentsAreAgents DEF AwaitedInv
<1>5. QueueInv'
    BY <1>1 DEF QueueInv
<1>6. QED
    BY <1>2, <1>3, <1>4, <1>5

\* A call that is answered without an agent.
LEMMA AnsweredStep ==
    ASSUME SpawnerInv, NEW a \in Agents, agent[a] = "called",
           agent' = [agent EXCEPT ![a] = "answered"], UNCHANGED <<slots, waiters>>
    PROVE  SpawnerInv'
<1> USE DEF SpawnerInv, SpawnerType
<1>1. SpawnerType'
    BY AgentsArePaths DEF States
<1>2. SlotsInv'
    BY DEF SlotsInv, Active
<1>3. AwaitedInv'
    BY ParentsAreAgents DEF AwaitedInv
<1>4. QueueInv'
    BY DEF QueueInv
<1>5. QED
    BY <1>1, <1>2, <1>3, <1>4

\* A fork that is not too deep queues for the semaphore.
LEMMA QueueStep ==
    ASSUME SpawnerInv, NEW a \in Agents, agent[a] = "called",
           agent' = [agent EXCEPT ![a] = "queued"], EnterQueue(a), slots' = slots
    PROVE  SpawnerInv'
<1> USE DEF SpawnerInv, SpawnerType
<1>1. /\ waiters' \in Seq(Agents) /\ Len(waiters') = Len(waiters) + 1
      /\ \A k \in 1..Len(waiters) : waiters'[k] = waiters[k]
      /\ waiters'[Len(waiters) + 1] = a
    BY AppendProperties DEF EnterQueue
<1>2. Len(waiters) \in Nat
    BY LenProperties
<1>3. SpawnerType'
    BY <1>1, AgentsArePaths DEF States
<1>4. SlotsInv'
    BY DEF SlotsInv, Active
<1>5. AwaitedInv'
    BY ParentsAreAgents DEF AwaitedInv
<1>6. QueueInv'
    <2>1. \A k \in 1..Len(waiters') : k \in 1..Len(waiters) \/ k = Len(waiters) + 1
        BY <1>1, <1>2
    <2>2. \A k \in 1..Len(waiters) : waiters[k] \in Agents /\ waiters[k] # a
        BY ElementOfSeq DEF QueueInv
    <2>3. 1..Len(waiters) \subseteq 1..Len(waiters') /\ Len(waiters) + 1 \in 1..Len(waiters')
        BY <1>1, <1>2
    <2>4. QED
        BY <1>1, <2>1, <2>2, <2>3, SMTT(30) DEF QueueInv
<1>7. QED
    BY <1>3, <1>4, <1>5, <1>6

\* The first in the queue gets a free slot.
LEMMA AcquireStep ==
    ASSUME SpawnerInv, Acquire
    PROVE  SpawnerInv'
<1> USE DEF SpawnerInv, SpawnerType
<1> DEFINE h == Head(waiters)
<1>1. /\ waiters # <<>> /\ Free /\ slots' = slots \cup {h} /\ waiters' = Tail(waiters)
      /\ agent' = [agent EXCEPT ![h] = "looping"]
    BY DEF Acquire
<1>2. Len(waiters) \in Nat \ {0}
    BY <1>1, EmptySeq
<1>3. h \in Agents /\ h = waiters[1]
    BY <1>1, <1>2, HeadTailProperties
<1>4. agent[h] = "queued" /\ h # Root
    BY <1>2, <1>3 DEF QueueInv
<1>5. /\ waiters' \in Seq(Agents) /\ Len(waiters') = Len(waiters) - 1
      /\ \A k \in 1..Len(waiters') : waiters'[k] = waiters[k + 1]
    BY <1>1, HeadTailProperties
<1> HIDE DEF h
<1>6. SpawnerType'
    BY <1>1, <1>3, <1>4, <1>5, FS_AddElement, AgentsArePaths DEF States
<1>7. SlotsInv'
    <2>1. h \notin slots
        BY <1>4 DEF SlotsInv, Active
    <2>2. Cardinality(slots') = Cardinality(slots) + 1
        BY <1>1, <2>1, FS_AddElement
    <2>3. Cardinality(slots) \in Nat /\ Cardinality(slots) < MaxConcurrent
        BY <1>1, FS_CardinalityType DEF Free
    <2>4. Cardinality(slots') <= MaxConcurrent
        BY <2>2, <2>3, SpawnerAssumption
    <2>5. slots' = (Active \ {Root})'
        BY <1>1, <1>3, <1>4 DEF SlotsInv, Active
    <2>6. QED
        BY <2>4, <2>5 DEF SlotsInv
<1>8. AwaitedInv'
    BY <1>1, <1>3, <1>4, ParentsAreAgents DEF AwaitedInv
<1>9. QueueInv'
    <2>1. \A k \in 1..Len(waiters') : k + 1 \in 1..Len(waiters) /\ k + 1 # 1 /\ waiters[k + 1] # h
        BY <1>2, <1>3, <1>5 DEF QueueInv
    <2>2. \A k \in 1..Len(waiters) : waiters[k] \in Agents
        BY ElementOfSeq
    <2>3. \A k \in 1..Len(waiters') : agent'[waiters'[k]] = "queued"
        BY <1>1, <1>5, <2>1, <2>2 DEF QueueInv
    <2>4. \A k, l \in 1..Len(waiters') : waiters'[k] = waiters'[l] => k = l
        BY <1>2, <1>5, <2>1, SMTT(30) DEF QueueInv
    <2>5. ASSUME NEW a \in Agents, agent'[a] = "queued" PROVE \E k \in 1..Len(waiters') : waiters'[k] = a
        <3>1. agent[a] = "queued" /\ a # h
            BY <1>1, <1>3, <2>5
        <3>2. PICK k \in 1..Len(waiters) : waiters[k] = a
            BY <3>1 DEF QueueInv
        <3>3. k - 1 \in 1..Len(waiters') /\ waiters'[k - 1] = a
            BY <1>2, <1>3, <1>5, <3>1, <3>2
        <3>4. QED
            BY <3>3
    <2>6. QED
        BY <2>3, <2>4, <2>5 DEF QueueInv
<1>10. QED
    BY <1>6, <1>7, <1>8, <1>9

\* The task that awaits run() is cancelled, and everyone with it.
LEMMA CancelledStep ==
    ASSUME SpawnerInv, Cancelled
    PROVE  SpawnerInv'
<1> USE DEF SpawnerInv, SpawnerType, Cancelled
<1>1. SpawnerType'
    BY AgentsArePaths, FS_EmptySet, EmptySeq DEF States
<1>2. SlotsInv'
    BY FS_EmptySet, SpawnerAssumption DEF SlotsInv, Active
<1>3. AwaitedInv' /\ QueueInv'
    BY DEF AwaitedInv, QueueInv
<1>4. QED
    BY <1>1, <1>2, <1>3

\* A new run of the main agent.
LEMMA RunStep ==
    ASSUME SpawnerInv, Run
    PROVE  SpawnerInv'
<1> USE DEF SpawnerInv, SpawnerType, Run
<1>1. SpawnerType'
    BY AgentsArePaths DEF States
<1>2. SlotsInv'
    BY DEF SlotsInv, Active
<1>3. AwaitedInv'
    BY AgentsArePaths, ParentsAreAgents DEF AwaitedInv
<1>4. QueueInv'
    BY DEF QueueInv
<1>5. QED
    BY <1>1, <1>2, <1>3, <1>4

\* Every step keeps the invariant.
LEMMA SpawnerStep == SpawnerInv /\ [Next]_vars => SpawnerInv'
<1> SUFFICES ASSUME SpawnerInv, [Next]_vars PROVE SpawnerInv'
    OBVIOUS
<1>1. CASE Run
    BY <1>1, RunStep
<1>2. CASE Interrupt \/ UNCHANGED vars
    BY <1>2 DEF Interrupt, vars, SpawnerInv, SpawnerType, SlotsInv, AwaitedInv, QueueInv, Active
<1>3. CASE Acquire
    BY <1>3, AcquireStep
<1>4. CASE Cancelled
    BY <1>4, CancelledStep
<1>5. ASSUME NEW a \in Agents, Step(a) PROVE SpawnerInv'
    <2>1. CASE Spawn(a)
        BY <2>1, AnsweredStep, QueueStep DEF Spawn
    <2>2. CASE Denied(a)
        BY <2>2, AnsweredStep DEF Denied
    <2>3. QED
        BY <1>5, <2>1, <2>2, DelegateStep, GatheredStep, FinishStep DEF Step
<1>6. QED
    BY <1>1, <1>2, <1>3, <1>4, <1>5 DEF Next

\* A waiter stands in the queue once, anyone else not at all.
LEMMA QueuedOnce ==
    ASSUME SpawnerType, QueueInv, NEW a \in Agents
    PROVE  Cardinality({k \in 1..Len(waiters) : waiters[k] = a}) = (IF agent[a] = "queued" THEN 1 ELSE 0)
<1> DEFINE places == {k \in 1..Len(waiters) : waiters[k] = a}
<1>1. CASE agent[a] = "queued"
    <2>1. PICK k \in 1..Len(waiters) : waiters[k] = a
        BY <1>1 DEF QueueInv
    <2>2. places = {k}
        BY <2>1 DEF QueueInv
    <2>3. QED
        BY <1>1, <2>2, FS_Singleton
<1>2. CASE agent[a] # "queued"
    <2>1. places = {}
        BY <1>2 DEF QueueInv
    <2>2. QED
        BY <1>2, <2>1, FS_EmptySet
<1>3. QED
    BY <1>1, <1>2

\* InProcessSpawner and the Subagent tool: the child agents that run are those that hold
\* one of max_concurrent slots, the queue holds those that wait, and nobody outlives the
\* tool call that started it, for any depth, fan-out and number of slots.
THEOREM NobodyOrphaned == Spec => []NoOrphans
<1>1. SpawnerInv => NoOrphans
    BY QueuedOnce DEF SpawnerInv, SlotsInv, AwaitedInv, NoOrphans
<1>2. QED
    BY SpawnerInit, SpawnerStep, <1>1, PTL DEF Spec
=============================================================================
