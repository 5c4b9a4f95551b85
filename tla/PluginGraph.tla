---------------------------- MODULE PluginGraph ----------------------------
(***************************************************************************)
(* HarnessGraph over Graph: the dependencies between registered plugins,   *)
(* the startup order (Kahn's waves), the members of dependency cycles (an  *)
(* iterative Tarjan) and the impact of replacing a plugin (a walk).  The   *)
(* algorithms are stepped as the loops of the code are; what they return   *)
(* is compared with the definition of the answer.                          *)
(***************************************************************************)
EXTENDS Integers, Sequences, FiniteSets, SequencesExt

CONSTANTS
    Plugins,        \* registered plugins, numbered in registration order
    Shared,         \* the plugins that implement one common protocol
    Subject         \* the plugin impact_of is asked about

ASSUME GraphAssumption ==
    /\ Plugins \subseteq Nat /\ IsFiniteSet(Plugins) /\ Subject \in Plugins
    /\ Shared \subseteq Plugins

VARIABLES
    requires,       \* Plugin.requires: classes of plugins, or the protocol 0
    job,            \* the loop that is running
    indeg, wave, waves,                             \* levels()
    indexOf, low, stack, work, components,          \* _strongly_connected()
    pending, affected                               \* impact_of()

graphVars == <<requires, job, indeg, wave, waves, indexOf, low, stack, work,
               components, pending, affected>>

(* A requirement is satisfied by another plugin, never by the plugin       *)
(* itself; several requirements may lead to the same one.                  *)
IsInstance(p, t) == p = t \/ (t = 0 /\ p \in Shared)

Pred(p) ==
    {q \in Plugins \ {p} : \E t \in requires[p] : IsInstance(q, t)}

Succ(p) == {q \in Plugins : p \in Pred(q)}

(* Every way to require the classes of the others, and for the plugins of  *)
(* Shared also their common protocol.                                      *)
Registrations ==
    {r \in [Plugins -> SUBSET (Plugins \cup {0})] :
        \A p \in Plugins : p \notin r[p] /\ (0 \in r[p] => p \in Shared)}

(* HarnessGraph(inspection) for one of them, and levels() called. *)
GraphInit(registrations) ==
    /\ requires \in registrations
    /\ job = "levels"
    /\ indeg = [p \in Plugins |-> Cardinality(Pred(p))]
    /\ wave = {p \in Plugins : Pred(p) = {}}
    /\ waves = <<>>
    /\ indexOf = <<>> /\ low = <<>> /\ stack = <<>> /\ work = <<>> /\ components = {}
    /\ pending = <<>> /\ affected = {}

Mutant_NextWave ==
    /\ job = "levels" /\ wave # {}
    /\ waves' = Append(waves, wave)
    /\ indeg' = [p \in Plugins |-> indeg[p] - (IF Pred(p) \cap wave # {} THEN 1 ELSE 0)]
    /\ wave' = {p \in Plugins : Pred(p) \cap wave # {} /\ indeg'[p] = 0}
    /\ UNCHANGED <<requires, job, indexOf, low, stack, work, components, pending, affected>>

(* levels(): emit a wave and count it off its successors. *)
NextWave ==
    /\ job = "levels" /\ wave # {}
    /\ waves' = Append(waves, wave)
    /\ indeg' = [p \in Plugins |-> indeg[p] - Cardinality(Pred(p) \cap wave)]
    /\ wave' = {p \in Plugins : Pred(p) \cap wave # {} /\ indeg'[p] = 0}
    /\ UNCHANGED <<requires, job, indexOf, low, stack, work, components, pending, affected>>

(* startup_order(): topological_order(), or the members of the cycles. *)
WavesDone ==
    /\ job = "levels" /\ wave = {}
    /\ job' = IF UNION {waves[i] : i \in DOMAIN waves} = Plugins THEN "impact" ELSE "cycles"
    /\ pending' = SetToSeq(Succ(Subject))
    /\ UNCHANGED <<requires, indeg, wave, waves, indexOf, low, stack, work, components,
                   affected>>

Visited == DOMAIN indexOf

(* Give p the next index and put it on both stacks; `below` is the rest of *)
(* the work stack.                                                         *)
Visit(p, below) ==
    LET extend(f) == [q \in Visited \cup {p} |-> IF q = p THEN Cardinality(Visited) ELSE f[q]]
    IN  /\ indexOf' = extend(indexOf)
        /\ low' = extend(low)
        /\ stack' = Append(stack, p)
        /\ work' = Append(below, [node |-> p, succ |-> Succ(p)])

NextRoot ==
    /\ job = "cycles" /\ work = <<>> /\ Visited # Plugins
    /\ Visit(Min(Plugins \ Visited), <<>>)
    /\ UNCHANGED <<requires, job, indeg, wave, waves, components, pending, affected>>

Top == work[Len(work)]

(* A successor met before closes a cycle only while it is on the stack. *)
Mutant_LowLink(nxt) ==
    [low EXCEPT ![Top.node] = Min({@, indexOf[nxt]})]

LowLink(nxt) ==
    IF \E i \in DOMAIN stack : stack[i] = nxt
    THEN [low EXCEPT ![Top.node] = Min({@, indexOf[nxt]})]
    ELSE low

(* Take the last successor: descend into it, or note a back edge.          *)
(* Dependents are wired in registration order, so the last is the largest. *)
NextSucc ==
    /\ job = "cycles" /\ work # <<>> /\ Top.succ # {}
    /\ LET nxt == Max(Top.succ)
           popped == [work EXCEPT ![Len(work)].succ = @ \ {nxt}]
       IN  \/ nxt \notin Visited /\ Visit(nxt, popped)
           \/ nxt \in Visited /\ work' = popped /\ low' = LowLink(nxt)
                /\ UNCHANGED <<indexOf, stack>>
    /\ UNCHANGED <<requires, job, indeg, wave, waves, components, pending, affected>>

(* No successor left: pop the component the node is the root of, and hand  *)
(* its low link to the parent.                                             *)
PopWork ==
    /\ job = "cycles" /\ work # <<>> /\ Top.succ = {}
    /\ LET n == Top.node
           at == CHOOSE i \in DOMAIN stack : stack[i] = n
           component == {stack[i] : i \in at..Len(stack)}
           rest == SubSeq(work, 1, Len(work) - 1)
       IN  /\ IF low[n] = indexOf[n]
              THEN /\ stack' = SubSeq(stack, 1, at - 1)
                   /\ components' = IF Cardinality(component) > 1 \/ n \in Succ(n)
                                    THEN components \cup {component} ELSE components
              ELSE UNCHANGED <<stack, components>>
           /\ work' = rest
           /\ low' = IF rest = <<>> THEN low
                     ELSE [low EXCEPT ![rest[Len(rest)].node] = Min({@, low[n]})]
    /\ UNCHANGED <<requires, job, indeg, wave, waves, indexOf, pending, affected>>

CyclesDone ==
    /\ job = "cycles" /\ work = <<>> /\ Visited = Plugins
    /\ job' = "impact"
    /\ UNCHANGED <<requires, indeg, wave, waves, indexOf, low, stack, work, components,
                   pending, affected>>

(* impact_of(): a depth-first walk that skips what it has met. *)
Walk ==
    /\ job = "impact" /\ pending # <<>>
    /\ LET n == pending[Len(pending)]
           rest == SubSeq(pending, 1, Len(pending) - 1)
       IN  IF n \in affected THEN pending' = rest /\ UNCHANGED affected
           ELSE /\ affected' = affected \cup {n}
                /\ pending' = rest \o SetToSeq(Succ(n))
    /\ UNCHANGED <<requires, job, indeg, wave, waves, indexOf, low, stack, work, components>>

Mutant_WalkDone ==
    /\ job = "impact" /\ pending = <<>>
    /\ job' = "done"
    /\ UNCHANGED <<requires, indeg, wave, waves, indexOf, low, stack, work, components, pending,
                   affected>>

(* A cycle can lead the walk back to the plugin. *)
WalkDone ==
    /\ job = "impact" /\ pending = <<>>
    /\ affected' = affected \ {Subject}
    /\ job' = "done"
    /\ UNCHANGED <<requires, indeg, wave, waves, indexOf, low, stack, work, components, pending>>

(* _cycle_members() *)
CycleMembers == UNION components

Mutant_Rendered ==
    LET shown[path \in SUBSET Plugins] ==
            [p \in Plugins |-> IF p \in path THEN {p}
                               ELSE {p} \cup UNION {shown[path \cup {p}][q] : q \in Pred(p)}]
        entries == {p \in Plugins : Pred(p) = {}}
    IN  UNION {shown[{}][p] : p \in IF entries = {} THEN Plugins ELSE entries}

(* render(): the plugins shown below the ones nothing depends on, or, when *)
(* every plugin has a dependent, below each; a path stops at a repetition. *)
Rendered ==
    LET shown[path \in SUBSET Plugins] ==
            [p \in Plugins |-> IF p \in path THEN {p}
                               ELSE {p} \cup UNION {shown[path \cup {p}][q] : q \in Pred(p)}]
        entries == {p \in Plugins : Succ(p) = {}}
    IN  UNION {shown[{}][p] : p \in IF entries = {} THEN Plugins ELSE entries}

GraphNext ==
    \/ NextWave \/ WavesDone \/ NextRoot \/ NextSucc \/ PopWork \/ CyclesDone
    \/ Walk \/ WalkDone

GraphSpec == GraphInit(Registrations) /\ [][GraphNext]_graphVars

-----------------------------------------------------------------------------
(* What depends on p, directly or through others: the least set with the   *)
(* dependents of p and of its own members.                                 *)
Dependents(p) ==
    LET direct == [r \in Plugins |-> Succ(r)]
        closed == {S \in SUBSET Plugins : \A r \in S : direct[r] \subseteq S}
    IN  {q \in Plugins : \A S \in closed : direct[p] \subseteq S => q \in S}

OnCycle == {p \in Plugins : p \in Dependents(p)}

(* startup_order() lists every plugin after everything it requires, or     *)
(* finds that this is impossible because some depend on themselves.        *)
StartupExact ==
    job = "done" =>
        /\ \A i, j \in DOMAIN waves : \A p \in waves[i], q \in waves[j] :
                p \in Pred(q) => i < j
        /\ UNION {waves[i] : i \in DOMAIN waves} = Plugins <=> OnCycle = {}

(* The cycles DependencyCycleError reports are the sets of plugins that    *)
(* depend on each other: no plugin is missed, and none that merely leads   *)
(* to a cycle or away from one is blamed.                                  *)
CyclesExact ==
    job = "done" =>
        LET cyclic == OnCycle
        IN  /\ components = {{q \in Dependents(p) : p \in Dependents(q)} : p \in cyclic}
            /\ CycleMembers = cyclic

(* impact_of() returns everything that depends on the plugin, and nothing  *)
(* else: not the plugin itself, even when it is on a cycle.                *)
ImpactExact ==
    job = "done" => affected = Dependents(Subject) \ {Subject}

(* The drawing leaves out at most cycles and what only they require.       *)
DrawingComplete ==
    job = "done" =>
        \A p \in Plugins \ Rendered : \E q \in OnCycle : p = q \/ q \in Dependents(p)
(* The answers are those of the definitions. *)
AnswersExact == StartupExact /\ CyclesExact /\ ImpactExact /\ DrawingComplete
=============================================================================
