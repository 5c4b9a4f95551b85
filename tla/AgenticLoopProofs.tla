-------------------------- MODULE AgenticLoopProofs --------------------------
(***************************************************************************)
(* Proofs about AgenticLoop for every value of its constants: any number   *)
(* of calls, interventions, runs and iterations.                           *)
(***************************************************************************)
EXTENDS AgenticLoop, SequenceTheorems, FiniteSetTheorems, TLAPS

-----------------------------------------------------------------------------
(* Types.  The iteration index stays within its range because an iteration *)
(* only gets past the guards below the limit.                              *)

BelowLimit == phase \in {"prepare", "model", "tools"} => i < MaxIterations

ControlInv == TypeControl /\ BelowLimit

\* The guard chain answers with a stop reason or lets the loop proceed.
LEMMA GuardsAnswer ==
    ASSUME NEW index, NEW total, NEW start
    PROVE  GuardChain(index, total, start) \in Reasons \cup {"proceed"}
BY DEF GuardChain, Reasons

\* The bounds of the loop are numbers.
LEMMA Limits ==
    /\ MaxIterations \in Nat /\ MaxAux \in Nat /\ MaxRuns \in Nat
    /\ 0 \in 0..MaxIterations /\ 0 \in 0..MaxAux
BY LoopAssumption

\* MaxIterations lets only an index below its limit pass.
LEMMA BelowMaxIterations ==
    ASSUME NEW index, NEW total, NEW start, GuardChain(index, total, start) = "proceed"
    PROVE  ~(index >= MaxIterations)
BY DEF GuardChain, MaxIterationsHalts

\* Every step keeps the control state typed and the index below the limit inside an iteration.
LEMMA ControlStep == ControlInv /\ [Next]_vars => ControlInv'
<1> SUFFICES ASSUME ControlInv, [Next]_vars PROVE ControlInv'
    OBVIOUS
<1> USE Limits DEF ControlInv, TypeControl, BelowLimit, Phases
<1>1. CASE Run
    BY <1>1 DEF Run, session, counters
<1>2. CASE Interrupt
    BY <1>2 DEF Interrupt, counters, timing
<1>3. CASE Tick
    BY <1>3 DEF Tick, session, counters
<1>4. CASE \E n \in Notes : Submit(n)
    BY <1>4 DEF Submit, counters, timing
<1>5. CASE BeginLoop
    BY <1>5 DEF BeginLoop, counters
<1>6. CASE Top
    BY <1>6 DEF Top, Stop, counters, timing, Reasons
<1>7. CASE Apply
    BY <1>7 DEF Apply, counters, timing
<1>8. CASE Guard
    <2>1. PICK halt : /\ halt = GuardChain(i, cost, startedAt)
                      /\ \/ halt # "proceed" /\ Stop(halt)
                         \/ halt = "proceed" /\ phase' = "prepare" /\ UNCHANGED <<stopReason, asked>>
        BY <1>8 DEF Guard
    <2>2. halt \in Reasons \cup {"proceed"}
        BY <2>1, GuardsAnswer
    <2>3. halt = "proceed" => i < MaxIterations
        <3>1. halt = "proceed" => ~(i >= MaxIterations)
            BY <2>1, BelowMaxIterations, Zenon
        <3> QED
            BY <3>1
    <2> QED
        BY <1>8, <2>1, <2>2, <2>3 DEF Guard, Stop, session, counters, timing
<1>9. CASE Auxiliary
    BY <1>9 DEF Auxiliary, session, timing
<1>10. CASE Prepared
    BY <1>10 DEF Prepared, session, counters, timing
<1>11. CASE ModelFails
    BY <1>11 DEF ModelFails, Stop, session, counters, timing, Reasons
<1>12. CASE \E b \in Batches : ModelReturns(b)
    <2>1. PICK b \in Batches : ModelReturns(b)
        BY <1>12
    <2>2. GuardChain(i, cost', startedAt) \in Reasons \cup {"proceed"}
        BY GuardsAnswer
    <2> QED
        BY <2>1, <2>2 DEF ModelReturns, Stop, timing, Reasons
<1>13. CASE ToolsDone
    BY <1>13 DEF ToolsDone, counters, timing
<1>14. CASE \E c \in Calls : Tool(c)
    BY <1>14 DEF Tool, Gate, Approved, ToolReturns, SetCall, session, counters, timing
<1>15. CASE \E c \in Calls : LateFinishes(c)
    BY <1>15 DEF LateFinishes, session, counters, timing
<1>16. CASE \E c \in Calls : GateRaises(c)
    BY <1>16 DEF GateRaises, Raise, session, counters, timing
<1>17. CASE Cancelled
    BY <1>17 DEF Cancelled, Raise, session, counters, timing
<1>18. CASE ApplyRaises
    BY <1>18 DEF ApplyRaises, Raise, session, counters, timing
<1>19. CASE UNCHANGED vars
    BY <1>19 DEF vars, session, counters, timing
<1> QED
    BY <1>1, <1>2, <1>3, <1>4, <1>5, <1>6, <1>7, <1>8, <1>9, <1>10, <1>11, <1>12, <1>13,
       <1>14, <1>15, <1>16, <1>17, <1>18, <1>19 DEF Next, Loop

\* What the loop adds to the history is a message.
LEMMA MessagesAreMessages ==
    /\ User \in Message
    /\ \A n \in Notes : Note(n) \in Message
    /\ \A c \in Calls : ToolMessage(c) \in Message
    /\ \A b \in Batches : Assistant(b) \in Message
BY LoopAssumption DEF Message, User, Note, ToolMessage, Assistant

\* Every step keeps the session's history, inbox and interventions typed.
LEMMA SessionStep == TypeSession /\ TypeTools /\ [Next]_vars => TypeSession'
<1> SUFFICES ASSUME TypeSession, TypeTools, [Next]_vars PROVE TypeSession'
    OBVIOUS
<1> USE DEF TypeSession
<1>1. CASE \E n \in Notes : Submit(n)
    BY <1>1 DEF Submit
<1>2. CASE BeginLoop
    <2>1. history' \in Seq(Message)
        BY <1>2, MessagesAreMessages, AppendProperties DEF BeginLoop
    <2> QED
        BY <1>2, <2>1 DEF BeginLoop
<1>3. CASE Top
    <2>1. <<>> \in Seq(Notes)
        OBVIOUS
    <2> QED
        BY <1>3, <2>1 DEF Top, Stop
<1>4. CASE Apply
    <2>1. Head(taken) \in Notes /\ Tail(taken) \in Seq(Notes)
        BY <1>4 DEF Apply
    <2>2. history' \in Seq(Message)
        BY <1>4, <2>1, MessagesAreMessages, AppendProperties DEF Apply
    <2> QED
        BY <1>4, <2>1, <2>2 DEF Apply
<1>5. CASE \E b \in Batches : ModelReturns(b)
    <2>1. history' \in Seq(Message)
        BY <1>5, MessagesAreMessages, AppendProperties DEF ModelReturns
    <2> QED
        BY <1>5, <2>1 DEF ModelReturns
<1>6. CASE ToolsDone
    <2> DEFINE results == [k \in 1..Len(batch) |-> ToolMessage(batch[k])]
    <2>1. batch \in Seq(Calls)
        <3>1. Batches \subseteq Seq(Calls) /\ <<>> \in Seq(Calls)
            BY LoopAssumption
        <3> QED
            BY <3>1 DEF TypeTools
    <2>2. results \in Seq(Message)
        BY <2>1, MessagesAreMessages
    <2>3. history' \in Seq(Message)
        BY <1>6, <2>2, ConcatProperties DEF ToolsDone
    <2> QED
        BY <1>6, <2>3 DEF ToolsDone
<1>7. CASE \E c \in Calls : GateRaises(c)
    BY <1>7 DEF GateRaises, Raise, session
<1>8. CASE Cancelled
    BY <1>8 DEF Cancelled, Raise, session
<1>9. CASE ApplyRaises
    <2>1. PICK k \in 1..Len(submitted) :
              submitted' = SubSeq(submitted, 1, k - 1) \o SubSeq(submitted, k + 1, Len(submitted))
        BY <1>9 DEF ApplyRaises
    <2>2. /\ SubSeq(submitted, 1, k - 1) \in Seq(Notes)
          /\ SubSeq(submitted, k + 1, Len(submitted)) \in Seq(Notes)
        BY SubSeqProperties
    <2>3. submitted' \in Seq(Notes)
        BY <2>1, <2>2, ConcatProperties
    <2> QED
        BY <1>9, <2>3 DEF ApplyRaises, Raise, session
<1>10. CASE \/ Run \/ Interrupt \/ Tick \/ Guard \/ Auxiliary \/ Prepared \/ ModelFails
            \/ UNCHANGED vars \/ \E c \in Calls : Tool(c) \/ LateFinishes(c)
    BY <1>10 DEF Run, Interrupt, Tick, Guard, Auxiliary, Prepared, ModelFails, Tool, Gate,
                 Approved, ToolReturns, SetCall, LateFinishes, vars, session
<1> QED
    BY <1>1, <1>2, <1>3, <1>4, <1>5, <1>6, <1>7, <1>8, <1>9, <1>10 DEF Next, Loop

\* Every step keeps the batch and the state of its tool calls typed.
LEMMA ToolsStep == TypeTools /\ [Next]_vars => TypeTools'
<1> SUFFICES ASSUME TypeTools, [Next]_vars PROVE TypeTools'
    OBVIOUS
<1> USE DEF TypeTools
<1>1. CASE \E b \in Batches : ModelReturns(b)
    BY <1>1 DEF ModelReturns
<1>2. CASE ToolsDone
    BY <1>2 DEF ToolsDone
<1>3. CASE \E c \in Calls : Tool(c)
    BY <1>3 DEF Tool, Gate, Approved, ToolReturns, SetCall
<1>4. CASE \E c \in Calls : LateFinishes(c)
    BY <1>4 DEF LateFinishes
<1>5. CASE \E c \in Calls : GateRaises(c)
    BY <1>5 DEF GateRaises, Raise
<1>6. CASE Cancelled
    BY <1>6 DEF Cancelled, Raise
<1>7. CASE ApplyRaises
    BY <1>7 DEF ApplyRaises, Raise
<1>8. CASE \/ Run \/ Interrupt \/ Tick \/ BeginLoop \/ Top \/ Apply \/ Guard \/ Auxiliary
           \/ Prepared \/ ModelFails \/ UNCHANGED vars \/ \E n \in Notes : Submit(n)
    BY <1>8 DEF Run, Interrupt, Tick, BeginLoop, Top, Apply, Guard, Auxiliary, Prepared,
                ModelFails, Submit, vars
<1> QED
    BY <1>1, <1>2, <1>3, <1>4, <1>5, <1>6, <1>7, <1>8 DEF Next, Loop

\* CostCounter adds one for an auxiliary response, and one for the loop's own although two
\* events announce it.
LEMMA Counting ==
    /\ CountAuxiliary <=> paid' = paid + 1 /\ cost' = cost + 1 /\ counted' = paid + 1
    /\ CountResponse <=> paid' = paid + 1 /\ cost' = cost + 1 /\ counted' = None
BY DEF CountAuxiliary, CountResponse, OnModelCallCompleted, OnResponseReceived

\* Every step keeps cost and time typed.
LEMMA CountersStep == TypeCounters /\ [Next]_vars => TypeCounters'
<1> SUFFICES ASSUME TypeCounters, [Next]_vars PROVE TypeCounters'
    OBVIOUS
<1>0. MaxTime \in Nat
    BY LoopAssumption
<1> USE <1>0 DEF TypeCounters
<1>1. CASE Run
    BY <1>1 DEF Run, counters
<1>2. CASE Tick
    BY <1>2 DEF Tick, counters
<1>3. CASE BeginLoop
    BY <1>3 DEF BeginLoop, ElapsedTime, counters
<1>4. CASE Auxiliary
    BY <1>4, Counting DEF Auxiliary, timing
<1>5. CASE \E b \in Batches : ModelReturns(b)
    BY <1>5, Counting DEF ModelReturns, timing
<1>6. CASE \/ Interrupt \/ Top \/ Apply \/ Guard \/ Prepared \/ ModelFails \/ ToolsDone
           \/ Cancelled \/ ApplyRaises \/ UNCHANGED vars \/ \E n \in Notes : Submit(n)
           \/ \E c \in Calls : Tool(c) \/ LateFinishes(c) \/ GateRaises(c)
    <2>1. UNCHANGED <<counters, timing>>
        BY <1>6 DEF Interrupt, Top, Apply, Guard, Prepared, ModelFails, ToolsDone, Cancelled,
                    ApplyRaises, Submit, Tool, Gate, Approved, ToolReturns, SetCall, LateFinishes,
                    GateRaises, Raise, vars
    <2> QED
        BY <2>1 DEF counters, timing
<1> QED
    BY <1>1, <1>2, <1>3, <1>4, <1>5, <1>6 DEF Next, Loop

LoopTypeInv == ControlInv /\ TypeSession /\ TypeTools /\ TypeCounters

\* A new session is idle and not interrupted.
LEMMA InitControl ==
    Init => phase = "idle" /\ stopReason = "" /\ ~asked /\ ~interrupted
BY Zenon DEF Init

\* A new session is empty.
LEMMA InitSession ==
    Init => history = <<>> /\ inbox = <<>> /\ taken = <<>> /\ submitted = <<>>
BY Zenon DEF Init

\* A new session has spent nothing.
LEMMA InitCounters ==
    Init => /\ cost = 0 /\ paid = 0 /\ counted = None
            /\ clock = 0 /\ startedAt = None
BY Zenon DEF Init

\* A new session is typed.
LEMMA LoopTypeInit == Init => LoopTypeInv
<1> SUFFICES ASSUME Init PROVE LoopTypeInv
    OBVIOUS
<1>0. MaxTime \in Nat /\ 0 \in 0..MaxRuns
    BY LoopAssumption
<1>1. ControlInv
    BY <1>0, Limits DEF Init, ControlInv, TypeControl, BelowLimit, Phases, Reasons
<1>2. TypeSession
    <2>1. <<>> \in Seq(Message) /\ <<>> \in Seq(Notes)
        OBVIOUS
    <2> QED
        BY <2>1, InitSession, Zenon DEF TypeSession
<1>3. TypeTools
    BY DEF Init, TypeTools
<1>4. TypeCounters
    BY <1>0, InitCounters DEF TypeCounters
<1> QED
    BY <1>1, <1>2, <1>3, <1>4 DEF LoopTypeInv

\* Every step keeps all types.
LEMMA LoopTypeStep == LoopTypeInv /\ [Next]_vars => LoopTypeInv'
BY ControlStep, SessionStep, ToolsStep, CountersStep DEF LoopTypeInv

\* Whatever goes wrong, AgenticLoop.run and the session keep their types; in particular the
\* iteration index never passes the limit of the MaxIterations guard.
THEOREM LoopTypeCorrect == Spec => []TypeOK
<1>1. LoopTypeInv => TypeOK
    BY DEF LoopTypeInv, ControlInv, TypeOK
<1> QED
    BY <1>1, LoopTypeInit, LoopTypeStep, PTL DEF Spec

-----------------------------------------------------------------------------
(* Money.  The guards see the cost once per iteration, so what is spent    *)
(* between them is bounded by the calls of one iteration.                  *)

SpendInv ==
    /\ cost = paid
    /\ cost <= MaxCost + MaxAux
    /\ phase = "prepare" => cost < MaxCost + aux
    /\ phase = "model" => cost < MaxCost + MaxAux

\* BudgetGuard lets only a cost below the budget pass.
LEMMA BelowBudget ==
    ASSUME NEW index, NEW total, NEW start, GuardChain(index, total, start) = "proceed"
    PROVE  ~(total >= MaxCost)
BY DEF GuardChain, BudgetHalts

\* Every step keeps the spend counted and within one iteration of the budget.
LEMMA SpendStep == LoopTypeInv /\ SpendInv /\ [Next]_vars => SpendInv'
<1> SUFFICES ASSUME LoopTypeInv, SpendInv, [Next]_vars PROVE SpendInv'
    OBVIOUS
<1>0. /\ cost \in Nat /\ paid \in Nat /\ aux \in 0..MaxAux
      /\ MaxCost \in Nat /\ MaxAux \in Nat
    BY LoopAssumption DEF LoopTypeInv, ControlInv, TypeControl, TypeCounters
<1> USE <1>0 DEF SpendInv
<1>1. CASE Guard
    <2>1. CASE GuardChain(i, cost, startedAt) = "proceed"
        <3>1. ~(cost >= MaxCost)
            BY <2>1, BelowBudget
        <3> QED
            BY <1>1, <2>1, <3>1 DEF Guard, counters
    <2>2. CASE GuardChain(i, cost, startedAt) # "proceed"
        BY <1>1, <2>2 DEF Guard, Stop, counters
    <2> QED
        BY <2>1, <2>2
<1>2. CASE Auxiliary
    BY <1>2, Counting DEF Auxiliary
<1>3. CASE Prepared
    BY <1>3 DEF Prepared, counters
<1>4. CASE \E b \in Batches : ModelReturns(b)
    BY <1>4, Counting DEF ModelReturns, Stop
<1>5. CASE Run \/ BeginLoop \/ Top \/ Apply \/ ModelFails \/ ToolsDone \/ Cancelled \/ ApplyRaises
           \/ \E c \in Calls : GateRaises(c)
    <2>1. UNCHANGED counters /\ phase' \notin {"prepare", "model"}
        BY <1>5 DEF Run, BeginLoop, Top, Apply, ModelFails, ToolsDone, Cancelled, ApplyRaises,
                    GateRaises, Raise, Stop
    <2> QED
        BY <2>1 DEF counters
<1>6. CASE \/ Interrupt \/ Tick \/ UNCHANGED vars \/ \E n \in Notes : Submit(n)
           \/ \E c \in Calls : Tool(c) \/ LateFinishes(c)
    <2>1. UNCHANGED <<counters, phase, aux>>
        BY <1>6 DEF Interrupt, Tick, Submit, Tool, Gate, Approved, ToolReturns, SetCall,
                    LateFinishes, vars
    <2> QED
        BY <2>1 DEF counters
<1> QED
    BY <1>1, <1>2, <1>3, <1>4, <1>5, <1>6 DEF Next, Loop

\* The spend invariant holds in every reachable state.
LEMMA SpendInvariance == Spec => [](LoopTypeInv /\ SpendInv)
<1>1. Init => SpendInv
    <2>1. MaxCost \in Nat /\ MaxAux \in Nat
        BY LoopAssumption
    <2>2. Init => phase \notin {"prepare", "model"}
        BY InitControl
    <2> QED
        BY <2>1, <2>2, InitCounters DEF SpendInv
<1> QED
    BY <1>1, LoopTypeInit, LoopTypeStep, SpendStep, PTL DEF Spec

\* CostCounter counts every model call once, on every path of the loop.
THEOREM EveryCallCountedOnce == Spec => []CountedOnce
<1>1. SpendInv => CountedOnce
    BY DEF SpendInv, CountedOnce
<1> QED
    BY <1>1, SpendInvariance, PTL

\* The BudgetGuard lets a session overspend by one iteration's calls at most, for
\* any number of runs, failures, cancellations and interrupts.
THEOREM OverspendIsBounded == Spec => []OverspendBounded
<1>1. SpendInv => OverspendBounded
    BY DEF SpendInv, OverspendBounded
<1> QED
    BY <1>1, SpendInvariance, PTL

\* Nothing but the loop's own return ends a run.
NoRaise == Quirks \cap {"cancel", "raise_in_gate", "apply_raises"} = {}

\* run_session reports "completed" only for a session within its budget.
THEOREM CompletedIsWithinBudget == ASSUME NoRaise PROVE Spec => []CompletedWithinBudget
<1>1. Init => CompletedWithinBudget
    BY InitControl DEF CompletedWithinBudget
<1>2. ASSUME LoopTypeInv, CompletedWithinBudget, [Next]_vars PROVE CompletedWithinBudget'
    <2>0. /\ cost \in Nat /\ MaxCost \in Nat
          /\ ~Cancelled /\ ~ApplyRaises /\ \A c \in Calls : ~GateRaises(c)
        BY <1>2, LoopAssumption, NoRaise
           DEF LoopTypeInv, TypeCounters, NoRaise, Cancelled, ApplyRaises, GateRaises
    <2> USE DEF CompletedWithinBudget
    <2>1. CASE \E b \in Batches : ModelReturns(b)
        <3>1. PICK b \in Batches : ModelReturns(b)
            BY <2>1
        <3>2. CASE b # <<>>
            BY <3>1, <3>2 DEF ModelReturns
        <3>3. CASE b = <<>> /\ GuardChain(i, cost', startedAt) # "proceed"
            <4>1. stopReason' = GuardChain(i, cost', startedAt)
                BY <3>1, <3>3 DEF ModelReturns, Stop
            <4> QED
                BY <4>1 DEF GuardChain
        <3>4. CASE b = <<>> /\ GuardChain(i, cost', startedAt) = "proceed"
            <4>1. ~(cost' >= MaxCost)
                BY <3>4, BelowBudget
            <4>2. cost' = cost + 1
                BY <3>1, Counting DEF ModelReturns
            <4> QED
                BY <2>0, <4>1, <4>2
        <3> QED
            BY <3>2, <3>3, <3>4
    <2>2. CASE Guard
        BY <2>2 DEF Guard, Stop, GuardChain
    <2>3. CASE Top \/ ModelFails
        BY <2>3 DEF Top, ModelFails, Stop
    <2>4. CASE Run \/ BeginLoop \/ Apply \/ Prepared \/ ToolsDone \/ Auxiliary
        BY <2>4 DEF Run, BeginLoop, Apply, Prepared, ToolsDone, Auxiliary
    <2>5. CASE \/ Interrupt \/ Tick \/ UNCHANGED vars \/ \E n \in Notes : Submit(n)
               \/ \E c \in Calls : Tool(c) \/ LateFinishes(c)
        <3>1. UNCHANGED <<counters, phase, stopReason>>
            BY <2>5 DEF Interrupt, Tick, Submit, Tool, Gate, Approved, ToolReturns, SetCall,
                        LateFinishes, vars
        <3> QED
            BY <1>2, <3>1 DEF counters
    <2> QED
        BY <1>2, <2>0, <2>1, <2>2, <2>3, <2>4, <2>5 DEF Next, Loop
<1> QED
    BY <1>1, <1>2, LoopTypeInit, LoopTypeStep, PTL DEF Spec

-----------------------------------------------------------------------------
(* Interrupts.  While the loop runs, the session's signal and the calls of *)
(* interrupt() made during this run() say the same.                        *)

Looping == phase \notin {"idle", "starting"}

InterruptInv ==
    /\ phase = "idle" => ~asked
    /\ Looping /\ interrupted => asked

SignalInv ==
    /\ phase = "starting" => ~asked
    /\ Looping /\ asked => interrupted

\* Every step keeps the signal and the calls of interrupt() in agreement.
LEMMA InterruptStep ==
    ASSUME TypeControl, InterruptInv, [Next]_vars
    PROVE  InterruptInv' /\ ("early_interrupt" \notin Quirks /\ SignalInv => SignalInv')
<1> USE DEF InterruptInv, SignalInv, Looping
<1>0. interrupted \in BOOLEAN /\ asked \in BOOLEAN
    BY DEF TypeControl
<1>1. CASE Run
    BY <1>1 DEF Run, session
<1>2. CASE Interrupt
    BY <1>0, <1>2 DEF Interrupt
<1>3. CASE BeginLoop
    BY <1>3 DEF BeginLoop
<1>4. CASE Top
    BY <1>0, <1>4 DEF Top, Stop
<1>5. CASE Guard
    BY <1>5 DEF Guard, Stop, session
<1>6. CASE ModelFails
    BY <1>6 DEF ModelFails, Stop, session
<1>7. CASE \E b \in Batches : ModelReturns(b)
    BY <1>7 DEF ModelReturns, Stop
<1>8. CASE Apply \/ Auxiliary \/ Prepared \/ ToolsDone
    BY <1>8 DEF Apply, Auxiliary, Prepared, ToolsDone, session
<1>9. CASE Cancelled \/ ApplyRaises \/ \E c \in Calls : GateRaises(c)
    BY <1>9 DEF Cancelled, ApplyRaises, GateRaises, Raise
<1>10. CASE \/ Tick \/ UNCHANGED vars \/ \E n \in Notes : Submit(n)
            \/ \E c \in Calls : Tool(c) \/ LateFinishes(c)
    <2>1. UNCHANGED <<phase, interrupted, asked>>
        BY <1>10 DEF Tick, Submit, Tool, Gate, Approved, ToolReturns, SetCall, LateFinishes, vars,
                     session
    <2> QED
        BY <2>1
<1> QED
    BY <1>1, <1>2, <1>3, <1>4, <1>5, <1>6, <1>7, <1>8, <1>9, <1>10 DEF Next, Loop

\* After session.interrupt() during a run, the loop begins no further iteration.
THEOREM InterruptIsHonored == ASSUME "early_interrupt" \notin Quirks PROVE Spec => InterruptHonored
<1> DEFINE Inv == LoopTypeInv /\ InterruptInv /\ SignalInv
<1>1. Init => InterruptInv /\ SignalInv
    BY InitControl DEF InterruptInv, SignalInv, Looping
<1>2. LoopTypeInv => TypeControl
    BY DEF LoopTypeInv, ControlInv
<1>3. Inv /\ [Next]_vars => Inv'
    BY <1>2, LoopTypeStep, InterruptStep
<1>4. ASSUME Inv, [Next]_vars, phase = "top", asked PROVE phase' # "applying"
    <2>1. interrupted
        BY <1>4 DEF SignalInv, Looping
    <2> QED
        BY <1>4, <2>1 DEF Next, Loop, Run, Interrupt, Tick, Submit, BeginLoop, Top, Stop, Apply, Guard,
             Auxiliary, Prepared, ModelFails, ModelReturns, ToolsDone, Tool, Gate, Approved,
             ToolReturns, SetCall, LateFinishes, GateRaises, Cancelled, ApplyRaises, Raise, vars
<1>5. Inv /\ [Next]_vars => [phase = "top" /\ asked => phase' # "applying"]_vars
    BY <1>4
<1> QED
    BY <1>1, <1>3, <1>5, LoopTypeInit, PTL DEF Spec, InterruptHonored

\* A run that returns "interrupted" was interrupted: a signal left from before is cleared.
THEOREM StaleInterruptIsIgnored == ASSUME NoRaise PROVE Spec => StaleInterruptIgnored
<1> DEFINE Inv == LoopTypeInv /\ InterruptInv
           Ends == phase # "idle" /\ phase' = "idle" /\ stopReason' = "interrupted"
<1>1. Init => InterruptInv
    BY InitControl DEF InterruptInv, Looping
<1>2. LoopTypeInv => TypeControl
    BY DEF LoopTypeInv, ControlInv
<1>3. Inv /\ [Next]_vars => Inv'
    BY <1>2, LoopTypeStep, InterruptStep
<1>4. ASSUME Inv, [Next]_vars, Ends PROVE asked
    <2>1. ~Cancelled /\ ~ApplyRaises /\ \A c \in Calls : ~GateRaises(c)
        BY NoRaise DEF NoRaise, Cancelled, ApplyRaises, GateRaises
    <2>2. CASE Top \/ ModelFails
        BY <1>4, <2>2 DEF Top, ModelFails, Stop, InterruptInv, Looping
    <2>3. CASE Guard
        BY <1>4, <2>3 DEF Guard, Stop, GuardChain
    <2>4. CASE \E b \in Batches : ModelReturns(b)
        <3>1. stopReason' \in {GuardChain(i, cost', startedAt), "completed"}
            BY <1>4, <2>4 DEF ModelReturns, Stop
        <3> QED
            BY <1>4, <3>1 DEF GuardChain
    <2> QED
        BY <1>4, <2>1, <2>2, <2>3, <2>4 DEF Next, Loop, Run, Interrupt, Tick, Submit, BeginLoop,
             Apply, Auxiliary, Prepared, ToolsDone, Tool, Gate, Approved, ToolReturns, SetCall,
             LateFinishes, vars
<1>5. Inv /\ [Next]_vars => [Ends => asked]_vars
    BY <1>4
<1> QED
    BY <1>1, <1>3, <1>5, LoopTypeInit, PTL DEF Spec, StaleInterruptIgnored

-----------------------------------------------------------------------------
(* Tool calls. *)

QuietInv ==
    /\ phase # "tools" => \A c \in Calls : call[c] = "none"
    /\ \A c \in Calls : ~late[c]

\* Every step leaves tool calls running only while the loop gathers them.
LEMMA QuietStep ==
    ASSUME Quirks \cap {"cancel", "raise_in_gate"} = {}, TypeTools, QuietInv, [Next]_vars
    PROVE  QuietInv'
<1> USE DEF QuietInv
<1>1. ~Cancelled /\ \A c \in Calls : ~GateRaises(c) /\ ~LateFinishes(c)
    BY DEF Cancelled, GateRaises, LateFinishes
<1>2. CASE \E b \in Batches : ModelReturns(b)
    <2>1. CASE phase' = "tools"
        BY <1>2, <2>1 DEF ModelReturns
    <2>2. CASE phase' # "tools"
        BY <1>2, <2>2 DEF ModelReturns
    <2> QED
        BY <2>1, <2>2
<1>3. CASE ToolsDone
    BY <1>3 DEF ToolsDone
<1>4. CASE \E c \in Calls : Tool(c)
    <2>1. PICK c \in Calls : call[c] # "none" /\ UNCHANGED <<phase, late>>
        BY <1>4 DEF Tool, Gate, Approved, ToolReturns, SetCall
    <2> QED
        BY <2>1
<1>5. CASE ApplyRaises
    BY <1>5 DEF ApplyRaises, Raise
<1>6. CASE \/ Run \/ Interrupt \/ Tick \/ BeginLoop \/ Top \/ Apply \/ Guard \/ Auxiliary
           \/ Prepared \/ ModelFails \/ UNCHANGED vars \/ \E n \in Notes : Submit(n)
    <2>1. UNCHANGED <<call, late>> /\ (phase' = phase \/ phase # "tools")
        BY <1>6 DEF Run, Interrupt, Tick, BeginLoop, Top, Apply, Guard, Auxiliary, Prepared,
                    ModelFails, Submit, vars
    <2> QED
        BY <2>1
<1> QED
    BY <1>1, <1>2, <1>3, <1>4, <1>5, <1>6 DEF Next, Loop

\* When run() has returned, no tool call of its gather is left running.
THEOREM RunLeavesNoTool ==
    ASSUME Quirks \cap {"cancel", "raise_in_gate"} = {} PROVE Spec => []QuietWhenIdle
<1>1. Init => QuietInv
    BY DEF Init, QuietInv
<1>2. LoopTypeInv /\ QuietInv /\ [Next]_vars => QuietInv'
    BY QuietStep DEF LoopTypeInv
<1>3. QuietInv => QuietWhenIdle
    BY DEF QuietInv, QuietWhenIdle
<1> QED
    BY <1>1, <1>2, <1>3, LoopTypeInit, LoopTypeStep, PTL DEF Spec

\* The first m messages of h are answered among themselves.
AnsweredUpTo(h, m) ==
    /\ \A k \in 1..m : \A n \in 1..Len(h[k].calls) :
          k + n <= m /\ h[k + n] = ToolMessage(h[k].calls[n])
    /\ \A k \in 1..m : h[k].role = "tool" => \E n \in 1..(k - 1) : k - n <= Len(h[n].calls)

\* Only an assistant message makes tool calls.
LEMMA CallsOf ==
    /\ \A b : Assistant(b).calls = b /\ Assistant(b).role = "assistant"
    /\ \A c : Len(ToolMessage(c).calls) = 0
    /\ \A n : Len(Note(n).calls) = 0 /\ Note(n).role = "note"
    /\ Len(User.calls) = 0 /\ User.role = "user"
BY DEF Assistant, ToolMessage, Note, User

\* Messages added behind an answered prefix leave it answered.
LEMMA PrefixKept ==
    ASSUME NEW h \in Seq(Message), NEW g \in Seq(Message), NEW m \in 0..Len(h),
           Len(h) <= Len(g), \A k \in 1..m : g[k] = h[k], AnsweredUpTo(h, m)
    PROVE  AnsweredUpTo(g, m)
<1>1. ASSUME NEW k \in 1..m, NEW n \in 1..Len(g[k].calls)
      PROVE  k + n <= m /\ g[k + n] = ToolMessage(g[k].calls[n])
    <2>1. k + n <= m /\ h[k + n] = ToolMessage(h[k].calls[n]) /\ n \in Nat /\ n > 0
        BY <1>1 DEF AnsweredUpTo
    <2> QED
        BY <2>1
<1>2. ASSUME NEW k \in 1..m, g[k].role = "tool"
      PROVE  \E n \in 1..(k - 1) : k - n <= Len(g[n].calls)
    <2>1. PICK n \in 1..(k - 1) : k - n <= Len(h[n].calls)
        BY <1>2 DEF AnsweredUpTo
    <2> QED
        BY <2>1
<1> QED
    BY <1>1, <1>2 DEF AnsweredUpTo

\* A message without tool calls that answers none keeps the history answered.
LEMMA PlainMessage ==
    ASSUME NEW h \in Seq(Message), AnsweredUpTo(h, Len(h)), NEW m \in Message,
           Len(m.calls) = 0, m.role # "tool"
    PROVE  AnsweredUpTo(Append(h, m), Len(Append(h, m)))
<1> DEFINE g == Append(h, m)
<1>1. /\ g \in Seq(Message) /\ Len(g) = Len(h) + 1 /\ g[Len(g)] = m
      /\ \A k \in 1..Len(h) : g[k] = h[k]
    BY AppendProperties
<1> HIDE DEF g
<1>2. AnsweredUpTo(g, Len(h))
    <2>1. Len(h) \in 0..Len(h) /\ Len(h) <= Len(g)
        BY <1>1
    <2> QED
        BY <1>1, <2>1, PrefixKept
<1> QED
    BY <1>1, <1>2 DEF AnsweredUpTo, g

\* The results of a batch, added right after the message that asked for them, answer it.
LEMMA BatchAnswered ==
    ASSUME NEW h \in Seq(Message), NEW b \in Seq(Calls), Len(h) > 0,
           h[Len(h)] = Assistant(b), AnsweredUpTo(h, Len(h) - 1),
           NEW r \in Seq(Message), Len(r) = Len(b), \A k \in 1..Len(b) : r[k] = ToolMessage(b[k])
    PROVE  AnsweredUpTo(h \o r, Len(h \o r))
<1> DEFINE g == h \o r
           m == Len(h)
<1>1. /\ g \in Seq(Message) /\ Len(g) = m + Len(b)
      /\ \A k \in 1..m : g[k] = h[k]
      /\ \A k \in 1..Len(b) : g[m + k] = ToolMessage(b[k])
    <2>1. /\ h \o r \in Seq(Message) /\ Len(h \o r) = Len(h) + Len(r)
          /\ \A k \in 1..(Len(h) + Len(r)) :
                (h \o r)[k] = IF k <= Len(h) THEN h[k] ELSE r[k - Len(h)]
        BY ConcatProperties, Zenon
    <2>2. Len(h) \in Nat /\ Len(r) \in Nat
        OBVIOUS
    <2>3. ASSUME NEW k \in 1..Len(b) PROVE (h \o r)[Len(h) + k] = ToolMessage(b[k])
        BY <2>1, <2>2
    <2> QED
        BY <2>1, <2>2, <2>3
<1>2. AnsweredUpTo(g, m - 1)
    <2>1. m - 1 \in 0..Len(h) /\ Len(h) <= Len(g) /\ \A k \in 1..(m - 1) : g[k] = h[k]
        BY <1>1
    <2> HIDE DEF g
    <2> QED
        BY <1>1, <2>1, PrefixKept
<1>3. /\ m \in Nat /\ m > 0 /\ Len(b) \in Nat
      /\ g[m].calls = b /\ g[m].role = "assistant"
    BY <1>1, CallsOf
<1> HIDE DEF g, m
<1>4. \A k \in 1..Len(b) : Len(g[m + k].calls) = 0
    BY <1>1, CallsOf
<1>5. ASSUME NEW k \in 1..Len(g), NEW n \in 1..Len(g[k].calls)
      PROVE  k + n <= Len(g) /\ g[k + n] = ToolMessage(g[k].calls[n])
    <2>1. CASE k < m
        BY <1>1, <1>2, <1>3, <2>1 DEF AnsweredUpTo
    <2>2. CASE k = m
        BY <1>1, <1>3, <2>2
    <2>3. CASE k > m
        <3>1. k - m \in 1..Len(b) /\ m + (k - m) = k
            BY <1>1, <1>3, <2>3
        <3>2. Len(g[k].calls) = 0
            BY <1>4, <3>1
        <3> QED
            BY <3>2
    <2> QED
        BY <1>3, <2>1, <2>2, <2>3
<1>6. ASSUME NEW k \in 1..Len(g), g[k].role = "tool"
      PROVE  \E n \in 1..(k - 1) : k - n <= Len(g[n].calls)
    <2>1. CASE k < m
        BY <1>2, <1>3, <1>6, <2>1 DEF AnsweredUpTo
    <2>2. CASE k >= m
        <3>1. k # m
            BY <1>3, <1>6
        <3>2. m \in 1..(k - 1) /\ k - m <= Len(g[m].calls)
            BY <1>1, <1>3, <2>2, <3>1
        <3> QED
            BY <3>2
    <2> QED
        BY <1>3, <2>1, <2>2
<1> QED
    BY <1>5, <1>6 DEF AnsweredUpTo, g

AnsweredInv ==
    /\ phase # "tools" => AnsweredUpTo(history, Len(history))
    /\ phase = "tools" => /\ Len(history) > 0
                          /\ history[Len(history)] = Assistant(batch)
                          /\ AnsweredUpTo(history, Len(history) - 1)

\* Every step keeps the history answered, up to the batch being run.
LEMMA AnsweredStep ==
    ASSUME Quirks \cap {"cancel", "raise_in_gate"} = {}, LoopTypeInv, AnsweredInv, [Next]_vars
    PROVE  AnsweredInv'
<1>0. /\ history \in Seq(Message) /\ taken \in Seq(Notes)
      /\ Batches \subseteq Seq(Calls) /\ batch \in Seq(Calls)
    <2>1. Batches \subseteq Seq(Calls) /\ <<>> \in Seq(Calls)
        BY LoopAssumption
    <2> QED
        BY <2>1 DEF LoopTypeInv, TypeSession, TypeTools
<1>1. ~Cancelled /\ \A c \in Calls : ~GateRaises(c)
    BY DEF Cancelled, GateRaises
<1>2. CASE BeginLoop
    <2>1. phase = "starting" /\ phase' = "top" /\ history' = Append(history, User)
        BY <1>2 DEF BeginLoop
    <2> QED
        BY <1>0, <2>1, PlainMessage, CallsOf, MessagesAreMessages DEF AnsweredInv
<1>3. CASE Apply
    <2>1. phase' # "tools" /\ phase # "tools" /\ history' = Append(history, Note(Head(taken)))
        BY <1>3 DEF Apply
    <2>2. Head(taken) \in Notes
        BY <1>0, <1>3 DEF Apply
    <2> QED
        BY <1>0, <2>1, <2>2, PlainMessage, CallsOf, MessagesAreMessages DEF AnsweredInv
<1>4. CASE \E b \in Batches : ModelReturns(b)
    <2>1. PICK b \in Batches : ModelReturns(b)
        BY <1>4
    <2>2. phase = "model" /\ history' = Append(history, Assistant(b)) /\ batch' = b
        BY <2>1 DEF ModelReturns
    <2>3. AnsweredUpTo(history, Len(history)) /\ Assistant(b) \in Message
        BY <2>2, MessagesAreMessages DEF AnsweredInv
    <2>4. CASE b = <<>>
        <3>1. Len(Assistant(b).calls) = 0 /\ Assistant(b).role # "tool"
            BY <2>4, CallsOf
        <3>2. phase' # "tools"
            BY <2>1, <2>4 DEF ModelReturns, Stop
        <3> QED
            BY <1>0, <2>2, <2>3, <3>1, <3>2, PlainMessage DEF AnsweredInv
    <2>5. CASE b # <<>>
        <3>1. phase' = "tools"
            BY <2>1, <2>5 DEF ModelReturns
        <3>2. /\ history' \in Seq(Message) /\ Len(history') = Len(history) + 1
              /\ history'[Len(history')] = Assistant(b)
              /\ \A k \in 1..Len(history) : history'[k] = history[k]
            BY <1>0, <2>2, <2>3, AppendProperties
        <3>3. Len(history) \in 0..Len(history) /\ Len(history) <= Len(history')
            BY <1>0, <3>2
        <3>4. AnsweredUpTo(history', Len(history))
            BY <1>0, <2>3, <3>2, <3>3, PrefixKept
        <3>5. Len(history') > 0 /\ Len(history') - 1 = Len(history)
            BY <1>0, <3>2
        <3> QED
            BY <2>2, <3>1, <3>2, <3>4, <3>5 DEF AnsweredInv
    <2> QED
        BY <2>4, <2>5
<1>5. CASE ToolsDone
    <2> DEFINE r == [k \in 1..Len(batch) |-> ToolMessage(batch[k])]
    <2>1. phase = "tools" /\ phase' = "top" /\ history' = history \o r
        BY <1>5 DEF ToolsDone
    <2>2. r \in Seq(Message) /\ Len(r) = Len(batch) /\ \A k \in 1..Len(batch) : r[k] = ToolMessage(batch[k])
        BY <1>0, MessagesAreMessages
    <2> HIDE DEF r
    <2>3. AnsweredUpTo(history \o r, Len(history \o r))
        BY <1>0, <2>1, <2>2, BatchAnswered DEF AnsweredInv
    <2> QED
        BY <2>1, <2>3 DEF AnsweredInv
<1>6. CASE Run \/ Top \/ Guard \/ Prepared \/ ModelFails \/ ApplyRaises
    <2>1. history' = history /\ phase # "tools" /\ phase' # "tools"
        BY <1>6 DEF Run, Top, Guard, Prepared, ModelFails, ApplyRaises, Raise, Stop, session,
                    GuardChain
    <2> QED
        BY <2>1 DEF AnsweredInv
<1>7. CASE \/ Interrupt \/ Tick \/ Auxiliary \/ UNCHANGED vars \/ \E n \in Notes : Submit(n)
           \/ \E c \in Calls : Tool(c) \/ LateFinishes(c)
    <2>1. UNCHANGED <<history, phase, batch>>
        BY <1>7 DEF Interrupt, Tick, Auxiliary, Submit, Tool, Gate, Approved, ToolReturns, SetCall,
                    LateFinishes, vars, session
    <2> QED
        BY <2>1 DEF AnsweredInv
<1> QED
    BY <1>1, <1>2, <1>3, <1>4, <1>5, <1>6, <1>7 DEF Next, Loop

\* As long as nothing tears down a gather, every history a model is given answers each
\* tool call once, right after the message that made it and in its order.
THEOREM ModelAlwaysSeesAnswers ==
    ASSUME Quirks \cap {"cancel", "raise_in_gate"} = {} PROVE Spec => []ModelSeesAnswers
<1>1. Init => AnsweredInv
    <2>1. ASSUME Init PROVE phase # "tools" /\ Len(history) = 0
        <3>1. history = <<>> /\ phase = "idle"
            BY <2>1, InitSession, InitControl, Zenon
        <3> QED
            BY <3>1
    <2> QED
        BY <2>1 DEF AnsweredInv, AnsweredUpTo
<1>2. LoopTypeInv /\ AnsweredInv /\ [Next]_vars => AnsweredInv'
    BY AnsweredStep
<1>3. AnsweredInv => ModelSeesAnswers
    BY DEF AnsweredInv, AnsweredUpTo, ModelSeesAnswers, Answered
<1> QED
    BY <1>1, <1>2, <1>3, LoopTypeInit, LoopTypeStep, PTL DEF Spec

-----------------------------------------------------------------------------
(* Interventions.  Kept is defined by recursion.  Induction comes from the  *)
(* well-foundedness of the inclusion of finite sets, which the library      *)
(* states without an operator parameter, for the sets 0..n.                 *)

\* A set that has 0 and the successors of its numbers has every number.
LEMMA NaturalInduction ==
    ASSUME NEW S, 0 \in S, \A n \in Nat : n \in S => n + 1 \in S
    PROVE  Nat \subseteq S
<1> DEFINE T == {0..n : n \in Nat \ S}
<1>1. SUFFICES ASSUME T # {} PROVE FALSE
    OBVIOUS
<1>2. T \subseteq FiniteSubsetsOf(Nat)
    <2>1. ASSUME NEW n \in Nat PROVE 0..n \in FiniteSubsetsOf(Nat)
        BY FS_Interval DEF FiniteSubsetsOf
    <2> QED
        BY <2>1
<1>3. PICK x \in T : \A y \in T : ~(<<y, x>> \in StrictSubsetOrdering(Nat))
    <2>1. IsWellFoundedOn(StrictSubsetOrdering(Nat), FiniteSubsetsOf(Nat))
        BY FS_StrictSubsetOrderingWellFounded
    <2> HIDE DEF T
    <2> QED
        BY <1>1, <1>2, <2>1, WFMin
<1>4. PICK n \in Nat \ S : x = 0..n
    OBVIOUS
<1>5. n # 0 /\ n - 1 \in Nat /\ n - 1 \notin S
    BY <1>4
<1>6. 0..(n - 1) \in T
    BY <1>5
<1>7. /\ 0..(n - 1) \subseteq 0..n /\ 0..(n - 1) \subseteq Nat /\ 0..n \subseteq Nat
      /\ n \in 0..n /\ n \notin 0..(n - 1)
    BY <1>4
<1>8. <<0..(n - 1), x>> \in StrictSubsetOrdering(Nat)
    BY <1>4, <1>7 DEF StrictSubsetOrdering
<1> QED
    BY <1>3, <1>6, <1>8

\* f is the function that Kept's recursion defines on 0..n.
KeepsUpTo(f, s, keep, n) ==
    f = [k \in 0..n |-> IF k = 0 THEN <<>>
                        ELSE IF s[k] \in keep THEN Append(f[k - 1], s[k]) ELSE f[k - 1]]

\* Such a function exists, one value after the other.
LEMMA KeepsExists ==
    ASSUME NEW s, NEW keep, NEW m \in Nat
    PROVE  \E f : KeepsUpTo(f, s, keep, m)
<1> DEFINE S == {n \in Nat : \E f : KeepsUpTo(f, s, keep, n)}
<1>1. 0 \in S
    <2> DEFINE g == [k \in 0..0 |-> <<>>]
    <2>1. KeepsUpTo(g, s, keep, 0)
        BY DEF KeepsUpTo
    <2> QED
        BY <2>1
<1>2. ASSUME NEW n \in Nat, n \in S PROVE n + 1 \in S
    <2>1. PICK f : KeepsUpTo(f, s, keep, n)
        BY <1>2
    <2> DEFINE last == IF s[n + 1] \in keep THEN Append(f[n], s[n + 1]) ELSE f[n]
               g == [k \in 0..(n + 1) |-> IF k \in 0..n THEN f[k] ELSE last]
    <2>2. ASSUME NEW k \in 0..(n + 1)
          PROVE  g[k] = IF k = 0 THEN <<>>
                        ELSE IF s[k] \in keep THEN Append(g[k - 1], s[k]) ELSE g[k - 1]
        <3>1. CASE k = 0
            <4>1. 0 \in 0..n /\ 0 \in 0..(n + 1)
                OBVIOUS
            <4>2. f[0] = <<>>
                BY <2>1, <4>1 DEF KeepsUpTo
            <4> QED
                BY <3>1, <4>1, <4>2
        <3>2. CASE k \in 1..n
            <4>1. g[k] = f[k] /\ g[k - 1] = f[k - 1] /\ k # 0 /\ k \in 0..n
                BY <3>2
            <4> HIDE DEF g, last
            <4>2. f[k] = IF s[k] \in keep THEN Append(f[k - 1], s[k]) ELSE f[k - 1]
                BY <2>1, <4>1 DEF KeepsUpTo
            <4> QED
                BY <4>1, <4>2
        <3>3. CASE k = n + 1
            <4>1. g[k] = last /\ g[k - 1] = f[n] /\ k # 0
                BY <3>3
            <4> QED
                BY <3>3, <4>1
        <3> QED
            BY <3>1, <3>2, <3>3
    <2>3. KeepsUpTo(g, s, keep, n + 1)
        BY <2>2 DEF KeepsUpTo
    <2> QED
        BY <2>3
<1> HIDE DEF S
<1>3. Nat \subseteq S
    BY <1>1, <1>2, NaturalInduction
<1> QED
    BY <1>3 DEF S

\* What is kept of the first messages does not depend on those behind them.
LEMMA KeepsAlike ==
    ASSUME NEW s, NEW t, NEW keep, NEW m \in Nat, NEW n \in Nat, NEW f, NEW g,
           KeepsUpTo(f, s, keep, m), KeepsUpTo(g, t, keep, n), m <= n, \A k \in 1..m : s[k] = t[k]
    PROVE  \A k \in 0..m : f[k] = g[k]
<1> DEFINE S == {k \in Nat : k <= m => f[k] = g[k]}
<1>1. 0 \in S
    BY DEF KeepsUpTo
<1>2. ASSUME NEW k \in Nat, k \in S PROVE k + 1 \in S
    <2> SUFFICES ASSUME k + 1 <= m PROVE f[k + 1] = g[k + 1]
        OBVIOUS
    <2>1. f[k] = g[k] /\ s[k + 1] = t[k + 1] /\ k + 1 \in 0..m /\ k + 1 \in 0..n /\ k + 1 # 0 /\ (k + 1) - 1 = k
        BY <1>2
    <2>2. f[k + 1] = IF s[k + 1] \in keep THEN Append(f[k], s[k + 1]) ELSE f[k]
        BY <2>1 DEF KeepsUpTo
    <2>3. g[k + 1] = IF t[k + 1] \in keep THEN Append(g[k], t[k + 1]) ELSE g[k]
        BY <2>1 DEF KeepsUpTo
    <2> QED
        BY <2>1, <2>2, <2>3
<1> HIDE DEF S
<1>3. Nat \subseteq S
    BY <1>1, <1>2, NaturalInduction
<1> QED
    BY <1>3 DEF S

\* Kept by any function that satisfies its recursion.
LEMMA KeptIs ==
    ASSUME NEW A, NEW s \in Seq(A), NEW keep
    PROVE  \E f : KeepsUpTo(f, s, keep, Len(s)) /\ Kept(s, keep) = f[Len(s)]
<1> DEFINE f == CHOOSE upTo : upTo = [k \in 0..Len(s) |->
                   IF k = 0 THEN <<>>
                   ELSE IF s[k] \in keep THEN Append(upTo[k - 1], s[k]) ELSE upTo[k - 1]]
<1>1. \E upTo : KeepsUpTo(upTo, s, keep, Len(s))
    BY KeepsExists, SMTT(30)
<1>2. KeepsUpTo(f, s, keep, Len(s))
    BY <1>1, Zenon DEF KeepsUpTo
<1>3. Kept(s, keep) = f[Len(s)]
    BY DEF Kept
<1> QED
    BY <1>2, <1>3

\* Nothing is kept of nothing.
LEMMA KeptEmpty == ASSUME NEW keep PROVE Kept(<<>>, keep) = <<>>
<1>1. <<>> \in Seq({0}) /\ Len(<<>>) = 0
    OBVIOUS
<1>2. PICK f : KeepsUpTo(f, <<>>, keep, 0) /\ Kept(<<>>, keep) = f[0]
    BY <1>1, KeptIs
<1> QED
    BY <1>2 DEF KeepsUpTo

\* Of one element more, that one is kept if it is to be.
LEMMA KeptAppend ==
    ASSUME NEW A, NEW s \in Seq(A), NEW x \in A, NEW keep
    PROVE  Kept(Append(s, x), keep) = IF x \in keep THEN Append(Kept(s, keep), x) ELSE Kept(s, keep)
<1> DEFINE t == Append(s, x)
<1>1. t \in Seq(A) /\ Len(t) = Len(s) + 1 /\ t[Len(t)] = x /\ \A k \in 1..Len(s) : s[k] = t[k]
    BY AppendProperties
<1> HIDE DEF t
<1>2. PICK f : KeepsUpTo(f, s, keep, Len(s)) /\ Kept(s, keep) = f[Len(s)]
    BY KeptIs
<1>3. PICK g : KeepsUpTo(g, t, keep, Len(t)) /\ Kept(t, keep) = g[Len(t)]
    BY <1>1, KeptIs
<1>4. Len(s) \in Nat /\ Len(t) \in Nat /\ Len(s) <= Len(t) /\ Len(s) \in 0..Len(s)
    BY <1>1
<1>5. f[Len(s)] = g[Len(s)]
    <2> DEFINE m == Len(s)
               n == Len(t)
    <2>1. /\ m \in Nat /\ n \in Nat /\ m <= n /\ \A k \in 1..m : s[k] = t[k]
          /\ KeepsUpTo(f, s, keep, m) /\ KeepsUpTo(g, t, keep, n)
        BY <1>1, <1>2, <1>3, <1>4
    <2> HIDE DEF m, n
    <2>2. \A k \in 0..m : f[k] = g[k]
        BY <2>1, KeepsAlike
    <2> QED
        BY <1>4, <2>2 DEF m
<1>6. g[Len(t)] = IF t[Len(t)] \in keep THEN Append(g[Len(t) - 1], t[Len(t)]) ELSE g[Len(t) - 1]
    <2>1. Len(t) \in 0..Len(t) /\ Len(t) # 0
        BY <1>1, <1>4
    <2> QED
        BY <1>3, <2>1 DEF KeepsUpTo
<1>7. Len(t) - 1 = Len(s)
    BY <1>1, <1>4
<1> QED
    BY <1>1, <1>2, <1>3, <1>5, <1>6, <1>7 DEF t

\* A prefix grows by the element behind it.
LEMMA PrefixGrows ==
    ASSUME NEW A, NEW s \in Seq(A), NEW m \in Nat, m < Len(s)
    PROVE  /\ SubSeq(s, 1, m) \in Seq(A) /\ s[m + 1] \in A
           /\ SubSeq(s, 1, m + 1) = Append(SubSeq(s, 1, m), s[m + 1])
OBVIOUS

\* A whole sequence, and nothing of it, as prefixes.
LEMMA PrefixEnds ==
    ASSUME NEW A, NEW s \in Seq(A)
    PROVE  SubSeq(s, 1, 0) = <<>> /\ SubSeq(s, 1, Len(s)) = s
OBVIOUS

\* What is kept is a sequence of elements of s that are in keep.
LEMMA KeptType ==
    ASSUME NEW A, NEW s \in Seq(A), NEW keep
    PROVE  Kept(s, keep) \in Seq(keep \cap A)
<1> DEFINE S == {m \in Nat : m <= Len(s) => Kept(SubSeq(s, 1, m), keep) \in Seq(keep \cap A)}
<1>1. 0 \in S
    <2>1. SubSeq(s, 1, 0) = <<>> /\ <<>> \in Seq(keep \cap A)
        BY PrefixEnds
    <2> QED
        BY <2>1, KeptEmpty
<1>2. ASSUME NEW m \in Nat, m \in S PROVE m + 1 \in S
    <2> SUFFICES ASSUME m + 1 <= Len(s) PROVE Kept(SubSeq(s, 1, m + 1), keep) \in Seq(keep \cap A)
        OBVIOUS
    <2> DEFINE t == SubSeq(s, 1, m)
    <2>1. t \in Seq(A) /\ s[m + 1] \in A /\ SubSeq(s, 1, m + 1) = Append(t, s[m + 1])
        BY PrefixGrows
    <2>2. Kept(t, keep) \in Seq(keep \cap A)
        BY <1>2
    <2> HIDE DEF t
    <2>3. \A x \in A : Kept(Append(t, x), keep) = IF x \in keep THEN Append(Kept(t, keep), x) ELSE Kept(t, keep)
        BY <2>1, KeptAppend
    <2>4. s[m + 1] \in keep => Append(Kept(t, keep), s[m + 1]) \in Seq(keep \cap A)
        BY <2>1, <2>2, AppendProperties
    <2> QED
        BY <2>1, <2>2, <2>3, <2>4
<1> HIDE DEF S
<1>3. Nat \subseteq S
    BY <1>1, <1>2, NaturalInduction
<1>4. Len(s) \in Nat /\ SubSeq(s, 1, Len(s)) = s
    BY PrefixEnds
<1>5. Kept(SubSeq(s, 1, Len(s)), keep) \in Seq(keep \cap A)
    BY <1>3, <1>4 DEF S
<1> QED
    BY <1>4, <1>5, Zenon

\* The notes of a history, with one more message.
LEMMA NotesAppend ==
    ASSUME NEW h \in Seq(Message), NEW m \in Message
    PROVE  /\ NotesOf(h) \in Seq(Notes) /\ NotesOf(<<>>) = <<>>
           /\ NotesOf(Append(h, m)) = IF m \in {Note(n) : n \in Notes} THEN Append(NotesOf(h), m.of) ELSE NotesOf(h)
<1> DEFINE keep == {Note(n) : n \in Notes}
           of(s) == [k \in 1..Len(s) |-> s[k].of]
<1>1. \A n \in keep : n.of \in Notes
    BY DEF Note
<1>2. Kept(h, keep) \in Seq(keep)
    <2>1. Kept(h, keep) \in Seq(keep \cap Message)
        BY KeptType
    <2> HIDE DEF keep
    <2> QED
        BY <2>1
<1>3. \A g : NotesOf(g) = of(Kept(g, keep))
    BY DEF NotesOf
<1>4. Kept(<<>>, keep) = <<>> /\ Kept(Append(h, m), keep) = IF m \in keep THEN Append(Kept(h, keep), m) ELSE Kept(h, keep)
    BY KeptEmpty, KeptAppend
<1> HIDE DEF keep
<1>5. ASSUME NEW s \in Seq(keep), NEW x \in keep
      PROVE  of(s) \in Seq(Notes) /\ of(Append(s, x)) = Append(of(s), x.of)
    <2>1. of(s) \in Seq(Notes)
        BY <1>1, <1>5
    <2>2. /\ Append(s, x) \in Seq(keep) /\ Len(Append(s, x)) = Len(s) + 1
          /\ \A k \in 1..Len(s) : Append(s, x)[k] = s[k]
          /\ Append(s, x)[Len(s) + 1] = x
        BY <1>5
    <2> QED
        BY <1>1, <1>5, <2>1, <2>2
<1>6. of(<<>>) = <<>> /\ of(Kept(h, keep)) \in Seq(Notes)
    BY <1>1, <1>2
<1> HIDE DEF of
<1> QED
    BY <1>2, <1>3, <1>4, <1>5, <1>6 DEF keep

\* Messages that are no notes add none.
LEMMA NotesOfPrefix ==
    ASSUME NEW h \in Seq(Message), NEW m \in 0..Len(h),
           \A k \in (m + 1)..Len(h) : h[k] \notin {Note(n) : n \in Notes}
    PROVE  \A k \in m..Len(h) : NotesOf(SubSeq(h, 1, k)) = NotesOf(SubSeq(h, 1, m))
<1> DEFINE S == {n \in Nat : m + n <= Len(h) => NotesOf(SubSeq(h, 1, m + n)) = NotesOf(SubSeq(h, 1, m))}
<1>1. 0 \in S
    OBVIOUS
<1>2. ASSUME NEW n \in Nat, n \in S PROVE n + 1 \in S
    <2> SUFFICES ASSUME m + (n + 1) <= Len(h)
                 PROVE  NotesOf(SubSeq(h, 1, m + (n + 1))) = NotesOf(SubSeq(h, 1, m))
        OBVIOUS
    <2>1. m + n \in Nat /\ m + n < Len(h) /\ m + (n + 1) = (m + n) + 1 /\ (m + n) + 1 \in (m + 1)..Len(h)
        OBVIOUS
    <2>2. /\ SubSeq(h, 1, m + n) \in Seq(Message) /\ h[(m + n) + 1] \in Message
          /\ SubSeq(h, 1, (m + n) + 1) = Append(SubSeq(h, 1, m + n), h[(m + n) + 1])
        BY <2>1, PrefixGrows
    <2>3. NotesOf(SubSeq(h, 1, (m + n) + 1)) = NotesOf(SubSeq(h, 1, m + n))
        BY <2>1, <2>2, NotesAppend
    <2> QED
        BY <1>2, <2>1, <2>3
<1> HIDE DEF S
<1>3. Nat \subseteq S
    BY <1>1, <1>2, NaturalInduction
<1>4. ASSUME NEW k \in m..Len(h) PROVE NotesOf(SubSeq(h, 1, k)) = NotesOf(SubSeq(h, 1, m))
    <2>1. k - m \in Nat /\ m + (k - m) = k
        OBVIOUS
    <2> QED
        BY <1>3, <2>1 DEF S
<1> QED
    BY <1>4

\* Messages without notes behind a history add none.
LEMMA NotesOfConcat ==
    ASSUME NEW h \in Seq(Message), NEW r \in Seq(Message),
           \A k \in 1..Len(r) : r[k] \notin {Note(n) : n \in Notes}
    PROVE  NotesOf(h \o r) = NotesOf(h)
<1> DEFINE g == h \o r
<1>1. /\ g \in Seq(Message) /\ Len(g) = Len(h) + Len(r) /\ Len(h) \in 0..Len(g)
      /\ \A k \in (Len(h) + 1)..Len(g) : g[k] = r[k - Len(h)] /\ k - Len(h) \in 1..Len(r)
      /\ SubSeq(g, 1, Len(h)) = h /\ SubSeq(g, 1, Len(g)) = g /\ Len(g) \in Len(h)..Len(g)
    OBVIOUS
<1> HIDE DEF g
<1>2. NotesOf(SubSeq(g, 1, Len(g))) = NotesOf(SubSeq(g, 1, Len(h)))
    <2>1. \A k \in (Len(h) + 1)..Len(g) : g[k] \notin {Note(n) : n \in Notes}
        BY <1>1
    <2>2. \A k \in Len(h)..Len(g) : NotesOf(SubSeq(g, 1, k)) = NotesOf(SubSeq(g, 1, Len(h)))
        BY <1>1, <2>1, NotesOfPrefix
    <2> QED
        BY <1>1, <2>2
<1> QED
    BY <1>1, <1>2 DEF g

\* The user's message, a response and a tool's answer are no notes.
LEMMA NoNotes ==
    /\ User \notin {Note(n) : n \in Notes}
    /\ \A b : Assistant(b) \notin {Note(n) : n \in Notes}
    /\ \A c : ToolMessage(c) \notin {Note(n) : n \in Notes}
BY DEF User, Note, Assistant, ToolMessage

\* Outside the top of an iteration nothing is taken from the inbox and not applied.
TakenInv == phase # "applying" => taken = <<>>

\* Only Top takes from the inbox, and an iteration goes on when all taken are applied.
LEMMA TakenStep == TakenInv /\ [Next]_vars => TakenInv'
<1> SUFFICES ASSUME TakenInv, [Next]_vars PROVE TakenInv'
    OBVIOUS
<1>1. CASE Top
    BY <1>1 DEF Top, Stop, TakenInv
<1>2. CASE Apply
    BY <1>2 DEF Apply, TakenInv
<1>3. CASE \/ BeginLoop \/ Guard \/ Auxiliary \/ Prepared \/ ModelFails \/ ToolsDone \/ Run
           \/ \E b \in Batches : ModelReturns(b)
    <2>1. taken' = taken /\ taken = <<>>
        BY <1>3 DEF BeginLoop, Guard, Auxiliary, Prepared, ModelFails, ToolsDone, Run,
                    ModelReturns, TakenInv
    <2> QED
        BY <2>1 DEF TakenInv
<1>4. CASE Cancelled \/ ApplyRaises \/ \E c \in Calls : GateRaises(c)
    BY <1>4 DEF Cancelled, ApplyRaises, GateRaises, Raise, TakenInv
<1>5. CASE \/ Interrupt \/ Tick \/ UNCHANGED vars \/ \E n \in Notes : Submit(n)
           \/ \E c \in Calls : Tool(c) \/ LateFinishes(c)
    <2>1. UNCHANGED <<taken, phase>>
        BY <1>5 DEF Interrupt, Tick, Submit, Tool, Gate, Approved, ToolReturns, SetCall,
                    LateFinishes, vars
    <2> QED
        BY <2>1 DEF TakenInv
<1> QED
    BY <1>1, <1>2, <1>3, <1>4, <1>5 DEF Next, Loop

\* What a step does to the known interventions: nothing, one more is submitted, or a run
\* that raises while it applies some loses those.
KnownChange ==
    \/ KnownNotes' = KnownNotes /\ submitted' = submitted
    \/ \E n \in Notes : /\ \A k \in 1..Len(submitted) : submitted[k] # n
                        /\ KnownNotes' = Append(KnownNotes, n)
                        /\ submitted' = Append(submitted, n)
    \/ /\ Cancelled \/ ApplyRaises
       /\ phase = "applying" /\ phase' = "idle" /\ taken' = <<>> /\ UNCHANGED session

\* Moving an element from the head of one sequence to the end of the one before it, or
\* moving a sequence to an empty one before it, leaves their concatenation as it was.
LEMMA MovedAlong ==
    ASSUME NEW s \in Seq(Notes), NEW t \in Seq(Notes), NEW u \in Seq(Notes)
    PROVE  /\ t # <<>> => Append(s, Head(t)) \o Tail(t) \o u = s \o t \o u
           /\ s \o <<>> \o u = s \o u \o <<>>
           /\ s \o t \o u \in Seq(Notes)
           /\ \A n \in Notes : s \o t \o Append(u, n) = Append(s \o t \o u, n)
<1>1. t # <<>> => Append(s, Head(t)) \o Tail(t) \o u = s \o t \o u
    <2>1. t # <<>> => Append(s, Head(t)) \o Tail(t) = s \o t
        OBVIOUS
    <2> QED
        BY <2>1, Zenon
<1>2. s \o <<>> \o u = s \o u \o <<>>
    <2>1. s \o <<>> = s /\ s \o u \in Seq(Notes)
        OBVIOUS
    <2> QED
        BY <2>1
<1>3. s \o t \in Seq(Notes)
    OBVIOUS
<1> DEFINE v == s \o t
<1>4. v \in Seq(Notes)
    BY <1>3
<1> HIDE DEF v
<1>5. v \o u \in Seq(Notes) /\ \A n \in Notes : v \o Append(u, n) = Append(v \o u, n)
    BY <1>4
<1> QED
    BY <1>1, <1>2, <1>5, Zenon DEF v

\* Every step changes the known interventions as KnownChange says.
LEMMA NotesStep ==
    ASSUME LoopTypeInv, TakenInv, [Next]_vars
    PROVE  KnownNotes \in Seq(Notes) /\ KnownChange
<1>0. /\ history \in Seq(Message) /\ inbox \in Seq(Notes) /\ taken \in Seq(Notes)
      /\ batch \in Seq(Calls) /\ NotesOf(history) \in Seq(Notes)
    <2>1. TypeSession /\ TypeTools
        BY DEF LoopTypeInv
    <2>2. Batches \subseteq Seq(Calls) /\ <<>> \in Seq(Calls)
        BY LoopAssumption
    <2>3. \A m \in Message : NotesOf(history) \in Seq(Notes)
        BY <2>1, NotesAppend DEF TypeSession
    <2> QED
        BY <2>1, <2>2, <2>3, MessagesAreMessages DEF TypeSession, TypeTools
<1>1. KnownNotes \in Seq(Notes)
    BY <1>0, MovedAlong DEF KnownNotes
<1> SUFFICES KnownChange
    BY <1>1
<1>2. CASE \E n \in Notes : Submit(n)
    <2>1. PICK n \in Notes : Submit(n)
        BY <1>2
    <2>2. NotesOf(history)' = NotesOf(history) /\ taken' = taken /\ inbox' = Append(inbox, n)
        BY <2>1 DEF Submit, NotesOf
    <2>3. KnownNotes' = Append(KnownNotes, n)
        BY <1>0, <2>2, MovedAlong DEF KnownNotes
    <2>4. submitted' = Append(submitted, n) /\ \A k \in 1..Len(submitted) : submitted[k] # n
        BY <2>1 DEF Submit
    <2> QED
        BY <2>3, <2>4 DEF KnownChange
<1>3. CASE BeginLoop
    <2>1. /\ history' = Append(history, User) /\ taken' = taken /\ inbox' = inbox /\ submitted' = submitted
        BY <1>3 DEF BeginLoop
    <2>2. NotesOf(history') = NotesOf(history)
        BY <1>0, <2>1, NotesAppend, NoNotes, MessagesAreMessages
    <2>3. KnownNotes' = KnownNotes
        BY <2>1, <2>2 DEF KnownNotes
    <2> QED
        BY <2>1, <2>3 DEF KnownChange
<1>4. CASE Top
    <2>1. CASE interrupted
        <3>1. UNCHANGED <<history, taken, inbox, submitted>>
            BY <1>4, <2>1 DEF Top
        <3>2. KnownNotes' = KnownNotes
            BY <3>1 DEF KnownNotes, NotesOf
        <3> QED
            BY <3>1, <3>2 DEF KnownChange
    <2>2. CASE ~interrupted
        <3>1. history' = history /\ taken = <<>> /\ taken' = inbox /\ inbox' = <<>> /\ submitted' = submitted
            BY <1>4, <2>2 DEF Top, TakenInv
        <3>2. NotesOf(history') = NotesOf(history)
            BY <3>1
        <3>3. KnownNotes' = KnownNotes
            BY <1>0, <3>1, <3>2, MovedAlong DEF KnownNotes
        <3> QED
            BY <3>1, <3>3 DEF KnownChange
    <2> QED
        BY <2>1, <2>2
<1>5. CASE Apply
    <2> DEFINE n == Head(taken)
    <2>1. /\ taken # <<>> /\ n \in Notes /\ history' = Append(history, Note(n))
          /\ taken' = Tail(taken) /\ inbox' = inbox /\ submitted' = submitted
        BY <1>0, <1>5 DEF Apply
    <2>2. Note(n) \in {Note(x) : x \in Notes} /\ Note(n) \in Message /\ Note(n).of = n
        BY <2>1, MessagesAreMessages DEF Note
    <2> HIDE DEF n
    <2>3. NotesOf(history') = Append(NotesOf(history), n)
        BY <1>0, <2>1, <2>2, NotesAppend
    <2>4. KnownNotes' = KnownNotes
        <3>1. \A x \in Seq(Notes) : Append(x, n) \o Tail(taken) \o inbox = x \o taken \o inbox
            BY <1>0, <2>1, MovedAlong DEF n
        <3> QED
            BY <1>0, <2>1, <2>3, <3>1 DEF KnownNotes
    <2> QED
        BY <2>1, <2>4 DEF KnownChange
<1>6. CASE \E b \in Batches : ModelReturns(b)
    <2>1. PICK b \in Batches : ModelReturns(b)
        BY <1>6
    <2>2. /\ history' = Append(history, Assistant(b)) /\ taken' = taken /\ inbox' = inbox
          /\ submitted' = submitted
        BY <2>1 DEF ModelReturns
    <2>3. NotesOf(history') = NotesOf(history)
        BY <1>0, <2>2, NotesAppend, NoNotes, MessagesAreMessages
    <2>4. KnownNotes' = KnownNotes
        BY <2>2, <2>3 DEF KnownNotes
    <2> QED
        BY <2>2, <2>4 DEF KnownChange
<1>7. CASE ToolsDone
    <2> DEFINE r == [k \in 1..Len(batch) |-> ToolMessage(batch[k])]
    <2>1. /\ history' = history \o r /\ taken' = taken /\ inbox' = inbox /\ submitted' = submitted
        BY <1>7 DEF ToolsDone
    <2>2. r \in Seq(Message) /\ \A k \in 1..Len(r) : r[k] \notin {Note(n) : n \in Notes}
        BY <1>0, NoNotes, MessagesAreMessages
    <2> HIDE DEF r
    <2>3. NotesOf(history') = NotesOf(history)
        BY <1>0, <2>1, <2>2, NotesOfConcat
    <2>4. KnownNotes' = KnownNotes
        BY <2>1, <2>3 DEF KnownNotes
    <2> QED
        BY <2>1, <2>4 DEF KnownChange
<1>8. CASE Cancelled \/ ApplyRaises \/ \E c \in Calls : GateRaises(c)
    <2>1. phase' = "idle" /\ taken' = <<>> /\ UNCHANGED session
        BY <1>8 DEF Cancelled, ApplyRaises, GateRaises, Raise
    <2>2. CASE phase = "applying"
        <3>1. Cancelled \/ ApplyRaises
            BY <1>8, <2>2 DEF GateRaises
        <3> QED
            BY <2>1, <2>2, <3>1 DEF KnownChange
    <2>3. CASE phase # "applying"
        <3>1. UNCHANGED <<history, taken, inbox, submitted>>
            BY <1>8, <2>1, <2>3 DEF session, TakenInv, Cancelled, ApplyRaises, GateRaises
        <3>2. KnownNotes' = KnownNotes
            BY <3>1 DEF KnownNotes, NotesOf
        <3> QED
            BY <3>1, <3>2 DEF KnownChange
    <2> QED
        BY <2>2, <2>3
<1>9. CASE \/ Run \/ Interrupt \/ Tick \/ Guard \/ Auxiliary \/ Prepared \/ ModelFails
           \/ UNCHANGED vars \/ \E c \in Calls : Tool(c) \/ LateFinishes(c)
    <2>1. UNCHANGED <<history, taken, inbox, submitted>>
        BY <1>9 DEF Run, Interrupt, Tick, Guard, Auxiliary, Prepared, ModelFails, Tool, Gate,
                    Approved, ToolReturns, SetCall, LateFinishes, vars, session
    <2>2. KnownNotes' = KnownNotes
        BY <2>1 DEF KnownNotes, NotesOf
    <2> QED
        BY <2>1, <2>2 DEF KnownChange
<1> QED
    BY <1>2, <1>3, <1>4, <1>5, <1>6, <1>7, <1>8, <1>9 DEF Next, Loop

\* What NoNoteLost says of a step.
NotesKept ==
    \/ Len(KnownNotes) <= Len(KnownNotes') /\ SubSeq(KnownNotes', 1, Len(KnownNotes)) = KnownNotes
    \/ phase = "applying" /\ phase' = "idle" /\ UNCHANGED session

\* A step that changes the known interventions so keeps them.
LEMMA ChangeKeeps == ASSUME KnownNotes \in Seq(Notes), KnownChange PROVE NotesKept
<1> DEFINE s == KnownNotes
           t == KnownNotes'
<1>1. CASE s \in Seq(Notes) /\ (t = s \/ \E n \in Notes : t = Append(s, n))
    <2> HIDE DEF s, t
    <2>1. Len(s) <= Len(t) /\ SubSeq(t, 1, Len(s)) = s
        BY <1>1
    <2> QED
        BY <2>1 DEF s, t, NotesKept
<1> QED
    BY <1>1 DEF KnownChange, NotesKept

\* No intervention is lost, applied twice or overtaken, whichever way runs end: a step of
\* AgenticLoop.run or of the application only adds to the ones known, unless the run raises
\* while it applies some.
THEOREM InterventionsAreKept == Spec => NoNoteLost
<1>1. Init => TakenInv
    BY InitSession DEF TakenInv
<1>2. LoopTypeInv /\ TakenInv /\ [Next]_vars => [NotesKept]_vars
    BY NotesStep, ChangeKeeps
<1>3. Spec => [](LoopTypeInv /\ TakenInv)
    BY <1>1, LoopTypeInit, LoopTypeStep, TakenStep, PTL DEF Spec
<1>4. Spec => [][NotesKept]_vars
    BY <1>2, <1>3, PTL DEF Spec
<1> QED
    BY <1>4, Zenon DEF NoNoteLost, NotesKept
=============================================================================
