----------------------------- MODULE AgenticLoop -----------------------------
(***************************************************************************)
(* One session driven by AgenticLoop.run (plugins/loops/agentic.py): runs  *)
(* of the loop, one after the other, with the ToolRunner's concurrent tool *)
(* calls, the PermissionGate, the guards and the hooks that feed them,     *)
(* while the application interrupts the session and submits interventions. *)
(*                                                                         *)
(* An action is the code between two awaits.  A message is a record; what  *)
(* it says is left out, except which tool calls it makes or answers.       *)
(* Money is counted in model calls: each costs one unit.                   *)
(***************************************************************************)
EXTENDS Naturals, Sequences, FiniteSets

CONSTANTS
    Calls,           \* ids of the tool calls a response may make
    Batches,         \* the tool_calls a response may carry: sequences of calls
    Notes,           \* the interventions the application may submit
    HasApprover,     \* whether an Approver is registered
    MaxIterations,   \* limit of the MaxIterations guard
    MaxCost,         \* budget of the BudgetGuard, in model calls
    MaxSeconds,      \* budget of the Timeout guard
    MaxAux,          \* bound: model calls of context managers and routers per iteration
    Threaded,        \* the calls whose tool is a plain def, run in a worker thread
    MaxRuns,         \* bound: how many times run() is called
    MaxTime,         \* bound: how far the clock goes
    Quirks,          \* what goes wrong beyond a failing model or tool
    None

AllQuirks == {"early_interrupt",  \* interrupt() before run() has got going
              "cancel",           \* the task awaiting run() is cancelled
              "raise_in_gate",    \* a permission, an approver or a hook raises
              "apply_raises"}     \* an intervention's apply() raises

ASSUME LoopAssumption ==
    /\ Batches \subseteq Seq(Calls)
    /\ \A b \in Batches : \A i, j \in 1..Len(b) : b[i] = b[j] => i = j
    /\ HasApprover \in BOOLEAN
    /\ MaxIterations \in Nat /\ MaxCost \in Nat /\ MaxSeconds \in Nat
    /\ MaxAux \in Nat /\ MaxRuns \in Nat /\ MaxTime \in Nat
    /\ Threaded \subseteq Calls
    /\ Quirks \subseteq AllQuirks
    /\ None \notin Calls \cup Notes

VARIABLES
    phase,        \* where run() is: see Phases
    history,      \* Session.history
    interrupted,  \* Session._interrupt
    inbox,        \* Session._inbox
    taken,        \* what take_interventions() returned and is not applied yet
    i,            \* the loop's iteration index, as IterationState.index has it
    aux,          \* model calls made while this iteration is prepared
    batch,        \* response.tool_calls of the current iteration
    call,         \* state of each tool call of the gather
    late,         \* tool calls of a gather that nobody awaits any more
    cost,         \* CostState.total
    counted,      \* _LastCounted.response
    clock,        \* time.monotonic()
    startedAt,    \* ElapsedState.started_at
    stopReason,   \* RunState.stop_reason
    runs,         \* how many times run() was called
    paid,         \* history: the model calls made on this session
    asked,        \* history: interrupt() was called during this run()
    submitted     \* history: the interventions submitted, in order

session == <<history, interrupted, inbox>>
counters == <<cost, counted, paid>>
timing == <<clock, startedAt>>
vars == <<phase, session, taken, i, aux, batch, call, late, counters, timing, stopReason,
          runs, asked, submitted>>

Phases == {"idle", "starting", "top", "applying", "prepare", "model", "tools"}
Reasons == {"", "completed", "interrupted", "guard: iterations", "guard: time",
            "guard: budget", "model_error"}

Message == [role : {"user", "note", "assistant", "tool"}, of : Notes \cup Calls \cup {None},
            calls : Seq(Calls)]
User == [role |-> "user", of |-> None, calls |-> <<>>]
Note(n) == [role |-> "note", of |-> n, calls |-> <<>>]
Assistant(b) == [role |-> "assistant", of |-> None, calls |-> b]
ToolMessage(c) == [role |-> "tool", of |-> c, calls |-> <<>>]

TypeControl ==
    /\ phase \in Phases
    /\ stopReason \in Reasons
    /\ interrupted \in BOOLEAN /\ asked \in BOOLEAN
    /\ i \in 0..MaxIterations /\ aux \in 0..MaxAux /\ runs \in 0..MaxRuns

TypeSession ==
    /\ history \in Seq(Message)
    /\ inbox \in Seq(Notes) /\ taken \in Seq(Notes) /\ submitted \in Seq(Notes)

TypeTools ==
    /\ batch \in Batches \cup {<<>>}
    /\ call \in [Calls -> {"none", "gate", "asking", "running", "answered"}]
    /\ late \in [Calls -> BOOLEAN]

TypeCounters ==
    /\ cost \in Nat /\ paid \in Nat /\ counted \in Nat \cup {None}
    /\ clock \in 0..MaxTime /\ startedAt \in 0..MaxTime \cup {None}

TypeOK == TypeControl /\ TypeSession /\ TypeTools /\ TypeCounters

Init ==
    /\ phase = "idle"
    /\ history = <<>> /\ interrupted = FALSE /\ inbox = <<>> /\ taken = <<>>
    /\ i = 0 /\ aux = 0 /\ batch = <<>>
    /\ call = [c \in Calls |-> "none"] /\ late = [c \in Calls |-> FALSE]
    /\ cost = 0 /\ counted = None /\ paid = 0
    /\ clock = 0 /\ startedAt = None
    /\ stopReason = "" /\ runs = 0
    /\ asked = FALSE /\ submitted = <<>>

\* The elements of s that are in keep, in their order.
Kept(s, keep) ==
    LET upTo[k \in 0..Len(s)] ==
            IF k = 0 THEN <<>>
            ELSE IF s[k] \in keep THEN Append(upTo[k - 1], s[k]) ELSE upTo[k - 1]
    IN upTo[Len(s)]

-----------------------------------------------------------------------------
(* Hooks. *)

\* ElapsedTime: the first event of the session starts the clock.
ElapsedTime == startedAt' = IF startedAt = None THEN clock ELSE startedAt

\* CostCounter: ModelCallCompleted counts a response, the ResponseReceived of the
\* same response does not count it again.
OnModelCallCompleted(s, response) == [total |-> s.total + 1, last |-> response]
OnResponseReceived(s, response) ==
    IF s.last = response THEN [s EXCEPT !.last = None] ELSE [s EXCEPT !.total = @ + 1]

\* A model call of a context manager or a router emits the first event only.
CountAuxiliary ==
    LET s == OnModelCallCompleted([total |-> cost, last |-> counted], paid + 1) IN
    paid' = paid + 1 /\ cost' = s.total /\ counted' = s.last

CountResponse ==
    LET s == OnResponseReceived(
               OnModelCallCompleted([total |-> cost, last |-> counted], paid + 1), paid + 1) IN
    paid' = paid + 1 /\ cost' = s.total /\ counted' = s.last

-----------------------------------------------------------------------------
(* Guards, in the order default_harness registers them; the first halt wins. *)

MaxIterationsHalts(index) == index >= MaxIterations

TimeoutHalts(start) == clock - start >= MaxSeconds

BudgetHalts(total) == total >= MaxCost

GuardChain(index, total, start) ==
    IF MaxIterationsHalts(index) THEN "guard: iterations"
    ELSE IF TimeoutHalts(start) THEN "guard: time"
    ELSE IF BudgetHalts(total) THEN "guard: budget"
    ELSE "proceed"

\* The loop returns, run_session emits SessionEnded, and run() is over.
Stop(reason) ==
    /\ stopReason' = reason
    /\ phase' = "idle"
    /\ asked' = FALSE

-----------------------------------------------------------------------------
(* The application. *)

\* harness.run(...) is called: it first awaits harness.start().
Run ==
    /\ phase = "idle"
    /\ runs < MaxRuns
    /\ runs' = runs + 1
    /\ phase' = "starting"
    /\ UNCHANGED <<session, taken, i, aux, batch, call, late, counters, clock, startedAt,
                   stopReason, asked, submitted>>

\* session.interrupt(): during a run, or too late for the one before.
Interrupt ==
    /\ "early_interrupt" \in Quirks \/ phase # "starting"
    /\ ~interrupted
    /\ interrupted' = TRUE
    /\ asked' = (phase # "idle")
    /\ UNCHANGED <<phase, history, inbox, taken, i, aux, batch, call, late, counters, timing,
                   stopReason, runs, submitted>>

Submit(n) ==
    /\ \A k \in 1..Len(submitted) : submitted[k] # n
    /\ inbox' = Append(inbox, n)
    /\ submitted' = Append(submitted, n)
    /\ UNCHANGED <<phase, history, interrupted, taken, i, aux, batch, call, late, counters, timing,
                   stopReason, runs, asked>>

\* Time passes while something is awaited, or between runs.
Tick ==
    /\ clock < MaxTime
    /\ phase \in {"idle", "model", "tools"}
    /\ clock' = clock + 1
    /\ UNCHANGED <<phase, session, taken, i, aux, batch, call, late, counters, startedAt,
                   stopReason, runs, asked, submitted>>

-----------------------------------------------------------------------------
(* run() and the loop. *)

\* start() returned: the interrupt signal is cleared, SessionStarted and the
\* user's message go out, and the loop begins.
BeginLoop ==
    /\ phase = "starting"
    /\ interrupted' = FALSE
    /\ history' = Append(history, User)
    /\ ElapsedTime
    /\ i' = 0
    /\ phase' = "top"
    /\ UNCHANGED <<inbox, taken, aux, batch, call, late, counters, clock, stopReason,
                   runs, asked, submitted>>

Mutant_TakeThenCheck ==
    /\ phase = "top"
    /\ inbox' = <<>>
    /\ \/ /\ interrupted
          /\ Stop("interrupted")
          /\ UNCHANGED taken
       \/ /\ ~interrupted
          /\ taken' = inbox
          /\ phase' = "applying"
          /\ UNCHANGED <<stopReason, asked>>
    /\ UNCHANGED <<history, interrupted, i, aux, batch, call, late, counters, timing, runs, submitted>>

Mutant_NotesBeforeInterrupt ==
    /\ phase = "top"
    /\ \/ /\ interrupted /\ inbox = <<>>
          /\ Stop("interrupted")
          /\ UNCHANGED <<inbox, taken>>
       \/ /\ ~interrupted \/ inbox # <<>>
          /\ taken' = inbox
          /\ inbox' = <<>>
          /\ phase' = "applying"
          /\ UNCHANGED <<stopReason, asked>>
    /\ UNCHANGED <<history, interrupted, i, aux, batch, call, late, counters, timing, runs, submitted>>

Mutant_PendingNotTaken ==
    /\ phase = "top"
    /\ \/ /\ interrupted
          /\ Stop("interrupted")
          /\ UNCHANGED taken
       \/ /\ ~interrupted
          /\ taken' = inbox
          /\ phase' = "applying"
          /\ UNCHANGED <<stopReason, asked>>
    /\ UNCHANGED <<session, i, aux, batch, call, late, counters, timing, runs, submitted>>

\* The top of the loop: an interrupt ends the run, else the inbox is taken.
Top ==
    /\ phase = "top"
    /\ \/ /\ interrupted
          /\ Stop("interrupted")
          /\ UNCHANGED <<inbox, taken>>
       \/ /\ ~interrupted
          /\ taken' = inbox
          /\ inbox' = <<>>
          /\ phase' = "applying"
          /\ UNCHANGED <<stopReason, asked>>
    /\ UNCHANGED <<history, interrupted, i, aux, batch, call, late, counters, timing, runs, submitted>>

\* The message goes in front of the last one, which may be a tool's answer.
Mutant_NoteBeforeLast ==
    /\ phase = "applying"
    /\ taken # <<>>
    /\ history' = SubSeq(history, 1, Len(history) - 1) \o <<Note(Head(taken)), history[Len(history)]>>
    /\ taken' = Tail(taken)
    /\ UNCHANGED <<phase, interrupted, inbox, i, aux, batch, call, late, counters, timing,
                   stopReason, runs, asked, submitted>>

\* await call(intervention.apply, ctx): an InjectMessage adds its message.
Apply ==
    /\ phase = "applying"
    /\ taken # <<>>
    /\ history' = Append(history, Note(Head(taken)))
    /\ taken' = Tail(taken)
    /\ UNCHANGED <<phase, interrupted, inbox, i, aux, batch, call, late, counters, timing,
                   stopReason, runs, asked, submitted>>

Mutant_FirstIterationFree ==
    /\ phase = "applying"
    /\ taken = <<>>
    /\ LET halt == GuardChain(i, IF i = 0 THEN 0 ELSE cost, startedAt) IN
        \/ halt # "proceed" /\ Stop(halt)
        \/ /\ halt = "proceed"
           /\ phase' = "prepare"
           /\ UNCHANGED <<stopReason, asked>>
    /\ UNCHANGED <<session, taken, i, aux, batch, call, late, counters, timing, runs, submitted>>

\* IterationStarted, then the guards.
Guard ==
    /\ phase = "applying"
    /\ taken = <<>>
    /\ LET halt == GuardChain(i, cost, startedAt) IN
        \/ halt # "proceed" /\ Stop(halt)
        \/ /\ halt = "proceed"
           /\ phase' = "prepare"
           /\ UNCHANGED <<stopReason, asked>>
    /\ UNCHANGED <<session, taken, i, aux, batch, call, late, counters, timing, runs, submitted>>

\* A context manager or the router made a model call of its own.
Auxiliary ==
    /\ phase = "prepare"
    /\ aux < MaxAux
    /\ aux' = aux + 1
    /\ CountAuxiliary
    /\ UNCHANGED <<phase, session, taken, i, batch, call, late, timing, stopReason, runs, asked,
                   submitted>>

\* The history is prepared and the model chosen: the model is called.
Prepared ==
    /\ phase = "prepare"
    /\ phase' = "model"
    /\ aux' = 0
    /\ UNCHANGED <<session, taken, i, batch, call, late, counters, timing, stopReason, runs, asked,
                   submitted>>

\* A model call failed for good, in a context manager or in the loop.
ModelFails ==
    /\ phase \in {"prepare", "model"}
    /\ Stop(IF interrupted THEN "interrupted" ELSE "model_error")
    /\ aux' = 0
    /\ UNCHANGED <<session, taken, i, batch, call, late, counters, timing, runs, submitted>>

\* The response is counted and added; without tool calls the guards are asked again.
ModelReturns(b) ==
    /\ phase = "model"
    /\ CountResponse
    /\ history' = Append(history, Assistant(b))
    /\ batch' = b
    /\ \/ /\ b = <<>>
          /\ LET halt == GuardChain(i, cost', startedAt) IN
               Stop(IF halt # "proceed" THEN halt ELSE "completed")
          /\ UNCHANGED call
       \/ /\ b # <<>>
          /\ call' = [c \in Calls |-> IF \E k \in 1..Len(b) : b[k] = c THEN "gate" ELSE "none"]
          /\ phase' = "tools"
          /\ UNCHANGED <<stopReason, asked>>
    /\ UNCHANGED <<interrupted, inbox, taken, i, aux, late, timing, runs, submitted>>

\* Goes on with the results there are, as asyncio.wait with a timeout would.
Mutant_DoNotAwaitAll ==
    /\ phase = "tools"
    /\ \E k \in 1..Len(batch) : call[batch[k]] = "answered"
    /\ history' = history \o [k \in 1..Len(batch) |-> ToolMessage(batch[k])]
    /\ late' = [c \in Calls |-> late[c] \/ call[c] = "running"]
    /\ call' = [c \in Calls |-> "none"]
    /\ batch' = <<>>
    /\ i' = i + 1
    /\ phase' = "top"
    /\ UNCHANGED <<interrupted, inbox, taken, aux, counters, timing, stopReason, runs, asked,
                   submitted>>

\* gather() has every result: they are added in the order of the calls.
ToolsDone ==
    /\ phase = "tools"
    /\ \A k \in 1..Len(batch) : call[batch[k]] = "answered"
    /\ history' = history \o [k \in 1..Len(batch) |-> ToolMessage(batch[k])]
    /\ call' = [c \in Calls |-> "none"]
    /\ batch' = <<>>
    /\ i' = i + 1
    /\ phase' = "top"
    /\ UNCHANGED <<interrupted, inbox, taken, aux, late, counters, timing, stopReason, runs,
                   asked, submitted>>

-----------------------------------------------------------------------------
(* ToolRunner.run, one coroutine per call of the batch. *)

\* Any deny wins, else any ask, else allow.
Combine(verdicts) ==
    IF "DENY" \in verdicts THEN "DENY" ELSE IF "ASK" \in verdicts THEN "ASK" ELSE "ALLOW"

SetCall(c, s) ==
    /\ call' = [call EXCEPT ![c] = s]
    /\ UNCHANGED <<phase, session, taken, i, aux, batch, late, counters, timing, stopReason, runs,
                   asked, submitted>>

Mutant_DeniedUnanswered(c, verdicts, known) ==
    /\ call[c] = "gate"
    /\ LET verdict == Combine(verdicts) IN
        \/ verdict = "DENY" /\ SetCall(c, "none")
        \/ verdict = "ASK" /\ SetCall(c, IF HasApprover THEN "asking" ELSE "answered")
        \/ verdict = "ALLOW" /\ SetCall(c, IF known THEN "running" ELSE "answered")

\* The permissions are asked; a denied call and one of an unknown tool are answered.
Gate(c, verdicts, known) ==
    /\ call[c] = "gate"
    /\ LET verdict == Combine(verdicts) IN
        \/ verdict = "DENY" /\ SetCall(c, "answered")
        \/ verdict = "ASK" /\ SetCall(c, IF HasApprover THEN "asking" ELSE "answered")
        \/ verdict = "ALLOW" /\ SetCall(c, IF known THEN "running" ELSE "answered")

Approved(c, approved, known) ==
    /\ call[c] = "asking"
    /\ SetCall(c, IF approved /\ known THEN "running" ELSE "answered")

\* tool.run returned or raised: either way there is a result.
ToolReturns(c) ==
    /\ call[c] = "running"
    /\ SetCall(c, "answered")

\* What the gather leaves behind keeps running, and nobody takes its result.
LateFinishes(c) ==
    /\ late[c]
    /\ late' = [late EXCEPT ![c] = FALSE]
    /\ UNCHANGED <<phase, session, taken, i, aux, batch, call, counters, timing, stopReason, runs,
                   asked, submitted>>

-----------------------------------------------------------------------------
(* run() raises. *)

Raise ==
    /\ phase' = "idle"
    /\ taken' = <<>>
    /\ aux' = 0
    /\ batch' = <<>>
    /\ call' = [c \in Calls |-> "none"]
    /\ asked' = FALSE
    /\ UNCHANGED <<session, i, counters, timing, stopReason, runs>>

\* One call's coroutine raises: gather passes it on and leaves the others alone.
GateRaises(c) ==
    /\ "raise_in_gate" \in Quirks
    /\ phase = "tools"
    /\ call[c] \in {"gate", "asking"}
    /\ late' = [d \in Calls |-> late[d] \/ (d # c /\ call[d] \in {"gate", "asking", "running"})]
    /\ Raise
    /\ UNCHANGED submitted

\* gather passes the cancellation on; a tool in a worker thread goes on regardless.
Cancelled ==
    /\ "cancel" \in Quirks
    /\ phase \notin {"idle", "starting"}
    /\ late' = [c \in Calls |-> late[c] \/ (c \in Threaded /\ call[c] = "running")]
    /\ Raise
    /\ UNCHANGED submitted

\* The caller learns of the intervention that raised, so it no longer counts as submitted.
ApplyRaises ==
    /\ "apply_raises" \in Quirks
    /\ phase = "applying"
    /\ taken # <<>>
    /\ \E k \in 1..Len(submitted) :
          /\ submitted[k] = Head(taken)
          /\ submitted' = SubSeq(submitted, 1, k - 1) \o SubSeq(submitted, k + 1, Len(submitted))
    /\ Raise
    /\ UNCHANGED late

-----------------------------------------------------------------------------
Tool(c) ==
    \/ \E verdicts \in SUBSET {"ALLOW", "ASK", "DENY"}, known \in BOOLEAN : Gate(c, verdicts, known)
    \/ \E approved, known \in BOOLEAN : Approved(c, approved, known)
    \/ ToolReturns(c)

\* The loop's own steps: what it awaits always returns or raises.
Loop ==
    \/ BeginLoop \/ Top \/ Apply \/ Guard \/ Auxiliary \/ Prepared \/ ModelFails \/ ToolsDone
    \/ \E b \in Batches : ModelReturns(b)

Next ==
    \/ Run \/ Interrupt \/ Tick
    \/ \E n \in Notes : Submit(n)
    \/ Loop
    \/ \E c \in Calls : Tool(c) \/ LateFinishes(c) \/ GateRaises(c)
    \/ Cancelled \/ ApplyRaises

Spec == Init /\ [][Next]_vars

\* Models, tools, approvers and interventions return, as awaits with a timeout do.
FairSpec == Spec /\ WF_vars(Loop) /\ \A c \in Calls : WF_vars(Tool(c))

-----------------------------------------------------------------------------
(* What the loop promises.                                                 *)

\* Every tool call of an assistant message is answered right after it, in the
\* order of the calls, and every tool message is such an answer.
Answered(h) ==
    /\ \A k \in 1..Len(h) : \A n \in 1..Len(h[k].calls) :
          k + n <= Len(h) /\ h[k + n] = ToolMessage(h[k].calls[n])
    /\ \A k \in 1..Len(h) : h[k].role = "tool" =>
          \E n \in 1..(k - 1) : k - n <= Len(h[n].calls)

\* Whenever a model is called it sees a history in which every tool call has
\* exactly one answer, whatever was injected, denied or raised before.
ModelSeesAnswers == phase \in {"prepare", "model"} => Answered(history)

\* CostCounter counts every model call once, the loop's own and the auxiliary.
CountedOnce == cost = paid

\* The budget is overspent by no more than one iteration's calls, however the
\* runs of the session, its failures and its interrupts interleave.
OverspendBounded == cost <= MaxCost + MaxAux

\* "a final response over budget isn't a clean exit"
CompletedWithinBudget == phase = "idle" /\ stopReason = "completed" => cost < MaxCost

\* Interventions are applied once each, in the order of submission, or still wait,
\* whichever way a run ends.  Only a run that raises while it applies some loses
\* those it has taken, and never one that waits in the inbox.
NotesOf(h) ==
    LET applied == Kept(h, {Note(n) : n \in Notes}) IN [k \in 1..Len(applied) |-> applied[k].of]
KnownNotes == NotesOf(history) \o taken \o inbox
NoNoteLost ==
    [][\/ Len(KnownNotes) <= Len(KnownNotes') /\ SubSeq(KnownNotes', 1, Len(KnownNotes)) = KnownNotes
       \/ phase = "applying" /\ phase' = "idle" /\ UNCHANGED session]_vars

\* No tool of this session runs once run() has returned.
QuietWhenIdle ==
    phase = "idle" => \A c \in Calls : call[c] = "none" /\ ~late[c]

\* A run awaits all the calls it starts: each is answered before a model is asked
\* again, and none goes on after the run.
CallsAwaited == ModelSeesAnswers /\ QuietWhenIdle

\* "honored before the next iteration": after interrupt() was called during a run,
\* no further iteration begins.
InterruptHonored == [][phase = "top" /\ asked => phase' # "applying"]_vars

\* "a new turn isn't pre-interrupted": a run stops as interrupted only when
\* interrupt() was called during it.
StaleInterruptIgnored ==
    [][phase # "idle" /\ phase' = "idle" /\ stopReason' = "interrupted" => asked]_vars

\* "a run can't loop, hang, or overspend unbounded": every run() ends.
RunEnds == phase # "idle" ~> phase = "idle"
=============================================================================
