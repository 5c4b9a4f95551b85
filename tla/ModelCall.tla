----------------------------- MODULE ModelCall -----------------------------
(***************************************************************************)
(* One chat turn and the model requests it makes: ChatLoop.run, the        *)
(* routers, timed_complete, BaseModel.complete, and the retry loop of      *)
(* post_json that runs in a worker thread.                                 *)
(*                                                                         *)
(* The awaiting task and the worker are different actors.  A cancelled     *)
(* task leaves at once; its worker goes on until it next polls, and by     *)
(* then the session may be in another turn.  Every call therefore has a    *)
(* record of its own in `calls`, and `current` is the one the turn awaits. *)
(*                                                                         *)
(* Time is counted in ticks; Poll of them are _ABORT_POLL_SECONDS.         *)
(***************************************************************************)
EXTENDS Integers, Sequences, FiniteSets, FiniteSetsExt

CONSTANTS
    MaxRetries,     \* RetryPolicy.max_retries
    BackoffBase, BackoffCap, JitterQuarters, MaxRetryAfter,   \* RetryPolicy
    Poll,           \* ticks of one _ABORT_POLL_SECONDS
    Waits,          \* the numbers a retry-after header may hold
    Clock,          \* RetryPolicy.clock, in ticks
    Statuses,       \* the HTTP error statuses a provider answers with
    Router,         \* "none", "llm" or "sticky"
    SdkModels,      \* the models among Candidates that Bedrock's SDK serves
    None,           \* no value
    MaxTurns        \* bound on the turns explored; a turn makes two calls at most

ASSUME CallAssumption ==
    /\ MaxRetries \in Nat /\ BackoffBase \in Nat /\ BackoffCap \in Nat
    /\ JitterQuarters \in 0..4 /\ MaxRetryAfter \in Nat
    /\ Poll \in Nat \ {0} /\ Waits \subseteq Nat /\ Clock \in Nat
    /\ Statuses \subseteq 400..599
    /\ Router \in {"none", "llm", "sticky"}

VARIABLES
    turn,           \* phase of the turn
    calls,          \* the model calls made, oldest first
    answering,      \* whether the current call is the turn's own or the router's
    sticky,         \* StickyState.model
    interrupted,    \* Session._interrupt
    history,        \* roles of the session's messages
    stopReason,     \* RunState.stop_reason
    events          \* events emitted: how many of each, and the failures' attempts

callVars == <<turn, calls, answering, sticky, interrupted, history,
              stopReason, events>>

-----------------------------------------------------------------------------
(* RetryPolicy and the classification of errors.                           *)

(* Two candidates; the name of the first is contained in the second's,     *)
(* as "gpt-4" is in "gpt-4o".                                              *)
Candidates == <<"short", "longer">>

(* delay(attempt, retry_after): the values the random jitter allows, and   *)
(* none of them when the call should give up.                              *)
Mutant_Delays(attempt, retryAfter) ==
    LET backoff == Min({BackoffCap, BackoffBase * 2 ^ (attempt - 1)})
    IN  IF attempt > MaxRetries + 1 THEN {}
        ELSE IF retryAfter # None
             THEN IF retryAfter <= MaxRetryAfter THEN {retryAfter} ELSE {}
        ELSE (backoff - (backoff * JitterQuarters) \div 4) .. backoff

Delays(attempt, retryAfter) ==
    LET backoff == Min({BackoffCap, BackoffBase * 2 ^ (attempt - 1)})
    IN  IF attempt > MaxRetries THEN {}
        ELSE IF retryAfter # None
             THEN IF retryAfter <= MaxRetryAfter THEN {retryAfter} ELSE {}
        ELSE (backoff - (backoff * JitterQuarters) \div 4) .. backoff

(* A header is absent, a number, a date or some other text. *)
HeaderValue ==
    {[form |-> f, value |-> 0] : f \in {"absent", "text"}}
        \cup [form : {"number", "date"}, value : Waits]

ParseRetryAfter(millis, after) ==
    CASE millis.form = "number" -> Max({0, millis.value})
      [] millis.form # "number" /\ after.form = "number" -> Max({0, after.value})
      [] millis.form # "number" /\ after.form = "date" -> Max({0, after.value - Clock})
      [] OTHER -> None

IsRetryableStatus(status) ==
    status \in {408, 409, 429} \/ (status >= 500 /\ status # 501)

(* classify_error: the class of the error and whether a retry may succeed. *)
ClassifyError(status, tooLong, retryable, rateLimited) ==
    IF status = 429 \/ rateLimited
    THEN [class |-> "RateLimitError", retryable |-> retryable]
    ELSE IF tooLong /\ (status = None \/ status \in 400..499)
         THEN [class |-> "ContextLengthExceeded", retryable |-> FALSE]
         ELSE [class |-> "ModelAPIError", retryable |-> retryable]

(* An error response: its status, its x-should-retry header, and whether   *)
(* its body has one of the phrases for a prompt that is too long.          *)
HttpErrors ==
    [status : Statuses, verdict : {"absent", "true", "false"}, tooLong : BOOLEAN]

(* _http_error: x-should-retry overrides what the status suggests. *)
HttpError(e) ==
    LET retryable == IF e.verdict = "absent" THEN IsRetryableStatus(e.status)
                     ELSE e.verdict = "true"
    IN  ClassifyError(e.status, e.tooLong, retryable, FALSE)

(* The error responses as post_json sees them. *)
HttpFailures ==
    [error : {HttpError(e) : e \in HttpErrors},
     retryAfter : {ParseRetryAfter(m, a) : m \in HeaderValue, a \in HeaderValue}]

(* _api_error: the same for an error the SDK gave up on. *)
SdkErrors == [status : Statuses, code : {"ThrottlingException", "other"}, tooLong : BOOLEAN]

ApiError(e) ==
    ClassifyError(e.status, e.tooLong,
                  e.code = "ThrottlingException" \/ IsRetryableStatus(e.status),
                  e.code = "ThrottlingException")

-----------------------------------------------------------------------------
(* LLMRouter._match: the reply is known by the ids and the names it        *)
(* contains, and by the one it consists of.                                *)
Ids == {Candidates[i] : i \in DOMAIN Candidates}

Replies ==
    {r \in [ids : SUBSET Ids, names : SUBSET Ids, only : BOOLEAN] :
        /\ r.ids \subseteq r.names
        /\ "longer" \in r.names => "short" \in r.names
        /\ r.only => r.names # {}}

Longest(hits) == IF "longer" \in hits THEN "longer" ELSE "short"

Match(r) ==
    IF r.ids # {} THEN Longest(r.ids)
    ELSE IF r.names # {} THEN Longest(r.names)
    ELSE Candidates[1]

-----------------------------------------------------------------------------
NewCall(m) ==
    [by |-> m, phase |-> "send", attempt |-> 0, remaining |-> 0, cancelled |-> FALSE, left |-> FALSE,
     outcome |-> None, reported |-> None, sent |-> 0, late |-> 0, unfit |-> FALSE]

ModelInit ==
    /\ turn = "idle" /\ calls = <<>> /\ answering = FALSE
    /\ sticky = None
    /\ interrupted = FALSE /\ history = <<>>
    /\ stopReason = None
    /\ events = [started |-> 0, completed |-> 0, failed |-> 0, reports |-> {}]

Current == Len(calls)

(* A cancelled task no longer awaits its call. *)
Awaiting == turn = "awaiting"

(* timed_complete announces the call; ctx.invoke hands it to a worker. *)
StartCall(m, own) ==
    /\ calls' = Append(calls, NewCall(m))
    /\ answering' = own
    /\ turn' = "awaiting"
    /\ events' = [events EXCEPT !.started = @ + 1]

(* harness.run and run_session: a new turn clears the interrupt and adds   *)
(* the user's message.  (Interventions are AgenticLoop's subject.)         *)
BeginTurn ==
    /\ turn = "idle"
    /\ Cardinality({i \in DOMAIN history : history[i] = "user"}) < MaxTurns
    /\ interrupted' = FALSE
    /\ history' = Append(history, "user")
    /\ turn' = "processing"
    /\ UNCHANGED <<calls, answering, sticky, stopReason, events>>

(* A context manager that fails for a reason of its own: the run raises,   *)
(* and nothing is recorded.                                                *)
ManagerRaises ==
    /\ turn = "processing"
    /\ turn' = "idle"
    /\ UNCHANGED <<calls, answering, sticky, interrupted, history,
                   stopReason, events>>

(* Without a router, or with a model already pinned, the turn's own call   *)
(* starts; otherwise the decider's does.                                   *)
Route ==
    /\ turn = "processing"
    /\ IF Router = "none" \/ (Router = "sticky" /\ sticky # None)
       THEN StartCall(IF Router = "none" THEN Candidates[1] ELSE sticky, TRUE)
       ELSE StartCall(Candidates[1], FALSE)
    /\ UNCHANGED <<sticky, interrupted, history, stopReason>>

-----------------------------------------------------------------------------
(* The worker thread of call c. *)

Aborted(c) == calls[c].cancelled \/ interrupted

Finish(c, outcome, reported) ==
    calls' = [calls EXCEPT ![c].phase = "done", ![c].outcome = outcome,
                           ![c].reported = reported]

WorkerUnchanged ==
    UNCHANGED <<turn, answering, sticky, interrupted, history,
                stopReason, events>>

(* urlopen, or converse: one more request leaves the process. *)
Send(c) ==
    /\ calls[c].phase = "send"
    /\ calls' = [calls EXCEPT ![c].phase = "flight", ![c].attempt = @ + 1,
                              ![c].sent = @ + 1,
                              ![c].late = @ + (IF calls[c].left \/ interrupted THEN 1 ELSE 0)]
    /\ WorkerUnchanged

Ok(c) ==
    /\ calls[c].phase = "flight"
    /\ Finish(c, "reply", None)
    /\ WorkerUnchanged

(* A 200 whose body is not JSON, or lacks what _parse reads: the error     *)
(* carries no attempt count.                                               *)
Garbled(c) ==
    /\ calls[c].phase = "flight"
    /\ Finish(c, "error", None)
    /\ WorkerUnchanged

(* The handlers of post_json: wait and go round again, or raise. *)
WaitOrRaise(c, delays, unfit) ==
    /\ \/ delays = {} /\ calls' = [calls EXCEPT ![c].phase = "done", ![c].outcome = "error",
                            ![c].reported = calls[c].attempt, ![c].unfit = unfit]
       \/ \E d \in delays :
            calls' = [calls EXCEPT ![c].phase = "wait", ![c].remaining = d, ![c].unfit = unfit]
    /\ WorkerUnchanged

HttpFails(c) ==
    /\ calls[c].phase = "flight" /\ calls[c].by \notin SdkModels
    /\ \E f \in HttpFailures :
        WaitOrRaise(c,
            IF f.error.retryable THEN Delays(calls[c].attempt, f.retryAfter) ELSE {},
            f.error.class = "ContextLengthExceeded")

(* A certificate that does not verify fails alike on every attempt. *)
TransportFails(c) ==
    /\ calls[c].phase = "flight" /\ calls[c].by \notin SdkModels
    /\ \E transient \in BOOLEAN :
        WaitOrRaise(c, IF transient THEN Delays(calls[c].attempt, None) ELSE {}, FALSE)

(* botocore retries by its own rules, up to total_max_attempts, and polls  *)
(* nothing.                                                                *)
SdkRetries(c) ==
    /\ calls[c].phase = "flight" /\ calls[c].by \in SdkModels
    /\ calls[c].attempt < MaxRetries + 1
    /\ calls' = [calls EXCEPT ![c].phase = "send"]
    /\ WorkerUnchanged

(* A ClientError tells how often the SDK tried, any other error does not.  *)
SdkFails(c) ==
    /\ calls[c].phase = "flight" /\ calls[c].by \in SdkModels
    /\ \/ \E e \in SdkErrors :
            calls' = [calls EXCEPT ![c].phase = "done", ![c].outcome = "error",
                        ![c].reported = calls[c].attempt,
                        ![c].unfit = ApiError(e).class = "ContextLengthExceeded"]
       \/ Finish(c, "error", None)
    /\ WorkerUnchanged

(* wait_before_retry: poll, then sleep at most one poll interval. *)
Mutant_WaitStep(c) ==
    /\ calls[c].phase = "wait"
    /\ calls' =
         IF Aborted(c)
         THEN [calls EXCEPT ![c].phase = "done", ![c].outcome = "error",
                            ![c].reported = calls[c].attempt, ![c].remaining = 0]
         ELSE IF calls[c].remaining = 0
         THEN [calls EXCEPT ![c].phase = "send"]
         ELSE [calls EXCEPT ![c].remaining = IF @ >= Poll THEN @ - Poll ELSE @]
    /\ WorkerUnchanged

WaitStep(c) ==
    /\ calls[c].phase = "wait"
    /\ calls' =
         IF Aborted(c)
         THEN [calls EXCEPT ![c].phase = "done", ![c].outcome = "error",
                            ![c].reported = calls[c].attempt, ![c].remaining = 0]
         ELSE IF calls[c].remaining <= 0
         THEN [calls EXCEPT ![c].phase = "send"]
         ELSE [calls EXCEPT ![c].remaining = @ - Min({@, Poll})]
    /\ WorkerUnchanged

-----------------------------------------------------------------------------
(* The task, once its worker is done. *)

(* ResponseReceived, the assistant's message, the stop reason. *)
Answered ==
    /\ Awaiting /\ calls[Current].phase = "done"
    /\ calls[Current].outcome = "reply" /\ answering
    /\ events' = [events EXCEPT !.completed = @ + 1]
    /\ history' = Append(history, "assistant")
    /\ stopReason' = "completed"
    /\ turn' = "idle"
    /\ UNCHANGED <<calls, answering, sticky, interrupted>>

(* The decider replied: pin the match when sticky, then ask that model. *)
Routed ==
    /\ Awaiting /\ calls[Current].phase = "done"
    /\ calls[Current].outcome = "reply" /\ ~answering
    /\ \E r \in Replies :
        /\ sticky' = IF Router = "sticky" THEN Match(r) ELSE sticky
        /\ calls' = Append(calls, NewCall(Match(r)))
    /\ answering' = TRUE
    /\ events' = [events EXCEPT !.completed = @ + 1, !.started = @ + 1]
    /\ UNCHANGED <<turn, interrupted, history, stopReason>>

(* A model failure, the router's included, ends the run with a result. *)
Failed ==
    /\ Awaiting /\ calls[Current].phase = "done" /\ calls[Current].outcome = "error"
    /\ events' = [events EXCEPT !.failed = @ + 1,
                    !.reports = @ \cup {<<calls[Current].reported, calls[Current].sent>>}]
    /\ stopReason' = "model_error"
    /\ turn' = "idle"
    /\ UNCHANGED <<calls, answering, sticky, interrupted, history>>

(* core.invoke.call: the awaiting task is cancelled; the event it leaves   *)
(* set is the call's own.                                                  *)
Mutant_Cancel ==
    /\ Awaiting /\ calls[Current].phase # "done"
    /\ turn' = "idle"
    /\ calls' = [calls EXCEPT ![Current].left = TRUE]
    /\ UNCHANGED <<events, answering, sticky, interrupted, history, stopReason>>

Cancel ==
    /\ Awaiting /\ calls[Current].phase # "done"
    /\ turn' = "idle"
    /\ calls' = [calls EXCEPT ![Current].cancelled = TRUE, ![Current].left = TRUE]
    /\ UNCHANGED <<events, answering, sticky, interrupted, history, stopReason>>

Interrupt ==
    /\ ~interrupted
    /\ interrupted' = TRUE
    /\ UNCHANGED <<turn, calls, answering, sticky, history, stopReason, events>>

-----------------------------------------------------------------------------
Worker(c) ==
    \/ Send(c) \/ Ok(c) \/ Garbled(c) \/ HttpFails(c) \/ TransportFails(c)
    \/ SdkRetries(c) \/ SdkFails(c) \/ WaitStep(c)

Task == ManagerRaises \/ Route \/ Answered \/ Routed \/ Failed

ModelNext ==
    \/ BeginTurn \/ Task \/ Cancel \/ Interrupt
    \/ \E c \in DOMAIN calls : Worker(c)

ModelSpec == ModelInit /\ [][ModelNext]_callVars

(* A request ends by its timeout, a sleep by the clock: a worker and the   *)
(* task that awaits it always go on.                                       *)
ModelFairness ==
    /\ WF_callVars(Task)
    /\ \A c \in 1..2 * MaxTurns : WF_callVars(c \in DOMAIN calls /\ Worker(c))

-----------------------------------------------------------------------------
(* Once the run is interrupted or the task that awaits the call has been   *)
(* cancelled, the retry loop of post_json sends at most the one request it *)
(* had already decided on, in this turn and in any later one; and a prompt *)
(* that was refused as too long is not sent again.                         *)
AbortStopsRetries ==
    \A c \in DOMAIN calls :
        /\ calls[c].by \notin SdkModels => calls[c].late <= 1
        /\ calls[c].unfit => calls[c].phase = "done"

(* Between turns every ModelCallStarted has been followed by one           *)
(* ModelCallCompleted or ModelCallFailed, unless its task was cancelled;   *)
(* and the attempts a ModelCallFailed reports, if it reports any, are the  *)
(* requests that really were made, max_retries + 1 at most.                *)
CallsReported ==
    /\ turn = "idle" =>
         events.started - events.completed - events.failed
             = Cardinality({c \in DOMAIN calls : calls[c].left})
    /\ \A r \in events.reports : r[1] \in {None, r[2]} /\ r[2] <= MaxRetries + 1

(* Every worker ends, the ones whose task has left included. *)
WorkersEnd ==
    \A c \in 1..2 * MaxTurns :
        (c \in DOMAIN calls) ~> (c \in DOMAIN calls /\ calls[c].phase = "done")
=============================================================================
