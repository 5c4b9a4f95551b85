----------------------------- MODULE Invocation -----------------------------
(***************************************************************************)
(* RunContext.invoke: a call of a plugin method wrapped in the plugin's    *)
(* interceptors.  Every before, the call itself and every after is an      *)
(* await that may return, raise or be cancelled.                           *)
(***************************************************************************)
EXTENDS Integers, Sequences

CONSTANTS
    Interceptors,   \* how many interceptors the plugin has
    NoError         \* nothing was raised

(* What an await raises: where it was, at which interceptor, and how. *)
Errors == {"before", "call", "after"} \X (1..Interceptors + 1) \X {"raised", "cancelled"}

ASSUME InvokeAssumption == Interceptors \in Nat /\ NoError \notin Errors

VARIABLES
    befores, afters,    \* the interceptors that override before, and after
    isModel,            \* the plugin is a Model
    step,               \* "before", "call", "after" or "returned"
    at,                 \* the interceptor whose turn it is
    entered, error, afterError,     \* locals of invoke
    marked,             \* mark_model_failure was called on the error
    closed,             \* how often each interceptor's after ran
    outcome,            \* what every after was shown
    result              \* what invoke raised, or NoError

invokeVars == <<befores, afters, isModel, step, at, entered, error, afterError, marked,
                closed, outcome, result>>

Chain == 1..Interceptors

(* Each await ends in one of these; errors are told apart by their place. *)
Ends(place) == {NoError, <<place, at, "raised">>, <<place, at, "cancelled">>}

InvokeInit ==
    /\ befores \in SUBSET Chain /\ afters \in SUBSET Chain /\ isModel \in BOOLEAN
    /\ step = "before" /\ at = 1 /\ entered = <<>>
    /\ error = NoError /\ afterError = NoError /\ marked = FALSE
    /\ closed = [i \in Chain |-> 0] /\ outcome = {} /\ result = NoError

(* Only an interceptor whose before returned counts as entered. *)
Mutant_Before ==
    /\ step = "before" /\ at <= Interceptors
    /\ \E e \in IF at \in befores THEN Ends("before") ELSE {NoError} :
        /\ error' = e
        /\ entered' = Append(entered, at)
        /\ IF e = NoError THEN at' = at + 1 /\ UNCHANGED step
           ELSE at' = 1 /\ step' = "after"
    /\ UNCHANGED <<befores, afters, isModel, afterError, marked, closed, outcome, result>>

Before ==
    /\ step = "before" /\ at <= Interceptors
    /\ \E e \in IF at \in befores THEN Ends("before") ELSE {NoError} :
        /\ error' = e
        /\ IF e = NoError
           THEN entered' = Append(entered, at) /\ at' = at + 1 /\ UNCHANGED step
           ELSE at' = 1 /\ step' = "after" /\ UNCHANGED entered
    /\ UNCHANGED <<befores, afters, isModel, afterError, marked, closed, outcome, result>>

(* An exception of a model's method is marked, a cancellation is not. *)
CallPlugin ==
    /\ step = "before" /\ at > Interceptors
    /\ \E e \in Ends("call") :
        /\ error' = e
        /\ marked' = (isModel /\ e # NoError /\ e[3] = "raised")
    /\ at' = 1 /\ step' = "after"
    /\ UNCHANGED <<befores, afters, isModel, entered, afterError, closed, outcome, result>>

(* A failing after is kept, the remaining ones still run. *)
After ==
    /\ step = "after" /\ at <= Len(entered)
    /\ IF entered[at] \in afters
       THEN \E e \in Ends("after") :
            /\ afterError' = IF afterError = NoError THEN e ELSE afterError
            /\ closed' = [closed EXCEPT ![entered[at]] = @ + 1]
            /\ outcome' = outcome \cup {error}
       ELSE UNCHANGED <<afterError, closed, outcome>>
    /\ at' = at + 1
    /\ UNCHANGED <<befores, afters, isModel, step, entered, error, marked, result>>

(* The error of the call goes before one of the teardown. *)
Return ==
    /\ step = "after" /\ at > Len(entered)
    /\ result' = IF error # NoError THEN error ELSE afterError
    /\ step' = "returned"
    /\ UNCHANGED <<befores, afters, isModel, at, entered, error, afterError, marked,
                   closed, outcome>>

InvokeNext == Before \/ CallPlugin \/ After \/ Return

InvokeSpec == InvokeInit /\ [][InvokeNext]_invokeVars

-----------------------------------------------------------------------------
(* When invoke is over, the after of each interceptor that was entered     *)
(* has run once, and no other; all of them were shown the same outcome;    *)
(* what is raised is the failure of the call if there is one; and only an  *)
(* error of a model's own method is blamed on the model.                   *)
AftersPaired ==
    step = "returned" =>
        LET reached == {i \in Chain : \A j \in 1..i : j \in befores => error \notin
                            {<<"before", j, "raised">>, <<"before", j, "cancelled">>}}
        IN  /\ \A i \in Chain : closed[i] = IF i \in afters \cap reached THEN 1 ELSE 0
            /\ outcome \subseteq {result} \cup (IF error = NoError THEN {NoError} ELSE {})
            /\ result = NoError => \A i \in Chain : closed[i] = 1 <=> i \in afters
            /\ marked => isModel /\ result[1] = "call"
=============================================================================
