---------------------------- MODULE ServicesProofs ----------------------------
(***************************************************************************)
(* Proofs about the services behind a run, for every value of their        *)
(* constants: a plugin call between any number of interceptors, an MCP     *)
(* client of any number of servers, model calls under any retry policy,    *)
(* over any number of turns, and the graph of any registered plugins.      *)
(***************************************************************************)
EXTENDS ModelCall, MCPClient, Invocation, PluginGraph, FiniteSetTheorems, SequenceTheorems,
        WellFoundedInduction, TLAPS

-----------------------------------------------------------------------------
(* Invocation.                                                             *)

\* The interceptors are entered in order, ...
EnteredInv ==
    /\ entered \in Seq(Chain)
    /\ \A j \in 1..Len(entered) : entered[j] = j
    /\ step = "before" => at \in 1..(Interceptors + 1) /\ Len(entered) = at - 1
    /\ step # "before" => Len(entered) \in 0..Interceptors /\ at \in 1..(Len(entered) + 1)
    /\ step = "returned" => at = Len(entered) + 1

\* ... the error tells how far they got, ...
ErrorInv ==
    /\ step = "before" => error = NoError /\ ~marked
    /\ step # "before" /\ Len(entered) < Interceptors =>
          /\ Len(entered) + 1 \in befores /\ ~marked
          /\ error \in {<<"before", Len(entered) + 1, "raised">>, <<"before", Len(entered) + 1, "cancelled">>}
    /\ step # "before" /\ Len(entered) = Interceptors =>
          error \in {NoError, <<"call", Interceptors + 1, "raised">>, <<"call", Interceptors + 1, "cancelled">>}
    /\ marked => isModel /\ error # NoError

\* ... and the afters have run up to where the teardown is.
ClosedInv ==
    /\ closed \in [Chain -> Nat]
    /\ \A i \in Chain : closed[i] = IF step # "before" /\ i \in afters /\ i < at THEN 1 ELSE 0
    /\ step = "before" => outcome = {}
    /\ outcome \subseteq {error}
    /\ step = "returned" => result = IF error # NoError THEN error ELSE afterError

InvokeInv ==
    /\ befores \subseteq Chain /\ afters \subseteq Chain
    /\ step \in {"before", "after", "returned"}
    /\ EnteredInv /\ ErrorInv /\ ClosedInv

\* Errors of different places are different, and none is NoError.
LEMMA ErrorsDiffer ==
    /\ \A j \in 1..(Interceptors + 1), p \in {"before", "call", "after"}, h \in {"raised", "cancelled"} :
          <<p, j, h>> # NoError
    /\ \A j, k, p, q, h, g : <<p, j, h>> = <<q, k, g>> => p = q /\ j = k /\ h = g
<1>1. \A j \in 1..(Interceptors + 1), p \in {"before", "call", "after"}, h \in {"raised", "cancelled"} :
          <<p, j, h>> # NoError
    BY InvokeAssumption DEF Errors
<1>2. QED
    BY <1>1

\* Nothing has run when invoke is called.
LEMMA InvokeInvInit == InvokeInit => InvokeInv
BY InvokeAssumption, EmptySeq DEF InvokeInit, InvokeInv, EnteredInv, ErrorInv, ClosedInv, Chain

\* A before that returns enters its interceptor, one that does not ends the chain there.
LEMMA BeforeStep ==
    ASSUME InvokeInv, Before
    PROVE  InvokeInv'
<1> USE InvokeAssumption DEF InvokeInv, Chain
<1>1. PICK e \in IF at \in befores THEN Ends("before") ELSE {NoError} :
        /\ error' = e
        /\ IF e = NoError THEN entered' = Append(entered, at) /\ at' = at + 1 /\ UNCHANGED step
           ELSE at' = 1 /\ step' = "after" /\ UNCHANGED entered
    BY DEF Before
<1>2. /\ step = "before" /\ at \in 1..Interceptors
      /\ UNCHANGED <<befores, afters, isModel, afterError, marked, closed, outcome, result>>
    BY DEF Before, EnteredInv
<1>3. CASE e = NoError
    <2>1. /\ entered' \in Seq(Chain) /\ Len(entered') = Len(entered) + 1
          /\ \A j \in 1..Len(entered) : entered'[j] = entered[j]
          /\ entered'[Len(entered) + 1] = at
        BY <1>1, <1>2, <1>3, AppendProperties DEF EnteredInv
    <2>2. EnteredInv'
        BY <1>1, <1>2, <1>3, <2>1, SMTT(30) DEF EnteredInv
    <2>3. ErrorInv' /\ ClosedInv'
        BY <1>1, <1>2, <1>3 DEF ErrorInv, ClosedInv
    <2>4. QED
        BY <1>1, <1>2, <1>3, <2>2, <2>3
<1>4. CASE e # NoError
    <2>1. at \in befores /\ e \in {<<"before", at, "raised">>, <<"before", at, "cancelled">>}
        BY <1>1, <1>4 DEF Ends
    <2>2. EnteredInv'
        BY <1>1, <1>2, <1>4 DEF EnteredInv
    <2>3. ErrorInv'
        BY <1>1, <1>2, <1>4, <2>1 DEF ErrorInv, EnteredInv
    <2>4. ClosedInv'
        BY <1>1, <1>2, <1>4 DEF ClosedInv
    <2>5. QED
        BY <1>1, <1>2, <1>4, <2>2, <2>3, <2>4
<1>5. QED
    BY <1>3, <1>4

\* The call itself ends, one way or another.
LEMMA CallPluginStep ==
    ASSUME InvokeInv, CallPlugin
    PROVE  InvokeInv'
<1> USE InvokeAssumption DEF InvokeInv, Chain
<1>1. PICK e \in Ends("call") : error' = e /\ marked' = (isModel /\ e # NoError /\ e[3] = "raised")
    BY DEF CallPlugin
<1>2. /\ step = "before" /\ at = Interceptors + 1 /\ at' = 1 /\ step' = "after"
      /\ UNCHANGED <<befores, afters, isModel, entered, afterError, closed, outcome, result>>
    BY DEF CallPlugin, EnteredInv
<1>3. EnteredInv'
    BY <1>2 DEF EnteredInv
<1>4. ErrorInv'
    <2>1. Len(entered') = Interceptors
        BY <1>2 DEF EnteredInv
    <2>2. error' \in {NoError, <<"call", Interceptors + 1, "raised">>, <<"call", Interceptors + 1, "cancelled">>}
        BY <1>1, <1>2 DEF Ends
    <2>3. marked' => isModel /\ error' # NoError
        BY <1>1
    <2>4. QED
        BY <1>2, <2>1, <2>2, <2>3 DEF ErrorInv
<1>5. ClosedInv'
    BY <1>1, <1>2 DEF ClosedInv
<1>6. QED
    BY <1>2, <1>3, <1>4, <1>5

\* An after runs, and the teardown goes on whatever it does.
LEMMA AfterStep ==
    ASSUME InvokeInv, After
    PROVE  InvokeInv'
<1> USE InvokeAssumption DEF InvokeInv, Chain
<1>1. /\ step = "after" /\ at \in 1..Len(entered) /\ at' = at + 1 /\ entered[at] = at /\ at \in Chain
      /\ UNCHANGED <<befores, afters, isModel, step, entered, error, marked, result>>
    BY DEF After, EnteredInv
<1>2. /\ closed' = IF at \in afters THEN [closed EXCEPT ![at] = @ + 1] ELSE closed
      /\ outcome' \in {outcome, outcome \cup {error}}
    BY <1>1 DEF After
<1>3. EnteredInv'
    BY <1>1 DEF EnteredInv
<1>4. ErrorInv'
    BY <1>1 DEF ErrorInv
<1>5. ClosedInv'
    BY <1>1, <1>2 DEF ClosedInv
<1>6. QED
    BY <1>1, <1>3, <1>4, <1>5

\* invoke raises the call's own error before one of the teardown.
LEMMA ReturnStep ==
    ASSUME InvokeInv, Return
    PROVE  InvokeInv'
BY InvokeAssumption DEF InvokeInv, Return, EnteredInv, ErrorInv, ClosedInv, Chain

\* At the end the afters that ran are those of the interceptors entered.
LEMMA PairedAtEnd ==
    ASSUME InvokeInv, step = "returned"
    PROVE  AftersPaired
<1> USE InvokeAssumption DEF InvokeInv, Chain
<1> DEFINE reached == {i \in Chain : \A j \in 1..i : j \in befores => error \notin
                          {<<"before", j, "raised">>, <<"before", j, "cancelled">>}}
<1>1. Len(entered) \in 0..Interceptors /\ at = Len(entered) + 1
    BY DEF EnteredInv
<1>2. \A i \in Chain : i \in reached <=> i <= Len(entered)
    <2>1. CASE Len(entered) < Interceptors
        <3>1. /\ Len(entered) + 1 \in befores
              /\ error \in {<<"before", Len(entered) + 1, "raised">>, <<"before", Len(entered) + 1, "cancelled">>}
            BY <2>1 DEF ErrorInv
        <3>2. ASSUME NEW i \in Chain, i <= Len(entered) PROVE i \in reached
            BY <1>1, <3>1, <3>2, ErrorsDiffer
        <3>3. ASSUME NEW i \in Chain, ~(i <= Len(entered)) PROVE i \notin reached
            BY <1>1, <3>1, <3>3
        <3>4. QED
            BY <3>2, <3>3
    <2>2. CASE Len(entered) = Interceptors
        <3>1. error \in {NoError, <<"call", Interceptors + 1, "raised">>, <<"call", Interceptors + 1, "cancelled">>}
            BY <2>2 DEF ErrorInv
        <3>2. \A j \in 1..Interceptors : error \notin {<<"before", j, "raised">>, <<"before", j, "cancelled">>}
            BY <3>1, ErrorsDiffer
        <3>3. QED
            BY <2>2, <3>2
    <2>3. QED
        BY <1>1, <2>1, <2>2
<1>3. \A i \in Chain : closed[i] = IF i \in afters \cap reached THEN 1 ELSE 0
    BY <1>1, <1>2 DEF ClosedInv
<1>4. outcome \subseteq {result} \cup (IF error = NoError THEN {NoError} ELSE {})
    BY DEF ClosedInv
<1>5. result = NoError => error = NoError /\ Len(entered) = Interceptors
    BY <1>1, ErrorsDiffer DEF ClosedInv, ErrorInv
<1>6. result = NoError => \A i \in Chain : closed[i] = 1 <=> i \in afters
    BY <1>2, <1>3, <1>5
<1>7. marked => isModel /\ result[1] = "call"
    BY <1>1 DEF ErrorInv, ClosedInv
<1>8. QED
    BY <1>3, <1>4, <1>6, <1>7 DEF AftersPaired

\* RunContext.invoke with any number of interceptors: every after of an interceptor that
\* was entered runs once and no other, all are shown the same outcome, and the error
\* that is raised is the call's own if it has one.
THEOREM AftersArePaired == InvokeSpec => []AftersPaired
<1>1. InvokeInv /\ [InvokeNext]_invokeVars => InvokeInv'
    <2> SUFFICES ASSUME InvokeInv, [InvokeNext]_invokeVars PROVE InvokeInv'
        OBVIOUS
    <2>1. CASE UNCHANGED invokeVars
        BY <2>1 DEF invokeVars, InvokeInv, EnteredInv, ErrorInv, ClosedInv
    <2>2. QED
        BY <2>1, BeforeStep, CallPluginStep, AfterStep, ReturnStep DEF InvokeNext
<1>2. InvokeInv => AftersPaired
    BY PairedAtEnd DEF AftersPaired
<1>3. QED
    BY InvokeInvInit, <1>1, <1>2, PTL DEF InvokeSpec

-----------------------------------------------------------------------------
(* MCPClient.                                                              *)

Starting == phase \in {"connect", "transport", "initialize", "list"}

\* What a list of sessions can close, and what the exit stack can.
Held(list) == {<<list[i], "session">> : i \in DOMAIN list}
Stacked == {exitStack[i] : i \in DOMAIN exitStack}

Context == (1..Servers) \X {"transport", "session"}

MCPType ==
    /\ connector \in {"sdk", "custom"}
    /\ Starting \/ phase \in {"rest", "close", "unwind"}
    /\ sessions \in Seq(1..Servers) /\ closing \in Seq(1..Servers)
    /\ exitStack \in Seq(Context)

\* What is open is on the stack, or among the sessions; stop() does not forget a
\* session before it has called its closer.
OpenInv ==
    /\ connector = "sdk" => open \subseteq Stacked
    /\ connector = "custom" => open \subseteq Held(sessions)
    /\ connector = "custom" /\ phase = "close" => open \subseteq Held(closing)
    /\ phase = "unwind" => sessions = <<>> /\ tools = {}

\* start() has a session for every server before the one it is at.
StartInv ==
    Starting =>
        /\ server \in 1..Servers
        /\ Len(sessions) = IF phase = "list" THEN server ELSE server - 1
        /\ phase \in {"transport", "initialize"} => connector = "sdk"
        /\ phase \in {"initialize", "list"} => <<server, "session">> \in open
        /\ \A t \in tools : <<t[1], "session">> \in open

RestInv ==
    phase = "rest" /\ ~cut =>
        /\ open = {} \/ Len(sessions) = Servers
        /\ \A t \in tools : <<t[1], "session">> \in open

MCPInv == MCPType /\ OpenInv /\ StartInv /\ RestInv

\* stop() visits every session.
LEMMA ReverseHolds ==
    ASSUME NEW s \in Seq(1..Servers)
    PROVE  Reverse(s) \in Seq(1..Servers) /\ Held(Reverse(s)) = Held(s)
<1>1. Len(s) \in Nat /\ DOMAIN s = 1..Len(s) /\ \A i \in 1..Len(s) : s[i] \in 1..Servers
    BY LenProperties, ElementOfSeq
<1>2. /\ Reverse(s) \in Seq(1..Servers) /\ DOMAIN Reverse(s) = 1..Len(s)
      /\ \A i \in 1..Len(s) : Reverse(s)[i] = s[(Len(s) - i) + 1]
    BY <1>1 DEF Reverse
<1>3. \A i \in 1..Len(s) : (Len(s) - i) + 1 \in 1..Len(s) /\ Reverse(s)[(Len(s) - i) + 1] = s[i]
    BY <1>1, <1>2
<1>4. QED
    BY <1>1, <1>2, <1>3 DEF Held

\* A session appended to the list can be closed through it, ...
LEMMA AppendHolds ==
    ASSUME NEW s \in Seq(1..Servers), NEW x \in 1..Servers
    PROVE  /\ Append(s, x) \in Seq(1..Servers) /\ Len(Append(s, x)) = Len(s) + 1
           /\ Held(Append(s, x)) = Held(s) \cup {<<x, "session">>}
<1>1. /\ Append(s, x) \in Seq(1..Servers) /\ Len(Append(s, x)) = Len(s) + 1
      /\ \A i \in 1..Len(s) : Append(s, x)[i] = s[i]
      /\ Append(s, x)[Len(s) + 1] = x
    BY AppendProperties
<1>2. /\ Len(s) \in Nat /\ DOMAIN s = 1..Len(s)
      /\ DOMAIN Append(s, x) = 1..(Len(s) + 1)
    BY <1>1, LenProperties
<1>3. QED
    BY <1>1, <1>2 DEF Held

\* ... and so can a context entered on the stack.
LEMMA AppendStacks ==
    ASSUME NEW s \in Seq(Context), NEW x \in Context
    PROVE  /\ Append(s, x) \in Seq(Context)
           /\ {Append(s, x)[i] : i \in DOMAIN Append(s, x)} = {s[i] : i \in DOMAIN s} \cup {x}
<1>1. /\ Append(s, x) \in Seq(Context) /\ Len(Append(s, x)) = Len(s) + 1
      /\ \A i \in 1..Len(s) : Append(s, x)[i] = s[i]
      /\ Append(s, x)[Len(s) + 1] = x
    BY AppendProperties
<1>2. /\ Len(s) \in Nat /\ DOMAIN s = 1..Len(s)
      /\ DOMAIN Append(s, x) = 1..(Len(s) + 1)
    BY <1>1, LenProperties
<1>3. QED
    BY <1>1, <1>2

\* Nothing is open before the first start().
LEMMA MCPInvInit == MCPInit => MCPInv
<1> SUFFICES ASSUME MCPInit PROVE MCPInv
    OBVIOUS
<1>1. MCPType
    BY EmptySeq DEF MCPInit, MCPType
<1>2. OpenInv /\ StartInv /\ RestInv
    BY DEF MCPInit, OpenInv, StartInv, RestInv, Starting
<1>3. QED
    BY <1>1, <1>2 DEF MCPInv

\* The steps of start() that succeed.
LEMMA StartSteps ==
    ASSUME MCPInv, StartClient \/ EnterContext \/ Connected \/ ListTools
    PROVE  MCPInv'
<1> USE ClientAssumption DEF MCPInv, Starting
<1>1. CASE StartClient
    <2>1. MCPType'
        BY <1>1 DEF StartClient, MCPType
    <2>2. OpenInv'
        BY <1>1 DEF StartClient, OpenInv, Held, Stacked
    <2>3. StartInv' /\ RestInv'
        BY <1>1, EmptySeq DEF StartClient, StartInv, RestInv
    <2>4. QED
        BY <2>1, <2>2, <2>3
<1>2. CASE EnterContext
    <2> DEFINE x == <<server, IF phase = "connect" THEN "transport" ELSE "session">>
    <2>1. /\ connector = "sdk" /\ phase \in {"connect", "transport"}
          /\ exitStack' = Append(exitStack, x) /\ open' = open \cup {x}
          /\ phase' = IF phase = "connect" THEN "transport" ELSE "initialize"
          /\ UNCHANGED <<connector, server, sessions, tools, closing, cut, cycles>>
        BY <1>2 DEF EnterContext
    <2>2. server \in 1..Servers /\ x \in Context
        BY <2>1 DEF StartInv, Context
    <2> HIDE DEF x
    <2>3. exitStack' \in Seq(Context) /\ Stacked' = Stacked \cup {x}
        <3>1. exitStack \in Seq(Context)
            BY DEF MCPType
        <3>2. /\ Append(exitStack, x) \in Seq(Context)
              /\ {Append(exitStack, x)[i] : i \in DOMAIN Append(exitStack, x)}
                    = {exitStack[i] : i \in DOMAIN exitStack} \cup {x}
            BY <2>2, <3>1, AppendStacks
        <3>3. {exitStack'[i] : i \in DOMAIN exitStack'} = {exitStack[i] : i \in DOMAIN exitStack} \cup {x}
            BY <2>1, <3>2
        <3>4. QED
            BY <2>1, <3>2, <3>3 DEF Stacked
    <2>4. MCPType'
        BY <2>1, <2>3 DEF MCPType
    <2>5. OpenInv'
        BY <2>1, <2>3 DEF OpenInv
    <2>6. StartInv' /\ RestInv'
        BY <2>1, <2>2 DEF StartInv, RestInv, x
    <2>7. QED
        BY <2>4, <2>5, <2>6
<1>3. CASE Connected
    <2>1. /\ \/ phase = "initialize" /\ open' = open
             \/ connector = "custom" /\ phase = "connect" /\ open' = open \cup {<<server, "session">>}
          /\ sessions' = Append(sessions, server) /\ phase' = "list"
          /\ UNCHANGED <<connector, server, tools, exitStack, closing, cut, cycles>>
        BY <1>3 DEF Connected
    <2>2. server \in 1..Servers /\ Len(sessions) = server - 1
        BY <2>1 DEF StartInv
    <2>3. /\ sessions' \in Seq(1..Servers) /\ Len(sessions') = server
          /\ Held(sessions') = Held(sessions) \cup {<<server, "session">>}
        BY <2>1, <2>2, AppendHolds DEF MCPType
    <2>4. MCPType'
        BY <2>1, <2>3 DEF MCPType
    <2>5. OpenInv'
        BY <2>1, <2>3 DEF OpenInv, Stacked
    <2>6. StartInv' /\ RestInv'
        BY <2>1, <2>2, <2>3 DEF StartInv, RestInv
    <2>7. QED
        BY <2>4, <2>5, <2>6
<1>4. CASE ListTools
    <2>1. PICK specs \in SUBSET Specs : tools' = tools \cup {<<server, n>> : n \in specs \ {Nameless}}
        BY <1>4 DEF ListTools
    <2>2. /\ phase = "list" /\ UNCHANGED <<connector, sessions, exitStack, closing, open, cut, cycles>>
          /\ IF server = Servers THEN phase' = "rest" /\ server' = 0
             ELSE phase' = "connect" /\ server' = server + 1
        BY <1>4 DEF ListTools
    <2>3. MCPType'
        BY <2>2 DEF MCPType
    <2>4. OpenInv'
        BY <2>2 DEF OpenInv, Held, Stacked
    <2>5. \A t \in tools' : <<t[1], "session">> \in open
        <3> SUFFICES ASSUME NEW t \in tools' PROVE <<t[1], "session">> \in open
            OBVIOUS
        <3>1. (\A u \in tools : <<u[1], "session">> \in open) /\ <<server, "session">> \in open
            BY <2>2 DEF StartInv
        <3>2. CASE t \in tools
            BY <3>1, <3>2
        <3>3. CASE t \notin tools
            <4>1. PICK n \in specs : t = <<server, n>>
                BY <2>1, <3>3
            <4>2. t[1] = server
                BY <4>1
            <4>3. QED
                BY <3>1, <4>2
        <3>4. QED
            BY <3>2, <3>3
    <2>6. StartInv' /\ RestInv'
        BY <2>2, <2>5 DEF StartInv, RestInv
    <2>7. QED
        BY <2>3, <2>4, <2>6
<1>5. QED
    BY <1>1, <1>2, <1>3, <1>4

\* stop(), whoever calls it, begins with every session still to close.
LEMMA BeginStops ==
    ASSUME MCPInv, StartFails \/ StopClient
    PROVE  MCPInv'
<1>1. /\ closing' = Reverse(sessions) /\ phase' = "close"
      /\ UNCHANGED <<connector, sessions, tools, exitStack, open, cut>>
    BY DEF StartFails, StopClient, BeginStop
<1>2. closing' \in Seq(1..Servers) /\ Held(closing') = Held(sessions)
    BY <1>1, ReverseHolds DEF MCPInv, MCPType
<1>3. MCPType' /\ OpenInv'
    BY <1>1, <1>2 DEF MCPInv, MCPType, OpenInv, Held, Stacked, Starting
<1>4. StartInv' /\ RestInv'
    BY <1>1 DEF StartInv, RestInv, Starting
<1>5. QED
    BY <1>3, <1>4 DEF MCPInv

\* The steps of stop().
LEMMA StopSteps ==
    ASSUME MCPInv, CloseSession \/ StopCancelled \/ Forget \/ Unwind
    PROVE  MCPInv'
<1> USE DEF MCPInv, Starting
<1>1. CASE CloseSession
    <2>1. /\ phase = "close" /\ closing # <<>> /\ closing' = Tail(closing)
          /\ open' = IF connector = "custom" THEN open \ {<<Head(closing), "session">>} ELSE open
          /\ UNCHANGED <<connector, phase, server, sessions, tools, exitStack, cut, cycles>>
        BY <1>1 DEF CloseSession
    <2>2. closing' \in Seq(1..Servers) /\ Held(closing) \subseteq {<<Head(closing), "session">>} \cup Held(closing')
        <3>1. closing \in Seq(1..Servers)
            BY DEF MCPType
        <3>2. /\ Head(closing) = closing[1] /\ Tail(closing) \in Seq(1..Servers)
              /\ Len(Tail(closing)) = Len(closing) - 1 /\ Len(closing) \in Nat
              /\ \A i \in 1..Len(Tail(closing)) : Tail(closing)[i] = closing[i + 1]
            BY <2>1, <3>1, HeadTailProperties, LenProperties
        <3>3. \A i \in DOMAIN closing : i = 1 \/ (i - 1 \in DOMAIN Tail(closing) /\ Tail(closing)[i - 1] = closing[i])
            BY <3>1, <3>2, LenProperties
        <3>4. QED
            BY <2>1, <3>2, <3>3 DEF Held
    <2>3. MCPType' /\ StartInv' /\ RestInv'
        BY <2>1, <2>2 DEF MCPType, StartInv, RestInv
    <2>4. OpenInv'
        <3>1. Stacked' = Stacked /\ Held(sessions') = Held(sessions)
            BY <2>1 DEF Stacked
        <3>2. QED
            BY <2>1, <2>2, <3>1 DEF OpenInv
    <2>5. QED
        BY <2>3, <2>4
<1>2. CASE StopCancelled
    <2>1. MCPType' /\ StartInv' /\ RestInv'
        BY <1>2, EmptySeq DEF StopCancelled, MCPType, StartInv, RestInv
    <2>2. OpenInv'
        BY <1>2 DEF StopCancelled, OpenInv, Held, Stacked
    <2>3. QED
        BY <2>1, <2>2
<1>3. CASE Forget
    <2>1. MCPType' /\ StartInv' /\ RestInv'
        BY <1>3, EmptySeq DEF Forget, MCPType, StartInv, RestInv
    <2>2. OpenInv'
        <3>1. connector = "custom" => open = {}
            BY <1>3 DEF Forget, OpenInv, Held
        <3>2. QED
            BY <1>3, <3>1 DEF Forget, OpenInv, Stacked
    <2>3. QED
        BY <2>1, <2>2
<1>4. CASE Unwind
    <2>1. open' = {}
        BY <1>4 DEF Unwind, OpenInv, Held, Stacked, MCPType
    <2>2. MCPType' /\ StartInv' /\ RestInv'
        BY <1>4, <2>1, EmptySeq DEF Unwind, MCPType, StartInv, RestInv, OpenInv
    <2>3. OpenInv'
        BY <1>4, <2>1 DEF Unwind, OpenInv
    <2>4. QED
        BY <2>2, <2>3
<1>5. QED
    BY <1>1, <1>2, <1>3, <1>4

\* MCPClient with any number of servers, either connector, and a failure or a
\* cancellation in any await of any start() and stop(): what is open can be closed
\* through the client, and nothing is left open by a start() that failed.
THEOREM SessionsAreOwned == MCPSpec => []SessionsOwned
<1>1. MCPInv /\ [MCPNext]_mcpVars => MCPInv'
    <2> SUFFICES ASSUME MCPInv, [MCPNext]_mcpVars PROVE MCPInv'
        OBVIOUS
    <2>1. CASE UNCHANGED mcpVars
        BY <2>1 DEF mcpVars, MCPInv, MCPType, OpenInv, StartInv, RestInv, Starting, Held, Stacked
    <2>2. QED
        BY <2>1, StartSteps, BeginStops, StopSteps DEF MCPNext
<1>2. MCPInv => SessionsOwned
    BY DEF MCPInv, MCPType, OpenInv, RestInv, SessionsOwned, Held, Stacked
<1>3. QED
    BY MCPInvInit, <1>1, <1>2, PTL DEF MCPSpec

-----------------------------------------------------------------------------
(* ModelCall.                                                              *)

CallRec ==
    [by : Ids \cup {None}, phase : {"send", "flight", "wait", "done"}, attempt : Nat,
     remaining : Int, cancelled : BOOLEAN, left : BOOLEAN, outcome : {None, "reply", "error"},
     reported : {None} \cup Nat, sent : Nat, late : Nat, unfit : BOOLEAN]

EventRec ==
    [started : Int, completed : Int, failed : Int, reports : SUBSET (({None} \cup Nat) \X Nat)]

ModelType ==
    /\ turn \in {"idle", "processing", "awaiting"}
    /\ calls \in Seq(CallRec) /\ answering \in BOOLEAN /\ sticky \in Ids \cup {None}
    /\ interrupted \in BOOLEAN /\ events \in EventRec

\* What is true of the record of a call.  The counter of late requests is 1 only
\* for a worker that will be told to stop when it next polls.
CallOk(r) ==
    /\ r.attempt = r.sent /\ r.sent <= MaxRetries + 1
    /\ r.phase \in {"send", "wait"} => r.sent <= MaxRetries
    /\ r.reported \in {None, r.sent} /\ (r.phase # "done" => r.reported = None)
    /\ r.left = r.cancelled
    /\ r.unfit => r.phase = "done"
    /\ r.by \notin SdkModels =>
          /\ r.late <= 1
          /\ r.phase = "send" => r.late = 0
          /\ r.late = 1 /\ r.phase # "done" => r.cancelled \/ interrupted

\* A call that goes on is one whose task was cancelled, or the one that is awaited.
AwaitInv ==
    /\ \A c \in DOMAIN calls :
          ~calls[c].left /\ calls[c].phase # "done" => turn = "awaiting" /\ c = Len(calls)
    /\ turn = "awaiting" => Len(calls) \in DOMAIN calls /\ ~calls[Len(calls)].left

LeftCalls == {c \in DOMAIN calls : calls[c].left}

EventInv ==
    /\ events.started - events.completed - events.failed
          = Cardinality(LeftCalls) + (IF turn = "awaiting" THEN 1 ELSE 0)
    /\ \A r \in events.reports : r[1] \in {None, r[2]} /\ r[2] <= MaxRetries + 1

ModelInv ==
    /\ ModelType
    /\ \A c \in DOMAIN calls : CallOk(calls[c])
    /\ AwaitInv /\ EventInv

\* A delay is granted only while retries are left, and it is a number.
LEMMA DelaysBounded ==
    ASSUME NEW a \in Nat, NEW r, NEW d \in Delays(a, r), r = None \/ r \in Int
    PROVE  a <= MaxRetries /\ d \in Int
BY CallAssumption DEF Delays

\* The larger and the smaller of two integers are integers.
LEMMA MaxMinInt ==
    ASSUME NEW a \in Int, NEW b \in Int
    PROVE  Max({a, b}) \in Int /\ Min({a, b}) \in Int
<1>1. \E x \in {a, b} : \A y \in {a, b} : x >= y
    BY a >= b \/ b >= a
<1>2. \E x \in {a, b} : \A y \in {a, b} : x <= y
    BY a >= b \/ b >= a
<1>3. Max({a, b}) \in {a, b}
    BY <1>1 DEF Max
<1>4. Min({a, b}) \in {a, b}
    BY <1>2 DEF Min
<1>5. QED
    BY <1>3, <1>4

\* A retry-after header gives a number or nothing.
LEMMA RetryAfterTyped ==
    ASSUME NEW m \in HeaderValue, NEW a \in HeaderValue
    PROVE  ParseRetryAfter(m, a) = None \/ ParseRetryAfter(m, a) \in Int
<1>1. m.value \in Int /\ a.value \in Int /\ Clock \in Int
    <2>1. ASSUME NEW h \in HeaderValue PROVE h.value \in Int
        <3>1. CASE h \in [form : {"number", "date"}, value : Waits]
            <4>1. h.value \in Waits
                BY <3>1
            <4>2. \A w \in Waits : w \in Nat
                BY CallAssumption, Zenon
            <4>3. QED
                BY <4>1, <4>2
        <3>2. CASE h \in {[form |-> f, value |-> 0] : f \in {"absent", "text"}}
            BY <3>2
        <3>3. QED
            BY <3>1, <3>2 DEF HeaderValue
    <2>2. QED
        BY <2>1, CallAssumption
<1>2. Max({0, m.value}) \in Int /\ Max({0, a.value}) \in Int /\ Max({0, a.value - Clock}) \in Int
    BY <1>1, MaxMinInt
<1>3. CASE m.form = "number"
    BY <1>2, <1>3 DEF ParseRetryAfter
<1>4. CASE m.form # "number" /\ a.form = "number"
    BY <1>2, <1>4 DEF ParseRetryAfter
<1>5. CASE m.form # "number" /\ a.form = "date"
    BY <1>2, <1>5 DEF ParseRetryAfter
<1>6. CASE ~(m.form = "number" \/ a.form = "number" \/ a.form = "date")
    BY <1>6 DEF ParseRetryAfter
<1>7. QED
    BY <1>3, <1>4, <1>5, <1>6

\* A prompt that is too long is not worth a retry, whatever x-should-retry says.
LEMMA TooLongIsFinal ==
    \A f \in HttpFailures :
        /\ f.error.retryable \in BOOLEAN
        /\ f.error.class = "ContextLengthExceeded" => ~f.error.retryable
        /\ f.retryAfter = None \/ f.retryAfter \in Int
<1> SUFFICES ASSUME NEW f \in HttpFailures
             PROVE  /\ f.error.retryable \in BOOLEAN
                    /\ f.error.class = "ContextLengthExceeded" => ~f.error.retryable
                    /\ f.retryAfter = None \/ f.retryAfter \in Int
    OBVIOUS
<1>1. PICK e \in HttpErrors : f.error = HttpError(e)
    BY DEF HttpFailures
<1>2. PICK m \in HeaderValue, a \in HeaderValue : f.retryAfter = ParseRetryAfter(m, a)
    BY DEF HttpFailures
<1>3. f.retryAfter = None \/ f.retryAfter \in Int
    BY <1>2, RetryAfterTyped
<1> DEFINE retryable == IF e.verdict = "absent" THEN IsRetryableStatus(e.status) ELSE e.verdict = "true"
<1>4. retryable \in BOOLEAN
    BY DEF IsRetryableStatus
<1>5. /\ HttpError(e).retryable \in BOOLEAN
      /\ HttpError(e).class = "ContextLengthExceeded" => ~HttpError(e).retryable
    <2>1. HttpError(e) = ClassifyError(e.status, e.tooLong, retryable, FALSE)
        BY DEF HttpError
    <2> HIDE DEF retryable
    <2>2. HttpError(e) \in {[class |-> "RateLimitError", retryable |-> retryable],
                            [class |-> "ContextLengthExceeded", retryable |-> FALSE],
                            [class |-> "ModelAPIError", retryable |-> retryable]}
        BY <2>1 DEF ClassifyError
    <2>3. CASE HttpError(e) = [class |-> "ContextLengthExceeded", retryable |-> FALSE]
        BY <2>3
    <2>4. CASE HttpError(e) = [class |-> "RateLimitError", retryable |-> retryable]
        <3>1. HttpError(e).class = "RateLimitError" /\ HttpError(e).retryable = retryable
            BY <2>4
        <3>2. QED
            <4>1. HttpError(e).retryable \in BOOLEAN
                BY <1>4, <3>1, Zenon
            <4>2. HttpError(e).class # "ContextLengthExceeded"
                BY <3>1
            <4>3. QED
                BY <4>1, <4>2
    <2>5. CASE HttpError(e) = [class |-> "ModelAPIError", retryable |-> retryable]
        <3>1. HttpError(e).class = "ModelAPIError" /\ HttpError(e).retryable = retryable
            BY <2>5
        <3>2. QED
            <4>1. HttpError(e).retryable \in BOOLEAN
                BY <1>4, <3>1, Zenon
            <4>2. HttpError(e).class # "ContextLengthExceeded"
                BY <3>1
            <4>3. QED
                BY <4>1, <4>2
    <2>6. QED
        BY <2>2, <2>3, <2>4, <2>5
<1>6. QED
    BY <1>1, <1>3, <1>5

\* A worker rewrites the record of its own call, and keeps the invariant when the new
\* record is in order.
LEMMA WorkerKeeps ==
    ASSUME ModelInv, NEW c \in DOMAIN calls, NEW r \in CallRec,
           calls[c].phase # "done", calls' = [calls EXCEPT ![c] = r],
           CallOk(r), r.left = calls[c].left, WorkerUnchanged
    PROVE  ModelInv'
<1>1. calls \in Seq(CallRec) /\ Len(calls) \in Nat /\ DOMAIN calls = 1..Len(calls)
    BY LenProperties DEF ModelInv, ModelType
<1>2. /\ calls' \in Seq(CallRec) /\ Len(calls') = Len(calls)
      /\ \A d \in 1..Len(calls) : calls'[d] = IF d = c THEN r ELSE calls[d]
    BY <1>1, ExceptSeq
<1>3. DOMAIN calls' = DOMAIN calls
    BY <1>1, <1>2
<1>4. UNCHANGED <<turn, answering, sticky, interrupted, history, stopReason, events>>
    BY DEF WorkerUnchanged
<1>5. ModelType'
    BY <1>2, <1>4 DEF ModelInv, ModelType
<1>6. (\A d \in DOMAIN calls : CallOk(calls[d]))'
    <2> SUFFICES ASSUME NEW d \in DOMAIN calls' PROVE CallOk(calls[d])'
        OBVIOUS
    <2>1. CallOk(calls'[d])
        BY <1>1, <1>2, <1>3 DEF ModelInv
    <2>2. QED
        BY <1>4, <2>1 DEF CallOk
<1>7. AwaitInv'
    BY <1>1, <1>2, <1>3, <1>4 DEF ModelInv, AwaitInv
<1>8. LeftCalls' = LeftCalls
    BY <1>1, <1>2, <1>3 DEF LeftCalls
<1>9. EventInv'
    BY <1>4, <1>8 DEF ModelInv, EventInv
<1>10. QED
    BY <1>5, <1>6, <1>7, <1>9 DEF ModelInv

\* Every step of a worker: a request, its answers and failures, and the polls of
\* wait_before_retry.
LEMMA WorkerStep ==
    ASSUME ModelInv, NEW c \in DOMAIN calls, Worker(c)
    PROVE  ModelInv'
<1> DEFINE r == calls[c]
<1>1. r \in CallRec /\ CallOk(r) /\ calls \in Seq(CallRec)
    BY ElementOfSeq, LenProperties DEF ModelInv, ModelType
<1>2. interrupted \in BOOLEAN /\ MaxRetries \in Nat
    BY CallAssumption DEF ModelInv, ModelType
<1>3. CASE Send(c)
    <2> DEFINE a == r.attempt + 1
               n == r.sent + 1
               l == r.late + (IF r.left \/ interrupted THEN 1 ELSE 0)
               q == [r EXCEPT !.phase = "flight", !.attempt = a, !.sent = n, !.late = l]
    <2>1. r.phase = "send" /\ calls' = [calls EXCEPT ![c] = q] /\ WorkerUnchanged
        BY <1>3 DEF Send
    <2>2. q \in CallRec
        <3>1. a \in Nat /\ n \in Nat /\ l \in Nat
            BY <1>1, SMTT(30) DEF CallRec
        <3> HIDE DEF a, n, l
        <3>2. QED
            BY <1>1, <3>1 DEF CallRec
    <2>3. CallOk(q) /\ q.left = r.left
        BY <1>1, <1>2, <2>1 DEF CallRec, CallOk
    <2> HIDE DEF q
    <2>4. QED
        BY <2>1, <2>2, <2>3, WorkerKeeps
<1>4. CASE Ok(c) \/ Garbled(c)
    <2>1. PICK o \in {"reply", "error"} : Finish(c, o, None)
        BY <1>4 DEF Ok, Garbled
    <2> DEFINE q == [r EXCEPT !.phase = "done", !.outcome = o, !.reported = None]
    <2>2. r.phase = "flight" /\ calls' = [calls EXCEPT ![c] = q] /\ WorkerUnchanged
        BY <1>4, <2>1 DEF Ok, Garbled, Finish
    <2>3. q \in CallRec
        BY <1>1 DEF CallRec
    <2>4. CallOk(q) /\ q.left = r.left
        BY <1>1, <1>2, <2>2 DEF CallRec, CallOk
    <2> HIDE DEF q
    <2>5. QED
        BY <2>2, <2>3, <2>4, WorkerKeeps
<1>5. ASSUME NEW delays, NEW unfit \in BOOLEAN, WaitOrRaise(c, delays, unfit), r.phase = "flight",
             \A d \in delays : d \in Int /\ r.attempt <= MaxRetries /\ ~unfit
      PROVE  ModelInv'
    <2>1. CASE delays = {} /\ calls' = [calls EXCEPT ![c].phase = "done", ![c].outcome = "error",
                                          ![c].reported = calls[c].attempt, ![c].unfit = unfit]
        <3> DEFINE q == [r EXCEPT !.phase = "done", !.outcome = "error", !.reported = r.attempt, !.unfit = unfit]
        <3>1. calls' = [calls EXCEPT ![c] = q] /\ WorkerUnchanged
            BY <1>5, <2>1 DEF WaitOrRaise
        <3>2. q \in CallRec
            BY <1>1, <1>5 DEF CallRec
        <3>3. CallOk(q) /\ q.left = r.left
            BY <1>1, <1>2, <1>5 DEF CallRec, CallOk
        <3> HIDE DEF q
        <3>4. QED
            BY <1>5, <3>1, <3>2, <3>3, WorkerKeeps
    <2>2. ASSUME NEW d \in delays,
                 calls' = [calls EXCEPT ![c].phase = "wait", ![c].remaining = d, ![c].unfit = unfit]
          PROVE  ModelInv'
        <3> DEFINE q == [r EXCEPT !.phase = "wait", !.remaining = d, !.unfit = unfit]
        <3>1. calls' = [calls EXCEPT ![c] = q] /\ WorkerUnchanged
            BY <1>5, <2>2 DEF WaitOrRaise
        <3>2. q \in CallRec
            BY <1>1, <1>5, <2>2 DEF CallRec
        <3>3. CallOk(q) /\ q.left = r.left
            BY <1>1, <1>2, <1>5, <2>2 DEF CallRec, CallOk
        <3> HIDE DEF q
        <3>4. QED
            BY <1>5, <3>1, <3>2, <3>3, WorkerKeeps
    <2>3. QED
        BY <1>5, <2>1, <2>2 DEF WaitOrRaise
<1>6. CASE HttpFails(c)
    <2>1. PICK f \in HttpFailures :
            WaitOrRaise(c, IF f.error.retryable THEN Delays(calls[c].attempt, f.retryAfter) ELSE {},
                        f.error.class = "ContextLengthExceeded")
        BY <1>6 DEF HttpFails
    <2> DEFINE delays == IF f.error.retryable THEN Delays(r.attempt, f.retryAfter) ELSE {}
               unfit == f.error.class = "ContextLengthExceeded"
    <2>2. r.phase = "flight" /\ unfit \in BOOLEAN /\ r.attempt \in Nat
        BY <1>1, <1>6 DEF HttpFails, CallRec
    <2>3. ASSUME NEW d \in delays PROVE d \in Int /\ r.attempt <= MaxRetries /\ ~unfit
        <3>1. f.error.retryable /\ d \in Delays(r.attempt, f.retryAfter)
            BY <2>3
        <3>2. QED
            BY <2>2, <3>1, DelaysBounded, TooLongIsFinal
    <2>4. WaitOrRaise(c, delays, unfit)
        BY <2>1
    <2> HIDE DEF delays, unfit
    <2>5. QED
        BY <1>5, <2>2, <2>3, <2>4
<1>7. CASE TransportFails(c)
    <2>1. PICK transient \in BOOLEAN :
            WaitOrRaise(c, IF transient THEN Delays(calls[c].attempt, None) ELSE {}, FALSE)
        BY <1>7 DEF TransportFails
    <2> DEFINE delays == IF transient THEN Delays(r.attempt, None) ELSE {}
    <2>2. r.phase = "flight" /\ r.attempt \in Nat
        BY <1>1, <1>7 DEF TransportFails, CallRec
    <2>3. ASSUME NEW d \in delays PROVE d \in Int /\ r.attempt <= MaxRetries
        BY <2>2, <2>3, DelaysBounded
    <2>4. WaitOrRaise(c, delays, FALSE)
        BY <2>1
    <2> HIDE DEF delays
    <2>5. QED
        BY <1>5, <2>2, <2>3, <2>4
<1>8. CASE SdkRetries(c)
    <2> DEFINE q == [r EXCEPT !.phase = "send"]
    <2>1. /\ r.phase = "flight" /\ r.by \in SdkModels /\ r.attempt < MaxRetries + 1
          /\ calls' = [calls EXCEPT ![c] = q] /\ WorkerUnchanged
        BY <1>8 DEF SdkRetries
    <2>2. q \in CallRec
        BY <1>1 DEF CallRec
    <2>3. CallOk(q) /\ q.left = r.left
        BY <1>1, <1>2, <2>1 DEF CallRec, CallOk
    <2> HIDE DEF q
    <2>4. QED
        BY <2>1, <2>2, <2>3, WorkerKeeps
<1>9. CASE SdkFails(c)
    <2>1. ASSUME NEW p \in {None, r.attempt}, NEW u \in BOOLEAN,
                 calls' = [calls EXCEPT ![c] = [r EXCEPT !.phase = "done", !.outcome = "error",
                                                         !.reported = p, !.unfit = u]]
          PROVE  ModelInv'
        <3> DEFINE q == [r EXCEPT !.phase = "done", !.outcome = "error", !.reported = p, !.unfit = u]
        <3>1. r.phase = "flight" /\ calls' = [calls EXCEPT ![c] = q] /\ WorkerUnchanged
            BY <1>9, <2>1 DEF SdkFails
        <3>2. q \in CallRec
            BY <1>1, <2>1 DEF CallRec
        <3>3. CallOk(q) /\ q.left = r.left
            BY <1>1, <1>2, <2>1 DEF CallRec, CallOk
        <3> HIDE DEF q
        <3>4. QED
            BY <3>1, <3>2, <3>3, WorkerKeeps
    <2>2. CASE Finish(c, "error", None)
        <3>1. calls' = [calls EXCEPT ![c] = [r EXCEPT !.phase = "done", !.outcome = "error",
                                                      !.reported = None, !.unfit = r.unfit]]
            BY <1>1, <2>2 DEF Finish, CallRec
        <3>2. r.unfit \in BOOLEAN
            BY <1>1 DEF CallRec
        <3>3. QED
            BY <2>1, <3>1, <3>2
    <2>3. ASSUME NEW e \in SdkErrors,
                 calls' = [calls EXCEPT ![c].phase = "done", ![c].outcome = "error",
                            ![c].reported = calls[c].attempt,
                            ![c].unfit = ApiError(e).class = "ContextLengthExceeded"]
          PROVE  ModelInv'
        <3> DEFINE u == ApiError(e).class = "ContextLengthExceeded"
        <3>1. u \in BOOLEAN
            OBVIOUS
        <3>2. calls' = [calls EXCEPT ![c] = [r EXCEPT !.phase = "done", !.outcome = "error",
                                                      !.reported = r.attempt, !.unfit = u]]
            BY <2>3
        <3> HIDE DEF u
        <3>3. QED
            BY <2>1, <3>1, <3>2
    <2>4. QED
        BY <1>9, <2>2, <2>3 DEF SdkFails
<1>10. CASE WaitStep(c)
    <2>1. r.phase = "wait" /\ WorkerUnchanged
        BY <1>10 DEF WaitStep
    <2>2. CASE Aborted(c)
        <3> DEFINE q == [r EXCEPT !.phase = "done", !.outcome = "error", !.reported = r.attempt, !.remaining = 0]
        <3>1. calls' = [calls EXCEPT ![c] = q]
            BY <1>10, <2>2 DEF WaitStep
        <3>2. q \in CallRec
            <4> DEFINE p == r.attempt
                       z == 0
            <4>1. p \in {None} \cup Nat /\ z \in Int
                BY <1>1 DEF CallRec
            <4> HIDE DEF p, z
            <4>2. [r EXCEPT !.phase = "done", !.outcome = "error", !.reported = p, !.remaining = z] \in CallRec
                BY <1>1, <4>1 DEF CallRec
            <4>3. QED
                BY <4>2 DEF p, z
        <3>3. CallOk(q) /\ q.left = r.left
            BY <1>1, <1>2, <2>1 DEF CallRec, CallOk
        <3> HIDE DEF q
        <3>4. QED
            BY <2>1, <3>1, <3>2, <3>3, WorkerKeeps
    <2>3. CASE ~Aborted(c) /\ r.remaining <= 0
        <3> DEFINE q == [r EXCEPT !.phase = "send"]
        <3>1. calls' = [calls EXCEPT ![c] = q]
            BY <1>10, <2>3 DEF WaitStep
        <3>2. q \in CallRec
            BY <1>1 DEF CallRec
        <3>3. CallOk(q) /\ q.left = r.left
            BY <1>1, <1>2, <2>1, <2>3 DEF CallRec, CallOk, Aborted
        <3> HIDE DEF q
        <3>4. QED
            BY <2>1, <3>1, <3>2, <3>3, WorkerKeeps
    <2>4. CASE ~Aborted(c) /\ ~(r.remaining <= 0)
        <3> DEFINE m == Min({r.remaining, Poll})
                   k == r.remaining - m
                   q == [r EXCEPT !.remaining = k]
        <3>1. calls' = [calls EXCEPT ![c] = q]
            BY <1>10, <2>4 DEF WaitStep
        <3>2. m \in Int
            <4>1. r.remaining \in Int /\ Poll \in Int
                BY <1>1, CallAssumption DEF CallRec
            <4>2. QED
                BY <4>1, MaxMinInt
        <3> HIDE DEF m
        <3>3. q \in CallRec
            <4>1. k \in Int
                BY <1>1, <3>2 DEF CallRec
            <4> HIDE DEF k
            <4>2. QED
                BY <1>1, <4>1 DEF CallRec
        <3>4. CallOk(q) /\ q.left = r.left
            BY <1>1, <1>2, <2>1, <2>4 DEF CallRec, CallOk, Aborted
        <3> HIDE DEF q
        <3>5. QED
            BY <2>1, <3>1, <3>3, <3>4, WorkerKeeps
    <2>5. QED
        BY <2>2, <2>3, <2>4
<1>11. QED
    BY <1>3, <1>4, <1>6, <1>7, <1>8, <1>9, <1>10 DEF Worker

\* No call has been made at the start.
LEMMA ModelInvInit == ModelInit => ModelInv
<1> SUFFICES ASSUME ModelInit PROVE ModelInv
    OBVIOUS
<1>1. calls = <<>> /\ DOMAIN calls = {} /\ Len(calls) = 0 /\ calls \in Seq(CallRec)
    BY EmptySeq DEF ModelInit
<1>2. events \in EventRec /\ events.started = 0 /\ events.completed = 0 /\ events.failed = 0 /\ events.reports = {}
    BY DEF ModelInit, EventRec
<1>3. ModelType
    BY <1>1, <1>2 DEF ModelInit, ModelType
<1>4. AwaitInv
    BY <1>1 DEF ModelInit, AwaitInv
<1>5. EventInv
    <2>1. Cardinality(LeftCalls) = 0
        BY <1>1, FS_EmptySet DEF LeftCalls
    <2>2. QED
        BY <1>2, <2>1 DEF ModelInit, EventInv
<1>6. QED
    BY <1>1, <1>3, <1>4, <1>5 DEF ModelInv

\* A call that is made has been neither sent nor left.
LEMMA NewCallOk ==
    ASSUME NEW m \in Ids \cup {None}
    PROVE  NewCall(m) \in CallRec /\ CallOk(NewCall(m)) /\ ~NewCall(m).left
<1>1. NewCall(m) \in CallRec
    BY DEF NewCall, CallRec
<1>2. CallOk(NewCall(m)) /\ ~NewCall(m).left
    BY CallAssumption DEF NewCall, CallOk
<1>3. QED
    BY <1>1, <1>2

\* The calls there are when another is made.
LEMMA AppendCall ==
    ASSUME ModelInv, NEW m \in Ids \cup {None}, calls' = Append(calls, NewCall(m)),
           interrupted' = interrupted,
           turn # "awaiting" \/ calls[Len(calls)].phase = "done", turn' = "awaiting"
    PROVE  /\ calls' \in Seq(CallRec)
           /\ (\A c \in DOMAIN calls : CallOk(calls[c]))'
           /\ AwaitInv' /\ LeftCalls' = LeftCalls
<1> DEFINE n == NewCall(m)
<1>1. n \in CallRec /\ CallOk(n) /\ ~n.left
    BY NewCallOk
<1> HIDE DEF n
<1>2. calls \in Seq(CallRec) /\ Len(calls) \in Nat /\ DOMAIN calls = 1..Len(calls)
    BY LenProperties DEF ModelInv, ModelType
<1>3. calls' = Append(calls, n)
    BY DEF n
<1>4. /\ calls' \in Seq(CallRec) /\ Len(calls') = Len(calls) + 1
      /\ \A c \in 1..Len(calls) : calls'[c] = calls[c]
      /\ calls'[Len(calls) + 1] = n
    BY <1>1, <1>2, <1>3, AppendProperties
<1>5. DOMAIN calls' = 1..(Len(calls) + 1)
    BY <1>2, <1>4, LenProperties
<1>6. \A c \in DOMAIN calls' : c \in DOMAIN calls \/ (c = Len(calls) + 1 /\ c = Len(calls'))
    BY <1>2, <1>4, <1>5
<1>7. (\A c \in DOMAIN calls : CallOk(calls[c]))'
    <2> SUFFICES ASSUME NEW c \in DOMAIN calls' PROVE CallOk(calls[c])'
        OBVIOUS
    <2>1. CallOk(calls'[c])
        BY <1>1, <1>2, <1>4, <1>6 DEF ModelInv
    <2>2. QED
        BY <2>1 DEF CallOk
<1>8. AwaitInv'
    <2>1. \A c \in DOMAIN calls : calls[c].left \/ calls[c].phase = "done"
        BY DEF ModelInv, AwaitInv
    <2>2. QED
        BY <1>1, <1>2, <1>4, <1>5, <1>6, <2>1 DEF AwaitInv
<1>9. LeftCalls' = LeftCalls
    BY <1>1, <1>2, <1>4, <1>5, <1>6 DEF LeftCalls
<1>10. QED
    BY <1>4, <1>7, <1>8, <1>9

\* A step of the task that leaves the calls alone.
LEMMA CallsKept ==
    ASSUME ModelInv, UNCHANGED calls, interrupted' \in BOOLEAN,
           interrupted' = interrupted \/ interrupted' \/ turn = "idle",
           turn' \in {"idle", "processing", turn},
           turn = "awaiting" /\ turn' # "awaiting" => calls[Len(calls)].phase = "done"
    PROVE  (\A c \in DOMAIN calls : CallOk(calls[c]))' /\ AwaitInv' /\ LeftCalls' = LeftCalls
<1>1. (\A c \in DOMAIN calls : CallOk(calls[c]))'
    <2> SUFFICES ASSUME NEW c \in DOMAIN calls PROVE CallOk(calls[c])'
        OBVIOUS
    <2>1. CallOk(calls[c])
        BY DEF ModelInv
    <2>2. CASE interrupted' = interrupted \/ interrupted'
        BY <2>1, <2>2 DEF CallOk
    <2>3. CASE turn = "idle"
        <3>1. calls[c].left \/ calls[c].phase = "done"
            BY <2>3 DEF ModelInv, AwaitInv
        <3>2. QED
            BY <2>1, <3>1 DEF CallOk
    <2>4. QED
        BY <2>2, <2>3
<1>2. AwaitInv'
    BY DEF ModelInv, AwaitInv
<1>3. LeftCalls' = LeftCalls
    BY DEF LeftCalls
<1>4. QED
    BY <1>1, <1>2, <1>3

\* The calls that were left can be counted.
LEMMA LeftCounted ==
    ASSUME ModelInv
    PROVE  IsFiniteSet(LeftCalls) /\ Cardinality(LeftCalls) \in Nat
<1>1. DOMAIN calls = 1..Len(calls) /\ Len(calls) \in Nat
    BY LenProperties DEF ModelInv, ModelType
<1>2. IsFiniteSet(1..Len(calls))
    BY <1>1, FS_Interval
<1>3. LeftCalls \subseteq 1..Len(calls)
    BY <1>1 DEF LeftCalls
<1>4. QED
    BY <1>2, <1>3, FS_Subset, FS_CardinalityType

\* A turn begins, and the calls that still go on are ones that were left.
LEMMA QuietSteps ==
    ASSUME ModelInv, BeginTurn \/ ManagerRaises \/ Interrupt
    PROVE  ModelInv'
<1>1. /\ UNCHANGED <<calls, answering, sticky, events>>
      /\ interrupted' \in BOOLEAN
      /\ interrupted' = interrupted \/ interrupted' \/ turn = "idle"
      /\ turn' \in {"idle", "processing", turn} /\ (turn = "awaiting" <=> turn' = "awaiting")
    BY DEF ModelInv, ModelType, BeginTurn, ManagerRaises, Interrupt
<1>2. (\A c \in DOMAIN calls : CallOk(calls[c]))' /\ AwaitInv' /\ LeftCalls' = LeftCalls
    BY <1>1, CallsKept
<1>3. ModelType'
    BY <1>1 DEF ModelInv, ModelType
<1>4. EventInv'
    BY <1>1, <1>2 DEF ModelInv, EventInv
<1>5. QED
    BY <1>2, <1>3, <1>4 DEF ModelInv

\* The turn's own call starts, or the router's.
LEMMA RouteStep ==
    ASSUME ModelInv, Route
    PROVE  ModelInv'
<1>1. PICK m \in Ids \cup {None}, own \in BOOLEAN : StartCall(m, own)
    <2>1. Candidates[1] \in Ids
        BY DEF Ids, Candidates
    <2>2. sticky \in Ids \cup {None}
        BY DEF ModelInv, ModelType
    <2>3. QED
        BY <2>1, <2>2 DEF Route
<1>2. /\ turn = "processing" /\ turn' = "awaiting" /\ calls' = Append(calls, NewCall(m)) /\ answering' = own
      /\ events' = [events EXCEPT !.started = @ + 1]
      /\ UNCHANGED <<sticky, interrupted, history, stopReason>>
    BY <1>1 DEF Route, StartCall
<1>3. /\ calls' \in Seq(CallRec) /\ (\A c \in DOMAIN calls : CallOk(calls[c]))'
      /\ AwaitInv' /\ LeftCalls' = LeftCalls
    BY <1>2, AppendCall
<1>4. /\ events' \in EventRec /\ events'.started = events.started + 1
      /\ events'.completed = events.completed /\ events'.failed = events.failed
      /\ events'.reports = events.reports
      /\ events.started \in Int /\ events.completed \in Int /\ events.failed \in Int
    BY <1>2 DEF ModelInv, ModelType, EventRec
<1>5. ModelType'
    BY <1>2, <1>3, <1>4 DEF ModelInv, ModelType
<1>6. EventInv'
    BY <1>2, <1>3, <1>4, LeftCounted DEF ModelInv, EventInv
<1>7. QED
    BY <1>3, <1>5, <1>6 DEF ModelInv

\* The decider's call is over and the turn's own starts.
LEMMA RoutedStep ==
    ASSUME ModelInv, Routed
    PROVE  ModelInv'
<1>1. PICK r \in Replies :
        /\ sticky' = IF Router = "sticky" THEN Match(r) ELSE sticky
        /\ calls' = Append(calls, NewCall(Match(r)))
    BY DEF Routed
<1>2. /\ turn = "awaiting" /\ turn' = "awaiting" /\ answering' = TRUE /\ interrupted' = interrupted
      /\ calls[Len(calls)].phase = "done"
      /\ events' = [events EXCEPT !.completed = @ + 1, !.started = @ + 1]
    BY DEF Routed, Awaiting, Current
<1>3. Match(r) \in Ids
    BY DEF Match, Longest, Ids, Candidates
<1>4. sticky' \in Ids \cup {None}
    BY <1>1, <1>3 DEF ModelInv, ModelType
<1>5. /\ calls' \in Seq(CallRec) /\ (\A c \in DOMAIN calls : CallOk(calls[c]))'
      /\ AwaitInv' /\ LeftCalls' = LeftCalls
    BY <1>1, <1>2, <1>3, AppendCall
<1>6. /\ events' \in EventRec /\ events'.started = events.started + 1
      /\ events'.completed = events.completed + 1 /\ events'.failed = events.failed
      /\ events'.reports = events.reports
      /\ events.started \in Int /\ events.completed \in Int /\ events.failed \in Int
    <2> DEFINE s == events.started + 1
               n == events.completed + 1
    <2>1. /\ events \in EventRec /\ s \in Int /\ n \in Int
          /\ events.started \in Int /\ events.completed \in Int /\ events.failed \in Int
        BY DEF ModelInv, ModelType, EventRec
    <2>2. events' = [events EXCEPT !.completed = n, !.started = s]
        BY <1>2
    <2> HIDE DEF s, n
    <2>3. events' \in EventRec /\ events'.started = s /\ events'.completed = n
          /\ events'.failed = events.failed /\ events'.reports = events.reports
        BY <2>1, <2>2 DEF EventRec
    <2>4. QED
        BY <2>1, <2>3 DEF s, n
<1>7. ModelType'
    BY <1>2, <1>4, <1>5, <1>6 DEF ModelInv, ModelType
<1>8. EventInv'
    BY <1>2, <1>5, <1>6, LeftCounted, SMTT(30) DEF ModelInv, EventInv
<1>9. QED
    BY <1>5, <1>7, <1>8 DEF ModelInv

\* The awaited call ends the turn, with its reply or with its error.
LEMMA EndSteps ==
    ASSUME ModelInv, Answered \/ Failed
    PROVE  ModelInv'
<1> DEFINE r == calls[Len(calls)]
           report == <<r.reported, r.sent>>
<1>1. /\ turn = "awaiting" /\ r.phase = "done" /\ turn' = "idle"
      /\ UNCHANGED <<calls, answering, sticky, interrupted>>
    BY DEF Answered, Failed, Awaiting, Current
<1>2. (\A c \in DOMAIN calls : CallOk(calls[c]))' /\ AwaitInv' /\ LeftCalls' = LeftCalls
    BY <1>1, CallsKept DEF ModelInv, ModelType
<1>3. r \in CallRec /\ CallOk(r)
    BY <1>1, ElementOfSeq, LenProperties DEF ModelInv, ModelType, AwaitInv
<1>4. /\ report \in ({None} \cup Nat) \X Nat
      /\ report[1] \in {None, report[2]} /\ report[2] <= MaxRetries + 1
    BY <1>3 DEF CallRec, CallOk
<1>5. \/ events' = [events EXCEPT !.completed = @ + 1]
      \/ events' = [events EXCEPT !.failed = @ + 1, !.reports = @ \cup {report}]
    BY DEF Answered, Failed, Current
<1> HIDE DEF report
<1>6. /\ events' \in EventRec /\ events'.started = events.started
      /\ events'.completed + events'.failed = events.completed + events.failed + 1
      /\ events'.reports \subseteq events.reports \cup {report}
      /\ events.started \in Int /\ events.completed \in Int /\ events.failed \in Int
      /\ events'.completed \in Int /\ events'.failed \in Int
    <2> DEFINE n == events.completed + 1
               m == events.failed + 1
               R == events.reports \cup {report}
    <2>1. /\ events \in EventRec /\ n \in Int /\ m \in Int
          /\ R \in SUBSET (({None} \cup Nat) \X Nat)
          /\ events.started \in Int /\ events.completed \in Int /\ events.failed \in Int
        BY <1>4 DEF ModelInv, ModelType, EventRec
    <2>2. \/ events' = [events EXCEPT !.completed = n]
          \/ events' = [events EXCEPT !.failed = m, !.reports = R]
        BY <1>5
    <2> HIDE DEF n, m, R
    <2>3. /\ events' \in EventRec /\ events'.started = events.started
          /\ \/ events'.completed = n /\ events'.failed = events.failed /\ events'.reports = events.reports
             \/ events'.completed = events.completed /\ events'.failed = m /\ events'.reports = R
        BY <2>1, <2>2 DEF EventRec
    <2>4. QED
        BY <2>1, <2>3 DEF n, m, R
<1>7. ModelType'
    BY <1>1, <1>6 DEF ModelInv, ModelType
<1>8. EventInv'
    <2>1. \A x \in events'.reports : x[1] \in {None, x[2]} /\ x[2] <= MaxRetries + 1
        BY <1>4, <1>6 DEF ModelInv, EventInv
    <2>2. events.started - events.completed - events.failed = Cardinality(LeftCalls) + 1
        BY <1>1 DEF ModelInv, EventInv
    <2>3. events'.started - events'.completed - events'.failed = Cardinality(LeftCalls)
        BY <1>6, <2>2, LeftCounted
    <2>4. QED
        BY <1>1, <1>2, <2>1, <2>3, LeftCounted DEF EventInv
<1>9. QED
    BY <1>2, <1>7, <1>8 DEF ModelInv

\* The task that awaits the call is cancelled and leaves.
LEMMA CancelStep ==
    ASSUME ModelInv, Cancel
    PROVE  ModelInv'
<1> DEFINE c == Len(calls)
           q == [calls[c] EXCEPT !.cancelled = TRUE, !.left = TRUE]
<1>1. /\ turn = "awaiting" /\ turn' = "idle" /\ calls[c].phase # "done"
      /\ calls' = [calls EXCEPT ![c] = q]
      /\ UNCHANGED <<events, answering, sticky, interrupted, history, stopReason>>
    BY DEF Cancel, Awaiting, Current
<1>2. calls \in Seq(CallRec) /\ c \in Nat /\ DOMAIN calls = 1..c /\ c \in 1..c
    BY <1>1, LenProperties DEF ModelInv, ModelType, AwaitInv
<1>3. calls[c] \in CallRec /\ CallOk(calls[c]) /\ ~calls[c].left
    BY <1>1, <1>2, ElementOfSeq DEF ModelInv, AwaitInv
<1>4. q \in CallRec /\ q.left /\ q.phase = calls[c].phase
    BY <1>3 DEF CallRec
<1>5. CallOk(q)
    BY <1>3 DEF CallRec, CallOk
<1> HIDE DEF q
<1>6. /\ calls' \in Seq(CallRec) /\ Len(calls') = c
      /\ \A d \in 1..c : calls'[d] = IF d = c THEN q ELSE calls[d]
    BY <1>1, <1>2, <1>4, ExceptSeq
<1>7. DOMAIN calls' = 1..c
    BY <1>6, LenProperties
<1>8. ModelType'
    BY <1>1, <1>6 DEF ModelInv, ModelType
<1>9. (\A d \in DOMAIN calls : CallOk(calls[d]))'
    <2> SUFFICES ASSUME NEW d \in DOMAIN calls' PROVE CallOk(calls[d])'
        OBVIOUS
    <2>1. CallOk(calls'[d])
        BY <1>2, <1>5, <1>6, <1>7 DEF ModelInv
    <2>2. QED
        BY <1>1, <2>1 DEF CallOk
<1>10. AwaitInv'
    BY <1>1, <1>2, <1>4, <1>6, <1>7 DEF ModelInv, AwaitInv
<1>11. LeftCalls' = LeftCalls \cup {c} /\ c \notin LeftCalls
    BY <1>2, <1>3, <1>4, <1>6, <1>7 DEF LeftCalls
<1>12. Cardinality(LeftCalls') = Cardinality(LeftCalls) + 1
    BY <1>11, LeftCounted, FS_AddElement
<1>13. EventInv'
    BY <1>1, <1>12, LeftCounted DEF ModelInv, EventInv
<1>14. QED
    BY <1>8, <1>9, <1>10, <1>13 DEF ModelInv

\* Every step of the task and of the workers keeps the invariant.
LEMMA ModelInvStep == ModelInv /\ [ModelNext]_callVars => ModelInv'
<1> SUFFICES ASSUME ModelInv, [ModelNext]_callVars PROVE ModelInv'
    OBVIOUS
<1>1. CASE UNCHANGED callVars
    <2>1. UNCHANGED <<calls, answering, sticky, events, turn, interrupted>>
        BY <1>1 DEF callVars
    <2>2. QED
        BY <2>1 DEF ModelInv, ModelType, CallOk, AwaitInv, EventInv, LeftCalls
<1>2. CASE BeginTurn \/ Task \/ Cancel \/ Interrupt
    BY <1>2, QuietSteps, RouteStep, RoutedStep, EndSteps, CancelStep DEF Task
<1>3. CASE \E c \in DOMAIN calls : Worker(c)
    BY <1>3, WorkerStep
<1>4. QED
    BY <1>1, <1>2, <1>3 DEF ModelNext

\* The retry loop of post_json, for any retry policy and any number of turns: after an
\* interrupt or a cancellation at most one more request is sent, and a prompt that was
\* too long is not sent again.
THEOREM AbortsStopRetries == ModelSpec => []AbortStopsRetries
<1>1. ModelInv => AbortStopsRetries
    BY DEF ModelInv, CallOk, AbortStopsRetries
<1>2. QED
    BY ModelInvInit, ModelInvStep, <1>1, PTL DEF ModelSpec

\* timed_complete: every call that was announced has been reported as completed or as
\* failed, or was cancelled; and a failure reports the requests that were made.
THEOREM CallsAreReported == ModelSpec => []CallsReported
<1>1. ModelInv => CallsReported
    BY LeftCounted DEF ModelInv, ModelType, EventInv, CallsReported, LeftCalls
<1>2. QED
    BY ModelInvInit, ModelInvStep, <1>1, PTL DEF ModelSpec

-----------------------------------------------------------------------------
(* The plugin graph.                                                       *)

Reaches(p, q) == p = q \/ q \in Dependents(p)

\* A loop keeps the graph, and with it all that depends on it.
LEMMA GraphKept ==
    ASSUME requires' = requires
    PROVE  /\ \A p : Pred(p)' = Pred(p) /\ Succ(p)' = Succ(p) /\ Dependents(p)' = Dependents(p)
           /\ \A p, q : Reaches(p, q)' = Reaches(p, q)
           /\ OnCycle' = OnCycle
<1>1. \A p : Pred(p)' = Pred(p)
    BY DEF Pred
<1>2. \A p : Succ(p)' = Succ(p)
    BY <1>1 DEF Succ
<1>3. \A p : Dependents(p)' = Dependents(p)
    BY <1>2, SMTT(30) DEF Dependents
<1>4. QED
    BY <1>1, <1>2, <1>3 DEF Reaches, OnCycle

\* Dependents(p) is a set of plugins with the dependents of p and of its own members, ...
LEMMA DependentsGrow ==
    ASSUME NEW p \in Plugins
    PROVE  /\ Dependents(p) \subseteq Plugins /\ Succ(p) \subseteq Dependents(p)
           /\ \A q \in Dependents(p) : Succ(q) \subseteq Dependents(p)
<1>1. ASSUME NEW q \in Plugins, q = p \/ q \in Dependents(p), NEW r \in Succ(q)
      PROVE  r \in Dependents(p)
    <2>1. r \in Plugins
        BY DEF Succ
    <2>2. SUFFICES ASSUME NEW S \in SUBSET Plugins, Succ(p) \subseteq S, \A s \in S : Succ(s) \subseteq S
                   PROVE  r \in S
        BY <2>1 DEF Dependents
    <2>3. q = p \/ q \in S
        BY <1>1, <2>2 DEF Dependents
    <2> QED
        BY <2>2, <2>3
<1>2. QED
    BY <1>1 DEF Dependents

\* ... and the least one.
LEMMA DependentsLeast ==
    ASSUME NEW p \in Plugins, NEW S, Succ(p) \subseteq S,
           \A q \in S : q \in Plugins => Succ(q) \subseteq S
    PROVE  Dependents(p) \subseteq S
<1> DEFINE T == S \cap Plugins
<1>1. T \in SUBSET Plugins /\ Succ(p) \subseteq T /\ \A q \in T : Succ(q) \subseteq T
    BY DEF Succ
<1> HIDE DEF T
<1>2. Dependents(p) \subseteq T
    BY <1>1 DEF Dependents
<1>3. QED
    BY <1>2 DEF T

\* Who depends on a dependent depends on p.
LEMMA DependentsTransitive ==
    ASSUME NEW p \in Plugins, NEW q \in Dependents(p)
    PROVE  q \in Plugins /\ Dependents(q) \subseteq Dependents(p)
BY DependentsGrow, DependentsLeast

\* What depends on p does so directly, or after a direct dependent.
LEMMA FirstDependent ==
    ASSUME NEW p \in Plugins, NEW q \in Dependents(p)
    PROVE  \E r \in Succ(p) : Reaches(r, q)
<1> DEFINE S == {s \in Plugins : \E r \in Succ(p) : Reaches(r, s)}
<1>1. Succ(p) \subseteq S
    BY DEF Succ, Reaches
<1>2. ASSUME NEW s \in S, s \in Plugins PROVE Succ(s) \subseteq S
    <2>1. PICK r \in Succ(p) : Reaches(r, s)
        BY <1>2
    <2>2. r \in Plugins
        BY DEF Succ
    <2>3. Succ(s) \subseteq Dependents(r)
        BY <2>1, <2>2, DependentsGrow DEF Reaches
    <2> QED
        BY <2>1, <2>2, <2>3, DependentsGrow DEF Reaches
<1> HIDE DEF S
<1>3. q \in S
    BY <1>1, <1>2, DependentsLeast
<1>4. QED
    BY <1>3 DEF S

\* What depends on p does so through something it requires.
LEMMA LastRequired ==
    ASSUME NEW p \in Plugins, NEW q \in Dependents(p)
    PROVE  \E r \in Pred(q) : r \in Plugins /\ Reaches(p, r)
<1> DEFINE S == {s \in Dependents(p) : \E r \in Pred(s) : r \in Plugins /\ Reaches(p, r)}
<1>1. Succ(p) \subseteq S
    BY DependentsGrow DEF Succ, Reaches
<1>2. ASSUME NEW s \in S PROVE Succ(s) \subseteq S
    <2>1. s \in Plugins /\ s \in Dependents(p) /\ Succ(s) \subseteq Dependents(p)
        BY DependentsGrow
    <2> QED
        BY <2>1 DEF Succ, Reaches
<1> HIDE DEF S
<1>3. q \in S
    BY <1>1, <1>2, DependentsLeast
<1>4. QED
    BY <1>3 DEF S

\* Reaching is transitive.
LEMMA ReachesTransitive ==
    ASSUME NEW p \in Plugins, NEW q, NEW r, Reaches(p, q), Reaches(q, r)
    PROVE  Reaches(p, r) /\ q \in Plugins
BY DependentsTransitive, DependentsGrow DEF Reaches

\* A plugin is never its own dependent, but may be one of its dependents.
LEMMA OnCycleIs ==
    ASSUME NEW p \in Plugins
    PROVE  /\ p \notin Succ(p)
           /\ p \in Dependents(p) <=> \E q \in Plugins \ {p} : q \in Dependents(p) /\ p \in Dependents(q)
<1>1. p \notin Succ(p)
    BY DEF Succ, Pred
<1>2. ASSUME p \in Dependents(p)
      PROVE  \E q \in Plugins \ {p} : q \in Dependents(p) /\ p \in Dependents(q)
    <2>1. PICK r \in Succ(p) : Reaches(r, p)
        BY <1>2, FirstDependent
    <2>2. r \in Plugins /\ r # p /\ r \in Dependents(p)
        BY <1>1, DependentsGrow
    <2> QED
        BY <2>1, <2>2 DEF Reaches
<1>3. QED
    BY <1>1, <1>2, DependentsTransitive

\* Of any plugins, some have the fewest dependents, ...
LEMMA FewestDependents ==
    ASSUME NEW T \in SUBSET Plugins, T # {}
    PROVE  \E p \in T : \A q \in T : q \in Dependents(p) => q \in OnCycle
<1> DEFINE D == {Dependents(p) : p \in T}
<1>1. D \subseteq FiniteSubsetsOf(Plugins)
    <2>1. ASSUME NEW p \in T PROVE Dependents(p) \in FiniteSubsetsOf(Plugins)
        BY GraphAssumption, FS_Subset, DependentsGrow DEF FiniteSubsetsOf
    <2> QED
        BY <2>1
<1>2. PICK x \in D : \A y \in D : ~(<<y, x>> \in StrictSubsetOrdering(Plugins))
    <2>1. IsWellFoundedOn(StrictSubsetOrdering(Plugins), FiniteSubsetsOf(Plugins))
        BY FS_StrictSubsetOrderingWellFounded
    <2>2. D # {}
        OBVIOUS
    <2> HIDE DEF D
    <2> QED
        BY <1>1, <2>1, <2>2, WFMin
<1>3. PICK p \in T : x = Dependents(p)
    OBVIOUS
<1>4. ASSUME NEW q \in T, q \in Dependents(p), q \notin OnCycle PROVE FALSE
    <2>1. Dependents(q) \subseteq Dependents(p) /\ Dependents(p) \subseteq Plugins
        BY <1>4, DependentsTransitive, DependentsGrow
    <2>2. q \notin Dependents(q)
        BY <1>4 DEF OnCycle
    <2>3. <<Dependents(q), Dependents(p)>> \in StrictSubsetOrdering(Plugins)
        BY <1>4, <2>1, <2>2 DEF StrictSubsetOrdering
    <2> QED
        BY <1>2, <1>3, <2>3
<1>5. QED
    BY <1>4

\* ... and some depend on the fewest.
LEMMA FewestRequired ==
    ASSUME NEW T \in SUBSET Plugins, T # {}
    PROVE  \E p \in T : \A q \in T : p \in Dependents(q) => p \in OnCycle
<1> DEFINE D == {Plugins \ Dependents(p) : p \in T}
<1>1. D \subseteq FiniteSubsetsOf(Plugins)
    <2>1. ASSUME NEW p \in T PROVE Plugins \ Dependents(p) \in FiniteSubsetsOf(Plugins)
        BY GraphAssumption, FS_Subset, DependentsGrow DEF FiniteSubsetsOf
    <2> QED
        BY <2>1
<1>2. PICK x \in D : \A y \in D : ~(<<y, x>> \in StrictSubsetOrdering(Plugins))
    <2>1. IsWellFoundedOn(StrictSubsetOrdering(Plugins), FiniteSubsetsOf(Plugins))
        BY FS_StrictSubsetOrderingWellFounded
    <2>2. D # {}
        OBVIOUS
    <2> HIDE DEF D
    <2> QED
        BY <1>1, <2>1, <2>2, WFMin
<1>3. PICK p \in T : x = Plugins \ Dependents(p)
    OBVIOUS
<1>4. ASSUME NEW q \in T, p \in Dependents(q), p \notin OnCycle PROVE FALSE
    <2>1. Dependents(p) \subseteq Dependents(q) /\ Dependents(q) \subseteq Plugins
        BY <1>4, DependentsTransitive, DependentsGrow
    <2>2. p \notin Dependents(p)
        BY <1>4 DEF OnCycle
    <2>3. <<Plugins \ Dependents(q), Plugins \ Dependents(p)>> \in StrictSubsetOrdering(Plugins)
        BY <1>4, <2>1, <2>2 DEF StrictSubsetOrdering
    <2> QED
        BY <1>2, <1>3, <2>3
<1>5. QED
    BY <1>4

Emitted == UNION {waves[i] : i \in DOMAIN waves}

Ordered ==
    \A i, j \in DOMAIN waves : \A p \in waves[i], q \in waves[j] : p \in Pred(q) => i < j

\* A wave is the plugins that wait for none but those of the waves before it.
WavesInv ==
    /\ waves \in Seq(SUBSET Plugins) /\ Ordered
    /\ \A p \in Emitted : Pred(p) \subseteq Emitted
    /\ job = "levels" =>
          /\ wave = {p \in Plugins \ Emitted : Pred(p) \subseteq Emitted}
          /\ indeg = [p \in Plugins |-> Cardinality(Pred(p) \ Emitted)]
    /\ job # "levels" => \A p \in Plugins \ Emitted : ~(Pred(p) \subseteq Emitted)

\* The first wave is what requires nothing.
LEMMA WavesInvInit == GraphInit(Registrations) => WavesInv
<1> SUFFICES ASSUME GraphInit(Registrations) PROVE WavesInv
    OBVIOUS
<1>1. waves = <<>> /\ waves \in Seq(SUBSET Plugins) /\ DOMAIN waves = {}
    BY EmptySeq DEF GraphInit
<1>2. Emitted = {}
    BY <1>1 DEF Emitted
<1>3. \A p \in Plugins : Pred(p) \ Emitted = Pred(p) /\ (Pred(p) = {} <=> Pred(p) \subseteq Emitted)
    BY <1>2
<1>4. wave = {p \in Plugins \ Emitted : Pred(p) \subseteq Emitted}
    BY <1>2, <1>3 DEF GraphInit
<1>5. indeg = [p \in Plugins |-> Cardinality(Pred(p) \ Emitted)]
    BY <1>3 DEF GraphInit
<1>6. QED
    BY <1>1, <1>2, <1>4, <1>5 DEF GraphInit, WavesInv, Ordered

\* The next wave is the plugins that the last one leaves waiting for nothing.
LEMMA NextWaveStep == WavesInv /\ NextWave => WavesInv'
<1> SUFFICES ASSUME WavesInv, NextWave PROVE WavesInv'
    OBVIOUS
<1> DEFINE now == Emitted \cup wave
<1>1. /\ waves \in Seq(SUBSET Plugins) /\ waves' = Append(waves, wave)
      /\ wave \in SUBSET Plugins /\ job = "levels" /\ job' = "levels" /\ requires' = requires
    BY DEF WavesInv, NextWave
<1>2. /\ waves' \in Seq(SUBSET Plugins) /\ Len(waves) \in Nat
      /\ DOMAIN waves = 1 .. Len(waves) /\ DOMAIN waves' = DOMAIN waves \cup {Len(waves) + 1}
      /\ waves'[Len(waves) + 1] = wave /\ \A i \in DOMAIN waves : waves'[i] = waves[i]
    BY <1>1, LenProperties
<1>3. Emitted' = now
    BY <1>2 DEF Emitted
<1>4. \A p : Pred(p)' = Pred(p) /\ Pred(p) \subseteq Plugins
    BY <1>1, GraphKept DEF Pred
<1>5. \A p \in wave : p \notin Emitted /\ Pred(p) \subseteq Emitted
    BY <1>1 DEF WavesInv
<1>6. \A p \in Emitted : Pred(p) \subseteq Emitted
    BY DEF WavesInv
<1>7. Ordered'
    <2>1. SUFFICES ASSUME NEW i \in DOMAIN waves', NEW j \in DOMAIN waves',
                          NEW p \in waves'[i], NEW q \in waves'[j], p \in Pred(q)
                   PROVE  i < j
        BY <1>4 DEF Ordered
    <2>2. CASE j = Len(waves) + 1
        <3>1. p \notin wave
            BY <1>2, <1>5, <2>1, <2>2
        <3> QED
            BY <1>2, <2>1, <2>2, <3>1
    <2>3. CASE j # Len(waves) + 1
        <3>1. j \in DOMAIN waves /\ q \in waves[j] /\ q \in Emitted
            BY <1>2, <2>3 DEF Emitted
        <3>2. p \notin wave
            BY <1>5, <1>6, <2>1, <3>1
        <3>3. i \in DOMAIN waves /\ p \in waves[i]
            BY <1>2, <2>1, <3>2
        <3> QED
            BY <2>1, <3>1, <3>3 DEF WavesInv, Ordered
    <2> QED
        BY <2>2, <2>3
<1>8. indeg' = [p \in Plugins |-> Cardinality(Pred(p) \ now)]
    <2>1. ASSUME NEW p \in Plugins
          PROVE  indeg[p] - Cardinality(Pred(p) \cap wave) = Cardinality(Pred(p) \ now)
        <3>1. IsFiniteSet(Pred(p))
            BY <1>4, GraphAssumption, FS_Subset
        <3>2. /\ IsFiniteSet(Pred(p) \cap wave) /\ IsFiniteSet(Pred(p) \ now) /\ IsFiniteSet(Pred(p) \ Emitted)
            BY <3>1, FS_Intersection, FS_Difference
        <3>3. /\ Pred(p) \ Emitted = (Pred(p) \cap wave) \cup (Pred(p) \ now)
              /\ (Pred(p) \cap wave) \cap (Pred(p) \ now) = {}
            BY <1>5
        <3>4. /\ Cardinality(Pred(p) \ Emitted) =
                    Cardinality(Pred(p) \cap wave) + Cardinality(Pred(p) \ now) - Cardinality({})
            BY <3>2, <3>3, FS_Union
        <3>5. /\ Cardinality(Pred(p) \cap wave) \in Nat /\ Cardinality(Pred(p) \ now) \in Nat
              /\ Cardinality({}) = 0
            BY <3>2, FS_CardinalityType, FS_EmptySet
        <3>6. indeg[p] = Cardinality(Pred(p) \ Emitted)
            BY <1>1 DEF WavesInv
        <3> HIDE DEF now
        <3> QED
            BY <3>4, <3>5, <3>6
    <2> HIDE DEF now
    <2> QED
        BY <2>1 DEF NextWave
<1>9. wave' = {p \in Plugins \ now : Pred(p) \subseteq now}
    <2>1. ASSUME NEW p \in Plugins
          PROVE  (Pred(p) \cap wave # {} /\ indeg'[p] = 0) <=> (p \notin now /\ Pred(p) \subseteq now)
        <3>1. indeg'[p] = 0 <=> Pred(p) \subseteq now
            <4>1. IsFiniteSet(Pred(p) \ now)
                BY <1>4, GraphAssumption, FS_Subset, FS_Difference
            <4>2. indeg'[p] = 0 <=> Pred(p) \ now = {}
                BY <1>8, <4>1, FS_EmptySet
            <4> QED
                BY <4>2
        <3>2. Pred(p) \cap wave # {} => p \notin now
            BY <1>5, <1>6
        <3>3. p \notin now /\ Pred(p) \subseteq now => Pred(p) \cap wave # {}
            BY <1>1, <2>1 DEF WavesInv
        <3> QED
            BY <3>1, <3>2, <3>3
    <2> HIDE DEF now
    <2> QED
        BY <2>1 DEF NextWave
<1>10. \A p \in now : Pred(p) \subseteq now
    BY <1>5, <1>6
<1> HIDE DEF now
<1>11. QED
    BY <1>1, <1>2, <1>3, <1>4, <1>7, <1>8, <1>9, <1>10 DEF WavesInv

\* When a wave is empty, what is left waits for itself.
LEMMA WavesDoneStep == WavesInv /\ WavesDone => WavesInv'
<1> SUFFICES ASSUME WavesInv, WavesDone PROVE WavesInv'
    OBVIOUS
<1>1. /\ waves' = waves /\ requires' = requires /\ job' # "levels" /\ job = "levels" /\ wave = {}
    BY DEF WavesDone
<1>2. \A p : Pred(p)' = Pred(p)
    BY <1>1, GraphKept
<1>3. Emitted' = Emitted
    BY <1>1 DEF Emitted
<1>4. Ordered'
    BY <1>1, <1>2 DEF WavesInv, Ordered
<1>5. \A p \in Plugins \ Emitted : ~(Pred(p) \subseteq Emitted)
    BY <1>1 DEF WavesInv
<1>6. QED
    BY <1>1, <1>2, <1>3, <1>4, <1>5 DEF WavesInv

\* The other loops leave the waves as they are.
LEMMA WavesKept ==
    ASSUME WavesInv, UNCHANGED <<requires, waves, wave, indeg>>, job' = job \/ (job # "levels" /\ job' # "levels")
    PROVE  WavesInv'
<1>1. \A p : Pred(p)' = Pred(p)
    BY GraphKept
<1>2. Emitted' = Emitted
    BY DEF Emitted
<1>3. Ordered'
    BY <1>1 DEF WavesInv, Ordered
<1>4. job' = "levels" <=> job = "levels"
    OBVIOUS
<1>5. QED
    BY <1>1, <1>2, <1>3, <1>4 DEF WavesInv

\* All plugins are in the waves exactly when none is on a cycle.
LEMMA WavesExact ==
    ASSUME WavesInv, \A p \in Plugins \ Emitted : ~(Pred(p) \subseteq Emitted)
    PROVE  Emitted = Plugins <=> OnCycle = {}
<1>1. Emitted \subseteq Plugins
    BY LenProperties DEF WavesInv, Emitted
<1>2. ASSUME Emitted = Plugins, NEW p \in OnCycle PROVE FALSE
    <2>1. p \in Plugins /\ p \in Dependents(p)
        BY <1>2 DEF OnCycle
    <2>2. PICK j \in DOMAIN waves : p \in waves[j]
        BY <1>2, <2>1 DEF Emitted
    <2> DEFINE S == {q \in Plugins : \A k \in DOMAIN waves : q \in waves[k] => j < k}
    <2>3. Succ(p) \subseteq S
        BY <2>2 DEF Succ, WavesInv, Ordered
    <2>4. ASSUME NEW q \in S, NEW r \in Succ(q), NEW k \in DOMAIN waves, r \in waves[k] PROVE j < k
        <3>1. PICK i \in DOMAIN waves : q \in waves[i]
            BY <1>2 DEF Emitted
        <3>2. j < i /\ i < k
            BY <2>4, <3>1 DEF Succ, WavesInv, Ordered
        <3>3. i \in Nat /\ j \in Nat /\ k \in Nat
            BY <2>2, <2>4, <3>1, LenProperties DEF WavesInv
        <3> QED
            BY <3>2, <3>3
    <2>5. \A q \in S : Succ(q) \subseteq S
        BY <2>4 DEF Succ
    <2>6. Dependents(p) \subseteq S
        <3> HIDE DEF S
        <3> QED
            BY <2>1, <2>3, <2>5, DependentsLeast
    <2>7. j < j /\ j \in Nat
        BY <2>1, <2>2, <2>6, LenProperties DEF WavesInv
    <2> QED
        BY <2>7
<1>3. ASSUME OnCycle = {}, Plugins \ Emitted # {} PROVE FALSE
    <2>1. PICK p \in Plugins \ Emitted : \A q \in Plugins \ Emitted : p \in Dependents(q) => p \in OnCycle
        BY <1>3, FewestRequired
    <2>2. PICK q \in Pred(p) : q \notin Emitted
        BY <1>1 DEF WavesInv
    <2>3. q \in Plugins /\ p \in Dependents(q)
        BY <2>2, DependentsGrow DEF Pred, Succ
    <2> QED
        BY <1>3, <2>1, <2>2, <2>3
<1>4. QED
    BY <1>1, <1>2, <1>3

OnStack == {stack[i] : i \in DOMAIN stack}
OnPath == {work[k].node : k \in DOMAIN work}
Settled == Visited \ OnStack

\* The successors of a node of the path that the search has taken.
Taken(k) == Succ(work[k].node) \ work[k].succ

\* Both stacks hold what was visited, in the order of the indexes.
StacksInv ==
    /\ Visited \subseteq Plugins
    /\ indexOf \in [Visited -> Nat] /\ low \in [Visited -> Nat]
    /\ \A v \in Visited : indexOf[v] < Cardinality(Visited)
    /\ stack \in Seq(Visited)
    /\ \A i, j \in DOMAIN stack : i < j => indexOf[stack[i]] < indexOf[stack[j]]
    /\ work \in Seq([node : Visited, succ : SUBSET Plugins])
    /\ OnPath \subseteq OnStack
    /\ \A k, l \in DOMAIN work : k < l => indexOf[work[k].node] < indexOf[work[l].node]
    /\ \A k \in DOMAIN work : work[k].succ \subseteq Succ(work[k].node)

\* The path leads to all that is on the stack above it, from there back to it,
\* and nothing leads from the settled plugins to others.
SearchInv ==
    /\ \A k \in DOMAIN work : Taken(k) \subseteq Visited
    /\ \A k \in DOMAIN work : k < Len(work) => work[k + 1].node \in Taken(k)
    /\ \A v \in Visited \ OnPath : Succ(v) \subseteq Visited
    /\ \A v \in Settled : Succ(v) \subseteq Settled
    /\ \A g \in OnPath, x \in OnStack : indexOf[g] <= indexOf[x] => Reaches(g, x)
    /\ \A x \in OnStack : \E g \in OnPath : indexOf[g] <= indexOf[x] /\ Reaches(x, g)

\* What was visited from the k-th node of the path on, and not from the next.
Segment(k) ==
    {x \in OnStack : /\ indexOf[work[k].node] <= indexOf[x]
                     /\ k < Len(work) => indexOf[x] < indexOf[work[k + 1].node]}

\* The dependents of x that have been dealt with; the search is still in the next of the path.
Looked(k, x) ==
    {y \in Succ(x) : x = work[k].node =>
        y \notin work[k].succ /\ (k < Len(work) => y # work[k + 1].node)}

\* A low link leads to the lowest plugin of the stack met from the segment.
LowInv ==
    \A k \in DOMAIN work :
        /\ low[work[k].node] <= indexOf[work[k].node]
        /\ \E m \in OnStack : indexOf[m] = low[work[k].node] /\ Reaches(work[k].node, m)
        /\ \A x \in Segment(k), y \in OnStack : y \in Looked(k, x) => low[work[k].node] <= indexOf[y]

Scc(p) == {q \in Dependents(p) : p \in Dependents(q)}

\* The cycles found are those of the settled plugins.
FoundInv == components = {Scc(p) : p \in Settled \cap OnCycle}

TarjanInv == StacksInv /\ SearchInv /\ LowInv /\ FoundInv

\* What the stacks say of a state in which they are well formed.
LEMMA StacksAre ==
    ASSUME StacksInv
    PROVE  /\ Cardinality(Visited) \in Nat /\ IsFiniteSet(Visited)
           /\ OnStack \subseteq Visited /\ OnPath \subseteq OnStack
           /\ Len(stack) \in Nat /\ DOMAIN stack = 1 .. Len(stack)
           /\ Len(work) \in Nat /\ DOMAIN work = 1 .. Len(work)
           /\ \A v \in Visited : v \in Plugins /\ indexOf[v] \in Nat /\ low[v] \in Nat
           /\ \A k \in 1 .. Len(work) : work[k].node \in OnPath /\ work[k].succ \in SUBSET Plugins
           /\ \A k, l \in 1 .. Len(work) : k <= l => indexOf[work[k].node] <= indexOf[work[l].node]
           /\ \A i, j \in 1 .. Len(stack) : i # j => indexOf[stack[i]] # indexOf[stack[j]]
<1>1. IsFiniteSet(Visited) /\ Cardinality(Visited) \in Nat
    BY GraphAssumption, FS_Subset, FS_CardinalityType DEF StacksInv
<1>2. /\ Len(stack) \in Nat /\ DOMAIN stack = 1 .. Len(stack)
      /\ Len(work) \in Nat /\ DOMAIN work = 1 .. Len(work)
    BY LenProperties DEF StacksInv
<1>3. OnStack \subseteq Visited /\ OnPath \subseteq OnStack
    BY LenProperties DEF StacksInv, OnStack
<1>4. \A v \in Visited : v \in Plugins /\ indexOf[v] \in Nat /\ low[v] \in Nat
    BY DEF StacksInv
<1>5. \A k \in 1 .. Len(work) : work[k].node \in OnPath /\ work[k].succ \in SUBSET Plugins
    <2>1. ASSUME NEW k \in 1 .. Len(work) PROVE work[k] \in [node : Visited, succ : SUBSET Plugins]
        BY LenProperties DEF StacksInv
    <2> QED
        BY <1>2, <2>1 DEF OnPath
<1>6. ASSUME NEW k \in 1 .. Len(work), NEW l \in 1 .. Len(work), k <= l
      PROVE  indexOf[work[k].node] <= indexOf[work[l].node]
    <2>1. CASE k = l
        BY <1>3, <1>4, <1>5, <2>1
    <2>2. CASE k < l
        <3>1. indexOf[work[k].node] < indexOf[work[l].node]
            BY <1>2, <2>2 DEF StacksInv
        <3> QED
            BY <1>3, <1>4, <1>5, <3>1
    <2> QED
        BY <1>6, <2>1, <2>2
<1>7. ASSUME NEW i \in 1 .. Len(stack), NEW j \in 1 .. Len(stack), i # j
      PROVE  indexOf[stack[i]] # indexOf[stack[j]]
    <2>1. stack[i] \in Visited /\ stack[j] \in Visited
        BY <1>2, <1>3 DEF OnStack
    <2>2. i < j => indexOf[stack[i]] < indexOf[stack[j]]
        BY <1>2 DEF StacksInv
    <2>3. j < i => indexOf[stack[j]] < indexOf[stack[i]]
        BY <1>2 DEF StacksInv
    <2>4. i < j \/ j < i
        BY <1>2, <1>7
    <2> QED
        BY <1>4, <2>1, <2>2, <2>3, <2>4
<1>8. QED
    BY <1>1, <1>2, <1>3, <1>4, <1>5, <1>6, <1>7

\* Only the first plugin of a segment is on the path.
LEMMA SegmentOffPath ==
    ASSUME StacksInv, NEW k \in 1 .. Len(work), NEW x \in Segment(k), x # work[k].node
    PROVE  x \notin OnPath
<1>1. SUFFICES ASSUME NEW l \in 1 .. Len(work), x = work[l].node PROVE FALSE
    BY StacksAre DEF OnPath
<1>2. Len(work) \in Nat
    BY StacksAre
<1>3. k < l
    <2>1. SUFFICES ASSUME l < k PROVE FALSE
        BY <1>1, <1>2
    <2>2. indexOf[work[l].node] < indexOf[work[k].node]
        BY <2>1, StacksAre DEF StacksInv
    <2>3. indexOf[work[k].node] <= indexOf[work[l].node]
        BY <1>1 DEF Segment
    <2>4. indexOf[work[k].node] \in Nat /\ indexOf[work[l].node] \in Nat
        BY StacksAre
    <2> QED
        BY <2>2, <2>3, <2>4
<1>4. k < Len(work) /\ k + 1 \in 1 .. Len(work) /\ k + 1 <= l
    BY <1>2, <1>3
<1>5. indexOf[work[k + 1].node] <= indexOf[work[l].node]
    BY <1>4, StacksAre
<1>6. indexOf[work[l].node] < indexOf[work[k + 1].node]
    BY <1>1, <1>4 DEF Segment
<1>7. indexOf[work[k + 1].node] \in Nat /\ indexOf[work[l].node] \in Nat
    BY <1>4, StacksAre
<1>8. QED
    BY <1>5, <1>6, <1>7

\* The frames of the path when p is to be visited from its last node.
Below(p, below) ==
    /\ below \in Seq([node : Visited, succ : SUBSET Plugins]) /\ Len(below) = Len(work)
    /\ \A k \in 1 .. Len(work) :
          /\ below[k].node = work[k].node
          /\ below[k].succ = IF k = Len(work) THEN work[k].succ \ {p} ELSE work[k].succ
    /\ Len(work) > 0 => p \in work[Len(work)].succ

\* A visited plugin is the last of all.
LEMMA VisitIs ==
    ASSUME StacksInv, NEW p \in Plugins \ Visited, NEW below, Below(p, below), Visit(p, below)
    PROVE  /\ Visited' = Visited \cup {p} /\ Cardinality(Visited)' = Cardinality(Visited) + 1
           /\ indexOf' \in [Visited' -> Nat] /\ low' \in [Visited' -> Nat]
           /\ indexOf'[p] = Cardinality(Visited) /\ low'[p] = Cardinality(Visited)
           /\ \A v \in Visited : indexOf'[v] = indexOf[v] /\ low'[v] = low[v] /\ indexOf[v] < Cardinality(Visited)
           /\ stack' = Append(stack, p) /\ OnStack' = OnStack \cup {p}
           /\ work' \in Seq([node : Visited', succ : SUBSET Plugins])
           /\ Len(work') = Len(work) + 1 /\ DOMAIN work' = 1 .. (Len(work) + 1)
           /\ \A k \in 1 .. Len(work) :
                 /\ work'[k].node = work[k].node
                 /\ work'[k].succ = IF k = Len(work) THEN work[k].succ \ {p} ELSE work[k].succ
           /\ work'[Len(work) + 1].node = p /\ work'[Len(work) + 1].succ = Succ(p)
           /\ OnPath' = OnPath \cup {p}
<1> DEFINE extend(f) == [q \in Visited \cup {p} |-> IF q = p THEN Cardinality(Visited) ELSE f[q]]
           frame == [node |-> p, succ |-> Succ(p)]
<1>1. /\ indexOf' = extend(indexOf) /\ low' = extend(low)
      /\ stack' = Append(stack, p) /\ work' = Append(below, frame)
    BY DEF Visit
<1>2. Cardinality(Visited) \in Nat /\ IsFiniteSet(Visited)
    BY StacksAre
<1>3. Visited' = Visited \cup {p}
    BY <1>1 DEF Visited
<1>4. Cardinality(Visited') = Cardinality(Visited) + 1
    BY <1>2, <1>3, FS_AddElement
<1>5. /\ indexOf' \in [Visited' -> Nat] /\ low' \in [Visited' -> Nat]
      /\ indexOf'[p] = Cardinality(Visited) /\ low'[p] = Cardinality(Visited)
      /\ \A v \in Visited : indexOf'[v] = indexOf[v] /\ low'[v] = low[v]
    BY <1>1, <1>2, <1>3 DEF StacksInv
<1>6. \A v \in Visited : indexOf[v] < Cardinality(Visited)
    BY DEF StacksInv
<1>7. OnStack' = OnStack \cup {p}
    <2>1. stack \in Seq(Visited)
        BY DEF StacksInv
    <2>2. /\ Len(stack) \in Nat /\ DOMAIN stack = 1 .. Len(stack) /\ DOMAIN stack' = 1 .. (Len(stack) + 1)
          /\ stack'[Len(stack) + 1] = p /\ \A i \in 1 .. Len(stack) : stack'[i] = stack[i]
        BY <1>1, <2>1, LenProperties
    <2> QED
        BY <2>2 DEF OnStack
<1>8. below \in Seq([node : Visited', succ : SUBSET Plugins]) /\ frame \in [node : Visited', succ : SUBSET Plugins]
    <2>1. [node : Visited, succ : SUBSET Plugins] \subseteq [node : Visited', succ : SUBSET Plugins]
        BY <1>3
    <2>2. below \in Seq([node : Visited, succ : SUBSET Plugins])
        BY DEF Below
    <2>3. frame \in [node : Visited', succ : SUBSET Plugins]
        BY <1>3 DEF Succ
    <2> QED
        BY <2>1, <2>2, <2>3, SeqMonotonic
<1>9. Len(below) = Len(work) /\ Len(work) \in Nat
    BY StacksAre DEF Below
<1>10. /\ work' \in Seq([node : Visited', succ : SUBSET Plugins])
       /\ Len(work') = Len(work) + 1 /\ DOMAIN work' = 1 .. (Len(work) + 1)
       /\ \A k \in 1 .. Len(work) : work'[k] = below[k]
       /\ work'[Len(work) + 1] = frame
    <2> HIDE DEF frame
    <2> QED
        BY <1>1, <1>8, <1>9, LenProperties
<1>11. \A k \in 1 .. Len(work) :
            /\ work'[k].node = work[k].node
            /\ work'[k].succ = IF k = Len(work) THEN work[k].succ \ {p} ELSE work[k].succ
    BY <1>10 DEF Below
<1>12. work'[Len(work) + 1].node = p /\ work'[Len(work) + 1].succ = Succ(p)
    BY <1>10
<1>13. OnPath' = OnPath \cup {p}
    <2>1. DOMAIN work = 1 .. Len(work)
        BY StacksAre
    <2>2. \A k : k \in 1 .. (Len(work) + 1) <=> k \in 1 .. Len(work) \/ k = Len(work) + 1
        BY <1>9
    <2>3. DOMAIN work' = 1 .. (Len(work) + 1)
        BY <1>10
    <2>4. \A k \in DOMAIN work : k \in DOMAIN work' /\ work'[k].node = work[k].node
        BY <1>11, <2>1, <2>2, <2>3
    <2> QED
        BY <1>12, <2>1, <2>2, <2>3, <2>4 DEF OnPath
<1>14. QED
    BY <1>3, <1>4, <1>5, <1>6, <1>7, <1>1, <1>10, <1>11, <1>12, <1>13

\* A visit puts the plugin on both stacks, ...
LEMMA VisitStacks ==
    ASSUME StacksInv, requires' = requires, NEW p \in Plugins \ Visited, NEW below, Below(p, below), Visit(p, below)
    PROVE  StacksInv'
<1> DEFINE L == Len(work)
           N == Cardinality(Visited)
<1>1. /\ Visited' = Visited \cup {p} /\ Cardinality(Visited)' = N + 1 /\ N \in Nat
      /\ indexOf'[p] = N
      /\ \A v \in Visited : indexOf'[v] = indexOf[v] /\ indexOf[v] < N /\ indexOf[v] \in Nat
    BY VisitIs, StacksAre
<1>2. /\ L \in Nat /\ DOMAIN work = 1 .. L /\ DOMAIN work' = 1 .. (L + 1)
      /\ \A k \in 1 .. L : work'[k].node = work[k].node /\ work'[k].succ \subseteq work[k].succ
      /\ work'[L + 1].node = p /\ work'[L + 1].succ = Succ(p)
      /\ \A k \in 1 .. L : work[k].node \in Visited
    BY VisitIs, StacksAre
<1>3. Visited' \subseteq Plugins /\ indexOf' \in [Visited' -> Nat] /\ low' \in [Visited' -> Nat]
    BY VisitIs DEF StacksInv
<1>4. \A v \in Visited' : indexOf'[v] < Cardinality(Visited)'
    BY <1>1
<1>5. stack' \in Seq(Visited') /\ \A i, j \in DOMAIN stack' : i < j => indexOf'[stack'[i]] < indexOf'[stack'[j]]
    <2>1. stack' = Append(stack, p) /\ stack \in Seq(Visited) /\ stack \in Seq(Visited') /\ p \in Visited'
        BY <1>1, VisitIs, SeqMonotonic DEF StacksInv
    <2>2. /\ Len(stack) \in Nat /\ DOMAIN stack = 1 .. Len(stack) /\ DOMAIN stack' = 1 .. (Len(stack) + 1)
          /\ stack'[Len(stack) + 1] = p /\ \A i \in 1 .. Len(stack) : stack'[i] = stack[i] /\ stack[i] \in Visited
        BY <2>1, LenProperties
    <2>3. ASSUME NEW i \in DOMAIN stack', NEW j \in DOMAIN stack', i < j PROVE indexOf'[stack'[i]] < indexOf'[stack'[j]]
        <3>1. i \in 1 .. Len(stack)
            BY <2>2, <2>3
        <3>2. CASE j = Len(stack) + 1
            BY <1>1, <2>2, <3>1, <3>2
        <3>3. CASE j # Len(stack) + 1
            <4>1. j \in 1 .. Len(stack)
                BY <2>2, <2>3, <3>3
            <4>2. indexOf[stack[i]] < indexOf[stack[j]]
                BY <2>2, <2>3, <3>1, <4>1 DEF StacksInv
            <4> QED
                BY <1>1, <2>2, <3>1, <4>1, <4>2
        <3> QED
            BY <3>2, <3>3
    <2> QED
        BY <2>1, <2>3
<1>6. work' \in Seq([node : Visited', succ : SUBSET Plugins]) /\ OnPath' \subseteq OnStack'
    BY VisitIs, StacksAre
<1>7. ASSUME NEW k \in DOMAIN work', NEW l \in DOMAIN work', k < l
      PROVE  indexOf'[work'[k].node] < indexOf'[work'[l].node]
    <2>1. k \in 1 .. L
        BY <1>2, <1>7
    <2>2. CASE l = L + 1
        BY <1>1, <1>2, <2>1, <2>2
    <2>3. CASE l # L + 1
        <3>1. l \in 1 .. L
            BY <1>2, <1>7, <2>3
        <3>2. indexOf[work[k].node] < indexOf[work[l].node]
            BY <1>2, <1>7, <2>1, <3>1 DEF StacksInv
        <3> QED
            BY <1>1, <1>2, <2>1, <3>1, <3>2
    <2> QED
        BY <2>2, <2>3
<1>8. ASSUME NEW k \in DOMAIN work' PROVE work'[k].succ \subseteq Succ(work[k].node)'
    <2>1. Succ(work[k].node)' = Succ(work'[k].node)
        BY GraphKept DEF Succ
    <2>2. k = L + 1 \/ k \in 1 .. L
        BY <1>2
    <2>3. \A l \in 1 .. L : work[l].succ \subseteq Succ(work[l].node)
        BY <1>2 DEF StacksInv
    <2> QED
        BY <1>2, <2>1, <2>2, <2>3
<1> HIDE DEF N
<1>9. QED
    BY <1>3, <1>4, <1>5, <1>6, <1>7, <1>8 DEF StacksInv

\* ... below what it was found from, ...
LEMMA VisitSearch ==
    ASSUME StacksInv, SearchInv, requires' = requires,
           NEW p \in Plugins \ Visited, NEW below, Below(p, below), Visit(p, below)
    PROVE  SearchInv'
<1> SUFFICES ASSUME NEW L, L = Len(work), NEW N, N = Cardinality(Visited)
             PROVE  SearchInv'
    OBVIOUS
<1>1. /\ Visited' = Visited \cup {p} /\ N \in Nat /\ indexOf'[p] = N
      /\ \A v \in Visited : indexOf'[v] = indexOf[v] /\ indexOf[v] < N /\ indexOf[v] \in Nat
      /\ OnStack' = OnStack \cup {p} /\ OnPath' = OnPath \cup {p}
      /\ OnPath \subseteq OnStack /\ OnStack \subseteq Visited /\ Visited \subseteq Plugins
    BY VisitIs, StacksAre
<1>2. /\ L \in Nat /\ DOMAIN work = 1 .. L /\ DOMAIN work' = 1 .. (L + 1)
      /\ \A k \in 1 .. L : work'[k].node = work[k].node /\ work[k].node \in OnPath
      /\ work'[L + 1].node = p
    BY VisitIs, StacksAre
<1>3. \A q : Succ(q)' = Succ(q) /\ \A r : Reaches(q, r)' = Reaches(q, r)
    BY GraphKept
<1>4. L > 0 => p \in Succ(work[L].node)
    <2>1. \A k \in 1 .. L : work[k].succ \subseteq Succ(work[k].node)
        BY <1>2 DEF StacksInv
    <2>2. L > 0 => p \in work[L].succ /\ L \in 1 .. L
        BY <1>2 DEF Below
    <2> QED
        BY <2>1, <2>2
<1>5. /\ \A k \in 1 .. L : Taken(k)' = IF k = L THEN Taken(k) \cup {p} ELSE Taken(k)
      /\ Taken(L + 1)' = {}
    <2>1. ASSUME NEW k \in 1 .. L PROVE Taken(k)' = IF k = L THEN Taken(k) \cup {p} ELSE Taken(k)
        <3>1. work'[k].succ = IF k = L THEN work[k].succ \ {p} ELSE work[k].succ
            BY VisitIs, ZenonT(60)
        <3>2. Succ(work[k].node)' = Succ(work'[k].node)
            BY GraphKept DEF Succ
        <3>3. Taken(k)' = Succ(work[k].node) \ work'[k].succ
            BY <1>2, <3>2 DEF Taken
        <3>4. k = L => p \in Succ(work[k].node)
            BY <1>2, <1>4
        <3> QED
            BY <3>1, <3>3, <3>4 DEF Taken
    <2>2. Taken(L + 1)' = {}
        <3>1. \A k : Succ(work[k].node)' = Succ(work'[k].node)
            BY GraphKept DEF Succ
        <3>2. \A k : Taken(k)' = Succ(work'[k].node) \ work'[k].succ
            BY <3>1 DEF Taken
        <3>3. work'[L + 1].node = p /\ work'[L + 1].succ = Succ(p)
            BY VisitIs
        <3> QED
            BY <3>2, <3>3
    <2> QED
        BY <2>1, <2>2
<1>6. ASSUME NEW k \in DOMAIN work' PROVE Taken(k)' \subseteq Visited'
    BY <1>1, <1>2, <1>5 DEF SearchInv
<1>7. ASSUME NEW k \in DOMAIN work', k < L + 1 PROVE work'[k + 1].node \in Taken(k)'
    <2>1. k \in 1 .. L /\ (k = L \/ k + 1 \in 1 .. L)
        BY <1>2, <1>7
    <2>2. k < L => work[k + 1].node \in Taken(k)
        BY <1>2, <2>1 DEF SearchInv
    <2> QED
        BY <1>2, <1>5, <2>1, <2>2
<1>8. Settled' = Settled
    BY <1>1 DEF Settled
<1>9. ASSUME NEW v \in Visited' \ OnPath' PROVE Succ(v) \subseteq Visited'
    BY <1>1, <1>9 DEF SearchInv
<1>10. \A v \in Settled : Succ(v) \subseteq Settled
    BY DEF SearchInv
<1>11. ASSUME NEW g \in OnPath', NEW x \in OnStack', indexOf'[g] <= indexOf'[x] PROVE Reaches(g, x)
    <2>1. CASE g \in OnPath /\ x \in OnStack
        BY <1>1, <1>11, <2>1 DEF SearchInv
    <2>2. CASE g = p
        BY <1>1, <1>11, <2>2 DEF Reaches
    <2>3. CASE g \in OnPath /\ x = p
        <3>1. PICK k \in 1 .. L : g = work[k].node
            BY <1>2, <2>3 DEF OnPath
        <3>2. L > 0 /\ L \in 1 .. L /\ k <= L
            BY <1>2
        <3>3. indexOf[g] <= indexOf[work[L].node]
            BY <3>1, <3>2, StacksAre
        <3>4. Reaches(g, work[L].node)
            BY <1>1, <1>2, <2>3, <3>2, <3>3 DEF SearchInv
        <3>5. Reaches(work[L].node, p)
            BY <1>1, <1>2, <1>4, <3>2, DependentsGrow DEF Reaches
        <3> QED
            BY <1>1, <2>3, <3>4, <3>5, ReachesTransitive
    <2> QED
        BY <1>1, <2>1, <2>2, <2>3
<1>12. ASSUME NEW x \in OnStack' PROVE \E g \in OnPath' : indexOf'[g] <= indexOf'[x] /\ Reaches(x, g)
    <2>1. CASE x = p
        BY <1>1, <2>1 DEF Reaches
    <2>2. CASE x \in OnStack
        <3>1. PICK g \in OnPath : indexOf[g] <= indexOf[x] /\ Reaches(x, g)
            BY <2>2 DEF SearchInv
        <3> QED
            BY <1>1, <2>2, <3>1
    <2> QED
        BY <1>1, <2>1, <2>2
<1>13. Len(work') = L + 1
    BY VisitIs
<1>14. QED
    BY <1>3, <1>6, <1>7, <1>8, <1>9, <1>10, <1>11, <1>12, <1>13 DEF SearchInv

LEMMA VisitLow ==
    ASSUME StacksInv, SearchInv, LowInv, requires' = requires,
           NEW p \in Plugins \ Visited, NEW below, Below(p, below), Visit(p, below)
    PROVE  LowInv'
<1> SUFFICES ASSUME NEW L, L = Len(work), NEW N, N = Cardinality(Visited) PROVE LowInv'
    OBVIOUS
<1>1. /\ Visited' = Visited \cup {p} /\ N \in Nat /\ indexOf'[p] = N /\ low'[p] = N
      /\ \A v \in Visited : /\ indexOf'[v] = indexOf[v] /\ indexOf[v] < N /\ indexOf[v] \in Nat
                            /\ low'[v] = low[v] /\ low[v] \in Nat
      /\ OnStack' = OnStack \cup {p} /\ OnStack \subseteq Visited /\ p \notin Visited
    BY VisitIs, StacksAre
<1>2. /\ L \in Nat /\ DOMAIN work = 1 .. L /\ DOMAIN work' = 1 .. (L + 1) /\ Len(work') = L + 1
      /\ \A k \in 1 .. L : work'[k].node = work[k].node /\ work[k].node \in OnPath /\ work[k].node \in OnStack
      /\ work'[L + 1].node = p /\ work'[L + 1].succ = Succ(p)
    BY VisitIs, StacksAre
<1>3. \A q, r : Reaches(q, r)' = Reaches(q, r)
    BY GraphKept
<1>4. \A k, x : Looked(k, x)' =
        {y \in Succ(x) : x = work'[k].node =>
            y \notin work'[k].succ /\ (k < L + 1 => y # work'[k + 1].node)}
    BY <1>2, GraphKept DEF Looked
<1>5. \A k : Segment(k)' =
        {x \in OnStack' : /\ indexOf'[work'[k].node] <= indexOf'[x]
                          /\ k < L + 1 => indexOf'[x] < indexOf'[work'[k + 1].node]}
    BY <1>2 DEF Segment
<1>6. ASSUME NEW k \in 1 .. L, NEW x \in Segment(k)', NEW y \in OnStack', y \in Looked(k, x)'
      PROVE  x \in Segment(k) /\ y \in OnStack /\ y \in Looked(k, x)
    <2>1. k < L + 1 /\ (k < L => k + 1 \in 1 .. L) /\ k \in DOMAIN work
        BY <1>2
    <2>2. x \in OnStack /\ x \in Visited
        <3>1. k = L => indexOf'[x] < N
            BY <1>1, <1>2, <1>5, <1>6, <2>1
        <3>2. k < L => indexOf'[x] < indexOf[work[k + 1].node] /\ work[k + 1].node \in Visited
            BY <1>1, <1>2, <1>5, <1>6, <2>1
        <3>3. x # p
            BY <1>1, <1>2, <3>1, <3>2
        <3> QED
            BY <1>1, <1>5, <1>6, <3>3
    <2>3. x \in Segment(k)
        <3>1. indexOf[work[k].node] <= indexOf[x]
            BY <1>1, <1>2, <1>5, <1>6, <2>2
        <3>2. k < L => indexOf[x] < indexOf[work[k + 1].node]
            BY <1>1, <1>2, <1>5, <1>6, <2>1, <2>2
        <3> QED
            BY <2>2, <3>1, <3>2 DEF Segment
    <2>4. x # work[k].node => y \in Looked(k, x) /\ y # p
        <3>1. SUFFICES ASSUME x # work[k].node PROVE y \in Looked(k, x) /\ y # p
            OBVIOUS
        <3>2. x \notin OnPath
            BY <2>3, <3>1, SegmentOffPath
        <3>3. Succ(x) \subseteq Visited /\ y \in Succ(x)
            BY <1>4, <1>6, <2>2, <3>2 DEF SearchInv
        <3> QED
            BY <1>1, <3>1, <3>3 DEF Looked
    <2>5. x = work[k].node => y \in Looked(k, x) /\ y # p
        <3>1. SUFFICES ASSUME x = work[k].node PROVE y \in Looked(k, x) /\ y # p
            OBVIOUS
        <3>2. /\ y \in Succ(x) /\ y \notin work'[k].succ /\ y # work'[k + 1].node
            BY <1>2, <1>4, <1>6, <2>1, <3>1
        <3>3. work'[k].succ = IF k = L THEN work[k].succ \ {p} ELSE work[k].succ
            BY VisitIs, ZenonT(60)
        <3>4. CASE k = L
            <4>1. y # p /\ y \notin work[k].succ
                BY <1>2, <3>2, <3>3, <3>4
            <4> QED
                BY <3>1, <3>2, <3>4, <4>1 DEF Looked
        <3>5. CASE k < L
            <4>1. y \notin work[k].succ /\ y # work[k + 1].node
                BY <1>2, <2>1, <3>2, <3>3, <3>5
            <4>2. y \in Taken(k)
                BY <3>1, <3>2, <4>1 DEF Taken
            <4>3. Taken(k) \subseteq Visited
                BY <2>1 DEF SearchInv
            <4>4. y \in Visited
                BY <4>2, <4>3
            <4> QED
                BY <1>1, <3>1, <3>2, <4>1, <4>4 DEF Looked
        <3> QED
            BY <1>2, <3>4, <3>5
    <2> QED
        BY <1>1, <1>6, <2>3, <2>4, <2>5
<1>7. ASSUME NEW k \in 1 .. L
      PROVE  /\ low'[work'[k].node] <= indexOf'[work'[k].node]
             /\ \E m \in OnStack' : indexOf'[m] = low'[work'[k].node] /\ Reaches(work'[k].node, m)
             /\ \A x \in Segment(k)', y \in OnStack' : y \in Looked(k, x)' => low'[work'[k].node] <= indexOf'[y]
    <2>1. work'[k].node = work[k].node /\ work[k].node \in Visited /\ k \in DOMAIN work
        BY <1>1, <1>2
    <2>2. low[work[k].node] <= indexOf[work[k].node]
        BY <2>1 DEF LowInv
    <2>3. PICK m \in OnStack : indexOf[m] = low[work[k].node] /\ Reaches(work[k].node, m)
        BY <2>1 DEF LowInv
    <2>4. \A x \in Segment(k), y \in OnStack : y \in Looked(k, x) => low[work[k].node] <= indexOf[y]
        BY <2>1 DEF LowInv
    <2>5. \A x \in Segment(k)', y \in OnStack' : y \in Looked(k, x)' => low'[work'[k].node] <= indexOf'[y]
        BY <1>1, <1>6, <2>1, <2>4
    <2>6. m \in OnStack' /\ indexOf'[m] = low'[work'[k].node]
        BY <1>1, <2>1, <2>3
    <2> QED
        BY <1>1, <2>1, <2>2, <2>3, <2>5, <2>6
<1>8. /\ low'[p] <= indexOf'[p]
      /\ \E m \in OnStack' : indexOf'[m] = low'[p] /\ Reaches(p, m)
      /\ \A x \in Segment(L + 1)', y \in OnStack' : y \in Looked(L + 1, x)' => low'[p] <= indexOf'[y]
    <2>1. \A x \in Segment(L + 1)' : x = p
        BY <1>1, <1>2, <1>5
    <2>2. Looked(L + 1, p)' = {}
        BY <1>2, <1>4
    <2> QED
        BY <1>1, <2>1, <2>2 DEF Reaches
<1>9. \A k : /\ low[work[k].node]' = low'[work'[k].node] /\ indexOf[work[k].node]' = indexOf'[work'[k].node]
             /\ \A m : Reaches(work[k].node, m)' = Reaches(work'[k].node, m)
    <2>1. [r \in Plugins |-> Succ(r)]' = [r \in Plugins |-> Succ(r)]
        BY GraphKept
    <2>2. \A k : Dependents(work[k].node)' = Dependents(work'[k].node)
        BY <2>1 DEF Dependents
    <2> QED
        BY <2>2 DEF Reaches
<1>10. QED
    <2>1. \A k \in DOMAIN work' : k \in 1 .. L \/ k = L + 1
        BY <1>2
    <2> QED
        BY <1>2, <1>7, <1>8, <1>9, <2>1, ZenonT(60) DEF LowInv

\* ... and completes no component.
LEMMA VisitStep ==
    ASSUME TarjanInv, UNCHANGED <<requires, components>>,
           NEW p \in Plugins \ Visited, NEW below, Below(p, below), Visit(p, below)
    PROVE  TarjanInv'
<1>1. Settled' = Settled
    <2>1. Visited' = Visited \cup {p} /\ OnStack' = OnStack \cup {p} /\ OnStack \subseteq Visited
        BY VisitIs, StacksAre DEF TarjanInv
    <2> QED
        BY <2>1 DEF Settled
<1>2. OnCycle' = OnCycle /\ \A q : Scc(q)' = Scc(q)
    BY GraphKept DEF Scc
<1>3. FoundInv'
    BY <1>1, <1>2 DEF TarjanInv, FoundInv
<1>4. StacksInv' /\ SearchInv' /\ LowInv'
    BY VisitStacks, VisitSearch, VisitLow DEF TarjanInv
<1>5. QED
    BY <1>3, <1>4 DEF TarjanInv

\* The smaller of two numbers.
LEMMA MinOfTwo ==
    ASSUME NEW a \in Nat, NEW b \in Nat
    PROVE  Min({a, b}) \in {a, b} /\ Min({a, b}) <= a /\ Min({a, b}) <= b
<1>1. \E x \in {a, b} : \A y \in {a, b} : x <= y
    BY a <= b \/ b <= a
<1>2. QED
    BY <1>1 DEF Min

\* The nodes of the path differ, and the last is Top.node.
LEMMA PathIs ==
    ASSUME StacksInv, work # <<>>
    PROVE  /\ Len(work) \in 1 .. Len(work) /\ Len(work) \in Nat /\ Top = work[Len(work)]
           /\ Top.node \in OnPath /\ Top.node \in OnStack /\ Top.node \in Visited /\ Top.node \in Plugins
           /\ \A k, l \in 1 .. Len(work) : k < l =>
                indexOf[work[k].node] < indexOf[work[l].node] /\ work[k].node # work[l].node
<1>1. Len(work) \in 1 .. Len(work) /\ Len(work) \in Nat
    BY EmptySeq, StacksAre DEF StacksInv
<1>2. \A k, l \in 1 .. Len(work) : k < l => indexOf[work[k].node] < indexOf[work[l].node]
    BY StacksAre DEF StacksInv
<1>3. \A k \in 1 .. Len(work) :
        /\ work[k].node \in OnPath /\ work[k].node \in OnStack /\ work[k].node \in Visited
        /\ work[k].node \in Plugins /\ indexOf[work[k].node] \in Nat
    BY StacksAre
<1>4. ASSUME NEW k \in 1 .. Len(work), NEW l \in 1 .. Len(work), k < l PROVE work[k].node # work[l].node
    <2>1. indexOf[work[k].node] < indexOf[work[l].node]
        BY <1>2, <1>4
    <2>2. indexOf[work[k].node] \in Nat
        BY <1>3
    <2> QED
        BY <2>1, <2>2
<1>5. QED
    BY <1>1, <1>2, <1>3, <1>4 DEF Top

\* The path when a successor of its last node is taken.
Popped(nxt) == [work EXCEPT ![Len(work)].succ = @ \ {nxt}]

LEMMA PoppedIs ==
    ASSUME StacksInv, work # <<>>, NEW nxt
    PROVE  /\ Popped(nxt) \in Seq([node : Visited, succ : SUBSET Plugins]) /\ Len(Popped(nxt)) = Len(work)
           /\ \A k \in 1 .. Len(work) :
                 /\ Popped(nxt)[k].node = work[k].node
                 /\ Popped(nxt)[k].succ = IF k = Len(work) THEN work[k].succ \ {nxt} ELSE work[k].succ
<1>1. Len(work) \in 1 .. Len(work) /\ work \in Seq([node : Visited, succ : SUBSET Plugins])
    BY PathIs DEF StacksInv
<1> DEFINE frame == [work[Len(work)] EXCEPT !.succ = @ \ {nxt}]
<1>2. /\ frame \in [node : Visited, succ : SUBSET Plugins]
      /\ frame.node = work[Len(work)].node /\ frame.succ = work[Len(work)].succ \ {nxt}
    <2>1. work[Len(work)] \in [node : Visited, succ : SUBSET Plugins]
        BY <1>1, ElementOfSeq
    <2> QED
        BY <2>1
<1>3. Popped(nxt) = [work EXCEPT ![Len(work)] = frame]
    BY DEF Popped
<1> HIDE DEF frame
<1>4. /\ Popped(nxt) \in Seq([node : Visited, succ : SUBSET Plugins]) /\ Len(Popped(nxt)) = Len(work)
      /\ \A k \in 1 .. Len(work) : Popped(nxt)[k] = IF k = Len(work) THEN frame ELSE work[k]
    BY <1>1, <1>2, <1>3, ExceptSeq
<1>5. ASSUME NEW k \in 1 .. Len(work)
      PROVE  /\ Popped(nxt)[k].node = work[k].node
             /\ Popped(nxt)[k].succ = IF k = Len(work) THEN work[k].succ \ {nxt} ELSE work[k].succ
    <2>1. CASE k = Len(work)
        BY <1>2, <1>4, <2>1
    <2>2. CASE k # Len(work)
        BY <1>4, <2>2
    <2> QED
        BY <2>1, <2>2
<1>6. QED
    BY <1>4, <1>5

\* A successor that was visited changes the low link at most.
Noted(nxt) ==
    /\ work # <<>> /\ nxt \in Top.succ /\ nxt \in Visited
    /\ work' = Popped(nxt) /\ low' = LowLink(nxt)
    /\ UNCHANGED <<requires, components, indexOf, stack>>

\* A noted successor leaves the work at the top, ...
LEMMA NotedIs ==
    ASSUME StacksInv, NEW nxt, Noted(nxt)
    PROVE  /\ Len(work') = Len(work) /\ DOMAIN work' = DOMAIN work
           /\ work' \in Seq([node : Visited, succ : SUBSET Plugins])
           /\ \A k \in 1 .. Len(work) :
                 /\ work'[k].node = work[k].node
                 /\ work'[k].succ = IF k = Len(work) THEN work[k].succ \ {nxt} ELSE work[k].succ
           /\ low' \in [Visited -> Nat]
           /\ \A v \in Visited : v # Top.node => low'[v] = low[v]
           /\ low'[Top.node] <= low[Top.node]
           /\ low'[Top.node] = low[Top.node] \/ (nxt \in OnStack /\ low'[Top.node] = indexOf[nxt])
           /\ nxt \in OnStack => low'[Top.node] <= indexOf[nxt]
           /\ Visited' = Visited /\ OnStack' = OnStack /\ OnPath' = OnPath
<1>1. Len(work) \in 1 .. Len(work) /\ Top = work[Len(work)] /\ Top.node \in Visited
    BY PathIs DEF Noted
<1>2. work \in Seq([node : Visited, succ : SUBSET Plugins])
    BY DEF StacksInv
<1>5. /\ work' \in Seq([node : Visited, succ : SUBSET Plugins]) /\ Len(work') = Len(work)
      /\ \A k \in 1 .. Len(work) :
            /\ work'[k].node = work[k].node
            /\ work'[k].succ = IF k = Len(work) THEN work[k].succ \ {nxt} ELSE work[k].succ
    BY PoppedIs DEF Noted
<1>6. DOMAIN work' = 1 .. Len(work) /\ DOMAIN work = 1 .. Len(work)
    BY <1>2, <1>5, LenProperties
<1>8. Visited' = Visited /\ OnStack' = OnStack
    BY DEF Noted, Visited, OnStack
<1>9. OnPath' = OnPath
    BY <1>5, <1>6 DEF OnPath
<1>10. /\ low' \in [Visited -> Nat] /\ \A v \in Visited : v # Top.node => low'[v] = low[v]
       /\ low'[Top.node] <= low[Top.node]
       /\ low'[Top.node] = low[Top.node] \/ (nxt \in OnStack /\ low'[Top.node] = indexOf[nxt])
       /\ nxt \in OnStack => low'[Top.node] <= indexOf[nxt]
    <2>1. low \in [Visited -> Nat] /\ low[Top.node] \in Nat /\ indexOf[nxt] \in Nat /\ nxt \in Visited
        BY <1>1 DEF StacksInv, Noted
    <2>2. (\E i \in DOMAIN stack : stack[i] = nxt) <=> nxt \in OnStack
        BY DEF OnStack
    <2>3. low' = IF nxt \in OnStack THEN [low EXCEPT ![Top.node] = Min({low[Top.node], indexOf[nxt]})] ELSE low
        BY <2>2 DEF Noted, LowLink
    <2> DEFINE m == Min({low[Top.node], indexOf[nxt]})
    <2>4. m \in {low[Top.node], indexOf[nxt]} /\ m <= low[Top.node] /\ m <= indexOf[nxt] /\ m \in Nat
        BY <2>1, MinOfTwo
    <2>5. CASE nxt \in OnStack
        <3>1. low' = [low EXCEPT ![Top.node] = m]
            BY <2>3, <2>5
        <3> HIDE DEF m
        <3> QED
            BY <1>1, <2>1, <2>4, <2>5, <3>1
    <2>6. CASE nxt \notin OnStack
        BY <1>1, <2>1, <2>3, <2>6
    <2> QED
        BY <2>5, <2>6
<1>11. QED
    BY <1>5, <1>6, <1>8, <1>9, <1>10

\* ... and is accounted for by the low link when it is on the stack.
LEMMA NotedStep ==
    ASSUME TarjanInv, NEW nxt, Noted(nxt)
    PROVE  TarjanInv'
<1> USE DEF TarjanInv
<1> SUFFICES ASSUME NEW L, L = Len(work), NEW n, n = Top.node PROVE TarjanInv'
    OBVIOUS
<1>1. /\ requires' = requires /\ components' = components /\ indexOf' = indexOf /\ stack' = stack
      /\ work # <<>> /\ nxt \in Visited /\ nxt \in Top.succ
    BY DEF Noted
<1>2. /\ L \in Nat /\ L \in 1 .. L /\ DOMAIN work = 1 .. L /\ DOMAIN work' = 1 .. L /\ Len(work') = L
      /\ \A k \in 1 .. L : /\ work'[k].node = work[k].node
                           /\ work'[k].succ = IF k = L THEN work[k].succ \ {nxt} ELSE work[k].succ
                           /\ work[k].node \in Visited
      /\ Visited' = Visited /\ OnStack' = OnStack /\ OnPath' = OnPath /\ OnPath \subseteq OnStack
      /\ work[L].node = n /\ n \in OnPath /\ n \in OnStack /\ n \in Visited /\ nxt \in work[L].succ
      /\ OnStack \subseteq Visited
    BY <1>1, NotedIs, PathIs, StacksAre, ZenonT(60)
<1>3. /\ low' \in [Visited -> Nat] /\ low \in [Visited -> Nat] /\ indexOf \in [Visited -> Nat]
      /\ \A v \in Visited : v # n => low'[v] = low[v]
      /\ low'[n] <= low[n] /\ low'[n] \in Nat /\ low[n] \in Nat
      /\ low'[n] = low[n] \/ (nxt \in OnStack /\ low'[n] = indexOf[nxt])
      /\ nxt \in OnStack => low'[n] <= indexOf[nxt]
    BY <1>2, NotedIs DEF StacksInv
<1>4. /\ \A k : Succ(work[k].node)' = Succ(work'[k].node)
      /\ \A q : Succ(q)' = Succ(q)
      /\ \A q, r : Reaches(q, r)' = Reaches(q, r)
      /\ \A q : Scc(q)' = Scc(q)
      /\ OnCycle' = OnCycle
    BY <1>1, GraphKept DEF Succ, Scc
<1>5. \A k \in 1 .. L : work[k].succ \subseteq Succ(work[k].node)
    BY <1>2 DEF StacksInv
<1>6. \A k \in 1 .. L : Taken(k)' = IF k = L THEN Taken(k) \cup {nxt} ELSE Taken(k)
    <2>1. ASSUME NEW k \in 1 .. L PROVE Taken(k)' = Succ(work[k].node) \ work'[k].succ
        BY <1>2, <1>4 DEF Taken
    <2> QED
        BY <1>2, <1>5, <2>1 DEF Taken
<1>7. StacksInv'
    <2>1. \A k, l \in DOMAIN work' : k < l => indexOf'[work'[k].node] < indexOf'[work'[l].node]
        BY <1>1, <1>2 DEF StacksInv
    <2>2. \A k \in DOMAIN work' : work'[k].succ \subseteq Succ(work[k].node)'
        BY <1>2, <1>4, <1>5
    <2>3. work' \in Seq([node : Visited', succ : SUBSET Plugins])
        BY <1>2, NotedIs
    <2> QED
        BY <1>1, <1>2, <1>3, <2>1, <2>2, <2>3 DEF StacksInv
<1>8. Settled' = Settled
    BY <1>2 DEF Settled
<1>9. SearchInv'
    <2>1. \A k \in DOMAIN work' : Taken(k)' \subseteq Visited'
        BY <1>1, <1>2, <1>6 DEF SearchInv
    <2>2. ASSUME NEW k \in DOMAIN work', k < Len(work') PROVE work'[k + 1].node \in Taken(k)'
        <3>1. k \in 1 .. L /\ k < L /\ k + 1 \in 1 .. L
            BY <1>2, <2>2
        <3>2. work[k + 1].node \in Taken(k)
            BY <1>2, <3>1 DEF SearchInv
        <3> QED
            BY <1>2, <1>6, <3>1, <3>2
    <2>3. \A v \in Visited' \ OnPath' : Succ(v)' \subseteq Visited'
        BY <1>2, <1>4 DEF SearchInv
    <2>4. \A v \in Settled' : Succ(v)' \subseteq Settled'
        BY <1>4, <1>8 DEF SearchInv
    <2>5. \A g \in OnPath', x \in OnStack' : indexOf'[g] <= indexOf'[x] => Reaches(g, x)'
        BY <1>1, <1>2, <1>4 DEF SearchInv
    <2>6. \A x \in OnStack' : \E g \in OnPath' : indexOf'[g] <= indexOf'[x] /\ Reaches(x, g)'
        BY <1>1, <1>2, <1>4 DEF SearchInv
    <2> QED
        BY <2>1, <2>2, <2>3, <2>4, <2>5, <2>6 DEF SearchInv
<1>10. FoundInv'
    BY <1>1, <1>4, <1>8 DEF FoundInv
<1>11. \A k \in 1 .. L : Segment(k)' = Segment(k)
    <2>1. ASSUME NEW k \in 1 .. L PROVE Segment(k)' = Segment(k)
        <3>1. k < L => k + 1 \in 1 .. L
            BY <1>2
        <3> QED
            BY <1>1, <1>2, <3>1 DEF Segment
    <2> QED
        BY <2>1
<1>12. ASSUME NEW k \in 1 .. L, NEW x, NEW y \in Looked(k, x)'
       PROVE  y \in Looked(k, x) \/ (k = L /\ y = nxt)
    <2>1. y \in Succ(x) /\ (x = work'[k].node => y \notin work'[k].succ /\ (k < L => y # work'[k + 1].node))
        BY <1>2, <1>4 DEF Looked
    <2>2. k < L => k + 1 \in 1 .. L
        BY <1>2
    <2> QED
        BY <1>2, <2>1, <2>2 DEF Looked
<1>13. ASSUME NEW k \in DOMAIN work'
       PROVE  /\ low'[work'[k].node] <= indexOf'[work'[k].node]
              /\ \E m \in OnStack' : indexOf'[m] = low'[work'[k].node] /\ Reaches(work'[k].node, m)
              /\ \A x \in Segment(k)', y \in OnStack' : y \in Looked(k, x)' => low'[work'[k].node] <= indexOf'[y]
    <2>1. k \in 1 .. L /\ work'[k].node = work[k].node /\ work[k].node \in Visited
        BY <1>2
    <2>2. low[work[k].node] <= indexOf[work[k].node]
        BY <1>2, <2>1 DEF LowInv
    <2>3. PICK m \in OnStack : indexOf[m] = low[work[k].node] /\ Reaches(work[k].node, m)
        BY <1>2, <2>1 DEF LowInv
    <2>4. \A x \in Segment(k), y \in OnStack : y \in Looked(k, x) => low[work[k].node] <= indexOf[y]
        BY <1>2, <2>1 DEF LowInv
    <2>5. CASE k # L
        <3>1. work[k].node # n /\ low'[work[k].node] = low[work[k].node]
            <4>1. k < L
                BY <1>2, <2>1, <2>5
            <4> QED
                BY <1>1, <1>2, <1>3, <2>1, <4>1, PathIs
        <3> QED
            BY <1>1, <1>2, <1>11, <1>12, <2>1, <2>2, <2>3, <2>4, <2>5, <3>1
    <2>6. CASE k = L
        <3>1. work'[k].node = n /\ work[k].node = n
            BY <1>2, <2>6
        <3>2. low'[n] <= indexOf[n]
            BY <1>2, <1>3, <2>2, <3>1
        <3>3. \E z \in OnStack : indexOf[z] = low'[n] /\ Reaches(n, z)
            <4>1. CASE low'[n] = low[n]
                BY <2>3, <3>1, <4>1
            <4>2. CASE nxt \in OnStack /\ low'[n] = indexOf[nxt]
                <5>1. nxt \in Succ(n) /\ n \in Plugins
                    BY <1>1, <1>2, <1>5, PathIs
                <5> QED
                    BY <4>2, <5>1, DependentsGrow DEF Reaches
            <4> QED
                BY <1>3, <4>1, <4>2
        <3>4. ASSUME NEW x \in Segment(k)', NEW y \in OnStack', y \in Looked(k, x)' PROVE low'[n] <= indexOf[y]
            <4>1. y \in OnStack /\ indexOf[y] \in Nat /\ x \in Segment(k)
                BY <1>2, <1>3, <1>11, <2>1
            <4>2. y \in Looked(k, x) \/ y = nxt
                BY <1>12, <2>1, <3>4
            <4>3. CASE y \in Looked(k, x)
                <5>1. low[n] <= indexOf[y]
                    BY <2>4, <3>1, <4>1, <4>3
                <5> QED
                    BY <1>3, <4>1, <5>1
            <4>4. CASE y = nxt
                BY <1>3, <4>1, <4>4
            <4> QED
                BY <4>2, <4>3, <4>4
        <3> QED
            BY <1>1, <1>2, <3>1, <3>2, <3>3, <3>4
    <2> QED
        BY <2>5, <2>6
<1>14. LowInv'
    <2>1. /\ \A k : low[work[k].node]' = low'[work'[k].node] /\ indexOf[work[k].node]' = indexOf'[work'[k].node]
          /\ \A k, m : Reaches(work[k].node, m)' = Reaches(work'[k].node, m)
        <3>1. [r \in Plugins |-> Succ(r)]' = [r \in Plugins |-> Succ(r)]
            BY <1>4
        <3>2. \A k : Dependents(work[k].node)' = Dependents(work'[k].node)
            BY <3>1 DEF Dependents
        <3> QED
            BY <3>2 DEF Reaches
    <2> QED
        BY <1>13, <2>1 DEF LowInv
<1>15. QED
    BY <1>7, <1>9, <1>10, <1>14

\* Where the successors of the last node are all taken, the last segment has no others.
LEMMA LastSegment ==
    ASSUME StacksInv, SearchInv, work # <<>>, Top.succ = {}
    PROVE  /\ \A x \in Segment(Len(work)) :
                 /\ Succ(x) \subseteq Visited
                 /\ \A y \in Succ(x) : y \in Looked(Len(work), x)
           /\ Segment(Len(work)) = {x \in OnStack : indexOf[Top.node] <= indexOf[x]}
           /\ Top.node \in Segment(Len(work))
<1> SUFFICES ASSUME NEW L, L = Len(work), NEW n, n = Top.node
             PROVE  /\ \A x \in Segment(L) : Succ(x) \subseteq Visited /\ \A y \in Succ(x) : y \in Looked(L, x)
                    /\ Segment(L) = {x \in OnStack : indexOf[n] <= indexOf[x]}
                    /\ n \in Segment(L)
    OBVIOUS
<1>1. /\ L \in Nat /\ L \in 1 .. L /\ DOMAIN work = 1 .. L /\ work[L].node = n /\ work[L].succ = {}
      /\ n \in OnStack /\ indexOf[n] \in Nat /\ OnStack \subseteq Visited
    BY PathIs, StacksAre
<1>2. Segment(L) = {x \in OnStack : indexOf[n] <= indexOf[x]}
    BY <1>1 DEF Segment
<1>3. ASSUME NEW x \in Segment(L) PROVE Succ(x) \subseteq Visited /\ \A y \in Succ(x) : y \in Looked(L, x)
    <2>1. CASE x = n
        <3>1. Taken(L) = Succ(n) /\ Taken(L) \subseteq Visited
            BY <1>1 DEF Taken, SearchInv
        <3> QED
            BY <1>1, <2>1, <3>1 DEF Looked
    <2>2. CASE x # n
        <3>1. x \in Visited \ OnPath
            BY <1>1, <1>2, <2>2, SegmentOffPath
        <3>2. Succ(x) \subseteq Visited
            BY <3>1 DEF SearchInv
        <3> QED
            BY <1>1, <2>2, <3>2 DEF Looked
    <2> QED
        BY <2>1, <2>2
<1>4. QED
    BY <1>1, <1>2, <1>3

\* When its low link is its own index, its segment is the plugins on a cycle with it.
LEMMA SegmentIsComponent ==
    ASSUME StacksInv, SearchInv, LowInv, work # <<>>, Top.succ = {}, low[Top.node] = indexOf[Top.node],
           NEW C, C = Segment(Len(work))
    PROVE  /\ \A x \in C : Succ(x) \subseteq C \cup Settled
           /\ \A x \in C : Reaches(x, Top.node) /\ Reaches(Top.node, x)
           /\ \A x \in C, q \in Plugins : Reaches(x, q) /\ Reaches(q, x) => q \in C
<1> SUFFICES ASSUME NEW L, L = Len(work), NEW n, n = Top.node
             PROVE  /\ \A x \in C : Succ(x) \subseteq C \cup Settled
                    /\ \A x \in C : Reaches(x, n) /\ Reaches(n, x)
                    /\ \A x \in C, q \in Plugins : Reaches(x, q) /\ Reaches(q, x) => q \in C
    OBVIOUS
<1>1. /\ L \in Nat /\ L \in 1 .. L /\ DOMAIN work = 1 .. L /\ work[L].node = n
      /\ n \in OnStack /\ n \in OnPath /\ indexOf[n] \in Nat /\ OnStack \subseteq Visited /\ OnPath \subseteq OnStack
      /\ Visited \subseteq Plugins /\ n \in Plugins
      /\ \A v \in Visited : indexOf[v] \in Nat
    BY PathIs, StacksAre
<1>2. C = {x \in OnStack : indexOf[n] <= indexOf[x]} /\ n \in C
    BY LastSegment
<1>3. ASSUME NEW x \in C PROVE Succ(x) \subseteq C \cup Settled
    <2>1. SUFFICES ASSUME NEW y \in Succ(x), y \in OnStack PROVE y \in C
        BY LastSegment DEF Settled
    <2>2. low[n] <= indexOf[y]
        BY <1>1, <2>1, LastSegment DEF LowInv
    <2> QED
        BY <1>2, <2>1, <2>2
<1>4. \A x \in Settled : Succ(x) \subseteq C \cup Settled
    BY DEF SearchInv
<1>5. ASSUME NEW x \in C \cup Settled, NEW q, Reaches(x, q) PROVE q \in C \cup Settled
    <2>1. x \in Plugins
        BY <1>1, <1>2 DEF Settled
    <2>2. Dependents(x) \subseteq C \cup Settled
        BY <1>3, <1>4, <2>1, DependentsLeast
    <2> QED
        BY <1>5, <2>2 DEF Reaches
<1>6. C \cap Settled = {}
    BY <1>2 DEF Settled
<1>7. ASSUME NEW x \in C PROVE Reaches(x, n) /\ Reaches(n, x)
    <2>1. PICK g \in OnPath : indexOf[g] <= indexOf[x] /\ Reaches(x, g)
        BY <1>2 DEF SearchInv
    <2>2. g \in C
        BY <1>1, <1>5, <2>1 DEF Settled
    <2>3. g = n
        BY <1>1, <2>2, SegmentOffPath
    <2>4. Reaches(n, x)
        BY <1>1, <1>2 DEF SearchInv
    <2> QED
        BY <2>1, <2>3, <2>4
<1>8. ASSUME NEW x \in C, NEW q \in Plugins, Reaches(x, q), Reaches(q, x) PROVE q \in C
    <2>1. SUFFICES ASSUME q \in Settled PROVE FALSE
        BY <1>5, <1>8
    <2>2. Dependents(q) \subseteq Settled
        <3>1. \A v \in Settled : Succ(v) \subseteq Settled
            BY DEF SearchInv
        <3> QED
            BY <2>1, <3>1, DependentsLeast
    <2> QED
        BY <1>6, <1>8, <2>1, <2>2 DEF Reaches
<1>9. QED
    BY <1>3, <1>7, <1>8

\* What PopWork does to the path.
LEMMA PopIs ==
    ASSUME StacksInv, PopWork
    PROVE  /\ Len(work') = Len(work) - 1 /\ DOMAIN work' = 1 .. (Len(work) - 1)
           /\ \A k \in 1 .. (Len(work) - 1) : work'[k] = work[k]
           /\ work' \in Seq([node : Visited, succ : SUBSET Plugins])
           /\ OnPath' = OnPath \ {Top.node}
           /\ low' \in [Visited -> Nat]
           /\ \A v \in Visited : Len(work) = 1 \/ v # work[Len(work) - 1].node => low'[v] = low[v]
           /\ Len(work) > 1 =>
                LET p == work[Len(work) - 1].node
                IN  low'[p] \in {low[p], low[Top.node]} /\ low'[p] <= low[p] /\ low'[p] <= low[Top.node]
<1> SUFFICES ASSUME NEW L, L = Len(work), NEW n, n = Top.node
             PROVE  /\ Len(work') = L - 1 /\ DOMAIN work' = 1 .. (L - 1)
                    /\ \A k \in 1 .. (L - 1) : work'[k] = work[k]
                    /\ work' \in Seq([node : Visited, succ : SUBSET Plugins])
                    /\ OnPath' = OnPath \ {n}
                    /\ low' \in [Visited -> Nat]
                    /\ \A v \in Visited : L = 1 \/ v # work[L - 1].node => low'[v] = low[v]
                    /\ L > 1 => LET p == work[L - 1].node
                                IN  low'[p] \in {low[p], low[n]} /\ low'[p] <= low[p] /\ low'[p] <= low[n]
    OBVIOUS
<1> DEFINE rest == SubSeq(work, 1, L - 1)
<1>1. /\ work' = rest
      /\ low' = IF rest = <<>> THEN low
                ELSE [low EXCEPT ![rest[Len(rest)].node] = Min({low[rest[Len(rest)].node], low[n]})]
    BY DEF PopWork
<1>2. /\ L \in Nat /\ L \in 1 .. L /\ DOMAIN work = 1 .. L /\ work[L].node = n
      /\ work \in Seq([node : Visited, succ : SUBSET Plugins]) /\ n \in Visited
      /\ \A k \in 1 .. L : work[k].node \in Visited
      /\ \A k, l \in 1 .. L : k < l => work[k].node # work[l].node
    BY PathIs, StacksAre DEF StacksInv, PopWork
<1>3. /\ rest \in Seq([node : Visited, succ : SUBSET Plugins]) /\ Len(rest) = L - 1
      /\ \A k \in 1 .. (L - 1) : rest[k] = work[k]
    <2>1. ASSUME NEW k \in 1 .. (L - 1) PROVE work[k] \in [node : Visited, succ : SUBSET Plugins]
        <3>1. k \in 1 .. Len(work)
            BY <1>2
        <3> QED
            BY <1>2, <3>1, ElementOfSeq
    <2> QED
        BY <1>2, <2>1, SubSeqProperties
<1>4. DOMAIN rest = 1 .. (L - 1) /\ (rest = <<>> <=> L = 1)
    <2>1. DOMAIN rest = 1 .. (L - 1)
        BY <1>3, LenProperties
    <2>2. rest = <<>> => Len(rest) = 0
        OBVIOUS
    <2>3. rest # <<>> => Len(rest) \in Nat \ {0}
        BY <1>3, EmptySeq
    <2> HIDE DEF rest
    <2> QED
        BY <1>2, <1>3, <2>1, <2>2, <2>3
<1> HIDE DEF rest
<1>5. OnPath' = OnPath \ {n}
    <2>1. \A k \in 1 .. L : k \in 1 .. (L - 1) \/ k = L
        BY <1>2
    <2>2. \A k \in 1 .. (L - 1) : k \in 1 .. L /\ work[k].node # n
        BY <1>2
    <2>3. DOMAIN work' = 1 .. (L - 1) /\ \A k \in 1 .. (L - 1) : work'[k] = work[k]
        BY <1>1, <1>3, <1>4
    <2>4. ASSUME NEW x \in OnPath, x # n PROVE x \in OnPath'
        <3>1. PICK k \in 1 .. L : x = work[k].node
            BY <1>2 DEF OnPath
        <3>2. k \in 1 .. (L - 1)
            BY <1>2, <2>1, <2>4, <3>1
        <3> QED
            BY <2>3, <3>1, <3>2 DEF OnPath
    <2>5. ASSUME NEW x \in OnPath' PROVE x \in OnPath /\ x # n
        <3>1. PICK k \in 1 .. (L - 1) : x = work'[k].node
            BY <2>3, <2>5 DEF OnPath
        <3> QED
            BY <1>2, <2>2, <2>3, <3>1 DEF OnPath
    <2> QED
        BY <2>4, <2>5
<1>6. /\ low' \in [Visited -> Nat]
      /\ \A v \in Visited : L = 1 \/ v # work[L - 1].node => low'[v] = low[v]
      /\ L > 1 => LET p == work[L - 1].node
                  IN  low'[p] \in {low[p], low[n]} /\ low'[p] <= low[p] /\ low'[p] <= low[n]
    <2>1. low \in [Visited -> Nat] /\ low[n] \in Nat
        BY <1>2 DEF StacksInv
    <2>2. CASE L = 1
        BY <1>1, <1>4, <2>1, <2>2
    <2>3. CASE L > 1
        <3> DEFINE p == work[L - 1].node
                   m == Min({low[p], low[n]})
        <3>1. rest[Len(rest)].node = p /\ p \in Visited
            BY <1>2, <1>3, <2>3
        <3>2. low[p] \in Nat /\ m \in {low[p], low[n]} /\ m <= low[p] /\ m <= low[n] /\ m \in Nat
            <4>1. low[p] \in Nat
                BY <2>1, <3>1
            <4>2. m \in {low[p], low[n]} /\ m <= low[p] /\ m <= low[n]
                BY <2>1, <4>1, MinOfTwo, Zenon
            <4> QED
                BY <2>1, <4>1, <4>2
        <3>3. low' = [low EXCEPT ![p] = m]
            BY <1>1, <1>4, <2>3, <3>1
        <3> HIDE DEF m, p
        <3>4. low' \in [Visited -> Nat] /\ low'[p] = m /\ \A v \in Visited : v # p => low'[v] = low[v]
            BY <2>1, <3>1, <3>2, <3>3
        <3> QED
            BY <2>3, <3>2, <3>4 DEF p
    <2> QED
        BY <1>2, <2>2, <2>3
<1>7. QED
    BY <1>1, <1>3, <1>4, <1>5, <1>6

\* ... and to the stack: a component that is complete is taken from it.
LEMMA CutIs ==
    ASSUME StacksInv, SearchInv, PopWork, low[Top.node] = indexOf[Top.node], NEW C, C = Segment(Len(work))
    PROVE  /\ stack' \in Seq(Visited) /\ OnStack' = OnStack \ C /\ Len(stack') <= Len(stack)
           /\ \A i \in DOMAIN stack' : i \in DOMAIN stack /\ stack'[i] = stack[i]
           /\ components' = IF Cardinality(C) > 1 \/ Top.node \in Succ(Top.node) THEN components \cup {C} ELSE components
<1> SUFFICES ASSUME NEW n, n = Top.node
             PROVE  /\ stack' \in Seq(Visited) /\ OnStack' = OnStack \ C /\ Len(stack') <= Len(stack)
                    /\ \A i \in DOMAIN stack' : i \in DOMAIN stack /\ stack'[i] = stack[i]
                    /\ components' = IF Cardinality(C) > 1 \/ n \in Succ(n) THEN components \cup {C} ELSE components
    OBVIOUS
<1> DEFINE bottom == CHOOSE i \in DOMAIN stack : stack[i] = n
           component == {stack[i] : i \in bottom .. Len(stack)}
<1>1. /\ stack' = SubSeq(stack, 1, bottom - 1)
      /\ components' = IF Cardinality(component) > 1 \/ n \in Succ(n) THEN components \cup {component} ELSE components
    BY DEF PopWork
<1>2. /\ n \in OnStack /\ indexOf[n] \in Nat /\ stack \in Seq(Visited)
      /\ Len(stack) \in Nat /\ DOMAIN stack = 1 .. Len(stack)
      /\ \A i \in 1 .. Len(stack) : stack[i] \in Visited /\ indexOf[stack[i]] \in Nat
      /\ \A i, j \in 1 .. Len(stack) : i < j => indexOf[stack[i]] < indexOf[stack[j]]
    <2>1. n \in OnStack /\ indexOf[n] \in Nat
        BY PathIs, StacksAre DEF PopWork
    <2>2. stack \in Seq(Visited) /\ DOMAIN stack = 1 .. Len(stack) /\ Len(stack) \in Nat
        BY StacksAre DEF StacksInv
    <2>3. \A i \in 1 .. Len(stack) : stack[i] \in Visited /\ indexOf[stack[i]] \in Nat
        BY <2>2, StacksAre, ElementOfSeq
    <2> QED
        BY <2>1, <2>2, <2>3 DEF StacksInv
<1>3. bottom \in 1 .. Len(stack) /\ stack[bottom] = n
    BY <1>2 DEF OnStack
<1> HIDE DEF bottom
<1>4. C = {x \in OnStack : indexOf[n] <= indexOf[x]}
    BY LastSegment DEF PopWork
<1>5. \A i \in 1 .. Len(stack) : indexOf[n] <= indexOf[stack[i]] <=> bottom <= i
    <2>1. ASSUME NEW i \in 1 .. Len(stack) PROVE indexOf[n] <= indexOf[stack[i]] <=> bottom <= i
        <3>1. i < bottom => indexOf[stack[i]] < indexOf[n]
            BY <1>2, <1>3
        <3>2. bottom < i => indexOf[n] < indexOf[stack[i]]
            BY <1>2, <1>3
        <3>3. i < bottom \/ bottom < i \/ i = bottom
            BY <1>2, <1>3
        <3>4. indexOf[stack[i]] \in Nat /\ indexOf[n] \in Nat /\ i \in Nat /\ bottom \in Nat
            BY <1>2, <1>3
        <3>5. i = bottom => indexOf[stack[i]] = indexOf[n]
            BY <1>3
        <3> QED
            BY <3>1, <3>2, <3>3, <3>4, <3>5
    <2> QED
        BY <2>1
<1>6. component = C
    <2>1. \A i : i \in bottom .. Len(stack) <=> i \in 1 .. Len(stack) /\ bottom <= i
        BY <1>2, <1>3
    <2> QED
        BY <1>2, <1>4, <1>5, <2>1 DEF OnStack
<1>7. /\ stack' \in Seq(Visited) /\ Len(stack') = bottom - 1
      /\ \A i \in 1 .. (bottom - 1) : stack'[i] = stack[i]
    <2>1. \A i \in 1 .. (bottom - 1) : stack[i] \in Visited
        BY <1>2, <1>3
    <2> QED
        BY <1>1, <1>2, <1>3, <2>1, SubSeqProperties
<1>8. DOMAIN stack' = 1 .. (bottom - 1)
    BY <1>7, LenProperties
<1>9. \A i : i \in 1 .. (bottom - 1) <=> i \in 1 .. Len(stack) /\ ~(bottom <= i)
    BY <1>2, <1>3
<1>10. OnStack' = OnStack \ C
    BY <1>2, <1>4, <1>5, <1>7, <1>8, <1>9 DEF OnStack
<1> HIDE DEF component
<1>11. QED
    BY <1>1, <1>2, <1>3, <1>6, <1>7, <1>8, <1>9, <1>10

\* What both outcomes of PopWork have in common.
LEMMA PopCommon ==
    ASSUME StacksInv, SearchInv, PopWork, NEW L, L = Len(work), NEW n, n = Top.node
    PROVE  /\ requires' = requires /\ indexOf' = indexOf /\ Visited' = Visited
           /\ L \in Nat /\ L \in 1 .. L /\ DOMAIN work = 1 .. L /\ DOMAIN work' = 1 .. (L - 1) /\ Len(work') = L - 1
           /\ \A k \in 1 .. (L - 1) :
                 /\ k \in 1 .. L /\ k + 1 \in 1 .. L
                 /\ work'[k] = work[k] /\ Taken(k)' = Taken(k)
                 /\ work[k].node # n /\ indexOf[work[k].node] < indexOf[n]
           /\ \A k \in 1 .. L : work[k].node \in OnPath /\ work[k].node \in Visited
           /\ work[L].node = n /\ n \in OnPath /\ n \in OnStack /\ n \in Visited /\ n \in Plugins
           /\ OnPath \subseteq OnStack /\ OnStack \subseteq Visited /\ Visited \subseteq Plugins
           /\ OnPath' = OnPath \ {n}
           /\ \A v \in Visited : indexOf[v] \in Nat /\ low[v] \in Nat /\ low'[v] \in Nat
           /\ \A v \in Visited \ OnPath' : Succ(v) \subseteq Visited
           /\ \A q : Succ(q)' = Succ(q)
           /\ \A q, r : Reaches(q, r)' = Reaches(q, r)
           /\ \A q : Scc(q)' = Scc(q)
           /\ OnCycle' = OnCycle
<1>1. requires' = requires /\ indexOf' = indexOf /\ Visited' = Visited
    BY DEF PopWork, Visited
<1>2. /\ L \in Nat /\ L \in 1 .. L /\ DOMAIN work = 1 .. L /\ DOMAIN work' = 1 .. (L - 1) /\ Len(work') = L - 1
      /\ \A k \in 1 .. (L - 1) : work'[k] = work[k]
      /\ \A k \in 1 .. L : work[k].node \in OnPath /\ work[k].node \in Visited
      /\ work[L].node = n /\ n \in OnPath /\ n \in OnStack /\ n \in Visited /\ n \in Plugins
      /\ OnPath \subseteq OnStack /\ OnStack \subseteq Visited
      /\ OnPath' = OnPath \ {n}
    BY PathIs, PopIs, StacksAre DEF PopWork
<1>3. Visited \subseteq Plugins /\ \A v \in Visited : indexOf[v] \in Nat /\ low[v] \in Nat /\ low'[v] \in Nat
    BY PopIs, StacksAre
<1>4. /\ \A q : Succ(q)' = Succ(q)
      /\ \A q, r : Reaches(q, r)' = Reaches(q, r)
      /\ \A q : Scc(q)' = Scc(q)
      /\ OnCycle' = OnCycle
    BY <1>1, GraphKept DEF Scc
<1>5. ASSUME NEW k \in 1 .. (L - 1)
      PROVE  /\ k \in 1 .. L /\ k + 1 \in 1 .. L
             /\ Taken(k)' = Taken(k)
             /\ work[k].node # n /\ indexOf[work[k].node] < indexOf[n]
    <2>1. k \in 1 .. L /\ k + 1 \in 1 .. L /\ k < L
        BY <1>2
    <2>2. Succ(work[k].node)' = Succ(work[k].node)
        BY <1>1, <1>2, GraphKept DEF Succ
    <2>3. Taken(k)' = Taken(k)
        BY <1>2, <2>2 DEF Taken
    <2> QED
        BY <1>2, <2>1, <2>3, PathIs DEF PopWork
<1>6. ASSUME NEW v \in Visited \ OnPath' PROVE Succ(v) \subseteq Visited
    <2>1. CASE v = n
        BY <1>2, <2>1, LastSegment DEF PopWork
    <2>2. CASE v # n
        BY <1>2, <1>6, <2>2 DEF SearchInv
    <2> QED
        BY <2>1, <2>2
<1>7. QED
    BY <1>1, <1>2, <1>3, <1>4, <1>5, <1>6

\* What is left of the stacks is as it was.
LEMMA PopStacks ==
    ASSUME StacksInv, SearchInv, PopWork, OnPath' \subseteq OnStack', stack' \in Seq(Visited),
           \A i \in DOMAIN stack' : i \in DOMAIN stack /\ stack'[i] = stack[i]
    PROVE  StacksInv'
<1> SUFFICES ASSUME NEW L, L = Len(work), NEW n, n = Top.node PROVE StacksInv'
    OBVIOUS
<1>1. /\ requires' = requires /\ indexOf' = indexOf /\ Visited' = Visited
      /\ DOMAIN work = 1 .. L /\ DOMAIN work' = 1 .. (L - 1)
      /\ \A k \in 1 .. (L - 1) : work'[k] = work[k] /\ k \in DOMAIN work
    BY PopCommon
<1>2. /\ Visited' \subseteq Plugins /\ indexOf' \in [Visited' -> Nat] /\ low' \in [Visited' -> Nat]
      /\ \A v \in Visited' : indexOf'[v] < Cardinality(Visited')
    BY <1>1, PopIs DEF StacksInv
<1>3. work' \in Seq([node : Visited', succ : SUBSET Plugins])
    BY <1>1, PopIs
<1>4. \A i, j \in DOMAIN stack' : i < j => indexOf'[stack'[i]] < indexOf'[stack'[j]]
    BY <1>1 DEF StacksInv
<1>5. \A k, l \in DOMAIN work' : k < l => indexOf'[work'[k].node] < indexOf'[work'[l].node]
    BY <1>1 DEF StacksInv
<1>6. ASSUME NEW k \in DOMAIN work' PROVE work'[k].succ \subseteq Succ(work[k].node)'
    <2>1. Succ(work[k].node)' = Succ(work[k].node)
        BY <1>1, GraphKept DEF Succ
    <2> QED
        BY <1>1, <2>1, ZenonT(60) DEF StacksInv
<1>7. QED
    BY <1>1, <1>2, <1>3, <1>4, <1>5, <1>6 DEF StacksInv

\* What the path leads to, seen from a state that keeps the graph and the node.
LEMMA NodeReaches ==
    ASSUME requires' = requires, NEW k, work'[k] = work[k]
    PROVE  \A m : Reaches(work[k].node, m)' = Reaches(work[k].node, m)
<1>1. [r \in Plugins |-> Succ(r)]' = [r \in Plugins |-> Succ(r)]
    BY GraphKept
<1>2. Dependents(work[k].node)' = Dependents(work[k].node)
    BY <1>1 DEF Dependents
<1>3. QED
    BY <1>2 DEF Reaches

\* A node with a lower low link stays on the stack; its parent takes over the link.
LEMMA PopLinked ==
    ASSUME TarjanInv, PopWork, low[Top.node] # indexOf[Top.node]
    PROVE  TarjanInv'
<1> USE DEF TarjanInv
<1> SUFFICES ASSUME NEW L, L = Len(work), NEW n, n = Top.node PROVE TarjanInv'
    OBVIOUS
<1>1. stack' = stack /\ components' = components /\ OnStack' = OnStack
    BY DEF PopWork, OnStack
<1>2. /\ requires' = requires /\ indexOf' = indexOf /\ Visited' = Visited
      /\ L \in Nat /\ L \in 1 .. L /\ DOMAIN work = 1 .. L /\ DOMAIN work' = 1 .. (L - 1) /\ Len(work') = L - 1
      /\ \A k \in 1 .. (L - 1) :
            /\ k \in 1 .. L /\ k + 1 \in 1 .. L
            /\ work'[k] = work[k] /\ Taken(k)' = Taken(k)
            /\ work[k].node # n /\ indexOf[work[k].node] < indexOf[n]
      /\ \A k \in 1 .. L : work[k].node \in OnPath /\ work[k].node \in Visited
      /\ work[L].node = n /\ n \in OnPath /\ n \in OnStack /\ n \in Visited /\ n \in Plugins
      /\ OnPath \subseteq OnStack /\ OnStack \subseteq Visited /\ Visited \subseteq Plugins
      /\ OnPath' = OnPath \ {n}
      /\ \A v \in Visited : indexOf[v] \in Nat /\ low[v] \in Nat /\ low'[v] \in Nat
      /\ \A v \in Visited \ OnPath' : Succ(v) \subseteq Visited
      /\ \A q : Succ(q)' = Succ(q)
      /\ \A q, r : Reaches(q, r)' = Reaches(q, r)
      /\ \A q : Scc(q)' = Scc(q)
      /\ OnCycle' = OnCycle
    BY PopCommon
<1>3. Settled' = Settled
    BY <1>1, <1>2 DEF Settled
<1>4. StacksInv'
    <2>1. stack' \in Seq(Visited) /\ OnPath' \subseteq OnStack'
        BY <1>1, <1>2 DEF StacksInv
    <2> QED
        BY <1>1, <2>1, PopStacks
<1>5. PICK m \in OnStack : indexOf[m] = low[n] /\ Reaches(n, m) /\ indexOf[m] < indexOf[n]
    <2>1. low[n] <= indexOf[n] /\ \E m \in OnStack : indexOf[m] = low[n] /\ Reaches(n, m)
        BY <1>2, SMTT(30) DEF LowInv
    <2>2. low[n] < indexOf[n]
        BY <1>2, <2>1
    <2> QED
        BY <2>1, <2>2
<1>6. PICK root \in OnPath : indexOf[root] <= indexOf[m] /\ Reaches(m, root)
    BY DEF SearchInv
<1>7. root \in OnPath' /\ Reaches(n, root) /\ indexOf[root] < indexOf[n]
    <2>1. indexOf[root] \in Nat /\ indexOf[m] \in Nat /\ indexOf[n] \in Nat
        BY <1>2
    <2>2. indexOf[root] < indexOf[n]
        BY <1>5, <1>6, <2>1
    <2> QED
        BY <1>2, <1>5, <1>6, <2>1, <2>2, ReachesTransitive
<1>8. L > 1 /\ L - 1 \in 1 .. (L - 1)
    <2>1. PICK k \in 1 .. (L - 1) : TRUE
        BY <1>2, <1>7 DEF OnPath
    <2> QED
        BY <1>2, <2>1
<1>9. SearchInv'
    <2>1. ASSUME NEW k \in DOMAIN work' PROVE Taken(k)' \subseteq Visited'
        <3>1. k \in DOMAIN work /\ Taken(k)' = Taken(k)
            BY <1>2
        <3> QED
            BY <1>2, <3>1 DEF SearchInv
    <2>2. ASSUME NEW k \in DOMAIN work', k < Len(work') PROVE work'[k + 1].node \in Taken(k)'
        <3>1. k \in 1 .. (L - 1) /\ k + 1 \in 1 .. (L - 1) /\ k < L /\ k \in DOMAIN work
            BY <1>2, <2>2
        <3>2. work[k + 1].node \in Taken(k)
            BY <3>1 DEF SearchInv
        <3> QED
            BY <1>2, <3>1, <3>2
    <2>3. \A v \in Visited' \ OnPath' : Succ(v)' \subseteq Visited'
        BY <1>2
    <2>4. \A v \in Settled' : Succ(v)' \subseteq Settled'
        BY <1>2, <1>3 DEF SearchInv
    <2>5. \A g \in OnPath', x \in OnStack' : indexOf'[g] <= indexOf'[x] => Reaches(g, x)'
        BY <1>1, <1>2 DEF SearchInv
    <2>6. ASSUME NEW x \in OnStack' PROVE \E g \in OnPath' : indexOf'[g] <= indexOf'[x] /\ Reaches(x, g)'
        <3>1. PICK g \in OnPath : indexOf[g] <= indexOf[x] /\ Reaches(x, g)
            BY <1>1, <2>6 DEF SearchInv
        <3>2. CASE g # n
            BY <1>2, <3>1, <3>2
        <3>3. CASE g = n
            <4>1. indexOf[root] \in Nat /\ indexOf[n] \in Nat /\ indexOf[x] \in Nat /\ x \in Plugins
                BY <1>1, <1>2, <1>6
            <4>2. indexOf[root] <= indexOf[x]
                BY <1>7, <3>1, <3>3, <4>1
            <4>3. Reaches(x, root)
                BY <1>7, <3>1, <3>3, <4>1, ReachesTransitive
            <4> QED
                BY <1>2, <1>7, <4>2, <4>3
        <3> QED
            BY <3>2, <3>3
    <2> QED
        BY <2>1, <2>2, <2>3, <2>4, <2>5, <2>6 DEF SearchInv
<1>10. FoundInv'
    BY <1>1, <1>2, <1>3 DEF FoundInv
<1>11. ASSUME NEW k \in DOMAIN work'
       PROVE  /\ low'[work[k].node] <= indexOf[work[k].node]
              /\ \E z \in OnStack : indexOf[z] = low'[work[k].node] /\ Reaches(work[k].node, z)
              /\ \A x \in Segment(k)', y \in OnStack : y \in Looked(k, x)' => low'[work[k].node] <= indexOf[y]
    <2> DEFINE p == work[k].node
    <2>1. k \in 1 .. (L - 1) /\ k \in DOMAIN work /\ k < L /\ p \in Visited
        BY <1>2
    <2>2. low[p] <= indexOf[p] /\ \A x \in Segment(k), y \in OnStack : y \in Looked(k, x) => low[p] <= indexOf[y]
        BY <2>1 DEF LowInv
    <2>3. PICK z \in OnStack : indexOf[z] = low[p] /\ Reaches(p, z)
        BY <2>1 DEF LowInv
    <2>4. Looked(k, n)' = {y \in Succ(n) : n = work[k].node => y \notin work[k].succ /\ (k < L - 1 => y # work'[k + 1].node)}
        BY <1>2, <2>1 DEF Looked
    <2>5. CASE k < L - 1
        <3>1. k + 1 \in 1 .. (L - 1) /\ work'[k + 1] = work[k + 1] /\ work'[k] = work[k]
            BY <1>2, <2>1, <2>5
        <3>2. Segment(k)' = Segment(k) /\ \A x : Looked(k, x)' = Looked(k, x)
            BY <1>1, <1>2, <2>1, <2>5, <3>1 DEF Segment, Looked
        <3>3. p # work[L - 1].node
            BY <1>2, <1>8, <2>1, <2>5, PathIs DEF PopWork
        <3>4. low'[p] = low[p]
            BY <2>1, <3>3, PopIs
        <3> QED
            BY <2>2, <2>3, <3>2, <3>4
    <2>6. CASE k = L - 1
        <3>1. low'[p] \in {low[p], low[n]} /\ low'[p] <= low[p] /\ low'[p] <= low[n]
            BY <1>8, <2>6, PopIs
        <3>2. low'[p] \in Nat /\ low[p] \in Nat /\ low[n] \in Nat /\ indexOf[p] \in Nat /\ p \in OnPath /\ p \in Plugins
            BY <1>2, <2>1
        <3>3. low'[p] <= indexOf[p]
            BY <2>2, <3>1, <3>2
        <3>4. \E t \in OnStack : indexOf[t] = low'[p] /\ Reaches(p, t)
            <4>1. CASE low'[p] = low[p]
                BY <2>3, <4>1
            <4>2. CASE low'[p] = low[n]
                <5>1. indexOf[p] <= indexOf[n]
                    <6>1. indexOf[p] < indexOf[n] /\ indexOf[n] \in Nat
                        BY <1>2, <2>1
                    <6> QED
                        BY <3>2, <6>1
                <5>2. Reaches(p, n)
                    BY <1>2, <3>2, <5>1 DEF SearchInv
                <5>3. Reaches(p, m)
                    BY <1>5, <3>2, <5>2, ReachesTransitive
                <5> QED
                    BY <1>5, <4>2, <5>3
            <4> QED
                BY <3>1, <4>1, <4>2
        <3>5. ASSUME NEW x \in Segment(k)', NEW y \in OnStack, y \in Looked(k, x)' PROVE low'[p] <= indexOf[y]
            <4>1. /\ x \in OnStack /\ indexOf[p] <= indexOf[x] /\ indexOf[x] \in Nat /\ indexOf[y] \in Nat /\ indexOf[n] \in Nat
                BY <1>1, <1>2, <2>1, <3>5 DEF Segment
            <4>2. y \in Succ(x) /\ (x = p => y \notin work[k].succ)
                BY <1>2, <2>1, <3>5 DEF Looked
            <4>3. CASE indexOf[x] < indexOf[n]
                <5>1. x \in Segment(k)
                    BY <1>2, <2>6, <4>1, <4>3 DEF Segment
                <5>2. CASE y \in Looked(k, x)
                    BY <2>2, <3>1, <3>2, <4>1, <5>1, <5>2
                <5>3. CASE y \notin Looked(k, x)
                    <6>1. y = n
                        BY <1>2, <2>6, <4>2, <5>3 DEF Looked
                    <6>2. low[n] <= indexOf[n]
                        BY <1>2 DEF LowInv
                    <6> QED
                        BY <3>1, <3>2, <4>1, <6>1, <6>2
                <5> QED
                    BY <5>2, <5>3
            <4>4. CASE ~(indexOf[x] < indexOf[n])
                <5>1. indexOf[n] <= indexOf[x]
                    BY <4>1, <4>4
                <5>2. x \in Segment(L)
                    BY <4>1, <5>1, LastSegment DEF PopWork
                <5>3. y \in Looked(L, x)
                    BY <4>2, <5>2, LastSegment DEF PopWork
                <5>4. low[n] <= indexOf[y]
                    BY <1>2, <5>2, <5>3 DEF LowInv
                <5> QED
                    BY <3>1, <3>2, <4>1, <5>4
            <4> QED
                BY <4>3, <4>4
        <3> QED
            BY <3>3, <3>4, <3>5
    <2> QED
        BY <1>2, <2>1, <2>5, <2>6
<1>12. LowInv'
    <2>1. \A k \in DOMAIN work' : work'[k] = work[k] /\ \A z : Reaches(work[k].node, z)' = Reaches(work[k].node, z)
        BY <1>2, NodeReaches
    <2> QED
        BY <1>1, <1>2, <1>11, <2>1 DEF LowInv
<1>13. QED
    BY <1>4, <1>9, <1>10, <1>12

\* A set with two members has more than one, and the other way round.
LEMMA MoreThanOne ==
    ASSUME NEW S, IsFiniteSet(S), NEW x \in S
    PROVE  Cardinality(S) > 1 <=> \E y \in S : y # x
<1>1. Cardinality(S) \in Nat /\ S # {} /\ Cardinality(S) # 0
    BY FS_CardinalityType, FS_EmptySet
<1>2. Cardinality(S) = 1 <=> \E y : S = {y}
    BY FS_Singleton
<1>3. (\E y : S = {y}) <=> ~\E y \in S : y # x
    OBVIOUS
<1>4. QED
    BY <1>1, <1>2, <1>3

\* A node whose low link is its own index closes a component, which leaves the stack.
LEMMA PopComponent ==
    ASSUME TarjanInv, PopWork, low[Top.node] = indexOf[Top.node]
    PROVE  TarjanInv'
<1> USE DEF TarjanInv
<1> SUFFICES ASSUME NEW L, L = Len(work), NEW n, n = Top.node, NEW C, C = Segment(Len(work)) PROVE TarjanInv'
    OBVIOUS
<1>1. /\ stack' \in Seq(Visited) /\ OnStack' = OnStack \ C
      /\ \A i \in DOMAIN stack' : i \in DOMAIN stack /\ stack'[i] = stack[i]
      /\ components' = IF Cardinality(C) > 1 \/ n \in Succ(n) THEN components \cup {C} ELSE components
    BY CutIs
<1>2. /\ requires' = requires /\ indexOf' = indexOf /\ Visited' = Visited
      /\ L \in Nat /\ L \in 1 .. L /\ DOMAIN work = 1 .. L /\ DOMAIN work' = 1 .. (L - 1) /\ Len(work') = L - 1
      /\ \A k \in 1 .. (L - 1) :
            /\ k \in 1 .. L /\ k + 1 \in 1 .. L
            /\ work'[k] = work[k] /\ Taken(k)' = Taken(k)
            /\ work[k].node # n /\ indexOf[work[k].node] < indexOf[n]
      /\ \A k \in 1 .. L : work[k].node \in OnPath /\ work[k].node \in Visited
      /\ work[L].node = n /\ n \in OnPath /\ n \in OnStack /\ n \in Visited /\ n \in Plugins
      /\ OnPath \subseteq OnStack /\ OnStack \subseteq Visited /\ Visited \subseteq Plugins
      /\ OnPath' = OnPath \ {n}
      /\ \A v \in Visited : indexOf[v] \in Nat /\ low[v] \in Nat /\ low'[v] \in Nat
      /\ \A v \in Visited \ OnPath' : Succ(v) \subseteq Visited
      /\ \A q : Succ(q)' = Succ(q)
      /\ \A q, r : Reaches(q, r)' = Reaches(q, r)
      /\ \A q : Scc(q)' = Scc(q)
      /\ OnCycle' = OnCycle
    BY PopCommon
<1>3. C = {x \in OnStack : indexOf[n] <= indexOf[x]} /\ n \in C
    BY LastSegment DEF PopWork
<1>4. /\ \A x \in C : Succ(x) \subseteq C \cup Settled
      /\ \A x \in C : Reaches(x, n) /\ Reaches(n, x)
      /\ \A x \in C, q \in Plugins : Reaches(x, q) /\ Reaches(q, x) => q \in C
    BY SegmentIsComponent DEF PopWork
<1>5. Settled' = Settled \cup C /\ Settled \cap C = {}
    BY <1>1, <1>2, <1>3 DEF Settled
<1>6. \A g \in OnPath : g # n => g \notin C
    BY <1>2, SegmentOffPath
<1>7. \A x \in OnStack' : x \in OnStack /\ indexOf[x] < indexOf[n]
    BY <1>1, <1>2, <1>3
<1>8. StacksInv'
    <2>1. OnPath' \subseteq OnStack'
        BY <1>1, <1>2, <1>6
    <2> QED
        BY <1>1, <2>1, PopStacks
<1>9. SearchInv'
    <2>1. ASSUME NEW k \in DOMAIN work' PROVE Taken(k)' \subseteq Visited'
        <3>1. k \in DOMAIN work /\ Taken(k)' = Taken(k)
            BY <1>2
        <3> QED
            BY <1>2, <3>1 DEF SearchInv
    <2>2. ASSUME NEW k \in DOMAIN work', k < Len(work') PROVE work'[k + 1].node \in Taken(k)'
        <3>1. k \in 1 .. (L - 1) /\ k + 1 \in 1 .. (L - 1) /\ k < L /\ k \in DOMAIN work
            BY <1>2, <2>2
        <3>2. work[k + 1].node \in Taken(k)
            BY <3>1 DEF SearchInv
        <3> QED
            BY <1>2, <3>1, <3>2
    <2>3. \A v \in Visited' \ OnPath' : Succ(v)' \subseteq Visited'
        BY <1>2
    <2>4. \A v \in Settled' : Succ(v)' \subseteq Settled'
        <3>1. \A v \in Settled : Succ(v) \subseteq Settled
            BY DEF SearchInv
        <3> QED
            BY <1>2, <1>4, <1>5, <3>1
    <2>5. \A g \in OnPath', x \in OnStack' : indexOf'[g] <= indexOf'[x] => Reaches(g, x)'
        BY <1>1, <1>2 DEF SearchInv
    <2>6. ASSUME NEW x \in OnStack' PROVE \E g \in OnPath' : indexOf'[g] <= indexOf'[x] /\ Reaches(x, g)'
        <3>1. PICK g \in OnPath : indexOf[g] <= indexOf[x] /\ Reaches(x, g)
            BY <1>7, <2>6 DEF SearchInv
        <3>2. g # n
            BY <1>2, <1>7, <2>6, <3>1
        <3> QED
            BY <1>2, <3>1, <3>2
    <2> QED
        BY <2>1, <2>2, <2>3, <2>4, <2>5, <2>6 DEF SearchInv
<1>10. FoundInv'
    <2>1. \A x \in C : x \in Plugins
        BY <1>2, <1>3
    <2>2. IsFiniteSet(C)
        BY <2>1, GraphAssumption, FS_Subset
    <2>3. ASSUME NEW x \in C, x \in OnCycle PROVE Scc(x) = C
        <3>1. \A y \in C : Reaches(x, y) /\ Reaches(y, x)
            BY <1>2, <1>4, <2>1, ReachesTransitive
        <3>2. x \in Dependents(x)
            BY <2>3 DEF OnCycle
        <3>3. ASSUME NEW y \in C PROVE y \in Scc(x)
            BY <3>1, <3>2, <3>3 DEF Reaches, Scc
        <3>4. ASSUME NEW y \in Scc(x) PROVE y \in C
            <4>1. y \in Plugins /\ Reaches(x, y) /\ Reaches(y, x)
                BY <2>1, <3>4, DependentsGrow DEF Scc, Reaches
            <4> QED
                BY <1>4, <4>1
        <3> QED
            BY <3>3, <3>4
    <2>4. Cardinality(C) > 1 => C \subseteq OnCycle
        <3>1. ASSUME NEW x \in C, Cardinality(C) > 1 PROVE x \in OnCycle
            <4>1. PICK y \in C : y # x
                BY <2>2, <3>1, MoreThanOne
            <4>2. y \in Plugins /\ x \in Plugins /\ Reaches(x, y) /\ Reaches(y, x)
                BY <1>2, <1>4, <2>1, ReachesTransitive
            <4> QED
                BY <4>1, <4>2, OnCycleIs DEF Reaches, OnCycle
        <3> QED
            BY <3>1
    <2>5. Cardinality(C) > 1 \/ C \cap OnCycle = {}
        <3>1. ASSUME NEW x \in C, x \in OnCycle PROVE Cardinality(C) > 1
            <4>1. PICK y \in Plugins \ {x} : y \in Dependents(x) /\ x \in Dependents(y)
                BY <2>1, <3>1, OnCycleIs DEF OnCycle
            <4>2. y \in C
                BY <1>4, <4>1 DEF Reaches
            <4> QED
                BY <2>2, <4>1, <4>2, MoreThanOne
        <3> QED
            BY <3>1
    <2>6. n \notin Succ(n)
        BY <1>2, OnCycleIs
    <2>7. components' = IF Cardinality(C) > 1 THEN components \cup {C} ELSE components
        BY <1>1, <2>6
    <2>8. components' = {Scc(p) : p \in (Settled \cup C) \cap OnCycle}
        <3>1. CASE Cardinality(C) > 1
            <4>1. {Scc(p) : p \in (Settled \cup C) \cap OnCycle} = {Scc(p) : p \in Settled \cap OnCycle} \cup {C}
                BY <1>3, <2>3, <2>4, <3>1
            <4> QED
                BY <2>7, <3>1, <4>1 DEF FoundInv
        <3>2. CASE C \cap OnCycle = {}
            <4>1. (Settled \cup C) \cap OnCycle = Settled \cap OnCycle
                BY <3>2
            <4>2. ~(Cardinality(C) > 1)
                BY <1>3, <2>4, <3>2
            <4> QED
                BY <2>7, <4>1, <4>2 DEF FoundInv
        <3> QED
            BY <2>5, <3>1, <3>2
    <2> QED
        BY <1>2, <1>5, <2>8 DEF FoundInv
<1>11. ASSUME NEW k \in DOMAIN work'
       PROVE  /\ low'[work[k].node] <= indexOf[work[k].node]
              /\ \E z \in OnStack' : indexOf[z] = low'[work[k].node] /\ Reaches(work[k].node, z)
              /\ \A x \in Segment(k)', y \in OnStack' : y \in Looked(k, x)' => low'[work[k].node] <= indexOf[y]
    <2> DEFINE p == work[k].node
    <2>1. k \in 1 .. (L - 1) /\ k \in DOMAIN work /\ k < L /\ p \in Visited /\ indexOf[p] < indexOf[n]
        <3>1. k \in 1 .. (L - 1) /\ k \in 1 .. L /\ k < L
            BY <1>2
        <3> QED
            BY <1>2, <3>1
    <2>2. low[p] <= indexOf[p] /\ \A x \in Segment(k), y \in OnStack : y \in Looked(k, x) => low[p] <= indexOf[y]
        BY <2>1 DEF LowInv
    <2>3. PICK z \in OnStack : indexOf[z] = low[p] /\ Reaches(p, z)
        BY <2>1 DEF LowInv
    <2>4. low[p] \in Nat /\ indexOf[p] \in Nat /\ indexOf[n] \in Nat /\ low[n] \in Nat
        BY <1>2, <2>1
    <2>5. low'[p] = low[p]
        <3>1. CASE k = L - 1
            <4>1. low'[p] \in {low[p], low[n]} /\ low'[p] <= low[p]
                BY <1>2, <2>1, <3>1, PopIs
            <4>2. low[p] < low[n]
                BY <2>1, <2>2, <2>4
            <4> QED
                BY <2>4, <4>1, <4>2
        <3>2. CASE k # L - 1
            <4>1. L - 1 \in 1 .. L /\ k < L - 1 /\ k \in 1 .. L
                BY <1>2, <2>1, <3>2
            <4>2. p # work[L - 1].node
                BY <4>1, PathIs DEF PopWork
            <4> QED
                BY <2>1, <4>2, PopIs
        <3> QED
            BY <3>1, <3>2
    <2>6. z \in OnStack'
        <3>1. indexOf[z] < indexOf[n]
            BY <2>1, <2>2, <2>3, <2>4
        <3> QED
            BY <1>1, <1>2, <1>3, <2>3, <3>1
    <2>7. ASSUME NEW x \in Segment(k)', NEW y \in OnStack', y \in Looked(k, x)' PROVE x \in Segment(k) /\ y \in Looked(k, x)
        <3>1. /\ x \in OnStack /\ indexOf[p] <= indexOf[x] /\ indexOf[x] < indexOf[n]
              /\ k < L - 1 => indexOf[x] < indexOf[work'[k + 1].node]
            BY <1>2, <1>7, <2>1, <2>7 DEF Segment
        <3>2. /\ y \in Succ(x) /\ y # n
              /\ x = p => y \notin work[k].succ /\ (k < L - 1 => y # work'[k + 1].node)
            BY <1>1, <1>2, <1>3, <2>1, <2>7 DEF Looked
        <3>3. work[k + 1].node = IF k = L - 1 THEN n ELSE work'[k + 1].node
            <4>1. k # L - 1 => k + 1 \in 1 .. (L - 1)
                BY <1>2, <2>1
            <4>2. k = L - 1 => k + 1 = L
                BY <1>2
            <4> QED
                BY <1>2, <4>1, <4>2
        <3> QED
            BY <1>2, <2>1, <3>1, <3>2, <3>3 DEF Segment, Looked
    <2> QED
        BY <2>2, <2>3, <2>5, <2>6, <2>7, <1>7
<1>12. LowInv'
    <2>1. \A k \in DOMAIN work' : work'[k] = work[k] /\ \A z : Reaches(work[k].node, z)' = Reaches(work[k].node, z)
        BY <1>2, NodeReaches
    <2> QED
        BY <1>1, <1>2, <1>11, <2>1 DEF LowInv
<1>13. QED
    BY <1>8, <1>9, <1>10, <1>12

\* A set of plugins has a first and a last member.
LEMMA Extremes ==
    ASSUME NEW S \in SUBSET Plugins, S # {}
    PROVE  Min(S) \in S /\ Max(S) \in S
<1> DEFINE below(x) == {y \in S : y < x}
           above(x) == {y \in S : y > x}
<1>1. IsWellFoundedOn(StrictSubsetOrdering(Plugins), FiniteSubsetsOf(Plugins))
    BY FS_StrictSubsetOrderingWellFounded
<1>2. S \subseteq Nat /\ \A T \in SUBSET S : T \in FiniteSubsetsOf(Plugins)
    BY GraphAssumption, FS_Subset DEF FiniteSubsetsOf
<1>3. \E x \in S : \A y \in S : x <= y
    <2> DEFINE D == {below(x) : x \in S}
    <2>1. D \subseteq FiniteSubsetsOf(Plugins) /\ D # {}
        BY <1>2
    <2>2. PICK d \in D : \A e \in D : ~(<<e, d>> \in StrictSubsetOrdering(Plugins))
        <3> HIDE DEF D
        <3> QED
            BY <1>1, <2>1, WFMin
    <2>3. PICK x \in S : d = below(x)
        OBVIOUS
    <2>4. ASSUME NEW y \in S, ~(x <= y) PROVE FALSE
        <3>1. y < x
            BY <1>2, <2>4
        <3>2. y \in below(x) /\ y \notin below(y)
            BY <1>2, <3>1
        <3>3. ASSUME NEW z \in below(y) PROVE z \in below(x)
            BY <1>2, <3>1
        <3>4. <<below(y), below(x)>> \in StrictSubsetOrdering(Plugins)
            <4> HIDE DEF below
            <4>1. below(y) \subseteq below(x) /\ below(y) # below(x)
                BY <3>2, <3>3
            <4>2. below(y) \subseteq Plugins /\ below(x) \subseteq Plugins
                BY DEF below
            <4> QED
                BY <4>1, <4>2 DEF StrictSubsetOrdering
        <3> QED
            BY <2>2, <2>3, <3>4
    <2> QED
        BY <2>4
<1>4. \E x \in S : \A y \in S : x >= y
    <2> DEFINE D == {above(x) : x \in S}
    <2>1. D \subseteq FiniteSubsetsOf(Plugins) /\ D # {}
        BY <1>2
    <2>2. PICK d \in D : \A e \in D : ~(<<e, d>> \in StrictSubsetOrdering(Plugins))
        <3> HIDE DEF D
        <3> QED
            BY <1>1, <2>1, WFMin
    <2>3. PICK x \in S : d = above(x)
        OBVIOUS
    <2>4. ASSUME NEW y \in S, ~(x >= y) PROVE FALSE
        <3>1. y > x
            BY <1>2, <2>4
        <3>2. y \in above(x) /\ y \notin above(y)
            BY <1>2, <3>1
        <3>3. ASSUME NEW z \in above(y) PROVE z \in above(x)
            BY <1>2, <3>1
        <3>4. <<above(y), above(x)>> \in StrictSubsetOrdering(Plugins)
            <4> HIDE DEF above
            <4>1. above(y) \subseteq above(x) /\ above(y) # above(x)
                BY <3>2, <3>3
            <4>2. above(y) \subseteq Plugins /\ above(x) \subseteq Plugins
                BY DEF above
            <4> QED
                BY <4>1, <4>2 DEF StrictSubsetOrdering
        <3> QED
            BY <2>2, <2>3, <3>4
    <2> QED
        BY <2>4
<1>5. QED
    BY <1>3, <1>4 DEF Min, Max

\* The search has not begun.
LEMMA TarjanInvInit == GraphInit(Registrations) => TarjanInv
<1> SUFFICES ASSUME GraphInit(Registrations) PROVE TarjanInv
    OBVIOUS
<1>1. indexOf = <<>> /\ low = <<>> /\ stack = <<>> /\ work = <<>> /\ components = {}
    BY DEF GraphInit
<1>2. /\ Visited = {} /\ DOMAIN stack = {} /\ DOMAIN work = {}
      /\ indexOf \in [{} -> Nat] /\ low \in [{} -> Nat]
    BY <1>1 DEF Visited
<1>3. OnStack = {} /\ OnPath = {} /\ Settled = {}
    BY <1>2 DEF OnStack, OnPath, Settled
<1>4. StacksInv
    BY <1>1, <1>2, <1>3, EmptySeq DEF StacksInv
<1>5. SearchInv /\ LowInv /\ FoundInv
    BY <1>1, <1>2, <1>3 DEF SearchInv, LowInv, FoundInv
<1>6. QED
    BY <1>4, <1>5 DEF TarjanInv

\* The search begins anew where nothing was visited, ...
LEMMA NextRootStep == TarjanInv /\ NextRoot => TarjanInv'
<1> SUFFICES ASSUME TarjanInv, NextRoot PROVE TarjanInv'
    OBVIOUS
<1> DEFINE p == Min(Plugins \ Visited)
<1>1. Visited \subseteq Plugins /\ Visited # Plugins /\ work = <<>> /\ Visit(p, <<>>)
    BY DEF NextRoot, TarjanInv, StacksInv
<1>2. p \in Plugins \ Visited
    <2>1. Plugins \ Visited \in SUBSET Plugins /\ Plugins \ Visited # {}
        BY <1>1
    <2> QED
        BY <2>1, Extremes
<1>3. Below(p, <<>>)
    <2>1. Len(work) = 0 /\ <<>> \in Seq([node : Visited, succ : SUBSET Plugins]) /\ Len(<<>>) = 0
        BY <1>1, EmptySeq
    <2> HIDE DEF p
    <2> QED
        BY <2>1 DEF Below
<1>4. UNCHANGED <<requires, components>>
    BY DEF NextRoot
<1> HIDE DEF p
<1>5. QED
    BY <1>1, <1>2, <1>3, <1>4, VisitStep

\* ... and goes on with the last successor of the last node.
LEMMA NextSuccStep == TarjanInv /\ NextSucc => TarjanInv'
<1> SUFFICES ASSUME TarjanInv, NextSucc PROVE TarjanInv'
    OBVIOUS
<1> DEFINE nxt == Max(Top.succ)
           popped == Popped(nxt)
<1>1. work # <<>> /\ Top.succ # {} /\ UNCHANGED <<requires, components>>
    BY DEF NextSucc
<1>2. /\ Len(work) \in 1 .. Len(work) /\ Top = work[Len(work)] /\ Top.succ \in SUBSET Plugins
    BY <1>1, PathIs, StacksAre DEF TarjanInv
<1>3. nxt \in Top.succ /\ nxt \in Plugins
    BY <1>1, <1>2, Extremes
<1>4. \/ nxt \notin Visited /\ Visit(nxt, popped)
      \/ nxt \in Visited /\ work' = popped /\ low' = LowLink(nxt) /\ UNCHANGED <<indexOf, stack>>
    BY DEF NextSucc, Popped
<1>5. /\ popped \in Seq([node : Visited, succ : SUBSET Plugins]) /\ Len(popped) = Len(work)
      /\ \A k \in 1 .. Len(work) :
            /\ popped[k].node = work[k].node
            /\ popped[k].succ = IF k = Len(work) THEN work[k].succ \ {nxt} ELSE work[k].succ
    <2> HIDE DEF nxt
    <2> QED
        BY <1>1, PoppedIs DEF TarjanInv
<1>6. CASE nxt \notin Visited /\ Visit(nxt, popped)
    <2> HIDE DEF nxt, popped
    <2>1. Below(nxt, popped)
        BY <1>2, <1>3, <1>5 DEF Below
    <2> QED
        BY <1>1, <1>3, <1>6, <2>1, VisitStep
<1>7. CASE nxt \in Visited /\ work' = popped /\ low' = LowLink(nxt) /\ UNCHANGED <<indexOf, stack>>
    <2>1. Noted(nxt)
        <3> HIDE DEF nxt
        <3> QED
            BY <1>1, <1>3, <1>7 DEF Noted
    <2> HIDE DEF nxt, popped
    <2> QED
        BY <2>1, NotedStep
<1> HIDE DEF nxt, popped
<1>8. QED
    BY <1>4, <1>6, <1>7

\* Both outcomes of a plugin without successors left are right.
LEMMA PopWorkStep == TarjanInv /\ PopWork => TarjanInv'
BY PopLinked, PopComponent

\* The other loops leave the search as it is.
LEMMA TarjanKept ==
    ASSUME TarjanInv, UNCHANGED <<requires, indexOf, low, stack, work, components>>
    PROVE  TarjanInv'
<1>1. Visited' = Visited /\ OnStack' = OnStack /\ OnPath' = OnPath /\ Settled' = Settled
    BY DEF Visited, OnStack, OnPath, Settled
<1>2. /\ \A q : Succ(q)' = Succ(q) /\ Scc(q)' = Scc(q)
      /\ \A q, r : Reaches(q, r)' = Reaches(q, r)
      /\ OnCycle' = OnCycle
    BY GraphKept DEF Scc
<1>3. \A k : /\ Succ(work[k].node)' = Succ(work[k].node)
             /\ \A m : Reaches(work[k].node, m)' = Reaches(work[k].node, m)
    BY NodeReaches, GraphKept DEF Succ
<1>4. \A k : Taken(k)' = Taken(k) /\ Segment(k)' = Segment(k) /\ \A x : Looked(k, x)' = Looked(k, x)
    BY <1>1, <1>2, <1>3 DEF Taken, Segment, Looked
<1>5. StacksInv'
    BY <1>1, <1>3 DEF TarjanInv, StacksInv
<1>6. SearchInv'
    BY <1>1, <1>2, <1>4 DEF TarjanInv, SearchInv
<1>7. LowInv'
    BY <1>1, <1>3, <1>4 DEF TarjanInv, LowInv
<1>8. FoundInv'
    BY <1>1, <1>2 DEF TarjanInv, FoundInv
<1>9. QED
    BY <1>5, <1>6, <1>7, <1>8 DEF TarjanInv

Waiting == {pending[i] : i \in DOMAIN pending}

\* The walk has met only dependents, and waits for the dependents of all it has met.
WalkInv ==
    /\ job = "levels" => affected = {}
    /\ job \in {"cycles", "impact"} =>
          /\ pending \in Seq(Dependents(Subject)) /\ affected \subseteq Dependents(Subject)
          /\ \A r \in affected \cup {Subject} : Succ(r) \subseteq affected \cup Waiting
    /\ job = "done" => affected = Dependents(Subject) \ {Subject}

\* The search is over once the walk begins, and is left out only where there is no cycle.
EndInv ==
    /\ job \in {"levels", "cycles", "impact", "done"}
    /\ job \in {"impact", "done"} => OnCycle = {} \/ (work = <<>> /\ Visited = Plugins)

GraphInv == WavesInv /\ TarjanInv /\ WalkInv /\ EndInv

\* SetToSeq lists a finite set, every member of it and nothing else.
LEMMA SetToSeqIs ==
    ASSUME NEW S, IsFiniteSet(S)
    PROVE  /\ SetToSeq(S) \in Seq(S)
           /\ \A x \in S : \E k \in DOMAIN SetToSeq(S) : SetToSeq(S)[k] = x
<1> DEFINE n == Cardinality(S)
           f == SetToSeq(S)
<1>1. n \in Nat /\ ExistsBijection(1 .. n, S)
    BY FS_CardinalityType
<1>2. \E g \in [1 .. n -> S] : IsInjective(g)
    BY <1>1 DEF ExistsBijection, Bijection, Injection
<1>3. f \in [1 .. n -> S] /\ IsInjective(f)
    BY <1>2 DEF SetToSeq
<1> HIDE DEF n, f
<1>4. f \in Injection(1 .. n, S)
    BY <1>3 DEF Injection
<1>5. IsFiniteSet(1 .. n) /\ Cardinality(1 .. n) = n
    BY <1>1, FS_Interval
<1>6. f \in Surjection(1 .. n, S)
    BY <1>4, <1>5, FS_Injection DEF n
<1>7. f \in Seq(S)
    BY <1>1, <1>3
<1> QED
    BY <1>6, <1>7, <1>3 DEF Surjection, f

\* The dependents of a plugin that the walk is told to go to.
LEMMA SuccList ==
    ASSUME NEW p \in Plugins
    PROVE  /\ SetToSeq(Succ(p)) \in Seq(Dependents(p))
           /\ {SetToSeq(Succ(p))[i] : i \in DOMAIN SetToSeq(Succ(p))} = Succ(p)
<1>1. IsFiniteSet(Succ(p))
    BY GraphAssumption, FS_Subset DEF Succ
<1>2. /\ SetToSeq(Succ(p)) \in Seq(Succ(p))
      /\ \A x \in Succ(p) : \E k \in DOMAIN SetToSeq(Succ(p)) : SetToSeq(Succ(p))[k] = x
    BY <1>1, SetToSeqIs
<1>3. Succ(p) \subseteq Dependents(p)
    BY DependentsGrow
<1>4. SetToSeq(Succ(p)) \in Seq(Dependents(p))
    BY <1>2, <1>3, SeqMonotonic
<1>5. \A k \in DOMAIN SetToSeq(Succ(p)) : SetToSeq(Succ(p))[k] \in Succ(p)
    BY <1>2, LenProperties
<1>6. QED
    BY <1>2, <1>4, <1>5

\* The walk begins at the dependents of the subject, ...
LEMMA WavesDoneWalk == GraphInv /\ WavesDone => WalkInv' /\ EndInv'
<1> SUFFICES ASSUME GraphInv, WavesDone PROVE WalkInv' /\ EndInv'
    OBVIOUS
<1>1. /\ job = "levels" /\ wave = {} /\ affected = {} /\ affected' = {} /\ requires' = requires
      /\ job' = (IF Emitted = Plugins THEN "impact" ELSE "cycles")
      /\ pending' = SetToSeq(Succ(Subject))
    BY DEF GraphInv, WalkInv, WavesDone, Emitted
<1>2. Subject \in Plugins
    BY GraphAssumption
<1>3. /\ pending' \in Seq(Dependents(Subject))
      /\ Waiting' = Succ(Subject)
    BY <1>1, <1>2, SuccList DEF Waiting
<1>4. Succ(Subject)' = Succ(Subject) /\ Dependents(Subject)' = Dependents(Subject) /\ OnCycle' = OnCycle
    BY <1>1, GraphKept
<1>5. WalkInv'
    BY <1>1, <1>3, <1>4 DEF WalkInv
<1>6. \A p \in Plugins \ Emitted : ~(Pred(p) \subseteq Emitted)
    BY <1>1 DEF GraphInv, WavesInv
<1>7. Emitted = Plugins => OnCycle = {}
    BY <1>6, WavesExact DEF GraphInv
<1>8. EndInv'
    BY <1>1, <1>4, <1>7 DEF EndInv
<1>9. QED
    BY <1>5, <1>8

\* ... meets dependents only, and whatever depends on what it has met waits, ...
LEMMA WalkStep == GraphInv /\ Walk => WalkInv'
<1> SUFFICES ASSUME GraphInv, Walk PROVE WalkInv'
    OBVIOUS
<1> DEFINE D == Dependents(Subject)
           n == pending[Len(pending)]
           rest == SubSeq(pending, 1, Len(pending) - 1)
<1>1. /\ job = "impact" /\ job' = "impact" /\ pending # <<>> /\ requires' = requires
      /\ pending \in Seq(D) /\ affected \subseteq D
      /\ \A r \in affected \cup {Subject} : Succ(r) \subseteq affected \cup Waiting
    BY DEF GraphInv, WalkInv, Walk
<1>2. IF n \in affected THEN pending' = rest /\ affected' = affected
      ELSE affected' = affected \cup {n} /\ pending' = rest \o SetToSeq(Succ(n))
    BY DEF Walk
<1>3. Subject \in Plugins /\ D \subseteq Plugins
    BY GraphAssumption, DependentsGrow
<1> HIDE DEF D
<1>4. Len(pending) \in Nat /\ Len(pending) # 0 /\ DOMAIN pending = 1 .. Len(pending)
    BY <1>1, EmptySeq, LenProperties
<1>5. n \in D /\ \A i \in 1 .. Len(pending) : pending[i] \in D
    BY <1>1, <1>4, ElementOfSeq
<1>6. /\ rest \in Seq(D) /\ Len(rest) = Len(pending) - 1
      /\ \A i \in 1 .. (Len(pending) - 1) : rest[i] = pending[i]
    BY <1>4, <1>5, SubSeqProperties
<1>7. DOMAIN rest = 1 .. (Len(pending) - 1)
    BY <1>6, LenProperties
<1> DEFINE left == {rest[i] : i \in DOMAIN rest}
<1>8. Waiting \subseteq left \cup {n}
    <2>1. ASSUME NEW k \in Nat, NEW i \in 1 .. k, i # k PROVE i \in 1 .. (k - 1)
        BY <2>1
    <2>2. ASSUME NEW i \in DOMAIN pending PROVE pending[i] \in left \cup {n}
        <3>1. CASE i = Len(pending)
            BY <3>1
        <3>2. CASE i # Len(pending)
            <4>1. i \in 1 .. (Len(pending) - 1)
                BY <1>4, <2>1, <2>2, <3>2
            <4> QED
                BY <4>1, <1>6, <1>7
        <3> QED
            BY <3>1, <3>2
    <2> QED
        BY <2>2 DEF Waiting
<1>9. /\ \A r : Succ(r)' = Succ(r)
      /\ Dependents(Subject)' = D
    BY <1>1, GraphKept DEF D
<1>10. CASE n \in affected
    <2>1. pending' = rest /\ affected' = affected
        BY <1>2, <1>10
    <2>2. Waiting' = left
        BY <2>1 DEF Waiting
    <2>3. affected \cup Waiting \subseteq affected \cup left
        BY <1>8, <1>10
    <2> HIDE DEF left, n, rest
    <2> QED
        BY <1>1, <1>6, <1>9, <2>1, <2>2, <2>3 DEF WalkInv
<1>11. CASE n \notin affected
    <2> DEFINE more == SetToSeq(Succ(n))
    <2>1. pending' = rest \o more /\ affected' = affected \cup {n}
        BY <1>2, <1>11
    <2>2. n \in Plugins /\ Succ(n) \subseteq D /\ Dependents(n) \subseteq D
        BY <1>3, <1>5, DependentsTransitive, DependentsGrow DEF D
    <2>3. more \in Seq(D) /\ {more[i] : i \in DOMAIN more} = Succ(n)
        <3>1. more \in Seq(Dependents(n)) /\ {more[i] : i \in DOMAIN more} = Succ(n)
            BY <2>2, SuccList
        <3> HIDE DEF more
        <3> QED
            BY <2>2, <3>1, SeqMonotonic
    <2> HIDE DEF more, rest, n
    <2>4. pending' \in Seq(D) /\ Waiting' = left \cup Succ(n)
        <3>1. /\ rest \o more \in Seq(D) /\ Len(rest \o more) = Len(rest) + Len(more)
              /\ \A i \in 1 .. (Len(rest) + Len(more)) :
                    (rest \o more)[i] = IF i <= Len(rest) THEN rest[i] ELSE more[i - Len(rest)]
            BY <1>6, <2>3, ConcatProperties
        <3>2. /\ Len(rest) \in Nat /\ Len(more) \in Nat /\ DOMAIN rest = 1 .. Len(rest) /\ DOMAIN more = 1 .. Len(more)
              /\ DOMAIN (rest \o more) = 1 .. (Len(rest) + Len(more))
            BY <1>6, <2>3, <3>1, LenProperties
        <3>3. ASSUME NEW x \in left \cup Succ(n) PROVE x \in Waiting'
            <4>1. CASE x \in left
                <5>1. PICK i \in 1 .. Len(rest) : x = rest[i]
                    BY <3>2, <4>1
                <5>2. i \in 1 .. (Len(rest) + Len(more)) /\ i <= Len(rest)
                    BY <3>2
                <5> QED
                    BY <2>1, <3>1, <3>2, <5>1, <5>2 DEF Waiting
            <4>2. CASE x \in Succ(n)
                <5>1. PICK i \in 1 .. Len(more) : x = more[i]
                    BY <2>3, <3>2, <4>2
                <5>2. /\ i + Len(rest) \in 1 .. (Len(rest) + Len(more)) /\ ~(i + Len(rest) <= Len(rest))
                      /\ i + Len(rest) - Len(rest) = i
                    BY <3>2
                <5> QED
                    BY <2>1, <3>1, <3>2, <5>1, <5>2, SMTT(30) DEF Waiting
            <4> QED
                BY <3>3, <4>1, <4>2
        <3>4. ASSUME NEW x \in Waiting' PROVE x \in left \cup Succ(n)
            <4>1. PICK i \in 1 .. (Len(rest) + Len(more)) : x = (rest \o more)[i]
                BY <2>1, <3>2, <3>4 DEF Waiting
            <4>2. CASE i <= Len(rest)
                <5>1. i \in 1 .. Len(rest) /\ x = rest[i]
                    BY <3>1, <3>2, <4>1, <4>2
                <5> QED
                    BY <3>2, <5>1
            <4>3. CASE ~(i <= Len(rest))
                <5>1. i - Len(rest) \in 1 .. Len(more) /\ x = more[i - Len(rest)]
                    BY <3>1, <3>2, <4>1, <4>3
                <5> QED
                    BY <2>3, <3>2, <5>1
            <4> QED
                BY <4>2, <4>3
        <3> HIDE DEF left
        <3> QED
            BY <2>1, <3>1, <3>3, <3>4
    <2>5. \A r \in affected' \cup {Subject} : Succ(r) \subseteq affected' \cup Waiting'
        BY <1>1, <1>8, <2>1, <2>4
    <2>6. affected' \subseteq D
        BY <1>1, <1>5, <2>1 DEF n
    <2> HIDE DEF left
    <2> QED
        BY <1>1, <1>9, <2>4, <2>5, <2>6 DEF WalkInv
<1>12. QED
    BY <1>10, <1>11

\* ... so that at its end it has met them all.
LEMMA WalkDoneStep == GraphInv /\ WalkDone => WalkInv'
<1> SUFFICES ASSUME GraphInv, WalkDone PROVE WalkInv'
    OBVIOUS
<1>1. /\ job = "impact" /\ job' = "done" /\ pending = <<>> /\ requires' = requires
      /\ affected' = affected \ {Subject} /\ affected \subseteq Dependents(Subject)
      /\ \A r \in affected \cup {Subject} : Succ(r) \subseteq affected \cup Waiting
    BY DEF GraphInv, WalkInv, WalkDone
<1>2. Waiting = {}
    BY <1>1 DEF Waiting
<1>3. Dependents(Subject) \subseteq affected
    BY <1>1, <1>2, GraphAssumption, DependentsLeast
<1>4. Dependents(Subject)' = Dependents(Subject)
    BY <1>1, GraphKept
<1>5. QED
    BY <1>1, <1>3, <1>4 DEF WalkInv

\* The loops before the walk leave it as it is.
LEMMA WalkKept ==
    ASSUME WalkInv, UNCHANGED <<requires, pending, affected>>,
           job' = job \/ (job = "cycles" /\ job' = "impact")
    PROVE  WalkInv'
<1>1. \A q : Succ(q)' = Succ(q) /\ Dependents(q)' = Dependents(q)
    BY GraphKept
<1>2. Waiting' = Waiting
    BY DEF Waiting
<1>3. QED
    BY <1>1, <1>2 DEF WalkInv

\* The invariant of the whole computation holds at its start, ...
LEMMA GraphInvInit == GraphInit(Registrations) => GraphInv
<1> SUFFICES ASSUME GraphInit(Registrations) PROVE GraphInv
    OBVIOUS
<1>1. WalkInv /\ EndInv
    BY DEF GraphInit, WalkInv, EndInv
<1>2. QED
    BY <1>1, WavesInvInit, TarjanInvInit DEF GraphInv

\* ... is kept by each of its loops, ...
LEMMA GraphInvStep == GraphInv /\ [GraphNext]_graphVars => GraphInv'
<1> SUFFICES ASSUME GraphInv, [GraphNext]_graphVars PROVE GraphInv'
    OBVIOUS
<1> USE DEF GraphInv
<1>1. CASE NextWave
    <2>1. UNCHANGED <<requires, job, indexOf, low, stack, work, components, pending, affected>>
        BY <1>1 DEF NextWave
    <2>2. EndInv'
        BY <1>1, <2>1 DEF NextWave, EndInv
    <2> QED
        BY <1>1, <2>1, <2>2, NextWaveStep, TarjanKept, WalkKept
<1>2. CASE WavesDone
    <2>1. UNCHANGED <<requires, indexOf, low, stack, work, components>>
        BY <1>2 DEF WavesDone
    <2> QED
        BY <1>2, <2>1, WavesDoneStep, TarjanKept, WavesDoneWalk
<1>3. ASSUME NextRoot \/ NextSucc \/ PopWork PROVE GraphInv'
    <2>1. job = "cycles" /\ UNCHANGED <<requires, job, indeg, wave, waves, pending, affected>>
        BY <1>3 DEF NextRoot, NextSucc, PopWork
    <2>2. EndInv'
        BY <2>1 DEF EndInv
    <2>3. TarjanInv'
        BY <1>3, NextRootStep, NextSuccStep, PopWorkStep
    <2> QED
        BY <2>1, <2>2, <2>3, WavesKept, WalkKept
<1>4. CASE CyclesDone
    <2>1. /\ job = "cycles" /\ job' = "impact" /\ work = <<>> /\ Visited = Plugins
          /\ UNCHANGED <<requires, indeg, wave, waves, indexOf, low, stack, work, components, pending, affected>>
        BY <1>4 DEF CyclesDone
    <2>2. EndInv'
        BY <2>1 DEF EndInv, Visited
    <2> QED
        BY <2>1, <2>2, WavesKept, TarjanKept, WalkKept
<1>5. ASSUME Walk \/ WalkDone PROVE GraphInv'
    <2>1. /\ job = "impact" /\ job' \in {"impact", "done"}
          /\ UNCHANGED <<requires, indeg, wave, waves, indexOf, low, stack, work, components>>
        BY <1>5 DEF Walk, WalkDone
    <2>2. EndInv'
        BY <2>1, GraphKept DEF EndInv, Visited
    <2>3. WalkInv'
        BY <1>5, WalkStep, WalkDoneStep
    <2>4. WavesInv'
        BY <2>1, WavesKept
    <2> QED
        BY <2>1, <2>2, <2>3, <2>4, TarjanKept
<1>6. CASE UNCHANGED graphVars
    <2>1. UNCHANGED <<requires, job, indeg, wave, waves, indexOf, low, stack, work, components, pending, affected>>
        BY <1>6 DEF graphVars
    <2>2. EndInv'
        BY <2>1, GraphKept DEF EndInv, Visited
    <2> QED
        BY <2>1, <2>2, WavesKept, TarjanKept, WalkKept
<1>7. QED
    BY <1>1, <1>2, <1>3, <1>4, <1>5, <1>6 DEF GraphNext

\* ... and so always holds.
LEMMA GraphInvHolds == GraphSpec => []GraphInv
BY GraphInvInit, GraphInvStep, PTL DEF GraphSpec

\* startup_order() lists every plugin after all it requires, or there is a cycle.
THEOREM StartupOrderExact == GraphSpec => []StartupExact
<1>1. GraphInv => StartupExact
    <2> SUFFICES ASSUME GraphInv, job = "done" PROVE StartupExact
        BY DEF StartupExact
    <2>1. Ordered /\ \A p \in Plugins \ Emitted : ~(Pred(p) \subseteq Emitted)
        BY DEF GraphInv, WavesInv
    <2>2. Emitted = Plugins <=> OnCycle = {}
        BY <2>1, WavesExact DEF GraphInv
    <2> QED
        BY <2>1, <2>2 DEF StartupExact, Ordered, Emitted
<1> QED
    BY <1>1, GraphInvHolds, PTL

\* The cycles reported are the classes of plugins that depend on each other.
THEOREM CyclesReportedExact == GraphSpec => []CyclesExact
<1>1. GraphInv => CyclesExact
    <2> SUFFICES ASSUME GraphInv, job = "done" PROVE CyclesExact
        BY DEF CyclesExact
    <2>1. Settled \cap OnCycle = OnCycle
        <3>1. CASE OnCycle = {}
            BY <3>1
        <3>2. CASE work = <<>> /\ Visited = Plugins
            <4>1. OnPath = {}
                BY <3>2 DEF OnPath
            <4>2. OnStack = {}
                BY <4>1 DEF GraphInv, TarjanInv, SearchInv
            <4> QED
                BY <3>2, <4>2 DEF Settled, OnCycle
        <3> QED
            BY <3>1, <3>2 DEF GraphInv, EndInv
    <2>2. components = {Scc(p) : p \in OnCycle}
        BY <2>1 DEF GraphInv, TarjanInv, FoundInv
    <2>3. ASSUME NEW p \in OnCycle PROVE p \in Scc(p) /\ Scc(p) \subseteq OnCycle
        <3>1. p \in Plugins /\ p \in Dependents(p)
            BY <2>3 DEF OnCycle
        <3>2. ASSUME NEW q \in Scc(p) PROVE q \in OnCycle
            <4>1. q \in Dependents(p) /\ p \in Dependents(q) /\ q \in Plugins
                BY <3>1, <3>2, DependentsGrow DEF Scc
            <4>2. q \in Dependents(q)
                BY <3>1, <4>1, DependentsTransitive
            <4> QED
                BY <4>1, <4>2 DEF OnCycle
        <3> QED
            BY <3>1, <3>2 DEF Scc
    <2>4. CycleMembers = OnCycle
        BY <2>2, <2>3 DEF CycleMembers
    <2> QED
        BY <2>2, <2>4 DEF CyclesExact, Scc
<1> QED
    BY <1>1, GraphInvHolds, PTL

\* impact_of() returns what depends on the plugin.
THEOREM ImpactIsExact == GraphSpec => []ImpactExact
<1>1. GraphInv => ImpactExact
    BY DEF GraphInv, WalkInv, ImpactExact
<1> QED
    BY <1>1, GraphInvHolds, PTL


-----------------------------------------------------------------------------
(* The drawing of the graph.  DrawnAt(f, path, p) is what is shown at p,   *)
(* below the plugins of path, when f shows the rest.                       *)

DrawnAt(f, path, p) ==
    IF p \in path THEN {p} ELSE {p} \cup UNION {f[path \cup {p}][q] : q \in Pred(p)}

Shows(f) == f = [path \in SUBSET Plugins |-> [p \in Plugins |-> DrawnAt(f, path, p)]]

Drawings == [SUBSET Plugins -> [Plugins -> SUBSET Plugins]]

\* The more is shown below a plugin, the more is shown at it, ...
LEMMA DrawnAtGrows ==
    ASSUME NEW f \in Drawings, NEW g \in Drawings,
           \A path \in SUBSET Plugins : \A p \in Plugins : f[path][p] \subseteq g[path][p],
           NEW path \in SUBSET Plugins, NEW p \in Plugins
    PROVE  DrawnAt(f, path, p) \in SUBSET Plugins /\ DrawnAt(f, path, p) \subseteq DrawnAt(g, path, p)
<1>1. path \cup {p} \in SUBSET Plugins /\ Pred(p) \subseteq Plugins
    BY DEF Pred
<1>2. \A q \in Pred(p) : f[path \cup {p}][q] \in SUBSET Plugins
                         /\ f[path \cup {p}][q] \subseteq g[path \cup {p}][q]
    BY <1>1 DEF Drawings
<1> DEFINE shownF == {f[path \cup {p}][q] : q \in Pred(p)}
           shownG == {g[path \cup {p}][q] : q \in Pred(p)}
<1>3. UNION shownF \subseteq Plugins /\ UNION shownF \subseteq UNION shownG
    BY <1>2
<1>4. /\ DrawnAt(f, path, p) = IF p \in path THEN {p} ELSE {p} \cup UNION shownF
      /\ DrawnAt(g, path, p) = IF p \in path THEN {p} ELSE {p} \cup UNION shownG
    BY DEF DrawnAt
<1> HIDE DEF shownF, shownG
<1>5. QED
    BY <1>3, <1>4

\* ... and so there is a drawing: the least that is closed.
LEMMA DrawingExists == \E f \in Drawings : Shows(f)
<1> DEFINE Closed == {f \in Drawings : \A path \in SUBSET Plugins : \A p \in Plugins :
                                          DrawnAt(f, path, p) \subseteq f[path][p]}
           m == [path \in SUBSET Plugins |->
                    [p \in Plugins |-> {r \in Plugins : \A f \in Closed : r \in f[path][p]}]]
           g == [path \in SUBSET Plugins |-> [p \in Plugins |-> DrawnAt(m, path, p)]]
<1>1. /\ m \in Drawings
      /\ \A f \in Closed : \A path \in SUBSET Plugins : \A p \in Plugins :
            m[path][p] \subseteq f[path][p]
      /\ \A path \in SUBSET Plugins : \A p \in Plugins : \A r \in Plugins :
            (\A f \in Closed : r \in f[path][p]) => r \in m[path][p]
    BY DEF Drawings
<1>2. \A f \in Closed : f \in Drawings /\ \A path \in SUBSET Plugins : \A p \in Plugins :
                            DrawnAt(f, path, p) \subseteq f[path][p]
    OBVIOUS
<1>3. ASSUME NEW f \in Drawings, \A path \in SUBSET Plugins : \A p \in Plugins :
                                    DrawnAt(f, path, p) \subseteq f[path][p]
      PROVE  f \in Closed
    BY <1>3
<1> HIDE DEF Closed, m
<1>4. ASSUME NEW path \in SUBSET Plugins, NEW p \in Plugins
      PROVE  DrawnAt(m, path, p) \in SUBSET Plugins /\ DrawnAt(m, path, p) \subseteq m[path][p]
    <2>1. DrawnAt(m, path, p) \in SUBSET Plugins
        BY <1>1, DrawnAtGrows
    <2>2. ASSUME NEW f \in Closed PROVE DrawnAt(m, path, p) \subseteq f[path][p]
        <3>1. f \in Drawings /\ DrawnAt(f, path, p) \subseteq f[path][p]
            BY <1>2
        <3>2. DrawnAt(m, path, p) \subseteq DrawnAt(f, path, p)
            BY <1>1, <3>1, DrawnAtGrows
        <3> QED
            BY <3>1, <3>2
    <2> QED
        BY <2>1, <2>2, <1>1
<1>5. /\ g \in Drawings
      /\ \A path \in SUBSET Plugins : \A p \in Plugins : g[path][p] = DrawnAt(m, path, p)
    BY <1>4 DEF Drawings
<1> HIDE DEF g
<1>6. g \in Closed
    <2>1. \A path \in SUBSET Plugins : \A p \in Plugins : g[path][p] \subseteq m[path][p]
        BY <1>4, <1>5
    <2>2. ASSUME NEW path \in SUBSET Plugins, NEW p \in Plugins
          PROVE  DrawnAt(g, path, p) \subseteq g[path][p]
        BY <1>1, <1>5, <2>1, DrawnAtGrows
    <2> QED
        BY <1>3, <1>5, <2>2
<1>7. ASSUME NEW path \in SUBSET Plugins, NEW p \in Plugins PROVE m[path][p] = DrawnAt(m, path, p)
    BY <1>1, <1>4, <1>5, <1>6, ZenonT(60)
<1>8. Shows(m)
    <2>1. m = [path \in SUBSET Plugins |-> [p \in Plugins |-> m[path][p]]]
        BY <1>1 DEF Drawings
    <2> QED
        BY <1>7, <2>1 DEF Shows
<1>9. QED
    BY <1>1, <1>8

\* render() is what such a drawing shows at its entries.
LEMMA RenderedIs ==
    \E f : /\ Shows(f)
           /\ LET entries == {p \in Plugins : Succ(p) = {}}
              IN  Rendered = UNION {f[{}][p] : p \in IF entries = {} THEN Plugins ELSE entries}
<1> DEFINE f == CHOOSE h : Shows(h)
           entries == {p \in Plugins : Succ(p) = {}}
<1>1. Shows(f)
    BY DrawingExists
<1>2. Rendered = UNION {f[{}][p] : p \in IF entries = {} THEN Plugins ELSE entries}
    BY DEF Rendered, Shows, DrawnAt
<1>3. QED
    BY <1>1, <1>2

\* Where p leads to no cycle, it is shown below all that depends on it.
LEMMA ShownBelow ==
    ASSUME NEW f, Shows(f), NEW p \in Plugins, \A q \in OnCycle : ~Reaches(p, q)
    PROVE  \A q \in Plugins : Reaches(p, q) =>
              \A path \in SUBSET Dependents(q) : p \in f[path][q]
<1> DEFINE T == {q \in Plugins : Reaches(p, q) /\ \E path \in SUBSET Dependents(q) : p \notin f[path][q]}
<1>1. SUFFICES ASSUME T # {} PROVE FALSE
    OBVIOUS
<1>2. PICK q \in T : \A r \in T : q \in Dependents(r) => q \in OnCycle
    BY <1>1, FewestRequired
<1>3. /\ q \in Plugins /\ Reaches(p, q) /\ q \notin Dependents(q)
      /\ \A r \in T : q \notin Dependents(r)
    BY <1>2 DEF OnCycle
<1>4. PICK path \in SUBSET Dependents(q) : p \notin f[path][q]
    OBVIOUS
<1>5. path \in SUBSET Plugins /\ q \notin path
    BY <1>3, DependentsGrow
<1>6. f[path][q] = {q} \cup UNION {f[path \cup {q}][r] : r \in Pred(q)}
    <2>1. f[path][q] = DrawnAt(f, path, q)
        BY <1>3, <1>5 DEF Shows
    <2> QED
        BY <2>1, <1>5 DEF DrawnAt
<1>7. p # q
    BY <1>4, <1>6
<1>8. PICK r \in Pred(q) : r \in Plugins /\ Reaches(p, r)
    BY <1>3, <1>7, LastRequired DEF Reaches
<1>9. q \in Dependents(r) /\ Dependents(q) \subseteq Dependents(r)
    BY <1>3, <1>8, DependentsGrow, DependentsTransitive DEF Succ
<1>10. r \notin T
    BY <1>3, <1>9
<1>11. p \in f[path \cup {q}][r]
    BY <1>8, <1>9, <1>10
<1>12. QED
    BY <1>4, <1>6, <1>8, <1>11

\* render() leaves out at most cycles and what only they require.
THEOREM DrawingIsComplete == GraphSpec => []DrawingComplete
<1>1. DrawingComplete
    <2> SUFFICES ASSUME NEW p \in Plugins, \A q \in OnCycle : ~Reaches(p, q) PROVE p \in Rendered
        BY DEF DrawingComplete, Reaches
    <2> DEFINE T == {q \in Plugins : Reaches(p, q)}
               entries == {q \in Plugins : Succ(q) = {}}
    <2>1. PICK f : /\ Shows(f)
                   /\ Rendered = UNION {f[{}][q] : q \in IF entries = {} THEN Plugins ELSE entries}
        BY RenderedIs
    <2>2. T \in SUBSET Plugins /\ T # {}
        BY DEF Reaches
    <2>3. PICK e \in T : \A q \in T : q \in Dependents(e) => q \in OnCycle
        BY <2>2, FewestDependents
    <2>4. e \in Plugins /\ Reaches(p, e)
        OBVIOUS
    <2>5. Succ(e) = {}
        <3>1. ASSUME NEW q \in Succ(e) PROVE FALSE
            <4>1. q \in Plugins /\ q \in Dependents(e) /\ Reaches(p, q)
                BY <2>4, DependentsGrow, ReachesTransitive DEF Reaches
            <4> QED
                BY <2>3, <4>1
        <3> QED
            BY <3>1
    <2>6. p \in f[{}][e]
        BY <2>1, <2>4, ShownBelow
    <2> QED
        BY <2>1, <2>4, <2>5, <2>6
<1> QED
    BY <1>1, PTL

\* Whatever the plugins require of each other, the startup order, the cycles, the impact
\* and the drawing that HarnessGraph computes are those of the relation.
THEOREM AnswersAreExact == GraphSpec => []AnswersExact
<1>1. StartupExact /\ CyclesExact /\ ImpactExact /\ DrawingComplete => AnswersExact
    BY DEF AnswersExact
<1> QED
    BY <1>1, StartupOrderExact, CyclesReportedExact, ImpactIsExact, DrawingIsComplete, PTL
=============================================================================
