----------------------------- MODULE Compaction -----------------------------
(***************************************************************************)
(* SummarizingContextManager: what of a growing history is sent to the     *)
(* model.  A step of the conversation is a user message, process() and the *)
(* request it leads to, a reply, or the results of its tool calls.  The    *)
(* content of a message is its size in tokens; texts below MinSize are     *)
(* never cut.  Positions are the code's: a cut at c hides history[:c].     *)
(***************************************************************************)
EXTENDS WireFormat, FiniteSets, FiniteSetsExt

CONSTANTS
    MaxMessages, KeepRecent, MaxTokens, MaxSummary,    \* the manager's settings
    MinSize,        \* _MIN_TRUNCATED_CHARS
    Sizes,          \* sizes of messages
    Replies,        \* the parts of a reply: sequences of "text" and "call"
    Drifts,         \* how far the provider's count is from the estimate
    MaxHistory,     \* bound: messages
    MaxRewinds      \* bound: times the history is cut back

ASSUME CompactionAssumption ==
    /\ MaxMessages \in Nat /\ KeepRecent \in Nat /\ KeepRecent < MaxMessages
    /\ MaxTokens \in Nat \ {0} /\ MaxSummary \in Nat \ {0} /\ MinSize \in Nat \ {0}
    /\ Sizes \subseteq Nat \ {0} /\ Drifts \subseteq Int /\ Replies \subseteq Seq({"text", "call"})
    /\ MaxHistory \in Nat /\ MaxRewinds \in Nat

VARIABLES
    history,
    memo,       \* SummaryState: upto, text (the recap's size), dropped_upto,
                \* head_chars and overflowed
    shift,      \* the usage anchor: input_tokens - sent_estimate
    phase,      \* "ready", or "sent" while a request is at the model
    layout,     \* the layout of the request
    rewinds,    \* history: rewinds so far
    folded      \* history: the messages the recap was made from

compVars == <<history, memo, shift, phase, layout, rewinds, folded>>

\* uid tells apart messages that stood at the same place before and after a rewind.
Message(role, size, text, calls, of, k) ==
    [role |-> role, size |-> size, text |-> text, calls |-> calls, of |-> of,
     uids |-> {<<Len(history) + k, rewinds>>}]

Fresh == [upto |-> 0, text |-> 0, dropped |-> 0, head |-> 0, overflowed |-> FALSE]

NoLayout == [head |-> <<>>, text |-> 0, omitted |-> 0, tail |-> <<>>]

CompInit ==
    /\ \E s \in Sizes :
        history = <<[role |-> "system", size |-> 1, text |-> TRUE, calls |-> <<>>, of |-> <<>>,
                     uids |-> {<<1, 0>>}],
                    [role |-> "user", size |-> s, text |-> TRUE, calls |-> <<>>, of |-> <<>>,
                     uids |-> {<<2, 0>>}]>>
    /\ memo = Fresh
    /\ shift = 0
    /\ phase = "ready"
    /\ layout = NoLayout
    /\ rewinds = 0
    /\ folded = {}
-----------------------------------------------------------------------------
(* The manager's functions.                                                *)

From(h, c) == SubSeq(h, c + 1, Len(h))
SizeOf(ms) ==
    LET upTo[k \in 0 .. Len(ms)] == IF k = 0 THEN 0 ELSE upTo[k - 1] + ms[k].size
    IN  upTo[Len(ms)]

\* _estimate: the estimator's count, moved by the anchor.
Estimate(ms) == Max({0, SizeOf(ms) + shift})

\* The leading system messages and the first user message.
PrefixEnd(h) ==
    LET sys == Max({k \in 0 .. Len(h) : \A j \in 1 .. k : h[j].role = "system"}) IN
    IF sys < Len(h) /\ h[sys + 1].role = "user" THEN sys + 1 ELSE sys

CutHead(head, limit) ==
    IF limit = 0 \/ head = <<>> \/ Last(head).role # "user" THEN head
    ELSE [head EXCEPT ![Len(head)].size = Min({@, limit})]

LayoutOf(head, h, cutoff, start, text) ==
    [head |-> head, text |-> text, omitted |-> start - cutoff, tail |-> From(h, start)]

\* The notes share a user message with the user messages they stand between.
Seam(l) ==
    LET before == IF l.head # <<>> /\ Last(l.head).role = "user" THEN <<Last(l.head)>> ELSE <<>>
        after == IF l.tail # <<>> /\ Head(l.tail).role = "user" THEN <<Head(l.tail)>> ELSE <<>>
        merged == before \o after
    IN  [role |-> "user", text |-> TRUE, calls |-> <<>>, of |-> <<>>,
         size |-> SizeOf(merged) + l.text + (IF l.omitted > 0 THEN 1 ELSE 0),
         uids |-> UNION {merged[k].uids : k \in DOMAIN merged}]

View(l) ==
    IF l.text = 0 /\ l.omitted = 0 THEN l.head \o l.tail
    ELSE LET before == IF l.head # <<>> /\ Last(l.head).role = "user" THEN Front(l.head) ELSE l.head
             after == IF l.tail # <<>> /\ Head(l.tail).role = "user" THEN Tail(l.tail) ELSE l.tail
         IN  before \o <<Seam(l)>> \o after

OverTokens(l) == Estimate(View(l)) > MaxTokens

OverBudget(h, start, l) ==
    IF Len(h) - start > MaxMessages THEN "messages"
    ELSE IF OverTokens(l) THEN "tokens" ELSE "none"

\* Half of the budget is the head's; 0 when nothing is to be cut.
HeadLimit(l) ==
    IF l.head = <<>> \/ Last(l.head).role # "user" THEN 0
    ELSE LET excess == Estimate(l.head) - MaxTokens \div 2
             size == Last(l.head).size
             keep == Max({size - excess, MinSize})
         IN  IF excess > 0 /\ keep < size THEN keep ELSE 0

\* A cut before a result, or between a call and its result, would orphan it.
BlockedCuts(h) ==
    UNION {LET callers == {p \in 1 .. i - 1 : h[i].of \in ToSet(h[p].calls)} IN
           {i - 1} \cup (IF callers = {} THEN {} ELSE Max(callers) .. i - 1)
           : i \in {i \in DOMAIN h : h[i].role = "tool"}}

Mutant_SafeCut(h, start, target) == target

SafeCut(h, start, target) ==
    LET open == (0 .. Len(h) - 1) \ BlockedCuts(h)
        later == {c \in open : c >= target}
        earlier == {c \in open : start < c /\ c < target}
    IN  CASE later # {} -> Min(later)
          [] later = {} /\ earlier # {} -> Max(earlier)
          [] OTHER -> start

ChooseCutoff(h, start, fixed) ==
    LET last == Len(h) - 1
        recent == Min({Max({start, Len(h) - KeepRecent}), last})
        budget == (MaxTokens - fixed) \div 2
        fits == {c \in recent .. last : c = last \/ SizeOf(From(h, c)) <= budget}
    IN  IF last <= start THEN start ELSE SafeCut(h, start, Min(fits))

\* A text longer than MinSize is cut to the target, but not below MinSize.
Shrink(m, target) ==
    IF m.size <= MinSize THEN m ELSE [m EXCEPT !.size = Max({target, MinSize})]

\* One round of _truncate: the largest message (the last of them) gives way.
ShrinkLargest(l) ==
    LET overflow == Estimate(View(l)) - MaxTokens
        candidates == {k \in DOMAIN l.tail : l.tail[k].size > MinSize}
        size == Max({l.tail[k].size : k \in candidates})
        largest == Max({k \in candidates : l.tail[k].size = size})
    IN  IF overflow <= 0 \/ candidates = {} THEN l
        ELSE [l EXCEPT !.tail = [k \in DOMAIN @ |->
                 IF k = largest THEN Shrink(@[k], size - overflow) ELSE @[k]]]

\* Large results are capped first; each round then ends it or uses one message up.
Capped(l) ==
    LET cap == Max({MaxTokens \div 8, 1}) IN
    [l EXCEPT !.tail =
        [k \in DOMAIN @ |-> IF @[k].role = "tool" /\ @[k].size > cap THEN Shrink(@[k], cap) ELSE @[k]]]

Mutant_Truncate(l) == Capped(l)

Truncate(l) ==
    LET round[k \in 0 .. Len(l.tail)] == IF k = 0 THEN Capped(l) ELSE ShrinkLargest(round[k - 1])
    IN  round[Len(l.tail)]

SummaryLimit == Min({MaxSummary, Max({MaxTokens \div 4, 1})})

\* The messages that _summarize is given to fold, beside the recap so far.
Mutant_ToFold(h, cutoff, start, target) == SubSeq(h, start + 1, target)

ToFold(h, cutoff, start, target) == SubSeq(h, cutoff + 1, target)
-----------------------------------------------------------------------------
(* process(), as a chain of what it knows: the state m, where the recap and *)
(* the view end (cutoff, start), the layout l and the folded messages f.    *)

\* Cuts beyond the end of the history are stale.
Recalled ==
    IF memo.upto > Len(history) \/ memo.dropped > Len(history) THEN Fresh ELSE memo

Opened ==
    LET m == Recalled
        end == PrefixEnd(history)
        cutoff == Max({m.upto, end})
        start == Max({cutoff, m.dropped})
    IN  [m |-> m, cutoff |-> cutoff, start |-> start,
         f |-> IF m = memo THEN folded ELSE {},
         l |-> LayoutOf(CutHead(SubSeq(history, 1, end), m.head), history, cutoff, start, m.text)]

\* A head that fills the budget is cut first, once.
HeadTrimmed(p) ==
    LET limit == IF p.m.head = 0 /\ OverTokens(p.l) THEN HeadLimit(p.l) ELSE 0 IN
    IF limit = 0 THEN p
    ELSE [p EXCEPT !.m.head = limit, !.l.head = CutHead(@, limit)]

\* Messages without text and calls are not shown to the summarizer; without
\* any to show, the recap stays as it is, if there is one.  recap = 0 stands
\* for a model that is missing, fails or replies with nothing.
Summarize(prior, ms, recap) ==
    IF \E k \in DOMAIN ms : ms[k].text \/ ms[k].calls # <<>> THEN recap ELSE prior

\* The oldest messages of the view are folded, or dropped.
Folded(p, recap) ==
    LET fixed == Estimate(View([p.l EXCEPT !.tail = <<>>]))
        foldable == OverBudget(history, p.start, p.l) = "messages" \/ fixed < MaxTokens
        target == IF foldable THEN ChooseCutoff(history, p.start, fixed) ELSE p.start
        given == ToFold(history, p.cutoff, p.start, target)
        text == Summarize(p.m.text, given, recap)
        Relaid(m, cutoff) == LayoutOf(p.l.head, history, cutoff, target, m.text)
    IN  IF target <= p.start THEN p
        ELSE IF text # 0
        THEN LET m == [p.m EXCEPT !.text = text, !.upto = target] IN
             [p EXCEPT !.m = m, !.cutoff = target, !.start = target, !.l = Relaid(m, target),
                       !.f = @ \cup UNION {given[k].uids : k \in DOMAIN given}]
        ELSE LET m == [p.m EXCEPT !.dropped = target] IN
             [p EXCEPT !.m = m, !.start = target, !.l = Relaid(m, p.cutoff)]

Truncated(p) == IF OverTokens(p.l) THEN [p EXCEPT !.l = Truncate(@)] ELSE p

Processed(recap) ==
    LET o == Opened
        t == HeadTrimmed(o)
        Fits(p) == OverBudget(history, p.start, p.l) = "none"
        last == IF Fits(o) THEN o ELSE IF Fits(t) THEN t ELSE Truncated(Folded(t, recap))
    IN  [last EXCEPT !.m.overflowed = OverTokens(last.l)]
-----------------------------------------------------------------------------
Unanswered == history # <<>> /\ Last(history).calls # <<>>

\* A message of the user: a new turn, or an intervention after tool results.
UserTurn(size) ==
    /\ phase = "ready" /\ ~Unanswered /\ Len(history) < MaxHistory
    /\ Max({memo.upto, memo.dropped}) <= Len(history)
    /\ history' = Append(history, Message("user", size, TRUE, <<>>, <<>>, 1))
    /\ UNCHANGED <<memo, shift, phase, layout, rewinds, folded>>

Process(recap) ==
    /\ phase = "ready" /\ ~Unanswered /\ Last(history).role \in {"user", "tool"}
    /\ LET p == Processed(recap) IN
       /\ memo' = p.m
       /\ layout' = p.l
       /\ folded' = p.f
    /\ phase' = "sent"
    /\ UNCHANGED <<history, shift, rewinds>>

\* A reply that reports its input tokens moves the anchor.  Which provider it
\* is from can change from call to call.
Respond(size, parts, gemini, drift) ==
    /\ phase = "sent" /\ Len(history) < MaxHistory
    /\ LET calls == IF gemini THEN ParseGemini(parts)
                    ELSE ParseWithIds(parts, Len(history) + MaxHistory * rewinds)
       IN  history' = Append(history, Message("assistant", size, "text" \in ToSet(parts), calls, <<>>, 1))
    /\ "text" \notin ToSet(parts) => size = Min(Sizes)
    /\ shift' = IF SizeOf(View(layout)) + drift > 0 THEN drift ELSE shift
    /\ phase' = "ready" /\ layout' = NoLayout
    /\ UNCHANGED <<memo, rewinds, folded>>

\* The request fails, and so does the run; the next one processes again.
RequestFails ==
    /\ phase = "sent"
    /\ phase' = "ready" /\ layout' = NoLayout
    /\ UNCHANGED <<history, memo, shift, rewinds, folded>>

\* The results are appended together, in the order of the calls.
ToolResults(size) ==
    /\ phase = "ready" /\ Unanswered
    /\ LET calls == Last(history).calls IN
       history' = history \o
        [k \in DOMAIN calls |-> Message("tool", IF k = 1 THEN size ELSE 1, TRUE, <<>>, calls[k], k)]
    /\ UNCHANGED <<memo, shift, phase, layout, rewinds, folded>>

\* The history is cut back to a user message before the last cut.  process()
\* can tell only while the history is shorter than it was at that cut, so it
\* has to run before more is appended: see UserTurn.
Rewind(n) ==
    /\ phase = "ready" /\ rewinds < MaxRewinds
    /\ 2 <= n /\ n < Max({memo.upto, memo.dropped}) /\ n < Len(history)
    /\ history[n].role = "user"
    /\ history' = SubSeq(history, 1, n)
    /\ rewinds' = rewinds + 1
    /\ UNCHANGED <<memo, shift, phase, layout, folded>>

CompNext ==
    \/ \E s \in Sizes : UserTurn(s) \/ ToolResults(s)
    \/ \E r \in {0, 1, SummaryLimit} : Process(r)
    \/ \E s \in Sizes, parts \in Replies, g \in BOOLEAN, d \in Drifts : Respond(s, parts, g, d)
    \/ RequestFails
    \/ \E n \in 2 .. MaxHistory : Rewind(n)

CompSpec == CompInit /\ [][CompNext]_compVars
-----------------------------------------------------------------------------
Sent == View(layout)
Shown == UNION {Sent[k].uids : k \in DOMAIN Sent}
Hidden == UNION {history[k].uids : k \in {k \in DOMAIN history : ~(history[k].uids \subseteq Shown)}}

\* Every request is one its provider accepts, whichever it is: turns alternate,
\* and every call is answered by results right after it, although the manager
\* cut the history, call ids repeat and providers change in mid-session.
RequestsWellFormed ==
    phase = "sent" =>
        /\ Alternating(ToMessages(Sent)) /\ Alternating(ToConverse(Sent))
        /\ Alternating(ToContents(Sent))
        /\ Answered(ToChatMessages(Sent))

\* Nothing leaves the prompt unmentioned: a message the model is not shown was
\* folded into the recap that it is shown, or is counted in the note about
\* omitted messages; and the recap is not about messages that are no longer
\* part of the conversation.
HiddenAccountedFor ==
    phase = "sent" =>
        /\ Cardinality(Hidden \ folded) = layout.omitted
        /\ Hidden \cap folded # {} => layout.text > 0
        /\ folded \subseteq UNION {history[k].uids : k \in DOMAIN history}

\* A request is over the token budget only when there was nothing left to cut,
\* and the state then says so; it is over the message budget only when no
\* later cut would have kept calls and results together.
BudgetKept ==
    phase = "sent" =>
        /\ OverTokens(layout) =>
            memo.overflowed /\ \A k \in DOMAIN layout.tail : layout.tail[k].size <= MinSize
        /\ Len(layout.tail) > MaxMessages =>
            \A c \in Len(history) - Len(layout.tail) + 1 .. Len(history) - 1 : c \in BlockedCuts(history)
=============================================================================
