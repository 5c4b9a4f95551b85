----------------------------- MODULE WireFormat -----------------------------
(***************************************************************************)
(* How the model backends turn a history into the messages of a provider's *)
(* API and a reply into tool calls (plugins/models).  A message has a      *)
(* role, text or none, the ids of its tool calls, and for a tool result    *)
(* the id of the call it answers.                                          *)
(***************************************************************************)
EXTENDS Integers, Sequences, FiniteSets, SequencesExt

Block(t, id) == [type |-> t, id |-> id]
Text == Block("text", <<>>)

\* What a history becomes, message by message.
Through(step(_, _), base, history) ==
    LET upTo[k \in 0 .. Len(history)] == IF k = 0 THEN base ELSE step(upTo[k - 1], history[k])
    IN  upTo[Len(history)]

\* A turn of the same role as the last one is merged into it.
AddTurn(turns, role, blocks) ==
    IF turns # <<>> /\ Last(turns).role = role
    THEN [turns EXCEPT ![Len(turns)].blocks = @ \o blocks]
    ELSE Append(turns, [role |-> role, blocks |-> blocks])

\* The blocks of an assistant message; an empty one is left out by the callers.
AssistantBlocks(m) ==
    (IF m.text THEN <<Text>> ELSE <<>>) \o [k \in DOMAIN m.calls |-> Block("use", m.calls[k])]

FlushResults(w) ==
    IF w.pending = <<>> THEN w
    ELSE [turns |-> AddTurn(w.turns, "user", w.pending), pending |-> <<>>]

\* Anthropic: consecutive results are held back and become one user turn.
AnthropicStep(w, m) ==
    LET f == FlushResults(w) IN
    CASE m.role = "tool" -> [w EXCEPT !.pending = Append(@, Block("result", m.of))]
      [] m.role = "user" -> [f EXCEPT !.turns = AddTurn(@, "user", <<Text>>)]
      [] m.role = "assistant" /\ AssistantBlocks(m) # <<>> ->
            [f EXCEPT !.turns = AddTurn(@, "assistant", AssistantBlocks(m))]
      [] OTHER -> f

ToMessages(history) ==
    FlushResults(Through(AnthropicStep, [turns |-> <<>>, pending |-> <<>>], history)).turns

\* Bedrock's Converse differs in the names of its fields only.
ToConverse(history) == ToMessages(history)

\* Gemini: each result is added to the user turn as it comes.
GeminiStep(turns, m) ==
    CASE m.role = "tool" -> AddTurn(turns, "user", <<Block("result", m.of)>>)
      [] m.role = "user" -> AddTurn(turns, "user", <<Text>>)
      [] m.role = "assistant" /\ AssistantBlocks(m) # <<>> ->
            AddTurn(turns, "assistant", AssistantBlocks(m))
      [] OTHER -> turns

ToContents(history) == Through(GeminiStep, <<>>, history)

\* OpenAI and those compatible with it: message by message.
OpenAIStep(turns, m) ==
    CASE m.role = "tool" -> Append(turns, [role |-> "tool", blocks |-> <<Block("result", m.of)>>])
      [] m.role = "assistant" ->
            IF AssistantBlocks(m) = <<>> THEN turns
            ELSE Append(turns, [role |-> "assistant", blocks |-> AssistantBlocks(m)])
      [] OTHER -> Append(turns, [role |-> m.role, blocks |-> <<Text>>])

ToChatMessages(history) == Through(OpenAIStep, <<>>, history)

\* The calls of a reply.  parts says which part of it is a call; Gemini gives
\* calls no id, so one is made from the part's place (and the tool's name,
\* here the same for all).  The other providers' ids are new with every reply,
\* which is numbered from 1.
CallParts(parts) ==
    LET upTo[k \in 0 .. Len(parts)] ==
            IF k = 0 THEN <<>>
            ELSE IF parts[k] = "call" THEN Append(upTo[k - 1], k) ELSE upTo[k - 1]
    IN  upTo[Len(parts)]

ParseGemini(parts) ==
    LET at == CallParts(parts) IN [k \in DOMAIN at |-> <<0, at[k]>>]

ParseWithIds(parts, reply) ==
    LET at == CallParts(parts) IN [k \in DOMAIN at |-> <<reply, at[k]>>]
-----------------------------------------------------------------------------
\* The places of a turn's calls and of its results, and the rank of a place.
Uses(turn) == {j \in DOMAIN turn.blocks : turn.blocks[j].type = "use"}
Results(turn) == {j \in DOMAIN turn.blocks : turn.blocks[j].type = "result"}
Rank(j, places) == Cardinality({i \in places : i <= j})

\* A turn starts with the results of the calls of the one before, in the same
\* order, and has no others.
Answer(turn, before) ==
    /\ Results(turn) = 1 .. Cardinality(Uses(before))
    /\ \A u \in Uses(before) : turn.blocks[Rank(u, Uses(before))].id = before.blocks[u].id

\* What Anthropic, Bedrock and Gemini demand of a conversation: turns that
\* alternate from user to user, each with the results of the one before.
Alternating(turns) ==
    /\ turns # <<>> /\ Results(turns[1]) = {} /\ Uses(Last(turns)) = {} /\ Last(turns).role = "user"
    /\ \A k \in DOMAIN turns :
        /\ turns[k].role = IF k % 2 = 1 THEN "user" ELSE "assistant"
        /\ turns[k].blocks # <<>>
    /\ \A k \in 2 .. Len(turns) : Answer(turns[k], turns[k - 1])

\* What OpenAI demands: the messages after one with calls are their results.
Answered(turns) ==
    \A k \in DOMAIN turns :
        /\ \A u \in Uses(turns[k]) :
            LET place == k + Rank(u, Uses(turns[k])) IN
            place <= Len(turns) /\ turns[place].blocks = <<Block("result", turns[k].blocks[u].id)>>
        /\ turns[k].role = "tool" =>
            \E p \in 1 .. k - 1 : turns[p].role = "assistant" /\ k - p <= Cardinality(Uses(turns[p]))
=============================================================================
