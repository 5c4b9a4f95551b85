----------------------------- MODULE TextLines -----------------------------
(***************************************************************************)
(* The text functions of the file tools.  A text is a sequence of          *)
(* characters; a break is CR LF, a lone CR or a lone LF.                   *)
(***************************************************************************)
EXTENDS Integers, Sequences, SequencesExt, FiniteSetsExt

CONSTANT MaxLineChars       \* longest line shown, _MAX_LINE_CHARS

ASSUME TextAssumption == MaxLineChars \in Nat

(* s[a-1:b], clamped as a slice is. *)
Slice(s, a, b) == SubSeq(s, a, IF b < Len(s) THEN b ELSE Len(s))

Breaks(text) ==
    {i \in DOMAIN text : \/ text[i] = "CR"
                         \/ text[i] = "LF" /\ (i = 1 \/ text[i - 1] # "CR")}

BreakEnd(text, i) ==
    IF text[i] = "CR" /\ i < Len(text) /\ text[i + 1] = "LF" THEN i + 1 ELSE i

(* Those of the numbers from 1 to n that are among `places`, in order. *)
InOrder(places, n) ==
    LET upTo[k \in 0..n] ==
            IF k = 0 THEN <<>>
            ELSE IF k \in places THEN Append(upTo[k - 1], k) ELSE upTo[k - 1]
    IN  upTo[n]

(* Where the k-th line begins, when the lines end with the breaks bs. *)
LineStart(text, bs, k) == IF k = 1 THEN 1 ELSE BreakEnd(text, bs[k - 1]) + 1

(* split_lines *)
SplitLines(text) ==
    LET bs == InOrder(Breaks(text), Len(text))
        rest == SubSeq(text, LineStart(text, bs, Len(bs) + 1), Len(text))
    IN  [k \in 1..Len(bs) |-> SubSeq(text, LineStart(text, bs, k), bs[k] - 1)]
            \o (IF rest = <<>> THEN <<>> ELSE <<rest>>)

(* _extend *)
Extend(part, piece) ==
    IF part.cut THEN part
    ELSE [text |-> Slice(part.text \o piece, 1, MaxLineChars),
          cut  |-> Len(part.text) + Len(piece) > MaxLineChars]

Blank == [text |-> <<>>, cut |-> FALSE]

(* A line as read_file shows it. *)
Clipped(lines) == [k \in DOMAIN lines |-> Extend(Blank, lines[k])]

-----------------------------------------------------------------------------
(* str.count, str.replace: occurrences are found from the left and do not  *)
(* overlap.                                                                *)
Occurrences(text, old) ==
    LET starts == {i \in DOMAIN text : Slice(text, i, i + Len(old) - 1) = old}
        found[i \in starts] == \A j \in starts : i - Len(old) < j /\ j < i => ~found[j]
    IN  {i \in starts : found[i]}

(* The text with `new` for the old text at each of the positions `at`. *)
Substitute(text, at, old, new) ==
    LET upTo[i \in 0..Len(text)] ==
            IF i = 0 THEN <<>>
            ELSE upTo[i - 1] \o (IF i \in at THEN new
                                 ELSE IF \E j \in at : j < i /\ i < j + Len(old) THEN <<>>
                                 ELSE <<text[i]>>)
    IN  upTo[Len(text)]

Replaced(text, old, new) == Substitute(text, Occurrences(text, old), old, new)

ToLf(text) == Replaced(text, <<"CR", "LF">>, <<"LF">>)

ToCrlf(text) == Replaced(ToLf(text), <<"LF">>, <<"CR", "LF">>)

(* EditFile._apply, one edit: the text after it, or ok = FALSE for an      *)
(* _EditError.                                                             *)
ApplyOne(text, edit, crlf) ==
    LET recoded == Occurrences(text, edit.old) = {} /\ crlf /\ Contains(edit.old, "LF")
        old == IF recoded THEN ToCrlf(edit.old) ELSE edit.old
        new == IF recoded \/ (crlf /\ Contains(edit.new, "LF"))
               THEN ToCrlf(edit.new) ELSE edit.new
        at == Occurrences(text, old)
    IN  [ok   |-> /\ edit.old # <<>> /\ edit.old # edit.new
                  /\ at # {} /\ (edit.all \/ Cardinality(at) = 1),
         text |-> Substitute(text, at, old, new)]

Sequentially(text, edits, crlf) ==
    LET after[k \in 0..Len(edits)] ==
            IF k = 0 THEN [ok |-> TRUE, text |-> text]
            ELSE IF ~after[k - 1].ok THEN after[k - 1]
            ELSE ApplyOne(after[k - 1].text, edits[k], crlf)
    IN  after[Len(edits)]

ApplyEdits(text, edits) == Sequentially(text, edits, Len(ToLf(text)) < Len(text))

-----------------------------------------------------------------------------
(* What an edit list means: the model sees lines, not how they are broken, *)
(* so on a file with CR LF throughout it is applied as if to LF and the    *)
(* breaks are restored.                                                    *)
OnlyCrlf(text) ==
    \A b \in Breaks(text) : BreakEnd(text, b) = b + 1

AsSeen(text, edits) ==
    IF Breaks(text) # {} /\ OnlyCrlf(text)
    THEN LET done == Sequentially(ToLf(text), edits, FALSE)
         IN  [ok |-> done.ok, text |-> ToCrlf(done.text)]
    ELSE ApplyEdits(text, edits)
=============================================================================
