--------------------------- MODULE CompactionProofs ---------------------------
(***************************************************************************)
(* Proofs about Compaction for any settings of the manager, any sizes of   *)
(* messages, replies of any number of calls and any drift of the counts,   *)
(* over conversations of any length.                                       *)
(***************************************************************************)
EXTENDS Compaction, FiniteSetTheorems, FunctionTheorems, SequenceTheorems, WellFoundedInduction, TLAPS

CallLists ==
    {<<>>} \cup {ParseGemini(parts) : parts \in Replies}
           \cup {ParseWithIds(parts, n) : parts \in Replies, n \in Nat}

Answers == {<<>>} \cup UNION {{calls[k] : k \in DOMAIN calls} : calls \in CallLists}

Msg ==
    [role : {"system", "user", "assistant", "tool"}, size : Nat, text : BOOLEAN,
     calls : CallLists, of : Answers, uids : SUBSET (Nat \X Nat)]

Memos == [upto : Nat, text : Nat, dropped : Nat, head : Nat, overflowed : BOOLEAN]

Layouts == [head : Seq(Msg), text : Nat, omitted : Nat, tail : Seq(Msg)]

\* The message at k is where a result of the calls at p belongs.
CalledBy(h, k, p) == p < k /\ k - p <= Len(h[p].calls)

\* Only replies make calls, and they are to users or results; the results of calls
\* come right after them, in their order, and nowhere else, and all of them before
\* the conversation goes on.
InPlace(h, k) ==
    /\ h[k].calls # <<>> => h[k].role = "assistant"
    /\ h[k].role = "assistant" => k > 2 /\ h[k - 1].role \in {"user", "tool"}
    /\ h[k].role = "tool" => \E p \in 1 .. k : CalledBy(h, k, p)
    /\ \A p \in 1 .. k : CalledBy(h, k, p) => h[k].role = "tool" /\ h[k].of = h[p].calls[k - p]
    /\ k < Len(h) => k + Len(h[k].calls) <= Len(h)

\* A conversation: a system prompt, a request and what follows from it.
Dialogue(h) ==
    /\ Len(h) >= 2 /\ h[1].role = "system" /\ h[2].role = "user"
    /\ \A k \in 2 .. Len(h) : h[k].role # "system"
    /\ \A k \in 1 .. Len(h) : InPlace(h, k)

\* A complete conversation ends with a user or a result, and with no call waiting.
Complete(h) == Dialogue(h) /\ h[Len(h)].role \in {"user", "tool"}

CompType ==
    /\ history \in Seq(Msg) /\ Len(history) >= 2
    /\ memo \in Memos /\ shift \in Int /\ phase \in {"ready", "sent"}
    /\ layout \in Layouts /\ rewinds \in Nat

\* A history is a conversation, and a message knows its place in it.
HistoryInv ==
    /\ Dialogue(history)
    /\ \A k \in 1 .. Len(history) : \E r \in Nat : history[k].uids = {<<k, r>>}

\* A request is the user's turn, or one that results were given in.
RequestInv == phase = "sent" => history[Len(history)].role \in {"user", "tool"}

Stale == memo.upto > Len(history) \/ memo.dropped > Len(history)

\* The identities of the messages after the first a and up to the b-th.
Between(h, a, b) == UNION {h[k].uids : k \in (a + 1) .. b}

\* A cut before a message that is no result.
OpenCut(c) == c = 0 \/ (c < Len(history) /\ history[c + 1].role # "tool")

\* The recap is of the messages between the head and its cut, and no cut parts calls
\* from results, unless the history was cut back since, and then nothing but
\* process() is next.
MemoInv ==
    /\ memo.upto = 0 \/ (memo.upto > 2 /\ memo.text > 0)
    /\ ~Stale => folded = Between(history, 2, memo.upto)
    /\ ~Stale => OpenCut(memo.upto) /\ OpenCut(memo.dropped)
    /\ Stale => phase = "ready" /\ Last(history).calls = <<>>

CompInv ==
    /\ CompType /\ HistoryInv /\ RequestInv /\ MemoInv
    /\ BudgetKept /\ HiddenAccountedFor /\ RequestsWellFormed

-----------------------------------------------------------------------------
(* Numbers.  Induction comes from the well-foundedness of the inclusion of *)
(* finite sets, which the library states without an operator parameter.    *)

\* A set that has 0 and the successors of its numbers has every number.
LEMMA Induction ==
    ASSUME NEW S, 0 \in S, \A n \in Nat : n \in S => n + 1 \in S
    PROVE  Nat \subseteq S
<1> DEFINE T == {0..n : n \in Nat \ S}
<1>1. SUFFICES ASSUME T # {} PROVE FALSE
    OBVIOUS
<1>2. T \subseteq FiniteSubsetsOf(Nat)
    <2>1. ASSUME NEW n \in Nat PROVE 0..n \in FiniteSubsetsOf(Nat)
        BY FS_Interval DEF FiniteSubsetsOf
    <2> QED
        BY <2>1
<1>3. PICK x \in T : \A y \in T : ~(<<y, x>> \in StrictSubsetOrdering(Nat))
    <2>1. IsWellFoundedOn(StrictSubsetOrdering(Nat), FiniteSubsetsOf(Nat))
        BY FS_StrictSubsetOrderingWellFounded
    <2> HIDE DEF T
    <2> QED
        BY <1>1, <1>2, <2>1, WFMin
<1>4. PICK n \in Nat \ S : x = 0..n
    OBVIOUS
<1>5. n # 0 /\ n - 1 \in Nat /\ n - 1 \notin S
    BY <1>4
<1>6. 0..(n - 1) \in T
    BY <1>5
<1>7. /\ 0..(n - 1) \subseteq 0..n /\ 0..(n - 1) \subseteq Nat /\ 0..n \subseteq Nat
      /\ n \in 0..n /\ n \notin 0..(n - 1)
    BY <1>4
<1>8. <<0..(n - 1), x>> \in StrictSubsetOrdering(Nat)
    BY <1>4, <1>7 DEF StrictSubsetOrdering
<1> QED
    BY <1>3, <1>6, <1>8

\* A set of numbers has a least one.
LEMMA MinIs ==
    ASSUME NEW S \in SUBSET Nat, S # {}
    PROVE  Min(S) \in S /\ \A y \in S : Min(S) <= y
<1> DEFINE above == {n \in Nat : \A y \in S : y > n}
<1>1. \E x \in S : \A y \in S : x <= y
    <2> SUFFICES ASSUME \A x \in S : \E y \in S : ~(x <= y) PROVE FALSE
        OBVIOUS
    <2>1. 0 \in above
        OBVIOUS
    <2>2. ASSUME NEW n \in Nat, n \in above PROVE n + 1 \in above
        <3> SUFFICES ASSUME NEW y \in S, ~(y > n + 1) PROVE FALSE
            OBVIOUS
        <3>1. y = n + 1
            BY <2>2
        <3>2. PICK z \in S : ~(y <= z)
            OBVIOUS
        <3> QED
            BY <2>2, <3>1, <3>2
    <2> HIDE DEF above
    <2>3. Nat \subseteq above
        BY <2>1, <2>2, Induction
    <2>4. PICK x \in S : TRUE
        OBVIOUS
    <2>5. x \in Nat /\ x \in above
        BY <2>3
    <2> QED
        BY <2>5 DEF above
<1> QED
    BY <1>1 DEF Min

\* A set of numbers with a bound has a largest one.
LEMMA MaxIs ==
    ASSUME NEW S \in SUBSET Nat, S # {}, NEW b \in Nat, \A y \in S : y <= b
    PROVE  Max(S) \in S /\ \A y \in S : Max(S) >= y
<1> DEFINE down == {b - y : y \in S}
<1>1. down \in SUBSET Nat /\ down # {}
    <2>1. ASSUME NEW y \in S PROVE b - y \in Nat
        OBVIOUS
    <2> QED
        BY <2>1
<1>2. Min(down) \in down /\ \A d \in down : Min(down) <= d
    BY <1>1, MinIs
<1>3. PICK x \in S : Min(down) = b - x
    BY <1>2
<1>4. ASSUME NEW y \in S PROVE x >= y
    <2>1. b - x <= b - y
        BY <1>2, <1>3
    <2> QED
        BY <2>1
<1> QED
    BY <1>4 DEF Max

\* The larger and the smaller of two.
LEMMA OfTwo ==
    ASSUME NEW a \in Int, NEW b \in Int
    PROVE  Max({a, b}) = (IF a >= b THEN a ELSE b) /\ Min({a, b}) = (IF a <= b THEN a ELSE b)
<1>1. \E x \in {a, b} : \A y \in {a, b} : x >= y
    OBVIOUS
<1>2. \E x \in {a, b} : \A y \in {a, b} : x <= y
    OBVIOUS
<1>3. Max({a, b}) \in {a, b} /\ \A y \in {a, b} : Max({a, b}) >= y
    BY <1>1 DEF Max
<1>4. Min({a, b}) \in {a, b} /\ \A y \in {a, b} : Min({a, b}) <= y
    BY <1>2 DEF Min
<1> HIDE DEF Max, Min
<1> QED
    BY <1>3, <1>4

-----------------------------------------------------------------------------
(* Recursion.                                                              *)

\* f has a first value and a next one for each.
Iterates(f, base, next, n) == f[0] = base /\ \A k \in 1 .. n : f[k] = next[k][f[k - 1]]

\* There is such a function, one value after the other.
LEMMA Recursion ==
    ASSUME NEW S, NEW base \in S, NEW n \in Nat, NEW next \in [1 .. n -> [S -> S]]
    PROVE  \E f \in [0 .. n -> S] : Iterates(f, base, next, n)
<1> DEFINE Upto(f, m) ==
               /\ f \in [0 .. m -> S] /\ f[0] = base
               /\ \A k \in 1 .. m : f[k] = next[k][f[k - 1]]
           T == {m \in Nat : m <= n => \E f : Upto(f, m)}
<1>1. 0 \in T
    <2>1. Upto([k \in 0 .. 0 |-> base], 0)
        OBVIOUS
    <2> QED
        BY <2>1
<1>2. ASSUME NEW m \in Nat, m \in T PROVE m + 1 \in T
    <2> SUFFICES ASSUME m + 1 <= n PROVE \E f : Upto(f, m + 1)
        OBVIOUS
    <2>1. PICK f : Upto(f, m)
        BY <1>2
    <2> DEFINE last == next[m + 1][f[m]]
               g == [k \in 0 .. (m + 1) |-> IF k \in 0 .. m THEN f[k] ELSE last]
    <2>2. last \in S
        BY <2>1
    <2>3. g \in [0 .. (m + 1) -> S] /\ g[0] = base
        BY <2>1, <2>2
    <2>4. ASSUME NEW k \in 1 .. (m + 1) PROVE g[k] = next[k][g[k - 1]]
        <3>1. CASE k \in 1 .. m
            <4>1. k - 1 \in 0 .. m /\ k \in 0 .. m
                BY <3>1
            <4> QED
                BY <2>1, <3>1, <4>1
        <3>2. CASE k = m + 1
            <4>1. g[k] = last /\ g[k - 1] = f[m]
                BY <3>2
            <4> QED
                BY <3>2, <4>1
        <3> QED
            BY <3>1, <3>2
    <2>5. Upto(g, m + 1)
        BY <2>3, <2>4
    <2> QED
        BY <2>5
<1> HIDE DEF T
<1>3. Nat \subseteq T
    BY <1>1, <1>2, Induction
<1>4. \E f : Upto(f, n)
    BY <1>3 DEF T
<1> QED
    BY <1>4 DEF Iterates

\* The fields of a message of a list.
LEMMA Fields ==
    ASSUME NEW s \in Seq(Msg), NEW k \in 1 .. Len(s)
    PROVE  /\ s[k] \in Msg /\ s[k].size \in Nat /\ s[k].uids \in SUBSET (Nat \X Nat)
           /\ s[k].calls \in CallLists
<1>1. s[k] \in Msg
    BY ElementOfSeq
<1> QED
    BY <1>1 DEF Msg

\* SizeOf adds the sizes up, one after the other.
LEMMA SizeIs ==
    ASSUME NEW s \in Seq(Msg)
    PROVE  \E f \in [0 .. Len(s) -> Nat] :
              f[0] = 0 /\ (\A k \in 1 .. Len(s) : f[k] = f[k - 1] + s[k].size) /\ SizeOf(s) = f[Len(s)]
<1> DEFINE n == Len(s)
           next == [k \in 1 .. n |-> [x \in Nat |-> x + s[k].size]]
           Sums(h) == h = [k \in 0 .. n |-> IF k = 0 THEN 0 ELSE h[k - 1] + s[k].size]
           g == CHOOSE upTo : upTo = [k \in 0 .. Len(s) |-> IF k = 0 THEN 0 ELSE upTo[k - 1] + s[k].size]
<1>1. n \in Nat /\ \A k \in 1 .. n : s[k].size \in Nat
    BY Fields
<1>2. next \in [1 .. n -> [Nat -> Nat]]
    BY <1>1
<1>3. PICK f \in [0 .. n -> Nat] : f[0] = 0 /\ \A k \in 1 .. n : f[k] = next[k][f[k - 1]]
    <2> HIDE DEF next, n
    <2>1. \E f \in [0 .. n -> Nat] : Iterates(f, 0, next, n)
        BY <1>1, <1>2, Recursion
    <2> QED
        BY <2>1 DEF Iterates
<1>4. \A k \in 1 .. n : f[k] = f[k - 1] + s[k].size
    <2> TAKE k \in 1 .. n
    <2>1. k - 1 \in 0 .. n
        BY <1>1
    <2>2. next[k][f[k - 1]] = f[k - 1] + s[k].size
        BY <2>1
    <2> QED
        BY <1>3, <2>2
<1>5. Sums(f)
    BY <1>1, <1>3, <1>4
<1>6. Sums(g)
    BY <1>5, Zenon
<1>7. SizeOf(s) = g[n]
    BY DEF SizeOf
<1> HIDE DEF g, next, n
<1> DEFINE T == {k \in Nat : k <= n => g[k] = f[k]}
<1>8. 0 \in T
    BY <1>1, <1>3, <1>6
<1>9. ASSUME NEW k \in Nat, k \in T PROVE k + 1 \in T
    <2> SUFFICES ASSUME k + 1 <= n PROVE g[k + 1] = f[k + 1]
        OBVIOUS
    <2>1. k + 1 \in 0 .. n /\ k + 1 \in 1 .. n /\ k + 1 # 0 /\ (k + 1) - 1 = k /\ g[k] = f[k]
        BY <1>1, <1>9
    <2>2. g[k + 1] = g[k] + s[k + 1].size
        BY <1>6, <2>1
    <2> QED
        BY <1>4, <2>1, <2>2
<1> HIDE DEF T
<1>10. Nat \subseteq T
    BY <1>8, <1>9, Induction
<1>11. g[n] = f[n]
    BY <1>1, <1>10 DEF T
<1> QED
    BY <1>3, <1>4, <1>7, <1>11 DEF n

\* One message more adds its size.
LEMMA SizeAppend ==
    ASSUME NEW s \in Seq(Msg), NEW m \in Msg
    PROVE  SizeOf(Append(s, m)) = SizeOf(s) + m.size /\ SizeOf(s) \in Nat
<1> DEFINE t == Append(s, m)
           n == Len(s)
<1>1. t \in Seq(Msg) /\ Len(t) = n + 1 /\ t[n + 1] = m /\ \A k \in 1 .. n : t[k] = s[k]
    BY AppendProperties
<1>2. n \in Nat
    OBVIOUS
<1> HIDE DEF t
<1>3. PICK f \in [0 .. n -> Nat] :
          f[0] = 0 /\ (\A k \in 1 .. n : f[k] = f[k - 1] + s[k].size) /\ SizeOf(s) = f[n]
    BY SizeIs
<1>4. PICK g \in [0 .. (n + 1) -> Nat] :
          g[0] = 0 /\ (\A k \in 1 .. (n + 1) : g[k] = g[k - 1] + t[k].size) /\ SizeOf(t) = g[n + 1]
    BY <1>1, SizeIs
<1> DEFINE T == {k \in Nat : k <= n => g[k] = f[k]}
<1> HIDE DEF n
<1>5. 0 \in T
    BY <1>3, <1>4
<1>6. ASSUME NEW k \in Nat, k \in T PROVE k + 1 \in T
    <2> SUFFICES ASSUME k + 1 <= n PROVE g[k + 1] = f[k + 1]
        OBVIOUS
    <2>1. k + 1 \in 1 .. n /\ k + 1 \in 1 .. (n + 1) /\ (k + 1) - 1 = k /\ g[k] = f[k]
        BY <1>2, <1>6
    <2>2. g[k + 1] = g[k] + t[k + 1].size /\ f[k + 1] = f[k] + s[k + 1].size
        BY <1>3, <1>4, <2>1
    <2> QED
        BY <1>1, <2>1, <2>2
<1> HIDE DEF T
<1>7. Nat \subseteq T
    BY <1>5, <1>6, Induction
<1>8. g[n] = f[n] /\ n + 1 \in 1 .. (n + 1) /\ (n + 1) - 1 = n /\ n \in 0 .. n
    BY <1>2, <1>7 DEF T
<1>9. g[n + 1] = g[n] + t[n + 1].size
    BY <1>4, <1>8
<1> QED
    BY <1>1, <1>3, <1>4, <1>8, <1>9 DEF t

\* No messages have no size.
LEMMA SizeEmpty == SizeOf(<<>>) = 0
<1>1. <<>> \in Seq(Msg) /\ Len(<<>>) = 0
    OBVIOUS
<1> QED
    BY <1>1, SizeIs

\* The sizes of two lists add up.
LEMMA SizeConcat ==
    ASSUME NEW s \in Seq(Msg), NEW t \in Seq(Msg)
    PROVE  SizeOf(s \o t) = SizeOf(s) + SizeOf(t)
<1> DEFINE T == {n \in Nat : \A u \in Seq(Msg) : Len(u) = n => SizeOf(s \o u) = SizeOf(s) + SizeOf(u)}
<1>0. SizeOf(s) \in Nat
    <2>1. Len(s) \in 0 .. Len(s)
        OBVIOUS
    <2> QED
        BY <2>1, SizeIs
<1>1. 0 \in T
    <2> SUFFICES ASSUME NEW u \in Seq(Msg), Len(u) = 0 PROVE SizeOf(s \o u) = SizeOf(s) + SizeOf(u)
        OBVIOUS
    <2>1. u = <<>> /\ s \o <<>> = s
        BY EmptySeq, ConcatEmptySeq
    <2> QED
        BY <1>0, <2>1, SizeEmpty
<1>2. ASSUME NEW n \in Nat, n \in T PROVE n + 1 \in T
    <2> SUFFICES ASSUME NEW u \in Seq(Msg), Len(u) = n + 1 PROVE SizeOf(s \o u) = SizeOf(s) + SizeOf(u)
        OBVIOUS
    <2> DEFINE v == SubSeq(u, 1, n)
               m == u[n + 1]
    <2>1. v \in Seq(Msg) /\ Len(v) = n /\ m \in Msg /\ u = Append(v, m)
        BY AppendProperties
    <2> HIDE DEF v, m
    <2>2. s \o Append(v, m) = Append(s \o v, m) /\ s \o v \in Seq(Msg)
        BY <2>1
    <2>3. SizeOf(s \o v) = SizeOf(s) + SizeOf(v)
        BY <1>2, <2>1
    <2>4. SizeOf(Append(s \o v, m)) = SizeOf(s \o v) + m.size /\ SizeOf(Append(v, m)) = SizeOf(v) + m.size
          /\ SizeOf(v) \in Nat
        BY <2>1, <2>2, SizeAppend
    <2>5. m.size \in Nat
        BY <2>1 DEF Msg
    <2> QED
        BY <1>0, <2>1, <2>2, <2>3, <2>4, <2>5
<1> HIDE DEF T
<1>3. Nat \subseteq T
    BY <1>1, <1>2, Induction
<1>4. Len(t) \in T
    BY <1>3
<1> QED
    BY <1>4 DEF T

\* A list of one message.
LEMMA SizeOne == ASSUME NEW m \in Msg PROVE SizeOf(<<m>>) = m.size
<1>1. <<>> \in Seq(Msg) /\ Append(<<>>, m) = <<m>> /\ m.size \in Nat
    BY DEF Msg
<1>2. SizeOf(Append(<<>>, m)) = SizeOf(<<>>) + m.size
    BY <1>1, SizeAppend
<1> QED
    BY <1>1, <1>2, SizeEmpty

\* The places of the calls of a reply are a list.
LEMMA CallPartsIs == ASSUME NEW parts \in Replies PROVE CallParts(parts) \in Seq(Nat)
<1> DEFINE n == Len(parts)
           next == [k \in 1 .. n |-> [x \in Seq(Nat) |-> IF parts[k] = "call" THEN Append(x, k) ELSE x]]
           Lists(h) == h = [k \in 0 .. n |-> IF k = 0 THEN <<>>
                                ELSE IF parts[k] = "call" THEN Append(h[k - 1], k) ELSE h[k - 1]]
           g == CHOOSE upTo : upTo = [k \in 0 .. Len(parts) |-> IF k = 0 THEN <<>>
                    ELSE IF parts[k] = "call" THEN Append(upTo[k - 1], k) ELSE upTo[k - 1]]
<1>1. n \in Nat
    BY CompactionAssumption
<1>2. next \in [1 .. n -> [Seq(Nat) -> Seq(Nat)]]
    <2>1. ASSUME NEW k \in 1 .. n, NEW x \in Seq(Nat)
          PROVE  (IF parts[k] = "call" THEN Append(x, k) ELSE x) \in Seq(Nat)
        <3>1. k \in Nat
            BY <1>1
        <3> QED
            BY <3>1, AppendProperties
    <2> QED
        BY <2>1
<1>3. <<>> \in Seq(Nat)
    OBVIOUS
<1>4. PICK f \in [0 .. n -> Seq(Nat)] : Iterates(f, <<>>, next, n)
    <2> HIDE DEF next, n
    <2> QED
        BY <1>1, <1>2, <1>3, Recursion
<1>5. \A k \in 1 .. n : f[k] = IF parts[k] = "call" THEN Append(f[k - 1], k) ELSE f[k - 1]
    <2> TAKE k \in 1 .. n
    <2>1. k - 1 \in 0 .. n
        BY <1>1
    <2> QED
        BY <1>4, <2>1 DEF Iterates
<1>6. Lists(f)
    <2>1. f[0] = <<>>
        BY <1>4 DEF Iterates
    <2>2. \A k \in 0 .. n : k = 0 \/ k \in 1 .. n
        BY <1>1
    <2> HIDE DEF next, n
    <2>3. \A k \in 0 .. n : f[k] = IF k = 0 THEN <<>>
                              ELSE IF parts[k] = "call" THEN Append(f[k - 1], k) ELSE f[k - 1]
        BY <1>5, <2>1, <2>2
    <2> QED
        BY <2>3
<1>7. Lists(g)
    BY <1>6, Zenon
<1>8. CallParts(parts) = g[n]
    BY DEF CallParts
<1> HIDE DEF g, next, n
<1> DEFINE T == {k \in Nat : k <= n => g[k] \in Seq(Nat)}
<1>9. 0 \in T
    BY <1>1, <1>7
<1>10. ASSUME NEW k \in Nat, k \in T PROVE k + 1 \in T
    <2> SUFFICES ASSUME k + 1 <= n PROVE g[k + 1] \in Seq(Nat)
        OBVIOUS
    <2>1. k + 1 \in 0 .. n /\ k + 1 # 0 /\ (k + 1) - 1 = k /\ g[k] \in Seq(Nat)
        BY <1>1, <1>10
    <2>2. g[k + 1] = IF parts[k + 1] = "call" THEN Append(g[k], k + 1) ELSE g[k]
        BY <1>7, <2>1
    <2> QED
        BY <2>1, <2>2, AppendProperties
<1> HIDE DEF T
<1>11. Nat \subseteq T
    BY <1>9, <1>10, Induction
<1> QED
    BY <1>1, <1>8, <1>11 DEF T

\* The calls of a message are a list.
LEMMA CallsAreLists == ASSUME NEW calls \in CallLists PROVE calls \in Seq(Answers)
<1>1. \A k \in DOMAIN calls : calls[k] \in Answers
    BY DEF Answers
<1>2. CASE calls = <<>>
    BY <1>2
<1>3. ASSUME NEW parts \in Replies, NEW r, calls = [k \in DOMAIN CallParts(parts) |-> <<r, CallParts(parts)[k]>>]
      PROVE  calls \in Seq(Answers)
    <2> DEFINE n == Len(CallParts(parts))
    <2>1. n \in Nat /\ DOMAIN CallParts(parts) = 1 .. n
        BY CallPartsIs
    <2>2. calls = [k \in 1 .. n |-> calls[k]] /\ DOMAIN calls = 1 .. n
        BY <1>3, <2>1
    <2> HIDE DEF n
    <2> QED
        BY <1>1, <2>1, <2>2
<1>4. CASE \E parts \in Replies : calls = ParseGemini(parts)
    BY <1>3, <1>4 DEF ParseGemini
<1>5. CASE \E parts \in Replies, n \in Nat : calls = ParseWithIds(parts, n)
    BY <1>3, <1>5 DEF ParseWithIds
<1> QED
    BY <1>2, <1>4, <1>5 DEF CallLists

-----------------------------------------------------------------------------
(* Turns.                                                                  *)

Blocks == [type : {"text", "use", "result"}, id : Answers]
Turns == [role : {"system", "user", "assistant", "tool"}, blocks : Seq(Blocks)]

\* The parts of a message.
LEMMA MsgParts ==
    ASSUME NEW m \in Msg
    PROVE  /\ m.role \in {"system", "user", "assistant", "tool"} /\ m.text \in BOOLEAN
           /\ m.calls \in Seq(Answers) /\ m.of \in Answers
<1>1. m.calls \in CallLists
    BY DEF Msg
<1> QED
    BY <1>1, CallsAreLists DEF Msg

\* The blocks there are.
LEMMA BlockIs ==
    /\ Text \in Blocks /\ Text.type = "text"
    /\ \A t \in {"text", "use", "result"}, id \in Answers :
        Block(t, id) \in Blocks /\ Block(t, id).type = t /\ Block(t, id).id = id
BY DEF Blocks, Block, Text, Answers

\* An assistant message is its text, if it has one, and its calls.
Offset(m) == IF m.text THEN 1 ELSE 0

\* Its blocks, one by one.
LEMMA AssistantBlocksAre ==
    ASSUME NEW m \in Msg
    PROVE  LET b == AssistantBlocks(m) IN
           /\ b \in Seq(Blocks) /\ Len(b) = Offset(m) + Len(m.calls)
           /\ \A k \in 1 .. Offset(m) : b[k] = Text
           /\ \A j \in 1 .. Len(m.calls) : b[Offset(m) + j] = Block("use", m.calls[j])
<1> DEFINE n == Len(m.calls)
           a == IF m.text THEN <<Text>> ELSE <<>>
           c == [k \in DOMAIN m.calls |-> Block("use", m.calls[k])]
           b == a \o c
<1>1. m.calls \in Seq(Answers) /\ n \in Nat /\ DOMAIN m.calls = 1 .. n /\ m.text \in BOOLEAN
    BY MsgParts
<1>2. a \in Seq(Blocks) /\ Len(a) = Offset(m) /\ (\A k \in 1 .. Offset(m) : a[k] = Text)
    BY BlockIs DEF Offset
<1>3. c \in Seq(Blocks) /\ Len(c) = n /\ \A j \in 1 .. n : c[j] = Block("use", m.calls[j])
    <2>1. \A j \in 1 .. n : Block("use", m.calls[j]) \in Blocks
        BY <1>1, BlockIs
    <2> QED
        BY <1>1, <2>1
<1>4. AssistantBlocks(m) = b
    BY DEF AssistantBlocks
<1>5. Offset(m) \in Nat
    BY DEF Offset
<1> HIDE DEF a, c, n
<1>6. /\ b \in Seq(Blocks) /\ Len(b) = Offset(m) + n
      /\ \A k \in 1 .. Offset(m) + n : b[k] = IF k <= Offset(m) THEN a[k] ELSE c[k - Offset(m)]
    <2>1. a \in Seq(Blocks) /\ c \in Seq(Blocks) /\ Len(a) = Offset(m) /\ Len(c) = n
        BY <1>2, <1>3
    <2>2. /\ b \in Seq(Blocks) /\ Len(b) = Len(a) + Len(c)
          /\ \A k \in 1 .. Len(a) + Len(c) : b[k] = IF k <= Len(a) THEN a[k] ELSE c[k - Len(a)]
        BY <2>1, ConcatProperties
    <2> HIDE DEF b
    <2> QED
        BY <2>1, <2>2
<1> HIDE DEF b
<1>7. \A k \in 1 .. Offset(m) : b[k] = Text
    BY <1>1, <1>2, <1>5, <1>6
<1>8. ASSUME NEW j \in 1 .. n PROVE b[Offset(m) + j] = Block("use", m.calls[j])
    <2>1. Offset(m) + j \in 1 .. Offset(m) + n /\ ~(Offset(m) + j <= Offset(m)) /\ (Offset(m) + j) - Offset(m) = j
        BY <1>1, <1>5
    <2> QED
        BY <1>3, <1>6, <2>1
<1> QED
    BY <1>4, <1>6, <1>7, <1>8 DEF n

\* A turn is merged into the last one when that is of the same role.
Merges(t, role) == Len(t) > 0 /\ t[Len(t)].role = role

\* The blocks end up in the last turn, the turns before it stay.
LEMMA AddTurnIs ==
    ASSUME NEW t \in Seq(Turns), NEW role \in {"user", "assistant"}, NEW b \in Seq(Blocks)
    PROVE  LET r == AddTurn(t, role, b)
               n == IF Merges(t, role) THEN Len(t) ELSE Len(t) + 1
           IN  /\ r \in Seq(Turns) /\ Len(r) = n
               /\ \A k \in 1 .. n - 1 : r[k] = t[k]
               /\ r[n] = [role |-> role, blocks |-> IF Merges(t, role) THEN t[Len(t)].blocks \o b ELSE b]
<1> DEFINE n == Len(t)
           r == AddTurn(t, role, b)
<1>1. n \in Nat /\ \A k \in 1 .. n : t[k] \in Turns
    BY ElementOfSeq
<1>2. (t # <<>> /\ Last(t).role = role) <=> Merges(t, role)
    BY EmptySeq DEF Merges, Last
<1>3. CASE Merges(t, role)
    <2> DEFINE x == [t[n] EXCEPT !.blocks = t[n].blocks \o b]
               s == [k \in 1 .. n |-> IF k = n THEN x ELSE t[k]]
    <2>1. t[n] \in Turns /\ n > 0
        BY <1>1, <1>3 DEF Merges
    <2>2. t[n].blocks \o b \in Seq(Blocks)
        BY <2>1, ConcatProperties DEF Turns
    <2>3. x \in Turns /\ x = [role |-> role, blocks |-> t[n].blocks \o b]
        <3> DEFINE y == t[n]
                   bs == y.blocks \o b
        <3>1. y \in Turns /\ y.role = role /\ bs \in Seq(Blocks)
            BY <1>3, <2>1, <2>2 DEF Merges
        <3> HIDE DEF y, bs
        <3>2. [y EXCEPT !.blocks = bs] \in Turns /\ [y EXCEPT !.blocks = bs] = [role |-> role, blocks |-> bs]
            BY <3>1 DEF Turns
        <3> QED
            BY <3>2 DEF y, bs
    <2>4. r = [t EXCEPT ![n].blocks = t[n].blocks \o b]
        BY <1>2, <1>3, Zenon DEF AddTurn
    <2>5. r = s
        <3>1. DOMAIN t = 1 .. n
            OBVIOUS
        <3>2. r = [k \in DOMAIN t |-> IF k = n THEN x ELSE t[k]]
            BY <2>4
        <3> HIDE DEF x, r, n
        <3> QED
            BY <3>1, <3>2
    <2> HIDE DEF x, r, n
    <2>6. s \in Seq(Turns) /\ Len(s) = n /\ s[n] = x /\ \A k \in 1 .. n - 1 : s[k] = t[k]
        BY <1>1, <2>1, <2>3
    <2> QED
        BY <1>3, <2>3, <2>5, <2>6 DEF n, r
<1>4. CASE ~Merges(t, role)
    <2> DEFINE x == [role |-> role, blocks |-> b]
    <2>1. x \in Turns
        BY DEF Turns
    <2>2. r = Append(t, x)
        BY <1>2, <1>4, Zenon DEF AddTurn
    <2> HIDE DEF x, r
    <2>3. r \in Seq(Turns) /\ Len(r) = n + 1 /\ r[n + 1] = x /\ \A k \in 1 .. n : r[k] = t[k]
        BY <2>1, <2>2, AppendProperties
    <2> QED
        BY <1>1, <1>4, <2>3 DEF x, r
<1> QED
    BY <1>3, <1>4

\* The turn it merges into gets the blocks, the ones before stay.
LEMMA AddTurnMerges ==
    ASSUME NEW t \in Seq(Turns), NEW role \in {"user", "assistant"}, NEW b \in Seq(Blocks), Merges(t, role)
    PROVE  LET r == AddTurn(t, role, b)
               n == Len(t)
           IN  /\ r \in Seq(Turns) /\ Len(r) = n /\ \A k \in 1 .. n - 1 : r[k] = t[k]
               /\ r[n] = [role |-> role, blocks |-> t[n].blocks \o b]
<1> DEFINE r == AddTurn(t, role, b)
           n == IF Merges(t, role) THEN Len(t) ELSE Len(t) + 1
<1>1. /\ r \in Seq(Turns) /\ Len(r) = n /\ \A k \in 1 .. n - 1 : r[k] = t[k]
      /\ r[n] = [role |-> role, blocks |-> IF Merges(t, role) THEN t[Len(t)].blocks \o b ELSE b]
    BY AddTurnIs, SMTT(30)
<1> HIDE DEF r
<1>2. n = Len(t)
    OBVIOUS
<1> HIDE DEF n
<1>3. /\ r \in Seq(Turns) /\ Len(r) = Len(t) /\ \A k \in 1 .. Len(t) - 1 : r[k] = t[k]
      /\ r[Len(t)] = [role |-> role, blocks |-> t[Len(t)].blocks \o b]
    BY <1>1, <1>2
<1> QED
    BY <1>3 DEF r

\* Blocks added in two goes are those added in one.
LEMMA AddTurnTwice ==
    ASSUME NEW t \in Seq(Turns), NEW role \in {"user", "assistant"}, NEW a \in Seq(Blocks), NEW b \in Seq(Blocks)
    PROVE  AddTurn(AddTurn(t, role, a), role, b) = AddTurn(t, role, a \o b)
<1> DEFINE n == IF Merges(t, role) THEN Len(t) ELSE Len(t) + 1
           r == AddTurn(t, role, a)
           s == AddTurn(r, role, b)
           q == AddTurn(t, role, a \o b)
<1>0. a \o b \in Seq(Blocks)
    BY ConcatProperties
<1>1. n \in Nat /\ n > 0 /\ (Merges(t, role) => t[Len(t)].blocks \in Seq(Blocks))
    <2>1. Len(t) \in Nat /\ (Merges(t, role) => Len(t) > 0 /\ t[Len(t)] \in Turns)
        BY ElementOfSeq DEF Merges
    <2> QED
        BY <2>1 DEF Turns
<1>2. /\ r \in Seq(Turns) /\ Len(r) = n
      /\ \A k \in 1 .. n - 1 : r[k] = t[k]
      /\ r[n] = [role |-> role, blocks |-> IF Merges(t, role) THEN t[Len(t)].blocks \o a ELSE a]
    BY AddTurnIs
<1>3. /\ q \in Seq(Turns) /\ Len(q) = n
      /\ \A k \in 1 .. n - 1 : q[k] = t[k]
      /\ q[n] = [role |-> role, blocks |-> IF Merges(t, role) THEN t[Len(t)].blocks \o (a \o b) ELSE a \o b]
    <2> DEFINE c == a \o b
    <2>1. c \in Seq(Blocks)
        BY <1>0
    <2> HIDE DEF c
    <2>2. LET x == AddTurn(t, role, c) IN
          /\ x \in Seq(Turns) /\ Len(x) = n
          /\ \A k \in 1 .. n - 1 : x[k] = t[k]
          /\ x[n] = [role |-> role, blocks |-> IF Merges(t, role) THEN t[Len(t)].blocks \o c ELSE c]
        BY <2>1, AddTurnIs
    <2> QED
        BY <2>2 DEF c
<1> HIDE DEF n, r, q
<1>4. Merges(r, role)
    BY <1>1, <1>2 DEF Merges
<1>5. /\ s \in Seq(Turns) /\ Len(s) = n
      /\ \A k \in 1 .. n - 1 : s[k] = r[k]
      /\ s[n] = [role |-> role, blocks |-> r[n].blocks \o b]
    <2>1. r \in Seq(Turns) /\ Merges(r, role) /\ Len(r) = n
        BY <1>2, <1>4
    <2>2. /\ s \in Seq(Turns) /\ Len(s) = Len(r)
          /\ \A k \in 1 .. Len(r) - 1 : s[k] = r[k]
          /\ s[Len(r)] = [role |-> role, blocks |-> r[Len(r)].blocks \o b]
        BY <2>1, AddTurnMerges
    <2> QED
        BY <2>1, <2>2
<1> HIDE DEF s
<1>6. s[n] = q[n]
    <2>1. CASE Merges(t, role)
        <3> DEFINE c == t[Len(t)].blocks
        <3>1. c \in Seq(Blocks)
            BY <1>1, <2>1
        <3>2. r[n].blocks = c \o a /\ q[n] = [role |-> role, blocks |-> c \o (a \o b)]
            BY <1>2, <1>3, <2>1
        <3> HIDE DEF c
        <3>3. (c \o a) \o b = c \o (a \o b)
            BY <3>1, ConcatAssociative
        <3> QED
            BY <1>5, <3>2, <3>3
    <2>2. CASE ~Merges(t, role)
        BY <1>2, <1>3, <1>5, <2>2
    <2> QED
        BY <2>1, <2>2
<1>7. \A k \in 1 .. n : s[k] = q[k]
    BY <1>1, <1>2, <1>3, <1>5, <1>6
<1>8. s = q
    BY <1>3, <1>5, <1>7, SeqEqual
<1> QED
    BY <1>8 DEF s, q, r

\* One message more, for Gemini.
LEMMA GeminiStepIs ==
    ASSUME NEW t \in Seq(Turns), NEW m \in Msg
    PROVE  /\ GeminiStep(t, m) \in Seq(Turns)
           /\ m.role = "tool" =>
                <<Block("result", m.of)>> \in Seq(Blocks)
                /\ GeminiStep(t, m) = AddTurn(t, "user", <<Block("result", m.of)>>)
           /\ m.role = "user" => <<Text>> \in Seq(Blocks) /\ GeminiStep(t, m) = AddTurn(t, "user", <<Text>>)
           /\ m.role = "assistant" /\ AssistantBlocks(m) # <<>> =>
                AssistantBlocks(m) \in Seq(Blocks) /\ GeminiStep(t, m) = AddTurn(t, "assistant", AssistantBlocks(m))
           /\ m.role = "system" \/ (m.role = "assistant" /\ AssistantBlocks(m) = <<>>) => GeminiStep(t, m) = t
<1>1. m.role \in {"system", "user", "assistant", "tool"} /\ m.of \in Answers
    BY MsgParts
<1>2. <<Block("result", m.of)>> \in Seq(Blocks) /\ <<Text>> \in Seq(Blocks) /\ AssistantBlocks(m) \in Seq(Blocks)
    <2>1. Block("result", m.of) \in Blocks /\ Text \in Blocks
        BY <1>1, BlockIs
    <2> QED
        BY <2>1, AssistantBlocksAre
<1>3. /\ m.role = "tool" => GeminiStep(t, m) = AddTurn(t, "user", <<Block("result", m.of)>>)
      /\ m.role = "user" => GeminiStep(t, m) = AddTurn(t, "user", <<Text>>)
      /\ m.role = "assistant" /\ AssistantBlocks(m) # <<>> =>
            GeminiStep(t, m) = AddTurn(t, "assistant", AssistantBlocks(m))
      /\ m.role = "system" \/ (m.role = "assistant" /\ AssistantBlocks(m) = <<>>) => GeminiStep(t, m) = t
    BY DEF GeminiStep
<1>4. \A role \in {"user", "assistant"}, b \in Seq(Blocks) : AddTurn(t, role, b) \in Seq(Turns)
    BY AddTurnIs
<1>5. GeminiStep(t, m) \in Seq(Turns)
    <2>1. CASE m.role = "tool"
        BY <1>2, <1>3, <1>4, <2>1
    <2>2. CASE m.role = "user"
        BY <1>2, <1>3, <1>4, <2>2
    <2>3. CASE m.role = "assistant" /\ AssistantBlocks(m) # <<>>
        BY <1>2, <1>3, <1>4, <2>3
    <2>4. CASE m.role = "system" \/ (m.role = "assistant" /\ AssistantBlocks(m) = <<>>)
        BY <1>3, <2>4
    <2> QED
        BY <1>1, <2>1, <2>2, <2>3, <2>4
<1> QED
    BY <1>2, <1>3, <1>5

\* What Gemini is sent grows message by message.
LEMMA ContentsAre ==
    ASSUME NEW h \in Seq(Msg)
    PROVE  \E g : /\ g[0] = <<>> /\ \A k \in 1 .. Len(h) : g[k] = GeminiStep(g[k - 1], h[k])
                  /\ ToContents(h) = g[Len(h)]
<1> DEFINE n == Len(h)
           next == [k \in 1 .. n |-> [x \in Seq(Turns) |-> GeminiStep(x, h[k])]]
           Grows(f) == f = [k \in 0 .. n |-> IF k = 0 THEN <<>> ELSE GeminiStep(f[k - 1], h[k])]
           g == CHOOSE upTo : upTo = [k \in 0 .. Len(h) |-> IF k = 0 THEN <<>> ELSE GeminiStep(upTo[k - 1], h[k])]
<1>1. n \in Nat /\ \A k \in 1 .. n : h[k] \in Msg
    BY ElementOfSeq
<1>2. next \in [1 .. n -> [Seq(Turns) -> Seq(Turns)]]
    <2>1. \A k \in 1 .. n, x \in Seq(Turns) : GeminiStep(x, h[k]) \in Seq(Turns)
        BY <1>1, GeminiStepIs
    <2> QED
        BY <2>1
<1>3. <<>> \in Seq(Turns)
    OBVIOUS
<1>4. PICK f \in [0 .. n -> Seq(Turns)] : Iterates(f, <<>>, next, n)
    <2> HIDE DEF next, n
    <2> QED
        BY <1>1, <1>2, <1>3, Recursion
<1>5. \A k \in 1 .. n : f[k] = GeminiStep(f[k - 1], h[k])
    <2> TAKE k \in 1 .. n
    <2>1. f[k - 1] \in Seq(Turns)
        BY <1>1, <1>4
    <2>2. f[k] = next[k][f[k - 1]]
        <3> HIDE DEF next, n
        <3> QED
            BY <1>4 DEF Iterates
    <2> QED
        BY <2>1, <2>2
<1>6. Grows(f)
    <2>1. f[0] = <<>>
        BY <1>4 DEF Iterates
    <2>2. \A k \in 0 .. n : k = 0 \/ k \in 1 .. n
        BY <1>1
    <2> HIDE DEF next, n
    <2>3. \A k \in 0 .. n : f[k] = IF k = 0 THEN <<>> ELSE GeminiStep(f[k - 1], h[k])
        BY <1>5, <2>1, <2>2
    <2> QED
        BY <1>4, <2>3
<1>7. Grows(g)
    BY <1>6, Zenon
<1>8. ToContents(h) = g[n]
    BY DEF ToContents, Through
<1> HIDE DEF g, next
<1>9. g[0] = <<>> /\ \A k \in 1 .. n : g[k] = GeminiStep(g[k - 1], h[k])
    <2>1. 0 \in 0 .. n /\ \A k \in 1 .. n : k \in 0 .. n /\ k # 0
        BY <1>1
    <2> HIDE DEF n
    <2> QED
        BY <1>7, <2>1
<1> QED
    BY <1>8, <1>9

-----------------------------------------------------------------------------
(* The results that are held back.                                         *)

Wires == [turns : Seq(Turns), pending : Seq(Blocks)]

\* Flushing adds the results that are held back, if there are any, to a user turn.
LEMMA FlushIs ==
    ASSUME NEW w \in Wires
    PROVE  LET f == FlushResults(w) IN
           /\ f \in Wires /\ f.pending = <<>>
           /\ f.turns = IF w.pending = <<>> THEN w.turns ELSE AddTurn(w.turns, "user", w.pending)
<1>1. w.turns \in Seq(Turns) /\ w.pending \in Seq(Blocks)
    BY DEF Wires
<1>2. AddTurn(w.turns, "user", w.pending) \in Seq(Turns) /\ <<>> \in Seq(Blocks)
    <2>1. <<>> \in Seq(Blocks)
        OBVIOUS
    <2> QED
        BY <1>1, <2>1, AddTurnIs
<1> QED
    BY <1>1, <1>2 DEF FlushResults, Wires

\* What has been added and what is held back, once it is added, is what Gemini's
\* way has added.
LEMMA AnthropicStepIs ==
    ASSUME NEW w \in Wires, NEW m \in Msg
    PROVE  /\ AnthropicStep(w, m) \in Wires
           /\ FlushResults(AnthropicStep(w, m)).turns = GeminiStep(FlushResults(w).turns, m)
<1> DEFINE f == FlushResults(w)
           r == AnthropicStep(w, m)
           result == <<Block("result", m.of)>>
<1>1. /\ f \in Wires /\ f.pending = <<>>
      /\ f.turns = IF w.pending = <<>> THEN w.turns ELSE AddTurn(w.turns, "user", w.pending)
    BY FlushIs
<1>2. w.turns \in Seq(Turns) /\ w.pending \in Seq(Blocks) /\ f.turns \in Seq(Turns)
    BY <1>1 DEF Wires
<1> HIDE DEF f
<1>3. m.role \in {"system", "user", "assistant", "tool"}
    BY MsgParts
<1>4. /\ m.role = "tool" => r = [w EXCEPT !.pending = Append(@, Block("result", m.of))]
      /\ m.role = "user" => r = [f EXCEPT !.turns = AddTurn(@, "user", <<Text>>)]
      /\ m.role = "assistant" /\ AssistantBlocks(m) # <<>> =>
            r = [f EXCEPT !.turns = AddTurn(@, "assistant", AssistantBlocks(m))]
      /\ m.role = "system" \/ (m.role = "assistant" /\ AssistantBlocks(m) = <<>>) => r = f
    BY DEF AnthropicStep, f
<1>5. CASE m.role = "tool"
    <2> DEFINE p == w.pending \o result
    <2>1. result \in Seq(Blocks) /\ GeminiStep(f.turns, m) = AddTurn(f.turns, "user", result)
        BY <1>2, <1>5, GeminiStepIs
    <2>2. Append(w.pending, Block("result", m.of)) = p
        BY <1>2, <2>1, AppendIsConcat, MsgParts, BlockIs
    <2>3. p \in Seq(Blocks) /\ p # <<>>
        <3>1. Len(result) = 1
            OBVIOUS
        <3> HIDE DEF result
        <3> QED
            <4>1. w.pending \in Seq(Blocks) /\ result \in Seq(Blocks)
                BY <1>2, <2>1
            <4>2. p \in Seq(Blocks) /\ Len(p) = Len(w.pending) + Len(result) /\ Len(w.pending) \in Nat
                BY <4>1, ConcatProperties
            <4> HIDE DEF p
            <4> QED
                BY <3>1, <4>2, EmptySeq
    <2>4. r = [w EXCEPT !.pending = p]
        BY <1>4, <1>5, <2>2
    <2> DEFINE q == p
    <2> HIDE DEF q, r
    <2>5. r = [w EXCEPT !.pending = q] /\ q \in Seq(Blocks)
        BY <2>3, <2>4 DEF q
    <2>6. r \in Wires /\ r.turns = w.turns /\ r.pending = q
        BY <2>5 DEF Wires
    <2>7. FlushResults(r).turns = AddTurn(w.turns, "user", q)
        BY <2>3, <2>6, FlushIs DEF q
    <2>8. GeminiStep(f.turns, m) = AddTurn(w.turns, "user", q)
        <3>1. CASE w.pending = <<>>
            <4>1. q = result
                <5> HIDE DEF result
                <5> QED
                    BY <2>1, <3>1, ConcatEmptySeq DEF q
            <4> QED
                BY <1>1, <2>1, <3>1, <4>1
        <3>2. CASE w.pending # <<>>
            <4> HIDE DEF result
            <4> QED
                BY <1>1, <1>2, <2>1, <3>2, AddTurnTwice DEF q
        <3> QED
            BY <3>1, <3>2
    <2> QED
        BY <2>6, <2>7, <2>8 DEF r, f
<1>6. CASE m.role # "tool"
    <2> DEFINE t == GeminiStep(f.turns, m)
    <2>1. r = [f EXCEPT !.turns = t]
        <3>1. f = [f EXCEPT !.turns = f.turns]
            BY <1>1 DEF Wires
        <3> HIDE DEF r
        <3> QED
            BY <1>2, <1>3, <1>4, <1>6, <3>1, GeminiStepIs
    <2>2. t \in Seq(Turns)
        BY <1>2, GeminiStepIs
    <2> HIDE DEF t, r
    <2>3. r \in Wires /\ r.turns = t /\ r.pending = <<>>
        BY <1>1, <2>1, <2>2 DEF Wires
    <2>4. FlushResults(r).turns = t
        BY <2>3, FlushIs
    <2> QED
        BY <2>3, <2>4 DEF r, t, f
<1> QED
    BY <1>5, <1>6

\* What Anthropic is sent, message by message.
LEMMA MessagesAre ==
    ASSUME NEW h \in Seq(Msg)
    PROVE  \E g : /\ g[0] = [turns |-> <<>>, pending |-> <<>>]
                  /\ \A k \in 1 .. Len(h) : g[k] = AnthropicStep(g[k - 1], h[k])
                  /\ ToMessages(h) = FlushResults(g[Len(h)]).turns
<1> DEFINE n == Len(h)
           base == [turns |-> <<>>, pending |-> <<>>]
           next == [k \in 1 .. n |-> [x \in Wires |-> AnthropicStep(x, h[k])]]
           Grows(f) == f = [k \in 0 .. n |-> IF k = 0 THEN base ELSE AnthropicStep(f[k - 1], h[k])]
           g == CHOOSE upTo : upTo = [k \in 0 .. Len(h) |-> IF k = 0 THEN base ELSE AnthropicStep(upTo[k - 1], h[k])]
<1>1. n \in Nat /\ \A k \in 1 .. n : h[k] \in Msg
    BY ElementOfSeq
<1>2. next \in [1 .. n -> [Wires -> Wires]]
    <2>1. \A k \in 1 .. n, x \in Wires : AnthropicStep(x, h[k]) \in Wires
        BY <1>1, AnthropicStepIs
    <2> QED
        BY <2>1
<1>3. base \in Wires
    BY DEF Wires
<1>4. PICK f \in [0 .. n -> Wires] : Iterates(f, base, next, n)
    <2> HIDE DEF next, n, base
    <2> QED
        BY <1>1, <1>2, <1>3, Recursion
<1>5. \A k \in 1 .. n : f[k] = AnthropicStep(f[k - 1], h[k])
    <2> TAKE k \in 1 .. n
    <2>1. f[k - 1] \in Wires
        BY <1>1, <1>4
    <2>2. f[k] = next[k][f[k - 1]]
        <3> HIDE DEF next, n, base
        <3> QED
            BY <1>4 DEF Iterates
    <2> QED
        BY <2>1, <2>2
<1>6. Grows(f)
    <2>1. f[0] = base
        BY <1>4 DEF Iterates
    <2>2. \A k \in 0 .. n : k = 0 \/ k \in 1 .. n
        BY <1>1
    <2> HIDE DEF next, n, base
    <2>3. \A k \in 0 .. n : f[k] = IF k = 0 THEN base ELSE AnthropicStep(f[k - 1], h[k])
        BY <1>5, <2>1, <2>2
    <2> QED
        BY <1>4, <2>3
<1>7. Grows(g)
    BY <1>6, Zenon
<1>8. ToMessages(h) = FlushResults(g[n]).turns
    BY DEF ToMessages, Through
<1> HIDE DEF g, next
<1>9. g[0] = base /\ \A k \in 1 .. n : g[k] = AnthropicStep(g[k - 1], h[k])
    <2>1. 0 \in 0 .. n /\ \A k \in 1 .. n : k \in 0 .. n /\ k # 0
        BY <1>1
    <2> HIDE DEF n, base
    <2> QED
        BY <1>7, <2>1
<1> QED
    BY <1>8, <1>9

\* Holding the results back makes no difference: Anthropic and Bedrock are sent what
\* Gemini is sent, whatever the history.
THEOREM OneFormat ==
    ASSUME NEW h \in Seq(Msg)
    PROVE  ToMessages(h) = ToContents(h) /\ ToConverse(h) = ToContents(h)
<1> DEFINE n == Len(h)
<1>1. n \in Nat /\ \A k \in 1 .. n : h[k] \in Msg
    BY ElementOfSeq
<1>2. PICK w : /\ w[0] = [turns |-> <<>>, pending |-> <<>>]
               /\ \A k \in 1 .. n : w[k] = AnthropicStep(w[k - 1], h[k])
               /\ ToMessages(h) = FlushResults(w[n]).turns
    BY MessagesAre
<1>3. PICK g : /\ g[0] = <<>> /\ \A k \in 1 .. n : g[k] = GeminiStep(g[k - 1], h[k])
               /\ ToContents(h) = g[n]
    BY ContentsAre
<1> HIDE DEF n
<1> DEFINE T == {k \in Nat : k <= n => w[k] \in Wires /\ FlushResults(w[k]).turns = g[k]}
<1>4. 0 \in T
    <2>1. w[0] \in Wires
        BY <1>2 DEF Wires
    <2>2. FlushResults(w[0]).turns = <<>>
        BY <1>2, <2>1, FlushIs
    <2> QED
        BY <1>3, <2>1, <2>2
<1>5. ASSUME NEW k \in Nat, k \in T PROVE k + 1 \in T
    <2> SUFFICES ASSUME k + 1 <= n PROVE w[k + 1] \in Wires /\ FlushResults(w[k + 1]).turns = g[k + 1]
        OBVIOUS
    <2>1. k + 1 \in 1 .. n /\ (k + 1) - 1 = k /\ w[k] \in Wires /\ FlushResults(w[k]).turns = g[k]
        BY <1>1, <1>5
    <2>2. w[k + 1] = AnthropicStep(w[k], h[k + 1]) /\ g[k + 1] = GeminiStep(g[k], h[k + 1])
        BY <1>2, <1>3, <2>1
    <2> QED
        BY <1>1, <2>1, <2>2, AnthropicStepIs
<1> HIDE DEF T
<1>6. Nat \subseteq T
    BY <1>4, <1>5, Induction
<1>7. ToMessages(h) = ToContents(h)
    BY <1>1, <1>2, <1>3, <1>6 DEF T
<1> QED
    BY <1>7 DEF ToConverse

-----------------------------------------------------------------------------
(* Conversations.                                                          *)

\* After the first k messages no call waits for its result, ...
Settled(h, k) == \A p \in 1 .. k : k - p >= Len(h[p].calls)

\* ... or one of those at p does.
Waits(h, k, p) == p \in 1 .. k /\ k - p < Len(h[p].calls)

\* What comes next.
LEMMA NextIs ==
    ASSUME NEW h \in Seq(Msg), Dialogue(h), NEW k \in 2 .. Len(h) - 1
    PROVE  /\ k + 1 \in 1 .. Len(h)
           /\ Settled(h, k) =>
                /\ h[k + 1].role \in {"user", "assistant"}
                /\ h[k + 1].role = "assistant" => h[k].role \in {"user", "tool"}
                /\ h[k + 1].calls = <<>> => Settled(h, k + 1)
                /\ h[k + 1].calls # <<>> => h[k + 1].role = "assistant" /\ Waits(h, k + 1, k + 1)
           /\ \A p : Waits(h, k, p) =>
                /\ h[k + 1].role = "tool" /\ h[k + 1].of = h[p].calls[(k + 1) - p]
                /\ (k + 1) - p \in 1 .. Len(h[p].calls)
                /\ (k + 1) - p = Len(h[p].calls) => Settled(h, k + 1)
                /\ (k + 1) - p # Len(h[p].calls) => Waits(h, k + 1, p)
<1>1. Len(h) \in Nat /\ k \in Nat /\ k + 1 \in 1 .. Len(h) /\ (k + 1) - 1 = k /\ k + 1 \in 2 .. Len(h)
    OBVIOUS
<1>2. ASSUME NEW i \in 1 .. Len(h) PROVE Len(h[i].calls) \in Nat /\ (h[i].calls = <<>> <=> Len(h[i].calls) = 0)
    <2>1. h[i] \in Msg
        BY ElementOfSeq
    <2>2. h[i].calls \in Seq(Answers)
        BY <2>1, MsgParts
    <2> QED
        BY <2>2, EmptySeq
<1>3. h[k + 1].role \in {"user", "assistant", "tool"}
    <2>1. h[k + 1] \in Msg
        BY <1>1, ElementOfSeq
    <2>2. h[k + 1].role # "system"
        BY <1>1 DEF Dialogue, InPlace
    <2> QED
        BY <2>1, <2>2, MsgParts
<1>4. ASSUME Settled(h, k)
      PROVE  /\ h[k + 1].role \in {"user", "assistant"}
             /\ h[k + 1].role = "assistant" => h[k].role \in {"user", "tool"}
             /\ h[k + 1].calls = <<>> => Settled(h, k + 1)
             /\ h[k + 1].calls # <<>> => h[k + 1].role = "assistant" /\ Waits(h, k + 1, k + 1)
    <2>1. h[k + 1].role # "tool"
        <3> SUFFICES ASSUME h[k + 1].role = "tool" PROVE FALSE
            OBVIOUS
        <3>1. PICK p \in 1 .. k + 1 : p < k + 1 /\ (k + 1) - p <= Len(h[p].calls)
            BY <1>1 DEF Dialogue, InPlace, CalledBy
        <3>2. p \in 1 .. k /\ p \in 1 .. Len(h)
            BY <1>1, <3>1
        <3>3. k - p >= Len(h[p].calls) /\ Len(h[p].calls) \in Nat
            BY <1>2, <1>4, <3>2 DEF Settled
        <3> QED
            BY <1>1, <3>1, <3>3
    <2>2. h[k + 1].role = "assistant" => h[k].role \in {"user", "tool"}
        BY <1>1 DEF Dialogue, InPlace
    <2>3. ASSUME h[k + 1].calls = <<>> PROVE Settled(h, k + 1)
        <3> SUFFICES ASSUME NEW p \in 1 .. k + 1 PROVE (k + 1) - p >= Len(h[p].calls)
            BY DEF Settled
        <3>1. CASE p = k + 1
            BY <1>1, <1>2, <2>3, <3>1
        <3>2. CASE p \in 1 .. k
            <4>1. k - p >= Len(h[p].calls) /\ Len(h[p].calls) \in Nat
                BY <1>1, <1>2, <1>4, <3>2 DEF Settled
            <4> QED
                BY <1>1, <4>1
        <3> QED
            BY <1>1, <3>1, <3>2
    <2>4. ASSUME h[k + 1].calls # <<>> PROVE h[k + 1].role = "assistant" /\ Waits(h, k + 1, k + 1)
        <3>1. Len(h[k + 1].calls) \in Nat /\ Len(h[k + 1].calls) # 0
            BY <1>1, <1>2, <2>4
        <3>2. h[k + 1].role = "assistant"
            BY <1>1, <2>4 DEF Dialogue, InPlace
        <3> QED
            BY <1>1, <3>1, <3>2 DEF Waits
    <2> QED
        BY <1>3, <2>1, <2>2, <2>3, <2>4
<1>5. ASSUME NEW p, Waits(h, k, p)
      PROVE  /\ h[k + 1].role = "tool" /\ h[k + 1].of = h[p].calls[(k + 1) - p]
             /\ (k + 1) - p \in 1 .. Len(h[p].calls)
             /\ (k + 1) - p = Len(h[p].calls) => Settled(h, k + 1)
             /\ (k + 1) - p # Len(h[p].calls) => Waits(h, k + 1, p)
    <2>1. p \in 1 .. k /\ k - p < Len(h[p].calls) /\ p \in 1 .. Len(h)
        BY <1>1, <1>5 DEF Waits
    <2>2. Len(h[p].calls) \in Nat /\ h[p].calls # <<>>
        BY <1>1, <1>2, <2>1
    <2>3. ASSUME NEW j \in (p + 1) .. k + 1
          PROVE  h[j].role = "tool" /\ h[j].of = h[p].calls[j - p] /\ Len(h[j].calls) = 0
        <3>1. j \in 1 .. Len(h) /\ p \in 1 .. j /\ p < j /\ j - p <= Len(h[p].calls)
            BY <1>1, <2>1, <2>2
        <3>2. h[j].role = "tool" /\ h[j].of = h[p].calls[j - p]
            BY <3>1 DEF Dialogue, InPlace, CalledBy
        <3>3. h[j].calls = <<>>
            BY <3>1, <3>2 DEF Dialogue, InPlace
        <3> QED
            BY <1>2, <3>1, <3>2, <3>3
    <2>4. ASSUME NEW q \in 1 .. p, q < p PROVE Len(h[q].calls) <= p - q
        <3>1. q \in 1 .. Len(h) /\ p \in 1 .. Len(h) /\ q \in 1 .. p /\ Len(h[q].calls) \in Nat
            BY <1>1, <1>2, <2>1, <2>4
        <3>2. h[p].role = "assistant"
            BY <2>1, <2>2 DEF Dialogue, InPlace
        <3>3. ~CalledBy(h, p, q)
            BY <3>1, <3>2 DEF Dialogue, InPlace
        <3> QED
            BY <2>1, <2>4, <3>1, <3>3 DEF CalledBy
    <2>5. ASSUME (k + 1) - p = Len(h[p].calls) PROVE Settled(h, k + 1)
        <3> SUFFICES ASSUME NEW q \in 1 .. k + 1 PROVE (k + 1) - q >= Len(h[q].calls)
            BY DEF Settled
        <3>1. CASE q = p
            BY <2>5, <3>1
        <3>2. CASE q < p
            <4>1. Len(h[q].calls) <= p - q /\ Len(h[q].calls) \in Nat
                BY <1>1, <1>2, <2>1, <2>4, <3>2
            <4> QED
                BY <1>1, <2>1, <4>1
        <3>3. CASE q > p
            <4>1. Len(h[q].calls) = 0
                BY <1>1, <2>1, <2>3, <3>3
            <4> QED
                BY <1>1, <4>1
        <3> QED
            BY <2>1, <3>1, <3>2, <3>3
    <2>6. k + 1 \in (p + 1) .. k + 1 /\ (k + 1) - p \in 1 .. Len(h[p].calls)
        BY <1>1, <2>1, <2>2
    <2>7. (k + 1) - p # Len(h[p].calls) => Waits(h, k + 1, p)
        BY <1>1, <2>1, <2>2 DEF Waits
    <2>8. h[k + 1].role = "tool" /\ h[k + 1].of = h[p].calls[(k + 1) - p]
        BY <2>3, <2>6
    <2> QED
        BY <2>5, <2>6, <2>7, <2>8
<1> QED
    BY <1>1, <1>4, <1>5

\* No call of a complete conversation waits.
LEMMA CompleteIsSettled == ASSUME NEW h \in Seq(Msg), Complete(h) PROVE Settled(h, Len(h)) /\ Len(h) >= 2
<1>1. Len(h) \in Nat /\ Len(h) >= 2
    BY DEF Complete, Dialogue, InPlace
<1>2. ASSUME NEW p \in 1 .. Len(h) PROVE Len(h) - p >= Len(h[p].calls)
    <2>1. h[p] \in Msg
        BY ElementOfSeq
    <2>2. Len(h[p].calls) \in Nat /\ (h[p].calls = <<>> => Len(h[p].calls) = 0)
        BY <2>1, MsgParts
    <2>3. CASE p = Len(h)
        <3>1. h[p].calls = <<>>
            BY <2>3 DEF Complete, Dialogue, InPlace
        <3> QED
            BY <1>1, <2>2, <2>3, <3>1
    <2>4. CASE p < Len(h)
        <3>1. p + Len(h[p].calls) <= Len(h)
            BY <2>4 DEF Complete, Dialogue, InPlace
        <3> QED
            BY <1>1, <2>2, <3>1
    <2> QED
        BY <1>1, <2>3, <2>4
<1> QED
    BY <1>1, <1>2 DEF Settled

-----------------------------------------------------------------------------
(* Calls and results of a turn.                                            *)

\* The calls of a reply are at the end of its turn, in their order.
LEMMA UsesAre ==
    ASSUME NEW m \in Msg, NEW turn, turn.blocks = AssistantBlocks(m)
    PROVE  /\ Uses(turn) = Offset(m) + 1 .. Offset(m) + Len(m.calls) /\ Results(turn) = {}
           /\ Cardinality(Uses(turn)) = Len(m.calls) /\ (m.calls = <<>> => Uses(turn) = {})
           /\ \A u \in Uses(turn) :
                /\ Rank(u, Uses(turn)) = u - Offset(m) /\ u - Offset(m) \in 1 .. Len(m.calls)
                /\ turn.blocks[u].id = m.calls[u - Offset(m)]
<1> DEFINE b == turn.blocks
           o == Offset(m)
           n == Len(m.calls)
<1>1. /\ b \in Seq(Blocks) /\ Len(b) = o + n
      /\ \A k \in 1 .. o : b[k] = Text
      /\ \A j \in 1 .. n : b[o + j] = Block("use", m.calls[j])
    BY AssistantBlocksAre
<1>2. o \in Nat /\ n \in Nat /\ m.calls \in Seq(Answers)
    BY MsgParts DEF Offset
<1>3. DOMAIN b = 1 .. o + n
    BY <1>1, <1>2
<1>4. \A j \in 1 .. n : b[o + j].type = "use" /\ b[o + j].id = m.calls[j]
    <2>1. \A j \in 1 .. n : m.calls[j] \in Answers
        BY <1>2, ElementOfSeq
    <2> QED
        BY <1>1, <2>1, BlockIs
<1>5. \A k \in 1 .. o : b[k].type = "text"
    BY <1>1, BlockIs
<1> HIDE DEF b, o, n
<1>6. ASSUME NEW u \in 1 .. o + n
      PROVE  /\ u \in o + 1 .. o + n => b[u].type = "use" /\ u - o \in 1 .. n /\ b[u].id = m.calls[u - o]
             /\ u \notin o + 1 .. o + n => b[u].type = "text"
    <2>1. CASE u \in o + 1 .. o + n
        <3>1. u - o \in 1 .. n /\ o + (u - o) = u
            BY <1>2, <2>1
        <3>2. b[o + (u - o)].type = "use" /\ b[o + (u - o)].id = m.calls[u - o]
            BY <1>4, <3>1
        <3> QED
            BY <2>1, <3>1, <3>2
    <2>2. CASE u \notin o + 1 .. o + n
        <3>1. u \in 1 .. o
            BY <1>2, <2>2
        <3> QED
            BY <1>5, <2>2, <3>1
    <2> QED
        BY <2>1, <2>2
<1>7. Uses(turn) = o + 1 .. o + n
    <2>1. \A u \in o + 1 .. o + n : u \in 1 .. o + n
        BY <1>2
    <2>2. Uses(turn) = {j \in 1 .. o + n : b[j].type = "use"}
        BY <1>3 DEF Uses, b
    <2> QED
        BY <1>6, <2>1, <2>2
<1>8. Results(turn) = {}
    <2>1. Results(turn) = {j \in 1 .. o + n : b[j].type = "result"}
        BY <1>3 DEF Results, b
    <2> QED
        BY <1>6, <2>1
<1>9. Cardinality(Uses(turn)) = n
    <2>1. Cardinality(o + 1 .. o + n) = IF o + 1 > o + n THEN 0 ELSE (o + n) - (o + 1) + 1
        BY <1>2, FS_Interval
    <2> QED
        BY <1>2, <1>7, <2>1
<1>10. m.calls = <<>> => Uses(turn) = {}
    BY <1>2, <1>7 DEF n
<1>11. ASSUME NEW u \in Uses(turn)
       PROVE  Rank(u, Uses(turn)) = u - o /\ u - o \in 1 .. n /\ b[u].id = m.calls[u - o]
    <2>1. u \in o + 1 .. o + n /\ u \in 1 .. o + n
        BY <1>2, <1>7
    <2>2. {i \in o + 1 .. o + n : i <= u} = o + 1 .. u
        BY <1>2, <2>1
    <2>3. Cardinality(o + 1 .. u) = IF o + 1 > u THEN 0 ELSE u - (o + 1) + 1
        BY <1>2, <2>1, FS_Interval
    <2>4. Rank(u, Uses(turn)) = u - o
        <3>1. Rank(u, Uses(turn)) = Cardinality(o + 1 .. u)
            BY <1>7, <2>2 DEF Rank
        <3> QED
            BY <1>2, <2>1, <2>3, <3>1
    <2> QED
        BY <1>6, <2>1, <2>4
<1> QED
    BY <1>7, <1>8, <1>9, <1>10, <1>11 DEF b, o, n

\* The first r results of the calls of a reply.
ResultsOf(b, m, r) == b \in Seq(Blocks) /\ Len(b) = r /\ \A j \in 1 .. r : b[j] = Block("result", m.calls[j])

\* The results at the start of a turn are its places up to their number.
LEMMA ResultsAre ==
    ASSUME NEW m \in Msg, NEW r \in 0 .. Len(m.calls), NEW turn, ResultsOf(turn.blocks, m, r)
    PROVE  Results(turn) = 1 .. r /\ Uses(turn) = {} /\ \A j \in 1 .. r : turn.blocks[j].id = m.calls[j]
<1>1. m.calls \in Seq(Answers) /\ Len(m.calls) \in Nat
    BY MsgParts
<1>2. \A j \in 1 .. r : j \in 1 .. Len(m.calls)
    BY <1>1
<1>3. \A j \in 1 .. r : m.calls[j] \in Answers
    BY <1>1, <1>2, ElementOfSeq
<1>4. DOMAIN turn.blocks = 1 .. r
    BY DEF ResultsOf
<1>5. \A j \in 1 .. r : turn.blocks[j].type = "result" /\ turn.blocks[j].id = m.calls[j]
    BY <1>3, BlockIs DEF ResultsOf
<1> QED
    BY <1>4, <1>5 DEF Results, Uses

\* All of them answer the reply.
LEMMA AllAnswer ==
    ASSUME NEW m \in Msg, NEW turn, ResultsOf(turn.blocks, m, Len(m.calls)),
           NEW before, before.blocks = AssistantBlocks(m)
    PROVE  Answer(turn, before) /\ Uses(turn) = {}
<1>1. Len(m.calls) \in 0 .. Len(m.calls)
    BY MsgParts
<1>2. Results(turn) = 1 .. Len(m.calls) /\ Uses(turn) = {} /\ \A j \in 1 .. Len(m.calls) : turn.blocks[j].id = m.calls[j]
    BY <1>1, ResultsAre
<1>3. /\ Cardinality(Uses(before)) = Len(m.calls)
      /\ \A u \in Uses(before) :
            /\ Rank(u, Uses(before)) = u - Offset(m) /\ u - Offset(m) \in 1 .. Len(m.calls)
            /\ before.blocks[u].id = m.calls[u - Offset(m)]
    BY UsesAre
<1> QED
    BY <1>2, <1>3 DEF Answer

\* A turn without results answers one without calls.
LEMMA NoneAnswer ==
    ASSUME NEW turn, Results(turn) = {}, NEW before, Uses(before) = {}
    PROVE  Answer(turn, before)
<1>1. Cardinality({}) = 0
    BY FS_EmptySet
<1>2. 1 .. 0 = {}
    OBVIOUS
<1> QED
    BY <1>1, <1>2 DEF Answer

\* The rank of a place among places is a number up to theirs.
LEMMA RankIs ==
    ASSUME NEW s, IsFiniteSet(s), NEW u \in s, u \in Int
    PROVE  Rank(u, s) \in 1 .. Cardinality(s)
<1> DEFINE c == {i \in s : i <= u}
<1>1. c \subseteq s /\ u \in c
    OBVIOUS
<1> HIDE DEF c
<1>2. IsFiniteSet(c) /\ Cardinality(c) \in Nat /\ Cardinality(c) <= Cardinality(s) /\ Cardinality(s) \in Nat
    BY <1>1, FS_Subset, FS_CardinalityType
<1>3. Cardinality(c) # 0
    BY <1>1, <1>2, FS_EmptySet
<1>4. Cardinality(c) \in 1 .. Cardinality(s)
    BY <1>2, <1>3
<1> QED
    BY <1>4 DEF Rank, c

\* A text that is added to a turn leaves its calls and results.
LEMMA TextAdded ==
    ASSUME NEW a \in Turns, NEW b, b.blocks = a.blocks \o <<Text>>
    PROVE  /\ Uses(b) = Uses(a) /\ Results(b) = Results(a) /\ b.blocks # <<>>
           /\ \A before \in Turns : Answer(a, before) => Answer(b, before)
<1> DEFINE n == Len(a.blocks)
<1>1. a.blocks \in Seq(Blocks) /\ n \in Nat /\ DOMAIN a.blocks = 1 .. n
    BY DEF Turns
<1>2. <<Text>> \in Seq(Blocks) /\ Len(<<Text>>) = 1 /\ <<Text>>[1] = Text
    BY BlockIs
<1>3. /\ b.blocks \in Seq(Blocks) /\ Len(b.blocks) = n + 1
      /\ \A k \in 1 .. n + 1 : b.blocks[k] = IF k <= n THEN a.blocks[k] ELSE <<Text>>[k - n]
    BY <1>1, <1>2, ConcatProperties
<1> HIDE DEF n
<1>4. DOMAIN b.blocks = 1 .. n + 1 /\ b.blocks # <<>>
    BY <1>1, <1>3
<1>5. b.blocks[n + 1].type = "text"
    <2>1. b.blocks[n + 1] = Text
        <3> DEFINE t == <<Text>>
        <3>1. \A k \in 1 .. n + 1 : b.blocks[k] = IF k <= n THEN a.blocks[k] ELSE t[k - n]
            BY <1>3
        <3>2. t[1] = Text /\ n + 1 \in 1 .. n + 1 /\ ~(n + 1 <= n) /\ (n + 1) - n = 1
            BY <1>1
        <3> HIDE DEF t
        <3> QED
            BY <3>1, <3>2
    <2> QED
        BY <2>1, BlockIs
<1>6. \A k \in 1 .. n : b.blocks[k] = a.blocks[k]
    BY <1>1, <1>3
<1>7. \A k \in 1 .. n + 1 : k \in 1 .. n \/ k = n + 1
    BY <1>1
<1>8. \A k \in 1 .. n : k \in 1 .. n + 1
    BY <1>1
<1>9. Uses(b) = Uses(a)
    BY <1>1, <1>4, <1>5, <1>6, <1>7, <1>8 DEF Uses
<1>10. Results(b) = Results(a)
    BY <1>1, <1>4, <1>5, <1>6, <1>7, <1>8 DEF Results
<1>11. ASSUME NEW before \in Turns, Answer(a, before) PROVE Answer(b, before)
    <2> DEFINE s == Uses(before)
    <2>1. Results(a) = 1 .. Cardinality(s) /\ \A u \in s : a.blocks[Rank(u, s)].id = before.blocks[u].id
        BY <1>11 DEF Answer
    <2>2. s \subseteq 1 .. Len(before.blocks) /\ Len(before.blocks) \in Nat
        BY DEF Turns, Uses
    <2>3. IsFiniteSet(s) /\ \A u \in s : u \in Int
        <3>1. IsFiniteSet(1 .. Len(before.blocks))
            BY <2>2, FS_Interval
        <3> HIDE DEF s
        <3>2. IsFiniteSet(s)
            BY <2>2, <3>1, FS_Subset
        <3> QED
            BY <2>2, <3>2
    <2> HIDE DEF s
    <2>4. ASSUME NEW u \in s PROVE b.blocks[Rank(u, s)].id = before.blocks[u].id
        <3>1. Rank(u, s) \in 1 .. Cardinality(s)
            BY <2>3, RankIs
        <3>2. Rank(u, s) \in 1 .. n
            BY <1>1, <2>1, <3>1 DEF Results
        <3> QED
            BY <1>6, <2>1, <3>2
    <2> QED
        BY <1>10, <2>1, <2>4 DEF Answer, s
<1> QED
    BY <1>4, <1>9, <1>10, <1>11

-----------------------------------------------------------------------------
(* Turns that alternate.                                                   *)

Shaped(t) ==
    /\ t \in Seq(Turns) /\ Len(t) > 0 /\ Results(t[1]) = {}
    /\ \A k \in 1 .. Len(t) :
        /\ t[k].role = IF k % 2 = 1 THEN "user" ELSE "assistant"
        /\ t[k].blocks # <<>>

AnswersUpTo(t, n) == \A k \in 2 .. n : Answer(t[k], t[k - 1])

\* Another role starts another turn.
LEMMA NewTurn ==
    ASSUME NEW t, Shaped(t), NEW role \in {"user", "assistant"}, t[Len(t)].role # role,
           NEW b \in Seq(Blocks), b # <<>>
    PROVE  LET r == AddTurn(t, role, b) IN
           /\ Shaped(r) /\ Len(r) = Len(t) + 1 /\ r[Len(t)] = t[Len(t)]
           /\ r[Len(t) + 1] = [role |-> role, blocks |-> b]
           /\ AnswersUpTo(t, Len(t)) => AnswersUpTo(r, Len(t))
<1> DEFINE n == Len(t)
           r == AddTurn(t, role, b)
<1>1. t \in Seq(Turns) /\ n \in Nat /\ n > 0
    BY DEF Shaped
<1>2. ~Merges(t, role)
    BY DEF Merges
<1>3. /\ r \in Seq(Turns) /\ Len(r) = n + 1 /\ \A k \in 1 .. (n + 1) - 1 : r[k] = t[k]
      /\ r[n + 1] = [role |-> role, blocks |-> b]
    BY <1>1, <1>2, AddTurnIs
<1>4. \A k \in 1 .. n : r[k] = t[k]
    BY <1>1, <1>3
<1> HIDE DEF r
<1>5. (n + 1) % 2 = 1 <=> n % 2 # 1
    BY <1>1
<1>6. ASSUME NEW k \in 1 .. n + 1
      PROVE  r[k].role = (IF k % 2 = 1 THEN "user" ELSE "assistant") /\ r[k].blocks # <<>>
    <2>1. CASE k \in 1 .. n
        BY <1>4, <2>1 DEF Shaped
    <2>2. CASE k = n + 1
        <3>1. t[n].role = IF n % 2 = 1 THEN "user" ELSE "assistant"
            BY <1>1 DEF Shaped
        <3>2. r[k].role = role /\ r[k].blocks = b
            BY <1>3, <2>2
        <3> HIDE DEF n
        <3> QED
            BY <1>5, <2>2, <3>1, <3>2 DEF n
    <2> QED
        BY <1>1, <2>1, <2>2
<1>7. Shaped(r)
    <2>1. r[1] = t[1] /\ Results(t[1]) = {}
        BY <1>1, <1>4 DEF Shaped
    <2> QED
        BY <1>1, <1>3, <1>6, <2>1 DEF Shaped
<1>8. ASSUME AnswersUpTo(t, n) PROVE AnswersUpTo(r, n)
    <2>1. \A k \in 2 .. n : k \in 1 .. n /\ k - 1 \in 1 .. n
        BY <1>1
    <2> QED
        BY <1>4, <1>8, <2>1 DEF AnswersUpTo
<1>9. r[n] = t[n]
    BY <1>1, <1>4
<1> QED
    BY <1>3, <1>7, <1>8, <1>9 DEF r

\* The same role goes on with its turn.
LEMMA SameTurn ==
    ASSUME NEW t, Shaped(t), NEW role \in {"user", "assistant"}, t[Len(t)].role = role,
           NEW b \in Seq(Blocks), b # <<>>
    PROVE  LET r == AddTurn(t, role, b)
               n == Len(t)
           IN  /\ r \in Seq(Turns) /\ Len(r) = n /\ n > 0 /\ t[n] \in Turns
               /\ r[n].role = role /\ r[n].blocks = t[n].blocks \o b
               /\ n > 1 => r[n - 1] = t[n - 1] /\ r[n - 1] \in Turns
               /\ AnswersUpTo(t, n - 1) => AnswersUpTo(r, n - 1)
               /\ (n = 1 => Results(r[1]) = {}) => Shaped(r)
<1> DEFINE n == Len(t)
           r == AddTurn(t, role, b)
<1>1. t \in Seq(Turns) /\ n \in Nat /\ n > 0 /\ t[n] \in Turns
    <2>1. t \in Seq(Turns) /\ n \in Nat /\ n > 0
        BY DEF Shaped
    <2> QED
        BY <2>1, ElementOfSeq
<1>2. Merges(t, role)
    BY <1>1 DEF Merges
<1>3. /\ r \in Seq(Turns) /\ Len(r) = n /\ \A k \in 1 .. n - 1 : r[k] = t[k]
      /\ r[n] = [role |-> role, blocks |-> t[n].blocks \o b]
    <2>1. t \in Seq(Turns)
        BY <1>1
    <2> QED
        BY <1>2, <2>1, AddTurnMerges
<1> HIDE DEF r
<1>4. ASSUME n > 1 PROVE r[n - 1] = t[n - 1] /\ r[n - 1] \in Turns
    <2>1. n - 1 \in 1 .. n - 1 /\ n - 1 \in 1 .. n
        BY <1>1, <1>4
    <2> QED
        BY <1>1, <1>3, <2>1, ElementOfSeq
<1>5. ASSUME AnswersUpTo(t, n - 1) PROVE AnswersUpTo(r, n - 1)
    <2>1. \A k \in 2 .. n - 1 : k \in 1 .. n - 1 /\ k - 1 \in 1 .. n - 1
        BY <1>1
    <2> QED
        BY <1>3, <1>5, <2>1 DEF AnswersUpTo
<1>6. ASSUME n = 1 => Results(r[1]) = {} PROVE Shaped(r)
    <2>1. r[n].blocks # <<>>
        <3> DEFINE a == t[n].blocks
        <3>1. a \in Seq(Blocks)
            BY <1>1 DEF Turns
        <3>2. r[n].blocks = a \o b
            BY <1>3
        <3> HIDE DEF a
        <3> QED
            BY <3>1, <3>2, ConcatEqualIffEmpty, ConcatProperties, EmptySeq
    <2>2. n > 1 => Results(r[1]) = {}
        <3> SUFFICES ASSUME n > 1 PROVE Results(r[1]) = {}
            OBVIOUS
        <3>1. 1 \in 1 .. n - 1
            BY <1>1
        <3>2. r[1] = t[1]
            BY <1>3, <3>1
        <3> QED
            BY <3>2 DEF Shaped
    <2>3. Results(r[1]) = {}
        <3> HIDE DEF n
        <3>1. n = 1 \/ n > 1
            BY <1>1
        <3> QED
            BY <1>6, <2>2, <3>1
    <2>4. ASSUME NEW k \in 1 .. n
          PROVE  r[k].role = (IF k % 2 = 1 THEN "user" ELSE "assistant") /\ r[k].blocks # <<>>
        <3>1. r[k].role = t[k].role
            <4>1. CASE k = n
                BY <1>3, <4>1
            <4>2. CASE k # n
                <5>1. k \in 1 .. n - 1
                    BY <1>1, <4>2
                <5> QED
                    BY <1>3, <5>1
            <4> QED
                BY <4>1, <4>2
        <3>2. r[k].blocks # <<>>
            <4>1. CASE k = n
                BY <2>1, <4>1
            <4>2. CASE k # n
                <5>1. k \in 1 .. n - 1
                    BY <1>1, <4>2
                <5>2. r[k] = t[k]
                    BY <1>3, <5>1
                <5> QED
                    BY <5>2 DEF Shaped
            <4> QED
                BY <4>1, <4>2
        <3> QED
            BY <3>1, <3>2 DEF Shaped
    <2> QED
        BY <1>1, <1>3, <2>3, <2>4 DEF Shaped
<1> QED
    BY <1>1, <1>3, <1>4, <1>5, <1>6 DEF r

\* All turns answer the ones before, and no call waits; ...
Calm(h, k, t) ==
    /\ Settled(h, k) /\ Shaped(t) /\ AnswersUpTo(t, Len(t)) /\ Uses(t[Len(t)]) = {}
    /\ h[k].role \in {"user", "tool"} => t[Len(t)].role = "user"

\* ... or the last turn holds the results so far of the calls of the one before.
Half(t, m, r) ==
    /\ Len(t) > 1 /\ AnswersUpTo(t, Len(t) - 1)
    /\ t[Len(t)].role = "user" /\ ResultsOf(t[Len(t)].blocks, m, r)
    /\ t[Len(t) - 1].blocks = AssistantBlocks(m)

Busy(h, k, t, p) ==
    /\ Waits(h, k, p) /\ Shaped(t)
    /\ k = p => AnswersUpTo(t, Len(t)) /\ t[Len(t)].role = "assistant" /\ t[Len(t)].blocks = AssistantBlocks(h[p])
    /\ k # p => Half(t, h[p], k - p)

\* A user message or a reply, when no call waits.
LEMMA CalmStep ==
    ASSUME NEW h \in Seq(Msg), Dialogue(h), NEW k \in 2 .. Len(h) - 1, NEW t, Calm(h, k, t)
    PROVE  LET r == GeminiStep(t, h[k + 1]) IN Calm(h, k + 1, r) \/ Busy(h, k + 1, r, k + 1)
<1> DEFINE n == Len(t)
           m == h[k + 1]
           r == GeminiStep(t, m)
           blocks == AssistantBlocks(m)
<1>0. /\ k + 1 \in 1 .. Len(h) /\ m.role \in {"user", "assistant"}
      /\ m.role = "assistant" => h[k].role \in {"user", "tool"}
      /\ m.calls = <<>> => Settled(h, k + 1)
      /\ m.calls # <<>> => m.role = "assistant" /\ Waits(h, k + 1, k + 1)
    BY NextIs DEF Calm
<1>1. m \in Msg
    BY <1>0, ElementOfSeq
<1>2. /\ t \in Seq(Turns) /\ Shaped(t) /\ n \in Nat /\ n > 0 /\ AnswersUpTo(t, n) /\ Uses(t[n]) = {}
      /\ t[n].role \in {"user", "assistant"}
    <2>1. t \in Seq(Turns) /\ Shaped(t) /\ n \in Nat /\ n > 0 /\ AnswersUpTo(t, n) /\ Uses(t[n]) = {}
        BY DEF Calm, Shaped
    <2> QED
        BY <2>1 DEF Shaped
<1> HIDE DEF r, m
<1>3. CASE m.role = "user"
    <2> DEFINE b == <<Text>>
    <2>1. b \in Seq(Blocks) /\ b # <<>> /\ r = AddTurn(t, "user", b)
        BY <1>1, <1>2, <1>3, GeminiStepIs DEF r
    <2>2. Settled(h, k + 1)
        BY <1>0, <1>3
    <2>3. CASE t[n].role = "user"
        <3>0. /\ Shaped(t) /\ "user" \in {"user", "assistant"} /\ t[Len(t)].role = "user"
            BY <1>2, <2>3
        <3>1. /\ Len(r) = n /\ n > 0 /\ t[n] \in Turns
              /\ r[n].role = "user" /\ r[n].blocks = t[n].blocks \o b
              /\ n > 1 => r[n - 1] = t[n - 1] /\ r[n - 1] \in Turns
              /\ AnswersUpTo(t, n - 1) => AnswersUpTo(r, n - 1)
              /\ (n = 1 => Results(r[1]) = {}) => Shaped(r)
            <4> HIDE DEF b
            <4> QED
                BY <2>1, <3>0, SameTurn
        <3>2. /\ Uses(r[n]) = Uses(t[n]) /\ Results(r[n]) = Results(t[n])
              /\ \A before \in Turns : Answer(t[n], before) => Answer(r[n], before)
            BY <3>1, TextAdded
        <3>3. Shaped(r)
            <4>1. n = 1 => Results(r[1]) = {}
                BY <1>2, <3>2 DEF Shaped
            <4> QED
                BY <3>1, <4>1
        <3>4. AnswersUpTo(r, n)
            <4>1. AnswersUpTo(t, n - 1)
                <5>1. \A i \in 2 .. n - 1 : i \in 2 .. n
                    BY <1>2
                <5> QED
                    BY <1>2, <5>1 DEF AnswersUpTo
            <4>2. AnswersUpTo(r, n - 1)
                BY <3>1, <4>1
            <4>3. n > 1 => Answer(r[n], r[n - 1])
                <5> SUFFICES ASSUME n > 1 PROVE Answer(r[n], r[n - 1])
                    OBVIOUS
                <5>1. n \in 2 .. n
                    BY <1>2
                <5>2. Answer(t[n], t[n - 1])
                    BY <1>2, <5>1 DEF AnswersUpTo
                <5> QED
                    BY <3>1, <3>2, <5>2
            <4>4. \A i \in 2 .. n : i \in 2 .. n - 1 \/ (i = n /\ n > 1)
                BY <1>2
            <4> QED
                BY <4>2, <4>3, <4>4 DEF AnswersUpTo
        <3>5. Calm(h, k + 1, r)
            BY <1>2, <2>2, <3>1, <3>2, <3>3, <3>4 DEF Calm
        <3> QED
            BY <3>5 DEF r, m
    <2>4. CASE t[n].role # "user"
        <3>1. /\ Shaped(r) /\ Len(r) = n + 1 /\ r[n] = t[n]
              /\ r[n + 1] = [role |-> "user", blocks |-> b]
              /\ AnswersUpTo(t, n) => AnswersUpTo(r, n)
            <4> HIDE DEF b
            <4> QED
                BY <1>2, <2>1, <2>4, NewTurn
        <3>2. Results(r[n + 1]) = {} /\ Uses(r[n + 1]) = {}
            <4>1. r[n + 1].blocks = <<Text>> /\ Len(<<Text>>) = 1 /\ DOMAIN <<Text>> = {1} /\ <<Text>>[1] = Text
                BY <3>1
            <4> QED
                BY <4>1, BlockIs DEF Results, Uses
        <3>3. Answer(r[n + 1], r[n])
            BY <1>2, <3>1, <3>2, NoneAnswer
        <3>4. AnswersUpTo(r, n + 1)
            <4>1. \A i \in 2 .. n + 1 : i \in 2 .. n \/ i = n + 1
                BY <1>2
            <4>2. (n + 1) - 1 = n
                BY <1>2
            <4> QED
                BY <1>2, <3>1, <3>3, <4>1, <4>2 DEF AnswersUpTo
        <3>5. Calm(h, k + 1, r)
            BY <1>2, <2>2, <3>1, <3>2, <3>4 DEF Calm
        <3> QED
            BY <3>5 DEF r, m
    <2> QED
        BY <2>3, <2>4
<1>4. CASE m.role = "assistant" /\ blocks = <<>>
    <2>1. r = t
        BY <1>1, <1>2, <1>4, GeminiStepIs DEF r
    <2>2. m.calls = <<>>
        <3>1. Len(blocks) = 0 /\ Len(blocks) = Offset(m) + Len(m.calls) /\ m.calls \in Seq(Answers)
            BY <1>1, <1>4, AssistantBlocksAre, MsgParts
        <3>2. Offset(m) \in Nat /\ Len(m.calls) \in Nat
            BY <3>1 DEF Offset
        <3>3. Len(m.calls) = 0
            BY <3>1, <3>2
        <3> QED
            BY <3>1, <3>3, EmptySeq
    <2>3. Calm(h, k + 1, r)
        BY <1>0, <1>2, <1>4, <2>1, <2>2 DEF Calm, m
    <2> QED
        BY <2>3 DEF r, m
<1>5. CASE m.role = "assistant" /\ blocks # <<>>
    <2>1. blocks \in Seq(Blocks) /\ r = AddTurn(t, "assistant", blocks)
        BY <1>1, <1>2, <1>5, GeminiStepIs DEF r
    <2>2. t[n].role = "user"
        BY <1>0, <1>5 DEF Calm
    <2>3. /\ Shaped(r) /\ Len(r) = n + 1 /\ r[n] = t[n]
          /\ r[n + 1] = [role |-> "assistant", blocks |-> blocks]
          /\ AnswersUpTo(t, n) => AnswersUpTo(r, n)
        <3> HIDE DEF blocks
        <3> QED
            BY <1>2, <1>5, <2>1, <2>2, NewTurn DEF blocks
    <2>4. Results(r[n + 1]) = {} /\ (m.calls = <<>> => Uses(r[n + 1]) = {})
        <3>1. r[n + 1].blocks = AssistantBlocks(m)
            BY <2>3
        <3> QED
            BY <1>1, <3>1, UsesAre
    <2>5. Answer(r[n + 1], r[n])
        BY <1>2, <2>3, <2>4, NoneAnswer
    <2>6. AnswersUpTo(r, n + 1)
        <3>1. \A i \in 2 .. n + 1 : i \in 2 .. n \/ i = n + 1
            BY <1>2
        <3>2. (n + 1) - 1 = n
            BY <1>2
        <3> QED
            BY <1>2, <2>3, <2>5, <3>1, <3>2 DEF AnswersUpTo
    <2>7. m.calls = <<>> => Calm(h, k + 1, r)
        BY <1>0, <1>2, <1>5, <2>3, <2>4, <2>6 DEF Calm, m
    <2>8. m.calls # <<>> => Busy(h, k + 1, r, k + 1)
        BY <1>0, <1>2, <2>3, <2>6 DEF Busy, m
    <2> QED
        BY <2>7, <2>8 DEF r, m
<1> QED
    BY <1>0, <1>3, <1>4, <1>5

\* A result, when a call waits.
LEMMA BusyStep ==
    ASSUME NEW h \in Seq(Msg), Dialogue(h), NEW k \in 2 .. Len(h) - 1, NEW t, NEW p, Busy(h, k, t, p)
    PROVE  LET r == GeminiStep(t, h[k + 1]) IN Calm(h, k + 1, r) \/ Busy(h, k + 1, r, p)
<1> DEFINE n == Len(t)
           m == h[p]
           r == GeminiStep(t, h[k + 1])
           i == (k + 1) - p
           next == Block("result", m.calls[i])
<1>0. /\ k + 1 \in 1 .. Len(h) /\ h[k + 1].role = "tool" /\ h[k + 1].of = m.calls[i] /\ i \in 1 .. Len(m.calls)
      /\ i = Len(m.calls) => Settled(h, k + 1)
      /\ i # Len(m.calls) => Waits(h, k + 1, p)
    BY NextIs DEF Busy
<1>1. h[k + 1] \in Msg /\ m \in Msg /\ p \in 1 .. k /\ k \in Nat /\ m.calls \in Seq(Answers)
    <2>1. p \in 1 .. k /\ k \in Nat /\ p \in 1 .. Len(h)
        BY DEF Busy, Waits
    <2>2. h[k + 1] \in Msg /\ m \in Msg
        BY <1>0, <2>1, ElementOfSeq
    <2> QED
        BY <2>1, <2>2, MsgParts
<1>2. t \in Seq(Turns) /\ Shaped(t) /\ n \in Nat /\ n > 0
    BY DEF Busy, Shaped
<1> HIDE DEF r
<1>3. <<next>> \in Seq(Blocks) /\ <<next>> # <<>> /\ r = AddTurn(t, "user", <<next>>)
    BY <1>0, <1>1, <1>2, GeminiStepIs DEF r
<1> HIDE DEF m, next
<1>4. Shaped(r) /\ Half(r, m, i)
    <2>1. CASE k = p
        <3>1. /\ AnswersUpTo(t, n) /\ t[n].role = "assistant" /\ t[n].blocks = AssistantBlocks(m) /\ i = 1
            BY <1>1, <2>1 DEF Busy, m
        <3>2. /\ Shaped(r) /\ Len(r) = n + 1 /\ r[n] = t[n]
              /\ r[n + 1] = [role |-> "user", blocks |-> <<next>>]
              /\ AnswersUpTo(t, n) => AnswersUpTo(r, n)
            <4> DEFINE b == <<next>>
            <4>1. b \in Seq(Blocks) /\ b # <<>> /\ r = AddTurn(t, "user", b)
                BY <1>3
            <4> HIDE DEF b
            <4>2. /\ Shaped(r) /\ Len(r) = n + 1 /\ r[n] = t[n]
                  /\ r[n + 1] = [role |-> "user", blocks |-> b]
                  /\ AnswersUpTo(t, n) => AnswersUpTo(r, n)
                BY <1>2, <3>1, <4>1, NewTurn
            <4> QED
                BY <4>2 DEF b
        <3>3. ResultsOf(<<next>>, m, 1)
            <4>1. Len(<<next>>) = 1 /\ <<next>>[1] = next /\ next = Block("result", m.calls[1])
                BY <3>1 DEF next
            <4>2. 1 .. 1 = {1}
                OBVIOUS
            <4> QED
                BY <1>3, <4>1, <4>2 DEF ResultsOf
        <3>4. (n + 1) - 1 = n /\ n + 1 > 1
            BY <1>2
        <3> QED
            BY <3>1, <3>2, <3>3, <3>4 DEF Half
    <2>2. CASE k # p
        <3>1. Half(t, m, k - p)
            BY <2>2 DEF Busy, m
        <3> DEFINE a == t[n].blocks
        <3>2. /\ n > 1 /\ AnswersUpTo(t, n - 1) /\ t[n].role = "user" /\ ResultsOf(a, m, k - p)
              /\ t[n - 1].blocks = AssistantBlocks(m)
            BY <3>1 DEF Half
        <3>3. /\ Len(r) = n /\ r[n].role = "user" /\ r[n].blocks = a \o <<next>>
              /\ n > 1 => r[n - 1] = t[n - 1]
              /\ AnswersUpTo(t, n - 1) => AnswersUpTo(r, n - 1)
              /\ (n = 1 => Results(r[1]) = {}) => Shaped(r)
            <4> DEFINE b == <<next>>
            <4>1. b \in Seq(Blocks) /\ b # <<>> /\ r = AddTurn(t, "user", b)
                BY <1>3
            <4> HIDE DEF b
            <4>2. /\ Len(r) = n /\ r[n].role = "user" /\ r[n].blocks = a \o b
                  /\ n > 1 => r[n - 1] = t[n - 1]
                  /\ AnswersUpTo(t, n - 1) => AnswersUpTo(r, n - 1)
                  /\ (n = 1 => Results(r[1]) = {}) => Shaped(r)
                BY <1>2, <3>2, <4>1, SameTurn
            <4> QED
                BY <4>2 DEF b
        <3> HIDE DEF a
        <3>4. ResultsOf(a \o <<next>>, m, i)
            <4> DEFINE j == k - p
                       b == Append(a, next)
            <4>1. a \in Seq(Blocks) /\ Len(a) = j /\ \A x \in 1 .. j : a[x] = Block("result", m.calls[x])
                BY <3>2 DEF ResultsOf
            <4>2. j \in Nat /\ i = j + 1
                BY <1>1
            <4>3. next \in Blocks
                <5>1. m.calls[i] \in Answers
                    BY <1>0, <1>1, ElementOfSeq
                <5> QED
                    BY <5>1, BlockIs DEF next
            <4>4. a \o <<next>> = b
                BY <4>1, <4>3, AppendIsConcat
            <4>5. b \in Seq(Blocks) /\ Len(b) = j + 1 /\ b[j + 1] = next /\ \A x \in 1 .. j : b[x] = a[x]
                BY <4>1, <4>3, AppendProperties
            <4> HIDE DEF b, j
            <4>6. \A x \in 1 .. i : b[x] = Block("result", m.calls[x])
                <5>1. \A x \in 1 .. i : x \in 1 .. j \/ x = i
                    BY <4>2
                <5>2. b[i] = Block("result", m.calls[i])
                    BY <4>2, <4>5 DEF next
                <5> HIDE DEF i
                <5> QED
                    BY <4>1, <4>5, <5>1, <5>2
            <4> QED
                BY <4>2, <4>4, <4>5, <4>6 DEF ResultsOf
        <3>5. n # 1
            BY <1>2, <3>2
        <3> QED
            BY <3>2, <3>3, <3>4, <3>5 DEF Half
    <2> QED
        BY <2>1, <2>2
<1>5. ASSUME i = Len(m.calls) PROVE Calm(h, k + 1, r)
    <2> DEFINE l == Len(r)
    <2>1. /\ l > 1 /\ AnswersUpTo(r, l - 1) /\ r[l].role = "user" /\ ResultsOf(r[l].blocks, m, Len(m.calls))
          /\ r[l - 1].blocks = AssistantBlocks(m) /\ Shaped(r) /\ l \in Nat
        BY <1>4, <1>5 DEF Half, Shaped
    <2>2. Answer(r[l], r[l - 1]) /\ Uses(r[l]) = {}
        BY <1>1, <2>1, AllAnswer
    <2>3. AnswersUpTo(r, l)
        <3>1. \A x \in 2 .. l : x \in 2 .. l - 1 \/ x = l
            BY <2>1
        <3> QED
            BY <2>1, <2>2, <3>1 DEF AnswersUpTo
    <2>4. Settled(h, k + 1)
        BY <1>0, <1>5 DEF m
    <2> QED
        BY <2>1, <2>2, <2>3, <2>4 DEF Calm
<1>6. ASSUME i # Len(m.calls) PROVE Busy(h, k + 1, r, p)
    <2>1. Waits(h, k + 1, p) /\ k + 1 # p
        BY <1>0, <1>1, <1>6 DEF m
    <2> QED
        BY <1>4, <2>1 DEF Busy, m
<1> QED
    BY <1>5, <1>6 DEF r

\* A complete conversation is turns that alternate, each with the results of the calls
\* of the one before.
LEMMA ContentsAlternate == ASSUME NEW h \in Seq(Msg), Complete(h) PROVE Alternating(ToContents(h))
<1> DEFINE n == Len(h)
<1>1. n \in Nat /\ n >= 2 /\ Settled(h, n) /\ Dialogue(h) /\ \A k \in 1 .. n : h[k] \in Msg
    BY CompleteIsSettled, ElementOfSeq DEF Complete
<1>2. PICK g : /\ g[0] = <<>> /\ \A k \in 1 .. n : g[k] = GeminiStep(g[k - 1], h[k])
               /\ ToContents(h) = g[n]
    BY ContentsAre
<1> HIDE DEF n
<1> DEFINE Ok(k) == Calm(h, k, g[k]) \/ \E p : Busy(h, k, g[k], p)
           T == {k \in Nat : k >= 2 /\ k <= n => Ok(k)}
<1>3. 0 \in T /\ 1 \in T
    OBVIOUS
<1>4. Ok(2)
    <2> DEFINE t == g[2]
               turn == [role |-> "user", blocks |-> <<Text>>]
    <2>1. g[1] = <<>>
        <3>1. 1 \in 1 .. n /\ 1 - 1 = 0
            BY <1>1
        <3>2. g[1] = GeminiStep(<<>>, h[1]) /\ <<>> \in Seq(Turns) /\ h[1] \in Msg /\ h[1].role = "system"
            BY <1>1, <1>2, <3>1 DEF Dialogue, InPlace
        <3> QED
            BY <3>2, GeminiStepIs
    <2>2. t = AddTurn(<<>>, "user", <<Text>>)
        <3>1. 2 \in 1 .. n /\ 2 - 1 = 1
            BY <1>1
        <3>2. t = GeminiStep(<<>>, h[2]) /\ <<>> \in Seq(Turns) /\ h[2] \in Msg /\ h[2].role = "user"
            BY <1>1, <1>2, <2>1, <3>1 DEF Dialogue, InPlace
        <3> HIDE DEF t
        <3> QED
            BY <3>2, GeminiStepIs
    <2>3. t = <<turn>>
        BY <2>2 DEF AddTurn
    <2>4. Text \in Blocks /\ Text.type = "text"
        BY BlockIs
    <2>5. turn \in Turns
        BY <2>4 DEF Turns
    <2>6. Results(turn) = {} /\ Uses(turn) = {} /\ turn.blocks # <<>> /\ turn.role = "user"
        BY <2>4 DEF Results, Uses
    <2> HIDE DEF t, turn
    <2>7. t \in Seq(Turns) /\ Len(t) = 1 /\ t[1] = turn
        BY <2>3, <2>5
    <2>8. Shaped(t)
        <3>1. 1 .. 1 = {1} /\ 1 % 2 = 1
            OBVIOUS
        <3> QED
            BY <2>6, <2>7, <3>1 DEF Shaped
    <2>9. Settled(h, 2)
        <3>1. h[1].calls = <<>> /\ h[2].calls = <<>>
            <4>1. 1 \in 1 .. n /\ 2 \in 1 .. n
                BY <1>1
            <4> QED
                BY <1>1, <4>1 DEF Dialogue, InPlace, n
        <3>2. 1 .. 2 = {1, 2}
            OBVIOUS
        <3> QED
            BY <3>1, <3>2 DEF Settled
    <2>10. AnswersUpTo(t, 1)
        BY DEF AnswersUpTo
    <2>11. Calm(h, 2, t)
        BY <2>6, <2>7, <2>8, <2>9, <2>10 DEF Calm
    <2> QED
        BY <2>11 DEF t
<1>5. ASSUME NEW k \in Nat, k \in T PROVE k + 1 \in T
    <2> SUFFICES ASSUME k + 1 >= 2, k + 1 <= n PROVE Ok(k + 1)
        OBVIOUS
    <2>1. CASE k = 1
        BY <1>4, <2>1
    <2>2. CASE k # 1
        <3>1. k \in 2 .. n - 1 /\ k + 1 \in 1 .. n /\ (k + 1) - 1 = k /\ Ok(k)
            BY <1>1, <1>5, <2>2
        <3>2. g[k + 1] = GeminiStep(g[k], h[k + 1])
            BY <1>2, <3>1
        <3>3. CASE Calm(h, k, g[k])
            <4>1. Calm(h, k + 1, g[k + 1]) \/ Busy(h, k + 1, g[k + 1], k + 1)
                BY <1>1, <3>1, <3>2, <3>3, CalmStep DEF n
            <4> QED
                BY <4>1
        <3>4. CASE \E p : Busy(h, k, g[k], p)
            <4>1. PICK p : Busy(h, k, g[k], p)
                BY <3>4
            <4>2. Calm(h, k + 1, g[k + 1]) \/ Busy(h, k + 1, g[k + 1], p)
                BY <1>1, <3>1, <3>2, <4>1, BusyStep DEF n
            <4> QED
                BY <4>2
        <3> QED
            BY <3>1, <3>3, <3>4
    <2> QED
        BY <2>1, <2>2
<1> HIDE DEF T
<1>6. Nat \subseteq T
    BY <1>3, <1>5, Induction
<1>7. Ok(n)
    BY <1>1, <1>6 DEF T
<1>8. ~\E p : Busy(h, n, g[n], p)
    <2> SUFFICES ASSUME NEW p, Waits(h, n, p) PROVE FALSE
        BY DEF Busy
    <2>1. p \in 1 .. n /\ n - p < Len(h[p].calls) /\ n - p >= Len(h[p].calls) /\ h[p] \in Msg
        BY <1>1 DEF Waits, Settled
    <2>2. Len(h[p].calls) \in Nat
        BY <2>1, MsgParts
    <2> QED
        BY <1>1, <2>1, <2>2
<1>9. Calm(h, n, g[n])
    BY <1>7, <1>8
<1>10. h[n].role \in {"user", "tool"}
    BY DEF Complete, n
<1> DEFINE t == g[n]
<1>11. /\ t \in Seq(Turns) /\ Len(t) > 0 /\ Results(t[1]) = {} /\ Uses(t[Len(t)]) = {} /\ t[Len(t)].role = "user"
       /\ AnswersUpTo(t, Len(t))
       /\ \A k \in 1 .. Len(t) : t[k].role = (IF k % 2 = 1 THEN "user" ELSE "assistant") /\ t[k].blocks # <<>>
    BY <1>9, <1>10 DEF Calm, Shaped
<1> HIDE DEF t
<1>12. t # <<>> /\ DOMAIN t = 1 .. Len(t) /\ Last(t) = t[Len(t)]
    BY <1>11 DEF Last
<1>13. Alternating(t)
    BY <1>11, <1>12 DEF Alternating, AnswersUpTo
<1> QED
    BY <1>2, <1>13 DEF t

-----------------------------------------------------------------------------
(* Messages that are answered.                                             *)

\* One message more, for OpenAI.
LEMMA OpenAIStepIs ==
    ASSUME NEW t \in Seq(Turns), NEW m \in Msg
    PROVE  LET x == [role |-> m.role,
                     blocks |-> IF m.role = "tool" THEN <<Block("result", m.of)>>
                                ELSE IF m.role = "assistant" THEN AssistantBlocks(m) ELSE <<Text>>]
           IN  /\ x \in Turns /\ OpenAIStep(t, m) \in Seq(Turns)
               /\ ~(m.role = "assistant" /\ AssistantBlocks(m) = <<>>) => OpenAIStep(t, m) = Append(t, x)
               /\ m.role = "assistant" /\ AssistantBlocks(m) = <<>> => OpenAIStep(t, m) = t
<1> DEFINE b == IF m.role = "tool" THEN <<Block("result", m.of)>>
                ELSE IF m.role = "assistant" THEN AssistantBlocks(m) ELSE <<Text>>
           x == [role |-> m.role, blocks |-> b]
<1>1. m.role \in {"system", "user", "assistant", "tool"} /\ m.of \in Answers
    BY MsgParts
<1>2. b \in Seq(Blocks)
    <2>1. <<Block("result", m.of)>> \in Seq(Blocks) /\ <<Text>> \in Seq(Blocks) /\ AssistantBlocks(m) \in Seq(Blocks)
        <3>1. Block("result", m.of) \in Blocks /\ Text \in Blocks
            BY <1>1, BlockIs
        <3> QED
            BY <3>1, AssistantBlocksAre
    <2> QED
        BY <2>1
<1>3. x \in Turns
    <2> HIDE DEF b
    <2> QED
        BY <1>1, <1>2 DEF Turns
<1>4. /\ ~(m.role = "assistant" /\ AssistantBlocks(m) = <<>>) => OpenAIStep(t, m) = Append(t, x)
      /\ m.role = "assistant" /\ AssistantBlocks(m) = <<>> => OpenAIStep(t, m) = t
    BY <1>1 DEF OpenAIStep
<1> HIDE DEF x, b
<1>5. OpenAIStep(t, m) \in Seq(Turns)
    BY <1>3, <1>4, AppendProperties
<1> QED
    BY <1>3, <1>4, <1>5 DEF x, b

\* What OpenAI is sent grows message by message.
LEMMA ChatMessagesAre ==
    ASSUME NEW h \in Seq(Msg)
    PROVE  \E g : /\ g[0] = <<>> /\ \A k \in 1 .. Len(h) : g[k] = OpenAIStep(g[k - 1], h[k])
                  /\ ToChatMessages(h) = g[Len(h)]
<1> DEFINE n == Len(h)
           next == [k \in 1 .. n |-> [x \in Seq(Turns) |-> OpenAIStep(x, h[k])]]
           Grows(f) == f = [k \in 0 .. n |-> IF k = 0 THEN <<>> ELSE OpenAIStep(f[k - 1], h[k])]
           g == CHOOSE upTo : upTo = [k \in 0 .. Len(h) |-> IF k = 0 THEN <<>> ELSE OpenAIStep(upTo[k - 1], h[k])]
<1>1. n \in Nat /\ \A k \in 1 .. n : h[k] \in Msg
    BY ElementOfSeq
<1>2. next \in [1 .. n -> [Seq(Turns) -> Seq(Turns)]]
    <2>1. \A k \in 1 .. n, x \in Seq(Turns) : OpenAIStep(x, h[k]) \in Seq(Turns)
        BY <1>1, OpenAIStepIs
    <2> QED
        BY <2>1
<1>3. <<>> \in Seq(Turns)
    OBVIOUS
<1>4. PICK f \in [0 .. n -> Seq(Turns)] : Iterates(f, <<>>, next, n)
    <2> HIDE DEF next, n
    <2> QED
        BY <1>1, <1>2, <1>3, Recursion
<1>5. \A k \in 1 .. n : f[k] = OpenAIStep(f[k - 1], h[k])
    <2> TAKE k \in 1 .. n
    <2>1. f[k - 1] \in Seq(Turns)
        BY <1>1, <1>4
    <2>2. f[k] = next[k][f[k - 1]]
        <3> HIDE DEF next, n
        <3> QED
            BY <1>4 DEF Iterates
    <2> QED
        BY <2>1, <2>2
<1>6. Grows(f)
    <2>1. f[0] = <<>>
        BY <1>4 DEF Iterates
    <2>2. \A k \in 0 .. n : k = 0 \/ k \in 1 .. n
        BY <1>1
    <2> HIDE DEF next, n
    <2>3. \A k \in 0 .. n : f[k] = IF k = 0 THEN <<>> ELSE OpenAIStep(f[k - 1], h[k])
        BY <1>5, <2>1, <2>2
    <2> QED
        BY <1>4, <2>3
<1>7. Grows(g)
    BY <1>6, Zenon
<1>8. ToChatMessages(h) = g[n]
    BY DEF ToChatMessages, Through
<1> HIDE DEF g, next
<1>9. g[0] = <<>> /\ \A k \in 1 .. n : g[k] = OpenAIStep(g[k - 1], h[k])
    <2>1. 0 \in 0 .. n /\ \A k \in 1 .. n : k \in 0 .. n /\ k # 0
        BY <1>1
    <2> HIDE DEF n
    <2> QED
        BY <1>7, <2>1
<1> QED
    BY <1>8, <1>9

\* The calls at i have their results right after it, and a result has its call.
Full(t, i) ==
    \A u \in Uses(t[i]) :
        LET place == i + Rank(u, Uses(t[i])) IN
        place <= Len(t) /\ t[place].blocks = <<Block("result", t[i].blocks[u].id)>>

Called(t, i) ==
    t[i].role = "tool" => \E p \in 1 .. i - 1 : t[p].role = "assistant" /\ i - p <= Cardinality(Uses(t[p]))

\* A turn has finitely many calls.
LEMMA UsesFinite == ASSUME NEW turn \in Turns PROVE IsFiniteSet(Uses(turn)) /\ \A u \in Uses(turn) : u \in Int
<1>1. Len(turn.blocks) \in Nat /\ Uses(turn) \subseteq 1 .. Len(turn.blocks)
    BY DEF Turns, Uses
<1>2. IsFiniteSet(1 .. Len(turn.blocks))
    BY <1>1, FS_Interval
<1>3. IsFiniteSet(Uses(turn))
    BY <1>1, <1>2, FS_Subset
<1> QED
    BY <1>1, <1>3

\* What is appended leaves that of the messages before.
LEMMA Appended ==
    ASSUME NEW t \in Seq(Turns), NEW x \in Turns
    PROVE  LET r == Append(t, x) IN
           /\ r \in Seq(Turns) /\ Len(r) = Len(t) + 1 /\ r[Len(t) + 1] = x
           /\ \A i \in 1 .. Len(t) : r[i] = t[i] /\ (Full(t, i) => Full(r, i)) /\ (Called(t, i) => Called(r, i))
           /\ Uses(x) = {} => Full(r, Len(t) + 1)
           /\ x.role # "tool" => Called(r, Len(t) + 1)
<1> DEFINE r == Append(t, x)
           n == Len(t)
<1>1. n \in Nat /\ \A i \in 1 .. n : t[i] \in Turns
    BY ElementOfSeq
<1>2. r \in Seq(Turns) /\ Len(r) = n + 1 /\ r[n + 1] = x /\ \A i \in 1 .. n : r[i] = t[i]
    BY AppendProperties
<1> HIDE DEF r, n
<1>3. ASSUME NEW i \in 1 .. n, Full(t, i) PROVE Full(r, i)
    <2> DEFINE s == Uses(t[i])
    <2>1. r[i] = t[i] /\ IsFiniteSet(s) /\ \A u \in s : u \in Int
        BY <1>1, <1>2, UsesFinite
    <2> SUFFICES ASSUME NEW u \in s
                 PROVE  i + Rank(u, s) <= Len(r) /\ r[i + Rank(u, s)].blocks = <<Block("result", t[i].blocks[u].id)>>
        BY <2>1 DEF Full
    <2>2. i + Rank(u, s) <= n /\ t[i + Rank(u, s)].blocks = <<Block("result", t[i].blocks[u].id)>>
        BY <1>3 DEF Full, n
    <2> HIDE DEF s
    <2>3. Rank(u, s) \in 1 .. Cardinality(s) /\ Cardinality(s) \in Nat
        BY <2>1, RankIs, FS_CardinalityType
    <2>4. i + Rank(u, s) \in 1 .. n
        BY <1>1, <2>2, <2>3
    <2> QED
        BY <1>1, <1>2, <2>2, <2>4
<1>4. ASSUME NEW i \in 1 .. n, Called(t, i) PROVE Called(r, i)
    <2>1. \A p \in 1 .. i - 1 : p \in 1 .. n
        BY <1>1
    <2> QED
        BY <1>2, <1>4, <2>1 DEF Called
<1>5. Uses(x) = {} => Full(r, n + 1)
    BY <1>2 DEF Full
<1>6. x.role # "tool" => Called(r, n + 1)
    BY <1>2 DEF Called
<1> QED
    BY <1>2, <1>3, <1>4, <1>5, <1>6 DEF r, n

ChatCalm(h, k, t) ==
    Settled(h, k) /\ t \in Seq(Turns) /\ \A i \in 1 .. Len(t) : Full(t, i) /\ Called(t, i)

\* The results so far of the calls at a follow it.
ChatBusy(h, k, t, p) ==
    LET a == Len(t) - (k - p) IN
    /\ Waits(h, k, p) /\ t \in Seq(Turns)
    /\ a \in 1 .. Len(t) /\ t[a].role = "assistant" /\ t[a].blocks = AssistantBlocks(h[p])
    /\ \A j \in 1 .. k - p : t[a + j].blocks = <<Block("result", h[p].calls[j])>>
    /\ \A i \in 1 .. Len(t) : Called(t, i) /\ (i # a => Full(t, i))

\* A text has no calls.
LEMMA TextTurn == ASSUME NEW x, x.blocks = <<Text>> PROVE Uses(x) = {}
<1>1. DOMAIN <<Text>> = {1} /\ <<Text>>[1] = Text
    OBVIOUS
<1> QED
    BY <1>1, BlockIs DEF Uses

\* Appending a message without calls that is no result.
LEMMA PlainStep ==
    ASSUME NEW t \in Seq(Turns), \A i \in 1 .. Len(t) : Full(t, i) /\ Called(t, i),
           NEW x \in Turns, Uses(x) = {}, x.role # "tool"
    PROVE  LET r == Append(t, x) IN r \in Seq(Turns) /\ \A i \in 1 .. Len(r) : Full(r, i) /\ Called(r, i)
<1> DEFINE r == Append(t, x)
           n == Len(t)
<1>1. /\ n \in Nat /\ r \in Seq(Turns) /\ Len(r) = n + 1
      /\ \A i \in 1 .. n : Full(r, i) /\ Called(r, i)
      /\ Full(r, n + 1) /\ Called(r, n + 1)
    BY Appended
<1> HIDE DEF r, n
<1>2. \A i \in 1 .. n + 1 : i \in 1 .. n \/ i = n + 1
    BY <1>1
<1>3. \A i \in 1 .. n + 1 : Full(r, i) /\ Called(r, i)
    BY <1>1, <1>2
<1> QED
    BY <1>1, <1>3 DEF r

\* A user message or a reply, when no call waits.
LEMMA ChatCalmStep ==
    ASSUME NEW h \in Seq(Msg), Dialogue(h), NEW k \in 2 .. Len(h) - 1, NEW t, ChatCalm(h, k, t)
    PROVE  LET r == OpenAIStep(t, h[k + 1]) IN ChatCalm(h, k + 1, r) \/ ChatBusy(h, k + 1, r, k + 1)
<1> DEFINE n == Len(t)
           m == h[k + 1]
           r == OpenAIStep(t, m)
           blocks == AssistantBlocks(m)
           x == [role |-> m.role, blocks |-> IF m.role = "tool" THEN <<Block("result", m.of)>>
                                             ELSE IF m.role = "assistant" THEN blocks ELSE <<Text>>]
<1>0. /\ k + 1 \in 1 .. Len(h) /\ m.role \in {"user", "assistant"}
      /\ m.calls = <<>> => Settled(h, k + 1)
      /\ m.calls # <<>> => m.role = "assistant" /\ Waits(h, k + 1, k + 1)
    BY NextIs DEF ChatCalm
<1>1. m \in Msg
    BY <1>0, ElementOfSeq
<1>2. t \in Seq(Turns) /\ n \in Nat /\ \A i \in 1 .. n : Full(t, i) /\ Called(t, i)
    BY DEF ChatCalm
<1>3. /\ x \in Turns
      /\ ~(m.role = "assistant" /\ blocks = <<>>) => r = Append(t, x)
      /\ m.role = "assistant" /\ blocks = <<>> => r = t
    BY <1>1, <1>2, OpenAIStepIs
<1>4. x.role = m.role /\ (m.role = "user" => x.blocks = <<Text>>) /\ (m.role = "assistant" => x.blocks = blocks)
    OBVIOUS
<1> HIDE DEF r, m, x
<1>5. CASE m.role = "assistant" /\ blocks = <<>>
    <2>1. m.calls = <<>>
        <3>1. Len(blocks) = 0 /\ Len(blocks) = Offset(m) + Len(m.calls) /\ m.calls \in Seq(Answers)
            BY <1>1, <1>5, AssistantBlocksAre, MsgParts
        <3>2. Offset(m) \in Nat /\ Len(m.calls) \in Nat
            BY <3>1 DEF Offset
        <3>3. Len(m.calls) = 0
            BY <3>1, <3>2
        <3> QED
            BY <3>1, <3>3, EmptySeq
    <2>2. ChatCalm(h, k + 1, r)
        BY <1>0, <1>2, <1>3, <1>5, <2>1 DEF ChatCalm
    <2> QED
        BY <2>2 DEF r, m
<1>6. CASE ~(m.role = "assistant" /\ blocks = <<>>) /\ m.calls = <<>>
    <2>1. Uses(x) = {}
        <3>1. CASE m.role = "user"
            BY <1>4, <3>1, TextTurn
        <3>2. CASE m.role = "assistant"
            BY <1>1, <1>4, <1>6, <3>2, UsesAre
        <3> QED
            BY <1>0, <3>1, <3>2
    <2>2. x.role # "tool"
        BY <1>0, <1>4
    <2>3. r \in Seq(Turns) /\ \A i \in 1 .. Len(r) : Full(r, i) /\ Called(r, i)
        BY <1>2, <1>3, <1>6, <2>1, <2>2, PlainStep
    <2>4. ChatCalm(h, k + 1, r)
        BY <1>0, <1>6, <2>3 DEF ChatCalm
    <2> QED
        BY <2>4 DEF r, m
<1>7. CASE ~(m.role = "assistant" /\ blocks = <<>>) /\ m.calls # <<>>
    <2>1. m.role = "assistant" /\ Waits(h, k + 1, k + 1) /\ x.role # "tool"
        BY <1>0, <1>4, <1>7
    <2>2. /\ r \in Seq(Turns) /\ Len(r) = n + 1 /\ r[n + 1] = x
          /\ \A i \in 1 .. n : Full(r, i) /\ Called(r, i)
          /\ Called(r, n + 1)
        <3>1. r = Append(t, x)
            BY <1>3, <1>7
        <3> QED
            BY <1>2, <1>3, <2>1, <3>1, Appended
    <2>3. Len(r) - ((k + 1) - (k + 1)) = n + 1 /\ n + 1 \in 1 .. Len(r)
        BY <1>2, <2>2
    <2>4. r[n + 1].role = "assistant" /\ r[n + 1].blocks = AssistantBlocks(m)
        BY <1>4, <2>1, <2>2
    <2>5. \A j \in 1 .. (k + 1) - (k + 1) : FALSE
        OBVIOUS
    <2>6. \A i \in 1 .. Len(r) : i \in 1 .. n \/ i = n + 1
        BY <1>2, <2>2
    <2>7. ChatBusy(h, k + 1, r, k + 1)
        <3> DEFINE a == Len(r) - ((k + 1) - (k + 1))
        <3>1. a = n + 1
            BY <2>3
        <3> HIDE DEF a
        <3>2. a \in 1 .. Len(r) /\ r[a].role = "assistant" /\ r[a].blocks = AssistantBlocks(h[k + 1])
            BY <2>3, <2>4, <3>1 DEF m
        <3>3. \A i \in 1 .. Len(r) : Called(r, i) /\ (i # a => Full(r, i))
            BY <2>2, <2>6, <3>1
        <3> QED
            BY <2>1, <2>2, <2>5, <3>2, <3>3 DEF ChatBusy, a
    <2> QED
        BY <2>7 DEF r, m
<1> QED
    BY <1>5, <1>6, <1>7

\* A result, when a call waits.
LEMMA ChatBusyStep ==
    ASSUME NEW h \in Seq(Msg), Dialogue(h), NEW k \in 2 .. Len(h) - 1, NEW t, NEW p, ChatBusy(h, k, t, p)
    PROVE  LET r == OpenAIStep(t, h[k + 1]) IN ChatCalm(h, k + 1, r) \/ ChatBusy(h, k + 1, r, p)
<1> DEFINE n == Len(t)
           m == h[p]
           r == OpenAIStep(t, h[k + 1])
           i == (k + 1) - p
           a == n - (k - p)
           x == [role |-> "tool", blocks |-> <<Block("result", m.calls[i])>>]
<1>0. /\ k + 1 \in 1 .. Len(h) /\ h[k + 1].role = "tool" /\ h[k + 1].of = m.calls[i] /\ i \in 1 .. Len(m.calls)
      /\ i = Len(m.calls) => Settled(h, k + 1)
      /\ i # Len(m.calls) => Waits(h, k + 1, p)
    BY NextIs DEF ChatBusy
<1>1. h[k + 1] \in Msg /\ m \in Msg /\ p \in 1 .. k /\ k \in Nat /\ m.calls \in Seq(Answers)
    <2>1. p \in 1 .. k /\ k \in Nat /\ p \in 1 .. Len(h)
        BY DEF ChatBusy, Waits
    <2>2. h[k + 1] \in Msg /\ m \in Msg
        BY <1>0, <2>1, ElementOfSeq
    <2> QED
        BY <2>1, <2>2, MsgParts
<1>2. /\ t \in Seq(Turns) /\ n \in Nat /\ a \in 1 .. n /\ t[a].role = "assistant" /\ t[a].blocks = AssistantBlocks(m)
      /\ \A j \in 1 .. k - p : t[a + j].blocks = <<Block("result", m.calls[j])>>
      /\ \A l \in 1 .. n : Called(t, l) /\ (l # a => Full(t, l))
    BY DEF ChatBusy
<1> HIDE DEF r
<1>3. x \in Turns /\ r = Append(t, x)
    BY <1>0, <1>1, <1>2, OpenAIStepIs DEF r
<1>4. Uses(x) = {}
    <2> DEFINE b == Block("result", m.calls[i])
    <2>1. m.calls[i] \in Answers
        BY <1>0, <1>1, ElementOfSeq
    <2>2. b.type = "result"
        BY <2>1, BlockIs
    <2> HIDE DEF b
    <2>3. DOMAIN <<b>> = {1} /\ <<b>>[1] = b /\ x.blocks = <<b>>
        BY DEF b
    <2> QED
        BY <2>2, <2>3 DEF Uses
<1>5. x.role = "tool" /\ x.blocks = <<Block("result", m.calls[i])>>
    OBVIOUS
<1> HIDE DEF x, m
<1>6. /\ r \in Seq(Turns) /\ Len(r) = n + 1 /\ r[n + 1] = x
      /\ \A l \in 1 .. n : r[l] = t[l] /\ (Full(t, l) => Full(r, l)) /\ (Called(t, l) => Called(r, l))
      /\ Full(r, n + 1)
    BY <1>2, <1>3, <1>4, Appended
<1>7. a + i = n + 1 /\ i = (k - p) + 1 /\ k - p \in Nat
    BY <1>1, <1>2
<1> HIDE DEF n, a, i
<1>8. r[a] = t[a] /\ a \in Nat /\ i \in Nat
    BY <1>1, <1>2, <1>6 DEF i
<1>9. \A j \in 1 .. i : r[a + j].blocks = <<Block("result", m.calls[j])>>
    <2> TAKE j \in 1 .. i
    <2>1. CASE j = i
        BY <1>5, <1>6, <1>7, <2>1
    <2>2. CASE j # i
        <3>1. j \in 1 .. k - p /\ a + j \in 1 .. n
            BY <1>2, <1>7, <1>8, <2>2, SMTT(30)
        <3> QED
            BY <1>2, <1>6, <3>1
    <2> QED
        BY <2>1, <2>2
<1>10. Cardinality(Uses(r[a])) = Len(m.calls)
    BY <1>1, <1>2, <1>8, UsesAre
<1>11. Called(r, n + 1)
    <2>1. a \in 1 .. (n + 1) - 1 /\ (n + 1) - a = i
        BY <1>2, <1>7, <1>8
    <2>2. r[a].role = "assistant" /\ (n + 1) - a <= Cardinality(Uses(r[a]))
        BY <1>0, <1>1, <1>2, <1>8, <1>10, <2>1 DEF m
    <2> QED
        BY <2>1, <2>2 DEF Called
<1>12. \A l \in 1 .. n + 1 : l \in 1 .. n \/ l = n + 1
    <2>1. n \in Nat
        BY <1>2
    <2> QED
        BY ONLY <2>1
<1>13. \A l \in 1 .. n + 1 : Called(r, l) /\ (l # a => Full(r, l))
    BY <1>2, <1>6, <1>11, <1>12
<1>14. ASSUME i = Len(m.calls) PROVE ChatCalm(h, k + 1, r)
    <2>1. Full(r, a)
        <3> DEFINE s == Uses(r[a])
        <3>1. r[a].blocks = AssistantBlocks(m)
            BY <1>2, <1>8
        <3>2. ASSUME NEW u \in s
              PROVE  /\ Rank(u, s) = u - Offset(m) /\ u - Offset(m) \in 1 .. Len(m.calls)
                     /\ r[a].blocks[u].id = m.calls[u - Offset(m)]
            BY <1>1, <3>1, UsesAre
        <3> SUFFICES ASSUME NEW u \in s
                     PROVE  /\ a + Rank(u, s) <= Len(r)
                            /\ r[a + Rank(u, s)].blocks = <<Block("result", r[a].blocks[u].id)>>
            BY DEF Full
        <3> DEFINE j == u - Offset(m)
        <3>3. Rank(u, s) = j /\ j \in 1 .. i /\ r[a].blocks[u].id = m.calls[j]
            BY <1>14, <3>2
        <3> HIDE DEF j, s
        <3>4. a + j <= n + 1
            BY <1>2, <1>7, <1>8, <3>3
        <3>5. r[a + j].blocks = <<Block("result", m.calls[j])>>
            BY <1>9, <3>3
        <3> QED
            BY <1>6, <3>3, <3>4, <3>5
    <2>2. Settled(h, k + 1)
        BY <1>0, <1>14 DEF m, i
    <2>3. \A l \in 1 .. n + 1 : Full(r, l) /\ Called(r, l)
        BY <1>13, <2>1
    <2> QED
        BY <1>6, <2>2, <2>3 DEF ChatCalm
<1>15. ASSUME i # Len(m.calls) PROVE ChatBusy(h, k + 1, r, p)
    <2>1. Waits(h, k + 1, p)
        BY <1>0, <1>15 DEF m, i
    <2> DEFINE c == Len(r) - ((k + 1) - p)
    <2>2. c = a
        BY <1>2, <1>6, <1>7, <1>8 DEF i
    <2> HIDE DEF c
    <2>3. c \in 1 .. Len(r) /\ r[c].role = "assistant" /\ r[c].blocks = AssistantBlocks(m)
        BY <1>2, <1>6, <1>8, <2>2
    <2>4. \A j \in 1 .. (k + 1) - p : r[c + j].blocks = <<Block("result", m.calls[j])>>
        BY <1>9, <2>2 DEF i
    <2>5. \A l \in 1 .. Len(r) : Called(r, l) /\ (l # c => Full(r, l))
        BY <1>6, <1>13, <2>2
    <2> QED
        BY <1>6, <2>1, <2>3, <2>4, <2>5 DEF ChatBusy, c, m
<1> QED
    BY <1>14, <1>15 DEF r

\* In a complete conversation the messages after one with calls are their results.
LEMMA ChatIsAnswered == ASSUME NEW h \in Seq(Msg), Complete(h) PROVE Answered(ToChatMessages(h))
<1> DEFINE n == Len(h)
<1>1. n \in Nat /\ n >= 2 /\ Settled(h, n) /\ Dialogue(h) /\ \A k \in 1 .. n : h[k] \in Msg
    BY CompleteIsSettled, ElementOfSeq DEF Complete
<1>2. PICK g : /\ g[0] = <<>> /\ \A k \in 1 .. n : g[k] = OpenAIStep(g[k - 1], h[k])
               /\ ToChatMessages(h) = g[n]
    BY ChatMessagesAre
<1> HIDE DEF n
<1> DEFINE Ok(k) == ChatCalm(h, k, g[k]) \/ \E p : ChatBusy(h, k, g[k], p)
           T == {k \in Nat : k >= 2 /\ k <= n => Ok(k)}
<1>3. 0 \in T /\ 1 \in T
    OBVIOUS
<1>4. Ok(2)
    <2> DEFINE All(t) == t \in Seq(Turns) /\ \A i \in 1 .. Len(t) : Full(t, i) /\ Called(t, i)
    <2>1. ASSUME NEW t, All(t), NEW k \in 1 .. 2 PROVE All(OpenAIStep(t, h[k]))
        <3> DEFINE x == [role |-> h[k].role, blocks |-> <<Text>>]
        <3>1. h[k] \in Msg /\ h[k].role \in {"system", "user"}
            <4>1. k \in 1 .. n /\ (k = 1 \/ k = 2)
                BY <1>1
            <4> QED
                BY <1>1, <4>1 DEF Dialogue, InPlace
        <3>2. x \in Turns /\ OpenAIStep(t, h[k]) = Append(t, x)
            BY <2>1, <3>1, OpenAIStepIs
        <3>3. Uses(x) = {} /\ x.role # "tool"
            BY <3>1, TextTurn
        <3> HIDE DEF x
        <3> QED
            BY <2>1, <3>2, <3>3, PlainStep
    <2>2. All(<<>>)
        OBVIOUS
    <2>3. 1 \in 1 .. n /\ 2 \in 1 .. n /\ 1 - 1 = 0 /\ 2 - 1 = 1 /\ 1 \in 1 .. 2 /\ 2 \in 1 .. 2
        BY <1>1
    <2> HIDE DEF All
    <2>4. All(g[1])
        BY <1>2, <2>1, <2>2, <2>3
    <2>5. All(g[2])
        BY <1>2, <2>1, <2>3, <2>4
    <2>6. Settled(h, 2)
        <3>1. h[1].calls = <<>> /\ h[2].calls = <<>>
            BY <1>1, <2>3 DEF Dialogue, InPlace, n
        <3>2. 1 .. 2 = {1, 2}
            OBVIOUS
        <3> QED
            BY <3>1, <3>2 DEF Settled
    <2> QED
        BY <2>5, <2>6 DEF ChatCalm, All
<1>5. ASSUME NEW k \in Nat, k \in T PROVE k + 1 \in T
    <2> SUFFICES ASSUME k + 1 >= 2, k + 1 <= n PROVE Ok(k + 1)
        OBVIOUS
    <2>1. CASE k = 1
        BY <1>4, <2>1
    <2>2. CASE k # 1
        <3>1. k \in 2 .. n - 1 /\ k + 1 \in 1 .. n /\ (k + 1) - 1 = k /\ Ok(k)
            BY <1>1, <1>5, <2>2
        <3>2. g[k + 1] = OpenAIStep(g[k], h[k + 1])
            BY <1>2, <3>1
        <3>3. CASE ChatCalm(h, k, g[k])
            <4>1. ChatCalm(h, k + 1, g[k + 1]) \/ ChatBusy(h, k + 1, g[k + 1], k + 1)
                BY <1>1, <3>1, <3>2, <3>3, ChatCalmStep DEF n
            <4> QED
                BY <4>1
        <3>4. CASE \E p : ChatBusy(h, k, g[k], p)
            <4>1. PICK p : ChatBusy(h, k, g[k], p)
                BY <3>4
            <4>2. ChatCalm(h, k + 1, g[k + 1]) \/ ChatBusy(h, k + 1, g[k + 1], p)
                BY <1>1, <3>1, <3>2, <4>1, ChatBusyStep DEF n
            <4> QED
                BY <4>2
        <3> QED
            BY <3>1, <3>3, <3>4
    <2> QED
        BY <2>1, <2>2
<1> HIDE DEF T
<1>6. Nat \subseteq T
    BY <1>3, <1>5, Induction
<1>7. Ok(n)
    BY <1>1, <1>6 DEF T
<1>8. ~\E p : ChatBusy(h, n, g[n], p)
    <2> SUFFICES ASSUME NEW p, Waits(h, n, p) PROVE FALSE
        BY DEF ChatBusy
    <2>1. p \in 1 .. n /\ n - p < Len(h[p].calls) /\ n - p >= Len(h[p].calls) /\ h[p] \in Msg
        BY <1>1 DEF Waits, Settled
    <2>2. Len(h[p].calls) \in Nat
        BY <2>1, MsgParts
    <2> QED
        BY <1>1, <2>1, <2>2
<1>9. ChatCalm(h, n, g[n])
    BY <1>7, <1>8
<1> DEFINE t == g[n]
<1>10. t \in Seq(Turns) /\ \A i \in 1 .. Len(t) : Full(t, i) /\ Called(t, i)
    BY <1>9 DEF ChatCalm
<1> HIDE DEF t
<1>11. Answered(t)
    <2>1. DOMAIN t = 1 .. Len(t)
        BY <1>10
    <2> QED
        BY <1>10, <2>1 DEF Answered, Full, Called
<1> QED
    BY <1>2, <1>11 DEF t

\* A complete conversation is accepted by every provider.
THEOREM CompleteIsWellFormed ==
    ASSUME NEW h \in Seq(Msg), Complete(h)
    PROVE  /\ Alternating(ToMessages(h)) /\ Alternating(ToConverse(h)) /\ Alternating(ToContents(h))
           /\ Answered(ToChatMessages(h))
BY OneFormat, ContentsAlternate, ChatIsAnswered

-----------------------------------------------------------------------------
(* Conversations that grow, are cut back, or are shown in part.            *)

\* What does not change when a message is cut shorter.
Alike(m, n) == m.role = n.role /\ m.calls = n.calls /\ m.of = n.of /\ m.uids = n.uids

\* A cut parts no call from its result.
Clean(h, c) == c < Len(h) => h[c + 1].role # "tool"

\* Right after a message that is no result and makes no calls a cut is clean.
LEMMA CleanAfter ==
    ASSUME NEW h \in Seq(Msg), Dialogue(h), NEW k \in 1 .. Len(h), h[k].calls = <<>>, h[k].role # "tool"
    PROVE  Clean(h, k)
<1> SUFFICES ASSUME k < Len(h), h[k + 1].role = "tool" PROVE FALSE
    BY DEF Clean
<1>1. Len(h) \in Nat /\ k + 1 \in 1 .. Len(h) /\ Len(h[k].calls) = 0
    OBVIOUS
<1>2. PICK p \in 1 .. k + 1 : CalledBy(h, k + 1, p)
    BY <1>1 DEF Dialogue, InPlace
<1>3. p \in 1 .. k /\ (k + 1) - p <= Len(h[p].calls)
    BY <1>2 DEF CalledBy
<1>4. p # k
    BY <1>1, <1>3
<1>5. Len(h[p].calls) \in Nat
    <2>1. p \in 1 .. Len(h)
        BY <1>1, <1>3
    <2>2. h[p] \in Msg
        BY <2>1, ElementOfSeq
    <2> QED
        BY <2>2, MsgParts
<1>6. CalledBy(h, k, p)
    BY <1>1, <1>3, <1>4, <1>5 DEF CalledBy
<1> QED
    BY <1>3, <1>6 DEF Dialogue, InPlace

\* A cut that is not blocked is clean.
LEMMA OpenIsClean ==
    ASSUME NEW h \in Seq(Msg), NEW c \in Nat, c \notin BlockedCuts(h)
    PROVE  Clean(h, c)
<1> SUFFICES ASSUME c < Len(h), h[c + 1].role = "tool" PROVE FALSE
    BY DEF Clean
<1> DEFINE i == c + 1
           Blocks1(x) == LET callers == {p \in 1 .. x - 1 : h[x].of \in ToSet(h[p].calls)} IN
                         {x - 1} \cup (IF callers = {} THEN {} ELSE Max(callers) .. x - 1)
<1>1. i \in {x \in DOMAIN h : h[x].role = "tool"} /\ i - 1 = c
    OBVIOUS
<1>2. BlockedCuts(h) = UNION {Blocks1(x) : x \in {x \in DOMAIN h : h[x].role = "tool"}}
    BY Zenon DEF BlockedCuts
<1>3. c \in Blocks1(i)
    BY <1>1
<1> HIDE DEF Blocks1, i
<1> QED
    BY <1>1, <1>2, <1>3

\* A conversation without open calls goes on with its user, or with a reply to a
\* message or to results.
LEMMA GoesOn ==
    ASSUME NEW h \in Seq(Msg), Dialogue(h), NEW m \in Msg, h[Len(h)].calls = <<>>,
           \/ m.role = "user" /\ m.calls = <<>>
           \/ m.role = "assistant" /\ h[Len(h)].role \in {"user", "tool"}
    PROVE  Dialogue(Append(h, m))
<1> DEFINE n == Len(h)
           g == Append(h, m)
<1>1. n \in Nat /\ n >= 2
    BY DEF Dialogue, InPlace
<1>2. g \in Seq(Msg) /\ Len(g) = n + 1 /\ g[n + 1] = m /\ \A k \in 1 .. n : g[k] = h[k]
    OBVIOUS
<1>3. Len(h[n].calls) = 0 /\ h[n].calls = <<>>
    OBVIOUS
<1>4. \A k \in 1 .. n : Len(h[k].calls) \in Nat
    <2>1. \A k \in 1 .. n : h[k] \in Msg
        BY ElementOfSeq
    <2> QED
        BY <2>1, MsgParts
<1>5. /\ h[1].role = "system" /\ h[2].role = "user"
      /\ \A k \in 2 .. n : h[k].role # "system"
      /\ \A k \in 1 .. n : InPlace(h, k)
    BY DEF Dialogue
<1>6. h[n].role \in {"user", "tool"} \/ m.role # "assistant"
    OBVIOUS
<1>7. m.role \in {"user", "assistant"} /\ (m.calls # <<>> => m.role = "assistant")
    OBVIOUS
<1> HIDE DEF n, g
<1>8. \A k \in 1 .. n, p \in 1 .. n : CalledBy(g, k, p) <=> CalledBy(h, k, p)
    BY <1>2 DEF CalledBy
<1>9. ASSUME NEW k \in 1 .. n PROVE InPlace(g, k)
    <2>1. g[k] = h[k] /\ \A p \in 1 .. k : p \in 1 .. n /\ g[p] = h[p]
        BY <1>1, <1>2
    <2>2. k > 2 => g[k - 1] = h[k - 1]
        BY <1>1, <1>2
    <2>3. \A p \in 1 .. k : CalledBy(g, k, p) <=> CalledBy(h, k, p)
        BY <1>8, <2>1
    <2>4. k + Len(h[k].calls) <= n + 1
        <3>1. CASE k = n
            BY <1>1, <1>3, <3>1
        <3>2. CASE k # n
            <4>1. k < n /\ Len(h[k].calls) \in Nat
                BY <1>1, <1>4, <3>2
            <4>2. k + Len(h[k].calls) <= n
                BY <1>5, <4>1 DEF InPlace, n
            <4> QED
                BY <1>1, <4>1, <4>2
        <3> QED
            BY <3>1, <3>2
    <2>5. InPlace(h, k)
        BY <1>5
    <2> QED
        BY <1>2, <2>1, <2>2, <2>3, <2>4, <2>5 DEF InPlace
<1>10. ASSUME NEW p \in 1 .. n + 1, CalledBy(g, n + 1, p) PROVE FALSE
    <2>1. p \in 1 .. n /\ (n + 1) - p <= Len(h[p].calls)
        BY <1>1, <1>2, <1>10 DEF CalledBy
    <2>2. p # n
        BY <1>1, <1>3, <2>1
    <2>3. p + Len(h[p].calls) <= n
        <3>1. p < n /\ InPlace(h, p)
            BY <1>1, <1>5, <2>1, <2>2
        <3> QED
            BY <3>1 DEF InPlace, n
    <2> QED
        BY <1>1, <1>4, <2>1, <2>3
<1>11. ASSUME NEW k \in 1 .. n + 1 PROVE InPlace(g, k)
    <2>1. CASE k = n + 1
        <3>1. g[k] = m /\ g[k - 1] = h[n] /\ k > 2
            BY <1>1, <1>2, <2>1
        <3>2. g[k].role = "assistant" => g[k - 1].role \in {"user", "tool"}
            BY <1>6, <3>1
        <3>3. g[k].role # "tool" /\ (g[k].calls # <<>> => g[k].role = "assistant")
            BY <1>7, <3>1
        <3>4. \A p \in 1 .. k : ~CalledBy(g, k, p)
            BY <1>10, <2>1
        <3>5. ~(k < Len(g))
            BY <1>1, <1>2, <2>1
        <3> QED
            BY <3>1, <3>2, <3>3, <3>4, <3>5 DEF InPlace
    <2>2. CASE k # n + 1
        <3>1. k \in 1 .. n
            BY <1>1, <2>2
        <3> QED
            BY <1>9, <3>1
    <2> QED
        BY <2>1, <2>2
<1>12. g[1].role = "system" /\ g[2].role = "user" /\ \A k \in 2 .. n + 1 : g[k].role # "system"
    <2>1. g[1] = h[1] /\ g[2] = h[2] /\ 2 \in 1 .. n
        BY <1>1, <1>2
    <2>2. ASSUME NEW k \in 2 .. n + 1 PROVE g[k].role # "system"
        <3>1. CASE k = n + 1
            BY <1>2, <1>7, <3>1
        <3>2. CASE k # n + 1
            <4>1. k \in 2 .. n /\ g[k] = h[k]
                BY <1>1, <1>2, <3>2
            <4> QED
                BY <1>5, <4>1
        <3> QED
            BY <3>1, <3>2
    <2> QED
        BY <1>5, <2>1, <2>2
<1>13. Dialogue(g)
    BY <1>1, <1>2, <1>11, <1>12 DEF Dialogue
<1> QED
    BY <1>13 DEF g

\* One with open calls goes on with their results.
LEMMA IsAnswered ==
    ASSUME NEW h \in Seq(Msg), Dialogue(h), NEW ms \in Seq(Msg), ms # <<>>, Len(ms) = Len(h[Len(h)].calls),
           \A k \in 1 .. Len(ms) : ms[k].role = "tool" /\ ms[k].calls = <<>> /\ ms[k].of = h[Len(h)].calls[k]
    PROVE  Dialogue(h \o ms)
<1> DEFINE n == Len(h)
           d == Len(ms)
           g == h \o ms
<1>1. n \in Nat /\ n >= 2 /\ d \in Nat /\ d >= 1
    BY DEF Dialogue, InPlace
<1>2. /\ g \in Seq(Msg) /\ Len(g) = n + d
      /\ \A k \in 1 .. n + d : g[k] = IF k <= n THEN h[k] ELSE ms[k - n]
    BY ONLY h \in Seq(Msg), ms \in Seq(Msg), ConcatProperties
<1>3. \A k \in 1 .. n : g[k] = h[k]
    BY <1>1, <1>2
<1>4. Len(h[n].calls) = d
    OBVIOUS
<1>5. \A k \in 1 .. n : Len(h[k].calls) \in Nat
    <2>1. \A k \in 1 .. n : h[k] \in Msg
        BY ElementOfSeq
    <2> QED
        BY <2>1, MsgParts
<1>6. /\ h[1].role = "system" /\ h[2].role = "user"
      /\ \A k \in 2 .. n : h[k].role # "system"
      /\ \A k \in 1 .. n : InPlace(h, k)
    BY DEF Dialogue
<1>7. \A k \in 1 .. d : ms[k].role = "tool" /\ ms[k].calls = <<>> /\ ms[k].of = h[n].calls[k]
    OBVIOUS
<1> HIDE DEF n, d, g
<1>8. ASSUME NEW k \in 1 .. n + d, k > n
      PROVE  g[k].role = "tool" /\ g[k].calls = <<>> /\ g[k].of = h[n].calls[k - n]
    <2>1. k - n \in 1 .. d /\ g[k] = ms[k - n]
        BY <1>1, <1>2, <1>8
    <2> QED
        BY <1>7, <2>1
<1>9. \A k \in 1 .. n, p \in 1 .. n : CalledBy(g, k, p) <=> CalledBy(h, k, p)
    BY <1>3 DEF CalledBy
<1>10. ASSUME NEW k \in 1 .. n PROVE InPlace(g, k)
    <2>1. g[k] = h[k] /\ \A p \in 1 .. k : p \in 1 .. n /\ g[p] = h[p]
        BY <1>1, <1>3
    <2>2. k > 2 => g[k - 1] = h[k - 1]
        BY <1>1, <1>3
    <2>3. \A p \in 1 .. k : CalledBy(g, k, p) <=> CalledBy(h, k, p)
        BY <1>9, <2>1
    <2>4. k + Len(h[k].calls) <= n + d
        <3>1. CASE k = n
            BY <1>1, <1>4, <3>1
        <3>2. CASE k # n
            <4>1. k < n /\ Len(h[k].calls) \in Nat
                BY <1>1, <1>5, <3>2
            <4>2. k + Len(h[k].calls) <= n
                BY <1>6, <4>1 DEF InPlace, n
            <4> QED
                BY <1>1, <4>1, <4>2
        <3> QED
            BY <3>1, <3>2
    <2>5. InPlace(h, k)
        BY <1>6
    <2> QED
        BY <1>2, <2>1, <2>2, <2>3, <2>4, <2>5 DEF InPlace
<1>11. ASSUME NEW k \in 1 .. n + d, k > n, NEW p \in 1 .. k, CalledBy(g, k, p) PROVE p = n
    <2>1. p < k /\ k - p <= Len(g[p].calls)
        BY <1>11 DEF CalledBy
    <2>2. p <= n
        <3> SUFFICES ASSUME p > n PROVE FALSE
            BY <1>1
        <3>1. p \in 1 .. n + d
            BY <1>1
        <3>2. Len(g[p].calls) = 0
            BY <1>8, <3>1
        <3> QED
            BY <1>1, <2>1, <3>2
    <2>3. p \in 1 .. n /\ k - p <= Len(h[p].calls)
        BY <1>1, <1>3, <2>1, <2>2
    <2>4. p < n => p + Len(h[p].calls) <= n
        BY <1>6, <2>3 DEF InPlace, n
    <2>5. ~(p < n)
        BY <1>1, <1>5, <1>11, <2>3, <2>4
    <2> QED
        BY <1>1, <2>3, <2>5
<1>12. ASSUME NEW k \in 1 .. n + d, k > n PROVE n \in 1 .. k /\ CalledBy(g, k, n) /\ g[n] = h[n]
    BY <1>1, <1>3, <1>4, <1>12 DEF CalledBy
<1>13. ASSUME NEW k \in 1 .. n + d PROVE InPlace(g, k)
    <2>1. CASE k > n
        <3>1. g[k].role = "tool" /\ g[k].calls = <<>> /\ g[k].of = h[n].calls[k - n] /\ Len(g[k].calls) = 0
            BY <1>8, <2>1
        <3>2. n \in 1 .. k /\ CalledBy(g, k, n) /\ g[n] = h[n]
            BY <1>12, <2>1
        <3>3. \A p \in 1 .. k : CalledBy(g, k, p) => p = n
            BY <1>11, <2>1
        <3>4. k + Len(g[k].calls) <= n + d
            BY <1>1, <3>1
        <3> QED
            BY <1>2, <3>1, <3>2, <3>3, <3>4 DEF InPlace
    <2>2. CASE ~(k > n)
        <3>1. k \in 1 .. n
            BY <1>1, <2>2
        <3> QED
            BY <1>10, <3>1
    <2> QED
        BY <2>1, <2>2
<1>14. g[1].role = "system" /\ g[2].role = "user" /\ \A k \in 2 .. n + d : g[k].role # "system"
    <2>1. g[1] = h[1] /\ g[2] = h[2]
        BY <1>1, <1>3
    <2>2. ASSUME NEW k \in 2 .. n + d PROVE g[k].role # "system"
        <3>0. k \in 1 .. n + d
            BY <1>1
        <3>1. CASE k > n
            BY <1>8, <3>0, <3>1
        <3>2. CASE ~(k > n)
            <4>1. k \in 2 .. n /\ g[k] = h[k]
                BY <1>1, <1>3, <3>2
            <4> QED
                BY <1>6, <4>1
        <3> QED
            BY <3>1, <3>2
    <2> QED
        BY <1>6, <2>1, <2>2
<1>15. Dialogue(g)
    BY <1>1, <1>2, <1>13, <1>14 DEF Dialogue
<1> QED
    BY <1>15 DEF g

\* One that is cut back to a message of its user is one.
LEMMA IsCutBack ==
    ASSUME NEW h \in Seq(Msg), Dialogue(h), NEW n \in 2 .. Len(h), h[n].role = "user"
    PROVE  Dialogue(SubSeq(h, 1, n))
<1> DEFINE g == SubSeq(h, 1, n)
<1>1. g \in Seq(Msg) /\ Len(g) = n /\ \A k \in 1 .. n : g[k] = h[k]
    OBVIOUS
<1>2. Len(h) \in Nat /\ n \in Nat /\ 2 <= n /\ n <= Len(h)
    OBVIOUS
<1>3. \A k \in 1 .. n : Len(h[k].calls) \in Nat
    <2>1. \A k \in 1 .. n : h[k] \in Msg
        BY ElementOfSeq
    <2> QED
        BY <2>1, MsgParts
<1> HIDE DEF g
<1>4. \A k \in 1 .. n, p \in 1 .. n : CalledBy(g, k, p) <=> CalledBy(h, k, p)
    BY <1>1 DEF CalledBy
<1>5. ASSUME NEW k \in 1 .. n, k < n PROVE k + Len(h[k].calls) <= n
    <2> SUFFICES ASSUME n < k + Len(h[k].calls) PROVE FALSE
        BY <1>2, <1>3
    <2>1. CalledBy(h, n, k)
        BY <1>2, <1>3, <1>5 DEF CalledBy
    <2>2. h[n].role = "tool"
        BY <1>2, <2>1 DEF Dialogue, InPlace
    <2> QED
        BY <2>2
<1>6. ASSUME NEW k \in 1 .. n PROVE InPlace(g, k)
    <2>1. g[k] = h[k] /\ k \in 1 .. Len(h) /\ \A p \in 1 .. k : p \in 1 .. n /\ g[p] = h[p]
        BY <1>1, <1>2
    <2>2. k > 2 => g[k - 1] = h[k - 1]
        BY <1>1, <1>2
    <2>3. \A p \in 1 .. k : CalledBy(g, k, p) <=> CalledBy(h, k, p)
        BY <1>4, <2>1
    <2>4. InPlace(h, k)
        BY <2>1 DEF Dialogue
    <2> QED
        BY <1>1, <1>5, <2>1, <2>2, <2>3, <2>4 DEF InPlace
<1>7. g[1].role = "system" /\ g[2].role = "user" /\ \A k \in 2 .. n : g[k].role # "system"
    <2>1. g[1] = h[1] /\ g[2] = h[2] /\ \A k \in 2 .. n : g[k] = h[k] /\ k \in 2 .. Len(h)
        BY <1>1, <1>2
    <2> QED
        BY <2>1 DEF Dialogue
<1>8. Dialogue(g)
    BY <1>1, <1>2, <1>6, <1>7 DEF Dialogue
<1> QED
    BY <1>8 DEF g

\* The head of a complete conversation and what comes after a clean cut are one.
LEMMA PartIsComplete ==
    ASSUME NEW h \in Seq(Msg), Complete(h), NEW c \in 2 .. Len(h), Clean(h, c),
           NEW s \in Seq(Msg), Len(s) = 2 + (Len(h) - c),
           s[1].role = "system", s[1].calls = <<>>, s[2].role = "user", s[2].calls = <<>>,
           \A k \in 3 .. Len(s) : Alike(s[k], h[k + (c - 2)])
    PROVE  Complete(s)
<1> DEFINE n == Len(s)
           d == c - 2
<1>1. d \in Nat /\ c = d + 2 /\ Len(h) \in Nat /\ Len(h) = n + d /\ n \in Nat /\ n >= 2
    OBVIOUS
<1>2. \A k \in 3 .. n : s[k].role = h[k + d].role /\ s[k].calls = h[k + d].calls /\ s[k].of = h[k + d].of
    BY DEF Alike
<1>3. c < Len(h) => h[c + 1].role # "tool"
    BY DEF Clean
<1>4. \A k \in 3 .. n : k + d \in 3 .. Len(h) /\ k + d \in 1 .. Len(h) /\ k + d \in 2 .. Len(h)
    BY <1>1
<1>5. \A k \in 1 .. Len(h) : Len(h[k].calls) \in Nat
    <2>1. \A k \in 1 .. Len(h) : h[k] \in Msg
        BY ElementOfSeq
    <2> QED
        BY <2>1, MsgParts
<1>6. /\ \A k \in 2 .. Len(h) : h[k].role # "system"
      /\ \A k \in 1 .. Len(h) :
        /\ h[k].calls # <<>> => h[k].role = "assistant"
        /\ h[k].role = "assistant" => k > 2 /\ h[k - 1].role \in {"user", "tool"}
        /\ h[k].role = "tool" => \E p \in 1 .. k : CalledBy(h, k, p)
        /\ \A p \in 1 .. k : CalledBy(h, k, p) => h[k].role = "tool" /\ h[k].of = h[p].calls[k - p]
        /\ k < Len(h) => k + Len(h[k].calls) <= Len(h)
      /\ h[Len(h)].role \in {"user", "tool"}
    BY DEF Complete, Dialogue, InPlace
<1> HIDE DEF n, d
<1>7. \A k \in 3 .. n, p \in 3 .. n : CalledBy(s, k, p) <=> CalledBy(h, k + d, p + d)
    <2> TAKE k \in 3 .. n, p \in 3 .. n
    <2>1. s[p].calls = h[p + d].calls /\ Len(h[p + d].calls) \in Nat
        BY <1>2, <1>4, <1>5
    <2>2. (k + d) - (p + d) = k - p /\ (k + d < p + d <=> k < p) /\ (p + d < k + d <=> p < k)
        BY <1>1
    <2> QED
        BY <2>1, <2>2 DEF CalledBy
<1>8. ASSUME NEW k \in 1 .. n, NEW p \in 1 .. k, CalledBy(s, k, p) PROVE p >= 3 /\ k >= 3
    <2>1. p < k /\ k - p <= Len(s[p].calls)
        BY <1>8 DEF CalledBy
    <2>2. Len(s[1].calls) = 0 /\ Len(s[2].calls) = 0
        OBVIOUS
    <2>3. p # 1
        BY <1>1, <2>1, <2>2
    <2>4. p # 2
        BY <1>1, <2>1, <2>2
    <2> QED
        BY <1>1, <2>1, <2>3, <2>4
<1>9. ASSUME NEW k \in 3 .. n, s[k].role = "tool" PROVE \E p \in 1 .. k : CalledBy(s, k, p)
    <2>1. h[k + d].role = "tool" /\ k + d \in 1 .. Len(h)
        BY <1>2, <1>4, <1>9
    <2>2. PICK q \in 1 .. k + d : CalledBy(h, k + d, q)
        BY <1>6, <2>1
    <2>3. q < k + d /\ (k + d) - q <= Len(h[q].calls) /\ q \in 1 .. Len(h) /\ Len(h[q].calls) \in Nat
        <3>1. q \in 1 .. Len(h)
            BY <1>1, <2>1, <2>2
        <3> QED
            BY <1>5, <2>2, <3>1 DEF CalledBy
    <2>4. q > c
        <3> SUFFICES ASSUME q <= c PROVE FALSE
            BY <1>1, <2>3
        <3>1. c + 1 \in 1 .. Len(h) /\ c < Len(h) /\ q \in 1 .. c + 1
            BY <1>1, <2>1, <2>3
        <3>2. c + 1 <= k + d
            BY <1>1
        <3>3. (c + 1) - q <= Len(h[q].calls) /\ q < c + 1
            BY <1>1, <2>3, <3>2
        <3>4. CalledBy(h, c + 1, q)
            BY <3>3 DEF CalledBy
        <3>5. h[c + 1].role = "tool"
            BY <1>6, <3>1, <3>4
        <3> QED
            BY <1>3, <3>1, <3>5
    <2>5. q - d \in 3 .. n /\ q - d \in 1 .. k /\ (q - d) + d = q
        BY <1>1, <2>3, <2>4
    <2>6. CalledBy(s, k, q - d)
        BY <1>7, <2>2, <2>5
    <2> QED
        BY <2>5, <2>6
<1>10. ASSUME NEW k \in 1 .. n, NEW p \in 1 .. k, CalledBy(s, k, p)
       PROVE  s[k].role = "tool" /\ s[k].of = s[p].calls[k - p]
    <2>1. k \in 3 .. n /\ p \in 3 .. n
        BY <1>1, <1>8, <1>10
    <2>2. CalledBy(h, k + d, p + d)
        BY <1>7, <1>10, <2>1
    <2>3. k + d \in 1 .. Len(h) /\ p + d \in 1 .. k + d /\ (k + d) - (p + d) = k - p
        BY <1>1, <1>4, <2>1
    <2>4. h[k + d].role = "tool" /\ h[k + d].of = h[p + d].calls[(k + d) - (p + d)]
        BY <1>6, <2>2, <2>3
    <2> QED
        BY <1>2, <2>1, <2>3, <2>4
<1>11. ASSUME NEW k \in 1 .. n
       PROVE  /\ s[k].calls # <<>> => s[k].role = "assistant"
              /\ s[k].role = "assistant" => k > 2 /\ s[k - 1].role \in {"user", "tool"}
              /\ s[k].role = "tool" => \E p \in 1 .. k : CalledBy(s, k, p)
              /\ k < n => k + Len(s[k].calls) <= n
    <2>1. CASE k \in {1, 2}
        <3>1. s[k].calls = <<>> /\ Len(s[k].calls) = 0 /\ s[k].role \in {"system", "user"}
            BY <2>1
        <3> QED
            BY <1>1, <3>1
    <2>2. CASE k \notin {1, 2}
        <3>0. k \in 3 .. n
            BY <1>1, <2>2
        <3>1. k \in 3 .. n /\ k + d \in 1 .. Len(h)
            BY <1>4, <3>0
        <3>2. s[k].role = h[k + d].role /\ s[k].calls = h[k + d].calls
            BY <1>2, <3>1
        <3>3. ASSUME s[k].role = "assistant" PROVE k > 2 /\ s[k - 1].role \in {"user", "tool"}
            <4>1. CASE k = 3
                BY <4>1
            <4>2. CASE k # 3
                <5>1. k - 1 \in 3 .. n /\ (k + d) - 1 = (k - 1) + d
                    BY <1>1, <3>1, <4>2
                <5>2. s[k - 1].role = h[(k - 1) + d].role
                    BY <1>2, <5>1
                <5>3. h[(k + d) - 1].role \in {"user", "tool"}
                    <6>1. h[k + d].role = "assistant"
                        BY <3>2, <3>3
                    <6> QED
                        BY <1>6, <3>1, <6>1
                <5> QED
                    BY <3>1, <5>1, <5>2, <5>3
            <4> QED
                BY <4>1, <4>2
        <3>4. k < n => k + Len(s[k].calls) <= n
            <4> DEFINE i == k + d
                       x == Len(h[i].calls)
            <4>1. i \in 1 .. Len(h)
                BY <3>1
            <4> HIDE DEF i
            <4>2. x \in Nat /\ (i < Len(h) => i + x <= Len(h))
                BY <1>5, <1>6, <4>1
            <4>3. Len(s[k].calls) = x
                BY <3>2 DEF i
            <4> HIDE DEF x
            <4>4. i = k + d
                BY DEF i
            <4> QED
                BY <1>1, <3>1, <4>2, <4>3, <4>4
        <3> QED
            BY <1>6, <1>9, <3>1, <3>2, <3>3, <3>4
    <2> QED
        BY <2>1, <2>2
<1>12. \A k \in 2 .. n : s[k].role # "system"
    <2> TAKE k \in 2 .. n
    <2>1. CASE k = 2
        BY <2>1
    <2>2. CASE k # 2
        <3>0. k \in 3 .. n
            BY <1>1, <2>2
        <3>1. k \in 3 .. n /\ k + d \in 2 .. Len(h)
            BY <1>4, <3>0
        <3> QED
            BY <1>2, <1>6, <3>1
    <2> QED
        BY <2>1, <2>2
<1>13. s[n].role \in {"user", "tool"}
    <2>1. CASE n = 2
        BY <2>1
    <2>2. CASE n # 2
        <3>1. n \in 3 .. n /\ n + d = Len(h)
            BY <1>1, <2>2
        <3> QED
            BY <1>2, <1>6, <3>1
    <2> QED
        BY <2>1, <2>2
<1>14. Dialogue(s)
    <2>1. \A k \in 1 .. n : InPlace(s, k)
        BY <1>10, <1>11 DEF InPlace, n
    <2> QED
        BY <1>1, <1>12, <2>1 DEF Dialogue, n
<1> QED
    BY <1>13, <1>14 DEF Complete, n

-----------------------------------------------------------------------------
(* The view of a layout.                                                   *)

Uids(s) == UNION {s[k].uids : k \in DOMAIN s}

\* What two lists show is what both show.
LEMMA UidsConcat ==
    ASSUME NEW s \in Seq(Msg), NEW t \in Seq(Msg)
    PROVE  Uids(s \o t) = Uids(s) \cup Uids(t)
<1> DEFINE u == s \o t
<1>1. /\ u \in Seq(Msg) /\ Len(u) = Len(s) + Len(t)
      /\ \A k \in 1 .. Len(s) + Len(t) : u[k] = IF k <= Len(s) THEN s[k] ELSE t[k - Len(s)]
    BY ConcatProperties
<1>2. DOMAIN u = 1 .. Len(u) /\ DOMAIN s = 1 .. Len(s) /\ DOMAIN t = 1 .. Len(t)
    BY <1>1
<1>3. Len(s) \in Nat /\ Len(t) \in Nat
    OBVIOUS
<1> HIDE DEF u
<1>4. ASSUME NEW k \in DOMAIN u PROVE u[k].uids \subseteq Uids(s) \cup Uids(t)
    <2>1. CASE k <= Len(s)
        <3>1. k \in DOMAIN s /\ u[k] = s[k]
            BY <1>1, <1>2, <1>3, <2>1
        <3> QED
            BY <3>1 DEF Uids
    <2>2. CASE ~(k <= Len(s))
        <3>1. k - Len(s) \in DOMAIN t /\ u[k] = t[k - Len(s)]
            BY <1>1, <1>2, <1>3, <2>2
        <3> QED
            BY <3>1 DEF Uids
    <2> QED
        BY <2>1, <2>2
<1>5. ASSUME NEW k \in DOMAIN s PROVE s[k].uids \subseteq Uids(u)
    <2>1. k \in DOMAIN u /\ u[k] = s[k]
        BY <1>1, <1>2, <1>3
    <2> QED
        BY <2>1 DEF Uids
<1>6. ASSUME NEW k \in DOMAIN t PROVE t[k].uids \subseteq Uids(u)
    <2>1. Len(s) + k \in DOMAIN u /\ u[Len(s) + k] = t[k]
        BY <1>1, <1>2, <1>3
    <2> QED
        BY <2>1 DEF Uids
<1>7. Uids(u) = Uids(s) \cup Uids(t)
    BY <1>4, <1>5, <1>6 DEF Uids
<1> QED
    BY <1>7 DEF u

\* Two lists make one, of the sizes and identities of both.
LEMMA ConcatIs ==
    ASSUME NEW s \in Seq(Msg), NEW t \in Seq(Msg)
    PROVE  /\ s \o t \in Seq(Msg) /\ SizeOf(s \o t) = SizeOf(s) + SizeOf(t)
           /\ Uids(s \o t) = Uids(s) \cup Uids(t)
<1>1. s \o t \in Seq(Msg)
    BY ConcatProperties
<1> QED
    BY <1>1, SizeConcat, UidsConcat

\* What one message shows.
LEMMA UidsOne == ASSUME NEW m \in Msg PROVE Uids(<<m>>) = m.uids /\ Uids(<<>>) = {}
BY DEF Uids

\* A list is its first messages and its last, or its first and the others.
LEMMA Splits ==
    ASSUME NEW s \in Seq(Msg), s # <<>>
    PROVE  /\ Front(s) \in Seq(Msg) /\ Last(s) \in Msg /\ s = Front(s) \o <<Last(s)>>
           /\ Tail(s) \in Seq(Msg) /\ Head(s) \in Msg /\ s = <<Head(s)>> \o Tail(s)
<1>1. Front(s) \in Seq(Msg) /\ Last(s) \in Msg /\ s = Front(s) \o <<Last(s)>>
    BY DEF Front, Last
<1>2. Tail(s) \in Seq(Msg) /\ Head(s) \in Msg /\ s = <<Head(s)>> \o Tail(s)
    BY HeadTailProperties
<1> QED
    BY <1>1, <1>2

\* Sizes are numbers, ...
LEMMA SizeNat == ASSUME NEW s \in Seq(Msg) PROVE SizeOf(s) \in Nat
<1>1. Len(s) \in 0 .. Len(s)
    OBVIOUS
<1> QED
    BY <1>1, SizeIs

\* ... and identities pairs of numbers.
LEMMA UidsNat == ASSUME NEW s \in Seq(Msg) PROVE Uids(s) \in SUBSET (Nat \X Nat)
<1>1. \A k \in DOMAIN s : s[k].uids \in SUBSET (Nat \X Nat)
    BY Fields
<1> QED
    BY <1>1 DEF Uids

\* The parts of a layout.
LEMMA LayoutParts ==
    ASSUME NEW l \in Layouts
    PROVE  l.head \in Seq(Msg) /\ l.tail \in Seq(Msg) /\ l.text \in Nat /\ l.omitted \in Nat
BY DEF Layouts

\* A message that users' messages and notes were merged into.
LEMMA SeamIs ==
    ASSUME NEW size \in Nat, NEW uids \in SUBSET (Nat \X Nat)
    PROVE  LET m == [role |-> "user", text |-> TRUE, calls |-> <<>>, of |-> <<>>, size |-> size, uids |-> uids]
           IN  m \in Msg /\ m.size = size /\ m.uids = uids
BY DEF Msg, CallLists, Answers

\* The notes take the size of the recap and of the mention of omitted messages.
Notes(l) == l.text + (IF l.omitted > 0 THEN 1 ELSE 0)

\* A view shows the messages of the head and the tail and takes their sizes and that
\* of the notes, wherever these stand.
LEMMA ViewIs ==
    ASSUME NEW l \in Layouts
    PROVE  /\ View(l) \in Seq(Msg)
           /\ SizeOf(View(l)) = SizeOf(l.head) + SizeOf(l.tail) + Notes(l)
           /\ Uids(View(l)) = Uids(l.head) \cup Uids(l.tail)
           /\ SizeOf(l.head) \in Nat /\ SizeOf(l.tail) \in Nat /\ Notes(l) \in Nat
<1>0. l.head \in Seq(Msg) /\ l.tail \in Seq(Msg) /\ l.text \in Nat /\ l.omitted \in Nat
    BY LayoutParts
<1>1. SizeOf(l.head) \in Nat /\ SizeOf(l.tail) \in Nat /\ Notes(l) \in Nat
    BY <1>0, SizeNat DEF Notes
<1>2. CASE l.text = 0 /\ l.omitted = 0
    <2>1. View(l) = l.head \o l.tail /\ Notes(l) = 0
        BY <1>2 DEF View, Notes
    <2> QED
        BY <1>0, <1>1, <2>1, ConcatIs
<1>3. CASE ~(l.text = 0 /\ l.omitted = 0)
    <2> DEFINE meetsHead == l.head # <<>> /\ Last(l.head).role = "user"
               meetsTail == l.tail # <<>> /\ Head(l.tail).role = "user"
               b1 == IF meetsHead THEN <<Last(l.head)>> ELSE <<>>
               a1 == IF meetsTail THEN <<Head(l.tail)>> ELSE <<>>
               merged == b1 \o a1
               b2 == IF meetsHead THEN Front(l.head) ELSE l.head
               a2 == IF meetsTail THEN Tail(l.tail) ELSE l.tail
               size == SizeOf(merged) + Notes(l)
               uids == Uids(merged)
               seam == [role |-> "user", text |-> TRUE, calls |-> <<>>, of |-> <<>>, size |-> size, uids |-> uids]
    <2>1. b1 \in Seq(Msg) /\ b2 \in Seq(Msg) /\ l.head = b2 \o b1
        <3>1. CASE meetsHead
            <4>0. Last(l.head) \in Msg
                BY <1>0, <3>1, Splits
            <4>1. <<Last(l.head)>> \in Seq(Msg)
                BY <4>0
            <4> QED
                BY <1>0, <3>1, <4>1, Splits
        <3>2. CASE ~meetsHead
            BY <1>0, <3>2, ConcatEmptySeq
        <3> QED
            BY <3>1, <3>2
    <2>2. a1 \in Seq(Msg) /\ a2 \in Seq(Msg) /\ l.tail = a1 \o a2
        <3>1. CASE meetsTail
            <4>1. <<Head(l.tail)>> \in Seq(Msg)
                BY <1>0, <3>1, Splits
            <4> QED
                BY <1>0, <3>1, <4>1, Splits
        <3>2. CASE ~meetsTail
            BY <1>0, <3>2, ConcatEmptySeq
        <3> QED
            BY <3>1, <3>2
    <2>3. View(l) = b2 \o <<Seam(l)>> \o a2
        BY <1>3 DEF View
    <2>4. Seam(l) = seam
        <3>1. SizeOf(merged) \in Nat
            BY <2>1, <2>2, ConcatProperties, SizeNat
        <3>2. SizeOf(merged) + l.text + (IF l.omitted > 0 THEN 1 ELSE 0) = size
            <4> HIDE DEF merged
            <4> QED
                BY <1>0, <3>1 DEF Notes
        <3> QED
            BY <3>2 DEF Seam, Uids
    <2> HIDE DEF meetsHead, meetsTail, b1, a1, b2, a2
    <2>5. merged \in Seq(Msg) /\ SizeOf(merged) = SizeOf(b1) + SizeOf(a1) /\ Uids(merged) = Uids(b1) \cup Uids(a1)
        BY <2>1, <2>2, ConcatIs
    <2>6. /\ SizeOf(b1) \in Nat /\ SizeOf(a1) \in Nat /\ SizeOf(b2) \in Nat /\ SizeOf(a2) \in Nat
          /\ SizeOf(merged) \in Nat
        BY <2>1, <2>2, <2>5, SizeNat
    <2>7. Uids(merged) \in SUBSET (Nat \X Nat)
        BY <2>5, UidsNat
    <2> HIDE DEF merged
    <2>8. size \in Nat /\ uids \in SUBSET (Nat \X Nat)
        BY <1>1, <2>6, <2>7
    <2>9. seam \in Msg /\ seam.size = size /\ seam.uids = uids
        <3> HIDE DEF size, uids
        <3> QED
            BY <2>8, SeamIs
    <2> HIDE DEF seam
    <2>10. <<seam>> \in Seq(Msg) /\ SizeOf(<<seam>>) = size /\ Uids(<<seam>>) = uids
        BY <2>9, SizeOne, UidsOne
    <2>11. /\ b2 \o <<seam>> \in Seq(Msg) /\ SizeOf(b2 \o <<seam>>) = SizeOf(b2) + size
           /\ Uids(b2 \o <<seam>>) = Uids(b2) \cup uids
        <3> HIDE DEF size, uids
        <3> DEFINE t == <<seam>>
        <3>1. t \in Seq(Msg) /\ SizeOf(t) = size /\ Uids(t) = uids
            BY <2>10
        <3> HIDE DEF t
        <3>2. b2 \o t \in Seq(Msg) /\ SizeOf(b2 \o t) = SizeOf(b2) + size /\ Uids(b2 \o t) = Uids(b2) \cup uids
            BY <2>1, <3>1, ConcatIs
        <3> QED
            BY <3>2 DEF t
    <2>12. /\ View(l) \in Seq(Msg) /\ SizeOf(View(l)) = SizeOf(b2) + size + SizeOf(a2)
           /\ Uids(View(l)) = Uids(b2) \cup uids \cup Uids(a2)
        <3> HIDE DEF size, uids
        <3> DEFINE s == b2 \o <<seam>>
        <3>1. s \in Seq(Msg) /\ SizeOf(s) = SizeOf(b2) + size /\ Uids(s) = Uids(b2) \cup uids
            BY <2>11
        <3>2. View(l) = s \o a2
            BY <2>3, <2>4
        <3> HIDE DEF s
        <3>3. /\ s \o a2 \in Seq(Msg) /\ SizeOf(s \o a2) = SizeOf(s) + SizeOf(a2)
              /\ Uids(s \o a2) = Uids(s) \cup Uids(a2)
            BY <2>2, <3>1, ConcatIs
        <3> QED
            BY <3>1, <3>2, <3>3
    <2>13. /\ SizeOf(l.head) = SizeOf(b2) + SizeOf(b1) /\ SizeOf(l.tail) = SizeOf(a1) + SizeOf(a2)
           /\ Uids(l.head) = Uids(b2) \cup Uids(b1) /\ Uids(l.tail) = Uids(a1) \cup Uids(a2)
        BY <2>1, <2>2, SizeConcat, UidsConcat
    <2>14. SizeOf(View(l)) = SizeOf(l.head) + SizeOf(l.tail) + Notes(l)
        <3>1. size = SizeOf(b1) + SizeOf(a1) + Notes(l)
            BY <2>5
        <3> HIDE DEF size
        <3>2. ASSUME NEW a \in Nat, NEW b \in Nat, NEW c \in Nat, NEW d \in Nat, NEW e \in Nat
              PROVE  a + (b + c + e) + d = (a + b) + (c + d) + e
            OBVIOUS
        <3>3. SizeOf(View(l)) = SizeOf(b2) + (SizeOf(b1) + SizeOf(a1) + Notes(l)) + SizeOf(a2)
            BY <2>12, <3>1
        <3>4. SizeOf(View(l)) = (SizeOf(b2) + SizeOf(b1)) + (SizeOf(a1) + SizeOf(a2)) + Notes(l)
            BY <1>1, <2>6, <3>2, <3>3
        <3> QED
            BY <2>13, <3>4
    <2>15. Uids(View(l)) = Uids(l.head) \cup Uids(l.tail)
        BY <2>5, <2>12, <2>13
    <2> QED
        BY <1>1, <2>12, <2>14, <2>15
<1> QED
    BY <1>1, <1>2, <1>3

-----------------------------------------------------------------------------
(* _truncate.                                                              *)

\* A list with another message at a place.
Put(s, j, m) == [k \in DOMAIN s |-> IF k = j THEN m ELSE s[k]]

\* Its size is that of the list but for that message's.
LEMMA Around ==
    ASSUME NEW s \in Seq(Msg), NEW j \in 1 .. Len(s), NEW m \in Msg
    PROVE  LET t == Put(s, j, m) IN
           /\ t \in Seq(Msg) /\ Len(t) = Len(s) /\ DOMAIN t = DOMAIN s
           /\ SizeOf(s) \in Nat /\ s[j].size \in Nat /\ m.size \in Nat
           /\ s[j].size <= SizeOf(s)
           /\ SizeOf(t) = SizeOf(s) - s[j].size + m.size
<1> DEFINE t == [k \in DOMAIN s |-> IF k = j THEN m ELSE s[k]]
           a == SubSeq(s, 1, j - 1)
           b == SubSeq(s, j + 1, Len(s))
<1>1. t \in Seq(Msg) /\ Len(t) = Len(s) /\ DOMAIN t = DOMAIN s
    <2>1. DOMAIN s = 1 .. Len(s) /\ \A k \in 1 .. Len(s) : s[k] \in Msg
        BY ElementOfSeq
    <2> QED
        BY <2>1
<1>2. a \in Seq(Msg) /\ b \in Seq(Msg) /\ s[j] \in Msg
    BY ElementOfSeq
<1> DEFINE With(x) == [k \in DOMAIN s |-> IF k = j THEN x ELSE s[k]]
<1>3. ASSUME NEW x \in Msg PROVE With(x) = (a \o <<x>>) \o b
    <2> DEFINE n == Len(s)
               u == a \o <<x>>
               v == u \o b
    <2>1. n \in Nat /\ DOMAIN s = 1 .. n /\ j \in 1 .. n
        OBVIOUS
    <2>2. /\ Len(a) = j - 1 /\ Len(b) = n - j /\ \A k \in 1 .. j - 1 : a[k] = s[k]
          /\ \A k \in 1 .. n - j : b[k] = s[j + k]
        OBVIOUS
    <2>3. <<x>> \in Seq(Msg) /\ Len(<<x>>) = 1 /\ <<x>>[1] = x
        OBVIOUS
    <2> HIDE DEF a, b, n
    <2>4. u \in Seq(Msg) /\ Len(u) = j /\ \A k \in 1 .. j : u[k] = IF k <= j - 1 THEN s[k] ELSE x
        <3>1. u \in Seq(Msg) /\ Len(u) = j /\ \A k \in 1 .. j : u[k] = IF k <= j - 1 THEN a[k] ELSE <<x>>[k - (j - 1)]
            BY <1>2, <2>1, <2>2, <2>3, ConcatProperties
        <3> QED
            BY <2>1, <2>2, <2>3, <3>1
    <2> HIDE DEF u
    <2>5. v \in Seq(Msg) /\ Len(v) = n /\ \A k \in 1 .. n : v[k] = IF k <= j THEN u[k] ELSE b[k - j]
        BY <1>2, <2>1, <2>2, <2>4, ConcatProperties
    <2> HIDE DEF v
    <2>6. ASSUME NEW k \in 1 .. n PROVE v[k] = IF k = j THEN x ELSE s[k]
        <3>1. CASE k <= j
            BY <2>1, <2>4, <2>5, <3>1
        <3>2. CASE ~(k <= j)
            <4>1. k - j \in 1 .. n - j /\ j + (k - j) = k
                BY <2>1, <3>2
            <4> QED
                BY <2>2, <2>5, <3>2, <4>1
        <3> QED
            BY <3>1, <3>2
    <2>7. v = [k \in 1 .. n |-> v[k]]
        BY <2>5
    <2>8. v = With(x)
        BY <2>1, <2>6, <2>7
    <2> QED
        BY <2>8 DEF v, u
<1>4. s = (a \o <<s[j]>>) \o b /\ t = (a \o <<m>>) \o b
    <2>1. With(s[j]) = s
        OBVIOUS
    <2> HIDE DEF a, b
    <2> QED
        BY <1>2, <1>3, <2>1
<1> HIDE DEF a, b, t
<1>5. ASSUME NEW x \in Msg
      PROVE  SizeOf((a \o <<x>>) \o b) = SizeOf(a) + x.size + SizeOf(b)
    <2>1. <<x>> \in Seq(Msg) /\ SizeOf(<<x>>) = x.size
        BY SizeOne
    <2>2. a \o <<x>> \in Seq(Msg) /\ SizeOf(a \o <<x>>) = SizeOf(a) + x.size
        BY <1>2, <2>1, ConcatProperties, SizeConcat
    <2> QED
        BY <1>2, <2>2, SizeConcat
<1>6. SizeOf(s) = SizeOf(a) + s[j].size + SizeOf(b) /\ SizeOf(t) = SizeOf(a) + m.size + SizeOf(b)
    BY <1>2, <1>4, <1>5
<1>7. /\ SizeOf(a) \in Nat /\ SizeOf(b) \in Nat /\ SizeOf(s) \in Nat
      /\ s[j].size \in Nat /\ m.size \in Nat
    <2>1. m.size \in Nat
        BY DEF Msg
    <2> QED
        BY <1>2, <2>1, SizeNat, Fields
<1>8. s[j].size <= SizeOf(s) /\ SizeOf(t) = SizeOf(s) - s[j].size + m.size
    BY <1>6, <1>7
<1> QED
    BY <1>1, <1>7, <1>8 DEF t, Put

\* Cutting a message changes its size only.
LEMMA ShrinkIs ==
    ASSUME NEW m \in Msg, NEW target \in Int
    PROVE  LET r == Shrink(m, target) IN
           /\ r \in Msg /\ Alike(r, m)
           /\ r.size = IF m.size <= MinSize THEN m.size ELSE IF target >= MinSize THEN target ELSE MinSize
<1>1. MinSize \in Nat
    BY CompactionAssumption
<1>2. Max({target, MinSize}) = IF target >= MinSize THEN target ELSE MinSize
    BY <1>1, OfTwo
<1> DEFINE size == Max({target, MinSize})
<1>3. size \in Nat
    BY <1>1, <1>2
<1>4. CASE m.size <= MinSize
    BY <1>4 DEF Shrink, Alike
<1>5. CASE ~(m.size <= MinSize)
    <2>1. Shrink(m, target) = [m EXCEPT !.size = size]
        BY <1>5 DEF Shrink
    <2>2. size = IF target >= MinSize THEN target ELSE MinSize
        BY <1>2
    <2> HIDE DEF size
    <2>3. [m EXCEPT !.size = size] \in Msg /\ [m EXCEPT !.size = size].size = size
        BY <1>3 DEF Msg
    <2>4. Alike([m EXCEPT !.size = size], m)
        BY DEF Msg, Alike
    <2> QED
        BY <1>5, <2>1, <2>2, <2>3, <2>4
<1> QED
    BY <1>4, <1>5

Large(l) == {k \in DOMAIN l.tail : l.tail[k].size > MinSize}

\* r is l with other sizes in its tail.
Resized(l, r) ==
    /\ r \in Layouts /\ r.head = l.head /\ r.text = l.text /\ r.omitted = l.omitted
    /\ DOMAIN r.tail = DOMAIN l.tail /\ Len(r.tail) = Len(l.tail)
    /\ \A k \in DOMAIN l.tail : Alike(r.tail[k], l.tail[k])

\* A layout with another tail.
LEMMA Retailed ==
    ASSUME NEW l \in Layouts, NEW t \in Seq(Msg), DOMAIN t = DOMAIN l.tail,
           \A k \in DOMAIN t : Alike(t[k], l.tail[k])
    PROVE  LET r == [l EXCEPT !.tail = t] IN Resized(l, r) /\ r.tail = t
<1>1. Len(t) = Len(l.tail)
    <2>1. t \in Seq(Msg) /\ l.tail \in Seq(Msg)
        BY LayoutParts
    <2> QED
        BY <2>1
<1> QED
    BY <1>1 DEF Layouts, Resized

\* A layout is over the budget when its estimate is, and then nothing of it is rounded up.
LEMMA OverIs ==
    ASSUME NEW l \in Layouts, shift \in Int
    PROVE  LET e == SizeOf(l.head) + SizeOf(l.tail) + Notes(l) + shift IN
           /\ Estimate(View(l)) = (IF e >= 0 THEN e ELSE 0)
           /\ OverTokens(l) <=> e > MaxTokens
<1> DEFINE e == SizeOf(l.head) + SizeOf(l.tail) + Notes(l) + shift
<1>1. e \in Int /\ SizeOf(View(l)) + shift = e
    BY ViewIs
<1>2. Estimate(View(l)) = Max({0, e})
    BY <1>1 DEF Estimate
<1> HIDE DEF e
<1>3. Max({0, e}) = IF 0 >= e THEN 0 ELSE e
    BY <1>1, OfTwo
<1>4. MaxTokens \in Nat
    BY CompactionAssumption
<1>5. Estimate(View(l)) = (IF e >= 0 THEN e ELSE 0) /\ (OverTokens(l) <=> e > MaxTokens)
    BY <1>1, <1>2, <1>3, <1>4 DEF OverTokens
<1> QED
    BY <1>5 DEF e

\* A round of _truncate changes nothing when the layout fits or no text is left to
\* cut; otherwise it makes the layout fit or leaves one text less to cut.
LEMMA ShrinkStep ==
    ASSUME NEW l \in Layouts, shift \in Int
    PROVE  LET r == ShrinkLargest(l) IN
           /\ Resized(l, r)
           /\ ~OverTokens(l) \/ Large(l) = {} => r = l
           /\ OverTokens(l) /\ Large(l) # {} =>
                ~OverTokens(r) \/ \E j \in Large(l) : Large(r) = Large(l) \ {j}
<1> DEFINE r == ShrinkLargest(l)
           overflow == Estimate(View(l)) - MaxTokens
           size == Max({l.tail[k].size : k \in Large(l)})
           j == Max({k \in Large(l) : l.tail[k].size = size})
<1>0. l.tail \in Seq(Msg) /\ MaxTokens \in Nat /\ MinSize \in Nat /\ DOMAIN l.tail = 1 .. Len(l.tail)
    BY LayoutParts, CompactionAssumption
<1>1. overflow \in Int /\ (OverTokens(l) <=> overflow > 0)
    <2> DEFINE e == SizeOf(l.head) + SizeOf(l.tail) + Notes(l) + shift
    <2>1. e \in Int
        BY ViewIs
    <2> HIDE DEF e
    <2>2. Estimate(View(l)) = (IF e >= 0 THEN e ELSE 0) /\ (OverTokens(l) <=> e > MaxTokens)
        BY OverIs DEF e
    <2> QED
        BY <1>0, <2>1, <2>2
<1>2. CASE ~OverTokens(l) \/ Large(l) = {}
    <2>1. overflow <= 0 \/ {k \in DOMAIN l.tail : l.tail[k].size > MinSize} = {}
        BY <1>1, <1>2 DEF Large
    <2>2. r = l
        BY <2>1 DEF ShrinkLargest
    <2>3. Resized(l, l)
        BY DEF Resized, Layouts, Alike
    <2> QED
        BY <1>2, <2>2, <2>3
<1>3. CASE OverTokens(l) /\ Large(l) # {}
    <2> DEFINE m == Shrink(l.tail[j], size - overflow)
               t == [k \in DOMAIN l.tail |-> IF k = j THEN m ELSE l.tail[k]]
    <2>1. size \in {l.tail[k].size : k \in Large(l)} /\ size \in Nat
        <3> DEFINE S == {l.tail[k].size : k \in Large(l)}
        <3>1. S # {}
            BY <1>3
        <3>2. \A k \in Large(l) : l.tail[k].size \in Nat /\ l.tail[k].size <= SizeOf(l.tail)
            BY <1>0, Fields, Around DEF Large
        <3>3. S \in SUBSET Nat /\ \A y \in S : y <= SizeOf(l.tail)
            BY <3>2
        <3>4. SizeOf(l.tail) \in Nat
            BY <1>0, SizeNat
        <3> HIDE DEF S
        <3>5. Max(S) \in S
            BY <3>1, <3>3, <3>4, MaxIs
        <3> QED
            BY <3>3, <3>5 DEF S
    <2>2. j \in Large(l) /\ l.tail[j].size = size
        <3> DEFINE S == {k \in Large(l) : l.tail[k].size = size}
        <3> HIDE DEF size
        <3>1. S # {}
            BY <2>1
        <3>2. S \in SUBSET Nat /\ \A y \in S : y <= Len(l.tail)
            BY <1>0 DEF Large
        <3>3. Len(l.tail) \in Nat
            BY <1>0
        <3>4. Max(S) \in S
            <4> HIDE DEF S
            <4> QED
                BY <3>1, <3>2, <3>3, MaxIs
        <3> QED
            BY <3>4
    <2>3. r = [l EXCEPT !.tail = t]
        <3>1. r = IF overflow <= 0 \/ Large(l) = {} THEN l ELSE [l EXCEPT !.tail = t]
            BY Zenon DEF ShrinkLargest, Large
        <3>2. ~(overflow <= 0 \/ Large(l) = {})
            <4> HIDE DEF overflow
            <4> QED
                BY <1>1, <1>3
        <3> HIDE DEF r, t, overflow
        <3> QED
            BY <3>1, <3>2
    <2> HIDE DEF j, size, overflow
    <2>4. j \in 1 .. Len(l.tail) /\ size > MinSize /\ l.tail[j] \in Msg /\ size - overflow \in Int
        BY <1>0, <1>1, <2>1, <2>2, Fields DEF Large
    <2>5. /\ m \in Msg /\ Alike(m, l.tail[j])
          /\ m.size = IF size - overflow >= MinSize THEN size - overflow ELSE MinSize
        <3> HIDE DEF m
        <3>1. LET x == Shrink(l.tail[j], size - overflow) IN
              /\ x \in Msg /\ Alike(x, l.tail[j])
              /\ x.size = IF l.tail[j].size <= MinSize THEN l.tail[j].size
                          ELSE IF size - overflow >= MinSize THEN size - overflow ELSE MinSize
            BY <2>4, ShrinkIs
        <3> QED
            BY <1>0, <2>1, <2>2, <2>4, <3>1 DEF m
    <2> HIDE DEF m
    <2>6. /\ t \in Seq(Msg) /\ DOMAIN t = DOMAIN l.tail /\ SizeOf(l.tail) \in Nat
          /\ SizeOf(t) = SizeOf(l.tail) - size + m.size
        <3>1. /\ t \in Seq(Msg) /\ DOMAIN t = DOMAIN l.tail /\ SizeOf(l.tail) \in Nat
              /\ SizeOf(t) = SizeOf(l.tail) - l.tail[j].size + m.size
            <4>1. j \in 1 .. Len(l.tail) /\ m \in Msg
                BY <2>4, <2>5
            <4>2. t = Put(l.tail, j, m)
                BY Zenon DEF Put
            <4> HIDE DEF t
            <4> QED
                BY <1>0, <4>1, <4>2, Around
        <3> QED
            BY <2>2, <3>1
    <2>7. \A k \in DOMAIN t : Alike(t[k], l.tail[k])
        <3>1. \A k \in DOMAIN l.tail : Alike(l.tail[k], l.tail[k])
            BY DEF Alike
        <3> QED
            BY <2>5, <3>1
    <2>8. Resized(l, r) /\ r.tail = t
        <3> HIDE DEF t
        <3> QED
            BY <2>3, <2>6, <2>7, Retailed
    <2> HIDE DEF r
    <2>9. CASE size - overflow >= MinSize
        <3>1. m.size = size - overflow
            BY <2>5, <2>9
        <3>2. r \in Layouts /\ r.head = l.head /\ Notes(r) = Notes(l)
            BY <2>8 DEF Resized, Notes
        <3>3. /\ SizeOf(l.head) \in Nat /\ Notes(l) \in Nat
              /\ Estimate(View(l)) = LET e == SizeOf(l.head) + SizeOf(l.tail) + Notes(l) + shift IN IF e >= 0 THEN e ELSE 0
            BY ViewIs, OverIs
        <3>4. OverTokens(r) <=> SizeOf(l.head) + SizeOf(t) + Notes(l) + shift > MaxTokens
            BY <2>8, <3>2, OverIs
        <3>5. SizeOf(t) = SizeOf(l.tail) - overflow
            BY <1>1, <2>1, <2>6, <3>1
        <3>6. ASSUME NEW a \in Nat, NEW b \in Nat, NEW c \in Nat, NEW s \in Int, NEW o \in Int, NEW n \in Nat,
                     NEW e \in Int, e = (IF a + b + c + s >= 0 THEN a + b + c + s ELSE 0), o = e - n, o > 0
              PROVE  ~(a + (b - o) + c + s > n)
            BY <3>6
        <3>7. overflow = Estimate(View(l)) - MaxTokens /\ Estimate(View(l)) \in Int
            BY <2>6, <3>3 DEF overflow
        <3>8. ~OverTokens(r)
            BY <1>0, <1>1, <1>3, <2>6, <3>3, <3>4, <3>5, <3>6, <3>7
        <3> QED
            BY <1>3, <2>8, <3>8 DEF r
    <2>10. CASE ~(size - overflow >= MinSize)
        <3>1. m.size = MinSize /\ ~(m.size > MinSize)
            BY <1>0, <2>5, <2>10
        <3>2. Large(r) = Large(l) \ {j}
            BY <2>6, <2>8, <3>1 DEF Large
        <3> QED
            BY <1>3, <2>2, <2>8, <3>2 DEF r
    <2> QED
        BY <2>9, <2>10
<1> QED
    BY <1>2, <1>3

\* Capping the results changes sizes only.
LEMMA CappedIs == ASSUME NEW l \in Layouts PROVE Resized(l, Capped(l))
<1> DEFINE cap == Max({MaxTokens \div 8, 1})
           t == [k \in DOMAIN l.tail |-> IF l.tail[k].role = "tool" /\ l.tail[k].size > cap
                                         THEN Shrink(l.tail[k], cap) ELSE l.tail[k]]
<1>0. l.tail \in Seq(Msg) /\ DOMAIN l.tail = 1 .. Len(l.tail) /\ Len(l.tail) \in Nat
    BY LayoutParts
<1>1. cap \in Int
    <2>1. MaxTokens \in Nat
        BY CompactionAssumption
    <2>2. MaxTokens \div 8 \in Int
        BY <2>1
    <2> QED
        BY <2>2, OfTwo
<1>2. Capped(l) = [l EXCEPT !.tail = t]
    BY DEF Capped
<1> HIDE DEF cap
<1>3. ASSUME NEW k \in DOMAIN l.tail PROVE t[k] \in Msg /\ Alike(t[k], l.tail[k])
    <2>1. l.tail[k] \in Msg
        BY <1>0, Fields
    <2>2. Shrink(l.tail[k], cap) \in Msg /\ Alike(Shrink(l.tail[k], cap), l.tail[k])
        BY <1>1, <2>1, ShrinkIs
    <2>3. Alike(l.tail[k], l.tail[k])
        BY DEF Alike
    <2> QED
        BY <2>1, <2>2, <2>3
<1>4. DOMAIN t = DOMAIN l.tail /\ t = [k \in 1 .. Len(l.tail) |-> t[k]]
    BY <1>0
<1> HIDE DEF t
<1>5. t \in Seq(Msg)
    <2>1. \A k \in 1 .. Len(l.tail) : t[k] \in Msg
        BY <1>0, <1>3
    <2>2. [k \in 1 .. Len(l.tail) |-> t[k]] \in Seq(Msg)
        BY <1>0, <2>1
    <2> QED
        BY <1>4, <2>2
<1>6. \A k \in DOMAIN t : Alike(t[k], l.tail[k])
    BY <1>3, <1>4
<1>7. Resized(l, [l EXCEPT !.tail = t])
    BY <1>4, <1>5, <1>6, Retailed
<1> QED
    BY <1>2, <1>7

\* Resizing twice is resizing.
LEMMA ResizedTwice ==
    ASSUME NEW a, NEW b, NEW c, Resized(a, b), Resized(b, c)
    PROVE  Resized(a, c)
BY DEF Resized, Alike

\* The large texts are places of the tail.
LEMMA LargeIsFinite ==
    ASSUME NEW l \in Layouts
    PROVE  /\ IsFiniteSet(Large(l)) /\ Cardinality(Large(l)) \in Nat /\ Cardinality(Large(l)) <= Len(l.tail)
           /\ Cardinality(Large(l)) = 0 => Large(l) = {}
           /\ \A j \in Large(l) : Cardinality(Large(l) \ {j}) = Cardinality(Large(l)) - 1
<1>1. Large(l) \subseteq 1 .. Len(l.tail) /\ Len(l.tail) \in Nat
    BY LayoutParts DEF Large
<1>2. IsFiniteSet(1 .. Len(l.tail)) /\ Cardinality(1 .. Len(l.tail)) = Len(l.tail)
    BY <1>1, FS_Interval, SMTT(30)
<1>3. IsFiniteSet(Large(l)) /\ Cardinality(Large(l)) <= Len(l.tail)
    BY <1>1, <1>2, FS_Subset
<1> QED
    BY <1>3, FS_CardinalityType, FS_EmptySet, FS_RemoveElement

\* _truncate changes sizes only, and a layout it leaves over the budget has no text
\* left that is longer than the shortest it cuts to: a round per message is enough.
LEMMA TruncateIs ==
    ASSUME NEW l \in Layouts, shift \in Int
    PROVE  Resized(l, Truncate(l)) /\ (OverTokens(Truncate(l)) => Large(Truncate(l)) = {})
<1> DEFINE n == Len(l.tail)
           base == Capped(l)
           next == [k \in 1 .. n |-> [x \in Layouts |-> ShrinkLargest(x)]]
           Rounds(h) == h = [k \in 0 .. n |-> IF k = 0 THEN base ELSE ShrinkLargest(h[k - 1])]
           g == CHOOSE round : round =
                    [k \in 0 .. Len(l.tail) |-> IF k = 0 THEN Capped(l) ELSE ShrinkLargest(round[k - 1])]
<1>1. n \in Nat
    BY LayoutParts
<1>2. Resized(l, base) /\ base \in Layouts
    BY CappedIs DEF Resized
<1>3. next \in [1 .. n -> [Layouts -> Layouts]]
    <2>1. ASSUME NEW x \in Layouts PROVE ShrinkLargest(x) \in Layouts
        BY ShrinkStep DEF Resized
    <2> QED
        BY <2>1
<1>4. PICK f \in [0 .. n -> Layouts] : Iterates(f, base, next, n)
    <2> HIDE DEF next, n, base
    <2> QED
        BY <1>1, <1>2, <1>3, Recursion
<1>5. Rounds(f)
    <2>1. f[0] = base
        BY <1>4 DEF Iterates
    <2>2. ASSUME NEW k \in 1 .. n PROVE f[k] = ShrinkLargest(f[k - 1])
        <3>1. f[k - 1] \in Layouts
            BY <1>1, <1>4
        <3>2. f[k] = next[k][f[k - 1]]
            <4> HIDE DEF next, n, base
            <4> QED
                BY <1>4 DEF Iterates
        <3> QED
            BY <3>1, <3>2
    <2>3. \A k \in 0 .. n : k = 0 \/ k \in 1 .. n
        BY <1>1
    <2> HIDE DEF next, n, base
    <2>4. \A k \in 0 .. n : f[k] = IF k = 0 THEN base ELSE ShrinkLargest(f[k - 1])
        BY <2>1, <2>2, <2>3
    <2> QED
        BY <1>4, <2>4
<1>6. Rounds(g)
    BY <1>5, Zenon
<1>7. Truncate(l) = g[n]
    BY DEF Truncate
<1> HIDE DEF g, next, n, base
<1> DEFINE T == {k \in Nat : k <= n =>
                    Resized(l, g[k]) /\ (OverTokens(g[k]) => Cardinality(Large(g[k])) <= n - k)}
<1>8. 0 \in T
    <2>1. g[0] = base
        BY <1>1, <1>6
    <2>2. Cardinality(Large(base)) <= n
        BY <1>2, LargeIsFinite DEF Resized, n
    <2> QED
        BY <1>1, <1>2, <2>1, <2>2
<1>9. ASSUME NEW k \in Nat, k \in T PROVE k + 1 \in T
    <2> SUFFICES ASSUME k + 1 <= n
        PROVE  /\ Resized(l, g[k + 1])
               /\ OverTokens(g[k + 1]) => Cardinality(Large(g[k + 1])) <= n - (k + 1)
        OBVIOUS
    <2> DEFINE a == g[k]
               b == g[k + 1]
    <2>1. k + 1 \in 0 .. n /\ k + 1 # 0 /\ (k + 1) - 1 = k /\ k <= n
        BY <1>1, <1>9
    <2>2. b = ShrinkLargest(a)
        BY <1>6, <2>1
    <2>3. Resized(l, a) /\ (OverTokens(a) => Cardinality(Large(a)) <= n - k) /\ a \in Layouts
        BY <1>9, <2>1 DEF Resized
    <2> HIDE DEF a, b, T
    <2>4. /\ Resized(a, b)
          /\ ~OverTokens(a) \/ Large(a) = {} => b = a
          /\ OverTokens(a) /\ Large(a) # {} =>
                ~OverTokens(b) \/ \E j \in Large(a) : Large(b) = Large(a) \ {j}
        BY <2>2, <2>3, ShrinkStep
    <2>5. Resized(l, b)
        BY <2>3, <2>4, ResizedTwice
    <2>6. ASSUME OverTokens(b) PROVE Cardinality(Large(b)) <= n - (k + 1)
        <3>1. OverTokens(a)
            BY <2>4, <2>6
        <3>2. CASE Large(a) = {}
            <4>1. Cardinality(Large(b)) = 0
                BY <2>4, <3>2, FS_EmptySet
            <4> QED
                BY <1>1, <2>1, <4>1
        <3>3. CASE Large(a) # {}
            <4>1. PICK j \in Large(a) : Large(b) = Large(a) \ {j}
                BY <2>4, <2>6, <3>1, <3>3
            <4>2. Cardinality(Large(b)) = Cardinality(Large(a)) - 1 /\ Cardinality(Large(a)) \in Nat
                BY <2>3, <4>1, LargeIsFinite
            <4>3. Cardinality(Large(a)) <= n - k
                BY <2>3, <3>1
            <4> QED
                BY <1>1, <4>2, <4>3
        <3> QED
            BY <3>2, <3>3
    <2> QED
        BY <2>5, <2>6 DEF b
<1> HIDE DEF T
<1>10. Nat \subseteq T
    BY <1>8, <1>9, Induction
<1>11. Resized(l, g[n]) /\ (OverTokens(g[n]) => Cardinality(Large(g[n])) <= 0)
    BY <1>1, <1>10 DEF T
<1>12. ASSUME OverTokens(g[n]) PROVE Large(g[n]) = {}
    <2>1. g[n] \in Layouts
        BY <1>11 DEF Resized
    <2>2. Cardinality(Large(g[n])) \in Nat /\ Cardinality(Large(g[n])) <= 0
        BY <1>11, <1>12, <2>1, LargeIsFinite
    <2>3. Cardinality(Large(g[n])) = 0
        BY <2>2
    <2> QED
        BY <2>1, <2>3, LargeIsFinite
<1> QED
    BY <1>7, <1>11, <1>12

-----------------------------------------------------------------------------
(* Where the history is cut.                                               *)

\* A cut that is made is open, and it is at the target or later, or no later one was.
LEMMA SafeCutIs ==
    ASSUME NEW h \in Seq(Msg), NEW start \in Nat, start < Len(h), NEW target \in Nat
    PROVE  LET c == SafeCut(h, start, target) IN
           /\ c \in Nat /\ c < Len(h) /\ (c = start \/ c \notin BlockedCuts(h))
           /\ c >= target \/ (c >= start /\ \A d \in c + 1 .. Len(h) - 1 : d \in BlockedCuts(h))
<1> DEFINE open == (0 .. Len(h) - 1) \ BlockedCuts(h)
           later == {c \in open : c >= target}
           earlier == {c \in open : start < c /\ c < target}
           c == SafeCut(h, start, target)
<1>1. c = CASE later # {} -> Min(later)
            [] later = {} /\ earlier # {} -> Max(earlier)
            [] OTHER -> start
    BY Zenon DEF SafeCut
<1>2. Len(h) \in Nat
    OBVIOUS
<1>3. open \in SUBSET Nat /\ \A d \in open : d < Len(h) /\ d \notin BlockedCuts(h)
    BY <1>2
<1>4. \A d \in 0 .. Len(h) - 1 : d \in open \/ d \in BlockedCuts(h)
    OBVIOUS
<1> HIDE DEF c, open
<1>5. CASE later # {}
    <2>1. later \in SUBSET Nat
        BY <1>3
    <2>2. Min(later) \in later
        <3> HIDE DEF later
        <3> QED
            BY <1>5, <2>1, MinIs
    <2>3. c = Min(later)
        <3> HIDE DEF later, earlier
        <3> QED
            BY <1>1, <1>5
    <2>4. c \in later
        BY <2>2, <2>3
    <2> QED
        BY <1>3, <2>4 DEF c
<1>6. CASE later = {} /\ earlier # {}
    <2>1. earlier \in SUBSET Nat /\ \A d \in earlier : d <= Len(h)
        BY <1>2, <1>3
    <2>2. Max(earlier) \in earlier /\ \A d \in earlier : Max(earlier) >= d
        <3> HIDE DEF earlier
        <3> QED
            BY <1>2, <1>6, <2>1, MaxIs
    <2>3. c = Max(earlier)
        <3> HIDE DEF later, earlier
        <3> QED
            BY <1>1, <1>6
    <2>4. c \in earlier /\ \A d \in earlier : c >= d
        BY <2>2, <2>3
    <2>5. c \in Nat /\ c < Len(h) /\ c >= start /\ c \notin BlockedCuts(h)
        BY <1>3, <2>4
    <2>6. ASSUME NEW d \in c + 1 .. Len(h) - 1, d \in open PROVE FALSE
        <3>1. d > c /\ d > start /\ d < target
            BY <1>6, <2>5, <2>6
        <3>2. d \in earlier
            BY <2>6, <3>1
        <3> QED
            BY <2>4, <2>5, <3>1, <3>2
    <2>7. \A d \in c + 1 .. Len(h) - 1 : d \in BlockedCuts(h)
        BY <1>2, <1>4, <2>5, <2>6
    <2> QED
        BY <2>5, <2>7 DEF c
<1>7. CASE later = {} /\ earlier = {}
    <2>1. c = start
        <3> HIDE DEF later, earlier
        <3> QED
            BY <1>1, <1>7
    <2>2. \A d \in c + 1 .. Len(h) - 1 : d \notin open
        BY <1>2, <1>7, <2>1
    <2>3. \A d \in c + 1 .. Len(h) - 1 : d \in BlockedCuts(h)
        BY <1>2, <1>4, <2>1, <2>2
    <2>4. c \in Nat /\ c < Len(h) /\ c >= start
        BY <2>1
    <2> QED
        BY <2>1, <2>3, <2>4 DEF c
<1> QED
    BY <1>5, <1>6, <1>7

\* A cut that is made is open; one into too long a view leaves few enough messages,
\* unless every later cut would part a call from its result.
LEMMA ChooseIs ==
    ASSUME NEW h \in Seq(Msg), NEW start \in Nat, start <= Len(h), NEW fixed
    PROVE  LET c == ChooseCutoff(h, start, fixed) IN
           /\ c \in Nat /\ c <= Len(h) /\ (c = start \/ (c < Len(h) /\ c \notin BlockedCuts(h)))
           /\ Len(h) - start > MaxMessages =>
                Len(h) - c <= MaxMessages
                \/ (c >= start /\ \A d \in c + 1 .. Len(h) - 1 : d \in BlockedCuts(h))
<1> DEFINE last == Len(h) - 1
           keep == Max({start, Len(h) - KeepRecent})
           recent == Min({keep, last})
           budget == (MaxTokens - fixed) \div 2
           fits == {c \in recent .. last : c = last \/ SizeOf(From(h, c)) <= budget}
           c == ChooseCutoff(h, start, fixed)
<1>0. Len(h) \in Nat /\ MaxMessages \in Nat /\ KeepRecent \in Nat /\ KeepRecent < MaxMessages
    BY CompactionAssumption
<1>1. c = IF last <= start THEN start ELSE SafeCut(h, start, Min(fits))
    BY Zenon DEF ChooseCutoff
<1> HIDE DEF c
<1>2. CASE last <= start
    <2>1. c = start
        BY <1>1, <1>2
    <2>2. ~(Len(h) - start > MaxMessages)
        BY <1>0, <1>2
    <2> QED
        BY <2>1, <2>2 DEF c
<1>3. CASE ~(last <= start)
    <2>1. c = SafeCut(h, start, Min(fits))
        BY <1>1, <1>3
    <2>2. keep = IF start >= Len(h) - KeepRecent THEN start ELSE Len(h) - KeepRecent
        BY <1>0, OfTwo
    <2>3. keep \in Int /\ last \in Int
        BY <1>0, <2>2
    <2>4. recent = IF keep <= last THEN keep ELSE last
        <3> HIDE DEF keep, last
        <3> QED
            BY <2>3, OfTwo
    <2> HIDE DEF keep, recent, budget
    <2>5. recent \in Nat /\ recent <= last
        BY <1>0, <1>3, <2>2, <2>4
    <2>6. fits \in SUBSET Nat /\ last \in fits /\ \A d \in fits : d >= recent
        BY <1>0, <2>5
    <2>7. Min(fits) \in Nat /\ Min(fits) >= recent
        <3> HIDE DEF fits
        <3>1. Min(fits) \in fits
            BY <2>6, MinIs
        <3> QED
            BY <2>6, <3>1
    <2> HIDE DEF fits
    <2>8. /\ c \in Nat /\ c < Len(h) /\ (c = start \/ c \notin BlockedCuts(h))
          /\ c >= Min(fits) \/ (c >= start /\ \A d \in c + 1 .. Len(h) - 1 : d \in BlockedCuts(h))
        <3>1. ASSUME NEW t \in Nat
              PROVE  LET x == SafeCut(h, start, t) IN
                     /\ x \in Nat /\ x < Len(h) /\ (x = start \/ x \notin BlockedCuts(h))
                     /\ x >= t \/ (x >= start /\ \A d \in x + 1 .. Len(h) - 1 : d \in BlockedCuts(h))
            <4>1. start < Len(h)
                BY <1>0, <1>3
            <4> QED
                BY <4>1, SafeCutIs
        <3> DEFINE t == Min(fits)
        <3>2. t \in Nat /\ c = SafeCut(h, start, t)
            BY <2>1, <2>7
        <3> HIDE DEF t
        <3>3. /\ c \in Nat /\ c < Len(h) /\ (c = start \/ c \notin BlockedCuts(h))
              /\ c >= t \/ (c >= start /\ \A d \in c + 1 .. Len(h) - 1 : d \in BlockedCuts(h))
            BY <3>1, <3>2
        <3> QED
            BY <3>3 DEF t
    <2>9. ASSUME Len(h) - start > MaxMessages, c >= Min(fits) PROVE Len(h) - c <= MaxMessages
        <3>1. c >= recent
            BY <2>5, <2>7, <2>8, <2>9
        <3>2. Len(h) - recent <= MaxMessages
            BY <1>0, <2>2, <2>4, <2>9
        <3> QED
            BY <1>0, <2>5, <2>8, <3>1, <3>2
    <2> QED
        BY <1>0, <2>8, <2>9 DEF c
<1> QED
    BY <1>2, <1>3

\* The head of a history is its system prompt and the user's request.
LEMMA PrefixIs == ASSUME CompType, HistoryInv PROVE PrefixEnd(history) = 2
<1> DEFINE S == {k \in 0 .. Len(history) : \A j \in 1 .. k : history[j].role = "system"}
<1>0. Len(history) \in Nat /\ Len(history) >= 2
    BY DEF CompType
<1>1. history[1].role = "system" /\ history[2].role = "user"
    BY DEF HistoryInv, Dialogue, InPlace
<1>2. ASSUME NEW k \in S PROVE k \in {0, 1}
    <2>1. ~(2 \in 1 .. k)
        BY <1>1
    <2> QED
        BY <1>0, <2>1
<1>3. 0 \in S /\ 1 \in S
    BY <1>0, <1>1
<1>4. S = {0, 1}
    BY <1>2, <1>3
<1>5. Max({0, 1}) = 1
    BY OfTwo
<1>6. Max(S) = 1
    BY <1>4, <1>5
<1>7. PrefixEnd(history) =
        IF Max(S) < Len(history) /\ history[Max(S) + 1].role = "user" THEN Max(S) + 1 ELSE Max(S)
    BY Zenon DEF PrefixEnd
<1> HIDE DEF S
<1> QED
    BY <1>0, <1>1, <1>6, <1>7

-----------------------------------------------------------------------------
(* What process() knows on its way.                                        *)

\* The identities of messages of the history.
LEMMA BetweenIs ==
    ASSUME CompType, NEW a \in Nat, NEW b \in Nat, b <= Len(history)
    PROVE  Between(history, a, b) \in SUBSET (Nat \X Nat)
<1>1. history \in Seq(Msg) /\ Len(history) \in Nat
    BY DEF CompType
<1>2. \A k \in (a + 1) .. b : k \in 1 .. Len(history)
    BY <1>1
<1>3. \A k \in (a + 1) .. b : history[k].uids \in SUBSET (Nat \X Nat)
    BY <1>1, <1>2, Fields
<1> QED
    BY <1>3 DEF Between

\* A head that is cut is the same messages.
LEMMA CutHeadIs ==
    ASSUME NEW head \in Seq(Msg), NEW limit \in Nat
    PROVE  LET r == CutHead(head, limit) IN
           r \in Seq(Msg) /\ Len(r) = Len(head) /\ \A k \in 1 .. Len(head) : Alike(r[k], head[k])
<1> DEFINE r == CutHead(head, limit)
           cut == limit = 0 \/ head = <<>> \/ Last(head).role # "user"
           n == Len(head)
           size == Min({head[n].size, limit})
           m == [head[n] EXCEPT !.size = size]
           t == [k \in DOMAIN head |-> IF k = n THEN m ELSE head[k]]
<1>1. CASE cut
    BY <1>1 DEF CutHead, Alike
<1>2. CASE ~cut
    <2>1. n \in 1 .. Len(head)
        BY <1>2
    <2>2. r = [head EXCEPT ![n] = m]
        BY <1>2, Zenon DEF CutHead
    <2>3. r = t
        <3> HIDE DEF m, r, n
        <3> QED
            BY <2>2
    <2>4. head[n] \in Msg /\ head[n].size \in Nat
        BY <2>1, Fields
    <2>5. size = IF head[n].size <= limit THEN head[n].size ELSE limit
        <3> DEFINE a == head[n].size
        <3>1. a \in Int /\ limit \in Int
            BY <2>4
        <3> HIDE DEF a
        <3>2. Min({a, limit}) = IF a <= limit THEN a ELSE limit
            BY <3>1, OfTwo
        <3> QED
            BY <3>2 DEF a
    <2> HIDE DEF size
    <2>6. size \in Nat
        BY <2>4, <2>5
    <2>7. m \in Msg /\ Alike(m, head[n])
        BY <2>4, <2>6 DEF Msg, Alike
    <2> HIDE DEF m, r, n, cut
    <2>8. t \in Seq(Msg) /\ Len(t) = Len(head)
        <3>1. t = Put(head, n, m)
            BY Zenon DEF Put
        <3> HIDE DEF t
        <3> QED
            BY <2>1, <2>7, <3>1, Around DEF n
    <2>9. \A k \in 1 .. Len(head) : Alike(t[k], head[k])
        <3>1. \A k \in 1 .. Len(head) : Alike(head[k], head[k])
            BY DEF Alike
        <3> QED
            BY <2>7, <3>1
    <2> QED
        BY <2>3, <2>8, <2>9 DEF r
<1> QED
    BY <1>1, <1>2

\* l shows the head and the messages after the first start.
Shows(l, start) ==
    /\ Len(l.head) = 2 /\ Alike(l.head[1], history[1]) /\ Alike(l.head[2], history[2])
    /\ Len(l.tail) = Len(history) - start
    /\ \A k \in 1 .. Len(l.tail) : Alike(l.tail[k], history[start + k])

HeadIs(head) ==
    head \in Seq(Msg) /\ Len(head) = 2 /\ Alike(head[1], history[1]) /\ Alike(head[2], history[2])

\* A layout of the history after a cut shows what is after it.
LEMMA LayoutOfIs ==
    ASSUME CompType, NEW head, HeadIs(head), NEW cutoff \in Nat, NEW start \in Nat, NEW text \in Nat,
           cutoff <= start, start <= Len(history)
    PROVE  LET l == LayoutOf(head, history, cutoff, start, text) IN
           l \in Layouts /\ l.head = head /\ l.text = text /\ l.omitted = start - cutoff /\ Shows(l, start)
<1>1. history \in Seq(Msg) /\ Len(history) \in Nat
    BY DEF CompType
<1> DEFINE tail == SubSeq(history, start + 1, Len(history))
<1>2. /\ tail \in Seq(Msg) /\ Len(tail) = Len(history) - start
      /\ \A k \in 1 .. Len(history) - start : tail[k] = history[start + k]
    BY <1>1
<1>3. LayoutOf(head, history, cutoff, start, text)
        = [head |-> head, text |-> text, omitted |-> start - cutoff, tail |-> tail]
    BY DEF LayoutOf, From
<1> HIDE DEF tail
<1>4. start - cutoff \in Nat /\ head \in Seq(Msg)
    BY DEF HeadIs
<1>5. \A k \in 1 .. Len(tail) : Alike(tail[k], history[start + k])
    BY <1>2 DEF Alike
<1> QED
    BY <1>2, <1>3, <1>4, <1>5 DEF Layouts, Shows, HeadIs

Stages == [m : Memos, cutoff : Nat, start : Nat, f : SUBSET (Nat \X Nat), l : Layouts]

\* The recap is of the messages between the head and its cut, the view shows those
\* after its start, and those between the cut and the start are counted; no cut parts
\* calls from results.
StageOk(p) ==
    /\ p \in Stages
    /\ 2 <= p.cutoff /\ p.cutoff <= p.start /\ p.start <= Len(history)
    /\ Shows(p.l, p.start)
    /\ p.l.omitted = p.start - p.cutoff /\ p.l.text = p.m.text
    /\ p.m.dropped <= Len(history)
    /\ (p.m.upto = 0 /\ p.cutoff = 2) \/ (p.m.upto > 2 /\ p.m.upto = p.cutoff /\ p.m.text > 0)
    /\ p.f = Between(history, 2, p.cutoff)
    /\ OpenCut(p.m.upto) /\ OpenCut(p.m.dropped) /\ Clean(history, p.start)

\* It starts with what the last call left, or anew when the history was cut back.
LEMMA OpenedIs == ASSUME CompType, HistoryInv, MemoInv PROVE StageOk(Opened)
<1> DEFINE m == Recalled
           cutoff == Max({m.upto, 2})
           start == Max({cutoff, m.dropped})
           h == SubSeq(history, 1, 2)
           head == CutHead(h, m.head)
           f == IF m = memo THEN folded ELSE {}
           l == LayoutOf(head, history, cutoff, start, m.text)
<1>0. history \in Seq(Msg) /\ Len(history) \in Nat /\ Len(history) >= 2 /\ memo \in Memos
    BY DEF CompType
<1>1. PrefixEnd(history) = 2
    BY PrefixIs
<1>2. Opened = [m |-> m, cutoff |-> cutoff, start |-> start, f |-> f, l |-> l]
    BY <1>1, Zenon DEF Opened
<1>3. m = IF Stale THEN Fresh ELSE memo
    BY DEF Recalled, Stale
<1>4. Fresh \in Memos /\ Fresh.upto = 0 /\ Fresh.dropped = 0 /\ Fresh.text = 0 /\ Fresh.head = 0
    BY DEF Fresh, Memos
<1>5. m \in Memos /\ m.upto \in Nat /\ m.dropped \in Nat /\ m.text \in Nat /\ m.head \in Nat
    <2>1. m \in Memos
        BY <1>0, <1>3, <1>4
    <2> QED
        BY <2>1 DEF Memos
<1>6. /\ m.upto <= Len(history) /\ m.dropped <= Len(history)
      /\ m.upto = 0 \/ (m.upto > 2 /\ m.text > 0)
    <2>1. CASE Stale
        BY <1>0, <1>3, <1>4, <2>1
    <2>2. CASE ~Stale
        BY <1>0, <1>3, <1>5, <2>2 DEF Stale, MemoInv
    <2> QED
        BY <2>1, <2>2
<1>7. OpenCut(m.upto) /\ OpenCut(m.dropped)
    <2>1. CASE Stale
        BY <1>3, <1>4, <2>1 DEF OpenCut
    <2>2. CASE ~Stale
        BY <1>3, <2>2 DEF MemoInv
    <2> QED
        BY <2>1, <2>2
<1>8. cutoff = IF m.upto >= 2 THEN m.upto ELSE 2
    BY <1>5, OfTwo
<1>9. f = Between(history, 2, cutoff)
    <2>1. Between(history, 2, 2) = {} /\ Between(history, 2, 0) = {}
        BY DEF Between
    <2>2. CASE Stale
        <3>1. m = Fresh /\ m # memo
            BY <1>0, <1>3, <1>4, <2>2 DEF Stale, Memos
        <3>2. m.upto = 0
            BY <3>1, <1>4
        <3> QED
            BY <1>8, <2>1, <3>1, <3>2
    <2>3. CASE ~Stale
        <3>1. f = Between(history, 2, m.upto)
            BY <1>3, <2>3 DEF MemoInv
        <3> HIDE DEF f
        <3>2. m.upto = 0 \/ cutoff = m.upto
            BY <1>5, <1>6, <1>8
        <3>3. m.upto = 0 => cutoff = 2
            BY <1>8
        <3> QED
            BY <2>1, <3>1, <3>2, <3>3
    <2> QED
        BY <2>2, <2>3
<1> HIDE DEF m, cutoff, f
<1>10. cutoff \in Nat /\ start = IF cutoff >= m.dropped THEN cutoff ELSE m.dropped
    <2>1. cutoff \in Nat
        BY <1>5, <1>8
    <2> QED
        BY <1>5, <2>1, OfTwo
<1> HIDE DEF start
<1>11. start \in Nat /\ 2 <= cutoff /\ cutoff <= start /\ start <= Len(history)
    BY <1>0, <1>5, <1>6, <1>8, <1>10
<1>12. HeadIs(head)
    <2>1. h \in Seq(Msg) /\ Len(h) = 2 /\ h[1] = history[1] /\ h[2] = history[2]
        BY <1>0
    <2> HIDE DEF h
    <2>2. head \in Seq(Msg) /\ Len(head) = 2 /\ \A k \in 1 .. 2 : Alike(head[k], h[k])
        BY <1>5, <2>1, CutHeadIs
    <2> QED
        BY <2>1, <2>2 DEF HeadIs
<1> HIDE DEF head
<1>13. /\ l \in Layouts /\ l.head = head /\ l.text = m.text /\ l.omitted = start - cutoff
       /\ Shows(l, start)
    BY <1>5, <1>10, <1>11, <1>12, LayoutOfIs
<1> HIDE DEF l
<1>14. f \in SUBSET (Nat \X Nat)
    <2>1. cutoff <= Len(history)
        BY <1>0, <1>10, <1>11
    <2> QED
        BY <1>9, <1>10, <2>1, BetweenIs
<1>15. Opened \in Stages
    BY <1>2, <1>5, <1>10, <1>11, <1>13, <1>14 DEF Stages
<1>16. (m.upto = 0 /\ cutoff = 2) \/ (m.upto > 2 /\ m.upto = cutoff /\ m.text > 0)
    BY <1>5, <1>6, <1>8
<1>17. Clean(history, start)
    <2>1. Clean(history, 2)
        <3>1. history[2].role = "user" /\ history[2].calls = <<>> /\ 2 \in 1 .. Len(history)
            BY <1>0 DEF HistoryInv, Dialogue, InPlace
        <3> QED
            BY <1>0, <3>1, CleanAfter DEF HistoryInv
    <2>2. start \in {2, m.upto, m.dropped} /\ start # 0
        BY <1>5, <1>8, <1>10, <1>11
    <2>3. OpenCut(start) => Clean(history, start)
        BY <2>2 DEF OpenCut, Clean
    <2> QED
        BY <1>7, <2>1, <2>2, <2>3
<1> QED
    BY <1>2, <1>6, <1>9, <1>11, <1>13, <1>15, <1>16, <1>7, <1>17 DEF StageOk

\* The limit of the head is a number.
LEMMA HeadLimitIs == ASSUME NEW l \in Layouts, shift \in Int PROVE HeadLimit(l) \in Nat
<1> DEFINE excess == Estimate(l.head) - MaxTokens \div 2
           size == Last(l.head).size
           keep == Max({size - excess, MinSize})
<1>1. HeadLimit(l) = IF l.head = <<>> \/ Last(l.head).role # "user" THEN 0
                     ELSE IF excess > 0 /\ keep < size THEN keep ELSE 0
    BY Zenon DEF HeadLimit
<1>2. CASE l.head = <<>>
    BY <1>1, <1>2
<1>3. CASE l.head # <<>>
    <2>0. MaxTokens \in Nat /\ MinSize \in Nat /\ l.head \in Seq(Msg)
        BY CompactionAssumption, LayoutParts
    <2>1. SizeOf(l.head) + shift \in Int
        BY <2>0, SizeNat
    <2>2. Estimate(l.head) \in Int
        BY <2>1, OfTwo DEF Estimate
    <2>3. excess \in Int
        BY <2>0, <2>2
    <2>4. size \in Nat
        BY <1>3, <2>0, Splits DEF Msg
    <2> HIDE DEF excess, size
    <2>5. keep = IF size - excess >= MinSize THEN size - excess ELSE MinSize
        BY <2>0, <2>3, <2>4, OfTwo
    <2> HIDE DEF keep
    <2>6. keep \in Nat
        BY <2>0, <2>3, <2>4, <2>5
    <2> QED
        BY <1>1, <2>6
<1> QED
    BY <1>2, <1>3

\* A head that is cut shows the same messages.
LEMMA HeadTrimmedIs ==
    ASSUME CompType, NEW p, StageOk(p)
    PROVE  StageOk(HeadTrimmed(p)) /\ HeadTrimmed(p).start = p.start
<1> DEFINE limit == IF p.m.head = 0 /\ OverTokens(p.l) THEN HeadLimit(p.l) ELSE 0
           head == CutHead(p.l.head, limit)
           r == [p EXCEPT !.m.head = limit, !.l.head = head]
<1>1. HeadTrimmed(p) = IF limit = 0 THEN p ELSE r
    BY Zenon DEF HeadTrimmed
<1>2. p \in Stages /\ p.l \in Layouts /\ p.m \in Memos /\ p.l.head \in Seq(Msg) /\ shift \in Int
    BY DEF StageOk, Stages, CompType, Layouts
<1>3. limit \in Nat
    BY <1>2, HeadLimitIs
<1> HIDE DEF limit
<1>4. /\ head \in Seq(Msg) /\ Len(head) = Len(p.l.head)
      /\ \A k \in 1 .. Len(p.l.head) : Alike(head[k], p.l.head[k])
    BY <1>2, <1>3, CutHeadIs
<1> HIDE DEF head
<1>5. /\ r \in Stages /\ r.cutoff = p.cutoff /\ r.start = p.start /\ r.f = p.f
      /\ r.m.upto = p.m.upto /\ r.m.text = p.m.text /\ r.m.dropped = p.m.dropped
      /\ r.l.head = head /\ r.l.tail = p.l.tail /\ r.l.text = p.l.text /\ r.l.omitted = p.l.omitted
    BY <1>2, <1>3, <1>4 DEF Stages, Memos, Layouts
<1> HIDE DEF r
<1>6. StageOk(r)
    BY <1>4, <1>5 DEF StageOk, Shows, Alike
<1> QED
    BY <1>1, <1>5, <1>6

\* A view of too many messages has no open cut further on.
NoLaterCut(start) ==
    Len(history) - start > MaxMessages =>
        \A d \in start + 1 .. Len(history) - 1 : d \in BlockedCuts(history)

\* The messages of two adjoining ranges.
LEMMA BetweenMeets ==
    ASSUME NEW a \in Nat, NEW b \in Nat, NEW c \in Nat, a <= b, b <= c
    PROVE  Between(history, a, b) \cup Between(history, b, c) = Between(history, a, c)
<1>1. (a + 1) .. c = ((a + 1) .. b) \cup ((b + 1) .. c)
    OBVIOUS
<1> QED
    BY <1>1 DEF Between

\* The messages that are folded are those from the recap's cut to the new one.
LEMMA ToFoldIs ==
    ASSUME CompType, NEW a \in Nat, NEW s, NEW b \in Nat, a <= b, b <= Len(history)
    PROVE  Uids(ToFold(history, a, s, b)) = Between(history, a, b)
<1> DEFINE given == SubSeq(history, a + 1, b)
<1>1. history \in Seq(Msg) /\ Len(history) \in Nat
    BY DEF CompType
<1>2. DOMAIN given = 1 .. (b - a) /\ \A k \in 1 .. (b - a) : given[k] = history[a + k]
    BY <1>1
<1>3. ToFold(history, a, s, b) = given
    BY DEF ToFold
<1> HIDE DEF given
<1>4. ASSUME NEW k \in DOMAIN given PROVE given[k].uids \subseteq Between(history, a, b)
    <2>1. a + k \in (a + 1) .. b /\ given[k] = history[a + k]
        BY <1>2
    <2> QED
        BY <2>1 DEF Between
<1>5. ASSUME NEW k \in (a + 1) .. b
      PROVE  history[k].uids \subseteq UNION {given[i].uids : i \in DOMAIN given}
    <2>1. k - a \in DOMAIN given /\ a + (k - a) = k
        BY <1>2
    <2>2. given[k - a] = history[k]
        BY <1>2, <2>1
    <2> QED
        BY <2>1, <2>2
<1> QED
    BY <1>3, <1>4, <1>5 DEF Between, Uids

\* Folding or dropping keeps the accounts, and cuts as far as it has to and can.
LEMMA FoldedIs ==
    ASSUME CompType, NEW p, StageOk(p), NEW recap \in Nat
    PROVE  StageOk(Folded(p, recap)) /\ NoLaterCut(Folded(p, recap).start)
<1> DEFINE fixed == Estimate(View([p.l EXCEPT !.tail = <<>>]))
           foldable == OverBudget(history, p.start, p.l) = "messages" \/ fixed < MaxTokens
           target == IF foldable THEN ChooseCutoff(history, p.start, fixed) ELSE p.start
           given == ToFold(history, p.cutoff, p.start, target)
           text == Summarize(p.m.text, given, recap)
           m1 == [p.m EXCEPT !.text = text, !.upto = target]
           m2 == [p.m EXCEPT !.dropped = target]
           l1 == LayoutOf(p.l.head, history, target, target, m1.text)
           l2 == LayoutOf(p.l.head, history, p.cutoff, target, m2.text)
           f1 == p.f \cup UNION {given[k].uids : k \in DOMAIN given}
           r1 == [p EXCEPT !.m = m1, !.cutoff = target, !.start = target, !.l = l1, !.f = f1]
           r2 == [p EXCEPT !.m = m2, !.start = target, !.l = l2]
           r == Folded(p, recap)
<1>1. r = IF target <= p.start THEN p ELSE IF text # 0 THEN r1 ELSE r2
    BY Zenon DEF Folded
<1>2. /\ history \in Seq(Msg) /\ Len(history) \in Nat /\ p \in Stages /\ p.m \in Memos
      /\ p.l \in Layouts /\ p.start \in Nat /\ p.cutoff \in Nat /\ p.f \in SUBSET (Nat \X Nat)
      /\ 2 <= p.cutoff /\ p.cutoff <= p.start /\ p.start <= Len(history)
      /\ p.f = Between(history, 2, p.cutoff) /\ p.m.text \in Nat
    BY DEF CompType, StageOk, Stages, Memos
<1>3. MaxMessages \in Nat
    BY CompactionAssumption
<1>4. target \in Nat /\ target <= Len(history)
    <2>1. ChooseCutoff(history, p.start, fixed) \in Nat /\ ChooseCutoff(history, p.start, fixed) <= Len(history)
        <3> HIDE DEF fixed
        <3> QED
            BY <1>2, ChooseIs
    <2> HIDE DEF foldable, fixed
    <2> QED
        BY <1>2, <2>1
<1>5. Len(history) - p.start > MaxMessages =>
        \/ Len(history) - target <= MaxMessages
        \/ target >= p.start /\ \A d \in target + 1 .. Len(history) - 1 : d \in BlockedCuts(history)
    <2> SUFFICES ASSUME Len(history) - p.start > MaxMessages
                 PROVE  \/ Len(history) - target <= MaxMessages
                        \/ target >= p.start /\ \A d \in target + 1 .. Len(history) - 1 : d \in BlockedCuts(history)
        OBVIOUS
    <2>1. foldable
        <3>1. OverBudget(history, p.start, p.l) = "messages"
            BY DEF OverBudget
        <3> QED
            BY <3>1
    <2> DEFINE c == ChooseCutoff(history, p.start, fixed)
    <2>2. target = c
        BY <2>1
    <2>3. \/ Len(history) - c <= MaxMessages
          \/ c >= p.start /\ \A d \in c + 1 .. Len(history) - 1 : d \in BlockedCuts(history)
        <3>1. ASSUME NEW x
              PROVE  LET y == ChooseCutoff(history, p.start, x) IN
                     \/ Len(history) - y <= MaxMessages
                     \/ y >= p.start /\ \A d \in y + 1 .. Len(history) - 1 : d \in BlockedCuts(history)
            BY <1>2, ChooseIs
        <3> HIDE DEF fixed
        <3> QED
            BY <3>1
    <2> HIDE DEF target, c
    <2> QED
        BY <2>2, <2>3
<1>6. target # p.start => OpenCut(target) /\ Clean(history, target)
    <2> DEFINE c == ChooseCutoff(history, p.start, fixed)
    <2>1. target = p.start \/ target = c
        OBVIOUS
    <2>2. c = p.start \/ (c < Len(history) /\ c \notin BlockedCuts(history))
        <3> HIDE DEF fixed
        <3> QED
            BY <1>2, ChooseIs
    <2> HIDE DEF c, target
    <2>3. ASSUME target # p.start PROVE target < Len(history) /\ Clean(history, target)
        BY <1>2, <1>4, <2>1, <2>2, <2>3, OpenIsClean
    <2> QED
        BY <2>3 DEF OpenCut, Clean
<1>7. text \in Nat
    <2> HIDE DEF given
    <2> QED
        BY <1>2 DEF Summarize
<1> HIDE DEF r, target
<1>8. CASE target <= p.start
    <2>1. r = p
        BY <1>1, <1>8
    <2>2. NoLaterCut(p.start)
        <3> SUFFICES ASSUME Len(history) - p.start > MaxMessages
                     PROVE  \A d \in p.start + 1 .. Len(history) - 1 : d \in BlockedCuts(history)
            BY DEF NoLaterCut
        <3>1. ~(Len(history) - target <= MaxMessages)
            BY <1>2, <1>3, <1>4, <1>8
        <3>2. target = p.start
            BY <1>2, <1>4, <1>5, <1>8, <3>1
        <3> QED
            BY <1>5, <3>1, <3>2
    <2> QED
        BY <2>1, <2>2 DEF r
<1>9. CASE ~(target <= p.start)
    <2>1. p.start <= target /\ p.cutoff <= target /\ 2 < target /\ target # p.start
        BY <1>2, <1>4, <1>9
    <2>2. NoLaterCut(target)
        <3> SUFFICES ASSUME Len(history) - target > MaxMessages
                     PROVE  \A d \in target + 1 .. Len(history) - 1 : d \in BlockedCuts(history)
            BY DEF NoLaterCut
        <3>1. Len(history) - p.start > MaxMessages /\ ~(Len(history) - target <= MaxMessages)
            BY <1>2, <1>3, <1>4, <2>1
        <3> QED
            BY <1>5, <3>1
    <2>3. HeadIs(p.l.head)
        BY <1>2 DEF StageOk, Shows, HeadIs, Layouts
    <2>4. UNION {given[k].uids : k \in DOMAIN given} = Between(history, p.cutoff, target)
        <3>1. Uids(ToFold(history, p.cutoff, p.start, target)) = Between(history, p.cutoff, target)
            BY <1>2, <1>4, <2>1, ToFoldIs
        <3> QED
            BY <3>1, Zenon DEF Uids
    <2>5. CASE text # 0
        <3>1. r = r1
            BY <1>1, <1>9, <2>5
        <3>2. m1 \in Memos /\ m1.text = text /\ m1.upto = target /\ m1.dropped = p.m.dropped
            <4> HIDE DEF text
            <4> QED
                BY <1>2, <1>4, <1>7 DEF Memos
        <3> HIDE DEF m1
        <3>3. m1.text \in Nat /\ m1.text > 0
            <4> HIDE DEF text
            <4> QED
                BY <1>7, <2>5, <3>2
        <3>4. /\ l1 \in Layouts /\ l1.head = p.l.head /\ l1.text = m1.text /\ l1.omitted = target - target
              /\ Shows(l1, target)
            BY <1>4, <2>3, <3>3, LayoutOfIs
        <3> HIDE DEF l1
        <3>5. f1 = Between(history, 2, target)
            <4>1. f1 = Between(history, 2, p.cutoff) \cup Between(history, p.cutoff, target)
                BY <1>2, <2>4
            <4> HIDE DEF f1
            <4> QED
                BY <1>2, <1>4, <2>1, <4>1, BetweenMeets
        <3> HIDE DEF f1
        <3>6. f1 \in SUBSET (Nat \X Nat)
            BY <1>4, <3>5, BetweenIs
        <3>7. /\ r1 \in Stages /\ r1.m = m1 /\ r1.cutoff = target /\ r1.start = target
              /\ r1.l = l1 /\ r1.f = f1
            BY <1>2, <1>4, <3>2, <3>4, <3>6 DEF Stages
        <3> HIDE DEF r1
        <3>8. m1.dropped <= Len(history) /\ OpenCut(m1.dropped)
            BY <3>2 DEF StageOk
        <3>9. OpenCut(m1.upto) /\ Clean(history, target)
            BY <1>9, <1>6, <2>1, <3>2
        <3>10. StageOk(r1)
            BY <1>4, <2>1, <3>2, <3>3, <3>4, <3>5, <3>7, <3>8, <3>9 DEF StageOk
        <3> QED
            BY <2>2, <3>1, <3>7, <3>10 DEF r
    <2>6. CASE text = 0
        <3>1. r = r2
            BY <1>1, <1>9, <2>6
        <3>2. m2 \in Memos /\ m2.text = p.m.text /\ m2.upto = p.m.upto /\ m2.dropped = target
            BY <1>2, <1>4 DEF Memos
        <3> HIDE DEF m2
        <3>3. m2.text \in Nat
            BY <1>2, <3>2
        <3>4. /\ l2 \in Layouts /\ l2.head = p.l.head /\ l2.text = m2.text /\ l2.omitted = target - p.cutoff
              /\ Shows(l2, target)
            BY <1>2, <1>4, <2>1, <2>3, <3>3, LayoutOfIs
        <3> HIDE DEF l2
        <3>5. /\ r2 \in Stages /\ r2.m = m2 /\ r2.cutoff = p.cutoff /\ r2.start = target
              /\ r2.l = l2 /\ r2.f = p.f
            BY <1>2, <1>4, <3>2, <3>4 DEF Stages
        <3> HIDE DEF r2
        <3>6. OpenCut(m2.upto) /\ OpenCut(m2.dropped) /\ Clean(history, target)
            <4>1. target # p.start
                BY <1>2, <1>9
            <4> QED
                BY <1>6, <3>2, <4>1 DEF StageOk
        <3>7. StageOk(r2)
            BY <1>2, <1>4, <2>1, <3>2, <3>4, <3>5, <3>6 DEF StageOk
        <3> QED
            BY <2>2, <3>1, <3>5, <3>7 DEF r
    <2> QED
        BY <2>5, <2>6
<1> QED
    BY <1>8, <1>9

\* Truncating keeps the accounts, and a view that still is too large has no text
\* left to cut.
LEMMA TruncatedIs ==
    ASSUME CompType, NEW p, StageOk(p)
    PROVE  /\ StageOk(Truncated(p)) /\ Truncated(p).start = p.start
           /\ OverTokens(Truncated(p).l) => Large(Truncated(p).l) = {}
<1> DEFINE l == Truncate(p.l)
           r == [p EXCEPT !.l = l]
<1>1. Truncated(p) = IF OverTokens(p.l) THEN r ELSE p
    BY Zenon DEF Truncated
<1>2. p \in Stages /\ p.l \in Layouts /\ p.l.tail \in Seq(Msg) /\ shift \in Int
    BY DEF StageOk, Stages, Layouts, CompType
<1>3. Resized(p.l, l) /\ (OverTokens(l) => Large(l) = {})
    BY <1>2, TruncateIs
<1> HIDE DEF l
<1>4. /\ r \in Stages /\ r.l = l /\ r.cutoff = p.cutoff /\ r.start = p.start /\ r.f = p.f /\ r.m = p.m
    BY <1>2, <1>3 DEF Stages, Resized
<1> HIDE DEF r
<1>5. Shows(l, p.start)
    <2>1. DOMAIN p.l.tail = 1 .. Len(p.l.tail)
        BY <1>2
    <2>2. /\ Len(l.tail) = Len(p.l.tail) /\ l.head = p.l.head
          /\ \A k \in 1 .. Len(p.l.tail) : Alike(l.tail[k], p.l.tail[k])
        BY <1>3, <2>1 DEF Resized
    <2>3. Shows(p.l, p.start)
        BY DEF StageOk
    <2>4. \A k \in 1 .. Len(p.l.tail) : Alike(l.tail[k], history[p.start + k])
        BY <2>2, <2>3 DEF Shows, Alike
    <2> QED
        BY <2>2, <2>3, <2>4 DEF Shows
<1>6. StageOk(r)
    BY <1>3, <1>4, <1>5 DEF StageOk, Resized
<1> QED
    BY <1>1, <1>3, <1>4, <1>6

\* What process() ends with: the accounts are kept, it knows whether the view is too
\* large, and then nothing is left to cut; too long a view has no later cut.
LEMMA ProcessedIs ==
    ASSUME CompType, HistoryInv, MemoInv, NEW recap \in Nat
    PROVE  LET p == Processed(recap) IN
           /\ StageOk(p) /\ NoLaterCut(p.start)
           /\ OverTokens(p.l) => p.m.overflowed /\ Large(p.l) = {}
<1> DEFINE Fits(p) == OverBudget(history, p.start, p.l) = "none"
           o == Opened
           t == HeadTrimmed(o)
           c == Truncated(Folded(t, recap))
           last == IF Fits(o) THEN o ELSE IF Fits(t) THEN t ELSE c
           over == OverTokens(last.l)
           r == [last EXCEPT !.m.overflowed = over]
           Good(p) == StageOk(p) /\ NoLaterCut(p.start) /\ (OverTokens(p.l) => Large(p.l) = {})
<1>1. Processed(recap) = r
    BY Zenon DEF Processed
<1>2. ASSUME NEW p, StageOk(p), Fits(p) PROVE Good(p)
    <2>1. ~(Len(history) - p.start > MaxMessages) /\ ~OverTokens(p.l)
        BY <1>2 DEF OverBudget
    <2> QED
        BY <1>2, <2>1 DEF NoLaterCut
<1>3. StageOk(o)
    BY OpenedIs
<1>4. StageOk(t)
    <2> HIDE DEF o
    <2> QED
        BY <1>3, HeadTrimmedIs
<1>5. Good(c)
    <2> HIDE DEF t
    <2>1. StageOk(Folded(t, recap)) /\ NoLaterCut(Folded(t, recap).start)
        BY <1>4, FoldedIs
    <2> DEFINE d == Folded(t, recap)
    <2>2. StageOk(d) /\ NoLaterCut(d.start)
        BY <2>1
    <2> HIDE DEF d
    <2>3. /\ StageOk(Truncated(d)) /\ Truncated(d).start = d.start
          /\ OverTokens(Truncated(d).l) => Large(Truncated(d).l) = {}
        BY <2>2, TruncatedIs
    <2> QED
        BY <2>2, <2>3 DEF d
<1> HIDE DEF o, t, c
<1>6. Good(last)
    <2> HIDE DEF Good, Fits
    <2> QED
        BY <1>2, <1>3, <1>4, <1>5
<1> HIDE DEF last
<1>7. over \in BOOLEAN
    BY DEF OverTokens
<1>8. last \in Stages /\ last.m \in Memos
    BY <1>6 DEF StageOk, Stages
<1> HIDE DEF over
<1>9. /\ r \in Stages /\ r.m.overflowed = over /\ r.m.upto = last.m.upto /\ r.m.text = last.m.text
      /\ r.m.dropped = last.m.dropped /\ r.l = last.l /\ r.start = last.start /\ r.cutoff = last.cutoff
      /\ r.f = last.f
    BY <1>7, <1>8 DEF Stages, Memos
<1> HIDE DEF r
<1>10. StageOk(r)
    BY <1>6, <1>9 DEF StageOk
<1>11. OverTokens(r.l) => r.m.overflowed /\ Large(r.l) = {}
    BY <1>6, <1>9 DEF over
<1> QED
    BY <1>1, <1>6, <1>9, <1>10, <1>11

-----------------------------------------------------------------------------
(* What a request is.                                                      *)

\* A seam is a message of the user that makes no calls.
LEMMA SeamIsUser == ASSUME NEW l PROVE Seam(l).role = "user" /\ Seam(l).calls = <<>>
BY DEF Seam

\* A view is the head, whatever was merged into it, and the messages after a clean cut.
LEMMA ViewShape ==
    ASSUME CompType, HistoryInv, NEW p, StageOk(p)
    PROVE  LET s == View(p.l) IN
           \E c \in 2 .. Len(history) :
             /\ Clean(history, c) /\ Len(s) = 2 + (Len(history) - c)
             /\ s[1].role = "system" /\ s[1].calls = <<>> /\ s[2].role = "user" /\ s[2].calls = <<>>
             /\ \A k \in 3 .. Len(s) : Alike(s[k], history[k + (c - 2)])
<1> DEFINE l == p.l
           n == Len(history)
           start == p.start
           Shaped2(s, c) ==
             /\ Clean(history, c) /\ Len(s) = 2 + (n - c)
             /\ s[1].role = "system" /\ s[1].calls = <<>> /\ s[2].role = "user" /\ s[2].calls = <<>>
             /\ \A k \in 3 .. Len(s) : Alike(s[k], history[k + (c - 2)])
<1>1. /\ history \in Seq(Msg) /\ n \in Nat /\ l \in Layouts /\ start \in Nat /\ 2 <= start /\ start <= n
      /\ Dialogue(history) /\ Clean(history, start)
    BY DEF CompType, HistoryInv, StageOk, Stages
<1>2. l.head \in Seq(Msg) /\ l.tail \in Seq(Msg) /\ Len(l.head) = 2 /\ Len(l.tail) = n - start
    BY <1>1, LayoutParts DEF StageOk, Shows
<1>3. \A k \in 1 .. n - start : Alike(l.tail[k], history[start + k])
    BY DEF StageOk, Shows
<1>4. /\ l.head[1].role = "system" /\ l.head[1].calls = <<>>
      /\ l.head[2].role = "user" /\ l.head[2].calls = <<>>
    <2>1. /\ history[1].role = "system" /\ history[2].role = "user"
          /\ history[1].calls = <<>> /\ history[2].calls = <<>>
        <3>1. 1 \in 1 .. n /\ 2 \in 1 .. n
            BY <1>1
        <3> QED
            BY <1>1, <3>1 DEF Dialogue, InPlace
    <2> QED
        BY <2>1 DEF StageOk, Shows, Alike
<1> HIDE DEF l, n, start
<1>5. CASE l.text = 0 /\ l.omitted = 0
    <2> DEFINE s == l.head \o l.tail
    <2>1. View(l) = s
        BY <1>5 DEF View
    <2>2. /\ Len(s) = 2 + (n - start)
          /\ \A k \in 1 .. 2 + (n - start) : s[k] = IF k <= 2 THEN l.head[k] ELSE l.tail[k - 2]
        <3>1. /\ Len(s) = Len(l.head) + Len(l.tail)
              /\ \A k \in 1 .. Len(l.head) + Len(l.tail) :
                    s[k] = IF k <= Len(l.head) THEN l.head[k] ELSE l.tail[k - Len(l.head)]
            BY <1>2, ConcatProperties
        <3> QED
            BY <1>2, <3>1
    <2> HIDE DEF s
    <2>3. s[1] = l.head[1] /\ s[2] = l.head[2]
        BY <1>1, <2>2
    <2>4. ASSUME NEW k \in 3 .. 2 + (n - start) PROVE Alike(s[k], history[k + (start - 2)])
        <3>1. k - 2 \in 1 .. n - start /\ start + (k - 2) = k + (start - 2) /\ s[k] = l.tail[k - 2]
            BY <1>1, <2>2
        <3> QED
            BY <1>3, <3>1
    <2>5. Shaped2(s, start)
        BY <1>1, <1>4, <2>2, <2>3, <2>4 DEF n
    <2>6. start \in 2 .. n
        BY <1>1
    <2> QED
        BY <2>1, <2>5, <2>6 DEF l, n
<1>6. CASE ~(l.text = 0 /\ l.omitted = 0)
    <2> DEFINE meets == l.tail # <<>> /\ Head(l.tail).role = "user"
               after == IF meets THEN Tail(l.tail) ELSE l.tail
               e == IF meets THEN 1 ELSE 0
               c == start + e
               first == Front(l.head) \o <<Seam(l)>>
               s == first \o after
    <2>1. View(l) = s
        <3>1. l.head # <<>> /\ Last(l.head).role = "user"
            BY <1>2, <1>4 DEF Last
        <3> QED
            BY <1>6, <3>1 DEF View
    <2>2. first \in Seq(Msg \cup {Seam(l)}) /\ Len(first) = 2 /\ first[1] = l.head[1] /\ first[2] = Seam(l)
        <3> DEFINE h == l.head
                   y == Seam(l)
                   f == Front(h)
        <3>1. h \in Seq(Msg) /\ Len(h) = 2
            BY <1>2
        <3> HIDE DEF h, y
        <3>2. f \in Seq(Msg) /\ Len(f) = 1 /\ f[1] = h[1]
            BY <3>1 DEF Front
        <3> HIDE DEF f
        <3> DEFINE M == Msg \cup {y}
                   g == <<y>>
        <3>3. f \in Seq(M) /\ g \in Seq(M) /\ Len(g) = 1 /\ g[1] = y
            BY <3>2
        <3> HIDE DEF g, M
        <3>4. /\ f \o g \in Seq(M) /\ Len(f \o g) = Len(f) + Len(g)
              /\ \A k \in 1 .. Len(f) + Len(g) : (f \o g)[k] = IF k <= Len(f) THEN f[k] ELSE g[k - Len(f)]
            BY <3>3, ConcatProperties
        <3>5. f \o g \in Seq(M) /\ Len(f \o g) = 2 /\ (f \o g)[1] = h[1] /\ (f \o g)[2] = y
            BY <3>2, <3>3, <3>4
        <3> QED
            BY <3>5 DEF f, g, h, y, M
    <2> HIDE DEF first
    <2>3. /\ e \in {0, 1} /\ after \in Seq(Msg) /\ Len(after) = (n - start) - e
          /\ \A k \in 1 .. (n - start) - e : after[k] = l.tail[k + e]
          /\ e = 1 => n - start >= 1 /\ l.tail[1].role = "user"
        BY <1>1, <1>2
    <2> HIDE DEF meets, after, e
    <2>4. /\ c \in 2 .. n /\ (n - start) - e = n - c /\ n - c \in Nat
          /\ \A k \in Int : start + (k + e) = c + k
        <3>1. e \in {0, 1} /\ (e = 1 => n - start >= 1)
            BY <2>3
        <3>2. CASE e = 0
            BY <1>1, <3>2
        <3>3. CASE e = 1
            BY <1>1, <3>1, <3>3
        <3> QED
            BY <3>1, <3>2, <3>3
    <2>5. Clean(history, c)
        <3>1. CASE e = 0
            BY <1>1, <3>1
        <3>2. CASE e = 1
            <4>1. 1 \in 1 .. n - start /\ c \in 1 .. n /\ c = start + 1
                BY <1>1, <2>3, <3>2
            <4>2. history[c].role = "user"
                BY <1>3, <2>3, <3>2, <4>1 DEF Alike
            <4>3. history[c].calls = <<>>
                BY <1>1, <4>1, <4>2 DEF Dialogue, InPlace, n
            <4> QED
                BY <1>1, <4>1, <4>2, <4>3, CleanAfter DEF n
        <3> QED
            BY <2>3, <3>1, <3>2
    <2>6. \A k \in 1 .. n - c : Alike(after[k], history[c + k])
        <3> TAKE k \in 1 .. n - c
        <3>1. after[k] = l.tail[k + e] /\ k + e \in 1 .. n - start /\ start + (k + e) = c + k
            BY <1>1, <2>3, <2>4
        <3> QED
            BY <1>3, <3>1
    <2>7. after \in Seq(Msg) /\ Len(after) = n - c
        BY <2>3, <2>4
    <2> HIDE DEF c
    <2>8. /\ Len(s) = 2 + (n - c) /\ s[1] = l.head[1] /\ s[2] = Seam(l)
          /\ \A k \in 3 .. 2 + (n - c) : s[k] = after[k - 2]
        <3> DEFINE d == n - c
                   M == Msg \cup {Seam(l)}
        <3>1. first \in Seq(M) /\ after \in Seq(M) /\ Len(after) = d /\ d \in Nat
            BY <2>4, <2>7, <2>2
        <3> HIDE DEF d, M
        <3>2. /\ Len(s) = Len(first) + Len(after)
              /\ \A k \in 1 .. Len(first) + Len(after) :
                    s[k] = IF k <= Len(first) THEN first[k] ELSE after[k - Len(first)]
            BY <3>1, ConcatProperties
        <3>3. /\ Len(s) = 2 + d /\ s[1] = first[1] /\ s[2] = first[2]
              /\ \A k \in 3 .. 2 + d : s[k] = after[k - 2]
            BY <2>2, <3>1, <3>2
        <3> QED
            BY <2>2, <3>3 DEF d
    <2> HIDE DEF s
    <2>9. ASSUME NEW k \in 3 .. 2 + (n - c) PROVE Alike(s[k], history[k + (c - 2)])
        <3>1. k - 2 \in 1 .. n - c /\ c + (k - 2) = k + (c - 2) /\ s[k] = after[k - 2]
            BY <1>1, <2>4, <2>8
        <3> QED
            BY <2>6, <3>1
    <2>10. Shaped2(s, c)
        BY <1>4, <2>5, <2>8, <2>9, SeamIsUser DEF n
    <2>11. c \in 2 .. n
        BY <2>4
    <2> QED
        BY <2>1, <2>10, <2>11 DEF l, n
<1> QED
    BY <1>5, <1>6

\* A request is a complete conversation when the history is.
LEMMA ViewIsComplete ==
    ASSUME CompType, HistoryInv, history[Len(history)].role \in {"user", "tool"}, NEW p, StageOk(p)
    PROVE  View(p.l) \in Seq(Msg) /\ Complete(View(p.l))
<1> DEFINE s == View(p.l)
<1>1. s \in Seq(Msg) /\ history \in Seq(Msg) /\ Complete(history)
    BY ViewIs DEF CompType, HistoryInv, StageOk, Stages, Complete
<1>2. \E c \in 2 .. Len(history) :
        /\ Clean(history, c) /\ Len(s) = 2 + (Len(history) - c)
        /\ s[1].role = "system" /\ s[1].calls = <<>> /\ s[2].role = "user" /\ s[2].calls = <<>>
        /\ \A k \in 3 .. Len(s) : Alike(s[k], history[k + (c - 2)])
    BY ViewShape
<1> HIDE DEF s
<1>3. Complete(s)
    BY <1>1, <1>2, PartIsComplete
<1> QED
    BY <1>1, <1>3 DEF s

-----------------------------------------------------------------------------
(* The accounts.                                                           *)

\* A message of the history is told by its place, so a range of messages has as many
\* identities as messages, and two ranges share those of their common places.
LEMMA RangeIs ==
    ASSUME CompType, HistoryInv, NEW a \in Nat, NEW b \in Nat, a <= b, b <= Len(history)
    PROVE  /\ IsFiniteSet(Between(history, a, b)) /\ Cardinality(Between(history, a, b)) = b - a
           /\ \A k \in 1 .. Len(history) :
                /\ k \in (a + 1) .. b => history[k].uids \subseteq Between(history, a, b)
                /\ k \notin (a + 1) .. b => history[k].uids \cap Between(history, a, b) = {}
                /\ history[k].uids # {}
<1> DEFINE B == Between(history, a, b)
           I == (a + 1) .. b
           r == [k \in 1 .. Len(history) |-> CHOOSE x \in Nat : history[k].uids = {<<k, x>>}]
           F == [k \in I |-> <<k, r[k]>>]
<1>1. Len(history) \in Nat /\ I \subseteq 1 .. Len(history)
    BY DEF CompType
<1>2. ASSUME NEW k \in 1 .. Len(history) PROVE history[k].uids = {<<k, r[k]>>}
    <2>1. \E x \in Nat : history[k].uids = {<<k, x>>}
        BY DEF HistoryInv
    <2> QED
        BY <2>1
<1> HIDE DEF r
<1>3. B = {<<k, r[k]>> : k \in I}
    <2>1. \A k \in I : history[k].uids = {<<k, r[k]>>}
        BY <1>1, <1>2
    <2>2. B = UNION {history[k].uids : k \in I}
        BY DEF Between
    <2> HIDE DEF I, B
    <2>3. ASSUME NEW u \in B PROVE u \in {<<k, r[k]>> : k \in I}
        BY <2>1, <2>2
    <2>4. ASSUME NEW k \in I PROVE <<k, r[k]>> \in B
        BY <2>1, <2>2
    <2> QED
        BY <2>3, <2>4
<1> HIDE DEF B
<1>4. F \in Bijection(I, B)
    <2>1. F \in [I -> B]
        <3> HIDE DEF I
        <3> QED
            BY <1>3
    <2>2. \A i, j \in I : F[i] = F[j] => i = j
        <3> HIDE DEF I
        <3> QED
            OBVIOUS
    <2>3. \A u \in B : \E i \in I : F[i] = u
        <3> HIDE DEF I
        <3> QED
            BY <1>3
    <2> HIDE DEF F, I
    <2> QED
        BY <2>1, <2>2, <2>3, Fun_IsBij
<1>5. IsFiniteSet(I) /\ Cardinality(I) = b - a
    <2>1. IsFiniteSet(I) /\ Cardinality(I) = IF a + 1 > b THEN 0 ELSE b - (a + 1) + 1
        BY FS_Interval
    <2> QED
        BY <2>1
<1>6. IsFiniteSet(B) /\ Cardinality(B) = b - a
    <2> HIDE DEF F, I
    <2>1. ExistsBijection(I, B)
        BY <1>4, Fun_ExistsBij
    <2> QED
        BY <1>5, <2>1, FS_Bijection
<1>7. ASSUME NEW k \in 1 .. Len(history)
      PROVE  /\ k \in I => history[k].uids \subseteq B
             /\ k \notin I => history[k].uids \cap B = {}
             /\ history[k].uids # {}
    <2>1. history[k].uids = {<<k, r[k]>>}
        BY <1>2
    <2> HIDE DEF I
    <2>2. k \in I <=> <<k, r[k]>> \in B
        BY <1>3
    <2> QED
        BY <2>1, <2>2
<1> QED
    BY <1>6, <1>7 DEF B

HiddenFrom(shown) ==
    UNION {history[k].uids : k \in {k \in DOMAIN history : ~(history[k].uids \subseteq shown)}}

\* What such a view hides is folded into the recap, or is counted.
LEMMA AccountsAre ==
    ASSUME CompType, HistoryInv, NEW p, StageOk(p)
    PROVE  LET hidden == HiddenFrom(Uids(View(p.l))) IN
           /\ Cardinality(hidden \ p.f) = p.l.omitted
           /\ hidden \cap p.f # {} => p.l.text > 0
           /\ p.f \subseteq UNION {history[k].uids : k \in DOMAIN history}
<1> DEFINE n == Len(history)
           shown == Uids(View(p.l))
           hidden == HiddenFrom(shown)
           B(a, b) == Between(history, a, b)
           c == p.cutoff
           s == p.start
<1>1. /\ history \in Seq(Msg) /\ n \in Nat /\ n >= 2 /\ DOMAIN history = 1 .. n
      /\ p.l \in Layouts /\ c \in Nat /\ s \in Nat /\ 2 <= c /\ c <= s /\ s <= n
      /\ p.f = B(2, c) /\ p.l.omitted = s - c
    BY DEF CompType, StageOk, Stages
<1>2. Uids(p.l.head) = B(0, 2)
    <2>1. DOMAIN p.l.head = 1 .. 2 /\ p.l.head[1].uids = history[1].uids /\ p.l.head[2].uids = history[2].uids
        BY <1>1, LayoutParts DEF StageOk, Shows, Alike
    <2>2. 1 .. 2 = {1, 2} /\ (0 + 1) .. 2 = {1, 2}
        OBVIOUS
    <2>3. Uids(p.l.head) = history[1].uids \cup history[2].uids
        BY <2>1, <2>2 DEF Uids
    <2>4. B(0, 2) = history[1].uids \cup history[2].uids
        BY <2>2 DEF Between
    <2> QED
        BY <2>3, <2>4
<1>3. Uids(p.l.tail) = B(s, n)
    <2> DEFINE t == p.l.tail
    <2>1. DOMAIN t = 1 .. (n - s) /\ \A k \in 1 .. (n - s) : t[k].uids = history[s + k].uids
        BY <1>1, LayoutParts DEF StageOk, Shows, Alike
    <2> HIDE DEF t
    <2>2. ASSUME NEW k \in DOMAIN t PROVE t[k].uids \subseteq B(s, n)
        <3>1. s + k \in (s + 1) .. n /\ t[k].uids = history[s + k].uids
            BY <1>1, <2>1
        <3> QED
            BY <3>1 DEF Between
    <2>3. ASSUME NEW k \in (s + 1) .. n PROVE history[k].uids \subseteq Uids(t)
        <3>1. k - s \in DOMAIN t /\ s + (k - s) = k
            BY <1>1, <2>1
        <3>2. t[k - s].uids = history[k].uids
            BY <2>1, <3>1
        <3> QED
            BY <3>1, <3>2 DEF Uids
    <2>4. Uids(t) = B(s, n)
        BY <2>2, <2>3 DEF Uids, Between
    <2> QED
        BY <2>4 DEF t
<1>4. shown = B(0, 2) \cup B(s, n)
    BY <1>1, <1>2, <1>3, ViewIs
<1> HIDE DEF shown, n
<1>5. ASSUME NEW k \in 1 .. n
      PROVE  /\ k \in (2 + 1) .. s <=> ~(history[k].uids \subseteq shown)
             /\ history[k].uids # {}
    <2>1. /\ k \in (0 + 1) .. 2 => history[k].uids \subseteq B(0, 2)
          /\ k \notin (0 + 1) .. 2 => history[k].uids \cap B(0, 2) = {}
          /\ history[k].uids # {}
        BY <1>1, RangeIs DEF n
    <2>2. /\ k \in (s + 1) .. n => history[k].uids \subseteq B(s, n)
          /\ k \notin (s + 1) .. n => history[k].uids \cap B(s, n) = {}
        <3>1. s \in Nat /\ n \in Nat /\ s <= n /\ n <= Len(history) /\ k \in 1 .. Len(history)
            BY <1>1 DEF n
        <3>2. \A b \in Nat : s <= b /\ b <= Len(history) =>
                /\ k \in (s + 1) .. b => history[k].uids \subseteq B(s, b)
                /\ k \notin (s + 1) .. b => history[k].uids \cap B(s, b) = {}
            BY <3>1, RangeIs
        <3> QED
            BY <3>1, <3>2
    <2>3. k \in (2 + 1) .. s <=> ~(k \in (0 + 1) .. 2) /\ ~(k \in (s + 1) .. n)
        BY <1>1
    <2> HIDE DEF B
    <2> QED
        BY <1>4, <2>1, <2>2, <2>3
<1>6. hidden = B(2, s)
    <2>1. {k \in DOMAIN history : ~(history[k].uids \subseteq shown)} = (2 + 1) .. s
        <3>1. \A k \in (2 + 1) .. s : k \in 1 .. n
            BY <1>1
        <3> QED
            BY <1>1, <1>5, <3>1
    <2> QED
        BY <2>1 DEF HiddenFrom, Between
<1>7. B(2, s) = B(2, c) \cup B(c, s)
    BY <1>1, BetweenMeets
<1>8. B(2, c) \cap B(c, s) = {}
    <2>1. ASSUME NEW k \in (2 + 1) .. c PROVE history[k].uids \cap B(c, s) = {}
        <3>1. k \in 1 .. n /\ k \notin (c + 1) .. s
            BY <1>1
        <3> QED
            BY <1>1, <3>1, RangeIs DEF n
    <2>2. B(2, c) = UNION {history[k].uids : k \in (2 + 1) .. c}
        BY DEF Between
    <2> HIDE DEF B
    <2> QED
        BY <2>1, <2>2
<1>9. Cardinality(B(c, s)) = s - c
    BY <1>1, RangeIs DEF n
<1>10. Cardinality(hidden \ p.f) = p.l.omitted
    <2> HIDE DEF hidden, B
    <2>1. hidden \ p.f = B(c, s)
        BY <1>1, <1>6, <1>7, <1>8
    <2> QED
        BY <1>1, <1>9, <2>1
<1>11. ASSUME hidden \cap p.f # {} PROVE p.l.text > 0
    <2>1. B(2, 2) = {}
        BY DEF Between
    <2>2. c # 2
        <3> HIDE DEF hidden, B
        <3> QED
            BY <1>1, <1>11, <2>1
    <2> QED
        BY <2>2 DEF StageOk
<1>12. p.f \subseteq UNION {history[k].uids : k \in DOMAIN history}
    <2>1. \A k \in (2 + 1) .. c : k \in DOMAIN history
        BY <1>1
    <2> QED
        BY <1>1, <2>1 DEF Between
<1> QED
    BY <1>10, <1>11, <1>12 DEF shown

-----------------------------------------------------------------------------
(* The inductive invariant.                                                *)

\* The place of a new message is a number.
LEMMA PlaceIs ==
    ASSUME CompType, NEW k \in Nat
    PROVE  /\ Len(history) + k \in Nat /\ rewinds \in Nat
           /\ {<<Len(history) + k, rewinds>>} \in SUBSET (Nat \X Nat)
BY DEF CompType

\* The message at k of ms knows its place behind the history.
Placed(ms, k) == \E r \in Nat : ms[k].uids = {<<Len(history) + k, r>>}

\* A conversation that grows by such messages stays a history, with its recap and cuts.
LEMMA Grown ==
    ASSUME CompType, HistoryInv, MemoInv, ~Stale, NEW ms \in Seq(Msg), \A k \in 1 .. Len(ms) : Placed(ms, k),
           Dialogue(history \o ms), history' = history \o ms, memo' = memo, folded' = folded
    PROVE  history' \in Seq(Msg) /\ Len(history') >= 2 /\ HistoryInv' /\ MemoInv'
<1> DEFINE n == Len(history)
           h == history \o ms
<1>1. history \in Seq(Msg) /\ n \in Nat /\ Len(ms) \in Nat /\ n >= 2
    BY DEF CompType
<1>2. /\ h \in Seq(Msg) /\ Len(h) = n + Len(ms)
      /\ \A k \in 1 .. n + Len(ms) : h[k] = IF k <= n THEN history[k] ELSE ms[k - n]
    BY <1>1, ConcatProperties
<1>3. \A k \in 1 .. n : h[k] = history[k]
    BY <1>1, <1>2
<1>4. ASSUME NEW k \in 1 .. Len(h), k > n PROVE h[k] = ms[k - n] /\ Placed(ms, k - n) /\ n + (k - n) = k
    <2>1. k - n \in 1 .. Len(ms)
        BY <1>1, <1>2, <1>4
    <2> QED
        BY <1>1, <1>2, <1>4, <2>1
<1> HIDE DEF h
<1>5. history' = h
    BY DEF h
<1>6. Dialogue(h)
    BY DEF h
<1>7. ASSUME NEW k \in 1 .. Len(h) PROVE \E r \in Nat : h[k].uids = {<<k, r>>}
    <2>1. CASE k <= n
        <3>1. k \in 1 .. n /\ h[k] = history[k]
            BY <1>1, <1>3, <2>1
        <3> QED
            BY <3>1 DEF HistoryInv
    <2>2. CASE k > n
        BY <1>4, <2>2 DEF Placed
    <2>3. k <= n \/ k > n
        BY <1>1
    <2> HIDE DEF n
    <2> QED
        BY <2>1, <2>2, <2>3, Zenon
<1>8. HistoryInv'
    BY <1>5, <1>6, <1>7 DEF HistoryInv
<1>9. /\ memo.upto \in Nat /\ memo.dropped \in Nat /\ memo.upto <= n /\ memo.dropped <= n
    BY <1>1 DEF CompType, Memos, Stale
<1>10. Between(h, 2, memo.upto) = Between(history, 2, memo.upto)
    <2>1. \A k \in (2 + 1) .. memo.upto : h[k].uids = history[k].uids
        BY <1>1, <1>3, <1>9, SMTT(30)
    <2> QED
        BY <2>1 DEF Between
<1>11. MemoInv'
    <2>1. ~Stale'
        BY <1>1, <1>2, <1>5, <1>9 DEF Stale
    <2>2. folded' = Between(history', 2, memo'.upto)
        BY <1>5, <1>10 DEF MemoInv
    <2>3. memo'.upto = 0 \/ (memo'.upto > 2 /\ memo'.text > 0)
        BY DEF MemoInv
    <2>4. ASSUME NEW c \in Nat, OpenCut(c) PROVE c = 0 \/ (c < Len(h) /\ h[c + 1].role # "tool")
        BY <1>1, <1>2, <1>3, <2>4 DEF OpenCut
    <2>5. /\ memo'.upto = 0 \/ (memo'.upto < Len(history') /\ history'[memo'.upto + 1].role # "tool")
          /\ memo'.dropped = 0 \/ (memo'.dropped < Len(history') /\ history'[memo'.dropped + 1].role # "tool")
        BY <1>5, <1>9, <2>4 DEF MemoInv
    <2> QED
        BY <2>1, <2>2, <2>3, <2>5 DEF MemoInv, Between, OpenCut
<1> QED
    BY <1>1, <1>2, <1>5, <1>8, <1>11

\* One message is appended as a list of it is.
LEMMA GrownByOne ==
    ASSUME CompType, HistoryInv, MemoInv, ~Stale, NEW m \in Msg, Dialogue(Append(history, m)),
           \E r \in Nat : m.uids = {<<Len(history) + 1, r>>},
           history' = Append(history, m), memo' = memo, folded' = folded
    PROVE  history' \in Seq(Msg) /\ Len(history') >= 2 /\ HistoryInv' /\ MemoInv'
<1>1. <<m>> \in Seq(Msg) /\ Len(<<m>>) = 1 /\ <<m>>[1] = m
    OBVIOUS
<1>2. history \in Seq(Msg)
    BY DEF CompType
<1>3. history' = history \o <<m>>
    BY <1>1, <1>2
<1>4. \A k \in 1 .. Len(<<m>>) : Placed(<<m>>, k)
    BY <1>1 DEF Placed
<1> QED
    BY <1>1, <1>3, <1>4, Grown

\* It holds in the initial states.
LEMMA CompInitInv == CompInit => CompInv
<1> SUFFICES ASSUME CompInit PROVE CompInv
    OBVIOUS
<1>1. PICK s \in Sizes :
        history = <<[role |-> "system", size |-> 1, text |-> TRUE, calls |-> <<>>, of |-> <<>>, uids |-> {<<1, 0>>}],
                    [role |-> "user", size |-> s, text |-> TRUE, calls |-> <<>>, of |-> <<>>, uids |-> {<<2, 0>>}]>>
    BY DEF CompInit
<1>2. s \in Nat
    BY CompactionAssumption
<1>3. memo = Fresh /\ shift = 0 /\ phase = "ready" /\ layout = NoLayout /\ rewinds = 0 /\ folded = {}
    BY DEF CompInit
<1> DEFINE m1 == [role |-> "system", size |-> 1, text |-> TRUE, calls |-> <<>>, of |-> <<>>, uids |-> {<<1, 0>>}]
           m2 == [role |-> "user", size |-> s, text |-> TRUE, calls |-> <<>>, of |-> <<>>, uids |-> {<<2, 0>>}]
<1>4. m1 \in Msg /\ m2 \in Msg
    BY <1>2 DEF Msg, CallLists, Answers
<1>5. /\ m1.role = "system" /\ m1.calls = <<>> /\ m1.uids = {<<1, 0>>}
      /\ m2.role = "user" /\ m2.calls = <<>> /\ m2.uids = {<<2, 0>>}
    OBVIOUS
<1> HIDE DEF m1, m2
<1>6. history \in Seq(Msg) /\ Len(history) = 2 /\ history[1] = m1 /\ history[2] = m2
    BY <1>1, <1>4 DEF m1, m2
<1>7. CompType
    BY <1>3, <1>6 DEF CompType, Fresh, Memos, NoLayout, Layouts
<1>8. HistoryInv
    <2>1. 1 .. 2 = {1, 2} /\ 2 .. 2 = {2}
        OBVIOUS
    <2>2. ASSUME NEW k \in 1 .. 2, NEW p \in 1 .. 2 PROVE ~CalledBy(history, k, p)
        <3>1. Len(history[p].calls) = 0
            BY <1>5, <1>6, <2>1
        <3> QED
            BY <3>1 DEF CalledBy
    <2>3. ASSUME NEW k \in 1 .. 2
          PROVE  /\ history[k].calls = <<>> /\ Len(history[k].calls) = 0 /\ history[k].role \in {"system", "user"}
                 /\ \A p \in 1 .. k : ~CalledBy(history, k, p)
        <3>1. k \in {1, 2} /\ \A p \in 1 .. k : p \in 1 .. 2
            BY <2>1
        <3> QED
            BY <1>5, <1>6, <2>2, <3>1
    <2>4. Dialogue(history)
        BY <1>5, <1>6, <2>1, <2>3 DEF Dialogue, InPlace
    <2> QED
        BY <1>5, <1>6, <2>1, <2>4 DEF HistoryInv
<1>9. MemoInv
    <2>1. memo.upto = 0 /\ ~Stale
        BY <1>3, <1>6 DEF Fresh, Stale
    <2>2. Between(history, 2, 0) = {}
        BY DEF Between
    <2>3. OpenCut(memo.upto) /\ OpenCut(memo.dropped)
        BY <1>3 DEF Fresh, OpenCut
    <2> QED
        BY <1>3, <2>1, <2>2, <2>3 DEF MemoInv
<1>10. RequestInv /\ BudgetKept /\ HiddenAccountedFor /\ RequestsWellFormed
    BY <1>3 DEF RequestInv, BudgetKept, HiddenAccountedFor, RequestsWellFormed
<1> QED
    BY <1>7, <1>8, <1>9, <1>10 DEF CompInv

\* Between two requests nothing is promised of them.
LEMMA Idle ==
    ASSUME phase' = "ready"
    PROVE  RequestInv' /\ BudgetKept' /\ HiddenAccountedFor' /\ RequestsWellFormed'
BY DEF RequestInv, BudgetKept, HiddenAccountedFor, RequestsWellFormed

\* The last message of a history.
LEMMA LastIs ==
    ASSUME CompType, HistoryInv
    PROVE  /\ history \in Seq(Msg) /\ history # <<>> /\ Last(history) = history[Len(history)] /\ Dialogue(history)
           /\ history[Len(history)].role \in {"user", "tool"} => history[Len(history)].calls = <<>>
<1>1. /\ history \in Seq(Msg) /\ history # <<>> /\ Last(history) = history[Len(history)] /\ Dialogue(history)
      /\ Len(history) \in 1 .. Len(history)
    BY DEF CompType, HistoryInv, Last
<1> QED
    BY <1>1 DEF Dialogue, InPlace

\* A user message is appended once the last cut is checked.
LEMMA UserTurnInv == ASSUME CompInv, NEW size \in Sizes, UserTurn(size) PROVE CompInv'
<1> USE DEF CompInv
<1> DEFINE m == Message("user", size, TRUE, <<>>, <<>>, 1)
<1>1. size \in Nat /\ <<>> \in CallLists /\ <<>> \in Answers
    BY CompactionAssumption DEF CallLists, Answers
<1>2. m \in Msg /\ m.role = "user" /\ m.calls = <<>> /\ \E r \in Nat : m.uids = {<<Len(history) + 1, r>>}
    BY <1>1, PlaceIs DEF Message, Msg
<1>3. ~Stale
    <2>1. memo.upto \in Nat /\ memo.dropped \in Nat /\ Len(history) \in Nat
        BY DEF CompType, Memos
    <2>2. Max({memo.upto, memo.dropped}) = IF memo.upto >= memo.dropped THEN memo.upto ELSE memo.dropped
        BY <2>1, OfTwo
    <2> QED
        BY <2>1, <2>2 DEF UserTurn, Stale
<1> HIDE DEF m
<1>4. history' = Append(history, m) /\ memo' = memo /\ folded' = folded
    BY DEF UserTurn, m
<1>5. Dialogue(Append(history, m))
    BY <1>2, LastIs, GoesOn DEF UserTurn, Unanswered
<1>6. history' \in Seq(Msg) /\ Len(history') >= 2 /\ HistoryInv' /\ MemoInv'
    BY <1>2, <1>3, <1>4, <1>5, GrownByOne
<1>7. phase' = "ready" /\ CompType'
    BY <1>6 DEF UserTurn, CompType
<1> QED
    BY <1>6, <1>7, Idle

\* So is a reply, which process() precedes.
LEMMA RespondInv ==
    ASSUME CompInv, NEW size \in Sizes, NEW parts \in Replies, NEW gemini \in BOOLEAN, NEW drift \in Drifts,
           Respond(size, parts, gemini, drift)
    PROVE  CompInv'
<1> USE DEF CompInv
<1> DEFINE id == Len(history) + MaxHistory * rewinds
           calls == IF gemini THEN ParseGemini(parts) ELSE ParseWithIds(parts, id)
           text == "text" \in ToSet(parts)
           m == Message("assistant", size, text, calls, <<>>, 1)
<1>1. id \in Nat /\ size \in Nat /\ drift \in Int
    BY CompactionAssumption DEF CompType
<1>2. history' = Append(history, m) /\ memo' = memo /\ folded' = folded
    BY DEF Respond
<1> HIDE DEF id
<1>3. calls \in CallLists /\ <<>> \in Answers
    BY <1>1 DEF CallLists, Answers
<1> HIDE DEF calls
<1>4. text \in BOOLEAN
    OBVIOUS
<1> HIDE DEF text
<1>5. /\ m \in Msg /\ m.role = "assistant" /\ \E r \in Nat : m.uids = {<<Len(history) + 1, r>>}
    BY <1>1, <1>3, <1>4, PlaceIs DEF Message, Msg
<1> HIDE DEF m
<1>6. ~Stale
    BY DEF MemoInv, Respond
<1>7. Dialogue(Append(history, m))
    <2>1. history[Len(history)].role \in {"user", "tool"}
        BY DEF RequestInv, Respond
    <2> QED
        BY <1>5, <2>1, LastIs, GoesOn
<1>8. history' \in Seq(Msg) /\ Len(history') >= 2 /\ HistoryInv' /\ MemoInv'
    BY <1>2, <1>5, <1>6, <1>7, GrownByOne
<1>9. shift' \in Int /\ layout' = NoLayout /\ phase' = "ready" /\ rewinds' = rewinds
    BY <1>1 DEF Respond, CompType
<1>10. NoLayout \in Layouts
    BY DEF NoLayout, Layouts
<1>11. CompType'
    BY <1>2, <1>8, <1>9, <1>10 DEF CompType
<1> QED
    BY <1>8, <1>9, <1>11, Idle

\* So are the results of the calls of a reply, which no rewind leaves open.
LEMMA ToolResultsInv == ASSUME CompInv, NEW size \in Sizes, ToolResults(size) PROVE CompInv'
<1> USE DEF CompInv
<1> DEFINE calls == Last(history).calls
           Result(k) == Message("tool", IF k = 1 THEN size ELSE 1, TRUE, <<>>, calls[k], k)
           ms == [k \in DOMAIN calls |-> Result(k)]
<1>0. history \in Seq(Msg) /\ history # <<>>
    BY DEF CompType
<1>1. size \in Nat /\ <<>> \in CallLists
    BY CompactionAssumption DEF CallLists
<1>2. calls \in CallLists
    BY <1>0, Splits DEF Msg
<1>3. history' = history \o ms /\ memo' = memo /\ folded' = folded
    BY Zenon DEF ToolResults
<1>4. ~Stale
    BY DEF MemoInv, ToolResults, Unanswered
<1> HIDE DEF calls
<1>5. calls \in Seq(Answers) /\ DOMAIN calls = 1 .. Len(calls) /\ Len(calls) \in Nat
    BY <1>2, CallsAreLists
<1>6. ASSUME NEW k \in 1 .. Len(calls)
      PROVE  /\ Result(k) \in Msg /\ Result(k).role = "tool" /\ Result(k).calls = <<>>
             /\ Result(k).of = calls[k]
             /\ \E r \in Nat : Result(k).uids = {<<Len(history) + k, r>>}
    <2>1. calls[k] \in Answers /\ k \in Nat /\ (IF k = 1 THEN size ELSE 1) \in Nat
        BY <1>1, <1>5
    <2> QED
        BY <1>1, <2>1, PlaceIs DEF Message, Msg
<1> HIDE DEF Result
<1>7. ms \in Seq(Msg) /\ Len(ms) = Len(calls) /\ \A k \in 1 .. Len(calls) : ms[k] = Result(k)
    BY <1>5, <1>6
<1> HIDE DEF ms
<1>8. Dialogue(history \o ms)
    <2>1. calls = history[Len(history)].calls /\ calls # <<>>
        BY LastIs DEF calls, ToolResults, Unanswered
    <2>2. ms # <<>> /\ Len(ms) = Len(history[Len(history)].calls)
        BY <1>5, <1>7, <2>1
    <2>3. ASSUME NEW k \in 1 .. Len(ms)
          PROVE  ms[k].role = "tool" /\ ms[k].calls = <<>> /\ ms[k].of = history[Len(history)].calls[k]
        BY <1>6, <1>7, <2>1
    <2> QED
        BY <1>7, <2>2, <2>3, LastIs, IsAnswered
<1>9. \A k \in 1 .. Len(ms) : Placed(ms, k)
    <2> TAKE k \in 1 .. Len(ms)
    <2>1. k \in 1 .. Len(calls) /\ ms[k] = Result(k)
        BY <1>7
    <2> QED
        BY <1>6, <2>1 DEF Placed
<1>10. history' \in Seq(Msg) /\ Len(history') >= 2 /\ HistoryInv' /\ MemoInv'
    BY <1>3, <1>4, <1>7, <1>9, <1>8, Grown
<1>11. phase' = "ready" /\ CompType'
    BY <1>10 DEF ToolResults, CompType
<1> QED
    BY <1>10, <1>11, Idle

\* A history that is cut back makes the cuts stale, until process() drops them.
LEMMA RewindInv == ASSUME CompInv, NEW n \in 2 .. MaxHistory, Rewind(n) PROVE CompInv'
<1> USE DEF CompInv
<1>1. history \in Seq(Msg) /\ Len(history) \in Nat /\ n \in Nat /\ 2 <= n /\ n < Len(history)
    BY CompactionAssumption DEF CompType, Rewind
<1>2. history' = SubSeq(history, 1, n) /\ history[n].role = "user" /\ memo' = memo /\ phase' = "ready"
    BY DEF Rewind
<1>3. history' \in Seq(Msg) /\ Len(history') = n /\ \A k \in 1 .. n : history'[k] = history[k]
    BY <1>1, <1>2
<1>4. CompType'
    BY <1>1, <1>3 DEF CompType, Rewind
<1>5. HistoryInv'
    <2>1. Dialogue(history')
        BY <1>1, <1>2, LastIs, IsCutBack
    <2>2. \A k \in 1 .. n : k \in 1 .. Len(history)
        BY <1>1
    <2> QED
        BY <1>3, <2>1, <2>2 DEF HistoryInv
<1>6. MemoInv'
    <2>1. Stale'
        <3>1. memo.upto \in Nat /\ memo.dropped \in Nat
            BY DEF CompType, Memos
        <3>2. Max({memo.upto, memo.dropped}) = IF memo.upto >= memo.dropped THEN memo.upto ELSE memo.dropped
            BY <3>1, OfTwo
        <3>3. n < Max({memo.upto, memo.dropped})
            BY DEF Rewind
        <3>4. n < memo.upto \/ n < memo.dropped
            BY <3>2, <3>3
        <3> QED
            BY <1>1, <1>2, <1>3, <3>1, <3>4 DEF Stale
    <2>2. Last(history') = history[n]
        BY <1>1, <1>3 DEF Last
    <2>3. history[n].calls = <<>>
        BY <1>1, <1>2 DEF HistoryInv, Dialogue, InPlace
    <2>4. memo'.upto = 0 \/ (memo'.upto > 2 /\ memo'.text > 0)
        BY <1>2 DEF MemoInv
    <2> QED
        BY <1>2, <2>1, <2>2, <2>3, <2>4 DEF MemoInv
<1> QED
    BY <1>2, <1>4, <1>5, <1>6, Idle

\* A request that fails leaves the history and the recap.
LEMMA RequestFailsInv == ASSUME CompInv, RequestFails PROVE CompInv'
<1> USE DEF CompInv
<1>1. ~Stale
    BY DEF MemoInv, RequestFails
<1>2. /\ phase' = "ready" /\ layout' = NoLayout /\ history' = history /\ memo' = memo /\ shift' = shift
      /\ rewinds' = rewinds /\ folded' = folded
    BY DEF RequestFails
<1>3. CompType'
    BY <1>2 DEF CompType, NoLayout, Layouts
<1>4. HistoryInv' /\ MemoInv'
    BY <1>1, <1>2 DEF HistoryInv, MemoInv, Stale, Between, OpenCut
<1> QED
    BY <1>2, <1>3, <1>4, Idle

\* The limit of a recap is a number.
LEMMA LimitIs == SummaryLimit \in Nat
<1> DEFINE quarter == MaxTokens \div 4
           most == Max({quarter, 1})
<1>1. MaxTokens \in Nat /\ MaxSummary \in Nat
    BY CompactionAssumption
<1>2. quarter \in Nat
    BY <1>1
<1> HIDE DEF quarter
<1>3. most = IF quarter >= 1 THEN quarter ELSE 1
    BY <1>2, OfTwo
<1> HIDE DEF most
<1>4. most \in Nat
    BY <1>2, <1>3
<1>5. Min({MaxSummary, most}) = IF MaxSummary <= most THEN MaxSummary ELSE most
    BY <1>1, <1>4, OfTwo
<1> QED
    BY <1>1, <1>4, <1>5 DEF SummaryLimit, most, quarter

\* process() makes a request that keeps the budgets and accounts for what it hides.
LEMMA ProcessInv == ASSUME CompInv, NEW recap \in Nat, Process(recap) PROVE CompInv'
<1> USE DEF CompInv
<1> DEFINE p == Processed(recap)
<1>1. /\ StageOk(p) /\ NoLaterCut(p.start)
      /\ OverTokens(p.l) => p.m.overflowed /\ Large(p.l) = {}
    BY ProcessedIs
<1> HIDE DEF p
<1>2. /\ memo' = p.m /\ layout' = p.l /\ folded' = p.f /\ phase' = "sent"
      /\ history' = history /\ shift' = shift /\ rewinds' = rewinds
    BY DEF Process, p
<1>3. /\ p.m \in Memos /\ p.l \in Layouts /\ p.cutoff \in Nat /\ p.start \in Nat
      /\ p.l.tail \in Seq(Msg) /\ DOMAIN p.l.tail = 1 .. Len(p.l.tail)
      /\ Len(history) \in Nat /\ p.m.upto \in Nat /\ p.m.dropped \in Nat
    <2>1. /\ p.m \in Memos /\ p.l \in Layouts /\ p.cutoff \in Nat /\ p.start \in Nat /\ Len(history) \in Nat
        BY <1>1 DEF StageOk, Stages, CompType
    <2>2. p.l.tail \in Seq(Msg) /\ p.m.upto \in Nat /\ p.m.dropped \in Nat
        BY <2>1, LayoutParts DEF Memos
    <2> QED
        BY <2>1, <2>2
<1>4. CompType'
    BY <1>2, <1>3 DEF CompType
<1>5. HistoryInv'
    BY <1>2 DEF HistoryInv
<1>6. MemoInv'
    <2>1. p.m.upto <= Len(history) /\ p.m.dropped <= Len(history)
        BY <1>1, <1>3 DEF StageOk
    <2>2. ~Stale'
        BY <1>2, <1>3, <2>1 DEF Stale
    <2>3. p.m.upto = 0 \/ (p.m.upto > 2 /\ p.m.text > 0)
        BY <1>1 DEF StageOk
    <2>4. p.f = Between(history, 2, p.m.upto)
        <3>1. Between(history, 2, 2) = {} /\ Between(history, 2, 0) = {}
            BY DEF Between
        <3> QED
            BY <1>1, <3>1 DEF StageOk
    <2>5. folded' = Between(history', 2, memo'.upto)
        BY <1>2, <2>4
    <2>6. OpenCut(p.m.upto) /\ OpenCut(p.m.dropped)
        BY <1>1 DEF StageOk
    <2> QED
        BY <1>2, <2>2, <2>3, <2>5, <2>6 DEF MemoInv, Between, OpenCut
<1>7. BudgetKept'
    <2>1. OverTokens(layout)' <=> OverTokens(p.l)
        BY <1>2 DEF OverTokens, Estimate
    <2>2. Large(p.l) = {} => \A k \in DOMAIN p.l.tail : p.l.tail[k].size <= MinSize
        <3>1. \A k \in DOMAIN p.l.tail : p.l.tail[k].size \in Nat
            BY <1>3, Fields
        <3>2. MinSize \in Nat
            BY CompactionAssumption
        <3> QED
            BY <3>1, <3>2 DEF Large
    <2>3. Len(p.l.tail) = Len(history) - p.start
        BY <1>1 DEF StageOk, Shows
    <2>4. Len(p.l.tail) > MaxMessages =>
            \A d \in Len(history) - Len(p.l.tail) + 1 .. Len(history) - 1 : d \in BlockedCuts(history)
        <3>1. Len(history) - Len(p.l.tail) = p.start
            BY <1>3, <2>3
        <3> QED
            BY <1>1, <2>3, <3>1 DEF NoLaterCut
    <2>5. /\ OverTokens(layout)' => memo'.overflowed /\ \A k \in DOMAIN layout'.tail : layout'.tail[k].size <= MinSize
          /\ Len(layout'.tail) > MaxMessages =>
               \A d \in Len(history') - Len(layout'.tail) + 1 .. Len(history') - 1 : d \in BlockedCuts(history')
        BY <1>1, <1>2, <2>1, <2>2, <2>4
    <2> QED
        BY <2>5 DEF BudgetKept, BlockedCuts
<1>8. HiddenAccountedFor'
    <2> DEFINE hidden == HiddenFrom(Uids(View(p.l)))
    <2>1. /\ Cardinality(hidden \ p.f) = p.l.omitted
          /\ hidden \cap p.f # {} => p.l.text > 0
          /\ p.f \subseteq UNION {history[k].uids : k \in DOMAIN history}
        BY <1>1, AccountsAre
    <2>2. Hidden' = hidden
        <3>1. Sent' = View(p.l)
            BY <1>2 DEF Sent
        <3> QED
            BY <1>2, <3>1, SMT DEF Hidden, Shown, HiddenFrom, Uids
    <2> HIDE DEF hidden
    <2> QED
        BY <1>2, <2>1, <2>2 DEF HiddenAccountedFor
<1>9. history[Len(history)].role \in {"user", "tool"}
    BY LastIs DEF Process
<1>10. RequestsWellFormed'
    <2> DEFINE s == View(p.l)
    <2>1. Sent' = s
        BY <1>2 DEF Sent
    <2>2. s \in Seq(Msg) /\ Complete(s)
        BY <1>1, <1>9, ViewIsComplete
    <2> HIDE DEF s
    <2>3. /\ Alternating(ToMessages(s)) /\ Alternating(ToConverse(s)) /\ Alternating(ToContents(s))
          /\ Answered(ToChatMessages(s))
        BY <2>2, CompleteIsWellFormed
    <2> QED
        BY <2>1, <2>3 DEF RequestsWellFormed
<1> QED
    BY <1>2, <1>4, <1>5, <1>6, <1>7, <1>8, <1>9, <1>10 DEF RequestInv

\* Every step keeps it.
LEMMA CompNextInv == CompInv /\ [CompNext]_compVars => CompInv'
<1> SUFFICES ASSUME CompInv, [CompNext]_compVars PROVE CompInv'
    OBVIOUS
<1>1. CASE \E s \in Sizes : UserTurn(s) \/ ToolResults(s)
    BY <1>1, UserTurnInv, ToolResultsInv
<1>2. CASE \E r \in {0, 1, SummaryLimit} : Process(r)
    <2>1. \A r \in {0, 1, SummaryLimit} : r \in Nat
        BY LimitIs
    <2> QED
        BY <1>2, <2>1, ProcessInv
<1>3. CASE \E s \in Sizes, parts \in Replies, g \in BOOLEAN, d \in Drifts : Respond(s, parts, g, d)
    BY <1>3, RespondInv
<1>4. CASE RequestFails
    BY <1>4, RequestFailsInv
<1>5. CASE \E n \in 2 .. MaxHistory : Rewind(n)
    BY <1>5, RewindInv
<1>6. CASE UNCHANGED compVars
    <2>1. /\ phase' = phase /\ layout' = layout /\ history' = history /\ memo' = memo /\ shift' = shift
          /\ rewinds' = rewinds /\ folded' = folded
        BY <1>6 DEF compVars
    <2>2. CompType' /\ HistoryInv' /\ RequestInv' /\ MemoInv'
        BY <2>1 DEF CompInv, CompType, HistoryInv, RequestInv, MemoInv, Stale, Between, OpenCut
    <2>3. BudgetKept'
        BY <2>1 DEF CompInv, BudgetKept, OverTokens, Estimate
    <2>4. Hidden' = Hidden
        <3>1. Sent' = Sent
            BY <2>1 DEF Sent
        <3> QED
            BY <2>1, <3>1, SMT DEF Hidden, Shown
    <2>5. HiddenAccountedFor'
        BY <2>1, <2>4 DEF CompInv, HiddenAccountedFor
    <2>6. RequestsWellFormed'
        <3>1. Sent' = Sent
            BY <2>1 DEF Sent
        <3> QED
            BY <2>1, <3>1 DEF CompInv, RequestsWellFormed
    <2> QED
        BY <2>2, <2>3, <2>5, <2>6 DEF CompInv
<1> QED
    BY <1>1, <1>2, <1>3, <1>4, <1>5, <1>6 DEF CompNext

\* The inductive invariant holds of every conversation.
THEOREM CompInvariant == CompSpec => []CompInv
<1>1. CompInit => CompInv
    BY CompInitInv
<1>2. CompInv /\ [CompNext]_compVars => CompInv'
    BY CompNextInv
<1> QED
    BY <1>1, <1>2, PTL DEF CompSpec

\* A request is over the token budget only when nothing was left to cut, and over
\* the message budget only when no later cut was open.
THEOREM BudgetIsKept == CompSpec => []BudgetKept
<1>1. CompInv => BudgetKept
    BY DEF CompInv
<1> QED
    BY <1>1, CompInvariant, PTL

\* What a request hides was folded into the recap it shows, or is counted in its
\* note; and the recap is only of messages of the conversation.
THEOREM HiddenIsAccountedFor == CompSpec => []HiddenAccountedFor
<1>1. CompInv => HiddenAccountedFor
    BY DEF CompInv
<1> QED
    BY <1>1, CompInvariant, PTL

\* Every request is one its provider accepts, whichever that is, wherever the manager
\* cut the history and whatever the model called.
THEOREM RequestsAreWellFormed == CompSpec => []RequestsWellFormed
<1>1. CompInv => RequestsWellFormed
    BY DEF CompInv
<1> QED
    BY <1>1, CompInvariant, PTL
=============================================================================
