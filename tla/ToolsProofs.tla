------------------------------ MODULE ToolsProofs ------------------------------
(***************************************************************************)
(* Proofs about the built-in tools: the calls of the shell tool in one     *)
(* session, for any number of calls at once, however their commands,       *)
(* helpers, timeouts and interrupts interleave; the redirections of the    *)
(* commands that an allowlist accepts; the view of the file system that a  *)
(* sandbox gives a command, on any host; the edits and writes of a path,   *)
(* for any number of calls at once; the pages of a file that is read       *)
(* meanwhile; and what a search answers.                                   *)
(***************************************************************************)
EXTENDS ShellTool, Isolation, FileTools, SearchTools, FiniteSetTheorems, SequenceTheorems, WellFoundedInduction, TLAPS

-----------------------------------------------------------------------------
(* The calls of a session.                                                 *)

\* A call is a record; what it may hold as a directory is not restricted.
CallFields == {"phase", "ticket", "started", "before", "after", "end", "timedOut"}

ShellType ==
    /\ DOMAIN shell = ShellCalls /\ DOMAIN alive = ShellCalls
    /\ \A c \in ShellCalls :
          /\ DOMAIN shell[c] = CallFields
          /\ shell[c].ticket \in Nat /\ shell[c].timedOut \in BOOLEAN
    /\ seq \in Nat /\ cwdSeq \in Nat

\* cwd_seq is the ticket of the move that cwd comes from, and no move has a later one.
MovesInv ==
    /\ moves = {} => cwd = Root /\ cwdSeq = 0
    /\ moves # {} => <<cwdSeq, cwd>> \in moves
    /\ \A m \in moves : m[1] \in Nat /\ m[1] <= cwdSeq

\* A command always finds and leaves something in the variable.
VariableInv ==
    /\ env = assigned
    /\ \A c \in ShellCalls : shell[c].before # Keep /\ shell[c].after # Keep

\* What of the process group can be left, by how far the call is.
GroupInv ==
    \A c \in ShellCalls :
        /\ shell[c].phase \in {"new", "issued"} => alive[c] = {} /\ ~shell[c].timedOut
        /\ shell[c].timedOut \/ shell[c].phase \in {"draining", "raised"} => alive[c] \cap Group = {}
        /\ shell[c].phase = "exited" => "leader" \notin alive[c]
        /\ shell[c].phase \in {"collected", "returned"} => alive[c] \cap Group \cap Holders = {}

ShellInv == ShellType /\ MovesInv /\ VariableInv /\ GroupInv

\* Nothing has run at the start.
LEMMA ShellInvInit == ShellInit({"allowlist", "free", "argv"}) => ShellInv
<1> SUFFICES ASSUME ShellInit({"allowlist", "free", "argv"}) PROVE ShellInv
    OBVIOUS
<1>1. ShellType
    BY DEF ShellInit, ShellType, CallFields
<1>2. MovesInv
    BY DEF ShellInit, MovesInv
<1>3. VariableInv
    BY ShellAssumption DEF ShellInit, VariableInv, Seen
<1>4. GroupInv
    BY DEF ShellInit, GroupInv
<1>5. QED
    BY <1>1, <1>2, <1>3, <1>4 DEF ShellInv

\* A step of call c that does not touch the session: the invariant is kept when the
\* record and the processes of c are in order.
LEMMA LocalStep ==
    ASSUME ShellInv, NEW c \in ShellCalls,
           UNCHANGED session, seq' \in Nat,
           DOMAIN shell' = ShellCalls, DOMAIN alive' = ShellCalls,
           \A d \in ShellCalls \ {c} : shell'[d] = shell[d] /\ alive'[d] = alive[d],
           DOMAIN shell'[c] = CallFields, shell'[c].ticket \in Nat, shell'[c].timedOut \in BOOLEAN,
           shell'[c].before # Keep, shell'[c].after # Keep,
           shell'[c].phase \in {"new", "issued"} => alive'[c] = {} /\ ~shell'[c].timedOut,
           shell'[c].timedOut \/ shell'[c].phase \in {"draining", "raised"} => alive'[c] \cap Group = {},
           shell'[c].phase = "exited" => "leader" \notin alive'[c],
           shell'[c].phase \in {"collected", "returned"} => alive'[c] \cap Group \cap Holders = {}
    PROVE  ShellInv'
<1>1. UNCHANGED <<mode, cwd, env, cwdSeq, moves, assigned>>
    BY DEF session
<1>2. ShellType'
    BY <1>1 DEF ShellInv, ShellType
<1>3. MovesInv'
    BY <1>1 DEF ShellInv, MovesInv
<1>4. VariableInv'
    BY <1>1 DEF ShellInv, VariableInv
<1>5. GroupInv'
    <2> SUFFICES ASSUME NEW d \in ShellCalls
                 PROVE  (/\ shell[d].phase \in {"new", "issued"} => alive[d] = {} /\ ~shell[d].timedOut
                         /\ shell[d].timedOut \/ shell[d].phase \in {"draining", "raised"} => alive[d] \cap Group = {}
                         /\ shell[d].phase = "exited" => "leader" \notin alive[d]
                         /\ shell[d].phase \in {"collected", "returned"} => alive[d] \cap Group \cap Holders = {})'
        BY DEF GroupInv
    <2>1. CASE d = c
        BY <2>1
    <2>2. CASE d # c
        BY <2>2 DEF ShellInv, GroupInv
    <2>3. QED
        BY <2>1, <2>2
<1>6. QED
    BY <1>2, <1>3, <1>4, <1>5 DEF ShellInv

\* The call gets its ticket and is refused or started.
LEMMA StartSteps ==
    ASSUME ShellInv, NEW c \in ShellCalls, Issue(c) \/ Refuse(c) \/ Launch(c)
    PROVE  ShellInv'
<1> USE DEF CallFields
<1>1. /\ DOMAIN shell[c] = CallFields /\ DOMAIN shell = ShellCalls /\ DOMAIN alive = ShellCalls
      /\ shell[c].ticket \in Nat /\ shell[c].timedOut \in BOOLEAN /\ seq \in Nat
      /\ shell[c].before # Keep /\ shell[c].after # Keep
    BY DEF ShellInv, ShellType, VariableInv
<1>2. shell[c].phase \in {"new", "issued"} /\ alive[c] = {} /\ ~shell[c].timedOut
    BY DEF ShellInv, GroupInv, Issue, Refuse, Launch, Enter
<1>3. CASE Issue(c)
    <2>1. Seen(env) # Keep
        BY ShellAssumption DEF Seen
    <2>2. QED
        BY <1>1, <1>2, <1>3, <2>1, LocalStep DEF Issue
<1>4. CASE Refuse(c)
    BY <1>1, <1>2, <1>4, LocalStep DEF Refuse, Enter
<1>5. CASE Launch(c)
    <2>1. PICK effect \in Effects(shell[c].started), helpers \in SUBSET {"attached", "detached", "daemon"} :
            /\ shell' = [shell EXCEPT ![c].phase = "running", ![c].end = effect.end]
            /\ alive' = [alive EXCEPT ![c] = {"leader"} \cup helpers]
        BY <1>5 DEF Launch
    <2>2. QED
        BY <1>1, <1>2, <1>5, <2>1, LocalStep DEF Launch
<1>6. QED
    BY <1>3, <1>4, <1>5

\* The command runs, ends or is stopped, and its output is collected.
LEMMA CollectSteps ==
    ASSUME ShellInv, NEW c \in ShellCalls,
           \/ LeaderExits(c) \/ TimesOut(c) \/ OutputEnds(c) \/ Lingers(c) \/ Drained(c)
           \/ Interrupted(c) \/ \E h \in Holders \cup Group : HelperEnds(c, h)
    PROVE  ShellInv'
<1> USE DEF CallFields
<1>1. /\ DOMAIN shell[c] = CallFields /\ DOMAIN shell = ShellCalls /\ DOMAIN alive = ShellCalls
      /\ shell[c].ticket \in Nat /\ shell[c].timedOut \in BOOLEAN /\ seq \in Nat
      /\ shell[c].before # Keep /\ shell[c].after # Keep
    BY DEF ShellInv, ShellType, VariableInv
<1>2. /\ shell[c].phase \in {"new", "issued"} => alive[c] = {} /\ ~shell[c].timedOut
      /\ shell[c].timedOut \/ shell[c].phase \in {"draining", "raised"} => alive[c] \cap Group = {}
      /\ shell[c].phase = "exited" => "leader" \notin alive[c]
      /\ shell[c].phase \in {"collected", "returned"} => alive[c] \cap Group \cap Holders = {}
    BY DEF ShellInv, GroupInv
<1>3. \A got \in Trailers(c) : got.after # Keep
    BY <1>1, ShellAssumption DEF Trailers
<1>4. CASE LeaderExits(c)
    <2>1. PICK got \in Trailers(c) :
            shell' = [shell EXCEPT ![c].phase = "exited", ![c].end = got.end, ![c].after = got.after]
        BY <1>4 DEF LeaderExits
    <2>2. alive' = [alive EXCEPT ![c] = alive[c] \ {"leader"}] /\ UNCHANGED <<session, seq>>
        BY <1>4 DEF LeaderExits
    <2>3. shell[c].phase = "running"
        BY <1>4 DEF LeaderExits
    <2>4. QED
        BY <1>1, <1>2, <1>3, <2>1, <2>2, <2>3, LocalStep
<1>5. CASE TimesOut(c)
    <2>1. PICK got \in Trailers(c) :
            shell' = [shell EXCEPT ![c].phase = "draining", ![c].end = got.end,
                                   ![c].after = got.after, ![c].timedOut = TRUE]
        BY <1>5 DEF TimesOut
    <2>2. alive' = [alive EXCEPT ![c] = alive[c] \ Group] /\ UNCHANGED <<session, seq>>
        BY <1>5 DEF TimesOut, KillGroup
    <2>3. QED
        BY <1>1, <1>2, <1>3, <2>1, <2>2, LocalStep
<1>6. CASE OutputEnds(c)
    BY <1>1, <1>2, <1>6, LocalStep DEF OutputEnds, Enter
<1>7. CASE Lingers(c)
    BY <1>1, <1>2, <1>7, LocalStep DEF Lingers, Enter, KillGroup
<1>8. CASE Drained(c)
    BY <1>1, <1>2, <1>8, LocalStep DEF Drained, Enter
<1>9. CASE Interrupted(c)
    BY <1>1, <1>2, <1>9, LocalStep DEF Interrupted, KillGroup
<1>10. CASE \E h \in Holders \cup Group : HelperEnds(c, h)
    <2>1. PICK h : HelperEnds(c, h)
        BY <1>10
    <2>2. alive' = [alive EXCEPT ![c] = alive[c] \ {h}] /\ h \in alive[c]
          /\ UNCHANGED <<session, seq, shell>>
        BY <2>1 DEF HelperEnds
    <2>3. QED
        BY <1>1, <1>2, <2>2, LocalStep
<1>11. QED
    BY <1>4, <1>5, <1>6, <1>7, <1>8, <1>9, <1>10

\* The call applies the directory and the variable that its command ended with.
LEMMA ApplyStep ==
    ASSUME ShellInv, NEW c \in ShellCalls, Apply(c)
    PROVE  ShellInv'
<1> USE DEF CallFields
<1>1. /\ shell[c].phase = "collected" /\ shell' = [shell EXCEPT ![c].phase = "returned"]
      /\ UNCHANGED <<mode, seq, alive, strays>>
    BY DEF Apply, Enter
<1>2. \A d \in ShellCalls :
        /\ DOMAIN shell'[d] = CallFields
        /\ shell'[d].phase = IF d = c THEN "returned" ELSE shell[d].phase
        /\ shell'[d].ticket = shell[d].ticket /\ shell'[d].timedOut = shell[d].timedOut
        /\ shell'[d].before = shell[d].before /\ shell'[d].after = shell[d].after
    BY <1>1 DEF ShellInv, ShellType
<1>3. shell[c].ticket \in Nat /\ cwdSeq \in Nat
    BY DEF ShellInv, ShellType
<1>4. \/ UNCHANGED <<cwd, cwdSeq, moves>>
      \/ /\ moves' = moves \cup {<<shell[c].ticket, shell[c].end>>}
         /\ shell[c].ticket >= cwdSeq /\ cwd' = shell[c].end /\ cwdSeq' = shell[c].ticket
      \/ /\ moves' = moves \cup {<<shell[c].ticket, shell[c].end>>}
         /\ ~(shell[c].ticket >= cwdSeq) /\ UNCHANGED <<cwd, cwdSeq>>
    BY DEF Apply, Move
<1>5. ShellType'
    <2>1. cwdSeq' \in Nat
        BY <1>3, <1>4
    <2>2. DOMAIN shell' = ShellCalls
        BY <1>1 DEF ShellInv, ShellType
    <2>3. QED
        BY <1>1, <1>2, <2>1, <2>2 DEF ShellInv, ShellType
<1>6. MovesInv'
    BY <1>3, <1>4 DEF ShellInv, MovesInv
<1>7. VariableInv'
    <2>1. env' = assigned'
        BY DEF ShellInv, VariableInv, Apply, Merge, EnvChanges
    <2>2. QED
        BY <1>2, <2>1 DEF ShellInv, VariableInv
<1>8. GroupInv'
    BY <1>1, <1>2 DEF ShellInv, GroupInv
<1>9. QED
    BY <1>5, <1>6, <1>7, <1>8 DEF ShellInv

\* Every step of any call keeps the invariant.
LEMMA ShellInvStep == ShellInv /\ [ShellNext]_shellVars => ShellInv'
<1> SUFFICES ASSUME ShellInv, [ShellNext]_shellVars PROVE ShellInv'
    OBVIOUS
<1>1. CASE UNCHANGED shellVars
    BY <1>1 DEF shellVars, ShellInv, ShellType, MovesInv, VariableInv, GroupInv
<1>2. CASE ShellNext
    BY <1>2, StartSteps, CollectSteps, ApplyStep DEF ShellNext, ShellStep
<1>3. QED
    BY <1>1, <1>2

\* The last ticket among the moves is cwd_seq.
LEMMA LatestMove ==
    ASSUME ShellInv
    PROVE  SessionIsLatest
<1>1. CASE moves = {}
    BY <1>1 DEF ShellInv, MovesInv, VariableInv, SessionIsLatest
<1>2. CASE moves # {}
    <2> DEFINE tickets == {m[1] : m \in moves}
    <2>1. cwdSeq \in tickets
        <3>1. <<cwdSeq, cwd>> \in moves /\ <<cwdSeq, cwd>>[1] = cwdSeq
            BY <1>2 DEF ShellInv, MovesInv
        <3>2. QED
            BY <3>1
    <2>2. cwdSeq \in Nat /\ \A t \in tickets : t \in Nat /\ t <= cwdSeq
        BY DEF ShellInv, MovesInv, ShellType
    <2> HIDE DEF tickets
    <2>3. Max(tickets) = cwdSeq
        <3>1. \A x \in tickets : (\A y \in tickets : x >= y) <=> x = cwdSeq
            BY <2>1, <2>2
        <3>2. (CHOOSE x \in tickets : \A y \in tickets : x >= y) \in tickets
              /\ \A y \in tickets : (CHOOSE x \in tickets : \A z \in tickets : x >= z) >= y
            BY <2>1, <3>1
        <3>3. QED
            BY <3>1, <3>2 DEF Max
    <2>4. QED
        BY <1>2, <2>3 DEF ShellInv, MovesInv, VariableInv, SessionIsLatest, tickets
<1>3. QED
    BY <1>1, <1>2

\* Shell.run with any number of calls at once: the session's directory is where the
\* latest issued call that moved ended, and its variable is as the last to change it
\* left it.
THEOREM SessionFollowsLatest == ShellSpec => []SessionIsLatest
BY ShellInvInit, ShellInvStep, LatestMove, PTL DEF ShellSpec

\* run_process: a call that timed out or was interrupted leaves nothing of its group
\* running, and one that returned nothing of it that held its output.
THEOREM GroupsEnd == ShellSpec => []GroupGone
<1>1. ShellInv => GroupGone
    BY DEF ShellInv, ShellType, GroupInv, GroupGone
<1>2. QED
    BY ShellInvInit, ShellInvStep, <1>1, PTL DEF ShellSpec

-----------------------------------------------------------------------------
(* The redirections of accepted commands.                                  *)

\* A set that has 0 and the successors of its numbers has every number.
LEMMA Induction ==
    ASSUME NEW S, 0 \in S, \A n \in Nat : n \in S => n + 1 \in S
    PROVE  Nat \subseteq S
<1> DEFINE T == {0..n : n \in Nat \ S}
<1>1. SUFFICES ASSUME T # {} PROVE FALSE
    OBVIOUS
<1>2. T \subseteq FiniteSubsetsOf(Nat)
    <2>1. ASSUME NEW n \in Nat PROVE 0..n \in FiniteSubsetsOf(Nat)
        BY FS_Interval DEF FiniteSubsetsOf
    <2> QED
        BY <2>1
<1>3. PICK x \in T : \A y \in T : ~(<<y, x>> \in StrictSubsetOrdering(Nat))
    <2>1. IsWellFoundedOn(StrictSubsetOrdering(Nat), FiniteSubsetsOf(Nat))
        BY FS_StrictSubsetOrderingWellFounded
    <2> HIDE DEF T
    <2> QED
        BY <1>1, <1>2, <2>1, WFMin
<1>4. PICK n \in Nat \ S : x = 0..n
    OBVIOUS
<1>5. n # 0 /\ n - 1 \in Nat /\ n - 1 \notin S
    BY <1>4
<1>6. 0..(n - 1) \in T
    BY <1>5
<1>7. /\ 0..(n - 1) \subseteq 0..n /\ 0..(n - 1) \subseteq Nat /\ 0..n \subseteq Nat
      /\ n \in 0..n /\ n \notin 0..(n - 1)
    BY <1>4
<1>8. <<0..(n - 1), x>> \in StrictSubsetOrdering(Nat)
    BY <1>4, <1>7 DEF StrictSubsetOrdering
<1> QED
    BY <1>3, <1>6, <1>8

\* A pass over cd commands, one after the other.
PassSteps(at, from, cds) ==
    /\ at[0] = from
    /\ \A k \in 1 .. Len(cds) :
          at[k] = at[k - 1] \cup (Dirs \cap (IF cds[k].kind = "unknown" THEN Dirs
                                            ELSE {Locate(p, cds[k]) : p \in at[k - 1]}))
    /\ Pass(from, cds) = at[Len(cds)]

LEMMA PassIs ==
    ASSUME NEW from, NEW cds, Len(cds) \in Nat
    PROVE  \E at : PassSteps(at, from, cds)
<1> DEFINE Next(k, X) == X \cup (Dirs \cap (IF cds[k].kind = "unknown" THEN Dirs
                                            ELSE {Locate(p, cds[k]) : p \in X}))
           Upto(f, m) == f = [k \in 0 .. m |-> IF k = 0 THEN from ELSE Next(k, f[k - 1])]
           T == {m \in Nat : \E f : Upto(f, m)}
           g == CHOOSE at : at = [k \in 0 .. Len(cds) |->
                    IF k = 0 THEN from
                    ELSE at[k - 1] \cup (Dirs \cap (IF cds[k].kind = "unknown" THEN Dirs
                                                    ELSE {Locate(p, cds[k]) : p \in at[k - 1]}))]
<1>1. Pass(from, cds) = g[Len(cds)]
    BY DEF Pass
<1>2. (\E f : Upto(f, Len(cds))) => Upto(g, Len(cds))
    BY Zenon
<1> HIDE DEF Next, g
<1>3. 0 \in T
    <2>1. Upto([k \in 0 .. 0 |-> from], 0)
        OBVIOUS
    <2> QED
        BY <2>1
<1>4. ASSUME NEW m \in Nat, m \in T PROVE m + 1 \in T
    <2>1. PICK f : Upto(f, m)
        BY <1>4
    <2> DEFINE h == [k \in 0 .. (m + 1) |-> IF k \in 0 .. m THEN f[k] ELSE Next(m + 1, f[m])]
    <2>2. ASSUME NEW k \in 0 .. (m + 1)
          PROVE  h[k] = IF k = 0 THEN from ELSE Next(k, h[k - 1])
        <3>1. CASE k = 0
            BY <2>1, <3>1
        <3>2. CASE k \in 1 .. m
            <4>1. k \in 0 .. m /\ k - 1 \in 0 .. m /\ k - 1 \in 0 .. (m + 1)
                BY <3>2
            <4>2. h[k] = f[k] /\ h[k - 1] = f[k - 1]
                BY <4>1
            <4>3. f[k] = Next(k, f[k - 1])
                BY <2>1, <3>2, <4>1
            <4> QED
                BY <3>2, <4>2, <4>3
        <3>3. CASE k = m + 1
            <4>1. k \notin 0 .. m /\ k - 1 = m /\ m \in 0 .. m /\ m \in 0 .. (m + 1)
                BY <3>3
            <4>2. h[k] = Next(m + 1, f[m]) /\ h[k - 1] = f[m]
                BY <4>1
            <4> QED
                BY <3>3, <4>2
        <3> QED
            BY <3>1, <3>2, <3>3
    <2> HIDE DEF h
    <2>3. h = [k \in 0 .. (m + 1) |-> h[k]]
        BY DEF h
    <2>4. Upto(h, m + 1)
        BY <2>2, <2>3
    <2> QED
        BY <2>4
<1> HIDE DEF T
<1>5. Nat \subseteq T
    BY <1>3, <1>4, Induction
<1>6. Upto(g, Len(cds))
    BY <1>2, <1>5 DEF T
<1>7. g[0] = from
    BY <1>6
<1>8. ASSUME NEW k \in 1 .. Len(cds) PROVE g[k] = Next(k, g[k - 1])
    BY <1>6
<1> QED
    BY <1>1, <1>7, <1>8 DEF Next, PassSteps

\* _possible_cwds of cd commands it can follow: all relative, run once, and each of them
\* taken or not.
PossibleSteps(after, start, command) ==
    /\ after[0] = {start}
    /\ \A k \in 1 .. Len(command.cds) :
          after[k] = after[k - 1] \cup {Resolve(p, command.cds[k].parts) : p \in after[k - 1]}
    /\ PossibleCwds(start, command) = after[Len(command.cds)]

LEMMA PossibleCwdsIs ==
    ASSUME NEW start, NEW command, Len(command.cds) \in Nat,
           command.cds # <<>>, PossibleCwds(start, command) # {}
    PROVE  /\ ~command.repeats
           /\ \A k \in DOMAIN command.cds : command.cds[k].kind = "relative"
           /\ \E after : PossibleSteps(after, start, command)
<1> DEFINE cds == command.cds
           from == {start}
           Next(k, X) == X \cup {Resolve(p, cds[k].parts) : p \in X}
           Upto(f, m) == f = [k \in 0 .. m |-> IF k = 0 THEN from ELSE Next(k, f[k - 1])]
           T == {m \in Nat : \E f : Upto(f, m)}
           g == CHOOSE after : after = [k \in 0 .. Len(command.cds) |->
                    IF k = 0 THEN {start}
                    ELSE after[k - 1] \cup {Resolve(p, command.cds[k].parts) : p \in after[k - 1]}]
<1>1. /\ ~command.repeats
      /\ \A k \in DOMAIN command.cds : command.cds[k].kind = "relative"
      /\ PossibleCwds(start, command) = g[Len(cds)]
    BY DEF PossibleCwds
<1>2. (\E f : Upto(f, Len(cds))) => Upto(g, Len(cds))
    BY Zenon
<1> HIDE DEF Next, g, from
<1>3. 0 \in T
    <2>1. Upto([k \in 0 .. 0 |-> from], 0)
        OBVIOUS
    <2> QED
        BY <2>1
<1>4. ASSUME NEW m \in Nat, m \in T PROVE m + 1 \in T
    <2>1. PICK f : Upto(f, m)
        BY <1>4
    <2> DEFINE h == [k \in 0 .. (m + 1) |-> IF k \in 0 .. m THEN f[k] ELSE Next(m + 1, f[m])]
    <2>2. ASSUME NEW k \in 0 .. (m + 1)
          PROVE  h[k] = IF k = 0 THEN from ELSE Next(k, h[k - 1])
        <3>1. CASE k = 0
            BY <2>1, <3>1
        <3>2. CASE k \in 1 .. m
            <4>1. k \in 0 .. m /\ k - 1 \in 0 .. m /\ k - 1 \in 0 .. (m + 1)
                BY <3>2
            <4>2. h[k] = f[k] /\ h[k - 1] = f[k - 1]
                BY <4>1
            <4>3. f[k] = Next(k, f[k - 1])
                BY <2>1, <3>2, <4>1
            <4> QED
                BY <3>2, <4>2, <4>3
        <3>3. CASE k = m + 1
            <4>1. k \notin 0 .. m /\ k - 1 = m /\ m \in 0 .. m /\ m \in 0 .. (m + 1)
                BY <3>3
            <4>2. h[k] = Next(m + 1, f[m]) /\ h[k - 1] = f[m]
                BY <4>1
            <4> QED
                BY <3>3, <4>2
        <3> QED
            BY <3>1, <3>2, <3>3
    <2> HIDE DEF h
    <2>3. h = [k \in 0 .. (m + 1) |-> h[k]]
        BY DEF h
    <2>4. Upto(h, m + 1)
        BY <2>2, <2>3
    <2> QED
        BY <2>4
<1> HIDE DEF T
<1>5. Nat \subseteq T
    BY <1>3, <1>4, Induction
<1>6. Upto(g, Len(cds))
    BY <1>2, <1>5 DEF T
<1>7. g[0] = from
    BY <1>6
<1>8. ASSUME NEW k \in 1 .. Len(cds) PROVE g[k] = Next(k, g[k - 1])
    BY <1>6
<1> QED
    BY <1>1, <1>7, <1>8 DEF Next, from, PossibleSteps

\* check_shell: wherever its cd commands leave an accepted command, its redirection
\* stays inside the root.
LEMMA AcceptedConfined ==
    ASSUME NEW start \in Dirs, NEW command, Len(command.cds) \in Nat,
           DOMAIN command.cds = 1 .. Len(command.cds),
           CheckShell(start, command), NEW f \in Writes(start, command)
    PROVE  Inside(f)
<1> DEFINE cds == command.cds
           target == command.redirect
           possible == PossibleCwds(start, command)
<1>1. PICK p \in Visits(start, command) : f = Locate(p, target)
    BY DEF Writes
<1>2. CheckRedirect(target, possible) /\ target.kind \in {"relative", "absolute"}
    BY DEF CheckShell, Writes
<1>3. CASE target.kind = "absolute"
    BY <1>1, <1>2, <1>3 DEF CheckRedirect, Locate
<1>4. CASE target.kind = "relative"
    <2>1. f = Resolve(p, target.parts)
        BY <1>1, <1>4 DEF Locate
    <2>2. possible # {} /\ \A d \in possible : Inside(Resolve(d, target.parts))
        BY <1>2, <1>4 DEF CheckRedirect
    <2>3. PICK at : PassSteps(at, {start}, cds)
        BY PassIs
    <2>4. CASE cds = <<>>
        <3>1. Len(cds) = 0
            BY <2>4
        <3>2. Pass({start}, cds) = {start}
            BY <2>3, <3>1 DEF PassSteps
        <3>3. Visits(start, command) = {start}
            BY <3>2 DEF Visits
        <3>4. possible = {start}
            BY <2>4 DEF PossibleCwds
        <3> QED
            BY <1>1, <2>1, <2>2, <3>3, <3>4
    <2>5. CASE cds # <<>>
        <3>1. ~command.repeats /\ \A k \in DOMAIN cds : cds[k].kind = "relative"
            BY <2>2, <2>5, PossibleCwdsIs
        <3>2. PICK after : PossibleSteps(after, start, command)
            BY <2>2, <2>5, PossibleCwdsIs
        <3> DEFINE T == {k \in Nat : k <= Len(cds) => at[k] \subseteq after[k]}
        <3>3. 0 \in T
            BY <2>3, <3>2 DEF PassSteps, PossibleSteps
        <3>4. ASSUME NEW k \in Nat, k \in T PROVE k + 1 \in T
            <4> SUFFICES ASSUME k + 1 <= Len(cds) PROVE at[k + 1] \subseteq after[k + 1]
                OBVIOUS
            <4>1. k + 1 \in 1 .. Len(cds) /\ (k + 1) - 1 = k /\ at[k] \subseteq after[k]
                BY <3>4
            <4>2. cds[k + 1].kind = "relative"
                BY <3>1, <4>1
            <4>3. \A d : Locate(d, cds[k + 1]) = Resolve(d, cds[k + 1].parts)
                BY <4>2 DEF Locate
            <4>4. at[k + 1] = at[k] \cup (Dirs \cap {Locate(d, cds[k + 1]) : d \in at[k]})
                BY <2>3, <4>1, <4>2 DEF PassSteps
            <4>5. after[k + 1] = after[k] \cup {Resolve(d, cds[k + 1].parts) : d \in after[k]}
                BY <3>2, <4>1 DEF PossibleSteps
            <4> QED
                BY <4>1, <4>3, <4>4, <4>5
        <3> HIDE DEF T
        <3>5. Nat \subseteq T
            BY <3>3, <3>4, Induction
        <3>6. at[Len(cds)] \subseteq after[Len(cds)]
            BY <3>5 DEF T
        <3>7. Visits(start, command) = at[Len(cds)] /\ possible = after[Len(cds)]
            BY <2>3, <3>1, <3>2 DEF Visits, PassSteps, PossibleSteps
        <3> QED
            BY <1>1, <2>1, <2>2, <3>6, <3>7
    <2> QED
        BY <2>4, <2>5
<1> QED
    BY <1>2, <1>3, <1>4

\* A pass ends in directories that exist.
LEMMA PassInDirs ==
    ASSUME NEW from \in SUBSET Dirs, NEW cds, Len(cds) \in Nat
    PROVE  Pass(from, cds) \subseteq Dirs
<1>1. PICK at : PassSteps(at, from, cds)
    BY PassIs
<1> DEFINE T == {k \in Nat : k <= Len(cds) => at[k] \subseteq Dirs}
<1>2. 0 \in T
    BY <1>1 DEF PassSteps
<1>3. ASSUME NEW k \in Nat, k \in T PROVE k + 1 \in T
    <2> SUFFICES ASSUME k + 1 <= Len(cds) PROVE at[k + 1] \subseteq Dirs
        OBVIOUS
    <2>1. k + 1 \in 1 .. Len(cds) /\ (k + 1) - 1 = k /\ at[k] \subseteq Dirs
        BY <1>3
    <2>2. at[k + 1] = at[k] \cup (Dirs \cap (IF cds[k + 1].kind = "unknown" THEN Dirs
                                             ELSE {Locate(p, cds[k + 1]) : p \in at[k]}))
        BY <1>1, <2>1 DEF PassSteps
    <2> QED
        BY <2>1, <2>2
<1> HIDE DEF T
<1>4. Nat \subseteq T
    BY <1>2, <1>3, Induction
<1> QED
    BY <1>1, <1>4 DEF T, PassSteps

\* The directories of the root.
Homes == {d \in Dirs : Inside(d)}

\* A session stays below the root, and what a call hands back to it does too; with an
\* allowlist nothing has been written elsewhere.
ConfinedInv ==
    /\ mode \in {"allowlist", "free", "argv"} /\ cwd \in Homes
    /\ \A c \in ShellCalls :
          /\ shell[c].started \in Homes /\ shell[c].end \in Dirs \cup {Nowhere}
          /\ shell[c].phase \in {"exited", "draining", "collected"} => shell[c].end \in Homes \cup {Nowhere}
    /\ RedirectsConfined

\* The root is one of them.
LEMMA RootIsHome == Root \in Homes
<1>1. Root \in Dirs /\ Len(Root) = 1 /\ Root[1] = "work"
    BY DEF Root, Dirs
<1> QED
    BY <1>1 DEF Homes, Inside

\* What may come of starting a command: it ends in a directory that exists or tells
\* nothing, and with an allowlist it writes nothing outside the root.
LEMMA EffectsConfined ==
    ASSUME mode \in {"allowlist", "free", "argv"}, NEW start \in Homes, NEW effect \in Effects(start)
    PROVE  /\ effect.end \in Dirs \cup {Nowhere}
           /\ mode = "allowlist" => effect.strays = {}
<1>1. CASE mode = "free"
    BY <1>1 DEF Effects, FreeEffects
<1>2. CASE mode = "argv"
    BY <1>2 DEF Effects, ArgvEffects
<1>3. CASE mode = "allowlist"
    <2>1. effect \in AllowedEffects[start]
        BY <1>3 DEF Effects
    <2>2. PICK command \in {x \in Commands : CheckShell(start, x)} :
            effect \in [end : Visits(start, command),
                        strays : {{}, {f \in Writes(start, command) : ~Inside(f)}}]
        BY <2>1 DEF AllowedEffects, Homes
    <2>3. Len(command.cds) \in Nat /\ DOMAIN command.cds = 1 .. Len(command.cds)
        <3>1. PICK n \in 0 .. MaxCds : command.cds \in [1 .. n -> CdTargets]
            BY DEF Commands
        <3>2. n \in Nat
            BY <3>1, CommandAssumption
        <3>3. command.cds \in Seq(CdTargets)
            BY <3>1, <3>2
        <3> QED
            BY <3>3
    <2>4. start \in Dirs /\ CheckShell(start, command)
        BY <2>2 DEF Homes
    <2>5. \A f \in Writes(start, command) : Inside(f)
        BY <2>3, <2>4, AcceptedConfined
    <2>6. Visits(start, command) \subseteq Dirs
        <3>1. {start} \in SUBSET Dirs
            BY <2>4
        <3>2. Pass({start}, command.cds) \in SUBSET Dirs
            BY <2>3, <3>1, PassInDirs
        <3>3. Pass(Pass({start}, command.cds), command.cds) \subseteq Dirs
            BY <2>3, <3>2, PassInDirs
        <3> QED
            BY <3>2, <3>3 DEF Visits
    <2> QED
        BY <2>2, <2>5, <2>6
<1> QED
    BY <1>1, <1>2, <1>3

\* The invariant holds at the start, in the root.
LEMMA ConfinedInit == ShellInit({"allowlist", "free", "argv"}) => ConfinedInv
BY RootIsHome DEF ShellInit, ConfinedInv, RedirectsConfined

\* A step of call c keeps it when what c has to hand back is in order.
LEMMA ConfinedLocal ==
    ASSUME ConfinedInv, NEW c \in ShellCalls,
           mode' = mode, cwd' \in Homes, mode = "allowlist" => strays' = strays,
           \A d \in ShellCalls \ {c} : shell'[d] = shell[d],
           shell'[c].started \in Homes, shell'[c].end \in Dirs \cup {Nowhere},
           shell'[c].phase \in {"exited", "draining", "collected"} => shell'[c].end \in Homes \cup {Nowhere}
    PROVE  ConfinedInv'
<1>1. RedirectsConfined'
    BY DEF ConfinedInv, RedirectsConfined
<1>2. ASSUME NEW d \in ShellCalls
      PROVE  /\ shell'[d].started \in Homes /\ shell'[d].end \in Dirs \cup {Nowhere}
             /\ shell'[d].phase \in {"exited", "draining", "collected"} => shell'[d].end \in Homes \cup {Nowhere}
    BY DEF ConfinedInv
<1>3. QED
    BY <1>1, <1>2 DEF ConfinedInv

\* Every step of any call keeps the session and what was written inside the root.
LEMMA ConfinedStep == ShellInv /\ ConfinedInv /\ [ShellNext]_shellVars => ConfinedInv'
<1> SUFFICES ASSUME ShellInv, ConfinedInv, [ShellNext]_shellVars PROVE ConfinedInv'
    OBVIOUS
<1>1. CASE UNCHANGED shellVars
    BY <1>1 DEF shellVars, ConfinedInv, RedirectsConfined
<1>2. ASSUME NEW c \in ShellCalls,
             \/ Issue(c) \/ ShellStep(c) \/ Interrupted(c)
             \/ \E h \in Holders \cup Group : HelperEnds(c, h)
      PROVE  ConfinedInv'
    <2> USE DEF CallFields
    <2>1. /\ DOMAIN shell = ShellCalls /\ DOMAIN shell[c] = CallFields /\ cwd \in Homes
          /\ mode \in {"allowlist", "free", "argv"}
          /\ shell[c].started \in Homes /\ shell[c].end \in Dirs \cup {Nowhere}
          /\ shell[c].phase \in {"exited", "draining", "collected"} => shell[c].end \in Homes \cup {Nowhere}
        BY DEF ShellInv, ShellType, ConfinedInv
    <2>2. \A got \in Trailers(c) : got.end \in Homes \cup {Nowhere} /\ Homes \subseteq Dirs
        BY <2>1, RootIsHome DEF Trailers, Homes
    <2>3. CASE Issue(c)
        BY <2>1, <2>3, ConfinedLocal DEF Issue, session
    <2>4. CASE Refuse(c)
        BY <2>1, <2>4, ConfinedLocal DEF Refuse, Enter, session
    <2>5. CASE Launch(c)
        <3>1. PICK effect \in Effects(shell[c].started) :
                /\ shell' = [shell EXCEPT ![c].phase = "running", ![c].end = effect.end]
                /\ strays' = strays \cup effect.strays
            BY <2>5 DEF Launch
        <3>2. effect.end \in Dirs \cup {Nowhere} /\ (mode = "allowlist" => effect.strays = {})
            BY <2>1, EffectsConfined
        <3>3. mode = "allowlist" => strays' = strays
            BY <3>1, <3>2
        <3> QED
            BY <2>1, <2>5, <3>1, <3>2, <3>3, ConfinedLocal DEF Launch, session
    <2>6. CASE LeaderExits(c)
        <3>1. PICK got \in Trailers(c) :
                shell' = [shell EXCEPT ![c].phase = "exited", ![c].end = got.end, ![c].after = got.after]
            BY <2>6 DEF LeaderExits
        <3>2. UNCHANGED <<mode, cwd, strays>>
            BY <2>6 DEF LeaderExits, session
        <3> QED
            BY <2>1, <2>2, <3>1, <3>2, ConfinedLocal
    <2>7. CASE TimesOut(c)
        <3>1. PICK got \in Trailers(c) :
                shell' = [shell EXCEPT ![c].phase = "draining", ![c].end = got.end,
                                       ![c].after = got.after, ![c].timedOut = TRUE]
            BY <2>7 DEF TimesOut
        <3>2. UNCHANGED <<mode, cwd, strays>>
            BY <2>7 DEF TimesOut, session
        <3> QED
            BY <2>1, <2>2, <3>1, <3>2, ConfinedLocal
    <2>8. CASE OutputEnds(c)
        BY <2>1, <2>8, ConfinedLocal DEF OutputEnds, Enter, session
    <2>9. CASE Lingers(c)
        BY <2>1, <2>9, ConfinedLocal DEF Lingers, Enter, session
    <2>10. CASE Drained(c)
        BY <2>1, <2>10, ConfinedLocal DEF Drained, Enter, session
    <2>11. CASE Interrupted(c)
        BY <2>1, <2>11, ConfinedLocal DEF Interrupted, session
    <2>12. CASE Apply(c)
        <3>1. /\ shell[c].phase = "collected" /\ shell' = [shell EXCEPT ![c].phase = "returned"]
              /\ UNCHANGED <<mode, strays>>
            BY <2>12 DEF Apply, Enter
        <3>2. cwd' \in Homes
            BY <2>1, <2>12, <3>1 DEF Apply, Move
        <3> QED
            BY <2>1, <3>1, <3>2, ConfinedLocal
    <2>13. CASE \E h \in Holders \cup Group : HelperEnds(c, h)
        <3>1. UNCHANGED <<mode, cwd, strays, shell>>
            BY <2>13 DEF HelperEnds, session
        <3> QED
            BY <2>1, <3>1, ConfinedLocal
    <2> QED
        BY <1>2, <2>3, <2>4, <2>5, <2>6, <2>7, <2>8, <2>9, <2>10, <2>11, <2>12, <2>13 DEF ShellStep
<1>3. QED
    BY <1>1, <1>2 DEF ShellNext

\* check_shell under an allowlist, whatever its programs and however many cd commands it
\* follows: no redirection of an accepted command ever writes outside the root, wherever
\* the calls before it and beside it have left the session.
THEOREM RedirectionsStayInside == ShellSpec => []RedirectsConfined
<1>1. ConfinedInv => RedirectsConfined
    BY DEF ConfinedInv
<1>2. QED
    BY ShellInvInit, ShellInvStep, ConfinedInit, ConfinedStep, <1>1, PTL DEF ShellSpec

-----------------------------------------------------------------------------
(* The view of the file system.                                            *)

Names == STRING \cup {"dev", "proc", "home", "tmp", "run", "var", "x"}

Paths == Seq(Names)

Kinds == {"read", "write", "device", "private", "link"}

MountLists == Seq([kind : Kinds, at : Paths])

\* The mount k of a list decides what is found at p.
Decides(p, mounts, k) ==
    /\ k \in DOMAIN mounts /\ Within(p, mounts[k].at)
    /\ \A l \in DOMAIN mounts : Within(p, mounts[l].at) => l <= k

\* "/" is above every path, and every path is below itself.
LEMMA WithinRoot == ASSUME NEW p \in Paths PROVE Within(p, <<>>) /\ Within(p, p)
<1>1. Len(p) \in Nat /\ Len(<<>>) = 0
    BY DEF Paths
<1>2. SubSeq(p, 1, 0) = <<>> /\ SubSeq(<<>>, 1, 0) = <<>>
    BY SubSeqEmpty DEF Paths
<1> QED
    BY <1>1, <1>2 DEF Within, IsPrefix

\* A list whose first mount covers everything decides every path.
LEMMA OneDecides ==
    ASSUME NEW mounts \in MountLists, mounts # <<>>, mounts[1].at = <<>>, NEW p \in Paths
    PROVE  \E k : Decides(p, mounts, k)
<1> DEFINE n == Len(mounts)
<1>1. n \in Nat /\ n >= 1 /\ DOMAIN mounts = 1 .. n
    BY DEF MountLists
<1>2. Within(p, mounts[1].at)
    BY WithinRoot
<1> SUFFICES ASSUME \A k : ~Decides(p, mounts, k) PROVE FALSE
    OBVIOUS
<1> DEFINE U == {m \in Nat : \E k \in 1 .. n : k >= m /\ Within(p, mounts[k].at)}
<1> HIDE DEF n
<1>3. 0 \in U
    BY <1>1, <1>2
<1>4. ASSUME NEW m \in Nat, m \in U PROVE m + 1 \in U
    <2>1. PICK k \in 1 .. n : k >= m /\ Within(p, mounts[k].at)
        BY <1>4
    <2>2. PICK l \in 1 .. n : Within(p, mounts[l].at) /\ ~(l <= k)
        BY <1>1, <2>1 DEF Decides
    <2>3. l >= m + 1
        BY <1>1, <2>1, <2>2
    <2> QED
        BY <2>2, <2>3
<1> HIDE DEF U
<1>5. Nat \subseteq U
    BY <1>3, <1>4, Induction
<1>6. n + 1 \in U
    BY <1>1, <1>5
<1> QED
    BY <1>1, <1>6 DEF U

\* What follows shadows what comes first.
Shadowed(p, s, t, u, k) ==
    \/ \E l : Decides(p, t, l) /\ u[k] = t[l]
    \/ /\ Decides(p, s, k) /\ u[k] = s[k]
       /\ \A l \in DOMAIN t : ~Within(p, t[l].at)

LEMMA LaterDecides ==
    ASSUME NEW s \in MountLists, NEW t \in MountLists, NEW u, u = s \o t,
           NEW p, NEW k, Decides(p, u, k)
    PROVE  Shadowed(p, s, t, u, k)
<1>1. /\ Len(s) \in Nat /\ Len(t) \in Nat /\ DOMAIN s = 1 .. Len(s) /\ DOMAIN t = 1 .. Len(t)
      /\ DOMAIN u = 1 .. (Len(s) + Len(t))
      /\ \A i \in 1 .. Len(s) : u[i] = s[i]
      /\ \A i \in 1 .. Len(t) : u[Len(s) + i] = t[i]
    BY DEF MountLists
<1>2. k \in 1 .. (Len(s) + Len(t)) /\ Within(p, u[k].at)
      /\ \A i \in 1 .. (Len(s) + Len(t)) : Within(p, u[i].at) => i <= k
    BY <1>1 DEF Decides
<1>3. CASE k <= Len(s)
    <2>1. ASSUME NEW l \in 1 .. Len(t) PROVE ~Within(p, t[l].at)
        <3>1. k \in Nat /\ l \in Nat /\ l >= 1
            BY <1>1, <1>2
        <3>2. Len(s) + l \in 1 .. (Len(s) + Len(t)) /\ ~(Len(s) + l <= k)
            BY <1>1, <1>3, <3>1
        <3>3. u[Len(s) + l] = t[l]
            BY <1>1
        <3> QED
            BY <1>2, <3>2, <3>3
    <2>2. k \in 1 .. Len(s) /\ u[k] = s[k]
        BY <1>1, <1>2, <1>3
    <2>3. ASSUME NEW l \in 1 .. Len(s), Within(p, s[l].at) PROVE l <= k
        <3>1. l \in 1 .. (Len(s) + Len(t)) /\ u[l] = s[l]
            BY <1>1
        <3> QED
            BY <1>2, <2>3, <3>1
    <2> QED
        BY <1>1, <1>2, <2>1, <2>2, <2>3 DEF Decides, Shadowed
<1>4. CASE ~(k <= Len(s))
    <2> DEFINE l == k - Len(s)
    <2>1. l \in 1 .. Len(t) /\ k = Len(s) + l
        BY <1>1, <1>2, <1>4
    <2>2. u[k] = t[l]
        BY <1>1, <2>1
    <2>3. ASSUME NEW i \in 1 .. Len(t), Within(p, t[i].at) PROVE i <= l
        <3>1. Len(s) + i \in 1 .. (Len(s) + Len(t)) /\ u[Len(s) + i] = t[i]
            BY <1>1
        <3>2. Len(s) + i <= k
            BY <1>2, <2>3, <3>1
        <3> QED
            BY <1>1, <2>1, <3>2
    <2> QED
        BY <1>1, <1>2, <2>1, <2>2, <2>3 DEF Decides, Shadowed
<1> QED
    BY <1>3, <1>4

\* SetToSeq lists a finite set, every member of it and nothing else.
LEMMA SetToSeqIs ==
    ASSUME NEW S, IsFiniteSet(S)
    PROVE  /\ SetToSeq(S) \in Seq(S)
           /\ \A x \in S : \E k \in DOMAIN SetToSeq(S) : SetToSeq(S)[k] = x
<1> DEFINE n == Cardinality(S)
           f == SetToSeq(S)
<1>1. n \in Nat /\ ExistsBijection(1 .. n, S)
    BY FS_CardinalityType
<1>2. \E g \in [1 .. n -> S] : IsInjective(g)
    BY <1>1 DEF ExistsBijection, Bijection, Injection
<1>3. f \in [1 .. n -> S] /\ IsInjective(f)
    BY <1>2 DEF SetToSeq
<1> HIDE DEF n, f
<1>4. f \in Injection(1 .. n, S)
    BY <1>3 DEF Injection
<1>5. IsFiniteSet(1 .. n) /\ Cardinality(1 .. n) = n
    BY <1>1, FS_Interval
<1>6. f \in Surjection(1 .. n, S)
    BY <1>4, <1>5, FS_Injection DEF n
<1>7. f \in Seq(S)
    BY <1>1, <1>3
<1> QED
    BY <1>6, <1>7, <1>3 DEF Surjection, f

\* The paths of a host.
LEMMA HostPaths ==
    ASSUME host \in Hosts
    PROVE  /\ host.root \in Paths /\ host.tmpdir \in Paths /\ host.runtime \in Paths
           /\ host.links \subseteq RunLinks /\ host.expose \subseteq Exposable
           /\ RunLinks \subseteq Paths \X Paths /\ Exposable \subseteq Paths
<1>1. Seq(STRING) \subseteq Paths
    <2>1. STRING \subseteq Names
        BY DEF Names
    <2> QED
        BY <2>1, SeqMonotonic DEF Paths
<1> QED
    BY <1>1, IsolationAssumption DEF Hosts

\* The masks are a list of paths.
LEMMA MasksAre ==
    ASSUME host \in Hosts
    PROVE  Masks \in Seq(Paths)
<1> DEFINE base == <<<<"tmp">>, <<"run">>>> \o (IF host.varRun THEN <<<<"var", "run">>>> ELSE <<>>)
<1>1. <<<<"tmp">>, <<"run">>>> \in Seq(Paths) /\ <<<<"var", "run">>>> \in Seq(Paths) /\ <<>> \in Seq(Paths)
    <2>1. <<"tmp">> \in Paths /\ <<"run">> \in Paths /\ <<"var", "run">> \in Paths
        BY DEF Paths, Names
    <2> QED
        BY <2>1
<1>2. base \in Seq(Paths)
    BY <1>1, ConcatProperties
<1> HIDE DEF base
<1>3. Append(base, host.runtime) \in Seq(Paths)
    BY <1>2, HostPaths, AppendProperties
<1>4. Masks = base \/ Masks = Append(base, host.runtime)
    BY DEF Masks, base
<1> QED
    BY <1>2, <1>3, <1>4

\* What follows leaves the first mount where it is.
LEMMA FirstStays ==
    ASSUME NEW s \in MountLists, NEW t \in MountLists, s # <<>>, NEW u, u = s \o t
    PROVE  u \in MountLists /\ u # <<>> /\ u[1] = s[1]
<1>1. u \in MountLists /\ Len(u) = Len(s) + Len(t) /\ \A i \in 1 .. Len(s) : u[i] = s[i]
    BY ConcatProperties DEF MountLists
<1>2. Len(s) \in Nat /\ Len(s) >= 1 /\ Len(t) \in Nat
    BY DEF MountLists
<1> QED
    BY <1>1, <1>2

\* What bwrap_args makes of a path, from the last mount to the first: granted, exposed,
\* a kept link, private, or the host's.
BwrapShown(p, kind, masks, links, expose) ==
    \/ kind = "write" /\ (Within(p, host.root) \/ Within(p, host.tmpdir))
    \/ /\ ~Within(p, host.root) /\ ~Within(p, host.tmpdir)
       /\ \/ kind = "read" /\ \E q \in expose : Within(p, q)
          \/ kind = "link"
          \/ kind = "private" /\ \A l \in links : ~Within(p, l[1])
          \/ kind \in {"read", "device"} /\ ~\E m \in DOMAIN masks : Within(p, masks[m])

LEMMA BwrapShows ==
    ASSUME host \in Hosts, NEW masks \in Seq(Paths), NEW links \in SUBSET RunLinks,
           NEW expose \in SUBSET Exposable, NEW p \in Paths,
           NEW args, args = BwrapArgs(masks, links, expose)
    PROVE  /\ args \in MountLists /\ args # <<>> /\ args[1].at = <<>>
           /\ \A k : Decides(p, args, k) => BwrapShown(p, args[k].kind, masks, links, expose)
<1> DEFINE first == <<Mount("read", <<>>), Mount("device", <<"dev">>), Mount("device", <<"proc">>)>>
           hidden == Mounts("private", masks)
           kept == {Mount("link", l[1]) : l \in links}
           shown == {Mount("read", q) : q \in expose}
           last == <<Mount("write", host.tmpdir), Mount("write", host.root)>>
           keptSeq == SetToSeq(kept)
           shownSeq == SetToSeq(shown)
           one == first \o hidden
           two == one \o keptSeq
           three == two \o shownSeq
           M == [kind : Kinds, at : Paths]
<1>1. args = three \o last
    BY DEF BwrapArgs
<1>2. /\ host.root \in Paths /\ host.tmpdir \in Paths
      /\ RunLinks \subseteq Paths \X Paths /\ Exposable \subseteq Paths
    BY HostPaths
<1>3. one = first \o hidden /\ two = one \o keptSeq /\ three = two \o shownSeq
    OBVIOUS
<1>4. first \in MountLists
    <2>1. <<>> \in Paths /\ <<"dev">> \in Paths /\ <<"proc">> \in Paths
        BY DEF Paths, Names
    <2>2. Mount("read", <<>>) \in M /\ Mount("device", <<"dev">>) \in M /\ Mount("device", <<"proc">>) \in M
        BY <2>1 DEF Mount, Kinds
    <2> QED
        BY <2>2 DEF MountLists
<1>5. last \in MountLists
    <2>1. Mount("write", host.tmpdir) \in M /\ Mount("write", host.root) \in M
        BY <1>2 DEF Mount, Kinds
    <2> QED
        BY <2>1 DEF MountLists
<1>6. hidden \in MountLists /\ DOMAIN hidden = DOMAIN masks
      /\ \A m \in DOMAIN hidden : hidden[m].kind = "private" /\ hidden[m].at = masks[m]
    <2>1. Len(masks) \in Nat /\ DOMAIN masks = 1 .. Len(masks) /\ \A m \in 1 .. Len(masks) : masks[m] \in Paths
        BY ElementOfSeq
    <2>2. hidden = [m \in 1 .. Len(masks) |-> [kind |-> "private", at |-> masks[m]]]
        BY <2>1 DEF Mounts, Mount
    <2>3. hidden \in [1 .. Len(masks) -> M]
        BY <2>1, <2>2 DEF Kinds
    <2> HIDE DEF hidden, M
    <2>4. hidden \in Seq(M)
        BY <2>1, <2>3
    <2> QED
        BY <2>1, <2>2, <2>4 DEF MountLists, M
<1>7. kept \subseteq M /\ IsFiniteSet(kept)
    <2>1. IsFiniteSet(links)
        BY IsolationAssumption, FS_Subset
    <2> DEFINE f == [l \in links |-> Mount("link", l[1])]
    <2>2. f \in Surjection(links, kept)
        BY DEF Surjection
    <2>3. IsFiniteSet(kept)
        BY <2>1, <2>2, FS_Surjection
    <2>4. ASSUME NEW l \in links PROVE Mount("link", l[1]) \in M
        BY <1>2 DEF Mount, Kinds
    <2> QED
        BY <2>3, <2>4
<1>8. shown \subseteq M /\ IsFiniteSet(shown)
    <2>1. IsFiniteSet(expose)
        BY IsolationAssumption, FS_Subset
    <2> DEFINE f == [q \in expose |-> Mount("read", q)]
    <2>2. f \in Surjection(expose, shown)
        BY DEF Surjection
    <2>3. IsFiniteSet(shown)
        BY <2>1, <2>2, FS_Surjection
    <2>4. ASSUME NEW q \in expose PROVE Mount("read", q) \in M
        BY <1>2 DEF Mount, Kinds
    <2> QED
        BY <2>3, <2>4
<1> HIDE DEF kept, shown, keptSeq, shownSeq, M, first, hidden, last
<1>9. keptSeq \in Seq(kept) /\ \A x \in kept : \E j \in DOMAIN keptSeq : keptSeq[j] = x
    BY <1>7, SetToSeqIs DEF keptSeq
<1>10. shownSeq \in Seq(shown)
    BY <1>8, SetToSeqIs DEF shownSeq
<1>11. keptSeq \in MountLists /\ shownSeq \in MountLists
    BY <1>7, <1>8, <1>9, <1>10, SeqMonotonic DEF MountLists, M
<1>12. one \in MountLists
    BY <1>4, <1>6, ConcatProperties DEF MountLists
<1> HIDE DEF one
<1>13. two \in MountLists
    BY <1>11, <1>12, ConcatProperties DEF MountLists
<1> HIDE DEF two
<1>14. three \in MountLists
    BY <1>11, <1>13, ConcatProperties DEF MountLists
<1> HIDE DEF three
<1>15. args \in MountLists /\ args # <<>> /\ args[1].at = <<>>
    <2>1. first # <<>> /\ first[1].at = <<>>
        BY DEF first, Mount
    <2>2. one # <<>> /\ one[1] = first[1]
        BY <1>4, <1>6, <1>3, <2>1, FirstStays
    <2>3. two # <<>> /\ two[1] = first[1]
        BY <1>11, <1>12, <1>3, <2>2, FirstStays
    <2>4. three # <<>> /\ three[1] = first[1]
        BY <1>11, <1>13, <1>3, <2>3, FirstStays
    <2> QED
        BY <1>1, <1>5, <1>14, <2>1, <2>4, FirstStays, ZenonT(60)
<1> SUFFICES ASSUME NEW k, Decides(p, args, k) PROVE BwrapShown(p, args[k].kind, masks, links, expose)
    BY <1>15
<1> DEFINE kind == args[k].kind
<1> USE DEF BwrapShown
<1>16. DOMAIN last = 1 .. 2 /\ last[1].at = host.tmpdir /\ last[2].at = host.root
       /\ last[1].kind = "write" /\ last[2].kind = "write"
    BY DEF last, Mount
<1>17. CASE \E l : Decides(p, last, l) /\ args[k] = last[l]
    BY <1>1, <1>16, <1>17 DEF Decides
<1>18. CASE Decides(p, three, k) /\ args[k] = three[k] /\ \A l \in DOMAIN last : ~Within(p, last[l].at)
    <2>1. kind = three[k].kind /\ ~Within(p, host.root) /\ ~Within(p, host.tmpdir)
        BY <1>1, <1>16, <1>18
    <2>2. CASE \E l : Decides(p, shownSeq, l) /\ three[k] = shownSeq[l]
        <3>1. PICK l \in DOMAIN shownSeq : Within(p, shownSeq[l].at) /\ three[k] = shownSeq[l]
            BY <2>2 DEF Decides
        <3>2. shownSeq[l] \in shown
            BY <1>10, <3>1, ElementOfSeq
        <3>3. PICK q \in expose : shownSeq[l] = [kind |-> "read", at |-> q]
            BY <3>2 DEF shown, Mount
        <3> QED
            BY <2>1, <3>1, <3>3
    <2>3. CASE Decides(p, two, k) /\ three[k] = two[k]
        <3>1. CASE \E l : Decides(p, keptSeq, l) /\ two[k] = keptSeq[l]
            <4>1. PICK l \in DOMAIN keptSeq : two[k] = keptSeq[l]
                BY <3>1 DEF Decides
            <4>2. keptSeq[l] \in kept
                BY <1>9, <4>1, ElementOfSeq
            <4>3. keptSeq[l].kind = "link"
                BY <4>2 DEF kept, Mount
            <4> QED
                BY <2>1, <2>3, <4>1, <4>3
        <3>2. CASE /\ Decides(p, one, k) /\ two[k] = one[k]
                   /\ \A l \in DOMAIN keptSeq : ~Within(p, keptSeq[l].at)
            <4>1. ASSUME NEW l \in links PROVE ~Within(p, l[1])
                <5>1. Mount("link", l[1]) \in kept /\ Mount("link", l[1]).at = l[1]
                    BY DEF kept, Mount
                <5> QED
                    BY <1>9, <3>2, <5>1
            <4>2. CASE \E l : Decides(p, hidden, l) /\ one[k] = hidden[l]
                BY <1>6, <2>1, <2>3, <3>2, <4>1, <4>2 DEF Decides
            <4>3. CASE /\ Decides(p, first, k) /\ one[k] = first[k]
                       /\ \A l \in DOMAIN hidden : ~Within(p, hidden[l].at)
                <5>1. k \in DOMAIN first
                    BY <4>3 DEF Decides
                <5>2. first[k].kind \in {"read", "device"}
                    BY <5>1 DEF first, Mount
                <5> QED
                    BY <1>6, <2>1, <2>3, <3>2, <4>3, <5>2
            <4>4. Shadowed(p, first, hidden, one, k)
                BY <1>4, <1>6, <1>3, <3>2, LaterDecides
            <4>5. \/ \E l : Decides(p, hidden, l) /\ one[k] = hidden[l]
                  \/ /\ Decides(p, first, k) /\ one[k] = first[k]
                     /\ \A l \in DOMAIN hidden : ~Within(p, hidden[l].at)
                BY <4>4 DEF Shadowed
            <4> QED
                BY <4>2, <4>3, <4>5
        <3>3. Shadowed(p, one, keptSeq, two, k)
            BY <1>11, <1>12, <1>3, <2>3, LaterDecides
        <3>4. \/ \E l : Decides(p, keptSeq, l) /\ two[k] = keptSeq[l]
              \/ /\ Decides(p, one, k) /\ two[k] = one[k]
                 /\ \A l \in DOMAIN keptSeq : ~Within(p, keptSeq[l].at)
            BY <3>3 DEF Shadowed
        <3> QED
            BY <3>1, <3>2, <3>4
    <2>4. Shadowed(p, two, shownSeq, three, k)
        BY <1>11, <1>13, <1>18, <1>3, LaterDecides
    <2>5. \/ \E l : Decides(p, shownSeq, l) /\ three[k] = shownSeq[l]
          \/ Decides(p, two, k) /\ three[k] = two[k]
        BY <2>4 DEF Shadowed
    <2> QED
        BY <2>2, <2>3, <2>5
<1>19. Shadowed(p, three, last, args, k)
    BY <1>1, <1>5, <1>14, LaterDecides
<1>20. \/ \E l : Decides(p, last, l) /\ args[k] = last[l]
       \/ Decides(p, three, k) /\ args[k] = three[k] /\ \A l \in DOMAIN last : ~Within(p, last[l].at)
    BY <1>19 DEF Shadowed
<1> QED
    BY <1>17, <1>18, <1>20

\* The backend does not change once it is picked, and every view of a backend that
\* enforces is the one it builds for this host.
IsolationInv ==
    /\ host \in Hosts
    /\ required => backend \in Backends \cup {"refused"}
    /\ backend = "unset" => view = <<>>
    /\ view # <<>> /\ backend = "bubblewrap" =>
          view = BwrapArgs(Masks, EscapingSymlinks(Masks), host.expose)
    /\ view # <<>> /\ backend = "sandbox-exec" => view = Profile

\* A path that is probed is a path.
LEMMA ProbesArePaths ==
    ASSUME host \in Hosts, NEW p \in Probes
    PROVE  p \in Paths
<1>1. /\ host.root \in Paths /\ host.tmpdir \in Paths /\ host.runtime \in Paths /\ host.expose \subseteq Paths
      /\ \A l \in host.links : l[1] \in Paths
    BY HostPaths
<1>2. <<"home">> \in Paths /\ <<"dev">> \in Paths /\ <<"tmp">> \in Paths /\ <<"run">> \in Paths
      /\ <<"var", "run">> \in Paths
    BY DEF Paths, Names
<1> DEFINE places == {host.root, host.tmpdir, <<"home">>, <<"dev">>, <<"tmp">>, <<"run">>, <<"var", "run">>}
                        \cup ({host.runtime} \ {<<>>}) \cup host.expose \cup {l[1] : l \in host.links}
<1>3. places \subseteq Paths
    BY <1>1, <1>2
<1>4. p \in places \cup {Append(q, "x") : q \in places}
    BY DEF Probes
<1> HIDE DEF places
<1>5. \A q \in places : Append(q, "x") \in Paths
    <2>1. "x" \in Names
        BY DEF Names
    <2> QED
        BY <1>3, <2>1, AppendProperties DEF Paths
<1> QED
    BY <1>3, <1>4, <1>5

\* What a command finds is what the mount that decides makes of it.
LEMMA FoundIs ==
    ASSUME view \in MountLists, view # <<>>, view[1].at = <<>>, NEW p \in Paths
    PROVE  \E k : Decides(p, view, k) /\ Found(p) = view[k].kind
<1> DEFINE k == CHOOSE k \in DOMAIN view :
                    /\ Within(p, view[k].at)
                    /\ \A l \in DOMAIN view : Within(p, view[l].at) => l <= k
<1>1. \E j : Decides(p, view, j)
    BY OneDecides
<1>2. Decides(p, view, k)
    BY <1>1 DEF Decides
<1>3. Found(p) = view[k].kind
    BY DEF Found
<1> QED
    BY <1>2, <1>3

\* bubblewrap shows of the host what it should.
LEMMA BwrapHolds ==
    ASSUME host \in Hosts, backend = "bubblewrap",
           view = BwrapArgs(Masks, EscapingSymlinks(Masks), host.expose)
    PROVE  /\ \A p \in Probes : Found(p) = "write" <=> Granted(p)
           /\ \A p \in Probes : Found(p) = "read" /\ Masked(p) => \E q \in host.expose : Within(p, q)
           /\ \A l \in host.links : ~Masked(l[2]) => Found(l[1]) # "private"
<1> DEFINE masks == Masks
           links == EscapingSymlinks(Masks)
<1>1. masks \in Seq(Paths) /\ links \in SUBSET RunLinks /\ host.expose \in SUBSET Exposable
      /\ RunLinks \subseteq Paths \X Paths
    BY HostPaths, MasksAre DEF EscapingSymlinks
<1>2. ASSUME NEW p \in Paths
      PROVE  BwrapShown(p, Found(p), masks, links, host.expose)
    <2> HIDE DEF masks, links
    <2>1. view = BwrapArgs(masks, links, host.expose)
        BY DEF masks, links
    <2>2. /\ view \in MountLists /\ view # <<>> /\ view[1].at = <<>>
          /\ \A k : Decides(p, view, k) => BwrapShown(p, view[k].kind, masks, links, host.expose)
        BY <1>1, <2>1, BwrapShows
    <2>3. PICK k : Decides(p, view, k) /\ Found(p) = view[k].kind
        BY <2>2, FoundIs
    <2> QED
        BY <2>2, <2>3
<1>3. ASSUME NEW p \in Probes PROVE Found(p) = "write" <=> Granted(p)
    <2>1. BwrapShown(p, Found(p), masks, links, host.expose)
        BY <1>2, ProbesArePaths
    <2> QED
        BY <2>1 DEF BwrapShown, Granted
<1>4. ASSUME NEW p \in Probes, Found(p) = "read", Masked(p) PROVE \E q \in host.expose : Within(p, q)
    <2>1. BwrapShown(p, Found(p), masks, links, host.expose)
        BY <1>2, ProbesArePaths
    <2> QED
        BY <1>4, <2>1 DEF BwrapShown, Masked
<1>5. ASSUME NEW l \in host.links, ~Masked(l[2]) PROVE Found(l[1]) # "private"
    <2>1. l[1] \in Paths /\ l \in links
        BY <1>1, <1>5, HostPaths DEF EscapingSymlinks, Masked
    <2>2. BwrapShown(l[1], Found(l[1]), masks, links, host.expose) /\ Within(l[1], l[1])
        BY <1>2, <2>1, WithinRoot
    <2> QED
        BY <2>1, <2>2 DEF BwrapShown
<1> QED
    BY <1>3, <1>4, <1>5

\* The profile of sandbox-exec allows the writes it should.
LEMMA ProfileHolds ==
    ASSUME host \in Hosts, backend = "sandbox-exec", view = Profile, NEW p \in Probes
    PROVE  Found(p) = "write" <=> Granted(p)
<1>1. /\ DOMAIN view = 1 .. 4 /\ view # <<>> /\ view[1].at = <<>> /\ view[1].kind = "read"
      /\ view[2].at = host.root /\ view[3].at = host.tmpdir /\ view[4].at = <<"dev">>
      /\ \A k \in 2 .. 4 : view[k].kind = "write"
    BY DEF Profile, Mount
<1>2. view \in MountLists
    <2>1. <<>> \in Paths /\ <<"dev">> \in Paths /\ host.root \in Paths /\ host.tmpdir \in Paths
        BY HostPaths DEF Paths, Names
    <2> DEFINE M == [kind : Kinds, at : Paths]
    <2>2. /\ Mount("read", <<>>) \in M /\ Mount("write", host.root) \in M
          /\ Mount("write", host.tmpdir) \in M /\ Mount("write", <<"dev">>) \in M
        BY <2>1 DEF Mount, Kinds
    <2> HIDE DEF M
    <2>3. view \in Seq(M)
        BY <2>2 DEF Profile
    <2> QED
        BY <2>3 DEF MountLists, M
<1>3. PICK k : Decides(p, view, k) /\ Found(p) = view[k].kind
    BY <1>1, <1>2, FoundIs, ProbesArePaths
<1>4. k \in 1 .. 4 /\ Within(p, view[k].at) /\ \A l \in 1 .. 4 : Within(p, view[l].at) => l <= k
    BY <1>1, <1>3 DEF Decides
<1>5. CASE k = 1
    <2>1. ~Within(p, view[2].at) /\ ~Within(p, view[3].at) /\ ~Within(p, view[4].at)
        BY <1>4, <1>5
    <2> QED
        BY <1>1, <1>3, <1>5, <2>1 DEF Granted
<1>6. CASE k \in 2 .. 4
    BY <1>1, <1>3, <1>4, <1>6 DEF Granted
<1> QED
    BY <1>4, <1>5, <1>6

\* Every step keeps the invariant: only _wrap makes a view, for the backend there is.
LEMMA IsolationStep == IsolationInv /\ [IsolationNext]_isolationVars => IsolationInv'
<1> SUFFICES ASSUME IsolationInv, [IsolationNext]_isolationVars PROVE IsolationInv'
    OBVIOUS
<1> USE DEF Masks, EscapingSymlinks, BwrapArgs, Profile
<1>1. CASE UNCHANGED isolationVars
    BY <1>1 DEF isolationVars, IsolationInv
<1>2. ASSUME NEW isolation \in {"auto", "none"} \cup Backends, NEW require \in BOOLEAN,
             Create(isolation, require)
      PROVE  IsolationInv'
    <2>1. host' = host /\ view' = <<>>
        BY <1>2 DEF Create, IsolationInv
    <2>2. require => Select(isolation, require) \in Backends \cup {"refused"}
        BY DEF Select, IsolationInv, Hosts, Backends
    <2>3. required' => backend' \in Backends \cup {"refused"}
        BY <1>2, <2>2 DEF Create
    <2> QED
        BY <2>1, <2>3 DEF IsolationInv
<1>3. CASE StartSandbox \/ StopSandbox
    <2>1. host' = host /\ backend' = backend /\ view' = view /\ required' = required
        BY <1>3 DEF StartSandbox, StopSandbox
    <2> QED
        BY <2>1 DEF IsolationInv
<1>4. CASE Wrap
    <2>1. UNCHANGED <<host, backend, required>> /\ backend # "unset"
        BY <1>4 DEF Wrap, Usable
    <2>2. backend = "bubblewrap" => view' = BwrapArgs(Masks, EscapingSymlinks(Masks), host.expose)
        BY <1>4 DEF Wrap
    <2>3. backend = "sandbox-exec" => view' = Profile
        BY <1>4 DEF Wrap
    <2> QED
        BY <2>1, <2>2, <2>3 DEF IsolationInv
<1> QED
    BY <1>1, <1>2, <1>3, <1>4 DEF IsolationNext

\* bwrap_args and profile(), on any host, with the root, the scratch directory, the
\* runtime directory, the links and the exposed paths anywhere in any relation: a wrapped
\* command changes what it is granted and nothing else, of what is masked it sees what is
\* exposed, and the links out of the masks stay.
THEOREM IsolatedCommandsConfined == IsolationSpec => []IsolationHolds
<1>1. IsolationInit(Hosts) => IsolationInv
    BY DEF IsolationInit, IsolationInv
<1>2. IsolationInv => IsolationHolds
    BY BwrapHolds, ProfileHolds DEF IsolationInv, IsolationHolds, Backends
<1>3. QED
    BY <1>1, <1>2, IsolationStep, PTL DEF IsolationSpec

-----------------------------------------------------------------------------
(* Edits and writes of one file.                                           *)

\* A call of edit_file or write_file is a record.
EditFields == {"phase", "list", "original"}
WriteFields == {"phase", "content"}

FileType ==
    /\ DOMAIN edit = Editors /\ DOMAIN write = Writers
    /\ \A e \in Editors : DOMAIN edit[e] = EditFields
    /\ \A w \in Writers : DOMAIN write[w] = WriteFields

\* A call that is under way holds the lock.
HolderInv ==
    /\ \A e \in Editors : edit[e].phase \in {"locked", "read", "temp"} => lock = e
    /\ \A w \in Writers : write[w].phase \in {"locked", "truncated"} => lock = w

\* The path names a file, and that of an edit only when the edit is done; its text is as
\* the finished calls left it but while a write has emptied it.
PathInv ==
    /\ path # NoFile => path \in DOMAIN data
    /\ \A e \in Editors : path = e => edit[e].phase = "done"
    /\ \A w \in Writers : write[w].phase = "truncated" => path # NoFile
    /\ (path # NoFile /\ \A w \in Writers : write[w].phase # "truncated") => data[path] = expected

\* What an edit has read is still the text of the file, and its temporary file what the
\* list makes of that.
EditInv ==
    \A e \in Editors :
        /\ edit[e].phase \in {"read", "temp"} => path # NoFile /\ edit[e].original = data[path]
        /\ edit[e].phase = "temp" =>
              /\ ApplyEdits(edit[e].original, edit[e].list).ok
              /\ e \in DOMAIN data /\ data[e] = ApplyEdits(edit[e].original, edit[e].list).text

FileInv == FileType /\ HolderInv /\ PathInv /\ EditInv

\* Nobody has called at the start.
LEMMA FileInvInit == ASSUME NEW texts, NEW windows PROVE FileInit(texts, windows) => FileInv
<1> SUFFICES ASSUME FileInit(texts, windows) PROVE FileInv
    OBVIOUS
<1>1. /\ data \in [{"first"} -> texts] /\ path \in {"first", NoFile} /\ expected = data["first"]
      /\ edit = [e \in Editors |-> [phase |-> "new", list |-> <<>>, original |-> <<>>]]
      /\ write = [w \in Writers |-> [phase |-> "new", content |-> <<>>]]
    BY DEF FileInit
<1>2. FileType
    BY <1>1 DEF FileType, EditFields, WriteFields
<1>3. HolderInv /\ EditInv
    BY <1>1 DEF HolderInv, EditInv
<1>4. PathInv
    BY <1>1, FileAssumption DEF PathInv
<1>5. QED
    BY <1>2, <1>3, <1>4 DEF FileInv

\* Reads of the file change nothing that a call goes by.
LEMMA FileInvUnchanged ==
    ASSUME FileInv, UNCHANGED <<path, data, lock, edit, write, expected>>
    PROVE  FileInv'
BY DEF FileInv, FileType, HolderInv, PathInv, EditInv

\* The steps of an edit.
LEMMA EditSteps ==
    ASSUME FileInv, SeenAlike, NEW e \in Editors,
           \/ RefuseEdit(e) \/ LockEdit(e) \/ ReadOriginal(e)
           \/ WriteTemp(e) \/ FailEdit(e) \/ ReplaceFile(e)
    PROVE  FileInv'
<1> USE DEF EditFields
<1>1. /\ DOMAIN edit = Editors /\ DOMAIN edit[e] = EditFields /\ DOMAIN write = Writers
      /\ e # NoOne /\ e # NoFile /\ e # "first" /\ e \notin Writers
    BY FileAssumption DEF FileInv, FileType
<1>2. write' = write
    BY DEF RefuseEdit, LockEdit, ReadOriginal, WriteTemp, FailEdit, ReplaceFile
<1>3. CASE RefuseEdit(e)
    BY <1>1, <1>3 DEF RefuseEdit, FileInv, FileType, HolderInv, PathInv, EditInv
<1>4. CASE LockEdit(e)
    <2>1. PICK list \in EditLists : edit' = [edit EXCEPT ![e].phase = "locked", ![e].list = list]
        BY <1>4 DEF LockEdit
    <2>2. edit[e].phase = "new" /\ lock = NoOne /\ lock' = e /\ UNCHANGED <<path, data, expected>>
        BY <1>4 DEF LockEdit
    <2>3. \A w \in Writers : write[w].phase \notin {"locked", "truncated"}
        BY <2>2, FileAssumption DEF FileInv, HolderInv
    <2>4. \A d \in Editors : edit[d].phase \notin {"locked", "read", "temp"}
        BY <2>2, FileAssumption DEF FileInv, HolderInv
    <2> QED
        BY <1>1, <1>2, <2>1, <2>2, <2>3, <2>4 DEF FileInv, FileType, HolderInv, PathInv, EditInv
<1>5. CASE ReadOriginal(e)
    BY <1>1, <1>2, <1>5 DEF ReadOriginal, FileInv, FileType, HolderInv, PathInv, EditInv
<1>6. ASSUME edit[e].phase \in {"locked", "read", "temp"}
      PROVE  /\ lock = e
             /\ \A w \in Writers : write[w].phase \notin {"locked", "truncated"}
             /\ \A d \in Editors \ {e} : edit[d].phase \notin {"locked", "read", "temp"}
             /\ path # e /\ (path # NoFile => path \in DOMAIN data /\ data[path] = expected)
    <2>1. lock = e
        BY <1>6 DEF FileInv, HolderInv
    <2> QED
        BY <1>1, <1>6, <2>1 DEF FileInv, HolderInv, PathInv
<1>7. CASE WriteTemp(e)
    <2> DEFINE made == ApplyEdits(edit[e].original, edit[e].list)
    <2>1. /\ edit[e].phase = "read" /\ made.ok /\ edit' = [edit EXCEPT ![e].phase = "temp"]
          /\ UNCHANGED <<path, lock, expected>>
        BY <1>7 DEF WriteTemp
    <2>2. data' = [i \in DOMAIN data \cup {e} |-> IF i = e THEN made.text ELSE data[i]]
        BY <1>7 DEF WriteTemp
    <2> HIDE DEF made
    <2>3. /\ DOMAIN data' = {e} \cup DOMAIN data /\ data'[e] = made.text
          /\ \A i \in DOMAIN data \ {e} : data'[i] = data[i]
        BY <2>2
    <2>4. path # NoFile /\ edit[e].original = data[path] /\ data'[path] = data[path]
        BY <1>6, <2>1, <2>3 DEF FileInv, EditInv
    <2>5. FileType' /\ HolderInv'
        BY <1>1, <1>2, <1>6, <2>1 DEF FileInv, FileType, HolderInv
    <2>6. PathInv'
        BY <1>1, <1>2, <1>6, <2>1, <2>3, <2>4 DEF FileInv, PathInv
    <2>7. EditInv'
        <3> SUFFICES ASSUME NEW d \in Editors
                     PROVE  (/\ edit[d].phase \in {"read", "temp"} => path # NoFile /\ edit[d].original = data[path]
                             /\ edit[d].phase = "temp" =>
                                   /\ ApplyEdits(edit[d].original, edit[d].list).ok
                                   /\ d \in DOMAIN data /\ data[d] = ApplyEdits(edit[d].original, edit[d].list).text)'
            BY DEF EditInv
        <3>1. CASE d = e
            BY <1>1, <2>1, <2>3, <2>4, <3>1 DEF made
        <3>2. CASE d # e
            BY <1>1, <1>6, <2>1, <3>2
        <3> QED
            BY <3>1, <3>2
    <2> QED
        BY <2>5, <2>6, <2>7 DEF FileInv
<1>8. CASE FailEdit(e)
    <2>1. /\ edit[e].phase \in {"locked", "read", "temp"} /\ edit' = [edit EXCEPT ![e].phase = "failed"]
          /\ data' = [i \in DOMAIN data \ {e} |-> data[i]] /\ lock' = NoOne /\ UNCHANGED <<path, expected>>
        BY <1>8 DEF FailEdit
    <2>2. path # NoFile => path \in DOMAIN data' /\ data'[path] = data[path]
        BY <1>6, <2>1
    <2>3. \A d \in Editors : edit'[d].phase \notin {"locked", "read", "temp"}
        BY <1>1, <1>6, <2>1
    <2>4. FileType' /\ HolderInv' /\ EditInv'
        BY <1>1, <1>2, <1>6, <2>1, <2>3 DEF FileInv, FileType, HolderInv, EditInv
    <2>5. PathInv'
        BY <1>1, <1>2, <1>6, <2>1, <2>2 DEF FileInv, PathInv
    <2> QED
        BY <2>4, <2>5 DEF FileInv
<1>9. CASE ReplaceFile(e)
    <2>1. /\ edit[e].phase = "temp" /\ path' = e /\ lock' = NoOne /\ data' = data
          /\ edit' = [edit EXCEPT ![e].phase = "done"]
          /\ expected' = AsSeen(expected, edit[e].list).text
        BY <1>9 DEF ReplaceFile
    <2>2. /\ edit[e].original = expected /\ e \in DOMAIN data
          /\ data[e] = ApplyEdits(edit[e].original, edit[e].list).text
          /\ ApplyEdits(edit[e].original, edit[e].list).ok
        BY <1>6, <2>1 DEF FileInv, EditInv
    <2>3. data[e] = expected'
        BY <2>1, <2>2 DEF SeenAlike
    <2>4. \A d \in Editors : edit'[d].phase \notin {"locked", "read", "temp"}
        BY <1>1, <1>6, <2>1
    <2>5. FileType' /\ HolderInv' /\ EditInv'
        BY <1>1, <1>2, <1>6, <2>1, <2>4 DEF FileInv, FileType, HolderInv, EditInv
    <2>6. PathInv'
        BY <1>1, <1>2, <1>6, <2>1, <2>2, <2>3 DEF FileInv, PathInv
    <2> QED
        BY <2>5, <2>6 DEF FileInv
<1>10. QED
    BY <1>3, <1>4, <1>5, <1>7, <1>8, <1>9

\* The steps of a write.
LEMMA WriteSteps ==
    ASSUME FileInv, NEW w \in Writers, LockWrite(w) \/ Truncate(w) \/ WriteData(w)
    PROVE  FileInv'
<1> USE DEF WriteFields
<1>1. /\ DOMAIN edit = Editors /\ DOMAIN write = Writers /\ DOMAIN write[w] = WriteFields
      /\ w # NoOne /\ w # NoFile /\ w \notin Editors
    BY FileAssumption DEF FileInv, FileType
<1>2. edit' = edit
    BY DEF LockWrite, Truncate, WriteData
<1>3. CASE LockWrite(w)
    <2>1. PICK content \in Contents : write' = [write EXCEPT ![w].phase = "locked", ![w].content = content]
        BY <1>3 DEF LockWrite
    <2>2. write[w].phase = "new" /\ lock = NoOne /\ lock' = w /\ UNCHANGED <<path, data, expected>>
        BY <1>3 DEF LockWrite
    <2>3. /\ \A v \in Writers : write[v].phase \notin {"locked", "truncated"}
          /\ \A d \in Editors : edit[d].phase \notin {"locked", "read", "temp"}
        BY <2>2, FileAssumption DEF FileInv, HolderInv
    <2> QED
        BY <1>1, <1>2, <2>1, <2>2, <2>3 DEF FileInv, FileType, HolderInv, PathInv, EditInv
<1>4. ASSUME write[w].phase \in {"locked", "truncated"}
      PROVE  /\ lock = w
             /\ \A v \in Writers \ {w} : write[v].phase \notin {"locked", "truncated"}
             /\ \A d \in Editors : edit[d].phase \notin {"locked", "read", "temp"}
    <2>1. lock = w
        BY <1>4 DEF FileInv, HolderInv
    <2> QED
        BY <1>1, <1>4, <2>1 DEF FileInv, HolderInv
<1>5. CASE Truncate(w)
    <2>1. /\ write[w].phase = "locked" /\ write' = [write EXCEPT ![w].phase = "truncated"]
          /\ lock' = lock /\ path' = IF path = NoFile THEN w ELSE path
        BY <1>5 DEF Truncate
    <2>2. data' = [i \in DOMAIN data \cup {path'} |-> IF i = path' THEN <<>> ELSE data[i]]
        BY <1>5, <2>1 DEF Truncate
    <2>3. DOMAIN data' = {path'} \cup DOMAIN data
        BY <2>2
    <2>4. FileType' /\ HolderInv' /\ EditInv'
        BY <1>1, <1>2, <1>4, <2>1 DEF FileInv, FileType, HolderInv, EditInv
    <2>5. PathInv'
        <3>1. path' # NoFile /\ path' \in DOMAIN data'
            BY <1>1, <2>1, <2>3
        <3>2. \A e \in Editors : path' = e => edit'[e].phase = "done"
            BY <1>1, <1>2, <2>1 DEF FileInv, PathInv
        <3>3. write'[w].phase = "truncated"
            BY <1>1, <2>1
        <3> QED
            BY <3>1, <3>2, <3>3 DEF PathInv
    <2> QED
        BY <2>4, <2>5 DEF FileInv
<1>6. CASE WriteData(w)
    <2>1. PICK n \in 0 .. Len(write[w].content) :
            /\ data' = [data EXCEPT ![path] = SubSeq(write[w].content, 1, n)]
            /\ expected' = SubSeq(write[w].content, 1, n)
            /\ write' = [write EXCEPT ![w].phase = IF n = Len(write[w].content) THEN "done" ELSE "failed"]
        BY <1>6 DEF WriteData
    <2>2. write[w].phase = "truncated" /\ lock' = NoOne /\ path' = path
        BY <1>6 DEF WriteData
    <2>3. path # NoFile /\ path \in DOMAIN data
        BY <2>2 DEF FileInv, PathInv
    <2>4. DOMAIN data' = DOMAIN data /\ data'[path] = expected'
        BY <2>1, <2>3
    <2>5. \A v \in Writers : write'[v].phase \notin {"locked", "truncated"}
        BY <1>1, <1>4, <2>1, <2>2
    <2>6. FileType' /\ HolderInv' /\ EditInv'
        BY <1>1, <1>2, <1>4, <2>1, <2>2, <2>5 DEF FileInv, FileType, HolderInv, EditInv
    <2>7. PathInv'
        BY <1>2, <2>2, <2>3, <2>4, <2>5 DEF FileInv, PathInv
    <2> QED
        BY <2>6, <2>7 DEF FileInv
<1>7. QED
    BY <1>3, <1>5, <1>6

\* Every step keeps the invariant.
LEMMA FileInvStep == FileInv /\ SeenAlike /\ [CallNext \/ ReadNext]_fileVars => FileInv'
<1> SUFFICES ASSUME FileInv, SeenAlike, [CallNext \/ ReadNext]_fileVars PROVE FileInv'
    OBVIOUS
<1>1. CASE UNCHANGED fileVars
    BY <1>1, FileInvUnchanged DEF fileVars
<1>2. CASE ReadNext
    <2>1. UNCHANGED <<path, data, lock, edit, write, expected>>
        BY <1>2 DEF ReadNext, OpenFile, ReadChunk, NextPage
    <2> QED
        BY <2>1, FileInvUnchanged
<1>3. CASE CallNext
    BY <1>3, EditSteps, WriteSteps DEF CallNext
<1>4. QED
    BY <1>1, <1>2, <1>3

\* While nobody holds the lock, no write is half done.
LEMMA FileInvComposes == FileInv => EditsCompose
<1>1. FileInv /\ lock = NoOne => \A w \in Writers : write[w].phase # "truncated"
    BY FileAssumption DEF FileInv, HolderInv
<1> QED
    BY <1>1 DEF FileInv, PathInv, EditsCompose

\* edit_file and write_file, for any number of calls at once and any texts: as long as
\* what the lists do to the text is what they do to its lines, the file holds what the
\* finished calls give one after the other, those that failed having changed nothing or,
\* for a write, left a part.
THEOREM CallsCompose ==
    ASSUME NEW texts, NEW windows
    PROVE  FileInit(texts, windows) /\ [][CallNext \/ ReadNext]_fileVars /\ []SeenAlike => []EditsCompose
<1>1. FileInit(texts, windows) => FileInv
    BY FileInvInit
<1>2. QED
    BY <1>1, FileInvComposes, FileInvStep, PTL


-----------------------------------------------------------------------------
(* Edits of texts over Chars.  Where lines end in LF, that is anything but *)
(* a CR.                                                                   *)

\* f has a first value and a next one for each.
Iterates(f, base, next, n) == f[0] = base /\ \A k \in 1 .. n : f[k] = next[k][f[k - 1]]

\* There is such a function, one value after the other.
LEMMA Recursion ==
    ASSUME NEW S, NEW base \in S, NEW n \in Nat, NEW next \in [1 .. n -> [S -> S]]
    PROVE  \E f \in [0 .. n -> S] : Iterates(f, base, next, n)
<1> DEFINE Upto(f, m) ==
               /\ f \in [0 .. m -> S] /\ f[0] = base
               /\ \A k \in 1 .. m : f[k] = next[k][f[k - 1]]
           T == {m \in Nat : m <= n => \E f : Upto(f, m)}
<1>1. 0 \in T
    <2>1. Upto([k \in 0 .. 0 |-> base], 0)
        OBVIOUS
    <2> QED
        BY <2>1
<1>2. ASSUME NEW m \in Nat, m \in T PROVE m + 1 \in T
    <2> SUFFICES ASSUME m + 1 <= n PROVE \E f : Upto(f, m + 1)
        OBVIOUS
    <2>1. PICK f : Upto(f, m)
        BY <1>2
    <2> DEFINE last == next[m + 1][f[m]]
               g == [k \in 0 .. (m + 1) |-> IF k \in 0 .. m THEN f[k] ELSE last]
    <2>2. last \in S
        BY <2>1
    <2>3. g \in [0 .. (m + 1) -> S] /\ g[0] = base
        BY <2>1, <2>2
    <2>4. ASSUME NEW k \in 1 .. (m + 1) PROVE g[k] = next[k][g[k - 1]]
        <3>1. CASE k \in 1 .. m
            <4>1. k - 1 \in 0 .. m /\ k \in 0 .. m
                BY <3>1
            <4> QED
                BY <2>1, <3>1, <4>1
        <3>2. CASE k = m + 1
            <4>1. g[k] = last /\ g[k - 1] = f[m]
                BY <3>2
            <4> QED
                BY <3>2, <4>1
        <3> QED
            BY <3>1, <3>2
    <2>5. Upto(g, m + 1)
        BY <2>3, <2>4
    <2> QED
        BY <2>5
<1> HIDE DEF T
<1>3. Nat \subseteq T
    BY <1>1, <1>2, Induction
<1>4. \E f : Upto(f, n)
    BY <1>3 DEF T
<1> QED
    BY <1>4 DEF Iterates

\* Substitute adds one piece after the other, and makes a text of text.
SubstituteSteps(made, text, at, old, new) ==
    /\ made[0] = <<>>
    /\ \A i \in 1 .. Len(text) :
          made[i] = made[i - 1] \o (IF i \in at THEN new
                                    ELSE IF \E j \in at : j < i /\ i < j + Len(old) THEN <<>>
                                    ELSE <<text[i]>>)
    /\ Substitute(text, at, old, new) = made[Len(text)]

LEMMA SubstituteIs ==
    ASSUME NEW Chars, NEW text \in Seq(Chars), NEW at, NEW old, NEW new \in Seq(Chars)
    PROVE  \E made \in [0 .. Len(text) -> Seq(Chars)] : SubstituteSteps(made, text, at, old, new)
<1> DEFINE n == Len(text)
           piece(i) == IF i \in at THEN new
                       ELSE IF \E j \in at : j < i /\ i < j + Len(old) THEN <<>>
                       ELSE <<text[i]>>
           next == [i \in 1 .. n |-> [x \in Seq(Chars) |-> x \o piece(i)]]
           Made(h) == h = [i \in 0 .. n |-> IF i = 0 THEN <<>> ELSE h[i - 1] \o piece(i)]
           g == CHOOSE upTo : upTo = [i \in 0 .. Len(text) |->
                    IF i = 0 THEN <<>>
                    ELSE upTo[i - 1] \o (IF i \in at THEN new
                                         ELSE IF \E j \in at : j < i /\ i < j + Len(old) THEN <<>>
                                         ELSE <<text[i]>>)]
<1>1. n \in Nat /\ \A i \in 1 .. n : text[i] \in Chars
    OBVIOUS
<1>2. \A i \in 1 .. n : piece(i) \in Seq(Chars)
    BY <1>1
<1>3. (\E h : Made(h)) => Made(g)
    BY Zenon
<1>4. Substitute(text, at, old, new) = g[n]
    BY DEF Substitute
<1> HIDE DEF piece, g
<1>5. next \in [1 .. n -> [Seq(Chars) -> Seq(Chars)]]
    <2>1. ASSUME NEW i \in 1 .. n, NEW x \in Seq(Chars) PROVE x \o piece(i) \in Seq(Chars)
        BY <1>2, ConcatProperties
    <2> QED
        BY <2>1
<1>6. PICK f \in [0 .. n -> Seq(Chars)] : f[0] = <<>> /\ \A i \in 1 .. n : f[i] = next[i][f[i - 1]]
    <2> HIDE DEF next, n
    <2>1. <<>> \in Seq(Chars)
        OBVIOUS
    <2>2. \E f \in [0 .. n -> Seq(Chars)] : Iterates(f, <<>>, next, n)
        BY <1>1, <1>5, <2>1, Recursion
    <2> QED
        BY <2>2 DEF Iterates
<1>7. \A i \in 1 .. n : f[i] = f[i - 1] \o piece(i)
    <2> TAKE i \in 1 .. n
    <2>1. i - 1 \in 0 .. n
        BY <1>1
    <2>2. f[i - 1] \in Seq(Chars)
        BY <2>1
    <2>3. next[i][f[i - 1]] = f[i - 1] \o piece(i)
        BY <2>2
    <2> QED
        BY <1>6, <2>3
<1>8. Made(f)
    BY <1>1, <1>6, <1>7
<1>9. Made(g)
    BY <1>3, <1>8
<1> HIDE DEF next, n
<1> DEFINE T == {i \in Nat : i <= n => g[i] = f[i]}
<1>10. 0 \in T
    BY <1>1, <1>6, <1>9
<1>11. ASSUME NEW i \in Nat, i \in T PROVE i + 1 \in T
    <2> SUFFICES ASSUME i + 1 <= n PROVE g[i + 1] = f[i + 1]
        OBVIOUS
    <2>1. i + 1 \in 0 .. n /\ i + 1 \in 1 .. n /\ i + 1 # 0 /\ (i + 1) - 1 = i /\ g[i] = f[i]
        BY <1>1, <1>11
    <2>2. g[i + 1] = g[i] \o piece(i + 1)
        BY <1>9, <2>1
    <2> QED
        BY <1>7, <2>1, <2>2
<1> HIDE DEF T
<1>12. Nat \subseteq T
    BY <1>10, <1>11, Induction
<1>13. g[n] = f[n]
    BY <1>1, <1>12 DEF T
<1> QED
    BY <1>4, <1>6, <1>7, <1>13 DEF SubstituteSteps, n, piece

\* Where there is no occurrence, nothing is substituted.
LEMMA NothingSubstituted ==
    ASSUME NEW Chars, NEW text \in Seq(Chars), NEW old, NEW new \in Seq(Chars)
    PROVE  Len(Substitute(text, {}, old, new)) = Len(text)
<1>1. PICK made \in [0 .. Len(text) -> Seq(Chars)] : SubstituteSteps(made, text, {}, old, new)
    BY SubstituteIs
<1> DEFINE T == {i \in Nat : i <= Len(text) => Len(made[i]) = i}
<1>2. 0 \in T
    BY <1>1 DEF SubstituteSteps
<1>3. ASSUME NEW i \in Nat, i \in T PROVE i + 1 \in T
    <2> SUFFICES ASSUME i + 1 <= Len(text) PROVE Len(made[i + 1]) = i + 1
        OBVIOUS
    <2>1. i + 1 \in 1 .. Len(text) /\ (i + 1) - 1 = i /\ i \in 0 .. Len(text) /\ Len(made[i]) = i
        BY <1>3
    <2>2. made[i + 1] = made[i] \o <<text[i + 1]>>
        BY <1>1, <2>1 DEF SubstituteSteps
    <2>3. made[i] \in Seq(Chars) /\ text[i + 1] \in Chars
        BY <2>1
    <2> QED
        BY <2>1, <2>2, <2>3
<1> HIDE DEF T
<1>4. Nat \subseteq T
    BY <1>2, <1>3, Induction
<1>5. Len(text) \in T
    BY <1>4
<1> QED
    BY <1>1, <1>5 DEF SubstituteSteps, T

\* A text without CR is not taken for one of CR LF.
LEMMA LfIsLf ==
    ASSUME NEW Chars, "CR" \notin Chars, NEW text \in Seq(Chars)
    PROVE  /\ ~(Breaks(text) # {} /\ OnlyCrlf(text))
           /\ ~(Len(ToLf(text)) < Len(text))
<1>1. Len(text) \in Nat /\ DOMAIN text = 1 .. Len(text) /\ \A i \in 1 .. Len(text) : text[i] # "CR"
    OBVIOUS
<1>2. ~(Breaks(text) # {} /\ OnlyCrlf(text))
    <2> SUFFICES ASSUME NEW b \in Breaks(text), OnlyCrlf(text) PROVE FALSE
        OBVIOUS
    <2>1. b \in 1 .. Len(text) /\ BreakEnd(text, b) = b
        BY <1>1 DEF Breaks, BreakEnd
    <2>2. BreakEnd(text, b) = b + 1
        BY DEF OnlyCrlf
    <2> QED
        BY <2>1, <2>2
<1>3. Occurrences(text, <<"CR", "LF">>) = {}
    <2> SUFFICES ASSUME NEW i \in Occurrences(text, <<"CR", "LF">>) PROVE FALSE
        OBVIOUS
    <2>1. i \in 1 .. Len(text) /\ Slice(text, i, i + 1) = <<"CR", "LF">>
        <3>1. Len(<<"CR", "LF">>) = 2
            OBVIOUS
        <3>2. i \in DOMAIN text /\ Slice(text, i, i + Len(<<"CR", "LF">>) - 1) = <<"CR", "LF">>
            BY DEF Occurrences
        <3>3. i + Len(<<"CR", "LF">>) - 1 = i + 1
            BY <1>1, <3>1, <3>2
        <3> QED
            BY <1>1, <3>2, <3>3
    <2> DEFINE m == IF i + 1 < Len(text) THEN i + 1 ELSE Len(text)
    <2>2. m \in 1 .. Len(text) /\ i <= m
        BY <1>1, <2>1
    <2>3. SubSeq(text, i, m)[1] = text[i]
        BY <2>1, <2>2
    <2>4. SubSeq(text, i, m) = <<"CR", "LF">>
        BY <2>1 DEF Slice
    <2> HIDE DEF m
    <2>5. text[i] = "CR"
        BY <2>3, <2>4
    <2> QED
        BY <1>1, <2>1, <2>5
<1>4. Len(ToLf(text)) = Len(text)
    <2> DEFINE Both == Chars \cup {"LF"}
    <2>1. text \in Seq(Both) /\ <<"LF">> \in Seq(Both)
        BY SeqMonotonic
    <2>2. ToLf(text) = Substitute(text, {}, <<"CR", "LF">>, <<"LF">>)
        BY <1>3 DEF ToLf, Replaced
    <2> HIDE DEF Both
    <2> QED
        BY <2>1, <2>2, NothingSubstituted, SMTT(30)
<1> QED
    BY <1>1, <1>2, <1>4

\* What an edit makes of a text.
Outcomes(Chars) == [ok : BOOLEAN, text : Seq(Chars)]

EditsOf(Chars, Olds) == [old : Olds, new : Seq(Chars), all : BOOLEAN]

\* The new text of an edit may be given CR LF, when the file has them.
Recodes(crlf, Chars) == crlf \in BOOLEAN /\ (crlf => {"CR", "LF"} \subseteq Chars)

LEMMA ReplacedIs ==
    ASSUME NEW Chars, NEW text \in Seq(Chars), NEW at, NEW old, NEW new \in Seq(Chars)
    PROVE  Substitute(text, at, old, new) \in Seq(Chars)
<1>1. PICK o \in [0 .. Len(text) -> Seq(Chars)] : SubstituteSteps(o, text, at, old, new)
    BY SubstituteIs
<1>2. Len(text) \in 0 .. Len(text)
    OBVIOUS
<1> QED
    BY <1>1, <1>2 DEF SubstituteSteps

LEMMA ToCrlfIs ==
    ASSUME NEW Chars, {"CR", "LF"} \subseteq Chars, NEW text \in Seq(Chars)
    PROVE  ToCrlf(text) \in Seq(Chars)
<1>1. <<"LF">> \in Seq(Chars) /\ <<"CR", "LF">> \in Seq(Chars)
    OBVIOUS
<1>2. ToLf(text) \in Seq(Chars)
    BY <1>1, ReplacedIs DEF ToLf, Replaced
<1> QED
    BY <1>1, <1>2, ReplacedIs DEF ToCrlf, Replaced

\* One edit of a text over some characters gives another.
LEMMA ApplyOneIs ==
    ASSUME NEW Chars, NEW Olds, NEW text \in Seq(Chars), NEW e \in EditsOf(Chars, Olds),
           NEW crlf, Recodes(crlf, Chars)
    PROVE  ApplyOne(text, e, crlf) \in Outcomes(Chars)
<1> DEFINE recoded == Occurrences(text, e.old) = {} /\ crlf /\ Contains(e.old, "LF")
           old == IF recoded THEN ToCrlf(e.old) ELSE e.old
           new == IF recoded \/ (crlf /\ Contains(e.new, "LF")) THEN ToCrlf(e.new) ELSE e.new
           at == Occurrences(text, old)
           ok == /\ e.old # <<>> /\ e.old # e.new
                 /\ at # {} /\ (e.all \/ Cardinality(at) = 1)
           made == Substitute(text, at, old, new)
<1>1. ApplyOne(text, e, crlf) = [ok |-> ok, text |-> made]
    BY DEF ApplyOne
<1>2. e.new \in Seq(Chars) /\ e.all \in BOOLEAN
    BY DEF EditsOf
<1>3. new \in Seq(Chars)
    <2>1. crlf => ToCrlf(e.new) \in Seq(Chars)
        BY <1>2, ToCrlfIs DEF Recodes
    <2>2. crlf \in BOOLEAN
        BY DEF Recodes
    <2> QED
        BY <1>2, <2>1, <2>2
<1> HIDE DEF recoded, old, new, at
<1>4. ok \in BOOLEAN
    BY <1>2
<1>5. made \in Seq(Chars)
    BY <1>3, ReplacedIs
<1> HIDE DEF ok, made
<1>6. ASSUME NEW a \in BOOLEAN, NEW b \in Seq(Chars) PROVE [ok |-> a, text |-> b] \in Outcomes(Chars)
    BY DEF Outcomes
<1>7. [ok |-> ok, text |-> made] \in Outcomes(Chars)
    BY <1>4, <1>5, <1>6, Zenon
<1> QED
    BY <1>1, <1>7, Zenon

\* So does a list of edits, one after the other.
LEMMA SequentiallyIs ==
    ASSUME NEW Chars, NEW Olds, NEW text \in Seq(Chars), NEW edits \in Seq(EditsOf(Chars, Olds)),
           NEW crlf, Recodes(crlf, Chars)
    PROVE  Sequentially(text, edits, crlf) \in Outcomes(Chars)
<1> DEFINE n == Len(edits)
           S == Outcomes(Chars)
           base == [ok |-> TRUE, text |-> text]
           Step(k, x) == IF ~x.ok THEN x ELSE ApplyOne(x.text, edits[k], crlf)
           next == [k \in 1 .. n |-> [x \in S |-> Step(k, x)]]
           Made(h) == h = [k \in 0 .. n |-> IF k = 0 THEN base ELSE Step(k, h[k - 1])]
           g == CHOOSE after : after = [k \in 0 .. Len(edits) |->
                    IF k = 0 THEN [ok |-> TRUE, text |-> text]
                    ELSE IF ~after[k - 1].ok THEN after[k - 1]
                    ELSE ApplyOne(after[k - 1].text, edits[k], crlf)]
<1>1. n \in Nat /\ \A k \in 1 .. n : edits[k] \in EditsOf(Chars, Olds)
    BY ElementOfSeq
<1>2. base \in S
    BY DEF Outcomes
<1>3. (\E h : Made(h)) => Made(g)
    BY Zenon
<1>4. Sequentially(text, edits, crlf) = g[n]
    BY DEF Sequentially
<1>5. next \in [1 .. n -> [S -> S]]
    <2>1. ASSUME NEW k \in 1 .. n, NEW x \in S PROVE Step(k, x) \in S
        <3>1. x.text \in Seq(Chars)
            BY DEF Outcomes
        <3>2. ApplyOne(x.text, edits[k], crlf) \in S
            BY <1>1, <3>1, ApplyOneIs
        <3> QED
            BY <3>2
    <2> HIDE DEF Step, S
    <2> QED
        BY <2>1
<1> HIDE DEF Step, g, base, S
<1>6. PICK f \in [0 .. n -> S] : f[0] = base /\ \A k \in 1 .. n : f[k] = next[k][f[k - 1]]
    <2> HIDE DEF next, n
    <2>1. \E f \in [0 .. n -> S] : Iterates(f, base, next, n)
        BY <1>1, <1>2, <1>5, Recursion
    <2> QED
        BY <2>1 DEF Iterates
<1>7. \A k \in 1 .. n : f[k] = Step(k, f[k - 1])
    <2> TAKE k \in 1 .. n
    <2>1. k - 1 \in 0 .. n
        BY <1>1
    <2>2. f[k - 1] \in S
        BY <2>1
    <2>3. next[k][f[k - 1]] = Step(k, f[k - 1])
        BY <2>2
    <2> QED
        BY <1>6, <2>3
<1>8. Made(f)
    BY <1>1, <1>6, <1>7
<1>9. Made(g)
    BY <1>3, <1>8
<1> HIDE DEF next, n
<1> DEFINE T == {k \in Nat : k <= n => g[k] = f[k]}
<1>10. 0 \in T
    BY <1>1, <1>6, <1>9
<1>11. ASSUME NEW k \in Nat, k \in T PROVE k + 1 \in T
    <2> SUFFICES ASSUME k + 1 <= n PROVE g[k + 1] = f[k + 1]
        OBVIOUS
    <2>1. k + 1 \in 0 .. n /\ k + 1 \in 1 .. n /\ k + 1 # 0 /\ (k + 1) - 1 = k /\ g[k] = f[k]
        BY <1>1, <1>11
    <2>2. g[k + 1] = Step(k + 1, g[k])
        BY <1>9, <2>1
    <2> QED
        BY <1>7, <2>1, <2>2
<1> HIDE DEF T
<1>12. Nat \subseteq T
    BY <1>10, <1>11, Induction
<1>13. g[n] = f[n] /\ n \in 0 .. n
    BY <1>1, <1>12 DEF T
<1> QED
    BY <1>4, <1>6, <1>13 DEF S

\* The texts of the files, of the edits under way and of the writes are over Chars.
TextsInv(Chars) ==
    /\ \A i \in DOMAIN data : data[i] \in Seq(Chars)
    /\ \A e \in Editors :
          /\ edit[e].phase \in {"locked", "read", "temp"} => edit[e].list \in EditLists
          /\ edit[e].phase \in {"read", "temp"} => edit[e].original \in Seq(Chars)
    /\ \A w \in Writers : write[w].phase \in {"locked", "truncated"} => write[w].content \in Contents

\* An edit list makes of a text over Chars another.
EditsKeepIn(Chars) ==
    \A text \in Seq(Chars), list \in EditLists : ApplyEdits(text, list).text \in Seq(Chars)

\* Without CR a text is edited as it is seen.
LEMMA LfSeenAlike ==
    ASSUME NEW Chars, "CR" \notin Chars, TextsInv(Chars)
    PROVE  SeenAlike
<1> SUFFICES ASSUME NEW e \in Editors, edit[e].phase \in {"read", "temp"}
             PROVE  ApplyEdits(edit[e].original, edit[e].list) = AsSeen(edit[e].original, edit[e].list)
    BY DEF SeenAlike
<1> DEFINE text == edit[e].original
<1>1. text \in Seq(Chars)
    BY DEF TextsInv
<1> HIDE DEF text
<1>2. ~(Breaks(text) # {} /\ OnlyCrlf(text))
    BY <1>1, LfIsLf
<1>3. AsSeen(text, edit[e].list) = ApplyEdits(text, edit[e].list)
    BY <1>2 DEF AsSeen
<1> QED
    BY <1>3 DEF text

\* Without CR, an edit list puts none in.
LEMMA LfEditsKeep ==
    ASSUME NEW Chars, "CR" \notin Chars, NEW Olds, EditLists \subseteq Seq(EditsOf(Chars, Olds))
    PROVE  EditsKeepIn(Chars)
<1> SUFFICES ASSUME NEW text \in Seq(Chars), NEW list \in EditLists
             PROVE  ApplyEdits(text, list).text \in Seq(Chars)
    BY DEF EditsKeepIn
<1>1. (Len(ToLf(text)) < Len(text)) = FALSE
    BY LfIsLf
<1>2. ApplyEdits(text, list) = Sequentially(text, list, FALSE)
    BY <1>1 DEF ApplyEdits
<1>3. Recodes(FALSE, Chars)
    BY DEF Recodes
<1> QED
    <2>1. list \in Seq(EditsOf(Chars, Olds))
        OBVIOUS
    <2>2. Sequentially(text, list, FALSE) \in Outcomes(Chars)
        BY <1>3, <2>1, SequentiallyIs
    <2> QED
        BY <1>2, <2>2 DEF Outcomes

\* Every step keeps the texts over Chars, when the texts of the calls are.
LEMMA TextsStep ==
    ASSUME NEW Chars, Contents \subseteq Seq(Chars), EditsKeepIn(Chars),
           FileType, path # NoFile => path \in DOMAIN data,
           TextsInv(Chars), [CallNext \/ ReadNext]_fileVars
    PROVE  TextsInv(Chars)'
<1>1. /\ DOMAIN edit = Editors /\ DOMAIN write = Writers
      /\ \A e \in Editors : DOMAIN edit[e] = EditFields
      /\ \A w \in Writers : DOMAIN write[w] = WriteFields
    BY DEF FileType
<1> USE DEF EditFields, WriteFields
<1>2. CASE UNCHANGED fileVars
    BY <1>2 DEF fileVars, TextsInv
<1>3. CASE ReadNext
    <2>1. UNCHANGED <<data, edit, write>>
        BY <1>3 DEF ReadNext, OpenFile, ReadChunk, NextPage
    <2> QED
        BY <2>1 DEF TextsInv
<1>4. ASSUME NEW e \in Editors, RefuseEdit(e) PROVE TextsInv(Chars)'
    BY <1>1, <1>4 DEF RefuseEdit, TextsInv
<1>5. ASSUME NEW e \in Editors, LockEdit(e) PROVE TextsInv(Chars)'
    <2>1. PICK list \in EditLists : edit' = [edit EXCEPT ![e].phase = "locked", ![e].list = list]
        BY <1>5 DEF LockEdit
    <2> QED
        BY <1>1, <1>5, <2>1 DEF LockEdit, TextsInv
<1>6. ASSUME NEW e \in Editors, ReadOriginal(e) PROVE TextsInv(Chars)'
    <2>1. data[path] \in Seq(Chars)
        BY <1>6 DEF ReadOriginal, TextsInv
    <2> QED
        BY <1>1, <1>6, <2>1 DEF ReadOriginal, TextsInv
<1>7. ASSUME NEW e \in Editors, WriteTemp(e) PROVE TextsInv(Chars)'
    <2> DEFINE text == edit[e].original
               list == edit[e].list
               made == ApplyEdits(text, list)
    <2>1. /\ edit[e].phase = "read" /\ edit' = [edit EXCEPT ![e].phase = "temp"] /\ write' = write
          /\ data' = [i \in DOMAIN data \cup {e} |-> IF i = e THEN made.text ELSE data[i]]
        BY <1>7 DEF WriteTemp
    <2>2. text \in Seq(Chars) /\ list \in EditLists
        BY <2>1 DEF TextsInv
    <2> HIDE DEF text, list
    <2>3. made.text \in Seq(Chars)
        BY <2>2 DEF EditsKeepIn
    <2> HIDE DEF made
    <2>4. \A i \in DOMAIN data' : data'[i] \in Seq(Chars)
        BY <2>1, <2>3 DEF TextsInv
    <2> QED
        BY <1>1, <2>1, <2>2, <2>4 DEF TextsInv, text, list
<1>8. ASSUME NEW e \in Editors, FailEdit(e) PROVE TextsInv(Chars)'
    <2>1. /\ edit' = [edit EXCEPT ![e].phase = "failed"] /\ write' = write
          /\ data' = [i \in DOMAIN data \ {e} |-> data[i]]
        BY <1>8 DEF FailEdit
    <2> QED
        BY <1>1, <2>1 DEF TextsInv
<1>9. ASSUME NEW e \in Editors, ReplaceFile(e) PROVE TextsInv(Chars)'
    BY <1>1, <1>9 DEF ReplaceFile, TextsInv
<1>10. ASSUME NEW w \in Writers, LockWrite(w) PROVE TextsInv(Chars)'
    <2>1. PICK content \in Contents : write' = [write EXCEPT ![w].phase = "locked", ![w].content = content]
        BY <1>10 DEF LockWrite
    <2> QED
        BY <1>1, <1>10, <2>1 DEF LockWrite, TextsInv
<1>11. ASSUME NEW w \in Writers, Truncate(w) PROVE TextsInv(Chars)'
    <2>1. PICK inode : data' = [i \in DOMAIN data \cup {inode} |-> IF i = inode THEN <<>> ELSE data[i]]
        BY <1>11 DEF Truncate
    <2>2. \A i \in DOMAIN data' : data'[i] \in Seq(Chars)
        BY <2>1 DEF TextsInv
    <2>3. write' = [write EXCEPT ![w].phase = "truncated"] /\ write[w].phase = "locked" /\ edit' = edit
        BY <1>11 DEF Truncate
    <2> QED
        BY <1>1, <2>2, <2>3 DEF TextsInv
<1>12. ASSUME NEW w \in Writers, WriteData(w) PROVE TextsInv(Chars)'
    <2>1. PICK n \in 0 .. Len(write[w].content) :
            /\ data' = [data EXCEPT ![path] = SubSeq(write[w].content, 1, n)]
            /\ write' = [write EXCEPT ![w].phase = IF n = Len(write[w].content) THEN "done" ELSE "failed"]
        BY <1>12 DEF WriteData
    <2>2. write[w].content \in Seq(Chars) /\ edit' = edit
        BY <1>12 DEF WriteData, TextsInv
    <2>3. SubSeq(write[w].content, 1, n) \in Seq(Chars)
        BY <2>2, SubSeqProperties
    <2>4. \A i \in DOMAIN data' : data'[i] \in Seq(Chars)
        BY <2>1, <2>3 DEF TextsInv
    <2> QED
        BY <1>1, <2>1, <2>2, <2>4 DEF TextsInv
<1> QED
    BY <1>2, <1>3, <1>4, <1>5, <1>6, <1>7, <1>8, <1>9, <1>10, <1>11, <1>12 DEF CallNext

\* Where lines end in LF, in the files and in what the calls put in them, the calls
\* compose whatever the texts are: edit_file's matching sees what the model saw.
THEOREM LfCallsCompose ==
    ASSUME NEW Chars, "CR" \notin Chars, NEW Olds, NEW texts \in SUBSET Seq(Chars), NEW windows,
           Contents \subseteq Seq(Chars), EditLists \subseteq Seq(EditsOf(Chars, Olds))
    PROVE  FileInit(texts, windows) /\ [][CallNext \/ ReadNext]_fileVars => []EditsCompose
<1>1. FileInit(texts, windows) => FileInv /\ TextsInv(Chars)
    <2> SUFFICES ASSUME FileInit(texts, windows) PROVE FileInv /\ TextsInv(Chars)
        OBVIOUS
    <2>1. /\ data \in [{"first"} -> texts]
          /\ edit = [e \in Editors |-> [phase |-> "new", list |-> <<>>, original |-> <<>>]]
          /\ write = [w \in Writers |-> [phase |-> "new", content |-> <<>>]]
        BY DEF FileInit
    <2>2. TextsInv(Chars)
        BY <2>1 DEF TextsInv
    <2> QED
        BY <2>2, FileInvInit
<1>2. FileInv /\ TextsInv(Chars) /\ [CallNext \/ ReadNext]_fileVars => FileInv' /\ TextsInv(Chars)'
    <2>1. FileInv => FileType /\ (path # NoFile => path \in DOMAIN data)
        BY DEF FileInv, PathInv
    <2> QED
        BY <2>1, LfSeenAlike, LfEditsKeep, FileInvStep, TextsStep
<1>3. FileInv => EditsCompose
    BY FileInvComposes
<1>4. QED
    BY <1>1, <1>2, <1>3, PTL

-----------------------------------------------------------------------------
(* Searches.                                                               *)

\* The numbers in order, one after the other.
Collected(f, places, n) ==
    /\ f[0] = <<>> /\ InOrder(places, n) = f[n]
    /\ \A k \in 1 .. n : f[k] = IF k \in places THEN Append(f[k - 1], k) ELSE f[k - 1]

LEMMA InOrderSteps ==
    ASSUME NEW places, NEW n \in Nat
    PROVE  \E f \in [0 .. n -> Seq(Nat)] : Collected(f, places, n)
<1> DEFINE Step(k, x) == IF k \in places THEN Append(x, k) ELSE x
           next == [k \in 1 .. n |-> [x \in Seq(Nat) |-> Step(k, x)]]
           Made(h) == h = [k \in 0 .. n |-> IF k = 0 THEN <<>> ELSE Step(k, h[k - 1])]
           g == CHOOSE upTo : upTo = [k \in 0 .. n |->
                    IF k = 0 THEN <<>> ELSE IF k \in places THEN Append(upTo[k - 1], k) ELSE upTo[k - 1]]
<1>1. (\E h : Made(h)) => Made(g)
    BY Zenon
<1>2. InOrder(places, n) = g[n]
    BY DEF InOrder
<1> HIDE DEF g
<1>3. next \in [1 .. n -> [Seq(Nat) -> Seq(Nat)]]
    <2>1. ASSUME NEW k \in 1 .. n, NEW x \in Seq(Nat) PROVE Step(k, x) \in Seq(Nat)
        BY AppendProperties
    <2> HIDE DEF Step
    <2> QED
        BY <2>1
<1> HIDE DEF Step
<1>4. PICK f \in [0 .. n -> Seq(Nat)] : f[0] = <<>> /\ \A k \in 1 .. n : f[k] = next[k][f[k - 1]]
    <2> HIDE DEF next
    <2>1. \E f \in [0 .. n -> Seq(Nat)] : Iterates(f, <<>>, next, n)
        <3>1. <<>> \in Seq(Nat)
            OBVIOUS
        <3> QED
            BY <1>3, <3>1, Recursion
    <2> QED
        BY <2>1 DEF Iterates
<1>5. \A k \in 1 .. n : f[k] = Step(k, f[k - 1])
    <2> TAKE k \in 1 .. n
    <2>1. f[k - 1] \in Seq(Nat)
        OBVIOUS
    <2> QED
        BY <1>4, <2>1
<1>6. Made(g)
    <2>1. f = [k \in 0 .. n |-> IF k = 0 THEN <<>> ELSE Step(k, f[k - 1])]
        BY <1>4, <1>5
    <2> QED
        BY <1>1, <2>1
<1> HIDE DEF next
<1> DEFINE T == {k \in Nat : k <= n => g[k] = f[k]}
<1>7. 0 \in T
    BY <1>4, <1>6
<1>8. ASSUME NEW k \in Nat, k \in T PROVE k + 1 \in T
    <2> SUFFICES ASSUME k + 1 <= n PROVE g[k + 1] = f[k + 1]
        OBVIOUS
    <2>1. k + 1 \in 0 .. n /\ k + 1 \in 1 .. n /\ k + 1 # 0 /\ (k + 1) - 1 = k /\ g[k] = f[k]
        BY <1>8
    <2>2. g[k + 1] = Step(k + 1, g[k])
        BY <1>6, <2>1
    <2> QED
        BY <1>5, <2>1, <2>2
<1> HIDE DEF T
<1>9. n \in T
    BY <1>7, <1>8, Induction
<1>10. g[n] = f[n]
    BY <1>9 DEF T
<1>11. \A k \in 1 .. n : f[k] = IF k \in places THEN Append(f[k - 1], k) ELSE f[k - 1]
    BY <1>5 DEF Step
<1> QED
    BY <1>2, <1>4, <1>10, <1>11 DEF Collected

LEMMA InOrderNext ==
    ASSUME NEW places
    PROVE  /\ InOrder(places, 0) = <<>>
           /\ \A n \in Nat :
                /\ InOrder(places, n) \in Seq(Nat)
                /\ InOrder(places, n + 1) = IF n + 1 \in places THEN Append(InOrder(places, n), n + 1)
                                            ELSE InOrder(places, n)
<1>1. InOrder(places, 0) = <<>>
    <2>1. PICK f \in [0 .. 0 -> Seq(Nat)] : Collected(f, places, 0)
        BY InOrderSteps, 0 \in Nat
    <2> QED
        BY <2>1 DEF Collected
<1>2. ASSUME NEW n \in Nat
      PROVE  /\ InOrder(places, n) \in Seq(Nat)
             /\ InOrder(places, n + 1) = IF n + 1 \in places THEN Append(InOrder(places, n), n + 1)
                                         ELSE InOrder(places, n)
    <2>1. PICK f \in [0 .. n -> Seq(Nat)] : Collected(f, places, n)
        BY InOrderSteps
    <2>2. PICK g \in [0 .. (n + 1) -> Seq(Nat)] : Collected(g, places, n + 1)
        BY n + 1 \in Nat, InOrderSteps
    <2> USE DEF Collected
    <2> DEFINE T == {k \in Nat : k <= n => g[k] = f[k]}
    <2>3. 0 \in T
        BY <2>1, <2>2
    <2>4. ASSUME NEW k \in Nat, k \in T PROVE k + 1 \in T
        <3> SUFFICES ASSUME k + 1 <= n PROVE g[k + 1] = f[k + 1]
            OBVIOUS
        <3>1. k + 1 \in 1 .. n /\ k + 1 \in 1 .. (n + 1) /\ (k + 1) - 1 = k /\ g[k] = f[k]
            BY <2>4
        <3> QED
            BY <2>1, <2>2, <3>1
    <2> HIDE DEF T
    <2>5. n \in T
        BY <2>3, <2>4, Induction
    <2>6. g[n] = f[n] /\ n + 1 \in 1 .. (n + 1) /\ (n + 1) - 1 = n
        BY <2>5 DEF T
    <2> QED
        BY <2>1, <2>2, <2>6
<1> QED
    BY <1>1, <1>2

\* Nothing twice, in order, and nothing left out.
LEMMA InOrderIs ==
    ASSUME NEW places, NEW n \in Nat
    PROVE  LET s == InOrder(places, n) IN
           /\ s \in Seq(Nat) /\ Len(s) <= n
           /\ \A j \in 1 .. Len(s) : s[j] \in places /\ s[j] \in 1 .. n
           /\ \A i, j \in 1 .. Len(s) : i < j => s[i] < s[j]
           /\ \A x \in 1 .. n : x \in places => \E j \in 1 .. Len(s) : s[j] = x
<1> DEFINE Is(s, m) ==
               /\ s \in Seq(Nat) /\ Len(s) <= m
               /\ \A j \in 1 .. Len(s) : s[j] \in places /\ s[j] \in 1 .. m
               /\ \A i, j \in 1 .. Len(s) : i < j => s[i] < s[j]
               /\ \A x \in 1 .. m : x \in places => \E j \in 1 .. Len(s) : s[j] = x
           T == {m \in Nat : Is(InOrder(places, m), m)}
<1>1. 0 \in T
    <2>1. Is(<<>>, 0)
        OBVIOUS
    <2> QED
        BY <2>1, InOrderNext
<1>2. ASSUME NEW m \in Nat, m \in T PROVE m + 1 \in T
    <2> DEFINE s == InOrder(places, m)
               t == InOrder(places, m + 1)
    <2>1. Is(s, m)
        BY <1>2
    <2>2. t = IF m + 1 \in places THEN Append(s, m + 1) ELSE s
        BY InOrderNext
    <2> HIDE DEF s, t
    <2>3. CASE m + 1 \notin places
        <3>1. t = s
            BY <2>2, <2>3
        <3>2. Is(s, m + 1)
            BY <2>1, <2>3
        <3> QED
            BY <3>1, <3>2 DEF t
    <2>4. CASE m + 1 \in places
        <3>1. t = Append(s, m + 1)
            BY <2>2, <2>4
        <3>2. /\ t \in Seq(Nat) /\ Len(t) = Len(s) + 1 /\ t[Len(s) + 1] = m + 1
              /\ \A j \in 1 .. Len(s) : t[j] = s[j]
            BY <2>1, <3>1
        <3>3. Len(s) \in Nat
            BY <2>1
        <3>4. \A j \in 1 .. Len(t) : t[j] \in places /\ t[j] \in 1 .. (m + 1)
            <4> TAKE j \in 1 .. Len(t)
            <4>1. CASE j = Len(s) + 1
                BY <2>4, <3>2, <4>1
            <4>2. CASE j # Len(s) + 1
                <5>1. j \in 1 .. Len(s) /\ t[j] = s[j]
                    BY <3>2, <3>3, <4>2
                <5>2. s[j] \in places /\ s[j] \in 1 .. m
                    BY <2>1, <5>1
                <5> QED
                    BY <5>1, <5>2
            <4> QED
                BY <4>1, <4>2
        <3>5. ASSUME NEW i \in 1 .. Len(t), NEW j \in 1 .. Len(t), i < j PROVE t[i] < t[j]
            <4>1. i \in 1 .. Len(s) /\ t[i] = s[i] /\ s[i] \in 1 .. m
                BY <2>1, <3>2, <3>3, <3>5
            <4>2. CASE j = Len(s) + 1
                BY <3>2, <4>1, <4>2
            <4>3. CASE j # Len(s) + 1
                <5>1. j \in 1 .. Len(s) /\ t[j] = s[j]
                    BY <3>2, <3>3, <4>3
                <5> QED
                    BY <2>1, <3>5, <4>1, <5>1
            <4> QED
                BY <4>2, <4>3
        <3>6. ASSUME NEW x \in 1 .. (m + 1), x \in places PROVE \E j \in 1 .. Len(t) : t[j] = x
            <4>1. CASE x = m + 1
                <5>1. Len(s) + 1 \in 1 .. Len(t)
                    BY <3>2, <3>3
                <5> QED
                    BY <3>2, <4>1, <5>1
            <4>2. CASE x # m + 1
                <5>1. PICK j \in 1 .. Len(s) : s[j] = x
                    BY <2>1, <3>6, <4>2
                <5>2. j \in 1 .. Len(t)
                    BY <3>2, <3>3
                <5> QED
                    BY <3>2, <5>1, <5>2
            <4> QED
                BY <4>1, <4>2
        <3>7. Is(t, m + 1)
            BY <2>1, <3>2, <3>4, <3>5, <3>6
        <3> QED
            BY <3>7 DEF t
    <2> QED
        BY <2>3, <2>4
<1> HIDE DEF T
<1>3. n \in T
    BY <1>1, <1>2, Induction
<1> QED
    BY <1>3 DEF T

-----------------------------------------------------------------------------
(* What a search has written.                                              *)

OutLine == [file : Nat, n : Nat, hit : BOOLEAN]

\* Lines of the first v entries, in their order, and kept apart.
OutIs(o, v) ==
    /\ o \in Seq(OutLine)
    /\ \A k \in 1 .. Len(o) : o[k] = Gap \/ o[k].file \in 1 .. v
    /\ \A j, k \in 1 .. Len(o) : j < k /\ o[j] # Gap /\ o[k] # Gap =>
            Precedes(<<o[j].file, o[j].n>>, <<o[k].file, o[k].n>>)
    /\ \A k \in 2 .. Len(o) : o[k - 1].file = o[k].file /\ query.context > 0 /\ o[k] # Gap =>
            o[k].n = o[k - 1].n + 1

\* Lines of one file.
BlockIs(b, f) ==
    /\ b \in Seq(OutLine)
    /\ \A k \in 1 .. Len(b) : b[k] = Gap \/ b[k].file = f
    /\ \A j, k \in 1 .. Len(b) : j < k /\ b[j] # Gap /\ b[k] # Gap => b[j].n < b[k].n
    /\ \A k \in 2 .. Len(b) : b[k - 1].file = b[k].file /\ query.context > 0 /\ b[k] # Gap =>
            b[k].n = b[k - 1].n + 1

\* What the lines of o answer.
AnswersIn(o) ==
    {<<o[k].file, o[k].n>> : k \in {k \in 1 .. Len(o) : o[k] # Gap /\ (o[k].hit \/ query.mode # "grep")}}

\* The lines of the next entry go behind those of the ones before.
LEMMA JoinedIs ==
    ASSUME NEW v \in Nat, NEW o, OutIs(o, v), NEW b, BlockIs(b, v + 1)
    PROVE  OutIs(o \o b, v + 1) /\ AnswersIn(o \o b) = AnswersIn(o) \cup AnswersIn(b)
<1> DEFINE p == Len(o)
           q == Len(b)
           j0 == o \o b
<1>1. /\ o \in Seq(OutLine) /\ b \in Seq(OutLine) /\ p \in Nat /\ q \in Nat
      /\ j0 \in Seq(OutLine) /\ Len(j0) = p + q
      /\ \A k \in 1 .. p : j0[k] = o[k]
      /\ \A k \in 1 .. q : j0[p + k] = b[k]
    BY ConcatProperties DEF OutIs, BlockIs
<1> HIDE DEF p, q, j0
<1>2. ASSUME NEW k \in 1 .. (p + q), k \notin 1 .. p
      PROVE  \E i \in 1 .. q : k = p + i /\ j0[k] = b[i]
    <2>1. k - p \in 1 .. q /\ k = p + (k - p)
        BY <1>1, <1>2
    <2> QED
        BY <1>1, <2>1
<1>3. Gap.file = 0
    BY DEF Gap
<1>4. ASSUME NEW k \in 1 .. (p + q) PROVE j0[k] = Gap \/ j0[k].file \in 1 .. (v + 1)
    <2>1. CASE k \in 1 .. p
        <3>1. o[k] = Gap \/ o[k].file \in 1 .. v
            BY <2>1 DEF OutIs, p
        <3> QED
            BY <1>1, <2>1, <3>1
    <2>2. CASE k \notin 1 .. p
        <3>1. PICK i \in 1 .. q : j0[k] = b[i]
            BY <1>2, <2>2
        <3>2. b[i] = Gap \/ b[i].file = v + 1
            BY DEF BlockIs, q
        <3> QED
            BY <3>1, <3>2
    <2> QED
        BY <2>1, <2>2
<1>5. ASSUME NEW j \in 1 .. (p + q), NEW k \in 1 .. (p + q), j < k, j0[j] # Gap, j0[k] # Gap
      PROVE  Precedes(<<j0[j].file, j0[j].n>>, <<j0[k].file, j0[k].n>>)
    <2>1. CASE k \in 1 .. p
        <3>1. j \in 1 .. p /\ j0[j] = o[j] /\ j0[k] = o[k]
            BY <1>1, <1>5, <2>1
        <3> QED
            BY <1>5, <2>1, <3>1 DEF OutIs, p
    <2>2. CASE k \notin 1 .. p /\ j \in 1 .. p
        <3>1. PICK i \in 1 .. q : j0[k] = b[i]
            BY <1>2, <2>2
        <3>2. j0[j] = o[j] /\ o[j].file \in 1 .. v /\ b[i].file = v + 1
            BY <1>1, <1>5, <2>2, <3>1 DEF OutIs, BlockIs, p, q
        <3> QED
            BY <3>1, <3>2 DEF Precedes
    <2>3. CASE k \notin 1 .. p /\ j \notin 1 .. p
        <3>1. PICK i \in 1 .. q : k = p + i /\ j0[k] = b[i]
            BY <1>2, <2>3
        <3>2. PICK h \in 1 .. q : j = p + h /\ j0[j] = b[h]
            BY <1>2, <2>3
        <3>3. h < i
            BY <1>1, <1>5, <3>1, <3>2
        <3>4. b[h].file = v + 1 /\ b[i].file = v + 1 /\ b[h].n < b[i].n
            BY <1>5, <3>1, <3>2, <3>3 DEF BlockIs, q
        <3> QED
            BY <3>1, <3>2, <3>4 DEF Precedes
    <2> QED
        BY <2>1, <2>2, <2>3
<1>6. ASSUME NEW k \in 2 .. (p + q), j0[k - 1].file = j0[k].file, query.context > 0, j0[k] # Gap
      PROVE  j0[k].n = j0[k - 1].n + 1
    <2>1. CASE k \in 1 .. p
        <3>1. k \in 2 .. p /\ k - 1 \in 1 .. p /\ j0[k] = o[k] /\ j0[k - 1] = o[k - 1]
            BY <1>1, <2>1
        <3> QED
            BY <1>6, <3>1 DEF OutIs, p
    <2>2. CASE k = p + 1
        <3>1. 1 \in 1 .. q /\ j0[k] = b[1] /\ k - 1 \in 1 .. p /\ j0[k - 1] = o[k - 1]
            BY <1>1, <2>2
        <3>2. b[1].file = v + 1
            BY <1>6, <3>1 DEF BlockIs, q
        <3>3. o[k - 1].file \in 0 .. v
            BY <1>3, <3>1 DEF OutIs, p
        <3> QED
            BY <1>6, <3>1, <3>2, <3>3
    <2>3. CASE k \notin 1 .. p /\ k # p + 1
        <3>1. PICK i \in 1 .. q : k = p + i /\ j0[k] = b[i]
            BY <1>2, <2>3
        <3>2. i \in 2 .. q /\ i - 1 \in 1 .. q /\ k - 1 = p + (i - 1)
            BY <1>1, <2>3, <3>1
        <3>3. j0[k - 1] = b[i - 1]
            BY <1>1, <3>2
        <3> QED
            BY <1>6, <3>1, <3>2, <3>3 DEF BlockIs, q
    <2> QED
        BY <2>1, <2>2, <2>3
<1>7. OutIs(j0, v + 1)
    BY <1>1, <1>4, <1>5, <1>6 DEF OutIs
<1> DEFINE Counts(l) == l # Gap /\ (l.hit \/ query.mode # "grep")
           At(l) == <<l.file, l.n>>
<1>8. /\ AnswersIn(j0) = {At(j0[k]) : k \in {k \in 1 .. (p + q) : Counts(j0[k])}}
      /\ AnswersIn(o) = {At(o[k]) : k \in {k \in 1 .. p : Counts(o[k])}}
      /\ AnswersIn(b) = {At(b[k]) : k \in {k \in 1 .. q : Counts(b[k])}}
    BY <1>1 DEF AnswersIn, p, q
<1> HIDE DEF Counts, At
<1>9. AnswersIn(j0) \subseteq AnswersIn(o) \cup AnswersIn(b)
    <2> SUFFICES ASSUME NEW k \in 1 .. (p + q), Counts(j0[k])
                 PROVE  At(j0[k]) \in AnswersIn(o) \cup AnswersIn(b)
        BY <1>8
    <2>1. CASE k \in 1 .. p
        BY <1>1, <1>8, <2>1
    <2>2. CASE k \notin 1 .. p
        BY <1>2, <1>8, <2>2
    <2> QED
        BY <2>1, <2>2
<1>10. AnswersIn(o) \subseteq AnswersIn(j0)
    <2> SUFFICES ASSUME NEW k \in 1 .. p, Counts(o[k]) PROVE At(o[k]) \in AnswersIn(j0)
        BY <1>8
    <2>1. k \in 1 .. (p + q) /\ j0[k] = o[k]
        BY <1>1
    <2> QED
        BY <1>8, <2>1
<1>11. AnswersIn(b) \subseteq AnswersIn(j0)
    <2> SUFFICES ASSUME NEW k \in 1 .. q, Counts(b[k]) PROVE At(b[k]) \in AnswersIn(j0)
        BY <1>8
    <2>1. p + k \in 1 .. (p + q) /\ j0[p + k] = b[k]
        BY <1>1
    <2> QED
        BY <1>8, <2>1
<1> QED
    BY <1>7, <1>9, <1>10, <1>11 DEF j0

\* The first lines of what was written.
LEMMA CutShortIs ==
    ASSUME NEW v \in Nat, NEW o, OutIs(o, v), NEW m \in Nat, m <= Len(o)
    PROVE  LET s == SubSeq(o, 1, m) IN
           /\ OutIs(s, v) /\ AnswersIn(s) \subseteq AnswersIn(o)
           /\ \A a \in AnswersIn(s), b \in AnswersIn(o) : Precedes(b, a) => b \in AnswersIn(s)
<1> DEFINE s == SubSeq(o, 1, m)
<1>1. o \in Seq(OutLine) /\ Len(o) \in Nat
    BY DEF OutIs
<1>2. s \in Seq(OutLine) /\ Len(s) = m /\ \A k \in 1 .. m : s[k] = o[k] /\ k \in 1 .. Len(o)
    BY <1>1, SubSeqProperties
<1> HIDE DEF s
<1>3. OutIs(s, v)
    <2>1. \A k \in 2 .. m : k - 1 \in 1 .. m /\ k \in 1 .. m /\ k \in 2 .. Len(o)
        BY <1>1
    <2> QED
        BY <1>2, <2>1 DEF OutIs
<1>4. ASSUME NEW a \in AnswersIn(s) PROVE a \in AnswersIn(o)
    BY <1>2, <1>4 DEF AnswersIn
<1>5. ASSUME NEW a \in AnswersIn(s), NEW b \in AnswersIn(o), Precedes(b, a) PROVE b \in AnswersIn(s)
    <2>1. PICK k \in 1 .. m : a = <<o[k].file, o[k].n>> /\ o[k] # Gap
        BY <1>2 DEF AnswersIn
    <2>2. PICK j \in 1 .. Len(o) :
              b = <<o[j].file, o[j].n>> /\ o[j] # Gap /\ (o[j].hit \/ query.mode # "grep")
        BY DEF AnswersIn
    <2>3. CASE j \in 1 .. m
        BY <1>2, <2>2, <2>3 DEF AnswersIn
    <2>4. CASE j \notin 1 .. m
        <3>1. k < j /\ k \in 1 .. Len(o)
            BY <1>1, <2>4
        <3>2. Precedes(a, b)
            BY <2>1, <2>2, <3>1 DEF OutIs
        <3>3. o[k] \in OutLine /\ o[j] \in OutLine
            BY <1>1, <3>1
        <3>4. a[1] \in Nat /\ a[2] \in Nat /\ b[1] \in Nat /\ b[2] \in Nat
            BY <2>1, <2>2, <3>3 DEF OutLine
        <3> QED
            BY <1>5, <3>2, <3>4 DEF Precedes
    <2> QED
        BY <2>3, <2>4
<1> QED
    BY <1>3, <1>4, <1>5 DEF s

\* The places of two sequences behind one another.
LEMMA PlacesOfTwo ==
    ASSUME NEW S, NEW a \in Seq(S), NEW b \in Seq(S)
    PROVE  /\ a \o b \in Seq(S) /\ Len(a \o b) = Len(a) + Len(b)
           /\ \A i \in 1 .. Len(a) : (a \o b)[i] = a[i]
           /\ \A i \in 1 .. Len(b) : (a \o b)[Len(a) + i] = b[i]
BY ConcatProperties

\* What is rendered of a file up to line `last`, and once k of the matches s are.
Groups(lines) == [last : 0 .. lines, out : Seq(OutLine)]

RenderedUpTo(o, last, f, s) ==
    /\ BlockIs(o, f)
    /\ \A i \in 1 .. Len(o) : o[i] # Gap => o[i].n \in 1 .. last
    /\ \A i \in 1 .. Len(o) : o[i] # Gap /\ o[i].hit => \E j \in 1 .. Len(s) : s[j] = o[i].n
    /\ \A j \in 1 .. Len(s) : s[j] <= last => \E i \in 1 .. Len(o) : o[i] # Gap /\ o[i].hit /\ o[i].n = s[j]
    /\ o # <<>> => o[Len(o)] # Gap /\ o[Len(o)].n = last

GroupsAre(x, k, f, lines, s) ==
    /\ x \in Groups(lines) /\ RenderedUpTo(x.out, x.last, f, s)
    /\ k = 0 => x.last = 0 /\ x.out = <<>>
    /\ k > 0 => /\ s[k] <= x.last /\ x.last <= s[k] + query.context
                /\ x.last = s[k] + query.context \/ x.last = lines
                /\ x.out # <<>>

LineOf(f, n, s) == [file |-> f, n |-> n, hit |-> \E j \in DOMAIN s : s[j] = n]

\* What the k-th match adds a group to: matches s in order, lines up to `last` rendered,
\* and lines low to high to come, behind a gap if they do not follow and there is context.
GroupGiven(f, lines, s, k, last, o, low, high, g) ==
    /\ f \in Nat \ {0} /\ lines \in Nat /\ query.context \in Nat
    /\ s \in Seq(Nat) /\ \A j \in 1 .. Len(s) : s[j] \in 1 .. lines
    /\ \A i, j \in 1 .. Len(s) : i < j => s[i] < s[j]
    /\ k \in 1 .. Len(s) /\ o \in Seq(OutLine) /\ last \in 0 .. lines
    /\ RenderedUpTo(o, last, f, s)
    /\ k = 1 => last = 0 /\ o = <<>>
    /\ k > 1 => /\ s[k - 1] <= last /\ last <= s[k - 1] + query.context
                /\ last = s[k - 1] + query.context \/ last = lines
                /\ o # <<>>
    /\ low = IF s[k] - query.context >= last + 1 THEN s[k] - query.context ELSE last + 1
    /\ high = IF s[k] + query.context <= lines THEN s[k] + query.context ELSE lines
    /\ g = <<>> \/ g = <<Gap>>
    /\ query.context > 0 /\ o # <<>> /\ low > last + 1 => g = <<Gap>>
    /\ g = <<Gap>> => low > last + 1

LEMMA GroupBounds ==
    ASSUME NEW f, NEW lines, NEW s, NEW k, NEW last, NEW o, NEW low, NEW high, NEW g,
           GroupGiven(f, lines, s, k, last, o, low, high, g)
    PROVE  /\ low \in Nat /\ high \in 0 .. lines /\ last \in 0 .. lines /\ lines \in Nat
           /\ s[k] \in 1 .. lines /\ query.context \in Nat
           /\ high >= last /\ high >= s[k] /\ high - low + 1 \in Nat
           /\ high <= s[k] + query.context /\ (high = s[k] + query.context \/ high = lines)
           /\ low > last /\ (s[k] > last => low <= s[k])
           /\ \A j \in 1 .. Len(s) : s[j] > last => s[j] >= s[k]
<1> DEFINE c == query.context
<1>1. /\ lines \in Nat /\ c \in Nat /\ last \in 0 .. lines /\ k \in 1 .. Len(s) /\ Len(s) \in Nat
      /\ \A j \in 1 .. Len(s) : s[j] \in 1 .. lines
      /\ \A i, j \in 1 .. Len(s) : i < j => s[i] < s[j]
    BY DEF GroupGiven
<1>2. /\ low = IF s[k] - c >= last + 1 THEN s[k] - c ELSE last + 1
      /\ high = IF s[k] + c <= lines THEN s[k] + c ELSE lines
    BY DEF GroupGiven
<1>3. k = 1 \/ (k - 1 \in 1 .. Len(s) /\ s[k - 1] < s[k] /\ s[k - 1] <= last /\ last <= s[k - 1] + c)
    <2>1. k > 1 => s[k - 1] <= last /\ last <= s[k - 1] + c
        BY DEF GroupGiven
    <2>2. k > 1 => k - 1 \in 1 .. Len(s) /\ k - 1 < k
        BY <1>1
    <2>3. k = 1 \/ k > 1
        BY <1>1
    <2> QED
        BY <1>1, <2>1, <2>2, <2>3
<1>4. k = 1 => last = 0
    BY DEF GroupGiven
<1> HIDE DEF c
<1>5. s[k] \in 1 .. lines /\ (k > 1 => s[k - 1] \in 1 .. lines)
    BY <1>1, <1>3
<1>6. high \in 0 .. lines /\ high >= s[k] /\ high <= s[k] + c /\ (high = s[k] + c \/ high = lines)
    BY <1>1, <1>2, <1>5
<1>7. high >= last
    BY <1>1, <1>2, <1>3, <1>4, <1>5
<1>8. low \in Nat /\ low > last /\ (s[k] > last => low <= s[k]) /\ high - low + 1 \in Nat
    BY <1>1, <1>2, <1>5, <1>6, <1>7, SMTT(30)
<1>9. ASSUME NEW j \in 1 .. Len(s), s[j] > last PROVE s[j] >= s[k]
    <2>1. CASE j < k
        <3>1. k > 1 /\ (j = k - 1 \/ j < k - 1)
            BY <1>1, <2>1
        <3>2. s[j] <= s[k - 1] /\ s[j] \in 1 .. lines
            <4>1. s[j] \in 1 .. lines
                BY <1>1
            <4>2. j = k - 1 \/ s[j] < s[k - 1]
                BY <1>1, <1>3, <3>1
            <4> QED
                BY <1>1, <1>3, <1>5, <3>1, <4>1, <4>2
        <3> QED
            BY <1>1, <1>3, <1>5, <1>9, <3>1, <3>2
    <2>2. CASE j >= k
        <3>1. j = k \/ k < j
            BY <1>1, <2>2
        <3> QED
            BY <1>1, <1>5, <3>1
    <2> QED
        BY <1>1, <2>1, <2>2
<1> QED
    BY <1>1, <1>5, <1>6, <1>7, <1>8, <1>9 DEF c

LEMMA GroupIs ==
    ASSUME NEW f, NEW lines, NEW s, NEW k, NEW last, NEW o, NEW low, NEW high, NEW g,
           GroupGiven(f, lines, s, k, last, o, low, high, g)
    PROVE  GroupsAre([last |-> high,
                      out |-> o \o g \o [i \in 1 .. (high - low + 1) |-> LineOf(f, low + i - 1, s)]],
                     k, f, lines, s)
<1> DEFINE c == query.context
           q == high - low + 1
           b == [i \in 1 .. q |-> LineOf(f, low + i - 1, s)]
           p == Len(o)
           d == Len(g)
           e == o \o g \o b
<1>1. /\ low \in Nat /\ high \in 0 .. lines /\ last \in 0 .. lines /\ lines \in Nat
      /\ s[k] \in 1 .. lines /\ c \in Nat /\ low > last /\ q \in Nat
    BY GroupBounds
<1>2. high >= last /\ \A j \in 1 .. Len(s) : s[j] > last => s[j] >= s[k]
    BY GroupBounds
<1>3. /\ high >= s[k] /\ high <= s[k] + c /\ (high = s[k] + c \/ high = lines)
      /\ (s[k] > last => low <= s[k])
    BY GroupBounds
<1>4. q \in Nat /\ f \in Nat \ {0} /\ o \in Seq(OutLine) /\ RenderedUpTo(o, last, f, s) /\ s \in Seq(Nat)
    BY <1>1 DEF GroupGiven
<1>5. Gap \in OutLine /\ Gap.file = 0
    BY DEF Gap, OutLine
<1>6. b \in Seq(OutLine) /\ Len(b) = q
    <2>1. ASSUME NEW i \in 1 .. q PROVE LineOf(f, low + i - 1, s) \in OutLine
        BY <1>1, <1>4 DEF LineOf, OutLine
    <2> QED
        BY <1>4, <2>1
<1>7. g \in Seq(OutLine) /\ d \in {0, 1} /\ (d = 1 => g[1] = Gap /\ g = <<Gap>>) /\ (d = 0 => g = <<>>)
    <2>1. CASE g = <<>>
        BY <2>1
    <2>2. CASE g = <<Gap>>
        <3>1. Len(<<Gap>>) = 1 /\ <<Gap>>[1] = Gap /\ <<Gap>> \in Seq(OutLine)
            BY <1>5
        <3> QED
            BY <2>2, <3>1
    <2> QED
        BY <2>1, <2>2 DEF GroupGiven
<1>8. p \in Nat
    BY <1>4
<1>9. ASSUME NEW i \in 1 .. q
      PROVE  /\ b[i].file = f /\ b[i].n = low + i - 1 /\ b[i] # Gap
             /\ b[i].hit <=> \E j \in 1 .. Len(s) : s[j] = low + i - 1
    <2> DEFINE l == LineOf(f, low + i - 1, s)
    <2>1. b[i] = l
        BY <1>9
    <2>2. /\ l.file = f /\ l.n = low + i - 1
          /\ l.hit <=> \E j \in DOMAIN s : s[j] = low + i - 1
        BY DEF LineOf
    <2>3. DOMAIN s = 1 .. Len(s)
        BY <1>4
    <2>4. f # 0
        BY <1>4
    <2> HIDE DEF l, b
    <2>5. b[i] # Gap
        BY <1>5, <2>1, <2>2, <2>4
    <2> QED
        BY <2>1, <2>2, <2>3, <2>5
<1> HIDE DEF b
<1>10. /\ e \in Seq(OutLine) /\ Len(e) = p + d + q
       /\ \A i \in 1 .. p : e[i] = o[i]
       /\ d = 1 => e[p + 1] = Gap
       /\ \A i \in 1 .. q : e[p + d + i] = b[i]
    <2>1. /\ o \o g \in Seq(OutLine) /\ Len(o \o g) = p + d
          /\ \A i \in 1 .. p : (o \o g)[i] = o[i]
          /\ d = 1 => (o \o g)[p + 1] = Gap
        BY <1>4, <1>7, <1>8
    <2> DEFINE og == o \o g
    <2> HIDE DEF og
    <2>2. og \in Seq(OutLine) /\ Len(og) = p + d
        BY <2>1 DEF og
    <2>3. /\ og \o b \in Seq(OutLine) /\ Len(og \o b) = p + d + q
          /\ \A i \in 1 .. (p + d) : (og \o b)[i] = og[i]
          /\ \A i \in 1 .. q : (og \o b)[p + d + i] = b[i]
        <3> DEFINE r == p + d
        <3>1. r \in Nat /\ Len(og) = r
            BY <1>7, <1>8, <2>2
        <3> HIDE DEF r
        <3>2. /\ og \o b \in Seq(OutLine) /\ Len(og \o b) = r + q
              /\ \A i \in 1 .. r : (og \o b)[i] = og[i]
              /\ \A i \in 1 .. q : (og \o b)[r + i] = b[i]
            <4> HIDE DEF b
            <4>1. /\ og \o b \in Seq(OutLine) /\ Len(og \o b) = Len(og) + Len(b)
                  /\ \A i \in 1 .. Len(og) : (og \o b)[i] = og[i]
                  /\ \A i \in 1 .. Len(b) : (og \o b)[Len(og) + i] = b[i]
                <5>1. og \in Seq(OutLine)
                    BY <2>2
                <5>2. b \in Seq(OutLine)
                    BY <1>6
                <5>3. og \o b \in Seq(OutLine) /\ Len(og \o b) = Len(og) + Len(b)
                    BY <5>1, <5>2, PlacesOfTwo
                <5>4. \A i \in 1 .. Len(og) : (og \o b)[i] = og[i]
                    BY <5>1, <5>2, PlacesOfTwo
                <5>5. \A i \in 1 .. Len(b) : (og \o b)[Len(og) + i] = b[i]
                    BY <5>1, <5>2, PlacesOfTwo
                <5> QED
                    BY <5>3, <5>4, <5>5
            <4> QED
                BY <1>6, <3>1, <4>1
        <3> QED
            BY <3>2 DEF r
    <2>4. \A i \in 1 .. p : i \in 1 .. (p + d)
        BY <1>7, <1>8
    <2>5. d = 1 => p + 1 \in 1 .. (p + d)
        BY <1>7, <1>8
    <2> QED
        BY <2>1, <2>3, <2>4, <2>5 DEF og
<1> HIDE DEF e, d, p, q
<1>11. ASSUME NEW i \in 1 .. (p + d + q), i \notin 1 .. p, e[i] # Gap
       PROVE  /\ \E h \in 1 .. q : i = p + d + h /\ e[i] = b[h]
    <2>1. i - p - d \in 1 .. q /\ i = p + d + (i - p - d)
        BY <1>4, <1>7, <1>8, <1>10, <1>11, SMTT(30)
    <2> QED
        BY <1>10, <2>1
<1>12. ASSUME NEW i \in 1 .. p, o[i] # Gap PROVE o[i].file = f /\ o[i].n \in 1 .. last
    BY <1>4, <1>12 DEF RenderedUpTo, BlockIs, p
<1>13. ASSUME NEW i \in 1 .. (p + d + q) PROVE e[i] = Gap \/ e[i].file = f
    BY <1>9, <1>10, <1>11, <1>12
<1>14. ASSUME NEW i \in 1 .. (p + d + q), e[i] # Gap PROVE e[i].n \in 1 .. high
    <2>1. CASE i \in 1 .. p
        <3>1. e[i] = o[i] /\ o[i].n \in 1 .. last
            BY <1>10, <1>12, <1>14, <2>1
        <3> QED
            BY <1>1, <1>2, <3>1
    <2>2. CASE i \notin 1 .. p
        <3>1. PICK h \in 1 .. q : e[i] = b[h]
            BY <1>11, <1>14, <2>2
        <3> QED
            BY <1>1, <1>9, <3>1 DEF q
    <2> QED
        BY <2>1, <2>2
<1>15. ASSUME NEW i \in 1 .. (p + d + q), NEW j \in 1 .. (p + d + q), i < j, e[i] # Gap, e[j] # Gap
       PROVE  e[i].n < e[j].n
    <2>1. CASE j \in 1 .. p
        <3>1. i \in 1 .. p /\ e[i] = o[i] /\ e[j] = o[j]
            BY <1>8, <1>10, <1>15, <2>1
        <3> QED
            BY <1>4, <1>15, <2>1, <3>1 DEF RenderedUpTo, BlockIs, p
    <2>2. CASE j \notin 1 .. p
        <3>1. PICK h \in 1 .. q : j = p + d + h /\ e[j] = b[h]
            BY <1>11, <1>15, <2>2
        <3>2. e[j].n = low + h - 1
            BY <1>9, <3>1
        <3>3. CASE i \in 1 .. p
            BY <1>1, <1>10, <1>12, <1>15, <3>2, <3>3
        <3>4. CASE i \notin 1 .. p
            <4>1. PICK m \in 1 .. q : i = p + d + m /\ e[i] = b[m]
                BY <1>11, <1>15, <3>4
            <4> QED
                <5>1. m < h
                    BY <1>4, <1>7, <1>8, <1>15, <3>1, <4>1
                <5>2. e[i].n = low + m - 1
                    BY <1>9, <4>1
                <5> QED
                    BY <1>1, <3>2, <5>1, <5>2
        <3> QED
            BY <3>3, <3>4
    <2> QED
        BY <2>1, <2>2
<1>16. ASSUME NEW i \in 2 .. (p + d + q), e[i - 1].file = e[i].file, c > 0, e[i] # Gap
       PROVE  e[i].n = e[i - 1].n + 1
    <2>1. i \in 1 .. (p + d + q) /\ i - 1 \in 1 .. (p + d + q) /\ e[i].file = f
        BY <1>4, <1>7, <1>8, <1>13, <1>16
    <2>2. e[i - 1] # Gap
        BY <1>4, <1>5, <1>16, <2>1
    <2>3. CASE i \in 1 .. p
        <3>1. i - 1 \in 1 .. p /\ i \in 2 .. p /\ e[i] = o[i] /\ e[i - 1] = o[i - 1]
            BY <1>8, <1>10, <2>1, <2>3
        <3> QED
            BY <1>4, <1>16, <3>1 DEF RenderedUpTo, BlockIs, p
    <2>4. CASE i \notin 1 .. p /\ i - 1 \in 1 .. p
        <3>1. i = p + 1
            BY <1>8, <2>4
        <3>2. PICK h \in 1 .. q : i = p + d + h /\ e[i] = b[h]
            BY <1>11, <1>16, <2>1, <2>4
        <3>3. h = 1 /\ d = 0
            BY <1>7, <1>8, <3>1, <3>2
        <3>4. o # <<>> /\ e[i - 1] = o[p] /\ o[p].n = last
            <4>1. i - 1 = p /\ p \in 1 .. p /\ e[i - 1] = o[p]
                BY <1>8, <1>10, <2>4, <3>1
            <4>2. o # <<>>
                BY <4>1 DEF p
            <4> QED
                BY <1>4, <4>1, <4>2 DEF RenderedUpTo, p
        <3>5. g # <<Gap>>
            BY <1>7, <3>3
        <3>6. low = last + 1
            <4>1. ~(low > last + 1)
                BY <1>16, <3>4, <3>5 DEF GroupGiven
            <4> QED
                BY <1>1, <4>1
        <3> QED
            BY <1>9, <3>2, <3>3, <3>4, <3>6
    <2>5. CASE i \notin 1 .. p /\ i - 1 \notin 1 .. p
        <3>1. PICK h \in 1 .. q : i = p + d + h /\ e[i] = b[h]
            BY <1>11, <1>16, <2>1, <2>5
        <3>2. PICK m \in 1 .. q : i - 1 = p + d + m /\ e[i - 1] = b[m]
            BY <1>11, <2>1, <2>2, <2>5
        <3>3. h = m + 1
            BY <1>4, <1>7, <1>8, <3>1, <3>2, SMTT(30)
        <3> QED
            BY <1>1, <1>9, <3>1, <3>2, <3>3, SMTT(30)
    <2> QED
        BY <2>3, <2>4, <2>5
<1>17. BlockIs(e, f)
    BY <1>10, <1>13, <1>15, <1>16 DEF BlockIs
<1>18. ASSUME NEW i \in 1 .. (p + d + q), e[i] # Gap, e[i].hit PROVE \E j \in 1 .. Len(s) : s[j] = e[i].n
    <2>1. CASE i \in 1 .. p
        <3>1. e[i] = o[i]
            BY <1>10, <2>1
        <3> QED
            BY <1>4, <1>18, <2>1, <3>1 DEF RenderedUpTo, p
    <2>2. CASE i \notin 1 .. p
        BY <1>9, <1>11, <1>18, <2>2
    <2> QED
        BY <2>1, <2>2
<1>19. ASSUME NEW j \in 1 .. Len(s), s[j] <= high
       PROVE  \E i \in 1 .. (p + d + q) : e[i] # Gap /\ e[i].hit /\ e[i].n = s[j]
    <2>1. CASE s[j] <= last
        <3>1. PICK i \in 1 .. p : o[i] # Gap /\ o[i].hit /\ o[i].n = s[j]
            BY <1>4, <2>1 DEF RenderedUpTo, p
        <3>2. i \in 1 .. (p + d + q)
            BY <1>4, <1>7, <1>8
        <3> QED
            BY <1>10, <3>1, <3>2
    <2>2. CASE ~(s[j] <= last)
        <3>1. s[j] \in Nat /\ s[j] > last
            BY <1>1, <1>4, <2>2
        <3>2. s[j] >= low
            <4>1. s[j] >= s[k]
                BY <1>2, <3>1
            <4>2. CASE s[k] > last
                BY <1>1, <1>3, <3>1, <4>1, <4>2
            <4>3. CASE ~(s[k] > last)
                <5>1. low = last + 1
                    BY <1>1, <4>3, SMTT(30) DEF GroupGiven
                <5> QED
                    BY <1>1, <3>1, <5>1
            <4> QED
                BY <4>2, <4>3
        <3> DEFINE h == s[j] - low + 1
        <3>3. h \in 1 .. q /\ low + h - 1 = s[j]
            BY <1>1, <1>19, <3>1, <3>2 DEF q
        <3> HIDE DEF h
        <3>4. b[h] # Gap /\ b[h].hit /\ b[h].n = s[j]
            BY <1>9, <3>3
        <3>5. p + d + h \in 1 .. (p + d + q) /\ e[p + d + h] = b[h]
            <4>1. e[p + d + h] = b[h]
                BY <1>10, <3>3
            <4> QED
                BY <1>4, <1>7, <1>8, <3>3, <4>1, SMTT(30)
        <3> QED
            BY <3>4, <3>5
    <2> QED
        BY <2>1, <2>2
<1>20. e # <<>> /\ e[Len(e)] # Gap /\ e[Len(e)].n = high
    <2>1. CASE q > 0
        <3>1. q \in 1 .. q /\ Len(e) = p + d + q /\ e[Len(e)] = b[q] /\ Len(e) # 0
            BY <1>4, <1>7, <1>8, <1>10, <2>1
        <3>2. b[q] # Gap /\ b[q].n = high
            BY <1>1, <1>9, <3>1 DEF q
        <3> QED
            BY <3>1, <3>2
    <2>2. CASE q = 0
        <3>1. high = last /\ low = last + 1
            <4>1. high - low + 1 = 0
                BY <2>2 DEF q
            <4>2. low \in Nat /\ high \in Nat /\ last \in Nat /\ low > last
                BY <1>1
            <4>3. low = s[k] - c \/ low = last + 1
                BY DEF GroupGiven
            <4>4. low # s[k] - c
                BY <1>1, <1>3, <4>1
            <4> QED
                BY <1>2, <4>1, <4>2, <4>3, <4>4
        <3>2. k # 1
            <4> SUFFICES ASSUME k = 1 PROVE FALSE
                OBVIOUS
            <4>1. last = 0
                BY DEF GroupGiven
            <4> QED
                BY <1>1, <1>3, <3>1, <4>1
        <3>3. o # <<>>
            <4>1. k \in 1 .. Len(s) /\ Len(s) \in Nat
                BY <1>4 DEF GroupGiven
            <4>2. k > 1
                BY <3>2, <4>1
            <4> QED
                BY <4>2 DEF GroupGiven
        <3>4. o[p] # Gap /\ o[p].n = last /\ p \in 1 .. p
            BY <1>4, <3>3 DEF RenderedUpTo, p
        <3>5. d = 0
            <4>1. g # <<Gap>>
                BY <1>1, <3>1 DEF GroupGiven
            <4> QED
                BY <1>7, <4>1
        <3> QED
            BY <1>8, <1>10, <2>2, <3>1, <3>4, <3>5
    <2> QED
        BY <1>4, <2>1, <2>2
<1>21. RenderedUpTo(e, high, f, s)
    BY <1>10, <1>14, <1>17, <1>18, <1>19, <1>20 DEF RenderedUpTo
<1> DEFINE x == [last |-> high, out |-> e]
<1>22. x \in Groups(lines) /\ x.last = high /\ x.out = e
    BY <1>1, <1>10 DEF Groups
<1> HIDE DEF x
<1>23. GroupsAre(x, k, f, lines, s)
    <2>1. k # 0
        BY <1>4 DEF GroupGiven
    <2> QED
        BY <1>1, <1>3, <1>20, <1>21, <1>22, <2>1 DEF GroupsAre
<1> QED
    BY <1>23 DEF x, e, b, q

LEMMA LargerIs ==
    ASSUME NEW a \in Int, NEW b \in Int
    PROVE  Max({a, b}) = IF a >= b THEN a ELSE b
<1> DEFINE m == IF a >= b THEN a ELSE b
<1>1. m \in {a, b} /\ \A y \in {a, b} : m >= y
    OBVIOUS
<1>2. ASSUME NEW x \in {a, b}, \A y \in {a, b} : x >= y PROVE x = m
    BY <1>2
<1>3. Max({a, b}) = CHOOSE x \in {a, b} : \A y \in {a, b} : x >= y
    BY DEF Max
<1> QED
    BY <1>1, <1>2, <1>3

LEMMA SmallerIs ==
    ASSUME NEW a \in Int, NEW b \in Int
    PROVE  Min({a, b}) = IF a <= b THEN a ELSE b
<1> DEFINE m == IF a <= b THEN a ELSE b
<1>1. m \in {a, b} /\ \A y \in {a, b} : m <= y
    OBVIOUS
<1>2. ASSUME NEW x \in {a, b}, \A y \in {a, b} : x <= y PROVE x = m
    BY <1>2
<1>3. Min({a, b}) = CHOOSE x \in {a, b} : \A y \in {a, b} : x <= y
    BY DEF Min
<1> QED
    BY <1>1, <1>2, <1>3

\* _render shows the matches and the lines around them, in order.
LEMMA RenderIs ==
    ASSUME NEW f \in Nat \ {0}, tree[f].lines \in Nat, query.context \in Nat,
           NEW s \in Seq(Nat), \A j \in 1 .. Len(s) : s[j] \in 1 .. tree[f].lines,
           \A i, j \in 1 .. Len(s) : i < j => s[i] < s[j],
           NEW separate
    PROVE  /\ BlockIs(Render(f, s, separate), f)
           /\ query.mode = "grep" => AnswersIn(Render(f, s, separate)) = {<<f, s[j]>> : j \in 1 .. Len(s)}
<1> DEFINE lines == tree[f].lines
           c == query.context
           n == Len(s)
           S == Groups(lines)
           base == [last |-> 0, out |-> <<>>]
           low(k, x) == Max({s[k] - c, x.last + 1})
           high(k) == Min({s[k] + c, lines})
           gap(k, x) == c > 0 /\ (x.out # <<>> \/ separate) /\ low(k, x) > x.last + 1
           g(k, x) == IF gap(k, x) THEN <<Gap>> ELSE <<>>
           Added(k, x) == [last |-> high(k),
                           out |-> x.out \o g(k, x)
                               \o [i \in 1 .. (high(k) - low(k, x) + 1) |-> LineOf(f, low(k, x) + i - 1, s)]]
           Made(h) == h = [k \in 0 .. n |-> IF k = 0 THEN base ELSE Added(k, h[k - 1])]
           made == CHOOSE after : after = [k \in 0 .. n |-> IF k = 0 THEN base ELSE Added(k, after[k - 1])]
           next == [k \in 1 .. n |-> [x \in S |-> IF Added(k, x) \in S THEN Added(k, x) ELSE base]]
<1>1. Render(f, s, separate) = made[n].out
    BY DEF Render, LineOf
<1>2. (\E h : Made(h)) => Made(made)
    BY Zenon
<1> HIDE DEF made, Made, Added
<1>3. n \in Nat /\ base \in S /\ lines \in Nat /\ c \in Nat
    BY DEF Groups
<1>4. GroupsAre(base, 0, f, lines, s)
    <2>1. RenderedUpTo(<<>>, 0, f, s)
        BY <1>3 DEF RenderedUpTo, BlockIs
    <2> QED
        BY <1>3, <2>1 DEF GroupsAre
<1> HIDE DEF base
<1>5. ASSUME NEW k \in 1 .. n, NEW x, GroupsAre(x, k - 1, f, lines, s)
      PROVE  GroupsAre(Added(k, x), k, f, lines, s)
    <2>1. /\ x.last \in 0 .. lines /\ x.out \in Seq(OutLine) /\ RenderedUpTo(x.out, x.last, f, s)
          /\ s[k] \in 1 .. lines
        BY <1>3, <1>5 DEF GroupsAre, Groups
    <2>2. low(k, x) = IF s[k] - c >= x.last + 1 THEN s[k] - c ELSE x.last + 1
        <3> DEFINE a == s[k] - c
                   b == x.last + 1
        <3>1. a \in Int /\ b \in Int /\ low(k, x) = Max({a, b})
            BY <1>3, <2>1
        <3> HIDE DEF a, b
        <3>2. Max({a, b}) = IF a >= b THEN a ELSE b
            BY <3>1, LargerIs
        <3> QED
            BY <3>1, <3>2 DEF a, b
    <2>3. high(k) = IF s[k] + c <= lines THEN s[k] + c ELSE lines
        <3> DEFINE a == s[k] + c
                   b == lines
        <3>1. a \in Int /\ b \in Int /\ high(k) = Min({a, b})
            BY <1>3, <2>1
        <3> HIDE DEF a, b
        <3>2. Min({a, b}) = IF a <= b THEN a ELSE b
            BY <3>1, SmallerIs
        <3> QED
            BY <3>1, <3>2 DEF a, b
    <2>4. /\ g(k, x) = <<>> \/ g(k, x) = <<Gap>>
          /\ c > 0 /\ x.out # <<>> /\ low(k, x) > x.last + 1 => g(k, x) = <<Gap>>
          /\ g(k, x) = <<Gap>> => low(k, x) > x.last + 1
        OBVIOUS
    <2>5. k = 1 => x.last = 0 /\ x.out = <<>>
        BY <1>5 DEF GroupsAre
    <2>6. k > 1 => /\ s[k - 1] <= x.last /\ x.last <= s[k - 1] + c
                   /\ x.last = s[k - 1] + c \/ x.last = lines
                   /\ x.out # <<>>
        BY <1>5 DEF GroupsAre
    <2> HIDE DEF low, high, g, gap
    <2>7. GroupGiven(f, lines, s, k, x.last, x.out, low(k, x), high(k), g(k, x))
        <3>1. /\ f \in Nat \ {0} /\ lines \in Nat /\ c \in Nat
              /\ s \in Seq(Nat) /\ \A j \in 1 .. Len(s) : s[j] \in 1 .. lines
              /\ \A i, j \in 1 .. Len(s) : i < j => s[i] < s[j]
            BY <1>3
        <3>2. k \in 1 .. Len(s)
            OBVIOUS
        <3> HIDE DEF lines, n
        <3> QED
            BY <2>1, <2>2, <2>3, <2>4, <2>5, <2>6, <3>1, <3>2 DEF GroupGiven
    <2> HIDE DEF lines
    <2>8. GroupsAre([last |-> high(k),
                     out |-> x.out \o g(k, x)
                         \o [i \in 1 .. (high(k) - low(k, x) + 1) |-> LineOf(f, low(k, x) + i - 1, s)]],
                    k, f, lines, s)
        BY <2>7, GroupIs
    <2> QED
        BY <2>8 DEF Added
<1>6. next \in [1 .. n -> [S -> S]]
    <2>1. ASSUME NEW k \in 1 .. n, NEW x \in S
          PROVE  (IF Added(k, x) \in S THEN Added(k, x) ELSE base) \in S
        BY <1>3
    <2> HIDE DEF S
    <2> QED
        BY <2>1
<1>7. PICK t \in [0 .. n -> S] : Iterates(t, base, next, n)
    <2> HIDE DEF S, next, n
    <2> QED
        BY <1>3, <1>6, Recursion
<1> DEFINE T == {k \in Nat : k <= n => /\ GroupsAre(t[k], k, f, lines, s)
                                       /\ k > 0 => t[k] = Added(k, t[k - 1])}
<1>8. 0 \in T
    BY <1>4, <1>7 DEF Iterates
<1>9. ASSUME NEW k \in Nat, k \in T PROVE k + 1 \in T
    <2> SUFFICES ASSUME k + 1 <= n
                 PROVE  /\ GroupsAre(t[k + 1], k + 1, f, lines, s)
                        /\ t[k + 1] = Added(k + 1, t[(k + 1) - 1])
        <3> HIDE DEF lines
        <3> QED
            OBVIOUS
    <2>1. GroupsAre(t[k], k, f, lines, s) /\ k + 1 \in 1 .. n /\ (k + 1) - 1 = k /\ t[k] \in S
        <3>1. k \in 0 .. n /\ k <= n /\ k + 1 \in 1 .. n /\ (k + 1) - 1 = k
            BY <1>3
        <3> HIDE DEF lines, S, n
        <3>2. t[k] \in S
            BY <1>7, <3>1
        <3>3. GroupsAre(t[k], k, f, lines, s)
            BY <1>9, <3>1
        <3> QED
            BY <3>1, <3>2, <3>3
    <2>2. GroupsAre(Added(k + 1, t[k]), k + 1, f, lines, s)
        BY <1>5, <2>1
    <2>3. Added(k + 1, t[k]) \in S
        BY <2>2 DEF GroupsAre
    <2>4. t[k + 1] = next[k + 1][t[k]]
        BY <1>7, <2>1 DEF Iterates
    <2>5. t[k + 1] = Added(k + 1, t[k])
        <3> HIDE DEF S
        <3> QED
            BY <2>1, <2>3, <2>4
    <2> QED
        BY <2>2, <2>5
<1> HIDE DEF T
<1>10. Nat \subseteq T
    BY <1>8, <1>9, Induction
<1>11. \A k \in 0 .. n : GroupsAre(t[k], k, f, lines, s) /\ (k > 0 => t[k] = Added(k, t[k - 1]))
    BY <1>3, <1>10 DEF T
<1>12. Made(t)
    <2>1. t[0] = base
        BY <1>7 DEF Iterates
    <2> HIDE DEF S
    <2>2. t = [k \in 0 .. n |-> IF k = 0 THEN base ELSE Added(k, t[k - 1])]
        <3>1. ASSUME NEW k \in 0 .. n PROVE t[k] = IF k = 0 THEN base ELSE Added(k, t[k - 1])
            BY <1>3, <1>11, <2>1
        <3> HIDE DEF n
        <3> QED
            BY <1>7, <3>1
    <2> QED
        BY <2>2 DEF Made
<1>13. made = [k \in 0 .. n |-> IF k = 0 THEN base ELSE Added(k, made[k - 1])]
    BY <1>2, <1>12 DEF Made
<1> DEFINE U == {k \in Nat : k <= n => made[k] = t[k]}
<1>14. 0 \in U
    BY <1>3, <1>7, <1>13 DEF Iterates
<1>15. ASSUME NEW k \in Nat, k \in U PROVE k + 1 \in U
    <2> SUFFICES ASSUME k + 1 <= n PROVE made[k + 1] = t[k + 1]
        OBVIOUS
    <2>1. k + 1 \in 0 .. n /\ k + 1 # 0 /\ k + 1 > 0 /\ (k + 1) - 1 = k /\ made[k] = t[k]
        BY <1>3, <1>15
    <2>2. made[k + 1] = Added(k + 1, made[k])
        BY <1>13, <2>1
    <2> QED
        BY <1>11, <2>1, <2>2
<1> HIDE DEF U
<1>16. n \in U
    BY <1>3, <1>14, <1>15, Induction
<1>17. made[n] = t[n] /\ n \in 0 .. n
    BY <1>3, <1>16 DEF U
<1> DEFINE o == t[n].out
<1>18. GroupsAre(t[n], n, f, lines, s) /\ Render(f, s, separate) = o
    BY <1>1, <1>11, <1>17
<1>19. RenderedUpTo(o, t[n].last, f, s)
    BY <1>18 DEF GroupsAre
<1>20. \A j \in 1 .. n : s[j] <= t[n].last
    <2> TAKE j \in 1 .. n
    <2>1. n > 0 /\ n \in 1 .. n /\ s[n] \in Nat /\ s[j] \in Nat /\ t[n].last \in Nat
        BY <1>3, <1>18 DEF GroupsAre, Groups
    <2>2. s[n] <= t[n].last
        BY <1>18, <2>1 DEF GroupsAre
    <2>3. j = n \/ s[j] < s[n]
        BY <1>3, <2>1
    <2> QED
        BY <2>1, <2>2, <2>3
<1> HIDE DEF o
<1>21. BlockIs(o, f)
    BY <1>19 DEF RenderedUpTo
<1>22. ASSUME query.mode = "grep" PROVE AnswersIn(o) = {<<f, s[j]>> : j \in 1 .. n}
    <2>1. ASSUME NEW i \in 1 .. Len(o), o[i] # Gap, o[i].hit PROVE \E j \in 1 .. n : <<o[i].file, o[i].n>> = <<f, s[j]>>
        <3>1. o[i].file = f
            BY <1>21, <2>1 DEF BlockIs
        <3>2. \E j \in 1 .. n : s[j] = o[i].n
            BY <1>19, <2>1 DEF RenderedUpTo
        <3> QED
            BY <3>1, <3>2
    <2>2. ASSUME NEW j \in 1 .. n
          PROVE  \E i \in 1 .. Len(o) : o[i] # Gap /\ o[i].hit /\ <<o[i].file, o[i].n>> = <<f, s[j]>>
        <3>1. PICK i \in 1 .. Len(o) : o[i] # Gap /\ o[i].hit /\ o[i].n = s[j]
            BY <1>19, <1>20 DEF RenderedUpTo
        <3>2. o[i].file = f
            BY <1>21, <3>1 DEF BlockIs
        <3> QED
            BY <3>1, <3>2
    <2>3. AnswersIn(o) = {<<o[k].file, o[k].n>> : k \in {k \in 1 .. Len(o) : o[k] # Gap /\ o[k].hit}}
        BY <1>22 DEF AnswersIn
    <2> HIDE DEF n
    <2>4. AnswersIn(o) \subseteq {<<f, s[j]>> : j \in 1 .. n}
        BY <2>1, <2>3
    <2>5. {<<f, s[j]>> : j \in 1 .. n} \subseteq AnswersIn(o)
        <3> SUFFICES ASSUME NEW j \in 1 .. n PROVE <<f, s[j]>> \in AnswersIn(o)
            OBVIOUS
        <3>1. PICK i \in 1 .. Len(o) : o[i] # Gap /\ o[i].hit /\ <<o[i].file, o[i].n>> = <<f, s[j]>>
            BY <2>2
        <3> QED
            BY <2>3, <3>1
    <2> QED
        BY <2>4, <2>5
<1> QED
    BY <1>18, <1>21, <1>22

\* What the first v entries hold that there is to find.
FoundUpTo(v) == UNION {{<<f, n>> : n \in FoundIn(f)} : f \in 1 .. v}

\* The answers are findings, and the first ones.
FirstOf(answers) ==
    /\ answers \subseteq Findings
    /\ \A a \in answers, b \in Findings : Precedes(b, a) => b \in answers

\* The first v entries were visited: unless the search was cut short, all they hold was
\* answered.  A search that goes on has room for another match.
SearchIs(v, o, h, c, foot, s) ==
    /\ v \in 0 .. Entries /\ h \in Nat /\ c \in BOOLEAN /\ s \in BOOLEAN
    /\ OutIs(o, v) /\ FirstOf(AnswersIn(o))
    /\ foot = "none" => c = ~s
    /\ foot = "none" /\ ~c => AnswersIn(o) = FoundUpTo(v)
    /\ foot # "none" => ~s
    /\ s /\ query.mode # "glob" => h < query.limit
    /\ foot = "complete" => AnswersIn(o) = Findings

SearchInv ==
    /\ tree \in [1 .. Entries -> Files] /\ query \in Queries
    /\ SearchIs(visited, out, hits, capped, footer, searching)

LEMMA SearchTyped ==
    ASSUME SearchInv
    PROVE  /\ query.context \in Nat /\ query.limit \in Nat \ {0} /\ query.mode \in {"grep", "files", "glob"}
           /\ \A f \in 1 .. Entries :
                  /\ tree[f].lines \in Nat /\ tree[f].matched \subseteq 1 .. tree[f].lines
                  /\ FoundIn(f) \subseteq Nat
<1>1. query \in Queries /\ tree \in [1 .. Entries -> Files]
    BY DEF SearchInv
<1>2. query.context \in Nat /\ query.limit \in Nat \ {0} /\ query.mode \in {"grep", "files", "glob"}
    BY <1>1, SearchAssumption DEF Queries
<1>3. ASSUME NEW f \in 1 .. Entries
      PROVE  tree[f].lines \in Nat /\ tree[f].matched \subseteq 1 .. tree[f].lines /\ FoundIn(f) \subseteq Nat
    <2> DEFINE e == tree[f]
               odd == {"link", "strayLink", "special", "junk", "binary", "unnamed"}
    <2>1. e \in Files
        BY <1>1
    <2>2. \/ \E n \in 0 .. MaxLines : e \in [kind : {"text"}, lines : {n}, matched : SUBSET (1 .. n)]
          \/ e \in [kind : odd, lines : {1}, matched : {{1}}]
        <3> HIDE DEF e
        <3> DEFINE Text(n) == [kind : {"text"}, lines : {n}, matched : SUBSET (1 .. n)]
        <3>1. e \in UNION {Text(n) : n \in 0 .. MaxLines} \/ e \in [kind : odd, lines : {1}, matched : {{1}}]
            BY <2>1 DEF Files
        <3> HIDE DEF Text
        <3>2. e \in UNION {Text(n) : n \in 0 .. MaxLines} => \E n \in 0 .. MaxLines : e \in Text(n)
            OBVIOUS
        <3> QED
            BY <3>1, <3>2 DEF Text
    <2> HIDE DEF e
    <2>3. e.lines \in Nat /\ e.matched \subseteq 1 .. e.lines
        <3>1. ASSUME NEW n \in 0 .. MaxLines, e \in [kind : {"text"}, lines : {n}, matched : SUBSET (1 .. n)]
              PROVE  e.lines \in Nat /\ e.matched \subseteq 1 .. e.lines
            BY <3>1, SearchAssumption
        <3>2. ASSUME e \in [kind : odd, lines : {1}, matched : {{1}}]
              PROVE  e.lines \in Nat /\ e.matched \subseteq 1 .. e.lines
            BY <3>2
        <3> QED
            BY <2>2, <3>1, <3>2
    <2>4. FoundIn(f) \subseteq {0} \cup e.matched
        BY DEF FoundIn, e
    <2> QED
        BY <2>3, <2>4 DEF e
<1> QED
    BY <1>2, <1>3

\* One more entry: all of what it holds, or the first of it.
LEMMA FoundGrows ==
    ASSUME SearchInv, NEW v \in Nat, v + 1 \in 1 .. Entries, NEW ns, ns \subseteq FoundIn(v + 1),
           \A a \in ns, b \in FoundIn(v + 1) : b < a => b \in ns
    PROVE  LET got == FoundUpTo(v) \cup {<<v + 1, n>> : n \in ns} IN
           /\ FirstOf(got)
           /\ ns = FoundIn(v + 1) => got = FoundUpTo(v + 1)
<1> DEFINE got == FoundUpTo(v) \cup {<<v + 1, n>> : n \in ns}
<1>1. Entries \in Nat /\ \A f \in 1 .. Entries : FoundIn(f) \subseteq Nat
    BY SearchAssumption, SearchTyped
<1>2. \A a : a \in Findings <=> \E f \in 1 .. Entries : \E n \in FoundIn(f) : a = <<f, n>>
    BY DEF Findings
<1>3. \A a : a \in FoundUpTo(v) <=> \E f \in 1 .. v : \E n \in FoundIn(f) : a = <<f, n>>
    BY DEF FoundUpTo
<1>4. \A a : a \in FoundUpTo(v + 1) <=> \E f \in 1 .. (v + 1) : \E n \in FoundIn(f) : a = <<f, n>>
    BY DEF FoundUpTo
<1>5. \A a : a \in got <=> a \in FoundUpTo(v) \/ \E n \in ns : a = <<v + 1, n>>
    OBVIOUS
<1> HIDE DEF got
<1>6. got \subseteq Findings
    <2> SUFFICES ASSUME NEW a \in got PROVE a \in Findings
        OBVIOUS
    <2>1. CASE a \in FoundUpTo(v)
        <3>1. PICK f \in 1 .. v : \E n \in FoundIn(f) : a = <<f, n>>
            BY <1>3, <2>1
        <3>2. f \in 1 .. Entries
            BY <1>1
        <3> QED
            BY <1>2, <3>1, <3>2
    <2>2. CASE a \notin FoundUpTo(v)
        BY <1>2, <1>5, <2>2
    <2> QED
        BY <2>1, <2>2
<1>7. ASSUME NEW a \in got, NEW b \in Findings, Precedes(b, a) PROVE b \in got
    <2>1. PICK g \in 1 .. Entries : \E m \in FoundIn(g) : b = <<g, m>>
        BY <1>2
    <2>11. PICK m \in FoundIn(g) : b = <<g, m>>
        BY <2>1
    <2>2. PICK f \in 1 .. (v + 1) : \E n \in FoundIn(f) : a = <<f, n>> /\ (f = v + 1 => n \in ns)
        <3>1. CASE a \in FoundUpTo(v)
            <4>1. PICK f \in 1 .. v : \E n \in FoundIn(f) : a = <<f, n>>
                BY <1>3, <3>1
            <4>2. f \in 1 .. (v + 1) /\ f # v + 1
                OBVIOUS
            <4> QED
                BY <4>1, <4>2
        <3>2. CASE a \notin FoundUpTo(v)
            <4>1. PICK n \in ns : a = <<v + 1, n>>
                BY <1>5, <3>2
            <4>2. n \in FoundIn(v + 1) /\ v + 1 \in 1 .. (v + 1)
                OBVIOUS
            <4> QED
                BY <4>1, <4>2
        <3> QED
            BY <3>1, <3>2
    <2>21. PICK n \in FoundIn(f) : a = <<f, n>> /\ (f = v + 1 => n \in ns)
        BY <2>2
    <2>3. g < f \/ (g = f /\ m < n)
        BY <1>7, <2>11, <2>21 DEF Precedes
    <2>4. g \in 1 .. v \/ (g = v + 1 /\ f = v + 1 /\ m < n)
        BY <1>1, <2>3
    <2>5. CASE g \in 1 .. v
        BY <1>3, <1>5, <2>11, <2>5
    <2>6. CASE g = v + 1 /\ f = v + 1 /\ m < n
        <3>1. m \in ns
            BY <2>11, <2>21, <2>6
        <3> QED
            BY <1>5, <2>11, <2>6, <3>1
    <2> QED
        BY <2>4, <2>5, <2>6
<1>8. FirstOf(got)
    BY <1>6, <1>7 DEF FirstOf
<1>9. ASSUME ns = FoundIn(v + 1), NEW a PROVE a \in got <=> a \in FoundUpTo(v + 1)
    <2>1. \A f : f \in 1 .. (v + 1) <=> (f \in 1 .. v \/ f = v + 1)
        OBVIOUS
    <2> QED
        BY <1>3, <1>4, <1>5, <1>9, <2>1
<1>10. ns = FoundIn(v + 1) => got = FoundUpTo(v + 1)
    BY <1>9
<1> QED
    BY <1>8, <1>10 DEF got

\* What follows when nothing but this changes.
LEMMA SearchInvNext ==
    ASSUME SearchInv, UNCHANGED <<tree, query>>,
           SearchIs(visited', out', hits', capped', footer', searching')
    PROVE  SearchInv'
<1>1. tree' = tree /\ query' = query
    OBVIOUS
<1>2. Findings' = Findings
    BY <1>1 DEF Findings, FoundIn, Wanted, Walked, Readable
<1>3. FoundUpTo(visited)' = FoundUpTo(visited')
    BY <1>1 DEF FoundUpTo, FoundIn, Wanted, Walked, Readable
<1>4. AnswersIn(out)' = AnswersIn(out')
    BY <1>1 DEF AnswersIn
<1>5. OutIs(out, visited)' <=> OutIs(out', visited')
    BY <1>1 DEF OutIs, Precedes
<1>6. FirstOf(AnswersIn(out))' <=> FirstOf(AnswersIn(out'))
    BY <1>2, <1>4 DEF FirstOf, Precedes
<1>7. SearchIs(visited, out, hits, capped, footer, searching)'
    BY <1>1, <1>2, <1>3, <1>4, <1>5, <1>6 DEF SearchIs
<1> QED
    BY <1>1, <1>7 DEF SearchInv

LEMMA SearchInvInit ==
    ASSUME SearchInit(Files, Queries)
    PROVE  SearchInv
<1>1. /\ tree \in [1 .. Entries -> Files] /\ query \in Queries
      /\ visited = 0 /\ out = <<>> /\ hits = 0
      /\ capped = FALSE /\ footer = "none" /\ searching = TRUE
    BY DEF SearchInit
<1>2. query.limit \in Nat /\ 0 < query.limit
    <2>1. query.limit \in Limits
        BY <1>1 DEF Queries
    <2>2. query.limit \in Nat \ {0}
        BY <2>1, SearchAssumption
    <2> QED
        BY <2>2
<1>3. OutIs(<<>>, 0)
    BY DEF OutIs
<1>4. AnswersIn(<<>>) = {}
    BY DEF AnswersIn
<1>5. FoundUpTo(0) = {}
    BY DEF FoundUpTo
<1>6. FirstOf({})
    BY DEF FirstOf
<1>7. 0 \in 0 .. Entries
    BY SearchAssumption
<1>8. SearchIs(0, <<>>, 0, FALSE, "none", TRUE)
    BY <1>2, <1>3, <1>4, <1>5, <1>6, <1>7 DEF SearchIs
<1> QED
    BY <1>1, <1>8 DEF SearchInv

\* The search passes one entry and adds what it answers of it.
LEMMA PassedIs ==
    ASSUME SearchInv, searching, visited < Entries,
           NEW b, BlockIs(b, visited + 1), NEW ns, ns \subseteq FoundIn(visited + 1),
           \A a \in ns, m \in FoundIn(visited + 1) : m < a => m \in ns,
           AnswersIn(b) = {<<visited + 1, n>> : n \in ns},
           NEW h \in Nat, NEW c \in BOOLEAN, c \/ ns = FoundIn(visited + 1),
           NEW s \in BOOLEAN, s = ~c, s /\ query.mode # "glob" => h < query.limit
    PROVE  SearchIs(visited + 1, out \o b, h, c, footer, s)
<1>1. /\ visited \in 0 .. Entries /\ OutIs(out, visited)
      /\ footer = "none" /\ ~capped /\ AnswersIn(out) = FoundUpTo(visited)
    BY DEF SearchInv, SearchIs
<1>2. visited \in Nat /\ visited + 1 \in 1 .. Entries /\ visited + 1 \in 0 .. Entries
    BY <1>1, SearchAssumption
<1> DEFINE got == FoundUpTo(visited) \cup {<<visited + 1, n>> : n \in ns}
<1>3. FirstOf(got) /\ (ns = FoundIn(visited + 1) => got = FoundUpTo(visited + 1))
    BY <1>2, FoundGrows
<1>4. OutIs(out \o b, visited + 1) /\ AnswersIn(out \o b) = AnswersIn(out) \cup AnswersIn(b)
    BY <1>1, <1>2, JoinedIs
<1>5. AnswersIn(out \o b) = got
    BY <1>1, <1>4
<1> HIDE DEF got
<1> QED
    BY <1>1, <1>2, <1>3, <1>4, <1>5 DEF SearchIs

\* An entry of which nothing is answered.
LEMMA PassedOver ==
    ASSUME SearchInv, searching, visited < Entries,
           NEW h \in Nat, NEW c \in BOOLEAN, c \/ FoundIn(visited + 1) = {},
           NEW s \in BOOLEAN, s = ~c, s /\ query.mode # "glob" => h < query.limit
    PROVE  SearchIs(visited + 1, out, h, c, footer, s)
<1>1. out \in Seq(OutLine)
    BY DEF SearchInv, SearchIs, OutIs
<1>2. BlockIs(<<>>, visited + 1)
    BY DEF BlockIs
<1>3. AnswersIn(<<>>) = {<<visited + 1, n>> : n \in {}}
    BY DEF AnswersIn
<1>4. SearchIs(visited + 1, out \o <<>>, h, c, footer, s)
    BY <1>2, <1>3, PassedIs
<1>5. out \o <<>> = out
    BY <1>1
<1> QED
    BY <1>4, <1>5

LEMMA NamedLine ==
    ASSUME NEW f \in Nat
    PROVE  [Gap EXCEPT !.file = f] = [file |-> f, n |-> 0, hit |-> FALSE]
<1>1. Gap \in OutLine /\ Gap.n = 0 /\ Gap.hit = FALSE
    BY DEF Gap, OutLine
<1>2. \A r \in OutLine : [r EXCEPT !.file = f] = [file |-> f, n |-> r.n, hit |-> r.hit]
    BY DEF OutLine
<1> QED
    BY <1>1, <1>2

\* An entry that is named in the answer.
LEMMA PassedNamed ==
    ASSUME SearchInv, searching, visited < Entries, query.mode # "grep",
           FoundIn(visited + 1) = {0},
           NEW h \in Nat, NEW c \in BOOLEAN,
           NEW s \in BOOLEAN, s = ~c, s /\ query.mode # "glob" => h < query.limit
    PROVE  SearchIs(visited + 1, out \o <<[Gap EXCEPT !.file = visited + 1]>>, h, c, footer, s)
<1> DEFINE l == [Gap EXCEPT !.file = visited + 1]
           b == <<l>>
<1>1. visited \in Nat
    BY DEF SearchInv, SearchIs
<1>2. l = [file |-> visited + 1, n |-> 0, hit |-> FALSE] /\ l # Gap /\ l \in OutLine
    <2>1. l = [file |-> visited + 1, n |-> 0, hit |-> FALSE]
        BY <1>1, NamedLine
    <2> HIDE DEF l
    <2>2. l.file = visited + 1 /\ Gap.file = 0
        BY <2>1 DEF Gap
    <2>3. l # Gap
        BY <1>1, <2>2
    <2> QED
        BY <1>1, <2>1, <2>3 DEF OutLine
<1>3. Len(b) = 1 /\ b[1] = l /\ b \in Seq(OutLine)
    BY <1>2
<1>4. l.file = visited + 1 /\ l.n = 0
    BY <1>2
<1> HIDE DEF l, b
<1>5. BlockIs(b, visited + 1)
    BY <1>3, <1>4 DEF BlockIs
<1>6. AnswersIn(b) = {<<visited + 1, n>> : n \in {0}}
    <2>1. \A k : k \in 1 .. Len(b) <=> k = 1
        BY <1>3
    <2> QED
        BY <1>2, <1>3, <1>4, <2>1 DEF AnswersIn
<1>7. SearchIs(visited + 1, out \o b, h, c, footer, s)
    BY <1>5, <1>6, PassedIs
<1> QED
    BY <1>7 DEF b, l

LEMMA GrepKeeps ==
    ASSUME SearchInv, GrepFile
    PROVE  SearchInv'
<1> DEFINE f == visited + 1
           e == tree[f]
           matched == InOrder(e.matched, e.lines)
           room == query.limit - hits
           taken == SubSeq(matched, 1, Min({room, Len(matched)}))
           count == IF query.mode = "files" THEN 1 ELSE Len(taken)
           found == Wanted(e) /\ Readable(e) /\ matched # <<>>
           b == IF query.mode = "files" THEN <<[Gap EXCEPT !.file = f]>>
                ELSE Render(f, taken, out # <<>>)
<1>1. /\ searching /\ query.mode # "glob" /\ visited < Entries /\ visited' = f
      /\ UNCHANGED <<tree, query, footer>>
      /\ found => /\ out' = out \o b
                  /\ hits' = hits + count
                  /\ capped' = (hits + count >= query.limit)
                  /\ searching' = ~capped'
      /\ ~found => UNCHANGED <<out, hits, capped, searching>>
    BY DEF GrepFile
<1>2. /\ visited \in 0 .. Entries /\ hits \in Nat /\ hits < query.limit
      /\ footer = "none" /\ capped = FALSE /\ searching = TRUE
    BY <1>1 DEF SearchInv, SearchIs
<1>3. visited \in Nat /\ f \in Nat \ {0} /\ f \in 1 .. Entries
    BY <1>1, <1>2, SearchAssumption
<1>4. /\ query.context \in Nat /\ query.limit \in Nat \ {0} /\ query.mode \in {"grep", "files"}
      /\ e.lines \in Nat /\ e.matched \subseteq 1 .. e.lines
    BY <1>1, <1>3, SearchTyped
<1>41. query.limit \in Nat
    BY <1>4
<1>5. /\ matched \in Seq(Nat) /\ Len(matched) \in Nat
      /\ \A j \in 1 .. Len(matched) : matched[j] \in e.matched
      /\ \A i, j \in 1 .. Len(matched) : i < j => matched[i] < matched[j]
      /\ \A x \in e.matched : \E j \in 1 .. Len(matched) : matched[j] = x
    BY <1>4, InOrderIs
<1> HIDE DEF matched
<1>6. matched = <<>> <=> e.matched = {}
    <2>1. matched = <<>> <=> Len(matched) = 0
        BY <1>5
    <2>2. Len(matched) = 0 => e.matched = {}
        BY <1>5
    <2>3. Len(matched) # 0 => e.matched # {}
        <3>1. Len(matched) # 0 => 1 \in 1 .. Len(matched)
            BY <1>5
        <3> QED
            BY <1>5, <3>1
    <2> QED
        BY <2>1, <2>2, <2>3
<1>7. /\ ~found => FoundIn(f) = {}
      /\ found /\ query.mode = "files" => FoundIn(f) = {0}
      /\ found /\ query.mode = "grep" => FoundIn(f) = e.matched
    BY <1>1, <1>6 DEF FoundIn
<1>8. SearchIs(visited', out', hits', capped', footer', searching')
    <2>1. CASE ~found
        <3>1. SearchIs(visited + 1, out, hits, FALSE, footer, TRUE)
            BY <1>1, <1>2, <1>7, <2>1, PassedOver
        <3> QED
            BY <1>1, <1>2, <2>1, <3>1
    <2>2. CASE found /\ query.mode = "files"
        <3>1. /\ count = 1 /\ out' = out \o <<[Gap EXCEPT !.file = visited + 1]>> /\ hits' = hits + 1
              /\ capped' = (hits + 1 >= query.limit) /\ searching' = ~capped'
            BY <1>1, <2>2
        <3>2. hits' \in Nat /\ capped' \in BOOLEAN /\ searching' \in BOOLEAN
            BY <1>2, <3>1
        <3>3. searching' => hits' < query.limit
            <4>1. searching' => ~(hits + 1 >= query.limit)
                BY <3>1
            <4> QED
                BY <1>2, <1>41, <3>1, <4>1
        <3> HIDE DEF found
        <3>4. SearchIs(visited + 1, out \o <<[Gap EXCEPT !.file = visited + 1]>>, hits', capped', footer, searching')
            BY <1>1, <1>7, <2>2, <3>1, <3>2, <3>3, PassedNamed
        <3> QED
            BY <1>1, <3>1, <3>4
    <2>3. CASE found /\ query.mode = "grep"
        <3> DEFINE m == IF room <= Len(matched) THEN room ELSE Len(matched)
                   ns == {taken[j] : j \in 1 .. Len(taken)}
        <3>1. room \in Nat /\ Min({room, Len(matched)}) = m /\ m \in 0 .. Len(matched)
            <4>1. room \in Nat
                BY <1>2, <1>41
            <4> HIDE DEF room
            <4>2. Min({room, Len(matched)}) = m
                <5> DEFINE all == Len(matched)
                <5>1. all \in Int /\ room \in Int
                    BY <1>5, <4>1
                <5> HIDE DEF all
                <5>2. Min({room, all}) = IF room <= all THEN room ELSE all
                    BY <5>1, SmallerIs
                <5> QED
                    BY <5>2 DEF all
            <4> QED
                BY <1>5, <4>1, <4>2
        <3>2. /\ taken \in Seq(Nat) /\ Len(taken) = m
              /\ \A j \in 1 .. m : taken[j] = matched[j] /\ j \in 1 .. Len(matched)
            <4> HIDE DEF m
            <4>1. taken = SubSeq(matched, 1, m)
                BY <3>1
            <4> HIDE DEF taken
            <4>2. 1 \in 1 .. Len(matched) + 1 /\ m \in 0 .. Len(matched)
                BY <1>5, <3>1
            <4> QED
                BY <1>5, <4>1, <4>2, SubSeqProperties
        <3>3. /\ \A j \in 1 .. Len(taken) : taken[j] \in 1 .. e.lines
              /\ \A i, j \in 1 .. Len(taken) : i < j => taken[i] < taken[j]
            BY <1>4, <1>5, <3>2
        <3>4. /\ out' = out \o b /\ b = Render(f, taken, out # <<>>) /\ hits' = hits + Len(taken)
              /\ capped' = (hits + Len(taken) >= query.limit) /\ searching' = ~capped'
            BY <1>1, <2>3
        <3> HIDE DEF found, taken, b
        <3>5. BlockIs(b, f) /\ AnswersIn(b) = {<<f, taken[j]>> : j \in 1 .. Len(taken)}
            BY <1>3, <1>4, <2>3, <3>2, <3>3, <3>4, RenderIs
        <3>6. AnswersIn(b) = {<<f, n>> : n \in ns}
            BY <3>5
        <3>7. ns \subseteq FoundIn(f)
            <4>1. FoundIn(f) = e.matched
                BY <1>7, <2>3
            <4> QED
                <5>1. ASSUME NEW j \in 1 .. Len(taken) PROVE taken[j] \in e.matched
                    BY <1>5, <3>2
                <5> QED
                    BY <4>1, <5>1
        <3>8. ASSUME NEW a \in ns, NEW x \in FoundIn(f), x < a PROVE x \in ns
            <4>1. PICK j \in 1 .. m : a = matched[j] /\ j \in 1 .. Len(matched)
                BY <3>2
            <4>2. PICK i \in 1 .. Len(matched) : x = matched[i]
                BY <1>5, <1>7, <2>3
            <4>3. i < j
                <5>1. matched[i] \in Nat /\ matched[j] \in Nat
                    BY <1>5, <4>1
                <5>2. ~(j < i) /\ i # j
                    BY <1>5, <3>8, <4>1, <4>2, <5>1
                <5> QED
                    BY <1>5, <5>2
            <4>4. i \in 1 .. m /\ taken[i] = x
                BY <1>5, <3>1, <3>2, <4>2, <4>3, SMTT(30)
            <4> QED
                BY <3>2, <4>4
        <3>9. ~capped' => ns = FoundIn(f)
            <4>1. ~capped' => ~(hits + m >= query.limit)
                BY <3>2, <3>4
            <4>2. ~capped' => m = Len(matched)
                BY <1>2, <1>41, <1>5, <3>1, <4>1
            <4>3. FoundIn(f) = e.matched
                BY <1>7, <2>3
            <4>4. m = Len(matched) => e.matched \subseteq ns
                BY <1>5, <3>2
            <4> QED
                BY <3>7, <4>2, <4>3, <4>4
        <3>10. /\ hits' \in Nat /\ capped' \in BOOLEAN /\ searching' \in BOOLEAN
               /\ searching' => hits' < query.limit
            <4>1. searching' => ~(hits + m >= query.limit)
                BY <3>2, <3>4
            <4>2. hits' = hits + m /\ m \in Nat
                BY <1>5, <3>1, <3>2, <3>4
            <4>3. capped' \in BOOLEAN /\ searching' \in BOOLEAN
                BY <3>4
            <4> HIDE DEF m
            <4> QED
                BY <1>2, <1>41, <4>1, <4>2, <4>3
        <3> HIDE DEF ns
        <3>11. SearchIs(visited + 1, out \o b, hits', capped', footer, searching')
            BY <1>1, <3>4, <3>5, <3>6, <3>7, <3>8, <3>9, <3>10, PassedIs
        <3> QED
            BY <1>1, <3>4, <3>11
    <2> QED
        BY <1>4, <2>1, <2>2, <2>3
<1> QED
    BY <1>1, <1>8, SearchInvNext

LEMMA GlobKeeps ==
    ASSUME SearchInv, GlobFile
    PROVE  SearchInv'
<1>1. /\ searching /\ query.mode = "glob" /\ visited < Entries /\ visited' = visited + 1
      /\ UNCHANGED <<tree, query, footer>>
    BY DEF GlobFile
<1>2. /\ visited \in 0 .. Entries /\ hits \in Nat /\ out \in Seq(OutLine)
      /\ footer = "none" /\ capped = FALSE /\ searching = TRUE
    BY <1>1 DEF SearchInv, SearchIs, OutIs
<1>3. FoundIn(visited + 1) = IF Wanted(tree[visited + 1]) THEN {0} ELSE {}
    BY <1>1 DEF FoundIn
<1>4. query.limit \in Nat
    BY SearchTyped
<1>5. SearchIs(visited', out', hits', capped', footer', searching')
    <2>1. CASE ~Wanted(tree[visited + 1])
        <3>1. UNCHANGED <<out, hits, capped, searching>>
            BY <2>1 DEF GlobFile
        <3>2. SearchIs(visited + 1, out, hits, FALSE, footer, TRUE)
            BY <1>1, <1>2, <1>3, <2>1, PassedOver
        <3> QED
            BY <1>1, <1>2, <3>1, <3>2
    <2>2. CASE Wanted(tree[visited + 1]) /\ hits + 1 > query.limit
        <3>1. capped' = TRUE /\ searching' = FALSE /\ UNCHANGED <<out, hits>>
            BY <2>2 DEF GlobFile
        <3>2. SearchIs(visited + 1, out, hits, TRUE, footer, FALSE)
            BY <1>1, <1>2, PassedOver
        <3> QED
            BY <1>1, <1>2, <3>1, <3>2
    <2>3. CASE Wanted(tree[visited + 1]) /\ ~(hits + 1 > query.limit)
        <3>1. /\ out' = Append(out, [Gap EXCEPT !.file = visited + 1])
              /\ hits' = hits + 1 /\ UNCHANGED <<capped, searching>>
            BY <2>3 DEF GlobFile
        <3>2. out' = out \o <<[Gap EXCEPT !.file = visited + 1]>>
            BY <1>2, <3>1
        <3>3. hits + 1 \in Nat
            BY <1>2
        <3>4. SearchIs(visited + 1, out \o <<[Gap EXCEPT !.file = visited + 1]>>, hits + 1, FALSE, footer, TRUE)
            BY <1>1, <1>2, <1>3, <2>3, <3>3, PassedNamed
        <3> QED
            BY <1>1, <1>2, <3>1, <3>2, <3>4
    <2> QED
        BY <2>1, <2>2, <2>3
<1> QED
    BY <1>1, <1>5, SearchInvNext

LEMMA ClipKeeps ==
    ASSUME SearchInv, Clip
    PROVE  SearchInv'
<1>1. /\ visited = Entries \/ ~searching
      /\ footer = "none" /\ searching' = FALSE
      /\ UNCHANGED <<tree, query, visited, hits, capped>>
    BY DEF Clip
<1>2. /\ visited \in 0 .. Entries /\ hits \in Nat /\ capped \in BOOLEAN /\ capped = ~searching
      /\ OutIs(out, visited) /\ FirstOf(AnswersIn(out))
      /\ ~capped => AnswersIn(out) = FoundUpTo(visited)
    BY <1>1 DEF SearchInv, SearchIs
<1>3. out \in Seq(OutLine) /\ Len(out) \in Nat /\ MaxOutput \in Nat /\ visited \in Nat
    BY <1>2, SearchAssumption DEF OutIs
<1>4. SearchIs(visited', out', hits', capped', footer', searching')
    <2>1. CASE Len(out) > MaxOutput
        <3> DEFINE s == SubSeq(out, 1, MaxOutput)
        <3>1. out' = s /\ footer' = "truncated"
            BY <2>1 DEF Clip
        <3>2. /\ OutIs(s, visited) /\ AnswersIn(s) \subseteq AnswersIn(out)
              /\ \A a \in AnswersIn(s), b \in AnswersIn(out) : Precedes(b, a) => b \in AnswersIn(s)
            BY <1>2, <1>3, <2>1, CutShortIs
        <3> HIDE DEF s
        <3>3. FirstOf(AnswersIn(s))
            BY <1>2, <3>2 DEF FirstOf
        <3>4. SearchIs(visited, s, hits, capped, "truncated", FALSE)
            BY <1>2, <3>2, <3>3 DEF SearchIs
        <3> QED
            BY <1>1, <3>1, <3>4
    <2>2. CASE ~(Len(out) > MaxOutput)
        <3>1. out' = out /\ footer' = IF capped THEN "stopped" ELSE "complete"
            BY <2>2 DEF Clip
        <3>2. footer' = "complete" => AnswersIn(out) = Findings
            BY <1>1, <1>2, <3>1 DEF Findings, FoundUpTo
        <3>3. SearchIs(visited, out, hits, capped, footer', FALSE)
            BY <1>2, <3>1, <3>2 DEF SearchIs
        <3> QED
            BY <1>1, <3>1, <3>3
    <2> QED
        BY <2>1, <2>2
<1> QED
    BY <1>1, <1>4, SearchInvNext

LEMMA SearchInvHonest ==
    ASSUME SearchInv
    PROVE  SearchHonest
<1>1. /\ OutIs(out, visited) /\ FirstOf(AnswersIn(out))
      /\ footer = "complete" => AnswersIn(out) = Findings
    BY DEF SearchInv, SearchIs
<1>2. out \in Seq(OutLine) /\ DOMAIN out = 1 .. Len(out)
    BY <1>1 DEF OutIs
<1>3. Answers = AnswersIn(out)
    BY <1>2 DEF Answers, AnswersIn, LineAt
<1>4. Answers \subseteq Findings
    BY <1>1, <1>3 DEF FirstOf
<1>5. \A a \in Answers, b \in Findings : Precedes(b, a) => b \in Answers
    BY <1>1, <1>3 DEF FirstOf
<1>6. \A j, k \in DOMAIN out :
          j < k /\ out[j] # Gap /\ out[k] # Gap => Precedes(LineAt(j), LineAt(k))
    BY <1>1, <1>2 DEF OutIs, LineAt
<1>7. \A k \in 2 .. Len(out) :
          out[k - 1].file = out[k].file /\ query.context > 0 /\ out[k] # Gap
              => out[k].n = out[k - 1].n + 1
    BY <1>1 DEF OutIs
<1> QED
    BY <1>1, <1>3, <1>4, <1>5, <1>6, <1>7 DEF SearchHonest

\* A finished search shows the first of what there is to find, in order, keeps apart what does
\* not follow on, and says so when it leaves a finding out, whatever the tree, the query and
\* the caps (Grep._search, Glob.run, _render and _clip).
THEOREM SearchesAreHonest ==
    SearchInit(Files, Queries) /\ [][SearchNext]_searchVars => []SearchHonest
<1>1. SearchInit(Files, Queries) => SearchInv
    BY SearchInvInit
<1>2. SearchInv /\ [SearchNext]_searchVars => SearchInv'
    <2> SUFFICES ASSUME SearchInv, [SearchNext]_searchVars PROVE SearchInv'
        OBVIOUS
    <2>1. CASE GrepFile
        BY <2>1, GrepKeeps
    <2>2. CASE GlobFile
        BY <2>2, GlobKeeps
    <2>3. CASE Clip
        BY <2>3, ClipKeeps
    <2>4. CASE UNCHANGED searchVars
        <3>1. UNCHANGED <<tree, query>>
            BY <2>4 DEF searchVars
        <3>2. SearchIs(visited', out', hits', capped', footer', searching')
            BY <2>4 DEF searchVars, SearchInv
        <3> QED
            BY <3>1, <3>2, SearchInvNext
    <2> QED
        BY <2>1, <2>2, <2>3, <2>4 DEF SearchNext
<1>3. SearchInv => SearchHonest
    BY SearchInvHonest
<1> QED
    BY <1>1, <1>2, <1>3, PTL

-----------------------------------------------------------------------------
(* Reads of a file: its lines, and how a reader that gets it in chunks has *)
(* them.                                                                   *)

\* A part of a text.
LEMMA PartIs ==
    ASSUME NEW S, NEW s \in Seq(S), NEW a \in Nat \ {0}, NEW b \in Int, b <= Len(s)
    PROVE  /\ SubSeq(s, a, b) \in Seq(S)
           /\ Len(SubSeq(s, a, b)) = IF a <= b THEN b - a + 1 ELSE 0
           /\ \A i \in 1 .. b - a + 1 : SubSeq(s, a, b)[i] = s[a + i - 1]
<1>1. \A i \in a .. b : s[i] \in S
    <2> SUFFICES ASSUME NEW i \in a .. b PROVE s[i] \in S
        OBVIOUS
    <2>1. i \in 1 .. Len(s)
        OBVIOUS
    <2> QED
        BY <2>1, ElementOfSeq
<1>2. a \in Int /\ b \in Int
    OBVIOUS
<1> QED
    BY <1>1, <1>2, SubSeqProperties

\* Part of a text that is itself part of one.
LEMMA PartOfPart ==
    ASSUME NEW S, NEW s \in Seq(S), NEW q \in Nat, NEW r \in Int, q <= r, r <= Len(s),
           NEW a \in Nat \ {0}, NEW b \in Int, b <= r - q
    PROVE  SubSeq(SubSeq(s, q + 1, r), a, b) = SubSeq(s, q + a, q + b)
<1> DEFINE p == SubSeq(s, q + 1, r)
           x == SubSeq(p, a, b)
           y == SubSeq(s, q + a, q + b)
<1>1. q + 1 \in Nat \ {0} /\ r - (q + 1) + 1 = r - q /\ Len(s) \in Nat
    OBVIOUS
<1>2. p \in Seq(S) /\ Len(p) = r - q /\ \A i \in 1 .. (r - q) : p[i] = s[q + 1 + i - 1]
    BY <1>1, PartIs
<1> HIDE DEF p
<1>3. /\ x \in Seq(S) /\ Len(x) = (IF a <= b THEN b - a + 1 ELSE 0)
      /\ \A i \in 1 .. b - a + 1 : x[i] = p[a + i - 1]
    <2>1. p \in Seq(S) /\ b <= Len(p)
        BY <1>2
    <2> QED
        BY <2>1, PartIs, SMTT(30)
<1>4. /\ y \in Seq(S) /\ Len(y) = (IF q + a <= q + b THEN (q + b) - (q + a) + 1 ELSE 0)
      /\ \A i \in 1 .. (q + b) - (q + a) + 1 : y[i] = s[q + a + i - 1]
    <2>1. q + a \in Nat \ {0} /\ q + b \in Int /\ q + b <= Len(s)
        BY <1>1
    <2> QED
        BY <2>1, PartIs
<1> HIDE DEF x, y
<1>5. Len(x) = Len(y)
    BY <1>3, <1>4
<1>6. ASSUME NEW i \in 1 .. Len(x) PROVE x[i] = y[i]
    <2>1. i \in 1 .. b - a + 1 /\ i \in 1 .. (q + b) - (q + a) + 1
        BY <1>3
    <2>2. a + i - 1 \in 1 .. (r - q) /\ q + 1 + (a + i - 1) - 1 = q + a + i - 1
        BY <1>1, <2>1
    <2> QED
        BY <1>2, <1>3, <1>4, <2>1, <2>2
<1> QED
    BY <1>3, <1>4, <1>5, <1>6, SeqEqual DEF x, y, p

LinesOf(Chars) == [text : Seq(Chars), cut : BOOLEAN]

\* A line stays one.
LEMMA ExtendIs ==
    ASSUME NEW Chars, NEW part \in LinesOf(Chars), NEW piece \in Seq(Chars)
    PROVE  Extend(part, piece) \in LinesOf(Chars)
<1> DEFINE s == part.text \o piece
           m == IF MaxLineChars < Len(s) THEN MaxLineChars ELSE Len(s)
<1>1. part.text \in Seq(Chars) /\ part.cut \in BOOLEAN
    BY DEF LinesOf
<1>2. s \in Seq(Chars) /\ Len(s) \in Nat
    BY <1>1, ConcatProperties
<1> HIDE DEF s
<1>3. SubSeq(s, 1, m) \in Seq(Chars)
    <2>1. m \in Int /\ m <= Len(s) /\ 1 \in Nat \ {0}
        BY <1>2, TextAssumption
    <2> HIDE DEF m
    <2> QED
        BY <1>2, <2>1, PartIs
<1>4. Slice(s, 1, MaxLineChars) = SubSeq(s, 1, m)
    BY DEF Slice
<1>5. (Len(part.text) + Len(piece) > MaxLineChars) \in BOOLEAN
    OBVIOUS
<1> QED
    BY <1>1, <1>3, <1>4, <1>5 DEF Extend, LinesOf, s

\* A line begins blank, and stays so only without text.
LEMMA BlankIs ==
    ASSUME NEW Chars
    PROVE  /\ Blank \in LinesOf(Chars)
           /\ \A a \in Seq(Chars) :
                 /\ Extend(Blank, a).cut = (Len(a) > MaxLineChars)
                 /\ Extend(Blank, a).text = SubSeq(a, 1, IF MaxLineChars < Len(a) THEN MaxLineChars ELSE Len(a))
                 /\ Extend(Blank, a) = Blank <=> a = <<>>
<1>1. Blank \in LinesOf(Chars) /\ Blank.text = <<>> /\ ~Blank.cut
    BY DEF Blank, LinesOf
<1>2. ASSUME NEW a \in Seq(Chars)
      PROVE  /\ Extend(Blank, a).cut = (Len(a) > MaxLineChars)
             /\ Extend(Blank, a).text = SubSeq(a, 1, IF MaxLineChars < Len(a) THEN MaxLineChars ELSE Len(a))
             /\ Extend(Blank, a) = Blank <=> a = <<>>
    <2> DEFINE m == IF MaxLineChars < Len(a) THEN MaxLineChars ELSE Len(a)
    <2>1. <<>> \o a = a /\ Len(a) \in Nat /\ Len(<<>>) = 0
        BY ConcatEmptySeq
    <2>2. Extend(Blank, a) = [text |-> SubSeq(a, 1, m), cut |-> Len(a) > MaxLineChars]
        BY <1>1, <2>1 DEF Extend, Slice
    <2>3. m \in Nat /\ m <= Len(a) /\ (m = 0 => a = <<>> \/ Len(a) > MaxLineChars)
        BY <2>1, TextAssumption
    <2>4. Extend(Blank, a).cut = (Len(a) > MaxLineChars) /\ Extend(Blank, a).text = SubSeq(a, 1, m)
        <3> DEFINE c == Len(a) > MaxLineChars
                   t == SubSeq(a, 1, m)
                   e == Extend(Blank, a)
        <3> HIDE DEF c, t, e
        <3>1. e = [text |-> t, cut |-> c]
            BY <2>2 DEF c, t, e
        <3>2. e.text = t /\ e.cut = c
            BY <3>1
        <3> QED
            BY <3>2 DEF c, t, e
    <2> HIDE DEF m
    <2>5. Len(SubSeq(a, 1, m)) = m
        BY <2>1, <2>3, PartIs
    <2>6. ASSUME a # <<>> PROVE Extend(Blank, a) # Blank
        <3>1. CASE m = 0
            BY <1>1, <2>3, <2>4, <2>6, <3>1
        <3>2. CASE m # 0
            BY <1>1, <2>1, <2>4, <2>5, <3>2
        <3> QED
            BY <3>1, <3>2
    <2>7. ASSUME a = <<>> PROVE Extend(Blank, a) = Blank
        <3>1. m = 0 /\ ~(Len(a) > MaxLineChars)
            BY <2>7, <2>1, TextAssumption DEF m
        <3>2. SubSeq(a, 1, 0) = <<>>
            BY SubSeqEmpty
        <3> QED
            <4>1. (Len(a) > MaxLineChars) = FALSE
                BY <3>1
            <4>2. Extend(Blank, a) = [text |-> SubSeq(a, 1, m), cut |-> FALSE]
                BY <2>2, <4>1
            <4> QED
                BY <3>1, <3>2, <4>2 DEF Blank
    <2> QED
        BY <2>4, <2>6, <2>7 DEF m
<1> QED
    BY <1>1, <1>2

\* A line that comes in two pieces is as if it had come at once.
LEMMA ExtendTwice ==
    ASSUME NEW Chars, NEW a \in Seq(Chars), NEW b \in Seq(Chars)
    PROVE  Extend(Extend(Blank, a), b) = Extend(Blank, a \o b)
<1> DEFINE l == Extend(Blank, a)
           r == Extend(Blank, a \o b)
           m(s) == IF MaxLineChars < Len(s) THEN MaxLineChars ELSE Len(s)
<1>1. a \o b \in Seq(Chars) /\ Len(a \o b) = Len(a) + Len(b) /\ Len(a) \in Nat /\ Len(b) \in Nat
    BY ConcatProperties
<1>2. /\ l \in LinesOf(Chars) /\ l.cut = (Len(a) > MaxLineChars) /\ l.text = SubSeq(a, 1, m(a))
      /\ r \in LinesOf(Chars) /\ r.cut = (Len(a) + Len(b) > MaxLineChars) /\ r.text = SubSeq(a \o b, 1, m(a \o b))
    BY <1>1, BlankIs, ExtendIs
<1>3. CASE Len(a) > MaxLineChars
    <2>1. m(a) = MaxLineChars /\ m(a \o b) = MaxLineChars
        BY <1>1, <1>3, TextAssumption
    <2>2. SubSeq(a \o b, 1, MaxLineChars) = SubSeq(a, 1, MaxLineChars)
        <3>1. CASE MaxLineChars = 0
            BY <3>1, SubSeqEmpty
        <3>2. CASE MaxLineChars # 0
            <4>1. 1 \in 1 .. Len(a) /\ MaxLineChars \in 1 .. Len(a)
                BY <1>1, <1>3, <3>2, TextAssumption
            <4> QED
                BY <4>1, SubSeqOfConcat1
        <3> QED
            BY <3>1, <3>2
    <2>3. l.cut = TRUE /\ r.cut = TRUE
        <3>1. (Len(a) > MaxLineChars) = TRUE /\ (Len(a) + Len(b) > MaxLineChars) = TRUE
            BY <1>1, <1>3, TextAssumption
        <3> HIDE DEF l, r
        <3> QED
            BY <1>2, <3>1
    <2>4. l.text = r.text
        BY <1>2, <2>1, <2>2
    <2> HIDE DEF l, r
    <2>5. l = r
        <3>1. \A x, y \in LinesOf(Chars) : x.text = y.text /\ x.cut = y.cut => x = y
            BY DEF LinesOf
        <3> QED
            BY <1>2, <2>3, <2>4, <3>1
    <2>6. Extend(l, b) = l
        BY <2>3 DEF Extend
    <2> QED
        BY <2>5, <2>6 DEF l, r
<1>4. CASE ~(Len(a) > MaxLineChars)
    <2>1. m(a) = Len(a) /\ l.cut = FALSE
        <3>1. m(a) = Len(a) /\ (Len(a) > MaxLineChars) = FALSE
            BY <1>1, <1>4, TextAssumption
        <3> HIDE DEF l, m
        <3> QED
            BY <1>2, <3>1
    <2>2. l.text = a
        BY <1>2, <2>1, SubSeqFull
    <2> HIDE DEF l
    <2>3. Extend(l, b) = [text |-> Slice(a \o b, 1, MaxLineChars), cut |-> Len(a) + Len(b) > MaxLineChars]
        BY <2>1, <2>2 DEF Extend
    <2>4. Slice(a \o b, 1, MaxLineChars) = SubSeq(a \o b, 1, m(a \o b))
        BY DEF Slice
    <2> HIDE DEF r
    <2>5. r = [text |-> r.text, cut |-> r.cut]
        BY <1>2 DEF LinesOf
    <2> QED
        BY <1>2, <2>3, <2>4, <2>5 DEF l, r
<1> QED
    BY <1>3, <1>4

\* InOrder is made number by number.
LEMMA InOrderSeq ==
    ASSUME NEW P, NEW n \in Nat
    PROVE  /\ InOrder(P, n) \in Seq(Nat) /\ Len(InOrder(P, n)) \in Nat
           /\ InOrder(P, n + 1) = IF n + 1 \in P THEN Append(InOrder(P, n), n + 1) ELSE InOrder(P, n)
           /\ InOrder(P, 0) = <<>>
<1>1. InOrder(P, n) \in Seq(Nat)
    BY InOrderNext
<1>2. InOrder(P, n + 1) = IF n + 1 \in P THEN Append(InOrder(P, n), n + 1) ELSE InOrder(P, n)
    BY InOrderNext
<1>3. InOrder(P, 0) = <<>>
    BY InOrderNext
<1> QED
    BY <1>1, <1>2, <1>3

\* The places up to q are the first of those up to a later one.
LEMMA FirstInOrder ==
    ASSUME NEW P, NEW q \in Nat, NEW d \in Nat
    PROVE  LET a == InOrder(P, q)
               b == InOrder(P, q + d)
           IN  Len(a) <= Len(b) /\ \A k \in 1 .. Len(a) : b[k] = a[k]
<1> DEFINE a == InOrder(P, q)
           First(b) == Len(a) <= Len(b) /\ \A k \in 1 .. Len(a) : b[k] = a[k]
           T == {n \in Nat : First(InOrder(P, q + n))}
<1>1. \A n \in Nat : InOrder(P, n) \in Seq(Nat) /\ Len(InOrder(P, n)) \in Nat
    BY InOrderSeq
<1>2. 0 \in T
    BY <1>1
<1>3. ASSUME NEW n \in Nat, n \in T PROVE n + 1 \in T
    <2> DEFINE b == InOrder(P, q + n)
               c == InOrder(P, q + n + 1)
    <2>1. q + n \in Nat /\ q + (n + 1) = q + n + 1
        OBVIOUS
    <2>2. b \in Seq(Nat) /\ Len(b) \in Nat /\ (c = b \/ c = Append(b, q + n + 1))
        <3>1. /\ b \in Seq(Nat) /\ Len(b) \in Nat
              /\ c = IF q + n + 1 \in P THEN Append(b, q + n + 1) ELSE b
            BY <2>1, InOrderSeq
        <3> QED
            BY <3>1
    <2>3. First(b)
        BY <1>3
    <2> HIDE DEF b, c
    <2>4. Len(a) \in Nat /\ First(c)
        <3>1. Len(a) \in Nat
            BY <1>1
        <3> HIDE DEF a
        <3> QED
            <4>1. CASE c = b
                BY <2>3, <4>1
            <4>2. CASE c = Append(b, q + n + 1)
                <5>1. Len(c) = Len(b) + 1 /\ \A k \in 1 .. Len(b) : c[k] = b[k]
                    BY <2>1, <2>2, <4>2, AppendProperties
                <5> HIDE DEF First
                <5>2. Len(a) <= Len(b) /\ \A k \in 1 .. Len(a) : b[k] = a[k]
                    BY <2>3 DEF First
                <5>3. Len(a) <= Len(c) /\ \A k \in 1 .. Len(a) : k \in 1 .. Len(b)
                    BY <2>2, <3>1, <5>1, <5>2
                <5> QED
                    BY <5>1, <5>2, <5>3 DEF First
            <4> QED
                BY <2>2, <3>1, <4>1, <4>2
    <2> HIDE DEF First
    <2> QED
        BY <2>1, <2>4 DEF c
<1> HIDE DEF T
<1>4. Nat \subseteq T
    BY <1>2, <1>3, Induction
<1> QED
    BY <1>4 DEF T

\* Where Q is P seen from q, up to n, the places of P after q are those of Q.
SeenFrom(P, Q, q, n) == \A i \in 1 .. n : i \in Q <=> q + i \in P

LEMMA ShiftedInOrder ==
    ASSUME NEW P, NEW Q, NEW q \in Nat, NEW n \in Nat, SeenFrom(P, Q, q, n)
    PROVE  LET a == InOrder(P, q)
               b == InOrder(P, q + n)
               c == InOrder(Q, n)
           IN  Len(b) = Len(a) + Len(c) /\ \A k \in 1 .. Len(c) : b[Len(a) + k] = q + c[k]
<1> DEFINE a == InOrder(P, q)
           Follows(b, c) == Len(b) = Len(a) + Len(c) /\ \A k \in 1 .. Len(c) : b[Len(a) + k] = q + c[k]
           T == {i \in Nat : i <= n => Follows(InOrder(P, q + i), InOrder(Q, i))}
<1>1. a \in Seq(Nat) /\ Len(a) \in Nat
    BY InOrderSeq
<1>2. 0 \in T
    <2>1. InOrder(Q, 0) = <<>>
        BY InOrderSeq
    <2> QED
        BY <1>1, <2>1
<1> HIDE DEF a
<1>3. ASSUME NEW i \in Nat, i \in T PROVE i + 1 \in T
    <2> SUFFICES ASSUME i + 1 <= n PROVE Follows(InOrder(P, q + (i + 1)), InOrder(Q, i + 1))
        OBVIOUS
    <2> DEFINE b == InOrder(P, q + i)
               c == InOrder(Q, i)
               b1 == InOrder(P, q + i + 1)
               c1 == InOrder(Q, i + 1)
    <2>1. q + i \in Nat /\ q + (i + 1) = q + i + 1 /\ i + 1 \in 1 .. n
        OBVIOUS
    <2>2. Follows(b, c)
        BY <1>3
    <2>3. /\ b \in Seq(Nat) /\ c \in Seq(Nat) /\ Len(b) \in Nat /\ Len(c) \in Nat
          /\ b1 = IF q + i + 1 \in P THEN Append(b, q + i + 1) ELSE b
          /\ c1 = IF i + 1 \in Q THEN Append(c, i + 1) ELSE c
        BY <2>1, InOrderSeq
    <2>4. i + 1 \in Q <=> q + i + 1 \in P
        BY <2>1 DEF SeenFrom
    <2> HIDE DEF b, c, b1, c1
    <2>5. Follows(b1, c1)
        <3>1. CASE i + 1 \notin Q
            BY <2>2, <2>3, <2>4, <3>1
        <3>2. CASE i + 1 \in Q
            <4>1. b1 = Append(b, q + i + 1) /\ c1 = Append(c, i + 1)
                BY <2>3, <2>4, <3>2
            <4>2. Len(b1) = Len(b) + 1 /\ Len(c1) = Len(c) + 1 /\ Len(b1) = Len(a) + Len(c1)
                <5>1. Len(b1) = Len(b) + 1 /\ Len(c1) = Len(c) + 1
                    BY <2>1, <2>3, <4>1, AppendProperties
                <5>2. Len(b) = Len(a) + Len(c)
                    BY <2>2
                <5> QED
                    BY <1>1, <2>3, <5>1, <5>2
            <4>3. ASSUME NEW k \in 1 .. Len(c1) PROVE b1[Len(a) + k] = q + c1[k]
                <5>1. CASE k \in 1 .. Len(c)
                    <6>1. c1[k] = c[k] /\ b1[Len(a) + k] = b[Len(a) + k]
                        <7>1. Len(a) + k \in 1 .. Len(b)
                            BY <1>1, <2>2, <2>3, <5>1
                        <7> QED
                            BY <2>3, <4>1, <5>1, <7>1
                    <6> QED
                        BY <2>2, <5>1, <6>1
                <5>2. CASE k = Len(c) + 1
                    <6>1. c1[k] = i + 1 /\ b1[Len(b) + 1] = q + i + 1 /\ Len(a) + k = Len(b) + 1
                        BY <1>1, <2>2, <2>3, <4>1, <5>2
                    <6> QED
                        BY <2>1, <6>1
                <5> QED
                    <6>1. k \in 1 .. Len(c) \/ k = Len(c) + 1
                        BY <2>3, <4>2
                    <6> QED
                        BY <5>1, <5>2, <6>1
            <4> QED
                BY <4>2, <4>3
        <3> QED
            BY <3>1, <3>2
    <2> HIDE DEF Follows
    <2> QED
        BY <2>1, <2>5 DEF b1, c1
<1> HIDE DEF T
<1>4. Nat \subseteq T
    BY <1>2, <1>3, Induction
<1> QED
    BY <1>4 DEF T, a

\* The breaks of a text, where its lines begin, and how many of them end up to q.
BreaksOf(V) == InOrder(Breaks(V), Len(V))

StartOf(V, k) == LineStart(V, BreaksOf(V), k)

Ended(V, q) == Len(InOrder(Breaks(V), q))

\* What there is at q of the line that q is in.
Partial(V, q) == Extend(Blank, SubSeq(V, StartOf(V, Ended(V, q) + 1), q))

\* No CR LF is parted at q.
Settled(V, q) ==
    /\ q \in 0 .. Len(V)
    /\ q \in 1 .. (Len(V) - 1) => ~(V[q] = "CR" /\ V[q + 1] = "LF")

\* The breaks of a text are places of it, ...
LEMMA BreaksAre ==
    ASSUME NEW Chars, NEW V \in Seq(Chars)
    PROVE  /\ BreaksOf(V) \in Seq(Nat) /\ Len(BreaksOf(V)) \in Nat
           /\ \A k \in 1 .. Len(BreaksOf(V)) :
                 BreaksOf(V)[k] \in 1 .. Len(V) /\ BreaksOf(V)[k] \in Breaks(V)
<1>1. Len(V) \in Nat
    OBVIOUS
<1> QED
    BY <1>1, InOrderIs DEF BreaksOf

\* ... and so are their ends, ...
LEMMA BreakEnds ==
    ASSUME NEW Chars, NEW V \in Seq(Chars), NEW b \in 1 .. Len(V)
    PROVE  BreakEnd(V, b) \in 1 .. Len(V) /\ BreakEnd(V, b) >= b
BY DEF BreakEnd

\* ... so that lines begin in it or just after it.
LEMMA StartsIn ==
    ASSUME NEW Chars, NEW V \in Seq(Chars), NEW bs, Len(bs) \in Nat,
           \A k \in 1 .. Len(bs) : bs[k] \in 1 .. Len(V), NEW k \in 1 .. (Len(bs) + 1)
    PROVE  LineStart(V, bs, k) \in 1 .. (Len(V) + 1)
<1>1. Len(V) \in Nat
    OBVIOUS
<1>2. CASE k = 1
    BY <1>1, <1>2 DEF LineStart
<1>3. CASE k # 1
    <2>1. k - 1 \in 1 .. Len(bs)
        BY <1>3
    <2>2. BreakEnd(V, bs[k - 1]) \in 1 .. Len(V)
        BY <2>1, BreakEnds
    <2> QED
        BY <1>1, <1>3, <2>2 DEF LineStart
<1> QED
    BY <1>2, <1>3

\* Where no CR LF is parted, the line under way began there or before.
LEMMA StartIs ==
    ASSUME NEW Chars, NEW V \in Seq(Chars), NEW q, Settled(V, q)
    PROVE  Ended(V, q) \in 0 .. Len(BreaksOf(V)) /\ StartOf(V, Ended(V, q) + 1) \in 1 .. (q + 1)
<1> DEFINE bs == BreaksOf(V)
           c == Ended(V, q)
           a == InOrder(Breaks(V), q)
<1>1. Len(V) \in Nat /\ q \in Nat /\ q <= Len(V) /\ Len(V) - q \in Nat /\ q + (Len(V) - q) = Len(V)
    BY DEF Settled
<1>2. c \in Nat /\ c = Len(a) /\ \A k \in 1 .. c : a[k] \in 1 .. q
    BY <1>1, InOrderIs DEF Ended
<1>3. c <= Len(bs) /\ \A k \in 1 .. c : bs[k] = a[k]
    <2>1. LET b == InOrder(Breaks(V), q + (Len(V) - q))
          IN  Len(a) <= Len(b) /\ \A k \in 1 .. Len(a) : b[k] = a[k]
        BY <1>1, FirstInOrder
    <2>2. InOrder(Breaks(V), q + (Len(V) - q)) = bs
        BY <1>1 DEF BreaksOf
    <2> QED
        BY <1>2, <2>1, <2>2
<1>4. Len(bs) \in Nat
    BY BreaksAre
<1> HIDE DEF bs, c, a
<1>5. c \in 0 .. Len(bs)
    BY <1>2, <1>3, <1>4
<1>6. LineStart(V, bs, c + 1) \in 1 .. (q + 1)
    <2>1. CASE c = 0
        BY <1>1, <2>1 DEF LineStart
    <2>2. CASE c # 0
        <3> DEFINE b == bs[c]
        <3>1. c \in 1 .. c /\ c + 1 # 1 /\ (c + 1) - 1 = c
            BY <1>2, <2>2
        <3>2. b \in 1 .. q
            BY <1>2, <1>3, <3>1
        <3>3. LineStart(V, bs, c + 1) = BreakEnd(V, b) + 1
            BY <3>1 DEF LineStart
        <3> HIDE DEF b
        <3>4. BreakEnd(V, b) \in 1 .. q
            <4>1. CASE b = q
                <5>1. ~(V[b] = "CR" /\ b < Len(V) /\ V[b + 1] = "LF")
                    BY <1>1, <3>2, <4>1 DEF Settled
                <5> QED
                    BY <3>2, <5>1 DEF BreakEnd
            <4>2. CASE b # q
                <5>1. b + 1 \in 1 .. q
                    BY <1>1, <3>2, <4>2
                <5> QED
                    BY <3>2, <5>1 DEF BreakEnd
            <4> QED
                BY <4>1, <4>2
        <3> QED
            BY <1>1, <3>3, <3>4
    <2> QED
        BY <2>1, <2>2
<1> QED
    BY <1>5, <1>6 DEF bs, c, StartOf

\* The text after the last break.
RestOf(V) == SubSeq(V, StartOf(V, Len(BreaksOf(V)) + 1), Len(V))

\* What iter_lines is to yield of a text.
LEMMA LinesAre ==
    ASSUME NEW Chars, NEW V \in Seq(Chars)
    PROVE  LET n == Len(BreaksOf(V))
               all == Clipped(SplitLines(V))
           IN  /\ all \in Seq(LinesOf(Chars))
               /\ RestOf(V) \in Seq(Chars)
               /\ Len(all) = n + (IF RestOf(V) = <<>> THEN 0 ELSE 1)
               /\ \A k \in 1 .. n : all[k] = Extend(Blank, SubSeq(V, StartOf(V, k), BreaksOf(V)[k] - 1))
               /\ RestOf(V) # <<>> => all[n + 1] = Extend(Blank, RestOf(V))
<1> DEFINE bs == BreaksOf(V)
           n == Len(bs)
           piece(k) == SubSeq(V, StartOf(V, k), bs[k] - 1)
           ended == [k \in 1 .. n |-> piece(k)]
           rest == RestOf(V)
           more == IF rest = <<>> THEN <<>> ELSE <<rest>>
           lines == SplitLines(V)
           all == Clipped(lines)
<1>1. n \in Nat /\ Len(V) \in Nat /\ \A k \in 1 .. n : bs[k] \in 1 .. Len(V)
    BY BreaksAre
<1>2. \A k \in 1 .. (n + 1) : StartOf(V, k) \in 1 .. (Len(V) + 1)
    BY <1>1, StartsIn DEF StartOf
<1>3. lines = ended \o more
    BY DEF SplitLines, BreaksOf, StartOf, RestOf
<1> HIDE DEF bs, lines
<1>4. \A k \in 1 .. n : piece(k) \in Seq(Chars)
    <2> SUFFICES ASSUME NEW k \in 1 .. n PROVE piece(k) \in Seq(Chars)
        OBVIOUS
    <2>1. StartOf(V, k) \in Nat \ {0} /\ bs[k] - 1 \in Int /\ bs[k] - 1 <= Len(V)
        BY <1>1, <1>2
    <2> QED
        BY <2>1, PartIs
<1>5. rest \in Seq(Chars)
    <2>1. StartOf(V, n + 1) \in Nat \ {0} /\ Len(V) \in Int /\ Len(V) <= Len(V)
        BY <1>1, <1>2
    <2> QED
        BY <2>1, PartIs DEF RestOf, bs
<1> HIDE DEF piece, rest, n
<1>6. ended \in Seq(Seq(Chars)) /\ Len(ended) = n /\ \A k \in 1 .. n : ended[k] = piece(k)
    BY <1>1, <1>4
<1>7. more \in Seq(Seq(Chars)) /\ Len(more) = (IF rest = <<>> THEN 0 ELSE 1) /\ (rest # <<>> => more[1] = rest)
    BY <1>5
<1> HIDE DEF ended, more
<1>8. /\ lines \in Seq(Seq(Chars)) /\ Len(lines) = n + Len(more)
      /\ \A k \in 1 .. n : lines[k] = piece(k)
      /\ rest # <<>> => lines[n + 1] = rest
    <2>1. /\ lines \in Seq(Seq(Chars)) /\ Len(lines) = Len(ended) + Len(more)
          /\ \A k \in 1 .. Len(ended) : lines[k] = ended[k]
          /\ \A k \in 1 .. Len(more) : lines[Len(ended) + k] = more[k]
        <3> DEFINE S == Seq(Chars)
        <3>1. ended \in Seq(S) /\ more \in Seq(S)
            BY <1>6, <1>7
        <3> HIDE DEF S
        <3>2. /\ ended \o more \in Seq(S) /\ Len(ended \o more) = Len(ended) + Len(more)
              /\ \A k \in 1 .. Len(ended) : (ended \o more)[k] = ended[k]
              /\ \A k \in 1 .. Len(more) : (ended \o more)[Len(ended) + k] = more[k]
            BY <3>1, PlacesOfTwo
        <3> QED
            BY <1>3, <3>2 DEF S
    <2> QED
        BY <1>6, <1>7, <2>1
<1>9. /\ all \in Seq(LinesOf(Chars)) /\ Len(all) = Len(lines)
      /\ \A k \in 1 .. Len(lines) : all[k] = Extend(Blank, lines[k])
    <2>1. DOMAIN lines = 1 .. Len(lines) /\ Len(lines) \in Nat
        BY <1>8
    <2>2. all = [k \in 1 .. Len(lines) |-> Extend(Blank, lines[k])]
        BY <2>1 DEF Clipped
    <2>3. \A k \in 1 .. Len(lines) : Extend(Blank, lines[k]) \in LinesOf(Chars)
        <3> SUFFICES ASSUME NEW k \in 1 .. Len(lines) PROVE Extend(Blank, lines[k]) \in LinesOf(Chars)
            OBVIOUS
        <3>1. lines[k] \in Seq(Chars) /\ Blank \in LinesOf(Chars)
            BY <1>8, ElementOfSeq, BlankIs
        <3> QED
            BY <3>1, ExtendIs
    <2> HIDE DEF all
    <2> QED
        BY <2>1, <2>2, <2>3
<1> HIDE DEF all
<1>10. /\ Len(all) = n + (IF rest = <<>> THEN 0 ELSE 1)
       /\ \A k \in 1 .. n : all[k] = Extend(Blank, piece(k))
       /\ rest # <<>> => all[n + 1] = Extend(Blank, rest)
    <2>1. \A k \in 1 .. n : k \in 1 .. Len(lines)
        BY <1>1, <1>7, <1>8
    <2>2. rest # <<>> => n + 1 \in 1 .. Len(lines)
        BY <1>1, <1>7, <1>8
    <2> QED
        BY <1>7, <1>8, <1>9, <2>1, <2>2
<1> QED
    BY <1>5, <1>9, <1>10 DEF all, lines, rest, n, bs, piece

\* What iter_lines yields and keeps is text, whatever it has got.
LEMMA ChunkTyped ==
    ASSUME NEW Chars, NEW held \in Seq(Chars), NEW chunk \in Seq(Chars), NEW part \in LinesOf(Chars),
           "CR" \in Chars
    PROVE  LET got == Chunk(part, held, chunk)
           IN  got.lines \in Seq(LinesOf(Chars)) /\ got.part \in LinesOf(Chars) /\ got.held \in Seq(Chars)
<1> DEFINE buf == held \o chunk
           waits == {b \in {Len(buf)} : chunk # <<>> /\ buf[b] = "CR"}
           bs == InOrder(Breaks(buf) \ waits, Len(buf))
           line(k) == Extend(IF k = 1 THEN part ELSE Blank, SubSeq(buf, LineStart(buf, bs, k), bs[k] - 1))
           lines == [k \in 1 .. Len(bs) |-> line(k)]
           rest == SubSeq(buf, LineStart(buf, bs, Len(bs) + 1), Len(buf))
           open == IF bs = <<>> THEN part ELSE Blank
           final == Extend(open, rest)
           keeps == chunk # <<>> /\ rest # <<>> /\ rest[Len(rest)] = "CR"
           ends == [lines |-> lines \o (IF final = Blank THEN <<>> ELSE <<final>>), part |-> Blank, held |-> <<>>]
           goes == [lines |-> lines,
                    part |-> Extend(open, IF keeps THEN Front(rest) ELSE rest),
                    held |-> IF keeps THEN <<"CR">> ELSE <<>>]
<1>1. Chunk(part, held, chunk) = IF chunk = <<>> THEN ends ELSE goes
    BY DEF Chunk
<1>2. buf \in Seq(Chars) /\ Len(buf) \in Nat /\ Blank \in LinesOf(Chars)
    BY ConcatProperties, BlankIs
<1> HIDE DEF buf
<1>3. Len(bs) \in Nat /\ \A k \in 1 .. Len(bs) : bs[k] \in 1 .. Len(buf)
    BY <1>2, InOrderIs
<1> HIDE DEF bs
<1>4. \A k \in 1 .. (Len(bs) + 1) : LineStart(buf, bs, k) \in Nat \ {0}
    <2>1. \A k \in 1 .. (Len(bs) + 1) : LineStart(buf, bs, k) \in 1 .. (Len(buf) + 1)
        BY <1>2, <1>3, StartsIn
    <2> QED
        BY <1>2, <2>1
<1>5. \A k \in 1 .. Len(bs) : line(k) \in LinesOf(Chars)
    <2> SUFFICES ASSUME NEW k \in 1 .. Len(bs) PROVE line(k) \in LinesOf(Chars)
        OBVIOUS
    <2>1. bs[k] - 1 \in Int /\ bs[k] - 1 <= Len(buf) /\ k \in 1 .. (Len(bs) + 1)
        BY <1>2, <1>3
    <2>2. SubSeq(buf, LineStart(buf, bs, k), bs[k] - 1) \in Seq(Chars)
        BY <1>2, <1>4, <2>1, PartIs
    <2> QED
        BY <1>2, <2>2, ExtendIs
<1> HIDE DEF line
<1>6. lines \in Seq(LinesOf(Chars))
    BY <1>3, <1>5
<1>7. rest \in Seq(Chars) /\ open \in LinesOf(Chars)
    <2>1. Len(buf) \in Int /\ Len(buf) <= Len(buf) /\ Len(bs) + 1 \in 1 .. (Len(bs) + 1)
        BY <1>2, <1>3
    <2> QED
        BY <1>2, <1>4, <2>1, PartIs
<1> HIDE DEF rest, open, lines
<1>8. final \in LinesOf(Chars)
    BY <1>7, ExtendIs
<1>9. (IF final = Blank THEN <<>> ELSE <<final>>) \in Seq(LinesOf(Chars))
    BY <1>8
<1>10. (IF keeps THEN Front(rest) ELSE rest) \in Seq(Chars)
    <2>1. Front(rest) = SubSeq(rest, 1, Len(rest) - 1)
        BY DEF Front
    <2>2. Len(rest) - 1 \in Int /\ Len(rest) - 1 <= Len(rest) /\ 1 \in Nat \ {0}
        BY <1>7
    <2>3. Front(rest) \in Seq(Chars)
        BY <1>7, <2>1, <2>2, PartIs
    <2> QED
        BY <1>7, <2>3
<1> HIDE DEF final, keeps
<1>11. ends.lines \in Seq(LinesOf(Chars)) /\ ends.part \in LinesOf(Chars) /\ ends.held \in Seq(Chars)
    BY <1>2, <1>6, <1>9, ConcatProperties
<1>12. goes.lines \in Seq(LinesOf(Chars)) /\ goes.part \in LinesOf(Chars) /\ goes.held \in Seq(Chars)
    BY <1>6, <1>7, <1>10, ExtendIs
<1> QED
    BY <1>1, <1>11, <1>12

\* What is in the reader's buffer, between q and r.
LEMMA BufferIs ==
    ASSUME NEW Chars, NEW V \in Seq(Chars), NEW q \in Nat, NEW r \in Nat, q <= r, r <= Len(V)
    PROVE  /\ SubSeq(V, q + 1, r) \in Seq(Chars) /\ Len(SubSeq(V, q + 1, r)) = r - q
           /\ \A i \in 1 .. (r - q) : SubSeq(V, q + 1, r)[i] = V[q + i]
<1>1. q + 1 \in Nat \ {0} /\ r \in Int
    OBVIOUS
<1>2. /\ SubSeq(V, q + 1, r) \in Seq(Chars)
      /\ Len(SubSeq(V, q + 1, r)) = IF q + 1 <= r THEN r - (q + 1) + 1 ELSE 0
      /\ \A i \in 1 .. r - (q + 1) + 1 : SubSeq(V, q + 1, r)[i] = V[q + 1 + i - 1]
    BY <1>1, PartIs
<1>3. \A i \in 1 .. (r - q) : i \in 1 .. r - (q + 1) + 1 /\ q + 1 + i - 1 = q + i
    OBVIOUS
<1> QED
    BY <1>2, <1>3

\* The breaks in the buffer are those of the text ...
LEMMA BreaksSeen ==
    ASSUME NEW Chars, NEW V \in Seq(Chars), NEW q \in Nat, NEW r \in Nat, q <= r, Settled(V, q), r <= Len(V),
           NEW i \in 1 .. (r - q)
    PROVE  i \in Breaks(SubSeq(V, q + 1, r)) <=> q + i \in Breaks(V)
<1> DEFINE buf == SubSeq(V, q + 1, r)
<1>1. buf \in Seq(Chars) /\ Len(buf) = r - q /\ \A j \in 1 .. (r - q) : buf[j] = V[q + j]
    BY BufferIs
<1> HIDE DEF buf
<1>2. Len(V) \in Nat /\ DOMAIN V = 1 .. Len(V) /\ DOMAIN buf = 1 .. (r - q)
    BY <1>1
<1>3. i \in DOMAIN buf /\ q + i \in DOMAIN V /\ buf[i] = V[q + i]
    BY <1>1, <1>2
<1>4. V[q + i] = "LF" => ((i = 1 \/ buf[i - 1] # "CR") <=> (q + i = 1 \/ V[q + i - 1] # "CR"))
    <2>1. CASE i = 1
        <3>1. q + i - 1 = q /\ (q = 0 \/ q \in 1 .. (Len(V) - 1))
            BY <1>2, <2>1
        <3>2. V[q + i] = "LF" => q = 0 \/ V[q] # "CR"
            BY <2>1, <3>1 DEF Settled
        <3> QED
            BY <2>1, <3>1, <3>2
    <2>2. CASE i # 1
        <3>1. i - 1 \in 1 .. (r - q) /\ q + (i - 1) = q + i - 1 /\ q + i # 1
            BY <2>2
        <3> QED
            BY <1>1, <2>2, <3>1
    <2> QED
        BY <2>1, <2>2
<1>5. i \in Breaks(buf) <=> buf[i] = "CR" \/ (buf[i] = "LF" /\ (i = 1 \/ buf[i - 1] # "CR"))
    BY <1>3 DEF Breaks
<1>6. q + i \in Breaks(V) <=> V[q + i] = "CR" \/ (V[q + i] = "LF" /\ (q + i = 1 \/ V[q + i - 1] # "CR"))
    BY <1>3 DEF Breaks
<1> QED
    BY <1>3, <1>4, <1>5, <1>6 DEF buf

\* ... and so are their ends, but that of a last CR.
LEMMA EndsSeen ==
    ASSUME NEW Chars, NEW V \in Seq(Chars), NEW q \in Nat, NEW r \in Nat, q <= r, r <= Len(V),
           NEW b \in 1 .. (r - q), b < r - q \/ r = Len(V) \/ V[r] # "CR"
    PROVE  BreakEnd(V, q + b) = q + BreakEnd(SubSeq(V, q + 1, r), b)
<1> DEFINE buf == SubSeq(V, q + 1, r)
<1>1. buf \in Seq(Chars) /\ Len(buf) = r - q /\ \A j \in 1 .. (r - q) : buf[j] = V[q + j]
    BY BufferIs
<1> HIDE DEF buf
<1>2. buf[b] = V[q + b] /\ Len(V) \in Nat
    BY <1>1
<1>3. CASE b < r - q
    <2>1. b + 1 \in 1 .. (r - q) /\ q + (b + 1) = q + b + 1 /\ q + b < Len(V)
        BY <1>2, <1>3
    <2>2. buf[b + 1] = V[q + b + 1]
        BY <1>1, <2>1
    <2> QED
        BY <1>1, <1>2, <1>3, <2>1, <2>2 DEF BreakEnd, buf
<1>4. CASE ~(b < r - q)
    <2>1. b = r - q /\ q + b = r
        BY <1>4
    <2>2. r = Len(V) \/ V[q + b] # "CR"
        BY <1>4, <2>1
    <2>3. BreakEnd(V, q + b) = q + b
        BY <1>2, <2>1, <2>2 DEF BreakEnd
    <2>4. BreakEnd(buf, b) = b
        BY <1>1, <2>1 DEF BreakEnd
    <2> QED
        BY <2>3, <2>4 DEF buf
<1> QED
    BY <1>3, <1>4

\* The reader is at r, with a buffer from q on, and takes the breaks Q of it: those up to
\* q + m, which leaves out a CR that may be followed by a LF.
Cuts(V, q, r, m, Q) ==
    /\ Settled(V, q) /\ r \in q .. Len(V) /\ m \in Nat
    /\ \A i \in 1 .. m : i \in Q <=> i \in Breaks(SubSeq(V, q + 1, r))
    /\ \/ m = r - q /\ (r = q \/ r = Len(V) \/ V[r] # "CR")
       \/ m + 1 = r - q /\ V[r] = "CR" /\ m + 1 \notin Q

\* The breaks the reader takes are the next ones of the text.
LEMMA CutsAre ==
    ASSUME NEW Chars, NEW V \in Seq(Chars), NEW q, NEW r, NEW m, NEW Q, Cuts(V, q, r, m, Q)
    PROVE  LET bs == InOrder(Q, r - q)
               c == Ended(V, q)
               n == Len(bs)
           IN  /\ n \in Nat /\ c \in Nat /\ Settled(V, q + m) /\ Ended(V, q + m) = c + n
               /\ c + n <= Len(BreaksOf(V))
               /\ \A k \in 1 .. n : bs[k] \in 1 .. m /\ BreaksOf(V)[c + k] = q + bs[k]
               /\ \A k \in 2 .. (n + 1) :
                     StartOf(V, c + k) = q + LineStart(SubSeq(V, q + 1, r), bs, k)
<1> DEFINE buf == SubSeq(V, q + 1, r)
           bs == InOrder(Q, r - q)
           c == Ended(V, q)
           n == Len(bs)
           Br == Breaks(V)
           all == BreaksOf(V)
<1>1. /\ q \in Nat /\ r \in Nat /\ m \in Nat /\ q <= r /\ r <= Len(V) /\ Len(V) \in Nat /\ q + m <= r
      /\ Settled(V, q)
    BY DEF Cuts, Settled
<1>2. bs = InOrder(Q, m)
    <2>1. CASE m = r - q
        BY <2>1
    <2>2. CASE m + 1 = r - q /\ m + 1 \notin Q
        <3>1. InOrder(Q, m + 1) = InOrder(Q, m)
            BY <1>1, <2>2, InOrderSeq
        <3> QED
            BY <2>2, <3>1
    <2> QED
        BY <2>1, <2>2 DEF Cuts
<1> HIDE DEF bs
<1>3. n \in Nat /\ \A k \in 1 .. n : bs[k] \in 1 .. m /\ bs[k] \in Q
    BY <1>1, <1>2, InOrderIs
<1>4. \A i \in 1 .. m : i \in Q <=> q + i \in Br
    <2> SUFFICES ASSUME NEW i \in 1 .. m PROVE i \in Q <=> q + i \in Br
        OBVIOUS
    <2>1. i \in 1 .. (r - q)
        BY <1>1
    <2>2. i \in Breaks(SubSeq(V, q + 1, r)) <=> q + i \in Br
        BY <1>1, <2>1, BreaksSeen
    <2> QED
        BY <2>2 DEF Cuts
<1>5. /\ Len(InOrder(Br, q + m)) = Len(InOrder(Br, q)) + n
      /\ \A k \in 1 .. n : InOrder(Br, q + m)[Len(InOrder(Br, q)) + k] = q + bs[k]
    <2> HIDE DEF Br
    <2> QED
        <3>1. LET a == InOrder(Br, q)
                  b == InOrder(Br, q + m)
                  e == InOrder(Q, m)
              IN  Len(b) = Len(a) + Len(e) /\ \A k \in 1 .. Len(e) : b[Len(a) + k] = q + e[k]
            <4>1. SeenFrom(Br, Q, q, m)
                BY <1>4 DEF SeenFrom
            <4> QED
                BY <1>1, <4>1, ShiftedInOrder
        <3> QED
            BY <1>2, <3>1
<1>6. Ended(V, q + m) = c + n /\ \A k \in 1 .. n : InOrder(Br, q + m)[c + k] = q + bs[k]
    BY <1>5 DEF Ended
<1>7. Settled(V, q + m)
    <2>1. q + m \in 0 .. Len(V)
        BY <1>1
    <2>2. ASSUME q + m \in 1 .. (Len(V) - 1) PROVE ~(V[q + m] = "CR" /\ V[q + m + 1] = "LF")
        <3>1. CASE m + 1 = r - q /\ V[r] = "CR"
            <4>1. q + m + 1 = r
                BY <1>1, <3>1
            <4> QED
                BY <3>1, <4>1
        <3>2. CASE m = r - q /\ (r = q \/ r = Len(V) \/ V[r] # "CR")
            <4>1. q + m = r
                BY <1>1, <3>2
            <4>2. CASE r = q
                BY <1>1, <2>2, <4>1, <4>2 DEF Settled
            <4>3. CASE r = Len(V)
                BY <1>1, <2>2, <4>1, <4>3
            <4>4. CASE V[r] # "CR"
                BY <4>1, <4>4
            <4> QED
                BY <3>2, <4>2, <4>3, <4>4
        <3> QED
            BY <3>1, <3>2 DEF Cuts
    <2> QED
        BY <2>1, <2>2 DEF Settled
<1>8. c \in Nat /\ c + n <= Len(all) /\ Len(all) \in Nat
    <2>1. Ended(V, q + m) \in 0 .. Len(all)
        BY <1>7, StartIs
    <2>2. c \in 0 .. Len(all)
        BY <1>1, StartIs
    <2>3. Len(all) \in Nat
        BY BreaksAre
    <2> HIDE DEF c, all
    <2> QED
        BY <1>6, <2>1, <2>2, <2>3
<1>9. \A k \in 1 .. n : all[c + k] = q + bs[k]
    <2> DEFINE s == q + m
               d == Len(V) - s
    <2>1. s \in Nat /\ d \in Nat /\ s + d = Len(V)
        BY <1>1
    <2> HIDE DEF s, d
    <2>2. LET a == InOrder(Br, s)
              b == InOrder(Br, s + d)
          IN  Len(a) <= Len(b) /\ \A k \in 1 .. Len(a) : b[k] = a[k]
        BY <2>1, FirstInOrder
    <2>3. \A k \in 1 .. Ended(V, q + m) : all[k] = InOrder(Br, q + m)[k]
        BY <2>1, <2>2 DEF BreaksOf, Ended, s
    <2> HIDE DEF c, all, Br
    <2>4. \A k \in 1 .. n : c + k \in 1 .. (c + n)
        BY <1>3, <1>8
    <2> QED
        BY <1>6, <2>3, <2>4
<1> HIDE DEF c, all
<1>10. ASSUME NEW k \in 2 .. (n + 1) PROVE StartOf(V, c + k) = q + LineStart(buf, bs, k)
    <2> DEFINE b == bs[k - 1]
    <2>1. k - 1 \in 1 .. n /\ k # 1 /\ c + k # 1 /\ c + k - 1 = c + (k - 1)
        BY <1>3, <1>8
    <2>2. b \in 1 .. m /\ all[c + k - 1] = q + b /\ b \in 1 .. (r - q)
        BY <1>1, <1>3, <1>9, <2>1
    <2>3. StartOf(V, c + k) = BreakEnd(V, q + b) + 1
        <3>1. StartOf(V, c + k) = BreakEnd(V, all[c + k - 1]) + 1
            <4> DEFINE j == c + k
            <4>1. j # 1 /\ j - 1 = c + k - 1
                BY <1>8, <2>1
            <4> HIDE DEF j
            <4>2. LineStart(V, all, j) = BreakEnd(V, all[j - 1]) + 1
                BY <4>1 DEF LineStart
            <4> QED
                BY <4>1, <4>2 DEF StartOf, all, j
        <3> HIDE DEF b
        <3> QED
            BY <2>2, <3>1
    <2>4. LineStart(buf, bs, k) = BreakEnd(buf, b) + 1
        BY <2>1 DEF LineStart
    <2>5. b < r - q \/ r = Len(V) \/ V[r] # "CR"
        <3>1. CASE m + 1 = r - q
            BY <1>1, <2>2, <3>1
        <3>2. CASE m = r - q /\ (r = q \/ r = Len(V) \/ V[r] # "CR")
            BY <1>1, <2>2, <3>2
        <3> QED
            BY <3>1, <3>2 DEF Cuts
    <2> HIDE DEF b
    <2>6. BreakEnd(V, q + b) = q + BreakEnd(buf, b)
        BY <1>1, <2>2, <2>5, EndsSeen
    <2>7. BreakEnd(buf, b) \in Nat
        BY <2>2 DEF BreakEnd
    <2> QED
        BY <1>1, <2>3, <2>4, <2>6, <2>7
<1> QED
    BY <1>3, <1>6, <1>7, <1>8, <1>9, <1>10 DEF bs, c, all

\* What is carried over of the line at q and what follows of it, as if it had come at once.
LEMMA GoesOnAs ==
    ASSUME NEW Chars, NEW V \in Seq(Chars), NEW q, Settled(V, q), NEW e \in q .. Len(V)
    PROVE  Extend(Partial(V, q), SubSeq(V, q + 1, e)) = Extend(Blank, SubSeq(V, StartOf(V, Ended(V, q) + 1), e))
<1> DEFINE s == StartOf(V, Ended(V, q) + 1)
           a == SubSeq(V, s, q)
           b == SubSeq(V, q + 1, e)
<1>1. q \in 0 .. Len(V) /\ q \in Nat /\ Len(V) \in Nat /\ e \in Nat
    BY DEF Settled
<1>2. s \in 1 .. (q + 1)
    BY StartIs
<1>3. Partial(V, q) = Extend(Blank, a)
    BY DEF Partial
<1> HIDE DEF s
<1>4. a \in Seq(Chars) /\ b \in Seq(Chars)
    <2>1. s \in Nat \ {0} /\ q \in Int /\ q <= Len(V) /\ q + 1 \in Nat \ {0} /\ e \in Int /\ e <= Len(V)
        BY <1>1, <1>2
    <2> QED
        BY <2>1, PartIs
<1>5. a \o b = SubSeq(V, s, e)
    <2>1. s \in 1 .. Len(V) + 1 /\ q \in s - 1 .. Len(V) /\ e \in q .. Len(V)
        BY <1>1, <1>2
    <2> QED
        BY <2>1, ConcatAdjacentSubSeq
<1> HIDE DEF a, b
<1>6. Extend(Extend(Blank, a), b) = Extend(Blank, a \o b)
    BY <1>4, ExtendTwice
<1> QED
    BY <1>3, <1>5, <1>6 DEF b, s

\* The lines the reader yields are those of the text, ...
LEMMA LineSeen ==
    ASSUME NEW Chars, NEW V \in Seq(Chars), NEW q, NEW r, NEW m, NEW Q, Cuts(V, q, r, m, Q),
           NEW k \in 1 .. Len(InOrder(Q, r - q))
    PROVE  LET buf == SubSeq(V, q + 1, r)
               bs == InOrder(Q, r - q)
           IN  Extend(IF k = 1 THEN Partial(V, q) ELSE Blank, SubSeq(buf, LineStart(buf, bs, k), bs[k] - 1))
                  = Clipped(SplitLines(V))[Ended(V, q) + k]
<1> DEFINE buf == SubSeq(V, q + 1, r)
           bs == InOrder(Q, r - q)
           c == Ended(V, q)
           n == Len(bs)
           all == Clipped(SplitLines(V))
           piece == SubSeq(buf, LineStart(buf, bs, k), bs[k] - 1)
<1>1. /\ q \in Nat /\ r \in Nat /\ m \in Nat /\ q <= r /\ r <= Len(V) /\ Len(V) \in Nat /\ q + m <= r
      /\ Settled(V, q)
    BY DEF Cuts, Settled
<1>2. /\ n \in Nat /\ c \in Nat /\ c + n <= Len(BreaksOf(V)) /\ Len(BreaksOf(V)) \in Nat
      /\ bs[k] \in 1 .. m /\ BreaksOf(V)[c + k] = q + bs[k]
      /\ k # 1 => StartOf(V, c + k) = q + LineStart(buf, bs, k)
    <2>1. LET b == InOrder(Q, r - q)
              a == Ended(V, q)
              l == Len(b)
          IN  /\ l \in Nat /\ a \in Nat /\ Settled(V, q + m) /\ Ended(V, q + m) = a + l
              /\ a + l <= Len(BreaksOf(V))
              /\ \A i \in 1 .. l : b[i] \in 1 .. m /\ BreaksOf(V)[a + i] = q + b[i]
              /\ \A i \in 2 .. (l + 1) : StartOf(V, a + i) = q + LineStart(SubSeq(V, q + 1, r), b, i)
        BY CutsAre
    <2>2. n \in Nat /\ (k # 1 => k \in 2 .. (n + 1))
        BY <2>1
    <2>3. Len(BreaksOf(V)) \in Nat
        BY BreaksAre
    <2> QED
        BY <2>1, <2>2, <2>3
<1>3. all[c + k] = Extend(Blank, SubSeq(V, StartOf(V, c + k), BreaksOf(V)[c + k] - 1))
    <2>1. c + k \in 1 .. Len(BreaksOf(V))
        BY <1>2
    <2>2. \A i \in 1 .. Len(BreaksOf(V)) : all[i] = Extend(Blank, SubSeq(V, StartOf(V, i), BreaksOf(V)[i] - 1))
        BY LinesAre
    <2> QED
        BY <2>1, <2>2
<1>4. BreaksOf(V)[c + k] - 1 = q + (bs[k] - 1) /\ bs[k] - 1 \in Nat /\ bs[k] - 1 <= r - q
    BY <1>1, <1>2
<1>5. CASE k = 1
    <2>1. piece = SubSeq(buf, 1, bs[1] - 1)
        BY <1>5 DEF LineStart
    <2>2. piece = SubSeq(V, q + 1, q + (bs[1] - 1))
        <3>1. 1 \in Nat \ {0} /\ bs[1] - 1 \in Int /\ q \in Nat /\ r \in Int
            BY <1>1, <1>4, <1>5
        <3> HIDE DEF bs, piece
        <3> QED
            BY <1>1, <1>4, <1>5, <2>1, <3>1, PartOfPart
    <2>3. q + (bs[1] - 1) \in q .. Len(V)
        BY <1>1, <1>4, <1>5
    <2> HIDE DEF piece, bs
    <2>4. Extend(Partial(V, q), piece) = Extend(Blank, SubSeq(V, StartOf(V, c + 1), q + (bs[1] - 1)))
        BY <1>1, <2>2, <2>3, GoesOnAs
    <2> QED
        BY <1>3, <1>4, <1>5, <2>4 DEF piece, bs
<1>6. CASE k # 1
    <2> DEFINE s == LineStart(buf, bs, k)
    <2>1. s \in Nat \ {0}
        <3>1. buf \in Seq(Chars) /\ Len(buf) = r - q
            BY <1>1, BufferIs
        <3> HIDE DEF buf, s, bs
        <3>2. n \in Nat /\ k \in 1 .. (n + 1) /\ \A i \in 1 .. n : bs[i] \in 1 .. (r - q)
            <4>1. r - q \in Nat
                BY <1>1
            <4>2. k \in 1 .. n
                BY DEF bs
            <4>3. \A i \in 1 .. n : bs[i] \in 1 .. (r - q)
                BY <4>1, InOrderIs DEF bs
            <4> QED
                BY <1>2, <4>2, <4>3
        <3>3. s \in 1 .. (Len(buf) + 1)
            BY <3>1, <3>2, StartsIn DEF s
        <3> QED
            BY <3>1, <3>3
    <2>2. SubSeq(buf, s, bs[k] - 1) = SubSeq(V, q + s, q + (bs[k] - 1))
        <3> DEFINE b == bs[k] - 1
        <3>1. b \in Int /\ b <= r - q /\ r \in Int
            BY <1>1, <1>4
        <3> HIDE DEF s, b
        <3>2. SubSeq(buf, s, b) = SubSeq(V, q + s, q + b)
            BY <1>1, <2>1, <3>1, PartOfPart
        <3> QED
            BY <3>2 DEF b
    <2> QED
        BY <1>2, <1>3, <1>4, <1>6, <2>2
<1> QED
    BY <1>5, <1>6

\* ... and what it carries over is what there is of the next.
LEMMA RestSeen ==
    ASSUME NEW Chars, NEW V \in Seq(Chars), NEW q, NEW r, NEW m, NEW Q, Cuts(V, q, r, m, Q)
    PROVE  LET buf == SubSeq(V, q + 1, r)
               bs == InOrder(Q, r - q)
               s == LineStart(buf, bs, Len(bs) + 1)
           IN  /\ s \in 1 .. (m + 1)
               /\ Extend(IF bs = <<>> THEN Partial(V, q) ELSE Blank, SubSeq(buf, s, m)) = Partial(V, q + m)
<1> DEFINE buf == SubSeq(V, q + 1, r)
           bs == InOrder(Q, r - q)
           c == Ended(V, q)
           n == Len(bs)
           s == LineStart(buf, bs, n + 1)
<1>1. /\ q \in Nat /\ r \in Nat /\ m \in Nat /\ q <= r /\ r <= Len(V) /\ Len(V) \in Nat /\ q + m <= r
      /\ Settled(V, q)
    BY DEF Cuts, Settled
<1>2. /\ n \in Nat /\ c \in Nat /\ Settled(V, q + m) /\ Ended(V, q + m) = c + n
      /\ n # 0 => StartOf(V, c + n + 1) = q + s
    <2>1. LET b == InOrder(Q, r - q)
              a == Ended(V, q)
              l == Len(b)
          IN  /\ l \in Nat /\ a \in Nat /\ Settled(V, q + m) /\ Ended(V, q + m) = a + l
              /\ a + l <= Len(BreaksOf(V))
              /\ \A i \in 1 .. l : b[i] \in 1 .. m /\ BreaksOf(V)[a + i] = q + b[i]
              /\ \A i \in 2 .. (l + 1) : StartOf(V, a + i) = q + LineStart(SubSeq(V, q + 1, r), b, i)
        BY CutsAre
    <2>2. n \in Nat /\ c \in Nat /\ (n # 0 => n + 1 \in 2 .. (n + 1)) /\ c + (n + 1) = c + n + 1
        BY <2>1
    <2> QED
        BY <2>1, <2>2
<1>3. StartOf(V, c + n + 1) \in 1 .. (q + m + 1)
    BY <1>2, StartIs
<1>4. n = 0 <=> bs = <<>>
    <2>1. r - q \in Nat
        BY <1>1
    <2>2. bs \in Seq(Nat)
        BY <2>1, InOrderSeq
    <2> QED
        BY <2>2
<1>5. CASE n = 0
    <2>1. s = 1
        BY <1>5 DEF LineStart
    <2> HIDE DEF s, bs
    <2>2. SubSeq(buf, 1, m) = SubSeq(V, q + 1, q + m)
        <3>1. 1 \in Nat \ {0} /\ m \in Int /\ m <= r - q /\ r \in Int
            BY <1>1
        <3> QED
            BY <1>1, <3>1, PartOfPart
    <2>3. q + m \in q .. Len(V)
        BY <1>1
    <2>4. Extend(Partial(V, q), SubSeq(buf, 1, m)) = Extend(Blank, SubSeq(V, StartOf(V, c + 1), q + m))
        BY <1>1, <2>2, <2>3, GoesOnAs
    <2>5. Ended(V, q + m) = c
        BY <1>2, <1>5
    <2>6. Partial(V, q + m) = Extend(Blank, SubSeq(V, StartOf(V, c + 1), q + m))
        BY <2>5 DEF Partial
    <2>7. s \in 1 .. (m + 1)
        BY <1>1, <2>1
    <2> QED
        BY <1>4, <1>5, <2>1, <2>4, <2>6, <2>7 DEF s, bs
<1>6. CASE n # 0
    <2> HIDE DEF s, bs
    <2>1. StartOf(V, c + n + 1) = q + s
        BY <1>2, <1>6
    <2>2. s \in Nat \ {0}
        <3>1. buf \in Seq(Chars) /\ Len(buf) = r - q /\ r - q \in Nat
            BY <1>1, BufferIs
        <3>2. n \in Nat /\ n + 1 \in 1 .. (n + 1) /\ \A i \in 1 .. n : bs[i] \in 1 .. Len(buf)
            BY <1>2, <3>1, InOrderIs DEF bs
        <3> HIDE DEF buf
        <3>3. s \in 1 .. (Len(buf) + 1)
            BY <3>1, <3>2, StartsIn DEF s
        <3> QED
            BY <3>1, <3>3
    <2>3. s \in 1 .. (m + 1)
        BY <1>1, <1>3, <2>1, <2>2
    <2>4. SubSeq(buf, s, m) = SubSeq(V, q + s, q + m)
        <3>1. m \in Int /\ m <= r - q /\ r \in Int
            BY <1>1
        <3> QED
            BY <1>1, <2>2, <3>1, PartOfPart
    <2>5. Partial(V, q + m) = Extend(Blank, SubSeq(V, StartOf(V, c + n + 1), q + m))
        BY <1>2 DEF Partial
    <2> QED
        BY <1>4, <1>6, <2>1, <2>3, <2>4, <2>5 DEF s, bs
<1> QED
    BY <1>5, <1>6

\* The reader is at r of V, and holds what there is from q on: nothing, or a CR.
HeldIs(V, q, held, r) ==
    /\ Settled(V, q) /\ r \in q .. Len(V) /\ held = SubSeq(V, q + 1, r)
    /\ r = q \/ (r = q + 1 /\ V[r] = "CR")

Waits(buf, chunk) == {b \in {Len(buf)} : chunk # <<>> /\ buf[b] = "CR"}

\* What the breaks of a chunk part is as Cuts has it.
LEMMA ChunkCuts ==
    ASSUME NEW Chars, NEW V \in Seq(Chars), NEW q, NEW held, NEW p, HeldIs(V, q, held, p),
           NEW r \in p .. Len(V), r = p => p = Len(V)
    PROVE  LET chunk == SubSeq(V, p + 1, r)
               buf == held \o chunk
               w == r # p /\ V[r] = "CR"
               m == IF w THEN r - q - 1 ELSE r - q
           IN  /\ buf = SubSeq(V, q + 1, r) /\ (chunk = <<>> <=> r = p)
               /\ chunk \in Seq(Chars) /\ held \in Seq(Chars)
               /\ Cuts(V, q, r, m, Breaks(buf) \ Waits(buf, chunk))
<1> DEFINE chunk == SubSeq(V, p + 1, r)
           buf == held \o chunk
           w == r # p /\ V[r] = "CR"
           m == IF w THEN r - q - 1 ELSE r - q
           waits == Waits(buf, chunk)
           Q == Breaks(buf) \ waits
<1>1. /\ q \in Nat /\ p \in Nat /\ r \in Nat /\ q <= p /\ p <= r /\ r <= Len(V) /\ Len(V) \in Nat
      /\ Settled(V, q) /\ held = SubSeq(V, q + 1, p)
    BY DEF HeldIs, Settled
<1>2. chunk \in Seq(Chars) /\ Len(chunk) = r - p /\ held \in Seq(Chars)
    BY <1>1, BufferIs
<1>3. chunk = <<>> <=> r = p
    <2> HIDE DEF chunk
    <2> QED
        BY <1>1, <1>2
<1>4. buf = SubSeq(V, q + 1, r)
    <2>1. q + 1 \in 1 .. Len(V) + 1 /\ p \in (q + 1) - 1 .. Len(V) /\ r \in p .. Len(V)
        BY <1>1
    <2> QED
        BY <1>1, <2>1, ConcatAdjacentSubSeq
<1>5. Len(buf) = r - q /\ \A i \in 1 .. (r - q) : buf[i] = V[q + i]
    <2>1. q <= r
        BY <1>1
    <2> QED
        BY <1>1, <1>4, <2>1, BufferIs
<1> HIDE DEF chunk, buf
<1>6. waits = IF w THEN {r - q} ELSE {}
    <2>1. CASE r = p
        BY <1>3, <2>1 DEF Waits
    <2>2. CASE r # p
        <3>1. r - q \in 1 .. (r - q) /\ q + (r - q) = r
            BY <1>1, <2>2
        <3>2. buf[r - q] = V[r]
            BY <1>5, <3>1
        <3> QED
            BY <1>3, <1>5, <2>2, <3>2 DEF Waits
    <2> QED
        BY <2>1, <2>2
<1> HIDE DEF waits
<1>7. CASE w
    <2>1. m = r - q - 1 /\ m \in Nat /\ m + 1 = r - q /\ V[r] = "CR"
        BY <1>1, <1>7
    <2>2. m + 1 \notin Q /\ \A i \in 1 .. m : i \notin waits
        BY <1>6, <1>7, <2>1
    <2> HIDE DEF m
    <2>3. \A i \in 1 .. m : i \in Q <=> i \in Breaks(SubSeq(V, q + 1, r))
        BY <1>4, <2>2
    <2>4. Cuts(V, q, r, m, Q)
        <3>1. r \in q .. Len(V)
            BY <1>1
        <3> HIDE DEF Q
        <3> QED
            BY <1>1, <2>1, <2>2, <2>3, <3>1 DEF Cuts
    <2> QED
        BY <1>2, <1>3, <1>4, <2>4 DEF chunk, buf, m, waits
<1>8. CASE ~w
    <2>1. m = r - q /\ m \in Nat /\ (r = q \/ r = Len(V) \/ V[r] # "CR")
        BY <1>1, <1>8
    <2>2. waits = {}
        BY <1>6, <1>8
    <2> HIDE DEF m
    <2>3. \A i \in 1 .. m : i \in Q <=> i \in Breaks(SubSeq(V, q + 1, r))
        BY <1>4, <2>2
    <2>4. Cuts(V, q, r, m, Q)
        <3>1. r \in q .. Len(V)
            BY <1>1
        <3> HIDE DEF Q
        <3> QED
            BY <1>1, <2>1, <2>3, <3>1 DEF Cuts
    <2> QED
        BY <1>2, <1>3, <1>4, <2>4 DEF chunk, buf, m, waits
<1> QED
    BY <1>7, <1>8

\* A chunk's lines are the next ones, and what is carried over is the line after them.
LEMMA ChunkIs ==
    ASSUME NEW Chars, "CR" \in Chars, NEW V \in Seq(Chars), NEW q, NEW held, NEW p, HeldIs(V, q, held, p),
           NEW r \in p .. Len(V), r = p => p = Len(V)
    PROVE  LET chunk == SubSeq(V, p + 1, r)
               got == Chunk(Partial(V, q), held, chunk)
               all == Clipped(SplitLines(V))
               c == Ended(V, q)
           IN  /\ chunk = <<>> <=> r = p
               /\ c + Len(got.lines) <= Len(all)
               /\ \A k \in 1 .. Len(got.lines) : got.lines[k] = all[c + k]
               /\ r = p => c + Len(got.lines) = Len(all)
               /\ r # p => \E q1 \in 0 .. r : /\ HeldIs(V, q1, got.held, r) /\ got.part = Partial(V, q1)
                                             /\ Ended(V, q1) = c + Len(got.lines)
<1> DEFINE part == Partial(V, q)
           chunk == SubSeq(V, p + 1, r)
           c == Ended(V, q)
           all == Clipped(SplitLines(V))
           buf == held \o chunk
           w == r # p /\ V[r] = "CR"
           m == IF w THEN r - q - 1 ELSE r - q
           waits == {b \in {Len(buf)} : chunk # <<>> /\ buf[b] = "CR"}
           Q == Breaks(buf) \ waits
           bs == InOrder(Q, Len(buf))
           n == Len(bs)
           line(k) == Extend(IF k = 1 THEN part ELSE Blank, SubSeq(buf, LineStart(buf, bs, k), bs[k] - 1))
           lines == [k \in 1 .. Len(bs) |-> line(k)]
           s == LineStart(buf, bs, Len(bs) + 1)
           rest == SubSeq(buf, s, Len(buf))
           open == IF bs = <<>> THEN part ELSE Blank
           final == Extend(open, rest)
           keeps == chunk # <<>> /\ rest # <<>> /\ rest[Len(rest)] = "CR"
           more == IF final = Blank THEN <<>> ELSE <<final>>
           ends == [lines |-> lines \o more, part |-> Blank, held |-> <<>>]
           goes == [lines |-> lines,
                    part |-> Extend(open, IF keeps THEN Front(rest) ELSE rest),
                    held |-> IF keeps THEN <<"CR">> ELSE <<>>]
           got == Chunk(part, held, chunk)
<1>1. got = IF chunk = <<>> THEN ends ELSE goes
    BY DEF Chunk
<1> HIDE DEF got
<1>2. /\ q \in Nat /\ p \in Nat /\ r \in Nat /\ q <= p /\ p <= r /\ r <= Len(V) /\ Len(V) \in Nat
      /\ Settled(V, q)
    BY DEF HeldIs, Settled
<1>3. /\ buf = SubSeq(V, q + 1, r) /\ (chunk = <<>> <=> r = p)
      /\ chunk \in Seq(Chars) /\ held \in Seq(Chars)
      /\ Cuts(V, q, r, m, Q)
    <2>1. waits = Waits(buf, chunk)
        BY DEF Waits
    <2> HIDE DEF waits
    <2>2. /\ buf = SubSeq(V, q + 1, r) /\ (chunk = <<>> <=> r = p)
          /\ chunk \in Seq(Chars) /\ held \in Seq(Chars)
          /\ Cuts(V, q, r, m, Breaks(buf) \ Waits(buf, chunk))
        BY ChunkCuts
    <2> QED
        BY <2>1, <2>2
<1> HIDE DEF chunk, buf, waits, Q
<1>4. buf \in Seq(Chars) /\ Len(buf) = r - q /\ \A i \in 1 .. (r - q) : buf[i] = V[q + i]
    <2>1. q <= r
        BY <1>2
    <2> QED
        BY <1>2, <1>3, <2>1, BufferIs
<1>5. bs = InOrder(Q, r - q)
    BY <1>4
<1> HIDE DEF bs, m
<1>6. /\ n \in Nat /\ c \in Nat /\ Settled(V, q + m) /\ Ended(V, q + m) = c + n
      /\ c + n <= Len(BreaksOf(V))
    <2>1. LET b == InOrder(Q, r - q)
              a == Ended(V, q)
              l == Len(b)
          IN  /\ l \in Nat /\ a \in Nat /\ Settled(V, q + m) /\ Ended(V, q + m) = a + l
              /\ a + l <= Len(BreaksOf(V))
              /\ \A i \in 1 .. l : b[i] \in 1 .. m /\ BreaksOf(V)[a + i] = q + b[i]
              /\ \A i \in 2 .. (l + 1) : StartOf(V, a + i) = q + LineStart(SubSeq(V, q + 1, r), b, i)
        BY <1>3, CutsAre
    <2> QED
        BY <1>5, <2>1
<1>7. \A k \in 1 .. n : line(k) = all[c + k]
    <2> SUFFICES ASSUME NEW k \in 1 .. n PROVE line(k) = all[c + k]
        OBVIOUS
    <2>1. k \in 1 .. Len(InOrder(Q, r - q))
        BY <1>5
    <2>2. LET buf1 == SubSeq(V, q + 1, r)
              bs1 == InOrder(Q, r - q)
          IN  Extend(IF k = 1 THEN Partial(V, q) ELSE Blank, SubSeq(buf1, LineStart(buf1, bs1, k), bs1[k] - 1))
                 = Clipped(SplitLines(V))[Ended(V, q) + k]
        BY <1>3, <2>1, LineSeen
    <2> QED
        BY <1>3, <1>5, <2>2
<1>8. s \in 1 .. (m + 1) /\ Extend(open, SubSeq(buf, s, m)) = Partial(V, q + m)
    <2>1. LET buf1 == SubSeq(V, q + 1, r)
              bs1 == InOrder(Q, r - q)
              s1 == LineStart(buf1, bs1, Len(bs1) + 1)
          IN  /\ s1 \in 1 .. (m + 1)
              /\ Extend(IF bs1 = <<>> THEN Partial(V, q) ELSE Blank, SubSeq(buf1, s1, m)) = Partial(V, q + m)
        BY <1>3, RestSeen
    <2> QED
        BY <1>3, <1>5, <2>1
<1>9. /\ all \in Seq(LinesOf(Chars)) /\ RestOf(V) \in Seq(Chars)
      /\ Len(all) = Len(BreaksOf(V)) + (IF RestOf(V) = <<>> THEN 0 ELSE 1)
      /\ RestOf(V) # <<>> => all[Len(BreaksOf(V)) + 1] = Extend(Blank, RestOf(V))
      /\ Len(BreaksOf(V)) \in Nat
    <2>1. LET n1 == Len(BreaksOf(V))
              all1 == Clipped(SplitLines(V))
          IN  /\ all1 \in Seq(LinesOf(Chars))
              /\ RestOf(V) \in Seq(Chars)
              /\ Len(all1) = n1 + (IF RestOf(V) = <<>> THEN 0 ELSE 1)
              /\ \A k \in 1 .. n1 : all1[k] = Extend(Blank, SubSeq(V, StartOf(V, k), BreaksOf(V)[k] - 1))
              /\ RestOf(V) # <<>> => all1[n1 + 1] = Extend(Blank, RestOf(V))
        BY LinesAre
    <2>2. Len(BreaksOf(V)) \in Nat
        BY BreaksAre
    <2> QED
        BY <2>1, <2>2
<1> HIDE DEF all, c, line, part, open
<1>10. Len(lines) = n /\ \A k \in 1 .. n : lines[k] = all[c + k]
    BY <1>6, <1>7
<1> HIDE DEF lines, s, n
<1>11. CASE r # p
    <2>1. chunk # <<>> /\ r - q \in 1 .. (r - q) /\ buf[r - q] = V[r]
        <3>1. r - q \in 1 .. (r - q) /\ q + (r - q) = r
            BY <1>2, <1>11
        <3> QED
            BY <1>3, <1>4, <1>11, <3>1
    <2>2. m \in Nat /\ m = (IF w THEN r - q - 1 ELSE r - q) /\ s \in Nat \ {0} /\ s <= m + 1
        BY <1>2, <1>8, <1>11 DEF m
    <2>3. /\ rest \in Seq(Chars) /\ Len(rest) = (IF s <= r - q THEN r - q - s + 1 ELSE 0)
          /\ \A i \in 1 .. r - q - s + 1 : rest[i] = buf[s + i - 1]
        <3>1. Len(buf) \in Int /\ Len(buf) <= Len(buf)
            BY <1>4
        <3> QED
            BY <1>4, <2>2, <3>1, PartIs
    <2>4. rest # <<>> => rest[Len(rest)] = V[r]
        <3> HIDE DEF rest
        <3> SUFFICES ASSUME rest # <<>> PROVE rest[Len(rest)] = V[r]
            OBVIOUS
        <3>1. s <= r - q
            BY <2>3
        <3>2. Len(rest) = r - q - s + 1 /\ Len(rest) \in 1 .. r - q - s + 1 /\ s + Len(rest) - 1 = r - q
            BY <1>2, <2>2, <2>3, <3>1
        <3>3. rest[Len(rest)] = buf[s + Len(rest) - 1]
            BY <2>3, <3>2
        <3> QED
            BY <2>1, <3>2, <3>3
    <2>5. keeps <=> w
        <3> HIDE DEF rest
        <3>1. w => rest # <<>>
            <4> SUFFICES ASSUME w PROVE rest # <<>>
                OBVIOUS
            <4>1. s <= r - q /\ Len(rest) \in Nat \ {0}
                BY <1>2, <2>2, <2>3
            <4> QED
                BY <2>3, <4>1
        <3> QED
            BY <1>11, <2>1, <2>4, <3>1
    <2>6. (IF keeps THEN Front(rest) ELSE rest) = SubSeq(buf, s, m)
        <3>1. CASE w
            <4> DEFINE q2 == s - 1
                       r2 == r - q
                       b2 == r - q - s
            <4>1. /\ q2 \in Nat /\ r2 \in Int /\ q2 <= r2 /\ r2 <= Len(buf) /\ 1 \in Nat \ {0}
                  /\ b2 \in Int /\ b2 <= r2 - q2 /\ q2 + 1 = s /\ q2 + b2 = m /\ r2 = Len(buf)
                BY <1>2, <1>4, <2>2, <3>1
            <4>2. Len(rest) - 1 = b2
                <5>1. s <= r - q
                    BY <1>2, <2>2, <3>1
                <5>2. Len(rest) = r - q - s + 1
                    BY <2>3, <5>1
                <5> HIDE DEF rest
                <5> QED
                    BY <1>2, <2>2, <5>2
            <4> HIDE DEF q2, r2, b2
            <4>3. SubSeq(SubSeq(buf, q2 + 1, r2), 1, b2) = SubSeq(buf, q2 + 1, q2 + b2)
                BY <1>4, <4>1, PartOfPart
            <4>4. Front(rest) = SubSeq(rest, 1, Len(rest) - 1)
                BY DEF Front
            <4> QED
                BY <2>5, <3>1, <4>1, <4>2, <4>3, <4>4
        <3>2. CASE ~w
            BY <1>4, <2>2, <2>5, <3>2
        <3> QED
            BY <3>1, <3>2
    <2> HIDE DEF rest, keeps, w
    <2>7. got.lines = lines /\ got.part = Partial(V, q + m) /\ got.held = (IF w THEN <<"CR">> ELSE <<>>)
        <3>1. got = goes
            BY <1>1, <2>1
        <3>2. /\ goes.lines = lines /\ goes.part = Extend(open, IF keeps THEN Front(rest) ELSE rest)
              /\ goes.held = IF keeps THEN <<"CR">> ELSE <<>>
            OBVIOUS
        <3> HIDE DEF goes
        <3> QED
            BY <1>8, <2>5, <2>6, <3>1, <3>2
    <2>8. HeldIs(V, q + m, got.held, r)
        <3>1. CASE w
            <4>1. q + m + 1 = r /\ V[r] = "CR" /\ r \in q + m .. Len(V) /\ r \in Nat \ {0} /\ r \in Int
                BY <1>2, <1>11, <2>2, <3>1 DEF w
            <4>2. SubSeq(V, r, r) = <<"CR">>
                <5>1. SubSeq(V, r, r) \in Seq(Chars) /\ Len(SubSeq(V, r, r)) = 1 /\ SubSeq(V, r, r)[1] = V[r]
                    <6>1. r - r + 1 = 1 /\ 1 \in 1 .. r - r + 1 /\ r + 1 - 1 = r
                        BY <4>1
                    <6> QED
                        <7>1. /\ SubSeq(V, r, r) \in Seq(Chars)
                              /\ Len(SubSeq(V, r, r)) = IF r <= r THEN r - r + 1 ELSE 0
                              /\ \A i \in 1 .. r - r + 1 : SubSeq(V, r, r)[i] = V[r + i - 1]
                            BY <1>2, <4>1, PartIs
                        <7> QED
                            BY <4>1, <6>1, <7>1
                <5> DEFINE x == SubSeq(V, r, r)
                <5>2. x \in Seq(Chars) /\ Len(x) = 1 /\ x[1] = "CR"
                    BY <4>1, <5>1
                <5> HIDE DEF x
                <5>3. x = <<"CR">>
                    BY <5>2
                <5> QED
                    BY <5>3 DEF x
            <4> QED
                BY <1>6, <2>7, <3>1, <4>1, <4>2 DEF HeldIs
        <3>2. CASE ~w
            <4>1. q + m = r /\ r \in q + m .. Len(V) /\ r \in Nat
                BY <1>2, <2>2, <3>2
            <4>2. SubSeq(V, r + 1, r) = <<>>
                <5>1. r \in Int /\ r + 1 \in Int /\ r < r + 1
                    BY <4>1
                <5> QED
                    BY <5>1, SubSeqEmpty
            <4> QED
                BY <1>6, <2>7, <3>2, <4>1, <4>2 DEF HeldIs
        <3> QED
            BY <3>1, <3>2
    <2>9. q + m \in 0 .. r
        BY <1>2, <2>2, <1>11 DEF w
    <2>10. Ended(V, q + m) = c + Len(got.lines)
        BY <1>6, <1>10, <2>7
    <2>11. \E q1 \in 0 .. r : /\ HeldIs(V, q1, got.held, r) /\ got.part = Partial(V, q1)
                              /\ Ended(V, q1) = c + Len(got.lines)
        BY <2>7, <2>8, <2>9, <2>10
    <2>12. c + Len(got.lines) <= Len(all) /\ \A k \in 1 .. Len(got.lines) : got.lines[k] = all[c + k]
        <3>1. c + n <= Len(all)
            BY <1>6, <1>9
        <3> QED
            BY <1>10, <2>7, <3>1
    <2> QED
        BY <1>3, <1>11, <2>11, <2>12 DEF got, all, c, part, chunk
<1>12. CASE r = p
    <2>1. chunk = <<>> /\ r = Len(V) /\ m = r - q
        BY <1>3, <1>12 DEF m
    <2>2. got.lines = lines \o more
        <3>1. got = ends
            BY <1>1, <2>1
        <3> QED
            BY <3>1
    <2>3. q + m = Len(V)
        BY <1>2, <2>1
    <2>4. Ended(V, Len(V)) = Len(BreaksOf(V))
        BY DEF Ended, BreaksOf
    <2>5. final = Extend(Blank, RestOf(V))
        <3>1. final = Partial(V, Len(V))
            BY <1>4, <1>8, <2>1, <2>3
        <3>2. Partial(V, Len(V)) = Extend(Blank, RestOf(V))
            BY <2>4 DEF Partial, RestOf
        <3> QED
            BY <3>1, <3>2
    <2> HIDE DEF final
    <2>6. final = Blank <=> RestOf(V) = <<>>
        BY <1>9, <2>5, BlankIs
    <2>7. final \in LinesOf(Chars)
        BY <1>9, <2>5, BlankIs, ExtendIs
    <2>8. /\ more \in Seq(LinesOf(Chars)) /\ Len(more) = (IF RestOf(V) = <<>> THEN 0 ELSE 1)
          /\ RestOf(V) # <<>> => more[1] = Extend(Blank, RestOf(V))
        BY <2>5, <2>6, <2>7
    <2>9. lines \in Seq(LinesOf(Chars))
        <3>1. \A k \in 1 .. n : all[c + k] \in LinesOf(Chars)
            <4> SUFFICES ASSUME NEW k \in 1 .. n PROVE all[c + k] \in LinesOf(Chars)
                OBVIOUS
            <4>1. c + k \in 1 .. Len(all)
                BY <1>6, <1>9
            <4> QED
                BY <1>9, <4>1, ElementOfSeq
        <3>2. lines = [k \in 1 .. n |-> line(k)]
            BY DEF lines, n
        <3>3. \A k \in 1 .. n : line(k) \in LinesOf(Chars)
            BY <1>10, <3>1, <3>2
        <3> QED
            BY <1>6, <3>2, <3>3
    <2> HIDE DEF more
    <2>10. /\ Len(got.lines) = n + Len(more)
           /\ \A k \in 1 .. n : got.lines[k] = lines[k]
           /\ \A k \in 1 .. Len(more) : got.lines[n + k] = more[k]
        <3> DEFINE S == LinesOf(Chars)
        <3> HIDE DEF S
        <3>1. lines \in Seq(S) /\ more \in Seq(S)
            BY <2>8, <2>9 DEF S
        <3>2. /\ Len(lines \o more) = Len(lines) + Len(more)
              /\ \A k \in 1 .. Len(lines) : (lines \o more)[k] = lines[k]
              /\ \A k \in 1 .. Len(more) : (lines \o more)[Len(lines) + k] = more[k]
            BY <3>1, PlacesOfTwo
        <3> QED
            BY <1>10, <2>2, <3>2
    <2>11. c + n = Len(BreaksOf(V))
        BY <1>6, <2>3, <2>4
    <2>12. c + Len(got.lines) = Len(all)
        BY <1>6, <1>9, <2>8, <2>10, <2>11
    <2>13. ASSUME NEW k \in 1 .. Len(got.lines) PROVE got.lines[k] = all[c + k]
        <3>1. CASE k \in 1 .. n
            BY <1>10, <2>10, <3>1
        <3>2. CASE k \notin 1 .. n
            <4>1. k = n + 1 /\ RestOf(V) # <<>> /\ 1 \in 1 .. Len(more) /\ c + k = Len(BreaksOf(V)) + 1
                BY <1>6, <1>9, <2>8, <2>10, <2>11, <3>2
            <4>2. got.lines[k] = more[1]
                BY <2>10, <4>1
            <4> QED
                BY <1>9, <2>8, <4>1, <4>2
        <3> QED
            BY <3>1, <3>2
    <2>14. c + Len(got.lines) <= Len(all)
        BY <1>9, <2>12
    <2> QED
        BY <1>3, <1>12, <2>12, <2>13, <2>14 DEF got, all, c, part, chunk
<1> QED
    BY <1>11, <1>12

\* The pages of a reader of text over Chars.
PagesOf(Chars) ==
    [phase : {"closed", "open", "shown", "end"}, inode : {NoFile, "first"} \cup Editors \cup Writers,
     pos : Nat, held : Seq(Chars), part : LinesOf(Chars), offset : Nat \ {0}, total : Nat,
     shown : Seq(LinesOf(Chars)), size : Nat, last : Nat,
     full : BOOLEAN, stopped : BOOLEAN, hint : BOOLEAN, version : Seq(Chars), torn : BOOLEAN]

WindowTyped == window.limit \in Int /\ window.counts \in BOOLEAN /\ window.numbered \in BOOLEAN

\* t is p with the lines it was given.
Kept(p, t) ==
    /\ t.phase = p.phase /\ t.inode = p.inode /\ t.pos = p.pos /\ t.held = p.held /\ t.part = p.part
    /\ t.offset = p.offset /\ t.hint = p.hint /\ t.version = p.version /\ t.torn = p.torn

\* At least one line is asked for.
LEMMA LimitIs == WindowTyped => Limit \in Nat \ {0}
BY FileAssumption DEF WindowTyped, Limit

\* A line changes nothing but what the page shows and counts.
LEMMA TakeIs ==
    ASSUME NEW Chars, WindowTyped, NEW p \in PagesOf(Chars), NEW line \in LinesOf(Chars)
    PROVE  Take(p, line) \in PagesOf(Chars) /\ Kept(p, Take(p, line))
<1> DEFINE n == p.total + 1
           w == p.size + Width(line) + 1
           counted == [p EXCEPT !.total = n, !.stopped = ~window.counts]
           filled == [p EXCEPT !.total = n, !.full = TRUE]
           given == [p EXCEPT !.total = n, !.last = n, !.size = @ + Width(line) + 1,
                              !.shown = Append(@, line)]
           passed == [p EXCEPT !.total = n]
<1>1. /\ p.total \in Nat /\ p.size \in Nat /\ p.shown \in Seq(LinesOf(Chars))
      /\ line.text \in Seq(Chars) /\ line.cut \in BOOLEAN
    BY DEF PagesOf, LinesOf
<1>2. n \in Nat /\ w \in Nat
    <2>1. Width(line) \in Nat
        <3>1. Len(line.text) \in Nat /\ CutNote \in Nat /\ Prefix \in Nat
            BY <1>1, FileAssumption
        <3> DEFINE a == Len(line.text)
                   b == IF line.cut THEN CutNote ELSE 0
                   c == IF window.numbered THEN Prefix ELSE 0
        <3>2. a \in Nat /\ b \in Nat /\ c \in Nat
            BY <3>1
        <3>3. Width(line) = a + b + c
            BY DEF Width
        <3> HIDE DEF a, b, c
        <3> QED
            BY <3>2, <3>3
    <2> QED
        BY <1>1, <2>1
<1>3. Append(p.shown, line) \in Seq(LinesOf(Chars))
    BY <1>1
<1> DEFINE longer == Append(p.shown, line)
<1>4. given = [p EXCEPT !.total = n, !.last = n, !.size = w, !.shown = longer]
    OBVIOUS
<1> HIDE DEF n, w, longer
<1>5. longer \in Seq(LinesOf(Chars))
    BY <1>3 DEF longer
<1>6. given \in PagesOf(Chars) /\ Kept(p, given)
    <2>1. given \in PagesOf(Chars)
        BY <1>2, <1>4, <1>5 DEF PagesOf
    <2>2. Kept(p, given)
        BY <1>4 DEF PagesOf, Kept
    <2> QED
        BY <2>1, <2>2
<1>7. counted \in PagesOf(Chars) /\ Kept(p, counted)
    BY <1>2 DEF PagesOf, Kept, WindowTyped
<1>8. filled \in PagesOf(Chars) /\ Kept(p, filled)
    BY <1>2 DEF PagesOf, Kept
<1>9. passed \in PagesOf(Chars) /\ Kept(p, passed)
    BY <1>2 DEF PagesOf, Kept
<1>10. Take(p, line) \in {p, counted, filled, given, passed}
    BY DEF Take, n
<1>11. Kept(p, p)
    BY DEF Kept
<1> HIDE DEF counted, filled, given, passed
<1> QED
    BY <1>6, <1>7, <1>8, <1>9, <1>10, <1>11

\* The page has the lines from its offset to its last, and has looked at `total` of them.
PageIs(p, all) ==
    /\ p.total <= Len(all)
    /\ p.total < p.offset => p.last = p.offset - 1 /\ p.shown = <<>> /\ ~p.full /\ ~p.stopped
    /\ p.total >= p.offset =>
          /\ p.last \in p.offset .. p.total /\ p.shown = SubSeq(all, p.offset, p.last)
          /\ p.last < p.total => p.full \/ p.total >= p.offset + Limit
          /\ p.stopped => p.last < p.total

\* Given the next line, a page still has the lines from its offset to its last.
LEMMA TakeNext ==
    ASSUME NEW Chars, WindowTyped, NEW p \in PagesOf(Chars), NEW all \in Seq(LinesOf(Chars)),
           PageIs(p, all), ~p.stopped, p.total < Len(all)
    PROVE  LET t == Take(p, all[p.total + 1]) IN PageIs(t, all) /\ t.total = p.total + 1
<1> DEFINE n == p.total + 1
           line == all[n]
           t == Take(p, line)
           w == p.size + Width(line) + 1
<1>1. /\ p.total \in Nat /\ p.offset \in Nat \ {0} /\ p.last \in Nat /\ p.shown \in Seq(LinesOf(Chars))
      /\ Len(all) \in Nat /\ n \in 1 .. Len(all) /\ Limit \in Nat \ {0}
    BY LimitIs DEF PagesOf
<1>2. t.offset = p.offset
    <2>1. line \in LinesOf(Chars)
        BY <1>1, ElementOfSeq
    <2> QED
        BY <2>1, TakeIs DEF Kept
<1> HIDE DEF line, w
<1>3. CASE n < p.offset
    <2>1. t = [p EXCEPT !.total = n]
        BY <1>3 DEF Take
    <2>2. t.total = n /\ t.last = p.last /\ t.shown = p.shown /\ t.full = p.full /\ t.stopped = p.stopped
        BY <2>1 DEF PagesOf
    <2>3. p.total < p.offset /\ n <= Len(all)
        BY <1>1, <1>3
    <2> HIDE DEF t, n
    <2>4. PageIs(t, all)
        BY <1>1, <1>2, <1>3, <2>2, <2>3 DEF PageIs
    <2> QED
        BY <2>2, <2>4 DEF t, line, n
<1>4. CASE ~(n < p.offset) /\ (p.full \/ n >= p.offset + Limit)
    <2>1. t = [p EXCEPT !.total = n, !.stopped = ~window.counts]
        BY <1>4 DEF Take
    <2>2. t.total = n /\ t.last = p.last /\ t.shown = p.shown /\ t.full = p.full
        BY <2>1 DEF PagesOf
    <2>3. p.total >= p.offset
        <3>1. p.total < p.offset => FALSE
            BY <1>1, <1>4 DEF PageIs
        <3> QED
            BY <1>1, <3>1
    <2>4. p.last \in p.offset .. p.total /\ p.shown = SubSeq(all, p.offset, p.last) /\ p.last < n
        BY <1>1, <2>3 DEF PageIs
    <2> HIDE DEF t
    <2>5. PageIs(t, all)
        BY <1>1, <1>2, <1>4, <2>2, <2>3, <2>4 DEF PageIs
    <2> QED
        BY <2>2, <2>5 DEF t, line, n
<1>5. CASE ~(n < p.offset) /\ ~(p.full \/ n >= p.offset + Limit)
    <2>1. p.total >= p.offset => p.last = p.total /\ p.shown = SubSeq(all, p.offset, p.total) /\ p.shown # <<>>
        <3> SUFFICES ASSUME p.total >= p.offset
                     PROVE  p.last = p.total /\ p.shown = SubSeq(all, p.offset, p.total) /\ p.shown # <<>>
            OBVIOUS
        <3>1. p.last = p.total /\ p.shown = SubSeq(all, p.offset, p.total)
            BY <1>1, <1>5 DEF PageIs
        <3>2. Len(SubSeq(all, p.offset, p.total)) = p.total - p.offset + 1
            <4>1. p.total \in Int /\ p.total <= Len(all) /\ p.offset <= p.total
                BY <1>1
            <4> QED
                BY <1>1, <4>1, PartIs
        <3>3. Len(p.shown) # 0
            BY <1>1, <3>1, <3>2
        <3>4. p.shown # <<>>
            BY <3>3
        <3> QED
            BY <3>1, <3>4
    <2>2. CASE p.shown # <<>> /\ w > MaxReadChars
        <3>1. t = [p EXCEPT !.total = n, !.full = TRUE]
            BY <1>5, <2>2 DEF Take, w
        <3>2. t.total = n /\ t.last = p.last /\ t.shown = p.shown /\ t.full = TRUE /\ t.stopped = p.stopped
            BY <3>1 DEF PagesOf
        <3>3. p.total >= p.offset
            BY <1>1, <2>2 DEF PageIs
        <3> HIDE DEF t
        <3>4. PageIs(t, all)
            BY <1>1, <1>2, <1>5, <2>1, <3>2, <3>3 DEF PageIs
        <3> QED
            BY <3>2, <3>4 DEF t, line, n
    <2>3. CASE ~(p.shown # <<>> /\ w > MaxReadChars)
        <3>1. t = [p EXCEPT !.total = n, !.last = n, !.size = @ + Width(line) + 1, !.shown = Append(@, line)]
            BY <1>5, <2>3 DEF Take, w
        <3>2. t.total = n /\ t.last = n /\ t.shown = Append(p.shown, line) /\ t.full = p.full /\ t.stopped = p.stopped
            BY <3>1 DEF PagesOf
        <3>3. p.shown = SubSeq(all, p.offset, n - 1)
            <4>1. CASE p.total >= p.offset
                BY <1>1, <2>1, <4>1
            <4>2. CASE ~(p.total >= p.offset)
                <5>1. p.shown = <<>> /\ n - 1 < p.offset /\ n - 1 \in Int /\ p.offset \in Int
                    BY <1>1, <4>2 DEF PageIs
                <5>2. SubSeq(all, p.offset, n - 1) = <<>>
                    BY <5>1, SubSeqEmpty
                <5> QED
                    BY <5>1, <5>2
            <4> QED
                BY <4>1, <4>2
        <3>4. t.shown = SubSeq(all, p.offset, n)
            <4>1. p.offset <= n
                BY <1>1, <1>5
            <4> DEFINE x == Append(p.shown, line)
                       y == SubSeq(all, p.offset, n)
                       a == p.offset
                       L == LinesOf(Chars)
            <4>2. /\ y \in Seq(L) /\ Len(y) = n - a + 1
                  /\ \A i \in 1 .. n - a + 1 : y[i] = all[a + i - 1]
                <5>1. n \in Int /\ n <= Len(all)
                    BY <1>1
                <5> QED
                    BY <1>1, <4>1, <5>1, PartIs
            <4>3. /\ p.shown \in Seq(L) /\ Len(p.shown) = n - a
                  /\ \A i \in 1 .. n - a : p.shown[i] = all[a + i - 1]
                <5>1. n - 1 \in Int /\ n - 1 <= Len(all) /\ (n - 1) - a + 1 = n - a
                    BY <1>1
                <5>2. /\ Len(SubSeq(all, a, n - 1)) = IF a <= n - 1 THEN (n - 1) - a + 1 ELSE 0
                      /\ \A i \in 1 .. (n - 1) - a + 1 : SubSeq(all, a, n - 1)[i] = all[a + i - 1]
                    BY <1>1, <5>1, PartIs, SMTT(30)
                <5> QED
                    BY <1>1, <3>3, <4>1, <5>1, <5>2
            <4>4. line = all[n] /\ line \in L
                BY <1>1, ElementOfSeq DEF line
            <4>5. n - a \in Nat /\ a + (n - a + 1) - 1 = n
                BY <1>1, <4>1
            <4> HIDE DEF y, n, L
            <4>6. /\ x \in Seq(L) /\ Len(x) = n - a + 1
                  /\ \A i \in 1 .. n - a : x[i] = p.shown[i]
                  /\ x[n - a + 1] = line
                BY <4>3, <4>4, <4>5, AppendProperties
            <4> HIDE DEF x
            <4>7. Len(x) = Len(y) /\ \A i \in 1 .. Len(x) : x[i] = y[i]
                <5>1. Len(x) = Len(y)
                    BY <4>2, <4>6
                <5>2. ASSUME NEW i \in 1 .. Len(x) PROVE x[i] = y[i]
                    <6>1. i \in 1 .. n - a + 1 /\ y[i] = all[a + i - 1]
                        BY <4>2, <4>6
                    <6>2. CASE i = n - a + 1
                        <7>1. y[i] = all[n]
                            BY <4>5, <6>1, <6>2
                        <7> QED
                            BY <4>4, <4>6, <6>2, <7>1
                    <6>3. CASE i # n - a + 1
                        <7>1. i \in 1 .. n - a
                            BY <4>5, <6>1, <6>3
                        <7> QED
                            BY <4>3, <4>6, <6>1, <7>1
                    <6> QED
                        BY <6>2, <6>3
                <5> QED
                    BY <5>1, <5>2
            <4>8. x = y
                BY <4>2, <4>6, <4>7, SeqEqual
            <4> QED
                BY <3>2, <4>8 DEF x, y
        <3> HIDE DEF t
        <3>5. PageIs(t, all)
            BY <1>1, <1>2, <1>5, <3>2, <3>4 DEF PageIs
        <3> QED
            BY <3>2, <3>5 DEF t, line, n
    <2> QED
        BY <2>2, <2>3
<1> QED
    BY <1>3, <1>4, <1>5

\* The lines of a chunk, one after the other.
Taken(f, p, lines) ==
    /\ f[0] = p /\ TakeAll(p, lines) = f[Len(lines)]
    /\ \A k \in 1 .. Len(lines) : f[k] = Take(f[k - 1], lines[k])

LEMMA TakeAllSteps ==
    ASSUME NEW Chars, WindowTyped, NEW p \in PagesOf(Chars), NEW lines \in Seq(LinesOf(Chars))
    PROVE  \E f \in [0 .. Len(lines) -> PagesOf(Chars)] : Taken(f, p, lines)
<1> DEFINE n == Len(lines)
           S == PagesOf(Chars)
           Step(k, x) == Take(x, lines[k])
           next == [k \in 1 .. n |-> [x \in S |-> Step(k, x)]]
           Made(h) == h = [k \in 0 .. n |-> IF k = 0 THEN p ELSE Step(k, h[k - 1])]
           g == CHOOSE after : after = [k \in 0 .. Len(lines) |->
                    IF k = 0 THEN p ELSE Take(after[k - 1], lines[k])]
<1>1. n \in Nat /\ \A k \in 1 .. n : lines[k] \in LinesOf(Chars)
    BY ElementOfSeq
<1>2. (\E h : Made(h)) => Made(g)
    BY Zenon
<1>3. TakeAll(p, lines) = g[n]
    BY DEF TakeAll
<1>4. next \in [1 .. n -> [S -> S]]
    <2>1. ASSUME NEW k \in 1 .. n, NEW x \in S PROVE Step(k, x) \in S
        BY <1>1, TakeIs
    <2> HIDE DEF Step, S
    <2> QED
        BY <2>1
<1> HIDE DEF Step, g, S
<1>5. PICK f \in [0 .. n -> S] : f[0] = p /\ \A k \in 1 .. n : f[k] = next[k][f[k - 1]]
    <2> HIDE DEF next, n
    <2>1. \E f \in [0 .. n -> S] : Iterates(f, p, next, n)
        <3>1. p \in S
            BY DEF S
        <3> QED
            BY <1>1, <1>4, <3>1, Recursion
    <2> QED
        BY <2>1 DEF Iterates
<1>6. \A k \in 1 .. n : f[k] = Step(k, f[k - 1])
    <2> TAKE k \in 1 .. n
    <2>1. k - 1 \in 0 .. n
        BY <1>1
    <2>2. f[k - 1] \in S
        BY <2>1
    <2>3. next[k][f[k - 1]] = Step(k, f[k - 1])
        BY <2>2
    <2> QED
        BY <1>5, <2>3
<1>7. Made(g)
    <2>1. Made(f)
        BY <1>1, <1>5, <1>6
    <2> QED
        BY <1>2, <2>1
<1> HIDE DEF next, n
<1> DEFINE T == {k \in Nat : k <= n => g[k] = f[k]}
<1>8. 0 \in T
    BY <1>1, <1>5, <1>7
<1>9. ASSUME NEW k \in Nat, k \in T PROVE k + 1 \in T
    <2> SUFFICES ASSUME k + 1 <= n PROVE g[k + 1] = f[k + 1]
        OBVIOUS
    <2>1. k + 1 \in 0 .. n /\ k + 1 \in 1 .. n /\ k + 1 # 0 /\ (k + 1) - 1 = k /\ g[k] = f[k]
        BY <1>1, <1>9
    <2>2. g[k + 1] = Step(k + 1, g[k])
        BY <1>7, <2>1
    <2> QED
        BY <1>6, <2>1, <2>2
<1> HIDE DEF T
<1>10. n \in T
    BY <1>1, <1>8, <1>9, Induction
<1>11. g[n] = f[n]
    BY <1>1, <1>10 DEF T
<1>12. f \in [0 .. Len(lines) -> PagesOf(Chars)]
    BY DEF S, n
<1>13. Taken(f, p, lines)
    BY <1>3, <1>5, <1>6, <1>11 DEF Taken, Step, n
<1> QED
    BY <1>12, <1>13

\* Whatever the lines are, the reader stays the one it is.
LEMMA TakeAllIs ==
    ASSUME NEW Chars, WindowTyped, NEW p \in PagesOf(Chars), NEW lines \in Seq(LinesOf(Chars))
    PROVE  TakeAll(p, lines) \in PagesOf(Chars) /\ Kept(p, TakeAll(p, lines))
<1> DEFINE n == Len(lines)
<1>1. n \in Nat /\ \A k \in 1 .. n : lines[k] \in LinesOf(Chars)
    BY ElementOfSeq
<1>2. PICK f \in [0 .. n -> PagesOf(Chars)] : Taken(f, p, lines)
    BY TakeAllSteps
<1>3. f[0] = p /\ TakeAll(p, lines) = f[n] /\ \A k \in 1 .. n : f[k] = Take(f[k - 1], lines[k])
    BY <1>2 DEF Taken
<1> HIDE DEF n
<1> DEFINE T == {k \in Nat : k <= n => Kept(p, f[k])}
<1>4. 0 \in T
    BY <1>3 DEF Kept
<1>5. ASSUME NEW k \in Nat, k \in T PROVE k + 1 \in T
    <2> SUFFICES ASSUME k + 1 <= n PROVE Kept(p, f[k + 1])
        OBVIOUS
    <2>1. k \in 0 .. n /\ k + 1 \in 1 .. n /\ (k + 1) - 1 = k /\ Kept(p, f[k])
        BY <1>1, <1>5
    <2>2. f[k] \in PagesOf(Chars) /\ lines[k + 1] \in LinesOf(Chars) /\ f[k + 1] = Take(f[k], lines[k + 1])
        BY <1>1, <1>3, <2>1
    <2>3. Kept(f[k], f[k + 1])
        BY <2>2, TakeIs
    <2> QED
        BY <2>1, <2>3 DEF Kept
<1> HIDE DEF T
<1>6. n \in T
    BY <1>1, <1>4, <1>5, Induction
<1>7. Kept(p, f[n]) /\ n \in 0 .. n
    BY <1>1, <1>6 DEF T
<1> QED
    BY <1>3, <1>7

\* Given the next lines, it has those that fit, and has looked at all of them or at enough.
LEMMA TakeAllNext ==
    ASSUME NEW Chars, WindowTyped, NEW p \in PagesOf(Chars), NEW all \in Seq(LinesOf(Chars)),
           NEW lines \in Seq(LinesOf(Chars)), PageIs(p, all), ~p.stopped,
           p.total + Len(lines) <= Len(all), \A k \in 1 .. Len(lines) : lines[k] = all[p.total + k]
    PROVE  LET t == TakeAll(p, lines) IN PageIs(t, all) /\ (t.stopped \/ t.total = p.total + Len(lines))
<1> DEFINE n == Len(lines)
<1>1. /\ n \in Nat /\ p.total \in Nat /\ Len(all) \in Nat /\ p.total + n <= Len(all)
      /\ \A k \in 1 .. n : lines[k] \in LinesOf(Chars)
    BY ElementOfSeq DEF PagesOf
<1>2. PICK f \in [0 .. n -> PagesOf(Chars)] : Taken(f, p, lines)
    BY TakeAllSteps
<1>3. f[0] = p /\ TakeAll(p, lines) = f[n] /\ \A k \in 1 .. n : f[k] = Take(f[k - 1], lines[k])
    BY <1>2 DEF Taken
<1> HIDE DEF n
<1> DEFINE Fits(t, k) == PageIs(t, all) /\ (t.stopped \/ t.total = p.total + k)
           T == {k \in Nat : k <= n => Fits(f[k], k)}
<1>4. 0 \in T
    BY <1>1, <1>3
<1>5. ASSUME NEW k \in Nat, k \in T PROVE k + 1 \in T
    <2> SUFFICES ASSUME k + 1 <= n PROVE Fits(f[k + 1], k + 1)
        OBVIOUS
    <2> DEFINE x == f[k]
               y == f[k + 1]
    <2>1. k \in 0 .. n /\ k + 1 \in 1 .. n /\ (k + 1) - 1 = k /\ Fits(x, k)
        BY <1>1, <1>5
    <2>2. x \in PagesOf(Chars) /\ lines[k + 1] = all[p.total + (k + 1)] /\ y = Take(x, lines[k + 1])
        BY <1>1, <1>3, <2>1 DEF n
    <2> HIDE DEF x, y
    <2>3. CASE x.stopped
        <3>1. y = x
            BY <2>2, <2>3 DEF Take
        <3> QED
            BY <2>1, <2>3, <3>1 DEF y
    <2>4. CASE ~x.stopped
        <3>1. /\ PageIs(x, all) /\ x.total = p.total + k /\ x.total < Len(all)
              /\ p.total + (k + 1) = x.total + 1
            <4>1. PageIs(x, all) /\ x.total = p.total + k
                BY <2>1, <2>4
            <4>2. p.total + k < Len(all) /\ p.total + (k + 1) = (p.total + k) + 1
                <5> DEFINE a == p.total
                           l == Len(all)
                <5>1. a \in Nat /\ l \in Nat /\ n \in Nat /\ a + n <= l
                    BY <1>1
                <5> HIDE DEF a, l
                <5>2. a + k < l /\ a + (k + 1) = (a + k) + 1
                    BY <5>1
                <5> QED
                    BY <5>2 DEF a, l
            <4> QED
                BY <4>1, <4>2
        <3>2. LET t == Take(x, all[x.total + 1]) IN PageIs(t, all) /\ t.total = x.total + 1
            BY <2>2, <2>4, <3>1, TakeNext
        <3>3. y = Take(x, all[x.total + 1])
            BY <2>2, <3>1
        <3> QED
            BY <3>1, <3>2, <3>3 DEF y
    <2> QED
        BY <2>3, <2>4
<1> HIDE DEF T
<1>6. n \in T
    BY <1>1, <1>4, <1>5, Induction
<1>7. Fits(f[n], n)
    BY <1>1, <1>6 DEF T
<1> QED
    BY <1>3, <1>7 DEF n

\* With CR and LF among the characters, every edit keeps to them.
LEMMA EditsKeep ==
    ASSUME NEW Chars, {"CR", "LF"} \subseteq Chars, NEW Olds, EditLists \subseteq Seq(EditsOf(Chars, Olds))
    PROVE  EditsKeepIn(Chars)
<1> SUFFICES ASSUME NEW text \in Seq(Chars), NEW list \in EditLists
             PROVE  ApplyEdits(text, list).text \in Seq(Chars)
    BY DEF EditsKeepIn
<1> DEFINE crlf == Len(ToLf(text)) < Len(text)
<1>1. list \in Seq(EditsOf(Chars, Olds)) /\ Recodes(crlf, Chars)
    BY DEF Recodes
<1>2. ApplyEdits(text, list) = Sequentially(text, list, crlf)
    BY DEF ApplyEdits
<1> HIDE DEF crlf
<1>3. Sequentially(text, list, crlf) \in Outcomes(Chars)
    BY <1>1, SequentiallyIs
<1> QED
    BY <1>2, <1>3 DEF Outcomes

\* The path and the temporary files name texts, and the path is an edit's only when it is done.
NamesInv ==
    /\ FileType
    /\ path \in {NoFile, "first"} \cup Editors \cup Writers
    /\ path # NoFile => path \in DOMAIN data
    /\ \A e \in Editors : path = e => edit[e].phase = "done"
    /\ \A e \in Editors : edit[e].phase = "temp" => e \in DOMAIN data

\* Every step keeps it.
LEMMA NamesStep ==
    ASSUME NamesInv, [CallNext \/ ReadNext]_fileVars
    PROVE  NamesInv'
<1> USE DEF EditFields, WriteFields
<1>1. /\ FileType /\ path \in {NoFile, "first"} \cup Editors \cup Writers
      /\ path # NoFile => path \in DOMAIN data
      /\ \A e \in Editors : path = e => edit[e].phase = "done"
      /\ \A e \in Editors : edit[e].phase = "temp" => e \in DOMAIN data
    BY DEF NamesInv
<1>2. /\ DOMAIN edit = Editors /\ DOMAIN write = Writers
      /\ \A e \in Editors : DOMAIN edit[e] = EditFields
      /\ \A w \in Writers : DOMAIN write[w] = WriteFields
      /\ \A e \in Editors : e # NoFile /\ e # "first" /\ e \notin Writers
    BY <1>1, FileAssumption DEF FileType
<1>3. CASE UNCHANGED fileVars
    BY <1>1, <1>3 DEF fileVars, NamesInv, FileType
<1>4. CASE ReadNext
    <2>1. UNCHANGED <<path, data, edit, write>>
        BY <1>4 DEF ReadNext, OpenFile, ReadChunk, NextPage
    <2> QED
        BY <1>1, <2>1 DEF NamesInv, FileType
<1>5. ASSUME NEW e \in Editors, RefuseEdit(e) PROVE NamesInv'
    <2>1. /\ edit[e].phase = "new" /\ edit' = [edit EXCEPT ![e].phase = "failed"]
          /\ UNCHANGED <<path, data, write>>
        BY <1>5 DEF RefuseEdit
    <2>2. FileType'
        BY <1>2, <2>1 DEF FileType
    <2> QED
        BY <1>1, <1>2, <2>1, <2>2 DEF NamesInv
<1>6. ASSUME NEW e \in Editors, LockEdit(e) PROVE NamesInv'
    <2>1. PICK list \in EditLists :
            /\ edit[e].phase = "new" /\ edit' = [edit EXCEPT ![e].phase = "locked", ![e].list = list]
            /\ UNCHANGED <<path, data, write>>
        BY <1>6 DEF LockEdit
    <2>2. FileType'
        BY <1>2, <2>1 DEF FileType
    <2> QED
        BY <1>1, <1>2, <2>1, <2>2 DEF NamesInv
<1>7. ASSUME NEW e \in Editors, ReadOriginal(e) PROVE NamesInv'
    <2>1. /\ edit[e].phase = "locked"
          /\ edit' = [edit EXCEPT ![e].phase = "read", ![e].original = data[path]]
          /\ UNCHANGED <<path, data, write>>
        BY <1>7 DEF ReadOriginal
    <2>2. FileType'
        BY <1>2, <2>1 DEF FileType
    <2> QED
        BY <1>1, <1>2, <2>1, <2>2 DEF NamesInv
<1>8. ASSUME NEW e \in Editors, WriteTemp(e) PROVE NamesInv'
    <2>1. /\ edit[e].phase = "read" /\ edit' = [edit EXCEPT ![e].phase = "temp"]
          /\ DOMAIN data' = DOMAIN data \cup {e}
          /\ UNCHANGED <<path, write>>
        BY <1>8 DEF WriteTemp
    <2>2. FileType'
        BY <1>2, <2>1 DEF FileType
    <2> QED
        BY <1>1, <1>2, <2>1, <2>2 DEF NamesInv
<1>9. ASSUME NEW e \in Editors, FailEdit(e) PROVE NamesInv'
    <2>1. /\ edit[e].phase \in {"locked", "read", "temp"} /\ edit' = [edit EXCEPT ![e].phase = "failed"]
          /\ DOMAIN data' = DOMAIN data \ {e}
          /\ UNCHANGED <<path, write>>
        BY <1>9 DEF FailEdit
    <2>2. FileType'
        BY <1>2, <2>1 DEF FileType
    <2>3. path # e
        BY <1>1, <2>1
    <2> QED
        BY <1>1, <1>2, <2>1, <2>2, <2>3 DEF NamesInv
<1>10. ASSUME NEW e \in Editors, ReplaceFile(e) PROVE NamesInv'
    <2>1. /\ edit[e].phase = "temp" /\ edit' = [edit EXCEPT ![e].phase = "done"] /\ path' = e
          /\ UNCHANGED <<data, write>>
        BY <1>10 DEF ReplaceFile
    <2>2. FileType'
        BY <1>2, <2>1 DEF FileType
    <2> QED
        BY <1>1, <1>2, <2>1, <2>2 DEF NamesInv
<1>11. ASSUME NEW w \in Writers, LockWrite(w) PROVE NamesInv'
    <2>1. PICK content \in Contents :
            /\ write' = [write EXCEPT ![w].phase = "locked", ![w].content = content]
            /\ UNCHANGED <<path, data, edit>>
        BY <1>11 DEF LockWrite
    <2>2. FileType'
        BY <1>2, <2>1 DEF FileType
    <2> QED
        BY <1>1, <1>2, <2>1, <2>2 DEF NamesInv
<1>12. ASSUME NEW w \in Writers, Truncate(w) PROVE NamesInv'
    <2>1. /\ path' = (IF path = NoFile THEN w ELSE path)
          /\ DOMAIN data' = DOMAIN data \cup {path'}
          /\ write' = [write EXCEPT ![w].phase = "truncated"] /\ edit' = edit
        BY <1>12 DEF Truncate
    <2>2. FileType'
        BY <1>2, <2>1 DEF FileType
    <2> QED
        BY <1>1, <1>2, <2>1, <2>2 DEF NamesInv
<1>13. ASSUME NEW w \in Writers, WriteData(w) PROVE NamesInv'
    <2>1. PICK phase \in {"done", "failed"} : write' = [write EXCEPT ![w].phase = phase]
        BY <1>13 DEF WriteData
    <2>2. DOMAIN data' = DOMAIN data /\ UNCHANGED <<path, edit>>
        BY <1>13 DEF WriteData
    <2>3. FileType'
        BY <1>2, <2>1, <2>2 DEF FileType
    <2> QED
        BY <1>1, <1>2, <2>2, <2>3 DEF NamesInv
<1> QED
    BY <1>3, <1>4, <1>5, <1>6, <1>7, <1>8, <1>9, <1>10, <1>11, <1>12, <1>13 DEF CallNext

\* A reader that has not been written under: it has of the text what it should have of it.
Reading(p) ==
    /\ ~p.stopped /\ PageIs(p, Clipped(SplitLines(p.version)))
    /\ \E q \in 0 .. p.pos : /\ HeldIs(p.version, q, p.held, p.pos)
                             /\ p.part = Partial(p.version, q) /\ p.total = Ended(p.version, q)

\* What EveryLineOnce says of a page.
Whole(p) ==
    LET lines == Clipped(SplitLines(p.version))
    IN  /\ p.shown = Slice(lines, p.offset, p.last)
        /\ p.hint <=> p.last < Len(lines)
        /\ p.offset <= Len(lines) => p.last >= p.offset

PageInv(Chars) ==
    /\ page \in PagesOf(Chars) /\ WindowTyped
    /\ page.phase = "open" =>
          /\ page.inode # NoFile /\ page.inode \in DOMAIN data
          /\ \A e \in Editors : page.inode = e => edit[e].phase = "done"
          /\ ~page.torn => data[page.inode] = page.version /\ Reading(page)
    /\ page.phase = "shown" /\ ~page.torn => Whole(page)

\* A call tears the page it writes under, and touches no other.
LEMMA CallsKeepPage ==
    ASSUME NEW Chars, NamesInv, PageInv(Chars), CallNext
    PROVE  PageInv(Chars)'
<1> DEFINE Torn(b) == page' = [page EXCEPT !.torn = b]
<1>1. /\ page \in PagesOf(Chars) /\ page.torn \in BOOLEAN /\ WindowTyped
      /\ page.phase = "open" =>
            /\ page.inode # NoFile /\ page.inode \in DOMAIN data
            /\ \A e \in Editors : page.inode = e => edit[e].phase = "done"
            /\ ~page.torn => data[page.inode] = page.version /\ Reading(page)
      /\ page.phase = "shown" /\ ~page.torn => Whole(page)
    BY DEF PageInv, PagesOf
<1>2. SUFFICES ASSUME NEW b \in BOOLEAN, Torn(b), page.torn => b, window' = window,
                      page.phase = "open" =>
                        /\ page.inode \in DOMAIN data'
                        /\ \A e \in Editors : page.inode = e => edit'[e].phase = "done"
                        /\ ~b => data'[page.inode] = data[page.inode]
               PROVE  PageInv(Chars)'
    <2> DEFINE Goal(b) == /\ b \in BOOLEAN /\ Torn(b) /\ (page.torn => b) /\ window' = window
                          /\ page.phase = "open" =>
                                /\ page.inode \in DOMAIN data'
                                /\ \A e \in Editors : page.inode = e => edit'[e].phase = "done"
                                /\ ~b => data'[page.inode] = data[page.inode]
    <2>1. Torn(page.torn) <=> page' = page
        BY <1>1 DEF PagesOf
    <2> USE DEF EditFields
    <2>2. DOMAIN edit = Editors /\ \A e \in Editors : DOMAIN edit[e] = EditFields
        BY DEF NamesInv, FileType
    <2>3. ASSUME NEW e \in Editors, RefuseEdit(e) \/ LockEdit(e) \/ ReadOriginal(e) \/ ReplaceFile(e)
          PROVE  Goal(page.torn)
        <3>1. page' = page /\ window' = window /\ data' = data
            BY <2>3 DEF RefuseEdit, LockEdit, ReadOriginal, ReplaceFile
        <3>2. /\ \A f \in Editors : f # e => edit'[f] = edit[f]
              /\ edit'[e].phase = "done" \/ edit[e].phase # "done"
            BY <2>2, <2>3 DEF RefuseEdit, LockEdit, ReadOriginal, ReplaceFile
        <3> QED
            BY <1>1, <2>1, <3>1, <3>2
    <2>4. ASSUME NEW e \in Editors, WriteTemp(e) \/ FailEdit(e)
          PROVE  Goal(page.torn)
        <3>1. page' = page /\ window' = window
            BY <2>4 DEF WriteTemp, FailEdit
        <3>2. edit[e].phase # "done" /\ \A f \in Editors : f # e => edit'[f] = edit[f]
            BY <2>2, <2>4 DEF WriteTemp, FailEdit
        <3>3. \A i \in DOMAIN data : i # e => i \in DOMAIN data' /\ data'[i] = data[i]
            BY <2>4 DEF WriteTemp, FailEdit
        <3>4. page.phase = "open" => page.inode # e
            BY <1>1, <3>2
        <3> QED
            BY <1>1, <2>1, <3>1, <3>2, <3>3, <3>4
    <2>5. ASSUME NEW w \in Writers, LockWrite(w) PROVE Goal(page.torn)
        <3>1. page' = page /\ window' = window /\ data' = data /\ edit' = edit
            BY <2>5 DEF LockWrite
        <3> QED
            BY <1>1, <2>1, <3>1
    <2>6. ASSUME NEW w \in Writers, Truncate(w) PROVE Goal(page.torn \/ page.inode = path')
        <3>1. /\ page' = [page EXCEPT !.torn = page.torn \/ page.inode = path'] /\ window' = window /\ edit' = edit
              /\ data' = [i \in DOMAIN data \cup {path'} |-> IF i = path' THEN <<>> ELSE data[i]]
            BY <2>6 DEF Truncate
        <3> QED
            BY <1>1, <3>1
    <2>7. ASSUME NEW w \in Writers, WriteData(w) PROVE Goal(page.torn \/ page.inode = path)
        <3>1. PICK text : data' = [data EXCEPT ![path] = text]
            BY <2>7 DEF WriteData
        <3>2. /\ page' = [page EXCEPT !.torn = page.torn \/ page.inode = path] /\ window' = window /\ edit' = edit
            BY <2>7 DEF WriteData
        <3> QED
            BY <1>1, <3>1, <3>2
    <2> HIDE DEF Goal
    <2>8. \E b \in BOOLEAN : Goal(b)
        <3>1. \A b : Goal(b) => b \in BOOLEAN
            BY DEF Goal
        <3> QED
            BY <2>3, <2>4, <2>5, <2>6, <2>7, <3>1 DEF CallNext
    <2> QED
        BY <2>8, <1>2 DEF Goal
<1>3. /\ page' \in PagesOf(Chars) /\ page'.torn = b
      /\ page'.phase = page.phase /\ page'.inode = page.inode /\ page'.version = page.version
      /\ page'.pos = page.pos /\ page'.held = page.held /\ page'.part = page.part
      /\ page'.offset = page.offset /\ page'.total = page.total /\ page'.shown = page.shown
      /\ page'.last = page.last /\ page'.full = page.full /\ page'.stopped = page.stopped
      /\ page'.hint = page.hint
    BY <1>1, <1>2 DEF PagesOf
<1>4. WindowTyped' /\ Limit' = Limit
    BY <1>1, <1>2 DEF WindowTyped, Limit
<1>5. Reading(page) => Reading(page)'
    BY <1>3, <1>4 DEF Reading, PageIs
<1>6. Whole(page) => Whole(page)'
    BY <1>3 DEF Whole
<1> QED
    BY <1>1, <1>2, <1>3, <1>4, <1>5, <1>6 DEF PageInv

\* The records a reader starts with.
LEMMA StartTyped ==
    ASSUME NEW Chars
    PROVE  /\ Start \in PagesOf(Chars)
           /\ \A inode \in {NoFile, "first"} \cup Editors \cup Writers, V \in Seq(Chars), o \in Nat \ {0} :
                 [Start EXCEPT !.phase = "open", !.inode = inode, !.version = V,
                               !.offset = o, !.last = o - 1] \in PagesOf(Chars)
           /\ \A o \in Nat \ {0} : [Start EXCEPT !.offset = o] \in PagesOf(Chars)
           /\ [Start EXCEPT !.phase = "end"] \in PagesOf(Chars)
<1>1. Blank \in LinesOf(Chars) /\ <<>> \in Seq(Chars) /\ <<>> \in Seq(LinesOf(Chars))
    BY BlankIs
<1> HIDE DEF Blank
<1>2. Start \in PagesOf(Chars)
    BY <1>1 DEF Start, PagesOf
<1>3. ASSUME NEW inode \in {NoFile, "first"} \cup Editors \cup Writers, NEW V \in Seq(Chars), NEW o \in Nat \ {0}
      PROVE  [Start EXCEPT !.phase = "open", !.inode = inode, !.version = V,
                           !.offset = o, !.last = o - 1] \in PagesOf(Chars)
    <2>1. o - 1 \in Nat
        OBVIOUS
    <2> QED
        BY <1>2, <2>1 DEF PagesOf
<1>4. ASSUME NEW o \in Nat \ {0} PROVE [Start EXCEPT !.offset = o] \in PagesOf(Chars)
    BY <1>2 DEF PagesOf
<1>5. [Start EXCEPT !.phase = "end"] \in PagesOf(Chars)
    BY <1>2 DEF PagesOf
<1> QED
    BY <1>2, <1>3, <1>4, <1>5

\* A reader that has just opened its file is before the first line.
LEMMA OpenKeeps ==
    ASSUME NEW Chars, NamesInv, TextsInv(Chars), PageInv(Chars), OpenFile
    PROVE  PageInv(Chars)'
<1>1. /\ page \in PagesOf(Chars) /\ page.offset \in Nat \ {0} /\ WindowTyped
    BY DEF PageInv, PagesOf
<1>2. UNCHANGED <<data, edit, window>> /\ WindowTyped'
    BY <1>1 DEF OpenFile, WindowTyped
<1>3. CASE path = NoFile
    <2>1. page' = [page EXCEPT !.phase = "end"]
        BY <1>3 DEF OpenFile
    <2>2. page' \in PagesOf(Chars) /\ page'.phase = "end"
        BY <1>1, <2>1 DEF PagesOf
    <2> QED
        BY <1>2, <2>2 DEF PageInv
<1>4. CASE path # NoFile
    <2> DEFINE V == data[path]
               all == Clipped(SplitLines(V))
    <2>1. page' = [Start EXCEPT !.phase = "open", !.inode = path, !.version = V,
                                !.offset = page.offset, !.last = page.offset - 1]
        BY <1>4 DEF OpenFile
    <2>2. /\ path \in DOMAIN data /\ V \in Seq(Chars) /\ path \in {NoFile, "first"} \cup Editors \cup Writers
          /\ \A e \in Editors : path = e => edit[e].phase = "done"
        BY <1>4 DEF NamesInv, TextsInv
    <2> HIDE DEF V
    <2>3. page' \in PagesOf(Chars)
        BY <1>1, <2>1, <2>2, StartTyped
    <2>4. /\ page'.phase = "open" /\ page'.inode = path /\ page'.version = V /\ page'.pos = 0
          /\ page'.held = <<>> /\ page'.part = Blank /\ page'.offset = page.offset /\ page'.total = 0
          /\ page'.shown = <<>> /\ page'.last = page.offset - 1 /\ ~page'.full /\ ~page'.stopped
        BY <2>1 DEF Start
    <2>5. PageIs(page, Clipped(SplitLines(page.version)))'
        <3>1. Len(all) \in Nat
            BY <2>2, LinesAre
        <3>2. Clipped(SplitLines(page'.version)) = all
            BY <2>4
        <3> HIDE DEF all
        <3> QED
            BY <1>1, <2>4, <3>1, <3>2 DEF PageIs
    <2>6. Ended(V, 0) = 0 /\ HeldIs(V, 0, <<>>, 0) /\ Partial(V, 0) = Blank
        <3>1. Len(V) \in Nat /\ SubSeq(V, 1, 0) = <<>>
            BY <2>2, SubSeqEmpty
        <3>2. Ended(V, 0) = 0
            BY InOrderNext DEF Ended
        <3>3. StartOf(V, 0 + 1) = 1
            BY DEF StartOf, LineStart
        <3>4. Partial(V, 0) = Extend(Blank, <<>>)
            BY <3>1, <3>2, <3>3 DEF Partial
        <3>5. Extend(Blank, <<>>) = Blank
            BY BlankIs, <<>> \in Seq(Chars)
        <3>6. HeldIs(V, 0, <<>>, 0)
            BY <3>1 DEF HeldIs, Settled
        <3> QED
            BY <3>2, <3>4, <3>5, <3>6
    <2>7. Reading(page)'
        BY <2>4, <2>5, <2>6 DEF Reading
    <2> QED
        BY <1>2, <1>4, <2>2, <2>3, <2>4, <2>7 DEF PageInv, V
<1> QED
    BY <1>3, <1>4

\* The next page starts where its reader says.
LEMMA NextKeeps ==
    ASSUME NEW Chars, PageInv(Chars), NextPage
    PROVE  PageInv(Chars)'
<1>1. page \in PagesOf(Chars) /\ page.last \in Nat /\ WindowTyped
    BY DEF PageInv, PagesOf
<1>2. window' = window /\ WindowTyped'
    BY <1>1 DEF NextPage, WindowTyped
<1>3. page' \in PagesOf(Chars) /\ page'.phase \in {"closed", "end"}
    <2>1. CASE page.hint
        <3>1. page' = [Start EXCEPT !.offset = page.last + 1] /\ page.last + 1 \in Nat \ {0}
            BY <1>1, <2>1 DEF NextPage
        <3>2. page'.phase = "closed"
            BY <3>1 DEF Start
        <3>3. page' \in PagesOf(Chars)
            BY <3>1, StartTyped
        <3> QED
            BY <3>2, <3>3
    <2>2. CASE ~page.hint
        <3>1. page' = [Start EXCEPT !.phase = "end"]
            BY <2>2 DEF NextPage
        <3>2. page'.phase = "end"
            BY <3>1 DEF Start
        <3>3. page' \in PagesOf(Chars)
            BY <3>1, StartTyped
        <3> QED
            BY <3>2, <3>3
    <2> QED
        BY <2>1, <2>2
<1> QED
    BY <1>2, <1>3 DEF PageInv

\* A page that is ended has the lines from its offset on.
LEMMA EndsWhole ==
    ASSUME NEW Chars, NEW V \in Seq(Chars), NEW p \in PagesOf(Chars), PageIs(p, Clipped(SplitLines(V))),
           p.stopped \/ p.total = Len(Clipped(SplitLines(V)))
    PROVE  LET lines == Clipped(SplitLines(V))
           IN  /\ p.shown = Slice(lines, p.offset, p.last)
               /\ (p.offset <= p.total /\ p.last < p.total) <=> p.last < Len(lines)
               /\ p.offset <= Len(lines) => p.last >= p.offset
<1> DEFINE lines == Clipped(SplitLines(V))
<1>1. Len(lines) \in Nat /\ p.total \in Nat /\ p.last \in Nat /\ p.offset \in Nat \ {0}
    BY LinesAre DEF PagesOf
<1>2. /\ p.total <= Len(lines)
      /\ p.total < p.offset => p.last = p.offset - 1 /\ p.shown = <<>> /\ ~p.full /\ ~p.stopped
      /\ p.total >= p.offset =>
            /\ p.last \in p.offset .. p.total /\ p.shown = SubSeq(lines, p.offset, p.last)
            /\ p.stopped => p.last < p.total
      /\ p.stopped \/ p.total = Len(lines)
    BY DEF PageIs
<1> HIDE DEF lines
<1>3. CASE p.total < p.offset
    <2>1. p.total = Len(lines) /\ p.last = p.offset - 1 /\ p.shown = <<>>
        BY <1>2, <1>3
    <2>2. ~(p.last < Len(lines)) /\ Len(lines) < p.offset
        BY <1>1, <1>3, <2>1
    <2>3. SubSeq(lines, p.offset, Len(lines)) = <<>>
        BY <1>1, <2>2, SubSeqEmpty
    <2> QED
        BY <1>1, <1>3, <2>1, <2>2, <2>3 DEF Slice, lines
<1>4. CASE p.total >= p.offset
    <2>1. p.last >= p.offset /\ p.last <= p.total /\ p.shown = SubSeq(lines, p.offset, p.last)
        BY <1>1, <1>2, <1>4
    <2>2. (p.offset <= p.total /\ p.last < p.total) <=> p.last < Len(lines)
        BY <1>1, <1>2, <1>4
    <2>3. (IF p.last < Len(lines) THEN p.last ELSE Len(lines)) = p.last
        BY <1>1, <1>2, <2>1
    <2> QED
        BY <2>1, <2>2, <2>3 DEF Slice, lines
<1> QED
    BY <1>1, <1>3, <1>4

\* Each chunk takes the reader on, or ends its page.
LEMMA ReadKeeps ==
    ASSUME NEW Chars, "CR" \in Chars, TextsInv(Chars), PageInv(Chars), ReadChunk
    PROVE  PageInv(Chars)'
<1> DEFINE text == data[page.inode]
           r == IF page.pos + ChunkSize < Len(text) THEN page.pos + ChunkSize ELSE Len(text)
           chunk == Slice(text, page.pos + 1, page.pos + ChunkSize)
           got == Chunk(page.part, page.held, chunk)
           p == TakeAll(page, got.lines)
           ends == chunk = <<>> \/ p.stopped
           hint == ends /\ p.offset <= p.total /\ p.last < p.total
           phase == IF ends THEN "shown" ELSE "open"
           pos == p.pos + Len(chunk)
<1>1. /\ page \in PagesOf(Chars) /\ page.pos \in Nat /\ page.held \in Seq(Chars) /\ page.part \in LinesOf(Chars)
      /\ WindowTyped /\ page.phase = "open"
      /\ page.inode # NoFile /\ page.inode \in DOMAIN data /\ text \in Seq(Chars) /\ Len(text) \in Nat
      /\ \A e \in Editors : page.inode = e => edit[e].phase = "done"
      /\ ~page.torn => text = page.version /\ Reading(page)
    BY DEF PageInv, PagesOf, ReadChunk, TextsInv
<1>2. chunk = SubSeq(text, page.pos + 1, r)
    BY DEF Slice
<1>3. /\ page' = [p EXCEPT !.pos = @ + Len(chunk), !.part = got.part, !.held = got.held,
                           !.phase = IF ends THEN "shown" ELSE "open",
                           !.hint = ends /\ p.offset <= p.total /\ p.last < p.total]
      /\ UNCHANGED <<data, edit, window>>
    BY DEF ReadChunk
<1> HIDE DEF text, got, p
<1>4. r \in Nat /\ r <= Len(text) /\ page.pos + ChunkSize \in Nat
    BY <1>1, FileAssumption
<1> HIDE DEF r, chunk
<1>5. chunk \in Seq(Chars) /\ Len(chunk) \in Nat
    <2>1. page.pos + 1 \in Nat \ {0} /\ r \in Int
        BY <1>1, <1>4
    <2> QED
        BY <1>1, <1>2, <1>4, <2>1, PartIs
<1>6. got.lines \in Seq(LinesOf(Chars)) /\ got.part \in LinesOf(Chars) /\ got.held \in Seq(Chars)
    BY <1>1, <1>5, ChunkTyped DEF got
<1>7. p \in PagesOf(Chars) /\ Kept(page, p)
    BY <1>1, <1>6, TakeAllIs DEF p
<1>8. pos \in Nat /\ hint \in BOOLEAN /\ phase \in {"closed", "open", "shown", "end"}
    BY <1>5, <1>7 DEF PagesOf
<1>9. page' = [p EXCEPT !.pos = pos, !.part = got.part, !.held = got.held, !.phase = phase, !.hint = hint]
    BY <1>3
<1> HIDE DEF pos, hint, phase
<1>10. /\ page' \in PagesOf(Chars)
       /\ page'.pos = pos /\ page'.part = got.part /\ page'.held = got.held /\ page'.phase = phase
       /\ page'.hint = hint /\ page'.inode = p.inode /\ page'.torn = p.torn /\ page'.version = p.version
       /\ page'.offset = p.offset /\ page'.total = p.total /\ page'.shown = p.shown /\ page'.last = p.last
       /\ page'.full = p.full /\ page'.stopped = p.stopped
    BY <1>6, <1>7, <1>8, <1>9 DEF PagesOf
<1>11. /\ page'.inode = page.inode /\ page'.torn = page.torn /\ page'.version = page.version
       /\ page'.offset = page.offset /\ pos = page.pos + Len(chunk)
    BY <1>7, <1>10 DEF Kept, pos
<1>12. WindowTyped' /\ Limit' = Limit
    BY <1>1, <1>3 DEF WindowTyped, Limit
<1>13. ASSUME ~page.torn PROVE (phase = "open" => Reading(page)') /\ (phase = "shown" => Whole(page)')
    <2> DEFINE V == page.version
               all == Clipped(SplitLines(V))
    <2>1. text = V /\ ~page.stopped /\ PageIs(page, all) /\ V \in Seq(Chars)
        BY <1>1, <1>13 DEF Reading
    <2>2. PICK q \in 0 .. page.pos : /\ HeldIs(V, q, page.held, page.pos)
                                     /\ page.part = Partial(V, q) /\ page.total = Ended(V, q)
        BY <1>1, <1>13 DEF Reading
    <2> HIDE DEF V
    <2>3. r \in page.pos .. Len(V) /\ (r = page.pos => page.pos = Len(V)) /\ Len(chunk) = r - page.pos
        <3>1. page.pos <= Len(V)
            BY <2>2 DEF HeldIs
        <3>2. r \in page.pos .. Len(V) /\ (r = page.pos => page.pos = Len(V))
            BY <1>1, <1>4, <2>1, <3>1, FileAssumption DEF r
        <3>3. page.pos + 1 \in Nat \ {0} /\ r \in Int
            BY <1>1, <1>4
        <3>4. Len(chunk) = IF page.pos + 1 <= r THEN r - (page.pos + 1) + 1 ELSE 0
            BY <1>1, <1>2, <1>4, <3>3, PartIs
        <3> QED
            BY <1>1, <3>2, <3>4
    <2>4. /\ chunk = <<>> <=> r = page.pos
          /\ page.total + Len(got.lines) <= Len(all)
          /\ \A k \in 1 .. Len(got.lines) : got.lines[k] = all[page.total + k]
          /\ r = page.pos => page.total + Len(got.lines) = Len(all)
          /\ r # page.pos => \E q1 \in 0 .. r : /\ HeldIs(V, q1, got.held, r) /\ got.part = Partial(V, q1)
                                               /\ Ended(V, q1) = page.total + Len(got.lines)
        <3> DEFINE held == page.held
                   o == page.pos
        <3>1. HeldIs(V, q, held, o) /\ r \in o .. Len(V) /\ (r = o => o = Len(V))
            BY <2>2, <2>3
        <3> HIDE DEF held, o
        <3>2. LET chunk1 == SubSeq(V, o + 1, r)
                  got1 == Chunk(Partial(V, q), held, chunk1)
                  all1 == Clipped(SplitLines(V))
                  c == Ended(V, q)
              IN  /\ chunk1 = <<>> <=> r = o
                  /\ c + Len(got1.lines) <= Len(all1)
                  /\ \A k \in 1 .. Len(got1.lines) : got1.lines[k] = all1[c + k]
                  /\ r = o => c + Len(got1.lines) = Len(all1)
                  /\ r # o => \E q1 \in 0 .. r : /\ HeldIs(V, q1, got1.held, r) /\ got1.part = Partial(V, q1)
                                                /\ Ended(V, q1) = c + Len(got1.lines)
            BY <2>1, <3>1, ChunkIs
        <3>3. chunk = SubSeq(V, page.pos + 1, r) /\ got = Chunk(Partial(V, q), page.held, chunk)
            BY <1>2, <2>1, <2>2 DEF got
        <3> HIDE DEF all
        <3> QED
            BY <2>2, <3>2, <3>3 DEF all, held, o
    <2>5. all \in Seq(LinesOf(Chars))
        BY <2>1, LinesAre
    <2> HIDE DEF all
    <2>6. PageIs(p, all) /\ (p.stopped \/ p.total = page.total + Len(got.lines))
        BY <1>1, <1>6, <2>1, <2>4, <2>5, TakeAllNext DEF p
    <2>7. phase = "open" => Reading(page)'
        <3> SUFFICES ASSUME phase = "open" PROVE Reading(page)'
            OBVIOUS
        <3>1. ~ends
            BY DEF phase
        <3>2. r # page.pos /\ ~p.stopped /\ pos = r
            BY <1>1, <1>4, <1>11, <2>3, <2>4, <3>1
        <3>3. PageIs(page, Clipped(SplitLines(page.version)))'
            <4>1. Clipped(SplitLines(page'.version)) = all
                BY <1>11 DEF all, V
            <4> QED
                BY <1>10, <1>12, <2>6, <4>1 DEF PageIs
        <3>4. PICK q1 \in 0 .. r : /\ HeldIs(V, q1, got.held, r) /\ got.part = Partial(V, q1)
                                  /\ Ended(V, q1) = page.total + Len(got.lines)
            BY <2>4, <3>2
        <3> QED
            BY <1>10, <1>11, <2>6, <3>2, <3>3, <3>4 DEF Reading, V, all
    <2>8. phase = "shown" => Whole(page)'
        <3> SUFFICES ASSUME phase = "shown" PROVE Whole(page)'
            OBVIOUS
        <3>1. ends
            BY DEF phase
        <3>2. p.stopped \/ p.total = Len(all)
            BY <2>4, <2>6, <3>1
        <3>3. LET lines == Clipped(SplitLines(V))
              IN  /\ p.shown = Slice(lines, p.offset, p.last)
                  /\ (p.offset <= p.total /\ p.last < p.total) <=> p.last < Len(lines)
                  /\ p.offset <= Len(lines) => p.last >= p.offset
            BY <1>7, <2>1, <2>6, <3>2, EndsWhole DEF all
        <3>4. hint <=> p.offset <= p.total /\ p.last < p.total
            BY <3>1 DEF hint
        <3> QED
            BY <1>10, <1>11, <3>3, <3>4 DEF Whole, V
    <2> QED
        BY <2>7, <2>8
<1> QED
    BY <1>1, <1>3, <1>10, <1>11, <1>12, <1>13 DEF PageInv, phase, text

\* Every step keeps what a reader has.
LEMMA PageStep ==
    ASSUME NEW Chars, "CR" \in Chars, NamesInv, TextsInv(Chars), PageInv(Chars),
           [CallNext \/ ReadNext]_fileVars
    PROVE  PageInv(Chars)'
<1>1. CASE CallNext
    BY <1>1, CallsKeepPage
<1>2. CASE ReadNext
    BY <1>2, OpenKeeps, ReadKeeps, NextKeeps DEF ReadNext
<1>3. CASE UNCHANGED fileVars
    <2>1. UNCHANGED <<page, data, edit, window>>
        BY <1>3 DEF fileVars
    <2>2. WindowTyped => WindowTyped' /\ Limit' = Limit
        BY <2>1 DEF WindowTyped, Limit
    <2>3. Reading(page) => Reading(page)'
        BY <2>1 DEF Reading, PageIs, Limit
    <2>4. Whole(page) => Whole(page)'
        BY <2>1 DEF Whole
    <2> QED
        BY <2>1, <2>2, <2>3, <2>4 DEF PageInv
<1> QED
    BY <1>1, <1>2, <1>3

\* A page is the lines of the file as it was opened, whatever its size, its breaks, the chunks it
\* is read in and the calls made meanwhile: each line once, from the offset on, a line shown if
\* there is one, and the note gives the first line not shown (_read, iter_lines and _extend).
THEOREM PagesAreWhole ==
    ASSUME NEW Chars, {"CR", "LF"} \subseteq Chars, NEW Olds, NEW texts \in SUBSET Seq(Chars),
           NEW windows, \A w \in windows : w.limit \in Int /\ w.counts \in BOOLEAN /\ w.numbered \in BOOLEAN,
           Contents \subseteq Seq(Chars), EditLists \subseteq Seq(EditsOf(Chars, Olds))
    PROVE  FileInit(texts, windows) /\ [][CallNext \/ ReadNext]_fileVars => []EveryLineOnce
<1>1. FileInit(texts, windows) => NamesInv /\ TextsInv(Chars) /\ PageInv(Chars)
    <2> SUFFICES ASSUME FileInit(texts, windows) PROVE NamesInv /\ TextsInv(Chars) /\ PageInv(Chars)
        OBVIOUS
    <2>1. /\ data \in [{"first"} -> texts] /\ path \in {"first", NoFile} /\ page = Start /\ window \in windows
          /\ edit = [e \in Editors |-> [phase |-> "new", list |-> <<>>, original |-> <<>>]]
          /\ write = [w \in Writers |-> [phase |-> "new", content |-> <<>>]]
        BY DEF FileInit
    <2>2. FileType
        BY <2>1 DEF FileType, EditFields, WriteFields
    <2>3. NamesInv
        BY <2>1, <2>2, FileAssumption DEF NamesInv
    <2>4. TextsInv(Chars)
        BY <2>1 DEF TextsInv
    <2>5. PageInv(Chars)
        <3>1. page \in PagesOf(Chars)
            BY <2>1, StartTyped
        <3>2. page.phase = "closed"
            BY <2>1 DEF Start
        <3>3. WindowTyped
            BY <2>1 DEF WindowTyped
        <3> QED
            BY <3>1, <3>2, <3>3 DEF PageInv
    <2> QED
        BY <2>3, <2>4, <2>5
<1>2. NamesInv /\ TextsInv(Chars) /\ PageInv(Chars) /\ [CallNext \/ ReadNext]_fileVars
        => NamesInv' /\ TextsInv(Chars)' /\ PageInv(Chars)'
    <2> SUFFICES ASSUME NamesInv, TextsInv(Chars), PageInv(Chars), [CallNext \/ ReadNext]_fileVars
                 PROVE  NamesInv' /\ TextsInv(Chars)' /\ PageInv(Chars)'
        OBVIOUS
    <2>1. FileType /\ (path # NoFile => path \in DOMAIN data)
        BY DEF NamesInv
    <2>2. TextsInv(Chars)'
        BY <2>1, EditsKeep, TextsStep
    <2>3. NamesInv' /\ PageInv(Chars)'
        BY NamesStep, PageStep
    <2> QED
        BY <2>2, <2>3
<1>3. PageInv(Chars) => EveryLineOnce
    BY DEF PageInv, Whole, EveryLineOnce
<1>4. QED
    BY <1>1, <1>2, <1>3, PTL
=============================================================================
