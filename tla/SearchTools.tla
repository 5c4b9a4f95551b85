---------------------------- MODULE SearchTools ----------------------------
(***************************************************************************)
(* grep, grep with files_only, and glob: a walk over the entries below a   *)
(* directory in sorted order, one step per entry.  An entry is its kind,   *)
(* its number of lines, which of them match, and whether its name does.    *)
(* Lines are taken to be of equal length, so that the cap on the output is *)
(* a number of lines.                                                      *)
(***************************************************************************)
EXTENDS TextLines

CONSTANTS
    Entries,        \* number of entries below the directory
    MaxLines,       \* bound: lines of a file
    Modes,          \* "grep", "files" and "glob"
    ContextLines, Limits,   \* values of context and of max_results
    MaxOutput       \* _MAX_OUTPUT

ASSUME SearchAssumption ==
    /\ Entries \in Nat /\ MaxLines \in Nat /\ MaxOutput \in Nat
    /\ Modes \subseteq {"grep", "files", "glob"}
    /\ ContextLines \subseteq Nat /\ Limits \subseteq Nat \ {0}

VARIABLES
    tree, query,    \* what is searched, and how
    visited,        \* entries visited
    out, hits,      \* output so far and matches in it
    capped, footer, searching

searchVars == <<tree, query, visited, out, hits, capped, footer, searching>>

(* A text file, or another entry that a naive walk would have reported. *)
Files ==
    LET odd == {"link", "strayLink", "special", "junk", "binary", "unnamed"}
    IN  (UNION {[kind : {"text"}, lines : {n}, matched : SUBSET (1..n)] : n \in 0..MaxLines})
            \cup [kind : odd, lines : {1}, matched : {{1}}]

Queries == [mode : Modes, context : ContextLines, limit : Limits]

SearchInit(files, queries) ==
    /\ tree \in [1..Entries -> files] /\ query \in queries
    /\ visited = 0 /\ out = <<>> /\ hits = 0
    /\ capped = FALSE /\ footer = "none" /\ searching = TRUE

(* _walk: links are followed to files inside the root only, directories of *)
(* SKIPPED_DIRS and special files are passed over.                         *)
Walked(entry) == entry.kind \in {"text", "link", "binary", "unnamed"}

(* _files: the walk, less what the name filter leaves out. *)
Wanted(entry) == Walked(entry) /\ entry.kind # "unnamed"

(* _text_lines *)
Readable(entry) == entry.kind # "binary"

Gap == [file |-> 0, n |-> 0, hit |-> FALSE]

(* _render; line numbers from 1, last = 0 before the first. *)
Render(file, matched, separate) ==
    LET context == query.context
        Group(k, done) ==
            LET low == Max({matched[k] - context, done.last + 1})
                high == Min({matched[k] + context, tree[file].lines})
                gap == context > 0 /\ (done.out # <<>> \/ separate) /\ low > done.last + 1
            IN  [last |-> high,
                 out |-> done.out \o (IF gap THEN <<Gap>> ELSE <<>>)
                    \o [i \in 1..(high - low + 1) |->
                            [file |-> file, n |-> low + i - 1,
                             hit |-> \E j \in DOMAIN matched : matched[j] = low + i - 1]]]
        after[k \in 0..Len(matched)] ==
            IF k = 0 THEN [last |-> 0, out |-> <<>>] ELSE Group(k, after[k - 1])
    IN  after[Len(matched)].out

(* Grep._search, one file of the walk. *)
Mutant_GrepFile ==
    /\ searching /\ query.mode # "glob" /\ visited < Entries
    /\ visited' = visited + 1
    /\ LET entry == tree[visited + 1]
           matched == InOrder(entry.matched, entry.lines)
           room == query.limit - hits
           taken == SubSeq(matched, 1, Min({room, Len(matched)}))
           count == IF query.mode = "files" THEN 1 ELSE Len(taken)
       IN  IF Wanted(entry) /\ Readable(entry) /\ matched # <<>>
           THEN /\ out' = out \o (IF query.mode = "files" THEN <<[Gap EXCEPT !.file = visited + 1]>>
                                  ELSE Render(visited + 1, taken, out # <<>>))
                /\ hits' = hits + count
                /\ capped' = (capped \/ count < Len(matched))
                /\ searching' = (hits + count < query.limit)
           ELSE UNCHANGED <<out, hits, capped, searching>>
    /\ UNCHANGED <<tree, query, footer>>

GrepFile ==
    /\ searching /\ query.mode # "glob" /\ visited < Entries
    /\ visited' = visited + 1
    /\ LET entry == tree[visited + 1]
           matched == InOrder(entry.matched, entry.lines)
           room == query.limit - hits
           taken == SubSeq(matched, 1, Min({room, Len(matched)}))
           count == IF query.mode = "files" THEN 1 ELSE Len(taken)
       IN  IF Wanted(entry) /\ Readable(entry) /\ matched # <<>>
           THEN /\ out' = out \o (IF query.mode = "files" THEN <<[Gap EXCEPT !.file = visited + 1]>>
                                  ELSE Render(visited + 1, taken, out # <<>>))
                /\ hits' = hits + count
                /\ capped' = (hits + count >= query.limit)
                /\ searching' = ~capped'
           ELSE UNCHANGED <<out, hits, capped, searching>>
    /\ UNCHANGED <<tree, query, footer>>

(* Glob.run, one file of the walk: one more than the limit is looked for. *)
GlobFile ==
    /\ searching /\ query.mode = "glob" /\ visited < Entries
    /\ visited' = visited + 1
    /\ IF Wanted(tree[visited + 1])
       THEN IF hits + 1 > query.limit
            THEN /\ capped' = TRUE /\ searching' = FALSE
                 /\ UNCHANGED <<out, hits>>
            ELSE /\ out' = Append(out, [Gap EXCEPT !.file = visited + 1])
                 /\ hits' = hits + 1
                 /\ UNCHANGED <<capped, searching>>
       ELSE UNCHANGED <<out, hits, capped, searching>>
    /\ UNCHANGED <<tree, query, footer>>

(* _clip, once the walk is over or cut short. *)
Clip ==
    /\ (visited = Entries \/ ~searching) /\ footer = "none"
    /\ searching' = FALSE
    /\ IF Len(out) > MaxOutput
       THEN out' = SubSeq(out, 1, MaxOutput) /\ footer' = "truncated"
       ELSE out' = out /\ footer' = IF capped THEN "stopped" ELSE "complete"
    /\ UNCHANGED <<tree, query, visited, hits, capped>>

SearchNext == GrepFile \/ GlobFile \/ Clip

-----------------------------------------------------------------------------
(* The lines of f that there are to find, 0 for f itself, ... *)
FoundIn(f) ==
    IF ~Wanted(tree[f]) THEN {}
    ELSE IF query.mode = "glob" THEN {0}
    ELSE IF ~Readable(tree[f]) \/ tree[f].matched = {} THEN {}
    ELSE IF query.mode = "files" THEN {0}
    ELSE tree[f].matched

(* ... all there is, and what of it is shown. *)
Findings == UNION {{<<f, n>> : n \in FoundIn(f)} : f \in 1..Entries}

LineAt(k) == <<out[k].file, out[k].n>>

Precedes(a, b) == a[1] < b[1] \/ (a[1] = b[1] /\ a[2] < b[2])

Answers ==
    {LineAt(k) : k \in {k \in DOMAIN out : out[k] # Gap /\ (out[k].hit \/ query.mode # "grep")}}

(* A finished search shows the first findings, in order and no line twice; *)
(* lines of a file that do not follow each other are kept apart when there *)
(* is context; and an answer that leaves a finding out says so.            *)
SearchHonest ==
    footer # "none" =>
        /\ Answers \subseteq Findings
        /\ \A a \in Answers, b \in Findings : Precedes(b, a) => b \in Answers
        /\ \A j, k \in DOMAIN out :
                j < k /\ out[j] # Gap /\ out[k] # Gap => Precedes(LineAt(j), LineAt(k))
        /\ \A k \in 2..Len(out) :
                out[k - 1].file = out[k].file /\ query.context > 0 /\ out[k] # Gap
                    => out[k].n = out[k - 1].n + 1
        /\ footer = "complete" => Answers = Findings
=============================================================================
