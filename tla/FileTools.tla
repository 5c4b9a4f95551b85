----------------------------- MODULE FileTools -----------------------------
(***************************************************************************)
(* read_file, write_file and edit_file on one path, called at once by the  *)
(* tool calls of a response.  The path names an inode; an edit replaces it *)
(* by another, a write changes it in place, and a read keeps the one it    *)
(* opened and reads it in chunks without the lock.  A reader follows the   *)
(* offsets that the tool's notes give it.                                  *)
(***************************************************************************)
EXTENDS TextLines

CONSTANTS
    Editors, Writers,       \* calls of edit_file and of write_file
    EditLists, Contents,    \* their arguments
    NoFile, NoOne,
    ChunkSize,              \* _CHUNK
    MaxReadChars,           \* _MAX_READ_CHARS
    DefaultLimit,           \* _DEFAULT_LINE_LIMIT
    CutNote, Prefix         \* lengths of the note on a cut line and of a line number

ASSUME FileAssumption ==
    /\ Editors \cap Writers = {} /\ NoOne \notin Editors \cup Writers
    /\ NoFile \notin Editors \cup Writers \cup {"first"} /\ "first" \notin Editors \cup Writers
    /\ ChunkSize \in Nat \ {0} /\ DefaultLimit \in Nat \ {0}
    /\ MaxReadChars \in Nat /\ CutNote \in Nat /\ Prefix \in Nat

VARIABLES
    path,           \* the inode the path names, or NoFile
    data,           \* the text of each inode
    lock,           \* the call that holds the path's write lock
    edit, write,    \* the calls
    page,           \* the read under way
    window,         \* its arguments, and whether the file is small enough to count
    expected        \* history: the text the finished calls should have left

fileVars == <<path, data, lock, edit, write, page, window, expected>>

Start == [phase |-> "closed", inode |-> NoFile, pos |-> 0, held |-> <<>>, part |-> Blank,
          offset |-> 1, total |-> 0, shown |-> <<>>, size |-> 0, last |-> 0,
          full |-> FALSE, stopped |-> FALSE, hint |-> FALSE, version |-> <<>>, torn |-> FALSE]

(* texts: what the file may hold; windows: how it is read. *)
FileInit(texts, windows) ==
    /\ data \in [{"first"} -> texts]
    /\ path \in (IF Writers = {} THEN {"first"} ELSE {"first", NoFile})
    /\ lock = NoOne /\ expected = data["first"]
    /\ edit = [e \in Editors |-> [phase |-> "new", list |-> <<>>, original |-> <<>>]]
    /\ write = [w \in Writers |-> [phase |-> "new", content |-> <<>>]]
    /\ page = Start /\ window \in windows
-----------------------------------------------------------------------------
(* edit_file *)

(* Arguments that _edits refuses, or a path that cannot be edited. *)
RefuseEdit(e) ==
    /\ edit[e].phase = "new"
    /\ edit' = [edit EXCEPT ![e].phase = "failed"]
    /\ UNCHANGED <<path, data, lock, write, page, window, expected>>

Mutant_LockEdit(e) ==
    /\ edit[e].phase = "new"
    /\ lock' = lock
    /\ \E list \in EditLists :
        edit' = [edit EXCEPT ![e].phase = "locked", ![e].list = list]
    /\ UNCHANGED <<path, data, write, page, window, expected>>

LockEdit(e) ==
    /\ edit[e].phase = "new"
    /\ lock = NoOne /\ lock' = e
    /\ \E list \in EditLists :
        edit' = [edit EXCEPT ![e].phase = "locked", ![e].list = list]
    /\ UNCHANGED <<path, data, write, page, window, expected>>

ReadOriginal(e) ==
    /\ edit[e].phase = "locked" /\ path # NoFile
    /\ edit' = [edit EXCEPT ![e].phase = "read", ![e].original = data[path]]
    /\ UNCHANGED <<path, data, lock, write, page, window, expected>>

(* _apply, and the temporary file of _atomic_write. *)
WriteTemp(e) ==
    /\ edit[e].phase = "read"
    /\ LET updated == ApplyEdits(edit[e].original, edit[e].list)
       IN  /\ updated.ok
           /\ data' = [i \in DOMAIN data \cup {e} |-> IF i = e THEN updated.text ELSE data[i]]
    /\ edit' = [edit EXCEPT ![e].phase = "temp"]
    /\ UNCHANGED <<path, lock, write, page, window, expected>>

(* An _EditError or an OSError: the temporary file goes and the path keeps *)
(* its inode.                                                              *)
FailEdit(e) ==
    /\ \/ edit[e].phase \in {"locked", "temp"}
       \/ edit[e].phase = "read" /\ ~ApplyEdits(edit[e].original, edit[e].list).ok
    /\ edit' = [edit EXCEPT ![e].phase = "failed"]
    /\ data' = [i \in DOMAIN data \ {e} |-> data[i]]
    /\ lock' = NoOne
    /\ UNCHANGED <<path, write, page, window, expected>>

ReplaceFile(e) ==
    /\ edit[e].phase = "temp"
    /\ path' = e /\ lock' = NoOne
    /\ edit' = [edit EXCEPT ![e].phase = "done"]
    /\ expected' = AsSeen(expected, edit[e].list).text
    /\ UNCHANGED <<data, write, page, window>>
-----------------------------------------------------------------------------
(* write_file *)

LockWrite(w) ==
    /\ write[w].phase = "new"
    /\ lock = NoOne /\ lock' = w
    /\ \E content \in Contents :
        write' = [write EXCEPT ![w].phase = "locked", ![w].content = content]
    /\ UNCHANGED <<path, data, edit, page, window, expected>>

(* write_bytes: the file is created or emptied, ... *)
Truncate(w) ==
    /\ write[w].phase = "locked"
    /\ LET inode == IF path = NoFile THEN w ELSE path
       IN  /\ path' = inode
           /\ data' = [i \in DOMAIN data \cup {inode} |-> IF i = inode THEN <<>> ELSE data[i]]
           /\ page' = [page EXCEPT !.torn = @ \/ page.inode = inode]
    /\ write' = [write EXCEPT ![w].phase = "truncated"]
    /\ UNCHANGED <<lock, edit, window, expected>>

(* ... and written, whole or, when that fails, in part. *)
WriteData(w) ==
    /\ write[w].phase = "truncated"
    /\ \E n \in 0..Len(write[w].content) :
        LET text == SubSeq(write[w].content, 1, n)
        IN  /\ data' = [data EXCEPT ![path] = text]
            /\ expected' = text
            /\ write' = [write EXCEPT ![w].phase =
                            IF n = Len(write[w].content) THEN "done" ELSE "failed"]
    /\ page' = [page EXCEPT !.torn = @ \/ page.inode = path]
    /\ lock' = NoOne
    /\ UNCHANGED <<path, edit, window>>
-----------------------------------------------------------------------------
(* read_file *)

(* The lines iter_lines yields for one chunk, and what it carries over.    *)
Mutant_Chunk(part, held, chunk) ==
    LET lines == SplitLines(held \o chunk)
        whole == chunk = <<>> \/ chunk[Len(chunk)] \in {"CR", "LF"}
    IN  [lines |-> Clipped(IF whole \/ lines = <<>> THEN lines ELSE Front(lines)),
         part |-> Blank,
         held |-> IF whole \/ lines = <<>> THEN <<>> ELSE Last(lines)]

Chunk(part, held, chunk) ==
    LET buf == held \o chunk
        waits == {b \in {Len(buf)} : chunk # <<>> /\ buf[b] = "CR"}
        bs == InOrder(Breaks(buf) \ waits, Len(buf))
        lines == [k \in 1..Len(bs) |->
                    Extend(IF k = 1 THEN part ELSE Blank,
                           SubSeq(buf, LineStart(buf, bs, k), bs[k] - 1))]
        rest == SubSeq(buf, LineStart(buf, bs, Len(bs) + 1), Len(buf))
        open == IF bs = <<>> THEN part ELSE Blank
        final == Extend(open, rest)
        keeps == chunk # <<>> /\ rest # <<>> /\ rest[Len(rest)] = "CR"
    IN  IF chunk = <<>>
        THEN [lines |-> lines \o (IF final = Blank THEN <<>> ELSE <<final>>),
              part |-> Blank, held |-> <<>>]
        ELSE [lines |-> lines,
              part |-> Extend(open, IF keeps THEN Front(rest) ELSE rest),
              held |-> IF keeps THEN <<"CR">> ELSE <<>>]

Width(line) ==
    Len(line.text) + (IF line.cut THEN CutNote ELSE 0) + (IF window.numbered THEN Prefix ELSE 0)

(* _positive_int, for the model's limit. *)
Limit == IF window.limit >= 1 THEN window.limit ELSE DefaultLimit

(* The body of the loop of _read, and the loop over the lines of a chunk. *)
Take(p, line) ==
    LET n == p.total + 1
    IN  IF p.stopped THEN p
        ELSE IF n < p.offset THEN [p EXCEPT !.total = n]
        ELSE IF p.full \/ n >= p.offset + Limit
        THEN [p EXCEPT !.total = n, !.stopped = ~window.counts]
        ELSE IF p.shown # <<>> /\ p.size + Width(line) + 1 > MaxReadChars
        THEN [p EXCEPT !.total = n, !.full = TRUE]
        ELSE [p EXCEPT !.total = n, !.last = n, !.size = @ + Width(line) + 1,
                       !.shown = Append(@, line)]

TakeAll(p, lines) ==
    LET after[k \in 0..Len(lines)] == IF k = 0 THEN p ELSE Take(after[k - 1], lines[k])
    IN  after[Len(lines)]

OpenFile ==
    /\ page.phase = "closed"
    /\ page' = IF path = NoFile THEN [page EXCEPT !.phase = "end"]
               ELSE [Start EXCEPT !.phase = "open", !.inode = path, !.version = data[path],
                                  !.offset = page.offset, !.last = page.offset - 1]
    /\ UNCHANGED <<path, data, lock, edit, write, window, expected>>

ReadChunk ==
    /\ page.phase = "open"
    /\ LET text == data[page.inode]
           chunk == Slice(text, page.pos + 1, page.pos + ChunkSize)
           got == Chunk(page.part, page.held, chunk)
           p == TakeAll(page, got.lines)
           ends == chunk = <<>> \/ p.stopped
       IN  page' = [p EXCEPT !.pos = @ + Len(chunk), !.part = got.part, !.held = got.held,
                             !.phase = IF ends THEN "shown" ELSE "open",
                             !.hint = ends /\ p.offset <= p.total /\ p.last < p.total]
    /\ UNCHANGED <<path, data, lock, edit, write, window, expected>>

(* The next call passes the offset of the note. *)
NextPage ==
    /\ page.phase = "shown"
    /\ page' = IF page.hint THEN [Start EXCEPT !.offset = page.last + 1]
               ELSE [Start EXCEPT !.phase = "end"]
    /\ UNCHANGED <<path, data, lock, edit, write, window, expected>>

CallNext ==
    \/ \E e \in Editors : \/ RefuseEdit(e) \/ LockEdit(e) \/ ReadOriginal(e)
                          \/ WriteTemp(e) \/ FailEdit(e) \/ ReplaceFile(e)
    \/ \E w \in Writers : LockWrite(w) \/ Truncate(w) \/ WriteData(w)

ReadNext == OpenFile \/ ReadChunk \/ NextPage

-----------------------------------------------------------------------------
(* Edits and writes of one path compose: while none is under way the file  *)
(* holds what they give one after the other, an edit list applied whole or *)
(* not at all and, in a CR LF file, as if its lines ended in LF.           *)
EditsCompose ==
    lock = NoOne /\ path # NoFile => data[path] = expected

(* The edits under way do what they mean: on a file with CR LF throughout, *)
(* an edit whose old text begins or ends inside a line break would not.    *)
SeenAlike ==
    \A e \in Editors : edit[e].phase \in {"read", "temp"} =>
        LET done == ApplyEdits(edit[e].original, edit[e].list)
        IN  done.ok => done.text = AsSeen(edit[e].original, edit[e].list).text

(* A page is the lines of the file as it was when the read began, from its *)
(* offset, unless it was written in place meanwhile; it shows a line, and  *)
(* its note gives the offset of the first line not shown.                  *)
EveryLineOnce ==
    page.phase = "shown" /\ ~page.torn =>
        LET lines == Clipped(SplitLines(page.version))
        IN  /\ page.shown = Slice(lines, page.offset, page.last)
            /\ page.hint <=> page.last < Len(lines)
            /\ page.offset <= Len(lines) => page.last >= page.offset

(* An edit keeps the line endings of a file that has CR LF throughout. *)
EditKeepsLineEndings ==
    \A e \in Editors :
        edit[e].phase = "done" /\ Breaks(edit[e].original) # {} /\ OnlyCrlf(edit[e].original)
            => OnlyCrlf(data[e])
=============================================================================
