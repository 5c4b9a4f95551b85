---------------------------- MODULE MemoryStore ----------------------------
(***************************************************************************)
(* FileMemoryStore (plugins/memory/file.py) under the remember, recall and *)
(* forget tools: one markdown file per memory in a directory shared by     *)
(* several processes, and in each of them a store that caches what it      *)
(* parsed by the file's signature.  An action is one system call, or what  *)
(* happens under one hold of the cache's mutex.  The size is left out of   *)
(* the signature (all files could have the same), the inode number and the *)
(* modification time are in it; numbers are reused and the clock is coarse.*)
(***************************************************************************)
EXTENDS Naturals, Sequences, FiniteSets

CONSTANTS
    Callers,        \* threads that call the store
    Process,        \* Process[c]: the process of c; one store per process
    MemIds, Texts,  \* memory ids; texts as sequences of lines
    HandWritten,    \* the contents of files people write into the directory
    Inodes, Absent,
    StaleAge,       \* _STALE_TEMP_SECONDS, in ticks of the clock
    MaxTick,        \* bound: ticks
    MaxMemCalls     \* bound: calls

ASSUME MemAssumption ==
    /\ StaleAge \in Nat /\ MaxTick \in Nat \ {0} /\ MaxMemCalls \in Nat
    /\ DOMAIN Process = Callers /\ IsFiniteSet({Process[c] : c \in Callers})
    /\ \A t \in Texts : t \in Seq({t[j] : j \in DOMAIN t})

VARIABLES
    notes,      \* notes[i]: the file <i>.md, or Absent
    temps,      \* temps[c]: the temp file of c's save, or Absent
    orphans,    \* temp files of writers that died
    cache,      \* cache[q][i]: the entry process q's store has for i, or Absent
    locked,     \* the callers that hold the locks of save and delete
    flocks,     \* whether the file system supports flock
    op,         \* op[c]: c's call, or Absent
    clock,
    begun,      \* history: calls begun
    seen,       \* history: seen[c], what the directory held since c's call began
    past,       \* history: past[i], the (inode, time) pairs the files of i have had
    recurred    \* history: the ids of which such a pair came back

memVars == <<notes, temps, orphans, cache, locked, flocks, op, clock, begun, seen, past, recurred>>

Stores == {Process[c] : c \in Callers}
-----------------------------------------------------------------------------
(* The file format.  A line is [kind, val]; the last one is what follows   *)
(* the last newline.                                                       *)

Line(k, v) == [kind |-> k, val |-> v]
Delimiter == Line("delimiter", 0)
Empty == Line("blank", 0)
IsHeader(l) == l.kind \in {"id", "created_at", "format", "blank"}
Item(t, created) == [text |-> t, created |-> created]

\* The id is not in the model's header: it is the file's name again.
Serialize(item) ==
    <<Delimiter, Line("created_at", item.created), Line("format", 2), Delimiter>>
        \o item.text \o <<Empty>>

\* The line that ends the header of raw, or 0: a header starts on the first
\* line and holds nothing but "key: value" and blank lines.
HeaderEnd(raw) ==
    LET ends == {j \in 2 .. Len(raw) : raw[j] = Delimiter}
        first == CHOOSE j \in ends : \A k \in ends : j <= k
    IN  IF Len(raw) > 1 /\ raw[1] = Delimiter /\ ends # {}
           /\ \A k \in 2 .. first - 1 : IsHeader(raw[k])
        THEN first ELSE 0

\* The value of key k in the header of raw: the first one given, else 0.
HeaderValue(raw, k) ==
    LET at == {j \in 2 .. HeaderEnd(raw) - 1 : raw[j].kind = k}
    IN  IF at = {} THEN 0 ELSE raw[CHOOSE j \in at : \A l \in at : j <= l].val

SplitBody(raw) == SubSeq(raw, HeaderEnd(raw) + 1, Len(raw))

\* str.strip() on the lines of a text.
Stripped(t) ==
    LET full == {j \in DOMAIN t : t[j] # Empty}
    IN  IF full = {} THEN <<>>
        ELSE SubSeq(t, CHOOSE j \in full : \A k \in full : j <= k,
                       CHOOSE j \in full : \A k \in full : k <= j)

Parse(raw) ==
    LET body == SplitBody(raw)
        verbatim == HeaderValue(raw, "format") = 2
    IN  Item(IF ~verbatim THEN Stripped(body)
             ELSE IF body # <<>> /\ body[Len(body)] = Empty
                  THEN SubSeq(body, 1, Len(body) - 1) ELSE body,
             HeaderValue(raw, "created_at"))

\* What a file may hold: somebody's text, or an item as save writes it.
Stamps == (0 .. MaxTick) \cup {HeaderValue(raw, "created_at") : raw \in HandWritten}
Raws == HandWritten \cup {Serialize(Item(t, v)) : t \in Texts, v \in Stamps}

ASSUME AbsentAssumption == Absent \notin {Parse(raw) : raw \in Raws}
-----------------------------------------------------------------------------
ItemOf(f) == IF f = Absent THEN Absent ELSE Parse(f.raw)

Signature(f) == <<f.ino, f.mtime>>

UsedInodes ==
    {f.ino : f \in orphans \cup ({notes[i] : i \in MemIds} \ {Absent})
                   \cup ({temps[c] : c \in Callers} \ {Absent})}

\* A memory of an earlier session is there, or the directory is new.
MemInit ==
    /\ \E ino \in Inodes, t \in Texts, i \in MemIds :
        notes \in {[j \in MemIds |-> Absent],
                  [j \in MemIds |-> IF j # i THEN Absent
                                   ELSE [ino |-> ino, mtime |-> 0, raw |-> Serialize(Item(t, 0))]]}
    /\ temps = [c \in Callers |-> Absent]
    /\ orphans = {}
    /\ cache = [q \in Stores |-> [i \in MemIds |-> Absent]]
    /\ locked = {}
    /\ flocks \in BOOLEAN
    /\ op = [c \in Callers |-> Absent]
    /\ clock = 1
    /\ begun = 0
    /\ seen = [c \in Callers |-> {}]
    /\ past = [i \in MemIds |-> IF notes[i] = Absent THEN {} ELSE {<<notes[i].ino, 0>>}]
    /\ recurred = {}

\* notes becomes d by a write to i; the calls that read take note (history).
NotesBecome(d, i) ==
    /\ notes' = d
    /\ seen' = [c \in Callers |->
                 IF op[c] = Absent \/ op[c].kind \notin {"get", "search"} THEN {}
                 ELSE seen[c] \cup {<<i, ItemOf(d[i])>>}]

Recorded(i, f) ==
    /\ past' = [past EXCEPT ![i] = @ \cup {<<f.ino, f.mtime>>}]
    /\ recurred' = IF <<f.ino, f.mtime>> \in past[i] THEN recurred \cup {i} ELSE recurred

\* c's call goes on with r.
Go(c, r) == op' = [op EXCEPT ![c] = r]

At(c, pc) == op[c] # Absent /\ op[c].pc = pc

Put(c, e) == cache' = [cache EXCEPT ![Process[c]][op[c].id] = e]

\* Refused ids and empty texts change nothing.  A search starts with the scan.
BeginCall(c, kind, i, t) ==
    /\ op[c] = Absent /\ begun < MaxMemCalls
    /\ begun' = begun + 1
    /\ op' = [op EXCEPT ![c] =
        [kind |-> kind, id |-> i, text |-> t, todo |-> {}, sig |-> Absent, item |-> Absent,
         saved |-> FALSE, out |-> [j \in MemIds |-> Absent],
         pc |-> CASE kind \in {"get", "remember"} -> "stat" [] kind = "search" -> "scan" [] OTHER -> "lock"]]
    /\ seen' = [seen EXCEPT ![c] = IF kind \in {"get", "search"}
                                   THEN {<<j, ItemOf(notes[j])>> : j \in MemIds} ELSE {}]
    /\ UNCHANGED <<notes, temps, orphans, cache, locked, flocks, clock, past, recurred>>

\* The tools.  Remember asks for the memory first, to tell an update from a new
\* one, and saves in a second call of the store.
Remember(c, i, t) == t # <<>> /\ BeginCall(c, "remember", i, t)

Recall(c, i) == BeginCall(c, "search", i, <<>>)

Forget(c, i) == BeginCall(c, "delete", i, <<>>)

\* The lock of the directory within a process; flock among processes.
Mutant_Lock(c) ==
    /\ At(c, "lock")
    /\ \A d \in locked : Process[d] # Process[c]
    /\ locked' = locked \cup {c}
    /\ Go(c, [op[c] EXCEPT !.pc = IF op[c].kind = "save" THEN "stat" ELSE "pop"])
    /\ UNCHANGED <<notes, temps, orphans, cache, flocks, clock, begun, seen, past, recurred>>

Lock(c) ==
    /\ At(c, "lock")
    /\ \A d \in locked : Process[d] # Process[c] /\ ~flocks
    /\ locked' = locked \cup {c}
    /\ Go(c, [op[c] EXCEPT !.pc = IF op[c].kind = "save" THEN "stat" ELSE "pop"])
    /\ UNCHANGED <<notes, temps, orphans, cache, flocks, clock, begun, seen, past, recurred>>

\* Where the call goes once _load returned item.
Parsed(call, item) ==
    LET r == [call EXCEPT !.sig = Absent, !.item = Absent] IN
    CASE r.kind = "remember" -> [r EXCEPT !.kind = "save", !.pc = "lock"]
      [] r.kind = "save" /\ ~r.saved ->
            [r EXCEPT !.pc = "write", !.text = <<>>,
                      !.item = Item(r.text, IF item = Absent THEN clock ELSE item.created)]
      [] r.kind = "save" /\ r.saved -> [r EXCEPT !.pc = "return"]
      [] r.kind = "get" -> [r EXCEPT !.pc = "return", !.out[r.id] = item]
      [] r.kind = "search" ->
            LET left == r.todo \ {r.id} IN
            [r EXCEPT !.out[r.id] = item, !.todo = left, !.pc = IF left = {} THEN "return" ELSE "stat",
                      !.id = IF left = {} THEN r.id ELSE CHOOSE i \in left : TRUE]

Stat(c) ==
    /\ At(c, "stat")
    /\ LET f == notes[op[c].id] IN
       IF f = Absent
       THEN Put(c, Absent) /\ Go(c, Parsed(op[c], Absent))
       ELSE UNCHANGED cache /\ Go(c, [op[c] EXCEPT !.sig = Signature(f), !.pc = "lookup"])
    /\ UNCHANGED <<notes, temps, orphans, locked, flocks, clock, begun, seen, past, recurred>>

Lookup(c) ==
    /\ At(c, "lookup")
    /\ LET e == cache[Process[c]][op[c].id] IN
       IF e # Absent /\ e.sig = op[c].sig
       THEN Go(c, Parsed(op[c], e.item))
       ELSE Go(c, [op[c] EXCEPT !.pc = "parse"])
    /\ UNCHANGED <<notes, temps, orphans, cache, locked, flocks, clock, begun, seen, past, recurred>>

\* A file that is gone by now is popped from the cache.
ReadFile(c) ==
    /\ At(c, "parse")
    /\ LET f == notes[op[c].id] IN
       IF f = Absent
       THEN Put(c, Absent) /\ Go(c, Parsed(op[c], Absent))
       ELSE UNCHANGED cache /\ Go(c, [op[c] EXCEPT !.item = Parse(f.raw), !.pc = "store"])
    /\ UNCHANGED <<notes, temps, orphans, locked, flocks, clock, begun, seen, past, recurred>>

Mutant_StoreEntry(c) ==
    /\ At(c, "store")
    /\ LET f == notes[op[c].id] IN
       Put(c, [sig |-> IF f = Absent THEN op[c].sig ELSE Signature(f), item |-> op[c].item])
    /\ Go(c, Parsed(op[c], op[c].item))
    /\ UNCHANGED <<notes, temps, orphans, locked, flocks, clock, begun, seen, past, recurred>>

StoreEntry(c) ==
    /\ At(c, "store")
    /\ Put(c, [sig |-> op[c].sig, item |-> op[c].item])
    /\ Go(c, Parsed(op[c], op[c].item))
    /\ UNCHANGED <<notes, temps, orphans, locked, flocks, clock, begun, seen, past, recurred>>

\* _entries: names that are gone leave the cache, the others are loaded.
Scan(c) ==
    /\ At(c, "scan")
    /\ LET names == {i \in MemIds : notes[i] # Absent} IN
       /\ cache' = [cache EXCEPT ![Process[c]] =
                     [i \in MemIds |-> IF i \in names THEN @[i] ELSE Absent]]
       /\ Go(c, [op[c] EXCEPT !.todo = names, !.pc = IF names = {} THEN "return" ELSE "stat",
                              !.id = IF names = {} THEN @ ELSE CHOOSE i \in names : TRUE])
    /\ UNCHANGED <<notes, temps, orphans, locked, flocks, clock, begun, seen, past, recurred>>

\* mkstemp, write and fsync of the temp file.
WriteTemp(c, ino) ==
    /\ At(c, "write") /\ ino \notin UsedInodes
    /\ temps' = [temps EXCEPT ![c] = [ino |-> ino, mtime |-> clock, raw |-> Serialize(op[c].item)]]
    /\ Go(c, [op[c] EXCEPT !.pc = "replace", !.item = Absent])
    /\ UNCHANGED <<notes, orphans, cache, locked, flocks, clock, begun, seen, past, recurred>>

Replace(c) ==
    /\ At(c, "replace") /\ temps[c] # Absent
    /\ NotesBecome([notes EXCEPT ![op[c].id] = temps[c]], op[c].id)
    /\ temps' = [temps EXCEPT ![c] = Absent]
    /\ Recorded(op[c].id, temps[c])
    /\ Go(c, [op[c] EXCEPT !.pc = "stat", !.saved = TRUE])
    /\ UNCHANGED <<orphans, cache, locked, flocks, clock, begun>>

\* A write or rename fails, or the temp file has been swept: the temp file is
\* unlinked, the locks are released and the call raises.
SaveFails(c) ==
    /\ At(c, "write") \/ At(c, "replace")
    /\ temps' = [temps EXCEPT ![c] = Absent]
    /\ locked' = locked \ {c}
    /\ Go(c, Absent)
    /\ UNCHANGED <<notes, orphans, cache, flocks, clock, begun, seen, past, recurred>>

PopEntry(c) ==
    /\ At(c, "pop")
    /\ Put(c, Absent)
    /\ Go(c, [op[c] EXCEPT !.pc = "unlink"])
    /\ UNCHANGED <<notes, temps, orphans, locked, flocks, clock, begun, seen, past, recurred>>

\* A file that is gone already is no error.
Unlink(c) ==
    /\ At(c, "unlink")
    /\ NotesBecome([notes EXCEPT ![op[c].id] = Absent], op[c].id)
    /\ Go(c, [op[c] EXCEPT !.pc = "return"])
    /\ UNCHANGED <<temps, orphans, cache, locked, flocks, clock, begun, past, recurred>>

ReturnCall(c) ==
    /\ At(c, "return")
    /\ locked' = locked \ {c}
    /\ Go(c, Absent)
    /\ seen' = [seen EXCEPT ![c] = {}]
    /\ UNCHANGED <<notes, temps, orphans, cache, flocks, clock, begun, past, recurred>>

\* Process q dies and another one opens its store, which sweeps away the temp
\* files that are older than StaleAge, whoever they belong to.
Stale(f) == f.mtime + StaleAge < clock

Reopen(q) ==
    /\ \E c \in Callers : Process[c] = q /\ op[c] # Absent
    /\ LET dead == {c \in Callers : Process[c] = q} IN
       /\ op' = [c \in Callers |-> IF c \in dead THEN Absent ELSE op[c]]
       /\ seen' = [c \in Callers |-> IF c \in dead THEN {} ELSE seen[c]]
       /\ locked' = locked \ dead
       /\ orphans' = {f \in orphans \cup ({temps[c] : c \in dead} \ {Absent}) : ~Stale(f)}
       /\ temps' = [c \in Callers |-> IF c \in dead \/ (temps[c] # Absent /\ Stale(temps[c]))
                                      THEN Absent ELSE temps[c]]
    /\ cache' = [cache EXCEPT ![q] = [i \in MemIds |-> Absent]]
    /\ UNCHANGED <<notes, flocks, clock, begun, past, recurred>>

\* Somebody writes a file by hand, in place when there is one.
HandEdit(i, raw, ino) ==
    /\ begun < MaxMemCalls /\ begun' = begun + 1
    /\ IF notes[i] = Absent THEN ino \notin UsedInodes ELSE ino = notes[i].ino
    /\ NotesBecome([notes EXCEPT ![i] = [ino |-> ino, mtime |-> clock, raw |-> raw]], i)
    /\ Recorded(i, notes'[i])
    /\ UNCHANGED <<temps, orphans, cache, locked, flocks, op, clock>>

Tick ==
    /\ clock < MaxTick
    /\ clock' = clock + 1
    /\ UNCHANGED <<notes, temps, orphans, cache, locked, flocks, op, begun, seen, past, recurred>>

MemNext ==
    \/ Tick
    \/ \E i \in MemIds, raw \in HandWritten, ino \in Inodes : HandEdit(i, raw, ino)
    \/ \E q \in Stores : Reopen(q)
    \/ \E c \in Callers :
        \/ \E i \in MemIds, t \in Texts : BeginCall(c, "save", i, t)
        \/ \E i \in MemIds, t \in Texts : Remember(c, i, t)
        \/ \E i \in MemIds : BeginCall(c, "get", i, <<>>) \/ Recall(c, i) \/ Forget(c, i)
        \/ Lock(c) \/ Stat(c) \/ Lookup(c) \/ ReadFile(c) \/ StoreEntry(c) \/ Scan(c)
        \/ \E ino \in Inodes : WriteTemp(c, ino)
        \/ Replace(c) \/ SaveFails(c) \/ PopEntry(c) \/ Unlink(c) \/ ReturnCall(c)

MemSpec == MemInit /\ [][MemNext]_memVars
-----------------------------------------------------------------------------
\* What get and search return is what the file held at some moment of the
\* call, with the text exactly as it was saved: no entry of any cache outlives
\* a save or delete by another thread or process, as long as no inode number
\* comes back to the same id within one tick of the clock.
ReadsCurrent ==
    \A c \in Callers :
        At(c, "return") /\ op[c].kind \in {"get", "search"} =>
            \A i \in MemIds :
                (op[c].kind = "search" \/ i = op[c].id) /\ i \notin recurred =>
                    <<i, op[c].out[i]>> \in seen[c]

\* Overwriting a memory keeps its creation time, unless two processes write
\* without flock or a person edits the file meanwhile.
CreatedKept ==
    [][\A i \in MemIds, c \in Callers :
        /\ flocks \/ Cardinality(Stores) = 1
        /\ i \notin recurred /\ Replace(c) /\ op[c].id = i
        /\ notes[i] # Absent /\ notes[i].raw \notin HandWritten
        => ItemOf(notes'[i]).created = ItemOf(notes[i]).created]_memVars
=============================================================================
