---------------------------- MODULE SessionStore ----------------------------
(***************************************************************************)
(* FileSessionStore (plugins/persistence/file.py): one file per session,   *)
(* shared by several processes.  An action is one system call of save,     *)
(* create, delete or fork_session.  A load() is one step: it asks whether  *)
(* the file exists and then reads it, and what it returns is what the      *)
(* directory held at one of the two moments.                               *)
(***************************************************************************)
EXTENDS Naturals, FiniteSets

CONSTANTS
    Procs, Ids, Data, Newer, None,
    MaxCalls    \* bound: calls of all processes together

\* A file: its snapshot, whether all of it was written, whether it was fsynced.
File == [data : Data, whole : BOOLEAN, synced : BOOLEAN]

\* What a process was called with, and the result so far.
Call == [kind : {"save", "create", "delete", "fork"}, id : Ids, data : Data \cup {None},
         result : {"pending", "ok", "exists", "missing", "error"}]

ASSUME StoreAssumption ==
    /\ Newer \subseteq Data
    /\ None \notin Data \cup File \cup Call \cup Procs
    /\ MaxCalls \in Nat

VARIABLES
    dir,        \* dir[i]: the file that <dir>/<i>.json names now, or None
    disk,       \* disk[i]: the file it names after a power loss
    tmp,        \* tmp[p]: the temp file of p's call, or None
    pc,         \* pc[p]: the system call p's call makes next
    req,        \* req[p]: what p was called with, and the result so far
    links,      \* whether the file system has hard links
    dirsync,    \* whether it can fsync a directory
    calls,      \* history: calls begun
    last,       \* history: last[i] is the process that changed i last, or None
    acked       \* history: ids whose last change was acknowledged as saved

storeVars == <<dir, disk, tmp, pc, req, links, dirsync, calls, last, acked>>
history == <<last, acked>>

\* Some sessions were saved before, and are safely on the disk.
StoreInit ==
    /\ dir \in [Ids -> {None} \cup [data : Data, whole : {TRUE}, synced : {TRUE}]]
    /\ disk = dir
    /\ tmp = [p \in Procs |-> None]
    /\ pc = [p \in Procs |-> "idle"]
    /\ req = [p \in Procs |-> None]
    /\ links \in BOOLEAN
    /\ dirsync \in BOOLEAN
    /\ calls = 0
    /\ last = [i \in Ids |-> None]
    /\ acked = {}

\* load: a file that is corrupt or truncated counts as absent.
Loaded(f) == IF f # None /\ f.whole THEN f.data ELSE None

Goto(p, l) == pc' = [pc EXCEPT ![p] = l]

Resolve(p, r) == req' = [req EXCEPT ![p].result = r]

\* p changed the session it was called for: that is not acknowledged yet.
Changed(p) ==
    /\ last' = [last EXCEPT ![req[p].id] = p]
    /\ acked' = acked \ {req[p].id}

Request(k, i, d) == [kind |-> k, id |-> i, data |-> d, result |-> "pending"]

CallUnchanged == UNCHANGED <<links, dirsync, calls>>

\* Session ids that are blank or leave the directory are refused before any
\* file is touched, as are snapshots json cannot serialize.
Begin(p, k, i, d) ==
    /\ pc[p] = "idle" /\ calls < MaxCalls
    /\ calls' = calls + 1
    /\ req' = [req EXCEPT ![p] = Request(k, i, d)]
    /\ CASE k \in {"save", "create"} -> Goto(p, "mkstemp")
         [] k = "delete" -> Goto(p, "exists")
         [] k = "fork" -> Goto(p, "load")
    /\ UNCHANGED <<dir, disk, tmp, links, dirsync, history>>

\* fork_session: resume() the source, fork it under its new id and create it.
\* resume() raises on a snapshot of a newer schema version.
ForkLoad(p, src) ==
    /\ pc[p] = "load"
    /\ LET d == Loaded(dir[src]) IN
       \/ /\ d = None
          /\ Resolve(p, "missing") /\ Goto(p, "return")
       \/ /\ d \in Newer
          /\ Resolve(p, "error") /\ Goto(p, "return")
       \/ /\ d \in Data \ Newer
          /\ req' = [req EXCEPT ![p].kind = "create", ![p].data = d]
          /\ Goto(p, "mkstemp")
    /\ UNCHANGED <<dir, disk, tmp, history>> /\ CallUnchanged

Mkstemp(p) ==
    /\ pc[p] = "mkstemp"
    /\ tmp' = [tmp EXCEPT ![p] = [data |-> req[p].data, whole |-> FALSE, synced |-> FALSE]]
    /\ Goto(p, "write")
    /\ UNCHANGED <<dir, disk, req, history>> /\ CallUnchanged

Write(p) ==
    /\ pc[p] = "write"
    /\ tmp' = [tmp EXCEPT ![p].whole = TRUE]
    /\ Goto(p, "fsync")
    /\ UNCHANGED <<dir, disk, req, history>> /\ CallUnchanged

Fsync(p) ==
    /\ pc[p] = "fsync"
    /\ tmp' = [tmp EXCEPT ![p].synced = TRUE]
    /\ Goto(p, "place")
    /\ UNCHANGED <<dir, disk, req, history>> /\ CallUnchanged

\* The temp file becomes the session's file.  A renamed temp file is gone, a
\* linked one is still there for the finally clause.
Install(p, renamed) ==
    /\ dir' = [dir EXCEPT ![req[p].id] = tmp[p]]
    /\ tmp' = IF renamed THEN [tmp EXCEPT ![p] = None] ELSE tmp
    /\ Changed(p)
    /\ Resolve(p, "ok") /\ Goto(p, "syncdir")
    /\ UNCHANGED disk /\ CallUnchanged

AlreadyExists(p) ==
    /\ Resolve(p, "exists") /\ Goto(p, "cleanup")
    /\ UNCHANGED <<dir, disk, tmp, history>> /\ CallUnchanged

Rename(p) ==
    /\ \/ pc[p] = "place" /\ req[p].kind = "save"
       \/ pc[p] = "fallback"
    /\ Install(p, TRUE)

Mutant_Link(p) ==
    /\ pc[p] = "place" /\ req[p].kind = "create" /\ links
    /\ Install(p, FALSE)

Link(p) ==
    /\ pc[p] = "place" /\ req[p].kind = "create" /\ links
    /\ IF dir[req[p].id] # None THEN AlreadyExists(p) ELSE Install(p, FALSE)

\* No hard links: a check, and then a rename that may replace what came since.
CheckAbsent(p) ==
    /\ pc[p] = "place" /\ req[p].kind = "create" /\ ~links
    /\ IF dir[req[p].id] # None
       THEN AlreadyExists(p)
       ELSE /\ Goto(p, "fallback")
            /\ UNCHANGED <<dir, disk, tmp, req, history>> /\ CallUnchanged

\* A write, an fsync or a rename (refused on each of its attempts) raises.
Raise(p) ==
    /\ pc[p] \in {"mkstemp", "write", "fsync", "place", "fallback"}
    /\ Resolve(p, "error") /\ Goto(p, "cleanup")
    /\ UNCHANGED <<dir, disk, tmp, history>> /\ CallUnchanged

Mutant_SyncDir(p) ==
    /\ pc[p] = "syncdir"
    /\ Goto(p, "cleanup")
    /\ UNCHANGED <<dir, disk, tmp, req, history>> /\ CallUnchanged

SyncDir(p) ==
    /\ pc[p] = "syncdir"
    /\ disk' = IF dirsync THEN dir ELSE disk
    /\ Goto(p, "cleanup")
    /\ UNCHANGED <<dir, tmp, req, history>> /\ CallUnchanged

Cleanup(p) ==
    /\ pc[p] = "cleanup"
    /\ tmp' = [tmp EXCEPT ![p] = None]
    /\ Goto(p, "return")
    /\ UNCHANGED <<dir, disk, req, history>> /\ CallUnchanged

Return(p) ==
    /\ pc[p] = "return"
    /\ acked' = IF req[p].result = "ok" /\ req[p].kind # "delete" /\ last[req[p].id] = p
                THEN acked \cup {req[p].id} ELSE acked
    /\ last' = [i \in Ids |-> IF last[i] = p THEN None ELSE last[i]]
    /\ req' = [req EXCEPT ![p] = None]
    /\ Goto(p, "idle")
    /\ UNCHANGED <<dir, disk, tmp>> /\ CallUnchanged

DeleteExists(p) ==
    /\ pc[p] = "exists"
    /\ IF dir[req[p].id] = None
       THEN Resolve(p, "missing") /\ Goto(p, "return")
       ELSE Goto(p, "unlink") /\ UNCHANGED req
    /\ UNCHANGED <<dir, disk, tmp, history>> /\ CallUnchanged

\* Another process may have deleted the file in between: unlink() then raises.
DeleteUnlink(p) ==
    /\ pc[p] = "unlink"
    /\ dir' = [dir EXCEPT ![req[p].id] = None]
    /\ Resolve(p, IF dir[req[p].id] = None THEN "error" ELSE "ok")
    /\ Changed(p)
    /\ Goto(p, "return")
    /\ UNCHANGED <<disk, tmp>> /\ CallUnchanged

\* The process dies.  Its temp file stays, under a name list_ids() and load()
\* never ask for.
Kill(p) ==
    /\ pc[p] # "idle"
    /\ Goto(p, "idle")
    /\ req' = [req EXCEPT ![p] = None]
    /\ tmp' = [tmp EXCEPT ![p] = None]
    /\ last' = [i \in Ids |-> IF last[i] = p THEN None ELSE last[i]]
    /\ UNCHANGED <<dir, disk, acked>> /\ CallUnchanged

\* The system writes a directory entry back when it likes.
WriteBack(i) ==
    /\ disk[i] # dir[i]
    /\ disk' = [disk EXCEPT ![i] = dir[i]]
    /\ UNCHANGED <<dir, tmp, pc, req, history>> /\ CallUnchanged

\* What is left of a file whose bytes were not fsynced is up to the system.
Survivors(f) ==
    IF f = None \/ f.synced THEN {f} ELSE {[f EXCEPT !.whole = w] : w \in BOOLEAN}

PowerLoss ==
    /\ \E s \in [Ids -> BOOLEAN] :
        LET left == [i \in Ids |-> IF s[i] THEN dir[i] ELSE disk[i]] IN
        dir' \in {d \in [Ids -> UNION {Survivors(left[i]) : i \in Ids}] :
                    \A i \in Ids : d[i] \in Survivors(left[i])}
    /\ disk' = dir'
    /\ tmp' = [p \in Procs |-> None]
    /\ pc' = [p \in Procs |-> "idle"]
    /\ req' = [p \in Procs |-> None]
    /\ last' = [i \in Ids |-> None]
    /\ UNCHANGED acked /\ CallUnchanged

Step(p) ==
    \/ \E k \in {"save", "create"}, i \in Ids, d \in Data : Begin(p, k, i, d)
    \/ \E k \in {"delete", "fork"}, i \in Ids : Begin(p, k, i, None)
    \/ \E src \in Ids : ForkLoad(p, src)
    \/ Mkstemp(p) \/ Write(p) \/ Fsync(p)
    \/ Rename(p) \/ Link(p) \/ CheckAbsent(p) \/ Raise(p)
    \/ SyncDir(p) \/ Cleanup(p) \/ Return(p)
    \/ DeleteExists(p) \/ DeleteUnlink(p)
    \/ Kill(p)

StoreNext ==
    \/ PowerLoss
    \/ \E i \in Ids : WriteBack(i)
    \/ \E p \in Procs : Step(p)

StoreSpec == StoreInit /\ [][StoreNext]_storeVars
-----------------------------------------------------------------------------
\* Refinement: what a reader finds is the abstract store, and a call has its
\* result from the system call on that decides it.
Abs == INSTANCE AbstractStore WITH
    store <- [i \in Ids |-> Loaded(dir[i])],
    stable <- [i \in Ids |-> Loaded(disk[i])],
    call <- req,
    exclusive <- links

\* The file store implements the abstract one: whatever two processes do at
\* once and wherever one of them dies or the power fails, each save, create,
\* delete and fork_session happens at one instant or not at all, no reader
\* ever finds a torn snapshot, and create replaces nothing where hard links
\* exist.
Implements == Abs!AbsSpec

\* A session whose save or create returned, and which nobody changed since,
\* is still there after a power loss, where directories can be synced.
AckedSurvives ==
    dirsync => \A i \in acked : disk[i] = dir[i] /\ Loaded(dir[i]) # None
=============================================================================
