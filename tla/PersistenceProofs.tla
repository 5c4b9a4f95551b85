-------------------------- MODULE PersistenceProofs --------------------------
(***************************************************************************)
(* Proofs about what a harness keeps on disk: session files under any      *)
(* number of processes and calls, with processes killed and the power lost *)
(* at any point; the state of plugins through processes of any releases    *)
(* and any sets of imported plugins; and the memories of any number of     *)
(* processes and threads that share one directory.                         *)
(***************************************************************************)
EXTENDS SessionStore, SavedState, MemoryStore, FiniteSetTheorems, SequenceTheorems, TLAPS

-----------------------------------------------------------------------------
(* SessionStore.                                                           *)

PCs == {"idle", "load", "mkstemp", "write", "fsync", "place", "fallback", "syncdir", "cleanup",
        "return", "exists", "unlink"}

StoreType ==
    /\ dir \in [Ids -> File \cup {None}] /\ disk \in [Ids -> File \cup {None}]
    /\ tmp \in [Procs -> File \cup {None}]
    /\ pc \in [Procs -> PCs]
    /\ req \in [Procs -> Call \cup {None}]
    /\ links \in BOOLEAN /\ dirsync \in BOOLEAN
    /\ last \in [Ids -> Procs \cup {None}]
    /\ acked \subseteq Ids

\* Where p is tells what it was called for, whether the call has its result, ...
CallAt(p) ==
    /\ pc[p] = "idle" <=> req[p] = None
    /\ pc[p] = "load" => req[p].kind = "fork" /\ req[p].result = "pending"
    /\ pc[p] \in {"exists", "unlink"} => req[p].kind = "delete" /\ req[p].result = "pending"
    /\ pc[p] \in {"mkstemp", "write", "fsync", "place", "fallback"} =>
          req[p].kind \in {"save", "create"} /\ req[p].data \in Data /\ req[p].result = "pending"
    /\ pc[p] = "fallback" => req[p].kind = "create" /\ ~links
    /\ pc[p] = "syncdir" => req[p].kind \in {"save", "create"} /\ req[p].result = "ok"
    /\ pc[p] = "cleanup" => req[p].kind \in {"save", "create"} /\ req[p].result # "pending"

\* ... and how much of its temp file is there.
TempAt(p) ==
    /\ pc[p] \in {"write", "fsync", "place", "fallback"} =>
          tmp[p] \in File /\ tmp[p].data = req[p].data
    /\ pc[p] \in {"fsync", "place", "fallback"} => tmp[p].whole
    /\ pc[p] \in {"place", "fallback"} => tmp[p].synced

\* A file gets its name only when it is whole and safe.
Sound(f) == f # None => f.whole /\ f.synced
FilesSound == \A i \in Ids : Sound(dir[i]) /\ Sound(disk[i])

\* The process that changed a session last is still at it, and found its way to the
\* disk once it is past the sync of the directory.
LastAt(i) ==
    last[i] \in Procs =>
        LET p == last[i] IN
        /\ pc[p] \in {"syncdir", "cleanup", "return"} /\ req[p].id = i
        /\ req[p].kind # "delete" => dir[i] # None
        /\ dirsync /\ req[p].kind # "delete" /\ pc[p] # "syncdir" => disk[i] = dir[i]

AckedSafe == dirsync => \A i \in acked : disk[i] = dir[i] /\ dir[i] # None

CallsInv == \A p \in Procs : CallAt(p) /\ TempAt(p)
LastInv == \A i \in Ids : LastAt(i)

StoreInv == StoreType /\ CallsInv /\ FilesSound /\ LastInv /\ AckedSafe

-----------------------------------------------------------------------------
(* What a step does, for the proofs below.                                 *)

\* None is no process, no file and no call.
LEMMA Sentinel == None \notin Data /\ None \notin File /\ None \notin Call /\ None \notin Procs
BY StoreAssumption

\* A call that is about to be made or that is under way is well typed.
LEMMA RequestType ==
    ASSUME NEW k \in {"save", "create", "delete", "fork"}, NEW i \in Ids, NEW d \in Data \cup {None}
    PROVE  Request(k, i, d) \in Call /\ Request(k, i, d).kind = k /\ Request(k, i, d).id = i
           /\ Request(k, i, d).data = d /\ Request(k, i, d).result = "pending"
BY DEF Request, Call

\* The first system call of a call of kind k.
First(k) == IF k \in {"save", "create"} THEN "mkstemp" ELSE IF k = "delete" THEN "exists" ELSE "load"

\* A call begins in a process that has none.
LEMMA BeginDoes ==
    ASSUME NEW p \in Procs, NEW k \in {"save", "create", "delete", "fork"}, NEW i \in Ids,
           NEW d \in Data \cup {None}, Begin(p, k, i, d)
    PROVE  /\ pc[p] = "idle" /\ pc' = [pc EXCEPT ![p] = First(k)]
           /\ req' = [req EXCEPT ![p] = Request(k, i, d)]
           /\ UNCHANGED <<dir, disk, tmp, links, dirsync, last, acked>>
<1>1. CASE k \in {"save", "create"}
    BY <1>1 DEF Begin, First, Goto, history
<1>2. CASE k = "delete"
    BY <1>2 DEF Begin, First, Goto, history
<1>3. CASE k = "fork"
    BY <1>3 DEF Begin, First, Goto, history
<1>4. QED
    BY <1>1, <1>2, <1>3

\* Since all named files are whole and safe, a power loss leaves each id with one of its two files.
LEMMA PowerLossLeaves ==
    ASSUME StoreType, FilesSound, PowerLoss
    PROVE  /\ dir' \in [Ids -> File \cup {None}] /\ disk' = dir'
           /\ \E s \in [Ids -> BOOLEAN] : \A i \in Ids : dir'[i] = IF s[i] THEN dir[i] ELSE disk[i]
<1>1. PICK s \in [Ids -> BOOLEAN] :
        LET left == [i \in Ids |-> IF s[i] THEN dir[i] ELSE disk[i]] IN
        dir' \in {d \in [Ids -> UNION {Survivors(left[i]) : i \in Ids}] :
                    \A i \in Ids : d[i] \in Survivors(left[i])}
    BY DEF PowerLoss
<1> DEFINE left == [i \in Ids |-> IF s[i] THEN dir[i] ELSE disk[i]]
<1>2. \A i \in Ids : Survivors(left[i]) = {left[i]}
    BY DEF Survivors, FilesSound, Sound
<1>3. DOMAIN dir' = Ids /\ dir' = [i \in Ids |-> dir'[i]] /\ \A i \in Ids : dir'[i] \in Survivors(left[i])
    BY <1>1
<1>4. \A i \in Ids : dir'[i] = left[i]
    BY <1>2, <1>3
<1>5. disk' = dir'
    BY DEF PowerLoss
<1>6. QED
    BY <1>3, <1>4, <1>5 DEF StoreType
-----------------------------------------------------------------------------
(* Types.                                                                  *)

\* The types hold of an empty directory and idle processes.
LEMMA TypeInit == StoreInit => StoreType
BY DEF StoreInit, StoreType, File, PCs

\* Every step keeps the types.
LEMMA TypeStep == StoreInv /\ [StoreNext]_storeVars => StoreType'
<1> SUFFICES ASSUME StoreInv, [StoreNext]_storeVars PROVE StoreType'
    OBVIOUS
<1> USE DEF StoreInv, StoreType, PCs, Goto, Resolve, CallUnchanged, history
<1>1. CASE PowerLoss
    BY <1>1, PowerLossLeaves DEF PowerLoss
<1>2. CASE \E i \in Ids : WriteBack(i)
    BY <1>2 DEF WriteBack
<1>3. ASSUME NEW p \in Procs, Step(p) PROVE StoreType'
    <2> USE DEF CallsInv, CallAt, TempAt
    <2>1. ASSUME NEW k \in {"save", "create", "delete", "fork"}, NEW i \in Ids,
                 NEW d \in Data \cup {None}, Begin(p, k, i, d)
          PROVE  StoreType'
        BY <2>1, RequestType, BeginDoes DEF First
    <2>3. CASE \E src \in Ids : ForkLoad(p, src)
        BY <2>3, Sentinel DEF ForkLoad, Call
    <2>4. CASE Mkstemp(p)
        BY <2>4 DEF Mkstemp, File
    <2>5. CASE Write(p)
        BY <2>5, ZenonT(60) DEF Write, File
    <2>6. CASE Fsync(p)
        BY <2>6, ZenonT(60) DEF Fsync, File
    <2>7. CASE Rename(p) \/ Link(p)
        BY <2>7, Sentinel DEF Rename, Link, Install, AlreadyExists, Changed, Call
    <2>8. CASE CheckAbsent(p)
        BY <2>8, Sentinel DEF CheckAbsent, AlreadyExists, Call
    <2>9. CASE Raise(p)
        BY <2>9, Sentinel DEF Raise, Call
    <2>10. CASE SyncDir(p) \/ Cleanup(p)
        BY <2>10 DEF SyncDir, Cleanup
    <2>11. CASE Return(p) \/ Kill(p)
        BY <2>11, Sentinel DEF Return, Kill, Call
    <2>12. CASE DeleteExists(p) \/ DeleteUnlink(p)
        BY <2>12, Sentinel DEF DeleteExists, DeleteUnlink, Changed, Call
    <2>13. QED
        BY <1>3, <2>1, <2>3, <2>4, <2>5, <2>6, <2>7, <2>8, <2>9, <2>10, <2>11, <2>12 DEF Step
<1>4. CASE UNCHANGED storeVars
    BY <1>4 DEF storeVars
<1>5. QED
    BY <1>1, <1>2, <1>3, <1>4 DEF StoreNext
-----------------------------------------------------------------------------
(* Where the calls are.                                                    *)

\* A step of p concerns its own call, and the file system stays what it is.
LEMMA StepIsLocal ==
    ASSUME StoreType, NEW p \in Procs, Step(p)
    PROVE  /\ links' = links /\ dirsync' = dirsync
           /\ \A q \in Procs \ {p} : pc'[q] = pc[q] /\ req'[q] = req[q] /\ tmp'[q] = tmp[q]
<1> USE DEF StoreType, Goto, Resolve, CallUnchanged
<1>1. ASSUME NEW k \in {"save", "create", "delete", "fork"}, NEW i \in Ids,
             NEW d \in Data \cup {None}, Begin(p, k, i, d)
      PROVE  /\ links' = links /\ dirsync' = dirsync
             /\ \A q \in Procs \ {p} : pc'[q] = pc[q] /\ req'[q] = req[q] /\ tmp'[q] = tmp[q]
    BY <1>1, BeginDoes
<1>2. CASE \E src \in Ids : ForkLoad(p, src)
    BY <1>2 DEF ForkLoad
<1>3. CASE Mkstemp(p) \/ Write(p) \/ Fsync(p)
    BY <1>3 DEF Mkstemp, Write, Fsync
<1>4. CASE Rename(p) \/ Link(p) \/ CheckAbsent(p)
    BY <1>4 DEF Rename, Link, CheckAbsent, Install, AlreadyExists
<1>5. CASE Raise(p) \/ SyncDir(p) \/ Cleanup(p)
    BY <1>5 DEF Raise, SyncDir, Cleanup
<1>6. CASE Return(p) \/ Kill(p)
    BY <1>6 DEF Return, Kill
<1>7. CASE DeleteExists(p) \/ DeleteUnlink(p)
    BY <1>7 DEF DeleteExists, DeleteUnlink
<1>8. QED
    BY <1>1, <1>2, <1>3, <1>4, <1>5, <1>6, <1>7 DEF Step

\* Every step keeps each call, its result and its temp file as its place in the code says.
LEMMA CallsStep == StoreInv /\ [StoreNext]_storeVars => CallsInv'
<1> SUFFICES ASSUME StoreInv, [StoreNext]_storeVars PROVE CallsInv'
    OBVIOUS
<1> USE DEF StoreInv, StoreType, Goto, Resolve, CallUnchanged
<1>1. CASE PowerLoss
    BY <1>1 DEF PowerLoss, CallsInv, CallAt, TempAt
<1>2. CASE \E i \in Ids : WriteBack(i)
    BY <1>2 DEF WriteBack, CallsInv, CallAt, TempAt
<1>3. ASSUME NEW p \in Procs, Step(p) PROVE CallsInv'
    <2> USE DEF CallAt, TempAt
    <2> CallAt(p) /\ TempAt(p) /\ pc[p] \in PCs /\ req[p] \in Call \cup {None} /\ tmp[p] \in File \cup {None}
        BY DEF CallsInv
    <2>1. ASSUME NEW k \in {"save", "create", "delete", "fork"}, NEW i \in Ids,
                 NEW d \in Data \cup {None}, k \in {"save", "create"} => d \in Data, Begin(p, k, i, d)
          PROVE  CallAt(p)' /\ TempAt(p)'
        BY <2>1, RequestType, BeginDoes, Sentinel DEF First
    <2>3. ASSUME NEW src \in Ids, ForkLoad(p, src) PROVE CallAt(p)' /\ TempAt(p)'
        BY <2>3, Sentinel DEF ForkLoad, Call
    <2>4. ASSUME Mkstemp(p) PROVE CallAt(p)' /\ TempAt(p)'
        BY <2>4, Sentinel DEF Mkstemp, File
    <2>5. ASSUME Write(p) PROVE CallAt(p)' /\ TempAt(p)'
        BY <2>5, Sentinel DEF Write, File
    <2>6. ASSUME Fsync(p) PROVE CallAt(p)' /\ TempAt(p)'
        BY <2>6, Sentinel DEF Fsync, File
    <2>7. ASSUME Rename(p) \/ Link(p) PROVE CallAt(p)' /\ TempAt(p)'
        BY <2>7, Sentinel DEF Rename, Link, Install, AlreadyExists, Call
    <2>8. ASSUME CheckAbsent(p) PROVE CallAt(p)' /\ TempAt(p)'
        BY <2>8, Sentinel DEF CheckAbsent, AlreadyExists, Call
    <2>9. ASSUME Raise(p) PROVE CallAt(p)' /\ TempAt(p)'
        BY <2>9, Sentinel DEF Raise, Call
    <2>10. ASSUME SyncDir(p) \/ Cleanup(p) PROVE CallAt(p)' /\ TempAt(p)'
        BY <2>10 DEF SyncDir, Cleanup
    <2>11. ASSUME Return(p) \/ Kill(p) PROVE CallAt(p)' /\ TempAt(p)'
        BY <2>11 DEF Return, Kill
    <2>12. ASSUME DeleteExists(p) \/ DeleteUnlink(p) PROVE CallAt(p)' /\ TempAt(p)'
        BY <2>12, Sentinel DEF DeleteExists, DeleteUnlink, Call
    <2>13. CallAt(p)' /\ TempAt(p)'
        BY <1>3, <2>1, <2>3, <2>4, <2>5, <2>6, <2>7, <2>8, <2>9, <2>10, <2>11, <2>12 DEF Step
    <2>14. \A q \in Procs \ {p} : CallAt(q)' /\ TempAt(q)'
        BY <1>3, StepIsLocal DEF CallsInv
    <2>15. QED
        BY <2>13, <2>14 DEF CallsInv
<1>4. CASE UNCHANGED storeVars
    BY <1>4 DEF storeVars, CallsInv, CallAt, TempAt
<1>5. QED
    BY <1>1, <1>2, <1>3, <1>4 DEF StoreNext
-----------------------------------------------------------------------------
(* What is named, who changed it last, and what was acknowledged.          *)

\* The steps of a call that touch neither a name nor what is known of the last change.
Aside(p) ==
    \/ \E k \in {"save", "create"}, i \in Ids, d \in Data : Begin(p, k, i, d)
    \/ \E k \in {"delete", "fork"}, i \in Ids : Begin(p, k, i, None)
    \/ \E src \in Ids : ForkLoad(p, src)
    \/ Mkstemp(p) \/ Write(p) \/ Fsync(p)
    \/ Link(p) /\ dir[req[p].id] # None
    \/ CheckAbsent(p) \/ Raise(p) \/ DeleteExists(p)

\* They change no file that has a name.
LEMMA AsideKeeps ==
    ASSUME NEW p \in Procs, Aside(p)
    PROVE  UNCHANGED <<dir, disk, last, acked>> /\ pc[p] \notin {"syncdir", "cleanup", "return"}
<1> USE DEF CallUnchanged, history
<1>1. ASSUME NEW k \in {"save", "create", "delete", "fork"}, NEW i \in Ids,
             NEW d \in Data \cup {None}, Begin(p, k, i, d)
      PROVE  UNCHANGED <<dir, disk, last, acked>> /\ pc[p] \notin {"syncdir", "cleanup", "return"}
    BY <1>1, BeginDoes
<1>2. CASE \E src \in Ids : ForkLoad(p, src)
    BY <1>2 DEF ForkLoad
<1>3. CASE Mkstemp(p) \/ Write(p) \/ Fsync(p) \/ Raise(p)
    BY <1>3 DEF Mkstemp, Write, Fsync, Raise
<1>4. CASE Link(p) /\ dir[req[p].id] # None
    BY <1>4 DEF Link, AlreadyExists
<1>5. CASE CheckAbsent(p) \/ DeleteExists(p)
    BY <1>5 DEF CheckAbsent, AlreadyExists, DeleteExists
<1>6. QED
    BY <1>1, <1>2, <1>3, <1>4, <1>5 DEF Aside

\* The temp file of a save, of a link that succeeds or of a rename in its place gets its name.
Installs(p) == pc[p] \in {"place", "fallback"} /\ \E renamed \in BOOLEAN : Install(p, renamed)

\* Every step of a process is one of these.
LEMMA StepKinds ==
    ASSUME NEW p \in Procs, Step(p)
    PROVE  \/ Aside(p) \/ Installs(p)
           \/ SyncDir(p) \/ Cleanup(p) \/ Return(p) \/ DeleteUnlink(p) \/ Kill(p)
<1>1. CASE Rename(p) \/ Link(p)
    BY <1>1 DEF Rename, Link, Aside, Installs
<1>2. QED
    BY <1>1 DEF Step, Aside

\* Every named file stays whole and safe.
LEMMA FilesStep == StoreInv /\ [StoreNext]_storeVars => FilesSound'
<1> SUFFICES ASSUME StoreInv, [StoreNext]_storeVars PROVE FilesSound'
    OBVIOUS
<1> USE DEF StoreInv, StoreType, FilesSound, Sound, CallUnchanged, history
<1>1. CASE PowerLoss
    BY <1>1, PowerLossLeaves
<1>2. CASE \E i \in Ids : WriteBack(i)
    BY <1>2 DEF WriteBack
<1>3. ASSUME NEW p \in Procs, Step(p) PROVE FilesSound'
    <2>1. CASE Aside(p)
        BY <2>1, AsideKeeps
    <2>2. CASE Installs(p)
        BY <2>2 DEF Installs, Install, CallsInv, TempAt
    <2>3. CASE SyncDir(p) \/ Cleanup(p) \/ Return(p) \/ Kill(p)
        BY <2>3 DEF SyncDir, Cleanup, Return, Kill
    <2>4. CASE DeleteUnlink(p)
        BY <2>4 DEF DeleteUnlink
    <2>5. QED
        BY <1>3, <2>1, <2>2, <2>3, <2>4, StepKinds
<1>4. CASE UNCHANGED storeVars
    BY <1>4 DEF storeVars
<1>5. QED
    BY <1>1, <1>2, <1>3, <1>4 DEF StoreNext

\* Every step keeps what is known of the process that changed a session last.
LEMMA LastStep == StoreInv /\ [StoreNext]_storeVars => LastInv'
<1> SUFFICES ASSUME StoreInv, [StoreNext]_storeVars, NEW i \in Ids PROVE LastAt(i)'
    BY DEF LastInv
<1> LastAt(i)
    BY DEF StoreInv, LastInv
<1> USE Sentinel DEF StoreInv, StoreType, CallUnchanged, history, LastAt
<1>1. CASE PowerLoss
    BY <1>1 DEF PowerLoss
<1>2. CASE \E j \in Ids : WriteBack(j)
    BY <1>2 DEF WriteBack
<1>3. ASSUME NEW p \in Procs, Step(p) PROVE LastAt(i)'
    <2>1. CASE Aside(p)
        BY <1>3, <2>1, AsideKeeps, StepIsLocal
    <2>2. CASE Installs(p)
        <3>1. req[p] \in Call /\ tmp[p] \in File /\ req[p].kind \in {"save", "create"}
            BY <2>2 DEF Installs, CallsInv, CallAt, TempAt
        <3>2. req'[p].kind = req[p].kind /\ req'[p].id = req[p].id /\ pc'[p] = "syncdir"
            BY <2>2, <3>1 DEF Installs, Install, Resolve, Goto, Call
        <3>3. last'[i] = (IF i = req[p].id THEN p ELSE last[i])
              /\ dir'[i] = (IF i = req[p].id THEN tmp[p] ELSE dir[i]) /\ disk' = disk
            BY <2>2, <3>1 DEF Installs, Install, Changed, Call
        <3>4. pc[p] \notin {"syncdir", "cleanup", "return"}
            BY <2>2 DEF Installs
        <3>5. QED
            BY <1>3, <3>1, <3>2, <3>3, <3>4, StepIsLocal
    <2>3. CASE SyncDir(p)
        BY <1>3, <2>3, StepIsLocal DEF SyncDir, Goto
    <2>4. CASE Cleanup(p)
        BY <1>3, <2>4, StepIsLocal DEF Cleanup, Goto
    <2>5. CASE Return(p) \/ Kill(p)
        <3>1. last'[i] = (IF last[i] = p THEN None ELSE last[i]) /\ UNCHANGED <<dir, disk>>
            BY <2>5 DEF Return, Kill
        <3>2. QED
            BY <1>3, <3>1, StepIsLocal
    <2>6. CASE DeleteUnlink(p)
        <3>1. req[p] \in Call /\ req[p].kind = "delete"
            BY <2>6 DEF DeleteUnlink, CallsInv, CallAt
        <3>2. req'[p].kind = "delete" /\ req'[p].id = req[p].id /\ pc'[p] = "return"
            BY <2>6, <3>1 DEF DeleteUnlink, Resolve, Goto, Call
        <3>3. last'[i] = (IF i = req[p].id THEN p ELSE last[i])
              /\ dir'[i] = (IF i = req[p].id THEN None ELSE dir[i]) /\ disk' = disk
            BY <2>6, <3>1 DEF DeleteUnlink, Changed, Call
        <3>4. pc[p] \notin {"syncdir", "cleanup", "return"}
            BY <2>6 DEF DeleteUnlink
        <3>5. QED
            BY <1>3, <3>1, <3>2, <3>3, <3>4, StepIsLocal
    <2>7. QED
        BY <1>3, <2>1, <2>2, <2>3, <2>4, <2>5, <2>6, StepKinds
<1>4. CASE UNCHANGED storeVars
    BY <1>4 DEF storeVars
<1>5. QED
    BY <1>1, <1>2, <1>3, <1>4 DEF StoreNext

\* Every step keeps what was acknowledged on the disk.
LEMMA AckedStep == StoreInv /\ [StoreNext]_storeVars => AckedSafe'
<1> SUFFICES ASSUME StoreInv, [StoreNext]_storeVars, dirsync', NEW i \in acked'
             PROVE  disk'[i] = dir'[i] /\ dir'[i] # None
    BY DEF AckedSafe
<1> USE Sentinel DEF StoreInv, StoreType, CallUnchanged, history, AckedSafe
<1>1. CASE PowerLoss
    BY <1>1, PowerLossLeaves DEF PowerLoss
<1>2. CASE \E j \in Ids : WriteBack(j)
    BY <1>2 DEF WriteBack
<1>3. ASSUME NEW p \in Procs, Step(p) PROVE disk'[i] = dir'[i] /\ dir'[i] # None
    <2> dirsync
        BY <1>3, StepIsLocal
    <2>1. CASE Aside(p)
        BY <2>1, AsideKeeps
    <2>2. CASE Installs(p)
        BY <2>2 DEF Installs, Install, Changed
    <2>3. CASE SyncDir(p)
        BY <2>3 DEF SyncDir
    <2>4. CASE Cleanup(p) \/ Kill(p)
        BY <2>4 DEF Cleanup, Kill
    <2>5. CASE Return(p)
        <3>1. req[p] \in Call
            BY <2>5 DEF Return, CallsInv, CallAt
        <3>2. i \in acked \/ (i = req[p].id /\ req[p].kind # "delete" /\ last[i] = p)
            BY <2>5 DEF Return
        <3>3. last[i] = p /\ i \in Ids => LastAt(i)
            BY DEF LastInv
        <3>4. QED
            BY <2>5, <3>1, <3>2, <3>3 DEF Return, LastAt, Call
    <2>6. CASE DeleteUnlink(p)
        BY <2>6 DEF DeleteUnlink, Changed
    <2>7. QED
        BY <1>3, <2>1, <2>2, <2>3, <2>4, <2>5, <2>6, StepKinds
<1>4. CASE UNCHANGED storeVars
    BY <1>4 DEF storeVars
<1>5. QED
    BY <1>1, <1>2, <1>3, <1>4 DEF StoreNext
-----------------------------------------------------------------------------
(* The theorems.                                                           *)

\* The invariant holds when the store opens.
LEMMA InvInit == StoreInit => StoreInv
<1> SUFFICES ASSUME StoreInit PROVE StoreInv
    OBVIOUS
<1>1. StoreType
    BY TypeInit
<1>2. CallsInv /\ LastInv /\ AckedSafe
    BY Sentinel DEF StoreInit, CallsInv, CallAt, TempAt, LastInv, LastAt, AckedSafe
<1>3. FilesSound
    BY DEF StoreInit, FilesSound, Sound
<1>4. QED
    BY <1>1, <1>2, <1>3 DEF StoreInv

\* Each call of FileSessionStore is where its files and its result say, only whole and
\* synced files have names, and what was acknowledged is on the disk.
THEOREM StoreInvariant == StoreSpec => []StoreInv
<1>1. StoreInv /\ [StoreNext]_storeVars => StoreInv'
    BY TypeStep, CallsStep, FilesStep, LastStep, AckedStep DEF StoreInv
<1>2. QED
    BY InvInit, <1>1, PTL DEF StoreSpec

\* A session whose save or create returned and which nobody changed since survives a
\* power loss, where directories can be synced.
THEOREM AcknowledgedSurvives == StoreSpec => []AckedSurvives
<1>1. StoreInv => AckedSurvives
    BY Sentinel DEF StoreInv, StoreType, AckedSafe, FilesSound, Sound, AckedSurvives, Loaded, File
<1>2. QED
    BY StoreInvariant, <1>1, PTL
-----------------------------------------------------------------------------
(* The refinement.                                                         *)

\* What a reader finds of a sound file is its snapshot.
LEMMA LoadedSound ==
    ASSUME NEW f \in File \cup {None}, Sound(f)
    PROVE  /\ Loaded(f) \in Data \cup {None}
           /\ Loaded(f) = None <=> f = None
           /\ f # None => Loaded(f) = f.data
BY Sentinel DEF Sound, Loaded, File

\* The store opens as the abstract one does.
LEMMA RefineInit == StoreInit => Abs!AbsInit
BY DEF StoreInit, Abs!AbsInit, Loaded, File

\* The steps that only prepare a call are invisible, and the others that name no file
\* invoke a call or give it a result that changes nothing.
LEMMA RefineAside ==
    ASSUME StoreInv, NEW p \in Procs, Aside(p)
    PROVE  [Abs!AbsNext]_(Abs!absVars)
<1> USE Sentinel DEF StoreInv, StoreType, CallUnchanged, history, Goto, Resolve
<1>a. dir' = dir /\ disk' = disk /\ links' = links
    BY AsideKeeps, StepIsLocal DEF Step, Aside
<1>1. ASSUME NEW k \in {"save", "create", "delete", "fork"}, NEW i \in Ids, NEW d \in Data \cup {None},
             k \in {"save", "create"} => d \in Data, k \notin {"save", "create"} => d = None,
             Begin(p, k, i, d)
      PROVE  Abs!Invoke(p)
    <2>1. Request(k, i, d) \in Abs!Requests
        BY <1>1 DEF Request, Abs!Requests
    <2>2. req[p] = None /\ req' = [req EXCEPT ![p] = Request(k, i, d)]
        BY <1>1, BeginDoes DEF CallsInv, CallAt
    <2>3. QED
        BY <1>a, <2>1, <2>2 DEF Abs!Invoke
<1>2. ASSUME NEW src \in Ids, ForkLoad(p, src) PROVE Abs!ReadSource(p)
    <2>1. req[p] # None /\ req[p].kind = "fork"
        BY <1>2 DEF ForkLoad, CallsInv, CallAt
    <2>2. QED
        BY <1>a, <1>2, <2>1 DEF ForkLoad, Abs!ReadSource, Abs!Finish
<1>3. CASE Mkstemp(p) \/ Write(p) \/ Fsync(p)
    BY <1>a, <1>3 DEF Mkstemp, Write, Fsync, Abs!absVars
<1>4. CASE Raise(p)
    <2>1. Abs!Pending(p)
        BY <1>4 DEF Raise, CallsInv, CallAt, Abs!Pending
    <2>2. Abs!Fail(p)
        BY <1>a, <1>4, <2>1 DEF Raise, Abs!Fail, Abs!Finish
    <2>3. QED
        BY <2>2 DEF Abs!AbsNext
<1>5. ASSUME pc[p] = "place", req[p].kind = "create", dir[req[p].id] # None, AlreadyExists(p)
      PROVE  Abs!Effect(p)
    <2>1. Abs!Pending(p) /\ req[p] \in Call
        BY <1>5 DEF CallsInv, CallAt, Abs!Pending
    <2>2. Loaded(dir[req[p].id]) # None
        BY <1>5, <2>1, LoadedSound DEF FilesSound, Call
    <2>3. QED
        BY <1>a, <1>5, <2>1, <2>2 DEF AlreadyExists, Abs!Effect, Abs!Finish, Call
<1>6. CASE Link(p) /\ dir[req[p].id] # None
    BY <1>5, <1>6 DEF Link, Abs!AbsNext
<1>7. CASE CheckAbsent(p)
    BY <1>a, <1>5, <1>7 DEF CheckAbsent, Abs!AbsNext, Abs!absVars
<1>8. CASE DeleteExists(p)
    <2>1. Abs!Pending(p) /\ req[p] \in Call /\ req[p].kind = "delete"
        BY <1>8 DEF DeleteExists, CallsInv, CallAt, Abs!Pending
    <2>2. ASSUME dir[req[p].id] = None PROVE Abs!Effect(p)
        BY <1>a, <1>8, <2>1, <2>2, LoadedSound DEF DeleteExists, Abs!Effect, Abs!Finish, Call, Loaded
    <2>3. QED
        BY <1>a, <1>8, <2>2 DEF DeleteExists, Abs!AbsNext, Abs!absVars
<1>9. QED
    BY <1>1, <1>2, <1>3, <1>4, <1>6, <1>7, <1>8 DEF Aside, Abs!AbsNext

\* A rename or a link is the instant at which a save or a create happens; it may replace
\* a session only in a save, or where there are no hard links.
LEMMA RefineInstall ==
    ASSUME StoreInv, NEW p \in Procs, Rename(p) \/ (Link(p) /\ dir[req[p].id] = None)
    PROVE  Abs!Effect(p)
<1> USE Sentinel DEF StoreInv, StoreType
<1>1. Installs(p) /\ (req[p].kind = "save" \/ ~links \/ dir[req[p].id] = None)
    BY DEF Installs, Rename, Link, CallsInv, CallAt
<1>2. /\ Abs!Pending(p) /\ req[p] \in Call /\ req[p].kind \in {"save", "create"}
      /\ tmp[p] \in File /\ tmp[p].whole /\ tmp[p].data = req[p].data
    BY <1>1 DEF Installs, CallsInv, CallAt, TempAt, Abs!Pending
<1>3. Loaded(tmp[p]) = req[p].data
    BY <1>2 DEF Loaded
<1>4. /\ dir' = [dir EXCEPT ![req[p].id] = tmp[p]] /\ disk' = disk /\ links' = links
      /\ req' = [req EXCEPT ![p].result = "ok"]
    BY <1>1 DEF Installs, Install, Resolve, CallUnchanged
<1>5. [i \in Ids |-> Loaded(dir[i])]' = [[i \in Ids |-> Loaded(dir[i])] EXCEPT ![req[p].id] = req[p].data]
    BY <1>2, <1>3, <1>4 DEF Call
<1>6. dir[req[p].id] = None => Loaded(dir[req[p].id]) = None
    BY DEF Loaded
<1>7. QED
    BY <1>1, <1>2, <1>4, <1>5, <1>6 DEF Abs!Effect, Abs!Finish, Call

\* An unlink is the instant of a delete, or its failure when the file is gone already.
LEMMA RefineUnlink ==
    ASSUME StoreInv, NEW p \in Procs, DeleteUnlink(p)
    PROVE  Abs!Effect(p) \/ Abs!Fail(p)
<1> USE Sentinel DEF StoreInv, StoreType
<1>1. Abs!Pending(p) /\ req[p] \in Call /\ req[p].kind = "delete"
    BY DEF DeleteUnlink, CallsInv, CallAt, Abs!Pending
<1>2. /\ dir' = [dir EXCEPT ![req[p].id] = None] /\ disk' = disk /\ links' = links
      /\ req' = [req EXCEPT ![p].result = IF dir[req[p].id] = None THEN "error" ELSE "ok"]
    BY DEF DeleteUnlink, Resolve, CallUnchanged
<1>3. CASE dir[req[p].id] = None
    <2>1. dir' = dir
        BY <1>1, <1>2, <1>3 DEF Call
    <2>2. QED
        BY <1>1, <1>2, <1>3, <2>1 DEF Abs!Fail, Abs!Finish
<1>4. CASE dir[req[p].id] # None
    <2>1. Loaded(dir[req[p].id]) # None
        BY <1>1, <1>4, LoadedSound DEF FilesSound, Call
    <2>2. [i \in Ids |-> Loaded(dir[i])]' = [[i \in Ids |-> Loaded(dir[i])] EXCEPT ![req[p].id] = None]
        BY <1>1, <1>2 DEF Call, Loaded
    <2>3. QED
        BY <1>1, <1>2, <1>4, <2>1, <2>2 DEF Abs!Effect, Abs!Finish, Call
<1>5. QED
    BY <1>3, <1>4

\* Power is lost as in the abstract store: under each id one of two whole snapshots is left.
LEMMA RefinePowerLoss ==
    ASSUME StoreInv, PowerLoss
    PROVE  Abs!PowerLoss
<1>1. PICK s \in [Ids -> BOOLEAN] : \A i \in Ids : dir'[i] = IF s[i] THEN dir[i] ELSE disk[i]
    BY PowerLossLeaves DEF StoreInv
<1>2. disk' = dir' /\ req' = [p \in Procs |-> None] /\ links' = links
    BY DEF PowerLoss, CallUnchanged
<1>3. [i \in Ids |-> Loaded(dir[i])]' =
        [i \in Ids |-> IF s[i] THEN [j \in Ids |-> Loaded(dir[j])][i] ELSE [j \in Ids |-> Loaded(disk[j])][i]]
    BY <1>1
<1>4. QED
    BY <1>2, <1>3 DEF Abs!PowerLoss

\* FileSessionStore implements the abstract store: every system call of it is a step of
\* the abstract store or is invisible to its readers.
THEOREM StoreImplements == StoreSpec => Implements
<1>1. StoreInv /\ [StoreNext]_storeVars => [Abs!AbsNext]_(Abs!absVars)
    <2> SUFFICES ASSUME StoreInv, [StoreNext]_storeVars PROVE [Abs!AbsNext]_(Abs!absVars)
        OBVIOUS
    <2> USE DEF Abs!AbsNext
    <2>1. CASE PowerLoss
        BY <2>1, RefinePowerLoss
    <2>2. ASSUME NEW j \in Ids, WriteBack(j) PROVE Abs!Stabilize
        <3>1. [i \in Ids |-> Loaded(disk[i])]' =
                [i \in Ids |-> IF i \in {j} THEN [k \in Ids |-> Loaded(dir[k])][i]
                              ELSE [k \in Ids |-> Loaded(disk[k])][i]]
            BY <2>2 DEF WriteBack, StoreInv, StoreType
        <3>2. dir' = dir /\ req' = req /\ links' = links
            BY <2>2 DEF WriteBack, CallUnchanged
        <3>3. QED
            BY <3>1, <3>2 DEF Abs!Stabilize
    <2>3. ASSUME NEW p \in Procs, Step(p) PROVE [Abs!AbsNext]_(Abs!absVars)
        <3>1. CASE Aside(p)
            BY <3>1, RefineAside
        <3>2. CASE Rename(p) \/ (Link(p) /\ dir[req[p].id] = None)
            BY <3>2, RefineInstall
        <3>3. CASE DeleteUnlink(p)
            BY <3>3, RefineUnlink
        <3>4. CASE SyncDir(p) /\ dirsync
            <4>1. disk' = dir /\ dir' = dir /\ req' = req /\ links' = links
                BY <3>4 DEF SyncDir, CallUnchanged
            <4>2. [i \in Ids |-> Loaded(disk[i])]' =
                    [i \in Ids |-> IF i \in Ids THEN [k \in Ids |-> Loaded(dir[k])][i]
                                  ELSE [k \in Ids |-> Loaded(disk[k])][i]]
                BY <4>1
            <4>3. Abs!Stabilize
                BY <4>1, <4>2 DEF Abs!Stabilize
            <4>4. QED
                BY <4>3
        <3>5. CASE (SyncDir(p) /\ ~dirsync) \/ Cleanup(p)
            BY <3>5 DEF SyncDir, Cleanup, CallUnchanged, Abs!absVars
        <3>6. CASE Return(p) \/ Kill(p)
            <4>1. req[p] # None
                BY <3>6 DEF Return, Kill, StoreInv, CallsInv, CallAt
            <4>2. Abs!Return(p)
                BY <3>6, <4>1 DEF Return, Kill, CallUnchanged, Abs!Return
            <4>3. QED
                BY <4>2
        <3>7. Step(p) => \/ Aside(p) \/ Rename(p) \/ (Link(p) /\ dir[req[p].id] = None)
                         \/ SyncDir(p) \/ Cleanup(p) \/ Return(p) \/ DeleteUnlink(p) \/ Kill(p)
            BY DEF Step, Aside
        <3>8. QED
            BY <2>3, <3>1, <3>2, <3>3, <3>4, <3>5, <3>6, <3>7
    <2>4. CASE UNCHANGED storeVars
        BY <2>4 DEF storeVars, Abs!absVars
    <2>5. QED
        BY <2>1, <2>2, <2>3, <2>4 DEF StoreNext
<1>2. QED
    BY RefineInit, StoreInvariant, <1>1, PTL DEF StoreSpec, Implements, Abs!AbsSpec

-----------------------------------------------------------------------------
(* SavedState.                                                             *)

SavedType ==
    /\ DOMAIN files = Sessions /\ DOMAIN owed = Sessions
    /\ \A s \in Sessions :
          /\ DOMAIN owed[s] = Names
          /\ files[s] # Nothing => DOMAIN files[s].state = Names
    /\ DOMAIN live = Names /\ DOMAIN saved = Names
    /\ proc \in Processes /\ cur \in Sessions \cup {Nothing}

KeptInv ==
    \A s \in Sessions : files[s] # Nothing =>
        \A n \in Names : owed[s][n] # Nothing => files[s].state[n] = owed[s][n]

\* The process that holds a session has what is owed to it, claimed or not yet.
HeldInv ==
    /\ cur = Nothing => \A n \in Names : live[n] = Nothing /\ saved[n] = Nothing
    /\ cur # Nothing => \A n \in Names :
          owed[cur][n] # Nothing /\ live[n] = Nothing => saved[n] = owed[cur][n]
    /\ cur # Nothing /\ files[cur] # Nothing => files[cur].version <= proc.release

SavedInv == SavedType /\ KeptInv /\ HeldInv

\* Nothing is saved at the start.
LEMMA SavedInvInit == SavedInit => SavedInv
BY DEF SavedInit, SavedInv, SavedType, KeptInv, HeldInv, Blank

\* A process ends and another one starts; a plugin changes its state; an intervention
\* is submitted.
LEMMA LiveSteps ==
    ASSUME SavedInv,
           \/ Exit \/ \E q \in Processes : Restart(q)
           \/ \E n \in Names, v \in Values : Update(n, v)
           \/ \E k \in Names : Submit(k)
    PROVE  SavedInv'
<1> USE DEF SavedInv
<1>1. CASE Exit
    BY <1>1 DEF Exit, Blank, SavedType, KeptInv, HeldInv
<1>2. CASE \E q \in Processes : Restart(q)
    BY <1>2 DEF Restart, SavedType, KeptInv, HeldInv
<1>3. CASE \E n \in Names, v \in Values : Update(n, v)
    <2>1. PICK n \in Names, v \in Values : Update(n, v)
        BY <1>3
    <2>2. v # Nothing /\ live[n] # Nothing
        BY <2>1, SavedAssumption DEF Update
    <2>3. QED
        BY <2>1, <2>2 DEF Update, SavedType, KeptInv, HeldInv
<1>4. CASE \E k \in Names : Submit(k)
    BY <1>4 DEF Submit, SavedType, KeptInv, HeldInv
<1>5. QED
    BY <1>1, <1>2, <1>3, <1>4

\* A session is begun, resumed or forked from its snapshot.
LEMMA OpenSteps ==
    ASSUME SavedInv, NEW s \in Sessions, NEW t \in Sessions,
           NewSession(s) \/ Resume(s) \/ Fork(s, t)
    PROVE  SavedInv'
<1> USE SavedAssumption DEF SavedInv
<1>1. CASE NewSession(s)
    BY <1>1 DEF NewSession, Blank, SavedType, KeptInv, HeldInv
<1>2. CASE Resume(s)
    <2>1. SavedType' /\ KeptInv'
        <3>1. /\ files[s] # Nothing /\ cur' = s /\ saved' = files[s].state
              /\ UNCHANGED <<files, proc, live, owed>>
            BY <1>2 DEF Resume
        <3>2. DOMAIN saved' = Names
            BY <3>1 DEF SavedType
        <3>3. QED
            BY <3>1, <3>2 DEF SavedType, KeptInv
    <2>2. HeldInv'
        BY <1>2 DEF Resume, Readable, SavedType, KeptInv, HeldInv
    <2>3. QED
        BY <2>1, <2>2
<1>3. CASE Fork(s, t)
    <2>1. SavedType'
        <3> DEFINE copy == [version |-> proc.release, state |-> files[s].state, inbox |-> inbox']
        <3>1. /\ files[s] # Nothing /\ cur' = t /\ saved' = files[s].state
              /\ files' = [files EXCEPT ![t] = copy] /\ copy.state = files[s].state
              /\ owed' = [owed EXCEPT ![t] = owed[s]]
              /\ UNCHANGED <<proc, live>>
            BY <1>3 DEF Fork
        <3> HIDE DEF copy
        <3>2. DOMAIN saved' = Names /\ DOMAIN copy.state = Names
            BY <3>1 DEF SavedType
        <3>3. QED
            BY <3>1, <3>2 DEF SavedType
    <2>2. KeptInv'
        BY <1>3 DEF Fork, SavedType, KeptInv
    <2>3. HeldInv'
        BY <1>3 DEF Fork, SavedType, KeptInv, HeldInv, Processes
    <2>4. QED
        BY <2>1, <2>2, <2>3
<1>4. QED
    BY <1>1, <1>2, <1>3

\* A plugin asks for its state, and what was saved for it is claimed.
LEMMA StateStep ==
    ASSUME SavedInv, NEW n \in Names, NEW restored \in BOOLEAN, State(n, restored)
    PROVE  SavedInv'
<1> USE DEF SavedInv
<1>1. /\ cur \in Sessions /\ live[n] = Nothing
      /\ saved' = [saved EXCEPT ![n] = Nothing]
      /\ UNCHANGED <<files, proc, cur>>
    BY DEF State, ClaimSaved, SavedType
<1>2. PICK v : v # Nothing /\ live' = [live EXCEPT ![n] = v]
    BY SavedAssumption DEF State, ClaimSaved, Restore
<1>3. \/ owed' = owed
      \/ owed' = [owed EXCEPT ![cur][n] = Nothing]
    BY DEF State
<1>4. SavedType'
    BY <1>1, <1>2, <1>3 DEF SavedType
<1>5. \A s \in Sessions, m \in Names : owed'[s][m] # Nothing => owed'[s][m] = owed[s][m]
    BY <1>1, <1>3 DEF SavedType
<1>6. KeptInv'
    BY <1>1, <1>5 DEF KeptInv
<1>7. HeldInv'
    <2>1. \A m \in Names : m # n => live'[m] = live[m] /\ saved'[m] = saved[m]
        BY <1>1, <1>2 DEF SavedType
    <2>2. live'[n] # Nothing
        BY <1>2 DEF SavedType
    <2>3. cur' # Nothing
        BY <1>1, SavedAssumption
    <2>4. \A m \in Names : owed'[cur][m] # Nothing /\ live'[m] = Nothing => saved'[m] = owed'[cur][m]
        BY <1>1, <1>5, <2>1, <2>2, <2>3 DEF HeldInv
    <2>5. QED
        BY <1>1, <2>3, <2>4 DEF HeldInv
<1>8. QED
    BY <1>4, <1>6, <1>7

\* AutoSave writes what the process holds over what it has not claimed.
LEMMA SaveStep ==
    ASSUME SavedInv, NEW undumped, Save(undumped)
    PROVE  SavedInv'
<1> USE DEF SavedInv
<1>1. /\ cur \in Sessions /\ UNCHANGED <<proc, cur, live, saved, inbox>>
      /\ files' = [files EXCEPT ![cur] = Snapshot(live, undumped)]
      /\ owed' = [owed EXCEPT ![cur] = Owing(owed[cur], live, undumped)]
    BY DEF Save, SavedType
<1>2. DOMAIN Snapshot(live, undumped).state = Names /\ Snapshot(live, undumped).version = proc.release
    BY DEF Snapshot, PersistedState
<1>3. \A n \in Names : Snapshot(live, undumped).state[n]
                          = IF live[n] # Nothing /\ n \notin undumped THEN live[n] ELSE saved[n]
    BY DEF Snapshot, PersistedState, Dumped
<1>4. DOMAIN Owing(owed[cur], live, undumped) = Names
    BY DEF Owing
<1>5. \A n \in Names : Owing(owed[cur], live, undumped)[n]
                          = IF live[n] = Nothing THEN owed[cur][n]
                            ELSE IF n \in undumped THEN Nothing ELSE live[n]
    BY DEF Owing
<1>6. proc.release \in Nat
    BY SavedAssumption DEF SavedType, Processes
<1>7. SavedType'
    BY <1>1, <1>2, <1>4 DEF SavedType
<1>8. KeptInv'
    BY <1>1, <1>3, <1>5, SavedAssumption DEF SavedType, KeptInv, HeldInv
<1>9. HeldInv'
    BY <1>1, <1>2, <1>5, <1>6, SavedAssumption DEF SavedType, HeldInv
<1>10. QED
    BY <1>7, <1>8, <1>9

\* A running session is forked.
LEMMA ForkLiveStep ==
    ASSUME SavedInv, NEW new \in Sessions, NEW uncopied, ForkLive(new, uncopied)
    PROVE  SavedInv'
<1> USE DEF SavedInv
<1>1. /\ cur \in Sessions /\ cur # new /\ files[new] = Nothing /\ cur' = new
      /\ UNCHANGED <<files, proc, saved, inbox>>
      /\ live' = [n \in Names |-> IF n \in uncopied THEN Nothing ELSE live[n]]
      /\ owed' = [owed EXCEPT ![new] = [n \in Names |-> IF live[n] # Nothing THEN Nothing ELSE owed[cur][n]]]
    BY DEF ForkLive, SavedType
<1>2. SavedType'
    BY <1>1 DEF SavedType
<1>3. KeptInv'
    BY <1>1 DEF SavedType, KeptInv
<1>4. HeldInv'
    BY <1>1, SavedAssumption DEF SavedType, HeldInv
<1>5. QED
    BY <1>2, <1>3, <1>4

\* Snapshots through any number of processes, releases and forks: what a plugin saved
\* stays until the plugin replaces it, and nobody holds a session of a newer schema.
THEOREM StateIsKept == SavedSpec => []StateKept
<1>1. SavedInv /\ [SavedNext]_savedVars => SavedInv'
    <2> SUFFICES ASSUME SavedInv, [SavedNext]_savedVars PROVE SavedInv'
        OBVIOUS
    <2>1. CASE UNCHANGED savedVars
        BY <2>1 DEF savedVars, SavedInv, SavedType, KeptInv, HeldInv
    <2>2. CASE SavedNext
        BY <2>2, LiveSteps, OpenSteps, StateStep, SaveStep, ForkLiveStep DEF SavedNext
    <2>3. QED
        BY <2>1, <2>2
<1>2. SavedInv => StateKept
    BY SavedAssumption DEF SavedInv, SavedType, KeptInv, HeldInv, StateKept
<1>3. QED
    BY SavedInvInit, <1>1, <1>2, PTL DEF SavedSpec

-----------------------------------------------------------------------------
(* MemoryStore.                                                            *)

CallFields == {"kind", "id", "text", "todo", "sig", "item", "saved", "out", "pc"}

Loading == {"stat", "lookup", "parse", "store"}

\* Where a call of each kind can be.
Places(kind) ==
    IF kind = "get" THEN Loading \cup {"return"}
    ELSE IF kind = "remember" THEN Loading
    ELSE IF kind = "search" THEN Loading \cup {"scan", "return"}
    ELSE IF kind = "save" THEN Loading \cup {"lock", "write", "replace", "return"}
    ELSE {"lock", "pop", "unlink", "return"}

CallType(r) ==
    /\ DOMAIN r = CallFields /\ r.id \in MemIds /\ r.todo \subseteq MemIds /\ DOMAIN r.out = MemIds
    /\ r.kind \in {"get", "remember", "search", "save", "delete"} /\ r.pc \in Places(r.kind)
    /\ r.saved \in BOOLEAN

MemType ==
    /\ DOMAIN notes = MemIds /\ DOMAIN past = MemIds
    /\ DOMAIN temps = Callers /\ DOMAIN op = Callers /\ DOMAIN seen = Callers
    /\ DOMAIN cache = Stores /\ \A q \in Stores : DOMAIN cache[q] = MemIds
    /\ \A c \in Callers : op[c] # Absent => CallType(op[c])

\* A signature that a store or a call remembers is one the file has had.
SigInv ==
    /\ \A i \in MemIds : notes[i] # Absent => Signature(notes[i]) \in past[i]
    /\ \A q \in Stores, i \in MemIds : cache[q][i] # Absent => cache[q][i].sig \in past[i]
    /\ \A c \in Callers : op[c] # Absent /\ op[c].pc \in {"lookup", "parse", "store"} =>
                            op[c].sig \in past[op[c].id]

\* An item remembered under the file's signature is the file's item.
CoherentInv ==
    /\ \A q \in Stores, i \in MemIds \ recurred :
          notes[i] # Absent /\ cache[q][i] # Absent /\ cache[q][i].sig = Signature(notes[i]) =>
              cache[q][i].item = ItemOf(notes[i])
    /\ \A c \in Callers : At(c, "store") /\ op[c].id \notin recurred
            /\ notes[op[c].id] # Absent /\ op[c].sig = Signature(notes[op[c].id]) =>
              op[c].item = ItemOf(notes[op[c].id])

Reads(c) == op[c] # Absent /\ op[c].kind \in {"get", "search"}

\* An item under an older signature, which a call that took that signature may still
\* be given, is of a moment of that call.
SeenInv ==
    \A c \in Callers : Reads(c) =>
        /\ \A i \in MemIds : <<i, ItemOf(notes[i])>> \in seen[c]
        /\ op[c].pc = "lookup" /\ op[c].id \notin recurred =>
              /\ \A q \in Stores : cache[q][op[c].id] # Absent /\ cache[q][op[c].id].sig = op[c].sig =>
                    <<op[c].id, cache[q][op[c].id].item>> \in seen[c]
              /\ \A d \in Callers : At(d, "store") /\ op[d].id = op[c].id /\ op[d].sig = op[c].sig =>
                    <<op[c].id, op[d].item>> \in seen[c]
        /\ op[c].pc = "store" => <<op[c].id, op[c].item>> \in seen[c]

\* A search has an answer for the ids it is through with, a get for its own.
OutOk(r, held) ==
    /\ r.kind = "search" /\ r.pc = "scan" => \A i \in MemIds : r.out[i] = Absent
    /\ r.kind = "search" /\ r.pc # "scan" =>
          /\ \A i \in MemIds \ (r.todo \cup recurred) : <<i, r.out[i]>> \in held
          /\ r.pc \in Loading => r.id \in r.todo
          /\ r.pc = "return" => r.todo = {}
    /\ r.kind = "get" /\ r.pc = "return" /\ r.id \notin recurred => <<r.id, r.out[r.id]>> \in held

OutInv == \A c \in Callers : Reads(c) => OutOk(op[c], seen[c])

MemInv == MemType /\ SigInv /\ CoherentInv /\ SeenInv /\ OutInv

\* The calls of threads that end, and what a store forgets, take nothing with them.
LEMMA Vanishes ==
    ASSUME MemInv, UNCHANGED <<notes, past, recurred>>,
           DOMAIN temps' = Callers, DOMAIN op' = Callers, DOMAIN seen' = Callers,
           \A c \in Callers : op'[c] = Absent \/ (op'[c] = op[c] /\ seen'[c] = seen[c]),
           DOMAIN cache' = Stores, \A q \in Stores : DOMAIN cache'[q] = MemIds,
           \A q \in Stores, i \in MemIds : cache'[q][i] \in {cache[q][i], Absent}
    PROVE  MemInv'
<1> USE DEF MemInv
<1>1. MemType'
    BY DEF MemType, CallType
<1>2. SigInv'
    BY DEF MemType, SigInv, Signature
<1>3. CoherentInv'
    BY DEF CoherentInv, At, Signature, ItemOf
<1>4. SeenInv'
    <2> SUFFICES ASSUME NEW d \in Callers, Reads(d)'
                 PROVE  /\ \A i \in MemIds : <<i, ItemOf(notes[i])>> \in seen'[d]
                        /\ op'[d].pc = "lookup" /\ op'[d].id \notin recurred =>
                              /\ \A q \in Stores : cache'[q][op'[d].id] # Absent /\ cache'[q][op'[d].id].sig = op'[d].sig =>
                                    <<op'[d].id, cache'[q][op'[d].id].item>> \in seen'[d]
                              /\ \A e \in Callers : op'[e] # Absent /\ op'[e].pc = "store"
                                    /\ op'[e].id = op'[d].id /\ op'[e].sig = op'[d].sig =>
                                        <<op'[d].id, op'[e].item>> \in seen'[d]
                        /\ op'[d].pc = "store" => <<op'[d].id, op'[d].item>> \in seen'[d]
        BY DEF SeenInv, At, ItemOf
    <2>1. op'[d] = op[d] /\ seen'[d] = seen[d] /\ Reads(d) /\ op[d].id \in MemIds
        BY DEF Reads, MemType, CallType
    <2>2. \A q \in Stores : cache'[q][op[d].id] \in {cache[q][op[d].id], Absent}
        BY <2>1
    <2>3. QED
        BY <2>1, <2>2, SMTT(30) DEF SeenInv, At
<1>5. OutInv'
    BY DEF OutInv, OutOk, Reads
<1>6. QED
    BY <1>1, <1>2, <1>3, <1>4, <1>5

\* A call goes on with r, and may put what it has read into the cache.
LEMMA CallMoves ==
    ASSUME MemInv, NEW c \in Callers, NEW r, op' = [op EXCEPT ![c] = r],
           UNCHANGED <<notes, past, recurred>>, DOMAIN temps' = Callers,
           DOMAIN cache' = Stores, \A q \in Stores : DOMAIN cache'[q] = MemIds,
           \A q \in Stores, i \in MemIds :
              \/ cache'[q][i] \in {cache[q][i], Absent}
              \/ /\ At(c, "store") /\ i = op[c].id
                 /\ cache'[q][i].sig = op[c].sig /\ cache'[q][i].item = op[c].item,
           DOMAIN seen' = Callers, \A d \in Callers \ {c} : seen'[d] = seen[d],
           r # Absent => CallType(r),
           r # Absent /\ r.pc = "lookup" => notes[r.id] # Absent /\ r.sig = Signature(notes[r.id]),
           r # Absent /\ r.pc = "parse" => r.sig \in past[r.id],
           r # Absent /\ r.pc = "store" =>
              r.sig \in past[r.id] /\ notes[r.id] # Absent /\ r.item = ItemOf(notes[r.id]),
           r # Absent /\ r.kind \in {"get", "search"} =>
              OutOk(r, seen'[c]) /\ \A i \in MemIds : <<i, ItemOf(notes[i])>> \in seen'[c]
    PROVE  MemInv'
<1> USE DEF MemInv
<1>1. DOMAIN op' = Callers /\ op'[c] = r /\ \A d \in Callers \ {c} : op'[d] = op[d]
    BY DEF MemType
<1>2. MemType'
    BY <1>1 DEF MemType, CallType
<1>3. SigInv'
    <2>1. \A i \in MemIds : notes'[i] # Absent => Signature(notes'[i]) \in past'[i]
        BY DEF SigInv, Signature
    <2>2. \A q \in Stores, i \in MemIds : cache'[q][i] # Absent => cache'[q][i].sig \in past'[i]
        BY DEF SigInv, At
    <2>3. ASSUME NEW d \in Callers, op'[d] # Absent, op'[d].pc \in {"lookup", "parse", "store"}
          PROVE  op'[d].sig \in past'[op'[d].id]
        BY <1>1, <2>3 DEF SigInv, CallType
    <2>4. QED
        BY <2>1, <2>2, <2>3 DEF SigInv, Signature
<1>4. CoherentInv'
    <2>1. ASSUME NEW q \in Stores, NEW i \in MemIds, i \notin recurred,
                 notes[i] # Absent, cache'[q][i] # Absent, cache'[q][i].sig = Signature(notes[i])
          PROVE  cache'[q][i].item = ItemOf(notes[i])
        BY <2>1 DEF CoherentInv
    <2>2. ASSUME NEW d \in Callers, op'[d] # Absent, op'[d].pc = "store", op'[d].id \notin recurred,
                 notes[op'[d].id] # Absent, op'[d].sig = Signature(notes[op'[d].id])
          PROVE  op'[d].item = ItemOf(notes[op'[d].id])
        BY <1>1, <2>2 DEF CoherentInv, At
    <2>3. QED
        BY <2>1, <2>2 DEF CoherentInv, At, Signature, ItemOf
<1>5. SeenInv'
    <2> SUFFICES ASSUME NEW d \in Callers, Reads(d)'
                 PROVE  /\ \A i \in MemIds : <<i, ItemOf(notes[i])>> \in seen'[d]
                        /\ op'[d].pc = "lookup" /\ op'[d].id \notin recurred =>
                              /\ \A q \in Stores : cache'[q][op'[d].id] # Absent /\ cache'[q][op'[d].id].sig = op'[d].sig =>
                                    <<op'[d].id, cache'[q][op'[d].id].item>> \in seen'[d]
                              /\ \A e \in Callers : op'[e] # Absent /\ op'[e].pc = "store"
                                    /\ op'[e].id = op'[d].id /\ op'[e].sig = op'[d].sig =>
                                        <<op'[d].id, op'[e].item>> \in seen'[d]
                        /\ op'[d].pc = "store" => <<op'[d].id, op'[d].item>> \in seen'[d]
        BY DEF SeenInv, At, ItemOf
    <2>1. \A i \in MemIds : <<i, ItemOf(notes[i])>> \in seen'[d]
        BY <1>1 DEF Reads, SeenInv
    <2>2. op'[d].id \in MemIds
        BY <1>1 DEF Reads, MemType, CallType
    <2>3. CASE d = c
        <3>1. r # Absent /\ op'[d] = r /\ r.id \in MemIds
            BY <1>1, <2>2, <2>3 DEF Reads
        <3>2. ASSUME r.pc = "lookup", r.id \notin recurred, NEW q \in Stores,
                     cache'[q][r.id] # Absent, cache'[q][r.id].sig = r.sig
              PROVE  <<r.id, cache'[q][r.id].item>> \in seen'[d]
            <4>1. cache'[q][r.id].item = ItemOf(notes[r.id])
                BY <1>4, <3>1, <3>2 DEF CoherentInv, Signature, ItemOf
            <4>2. QED
                BY <2>1, <3>1, <4>1
        <3>3. ASSUME r.pc = "lookup", r.id \notin recurred, NEW e \in Callers, op'[e] # Absent,
                     op'[e].pc = "store", op'[e].id = r.id, op'[e].sig = r.sig
              PROVE  <<r.id, op'[e].item>> \in seen'[d]
            <4>1. op'[e].item = ItemOf(notes[r.id])
                BY <1>4, <3>1, <3>3 DEF CoherentInv, At, Signature, ItemOf
            <4>2. QED
                BY <2>1, <3>1, <4>1
        <3>4. r.pc = "store" => <<r.id, r.item>> \in seen'[d]
            BY <2>1, <3>1
        <3>5. QED
            BY <2>1, <3>1, <3>2, <3>3, <3>4
    <2>4. CASE d # c
        <3>1. op'[d] = op[d] /\ seen'[d] = seen[d] /\ Reads(d)
            BY <1>1, <2>4 DEF Reads
        <3>2. ASSUME op[d].pc = "lookup", op[d].id \notin recurred, NEW q \in Stores,
                     cache'[q][op[d].id] # Absent, cache'[q][op[d].id].sig = op[d].sig
              PROVE  <<op[d].id, cache'[q][op[d].id].item>> \in seen[d]
            <4> DEFINE i == op[d].id
            <4>1. i \in MemIds
                BY <2>2, <3>1
            <4>2. CASE cache'[q][i] = cache[q][i]
                BY <3>1, <3>2, <4>1, <4>2 DEF SeenInv
            <4>3. CASE /\ At(c, "store") /\ i = op[c].id
                       /\ cache'[q][i].sig = op[c].sig /\ cache'[q][i].item = op[c].item
                BY <3>1, <3>2, <4>1, <4>3 DEF SeenInv
            <4>4. QED
                BY <3>2, <4>1, <4>2, <4>3
        <3>3. ASSUME op[d].pc = "lookup", op[d].id \notin recurred, NEW e \in Callers, op'[e] # Absent,
                     op'[e].pc = "store", op'[e].id = op[d].id, op'[e].sig = op[d].sig
              PROVE  <<op[d].id, op'[e].item>> \in seen[d]
            <4>1. CASE e = c
                BY <1>1, <2>1, <2>2, <3>1, <3>3, <4>1
            <4>2. CASE e # c
                BY <1>1, <3>1, <3>3, <4>2 DEF SeenInv, At
            <4>3. QED
                BY <4>1, <4>2
        <3>4. QED
            BY <2>1, <3>1, <3>2, <3>3, SMTT(30) DEF SeenInv
    <2>5. QED
        BY <2>3, <2>4
<1>6. OutInv'
    <2> SUFFICES ASSUME NEW d \in Callers, Reads(d)' PROVE OutOk(op'[d], seen'[d])
        BY DEF OutInv, OutOk
    <2>1. CASE d = c
        BY <1>1, <2>1 DEF Reads
    <2>2. CASE d # c
        BY <1>1, <2>2 DEF Reads, OutInv
    <2>3. QED
        BY <2>1, <2>2
<1>7. QED
    BY <1>2, <1>3, <1>4, <1>5, <1>6

\* The file of i becomes f, or goes.  A signature that is new to i is in no cache.
LEMMA NotesMove ==
    ASSUME MemInv, NEW i \in MemIds, NEW f, NotesBecome([notes EXCEPT ![i] = f], i),
           \/ Recorded(i, f)
           \/ f = Absent /\ UNCHANGED <<past, recurred>>,
           UNCHANGED cache, DOMAIN temps' = Callers, DOMAIN op' = Callers,
           \A c \in Callers :
              \/ op'[c] = op[c]
              \/ /\ op[c] # Absent /\ op[c].kind \notin {"get", "search"} /\ CallType(op'[c])
                 /\ op'[c].kind \notin {"get", "search"} /\ op'[c].pc \notin {"lookup", "parse", "store"}
    PROVE  MemInv'
<1> USE DEF MemInv
<1>1. /\ DOMAIN notes' = MemIds /\ notes'[i] = f /\ \A j \in MemIds \ {i} : notes'[j] = notes[j]
      /\ DOMAIN seen' = Callers
      /\ \A c \in Callers : Reads(c) => seen'[c] = seen[c] \cup {<<i, ItemOf(f)>>}
    BY DEF NotesBecome, MemType, Reads
<1>2. /\ DOMAIN past' = MemIds /\ \A j \in MemIds : past[j] \subseteq past'[j]
      /\ recurred \subseteq recurred'
      /\ f # Absent => Signature(f) \in past'[i]
      /\ f # Absent /\ i \notin recurred' => Signature(f) \notin past[i]
    BY DEF Recorded, MemType, Signature
<1>3. MemType'
    BY <1>1, <1>2 DEF MemType, CallType
<1>4. SigInv'
    <2>1. \A j \in MemIds : notes'[j] # Absent => Signature(notes'[j]) \in past'[j]
        BY <1>1, <1>2 DEF SigInv
    <2>2. \A q \in Stores, j \in MemIds : cache'[q][j] # Absent => cache'[q][j].sig \in past'[j]
        BY <1>2 DEF SigInv
    <2>3. \A c \in Callers : op'[c] # Absent /\ op'[c].pc \in {"lookup", "parse", "store"} =>
                                op'[c].sig \in past'[op'[c].id]
        BY <1>2 DEF SigInv, MemType, CallType
    <2>4. QED
        BY <2>1, <2>2, <2>3 DEF SigInv, Signature
<1>5. CoherentInv'
    <2>1. ASSUME NEW q \in Stores, NEW j \in MemIds, j \notin recurred',
                 notes'[j] # Absent, cache[q][j] # Absent, cache[q][j].sig = Signature(notes'[j])
          PROVE  cache[q][j].item = ItemOf(notes'[j])
        <3>1. cache[q][j].sig \in past[j]
            BY <2>1 DEF SigInv
        <3>2. j # i
            BY <1>1, <1>2, <2>1, <3>1
        <3>3. QED
            BY <1>1, <1>2, <2>1, <3>2 DEF CoherentInv
    <2>2. ASSUME NEW c \in Callers, op'[c] # Absent, op'[c].pc = "store", op'[c].id \notin recurred',
                 notes'[op'[c].id] # Absent, op'[c].sig = Signature(notes'[op'[c].id])
          PROVE  op'[c].item = ItemOf(notes'[op'[c].id])
        <3>1. op'[c] = op[c] /\ op[c].sig \in past[op[c].id] /\ op[c].id \in MemIds
            BY <2>2 DEF SigInv, MemType, CallType
        <3>2. op[c].id # i
            BY <1>1, <1>2, <2>2, <3>1
        <3>3. QED
            BY <1>1, <1>2, <2>2, <3>1, <3>2 DEF CoherentInv, At
    <2>3. QED
        BY <2>1, <2>2 DEF CoherentInv, At, Signature, ItemOf
<1>6. ASSUME NEW d \in Callers, Reads(d)'
      PROVE  /\ op'[d] = op[d] /\ Reads(d) /\ op[d].id \in MemIds
             /\ seen[d] \subseteq seen'[d] /\ <<i, ItemOf(f)>> \in seen'[d]
    BY <1>1, <1>6 DEF Reads, MemType, CallType
<1>7. SeenInv'
    <2> SUFFICES ASSUME NEW d \in Callers, Reads(d)'
                 PROVE  /\ \A j \in MemIds : <<j, ItemOf(notes'[j])>> \in seen'[d]
                        /\ op'[d].pc = "lookup" /\ op'[d].id \notin recurred' =>
                              /\ \A q \in Stores : cache[q][op'[d].id] # Absent /\ cache[q][op'[d].id].sig = op'[d].sig =>
                                    <<op'[d].id, cache[q][op'[d].id].item>> \in seen'[d]
                              /\ \A e \in Callers : op'[e] # Absent /\ op'[e].pc = "store"
                                    /\ op'[e].id = op'[d].id /\ op'[e].sig = op'[d].sig =>
                                        <<op'[d].id, op'[e].item>> \in seen'[d]
                        /\ op'[d].pc = "store" => <<op'[d].id, op'[d].item>> \in seen'[d]
        BY DEF SeenInv, At, ItemOf
    <2>1. \A j \in MemIds : <<j, ItemOf(notes'[j])>> \in seen'[d]
        BY <1>1, <1>6 DEF SeenInv
    <2>2. \A e \in Callers : op'[e] # Absent /\ op'[e].pc = "store" => op'[e] = op[e]
        OBVIOUS
    <2>3. QED
        BY <1>2, <1>6, <2>1, <2>2, SMTT(30) DEF SeenInv, At
<1>8. OutInv'
    <2> SUFFICES ASSUME NEW d \in Callers, Reads(d)' PROVE OutOk(op[d], seen[d])'
        BY DEF OutInv
    <2>1. OutOk(op[d], seen[d])
        BY <1>6 DEF OutInv
    <2>2. QED
        BY <1>2, <1>6, <2>1 DEF OutOk
<1>9. QED
    BY <1>3, <1>4, <1>5, <1>7, <1>8

\* What _load found is the answer for the id it was asked for; a search goes on.
LEMMA ParsedGoesOn ==
    ASSUME NEW call, NEW item, NEW held, CallType(call), call.pc \in Loading, call.kind # "delete",
           call.kind \in {"get", "search"} /\ call.id \notin recurred => <<call.id, item>> \in held,
           call.kind \in {"get", "search"} => OutOk(call, held)
    PROVE  /\ CallType(Parsed(call, item))
           /\ Parsed(call, item).pc \notin {"lookup", "parse", "store"}
           /\ Parsed(call, item).kind \in {"get", "search"} =>
                 call.kind \in {"get", "search"} /\ OutOk(Parsed(call, item), held)
<1> DEFINE r == [call EXCEPT !.sig = Absent, !.item = Absent]
           p == Parsed(call, item)
<1>1. /\ DOMAIN r = CallFields /\ r.kind = call.kind /\ r.id = call.id /\ r.todo = call.todo
      /\ r.out = call.out /\ r.saved = call.saved /\ r.pc = call.pc
      /\ DOMAIN call.out = MemIds /\ call.id \in MemIds /\ call.todo \subseteq MemIds
      /\ call.saved \in BOOLEAN
    BY DEF CallType, CallFields
<1>2. CASE call.kind = "remember"
    <2>1. p = [r EXCEPT !.kind = "save", !.pc = "lock"]
        BY <1>1, <1>2 DEF Parsed
    <2> HIDE DEF r, p
    <2>2. QED
        BY <1>1, <2>1 DEF CallType, CallFields, Places, p
<1>3. CASE call.kind = "save" /\ ~call.saved
    <2>1. p = [r EXCEPT !.pc = "write", !.text = <<>>,
                        !.item = Item(r.text, IF item = Absent THEN clock ELSE item.created)]
        BY <1>1, <1>3 DEF Parsed
    <2> HIDE DEF r, p
    <2>2. QED
        BY <1>1, <1>3, <2>1 DEF CallType, CallFields, Places, p
<1>4. CASE call.kind = "save" /\ call.saved
    <2>1. p = [r EXCEPT !.pc = "return"]
        BY <1>1, <1>4 DEF Parsed
    <2> HIDE DEF r, p
    <2>2. QED
        BY <1>1, <1>4, <2>1 DEF CallType, CallFields, Places, p
<1>5. CASE call.kind = "get"
    <2>1. p = [r EXCEPT !.pc = "return", !.out[r.id] = item]
        BY <1>1, <1>5 DEF Parsed
    <2> HIDE DEF r, p
    <2>2. /\ DOMAIN p = CallFields /\ p.kind = "get" /\ p.pc = "return" /\ p.id = call.id /\ p.todo = call.todo
          /\ p.saved = call.saved /\ DOMAIN p.out = MemIds /\ p.out[call.id] = item
        BY <1>1, <1>5, <2>1 DEF CallFields
    <2>3. CallType(p)
        BY <1>1, <2>2 DEF CallType, Places
    <2>4. OutOk(p, held)
        BY <1>5, <2>2 DEF OutOk
    <2>5. QED
        BY <1>5, <2>2, <2>3, <2>4 DEF p
<1>6. CASE call.kind = "search"
    <2> DEFINE left == call.todo \ {call.id}
               next == IF left = {} THEN call.id ELSE CHOOSE i \in left : TRUE
               place == IF left = {} THEN "return" ELSE "stat"
    <2>1. p = [r EXCEPT !.out[r.id] = item, !.todo = left, !.pc = place, !.id = next]
        BY <1>1, <1>6 DEF Parsed
    <2>2. /\ left = {} => next = call.id /\ place = "return"
          /\ left # {} => next \in left /\ place = "stat"
        OBVIOUS
    <2>3. next \in MemIds
        BY <1>1, <2>2
    <2> HIDE DEF r, p, left, next, place
    <2>4. /\ DOMAIN p = CallFields /\ p.kind = "search" /\ p.pc = place /\ p.id = next /\ p.todo = left
          /\ p.saved = call.saved /\ DOMAIN p.out = MemIds /\ p.out[call.id] = item
          /\ \A i \in MemIds \ {call.id} : p.out[i] = call.out[i]
        BY <1>1, <1>6, <2>1 DEF CallFields
    <2>5. CallType(p)
        BY <1>1, <2>2, <2>3, <2>4 DEF CallType, Places, Loading, left
    <2>6. OutOk(p, held)
        <3>1. \A i \in MemIds \ (call.todo \cup recurred) : <<i, call.out[i]>> \in held
            BY <1>6 DEF OutOk, Loading
        <3>2. \A i \in MemIds \ (left \cup recurred) : <<i, p.out[i]>> \in held
            BY <1>6, <2>4, <3>1 DEF left
        <3>3. QED
            BY <2>2, <2>4, <3>2 DEF OutOk, Loading
    <2>7. QED
        BY <1>6, <2>2, <2>4, <2>5, <2>6 DEF p
<1>7. QED
    BY <1>2, <1>3, <1>4, <1>5, <1>6 DEF CallType

\* The directory and the caches are empty of calls at the start.
LEMMA MemInvInit == MemInit => MemInv
<1> SUFFICES ASSUME MemInit PROVE MemInv
    OBVIOUS
<1>1. DOMAIN notes = MemIds /\ \A i \in MemIds : notes[i] # Absent => notes[i].mtime = 0
    BY DEF MemInit
<1>2. MemType
    BY <1>1 DEF MemInit, MemType
<1>3. SigInv
    BY <1>1 DEF MemInit, SigInv, Signature
<1>4. CoherentInv /\ SeenInv /\ OutInv
    BY DEF MemInit, CoherentInv, SeenInv, OutInv, Reads, At
<1>5. QED
    BY <1>2, <1>3, <1>4 DEF MemInv

\* A call begins, with what the directory holds.
LEMMA BeginStep ==
    ASSUME MemInv, NEW c \in Callers, NEW i \in MemIds, NEW t,
           NEW kind \in {"get", "remember", "search", "save", "delete"}, BeginCall(c, kind, i, t)
    PROVE  MemInv'
<1> DEFINE r == [kind |-> kind, id |-> i, text |-> t, todo |-> {}, sig |-> Absent, item |-> Absent,
                 saved |-> FALSE, out |-> [j \in MemIds |-> Absent],
                 pc |-> CASE kind \in {"get", "remember"} -> "stat"
                          [] kind = "search" -> "scan" [] OTHER -> "lock"]
<1>1. /\ op' = [op EXCEPT ![c] = r]
      /\ seen' = [seen EXCEPT ![c] = IF kind \in {"get", "search"}
                                     THEN {<<j, ItemOf(notes[j])>> : j \in MemIds} ELSE {}]
      /\ UNCHANGED <<notes, temps, cache, past, recurred>>
    BY DEF BeginCall
<1>2. /\ DOMAIN r = CallFields /\ r.kind = kind /\ r.id = i /\ r.todo = {} /\ r.saved = FALSE
      /\ r.out = [j \in MemIds |-> Absent]
    BY DEF CallFields
<1>3. /\ kind \in {"get", "remember"} => r.pc = "stat"
      /\ kind = "search" => r.pc = "scan"
      /\ kind \in {"save", "delete"} => r.pc = "lock"
    OBVIOUS
<1> HIDE DEF r
<1>4. CallType(r)
    BY <1>2, <1>3 DEF CallType, Places, Loading
<1>5. \A held : OutOk(r, held)
    BY <1>2, <1>3 DEF OutOk
<1>6. /\ DOMAIN seen' = Callers /\ \A d \in Callers \ {c} : seen'[d] = seen[d]
      /\ kind \in {"get", "search"} => \A j \in MemIds : <<j, ItemOf(notes[j])>> \in seen'[c]
    BY <1>1 DEF MemInv, MemType
<1>7. r.pc \notin {"lookup", "parse", "store"}
    BY <1>3
<1>8. DOMAIN temps' = Callers /\ DOMAIN cache' = Stores /\ \A q \in Stores : DOMAIN cache'[q] = MemIds
    BY <1>1 DEF MemInv, MemType
<1>9. QED
    BY <1>1, <1>2, <1>4, <1>5, <1>6, <1>7, <1>8, CallMoves

\* Putting an entry for the call's id into its store's cache.
LEMMA PutEntry ==
    ASSUME MemInv, NEW c \in Callers, op[c] # Absent, NEW e, Put(c, e)
    PROVE  /\ DOMAIN cache' = Stores /\ \A q \in Stores : DOMAIN cache'[q] = MemIds
           /\ \A q \in Stores, i \in MemIds :
                 cache'[q][i] = IF q = Process[c] /\ i = op[c].id THEN e ELSE cache[q][i]
<1>1. Process[c] \in Stores /\ op[c].id \in MemIds
    BY DEF Stores, MemInv, MemType, CallType
<1>2. QED
    BY <1>1 DEF Put, MemInv, MemType

\* What is true of a call that is about to go on.
LEMMA CallNow ==
    ASSUME MemInv, NEW c \in Callers, op[c] # Absent
    PROVE  /\ CallType(op[c])
           /\ DOMAIN temps = Callers /\ DOMAIN seen = Callers
           /\ DOMAIN cache = Stores /\ \A q \in Stores : DOMAIN cache[q] = MemIds
           /\ op[c].kind \in {"get", "search"} =>
                 OutOk(op[c], seen[c]) /\ \A i \in MemIds : <<i, ItemOf(notes[i])>> \in seen[c]
BY DEF MemInv, MemType, SeenInv, OutInv, Reads

\* _load: the signature, the cached entry, the file, the new entry.
LEMMA LoadSteps ==
    ASSUME MemInv, NEW c \in Callers, Stat(c) \/ Lookup(c) \/ ReadFile(c) \/ StoreEntry(c)
    PROVE  MemInv'
<1> DEFINE i == op[c].id
<1>1. /\ op[c] # Absent /\ op[c].pc \in Loading
      /\ UNCHANGED <<notes, temps, seen, past, recurred>>
    BY DEF Stat, Lookup, ReadFile, StoreEntry, At, Loading
<1>2. /\ CallType(op[c]) /\ i \in MemIds /\ op[c].kind # "delete"
      /\ DOMAIN temps = Callers /\ DOMAIN seen = Callers
      /\ DOMAIN cache = Stores /\ \A q \in Stores : DOMAIN cache[q] = MemIds
      /\ op[c].kind \in {"get", "search"} =>
            OutOk(op[c], seen[c]) /\ \A j \in MemIds : <<j, ItemOf(notes[j])>> \in seen[c]
    BY <1>1, CallNow DEF CallType, Places, Loading
<1>3. ASSUME NEW item, op' = [op EXCEPT ![c] = Parsed(op[c], item)],
             op[c].kind \in {"get", "search"} /\ i \notin recurred => <<i, item>> \in seen[c],
             DOMAIN cache' = Stores, \A q \in Stores : DOMAIN cache'[q] = MemIds,
             \A q \in Stores, j \in MemIds :
                \/ cache'[q][j] \in {cache[q][j], Absent}
                \/ /\ At(c, "store") /\ j = i
                   /\ cache'[q][j].sig = op[c].sig /\ cache'[q][j].item = op[c].item
      PROVE  MemInv'
    <2> DEFINE r == Parsed(op[c], item)
    <2>1. /\ CallType(r) /\ r.pc \notin {"lookup", "parse", "store"}
          /\ r.kind \in {"get", "search"} => op[c].kind \in {"get", "search"} /\ OutOk(r, seen[c])
        BY <1>1, <1>2, <1>3, ParsedGoesOn
    <2> HIDE DEF r
    <2>2. op' = [op EXCEPT ![c] = r]
        BY <1>3 DEF r
    <2>3. QED
        BY <1>1, <1>2, <1>3, <2>1, <2>2, CallMoves
<1>4. ASSUME NEW r, op' = [op EXCEPT ![c] = r], UNCHANGED cache, CallType(r),
             r.kind = op[c].kind, r.id = i, r.todo = op[c].todo, r.out = op[c].out,
             r.pc \in {"lookup", "parse", "store"},
             r.pc = "lookup" => notes[i] # Absent /\ r.sig = Signature(notes[i]),
             r.pc # "lookup" => r.sig = op[c].sig /\ op[c].pc \in {"lookup", "parse"},
             r.pc = "store" => notes[i] # Absent /\ r.item = ItemOf(notes[i])
      PROVE  MemInv'
    <2>1. r.kind \in {"get", "search"} => OutOk(r, seen[c])
        BY <1>1, <1>2, <1>4 DEF OutOk, Loading
    <2>2. r.pc # "lookup" => r.sig \in past[i]
        BY <1>1, <1>4 DEF MemInv, SigInv
    <2>3. QED
        BY <1>1, <1>2, <1>4, <2>1, <2>2, CallMoves
<1>5. CASE Stat(c)
    <2>1. CASE notes[i] = Absent
        <3>1. Put(c, Absent) /\ op' = [op EXCEPT ![c] = Parsed(op[c], Absent)]
            BY <1>5, <2>1 DEF Stat, Go
        <3>2. op[c].kind \in {"get", "search"} => <<i, Absent>> \in seen[c]
            BY <1>2, <2>1 DEF ItemOf
        <3>3. /\ DOMAIN cache' = Stores /\ \A q \in Stores : DOMAIN cache'[q] = MemIds
              /\ \A q \in Stores, j \in MemIds : cache'[q][j] \in {cache[q][j], Absent}
            BY <1>1, <3>1, PutEntry
        <3>4. QED
            BY <1>3, <3>1, <3>2, <3>3
    <2>2. CASE notes[i] # Absent
        <3> DEFINE r == [op[c] EXCEPT !.sig = Signature(notes[i]), !.pc = "lookup"]
        <3>1. UNCHANGED cache /\ op' = [op EXCEPT ![c] = r]
            BY <1>5, <2>2 DEF Stat, Go
        <3>2. /\ DOMAIN r = CallFields /\ r.kind = op[c].kind /\ r.id = i /\ r.todo = op[c].todo
              /\ r.out = op[c].out /\ r.saved = op[c].saved /\ r.pc = "lookup" /\ r.sig = Signature(notes[i])
            BY <1>2 DEF CallType, CallFields
        <3> HIDE DEF r
        <3>3. CallType(r)
            BY <1>2, <3>2 DEF CallType, Places, Loading
        <3>4. QED
            BY <1>4, <2>2, <3>1, <3>2, <3>3
    <2>3. QED
        BY <2>1, <2>2
<1>6. CASE Lookup(c)
    <2> DEFINE e == cache[Process[c]][i]
    <2>1. UNCHANGED cache /\ op[c].pc = "lookup" /\ Process[c] \in Stores
        BY <1>6 DEF Lookup, At, Stores
    <2>2. CASE e # Absent /\ e.sig = op[c].sig
        <3>1. op' = [op EXCEPT ![c] = Parsed(op[c], e.item)]
            BY <1>6, <2>2 DEF Lookup, Go
        <3>2. op[c].kind \in {"get", "search"} /\ i \notin recurred => <<i, e.item>> \in seen[c]
            BY <1>1, <2>1, <2>2 DEF MemInv, SeenInv, Reads
        <3> HIDE DEF e
        <3>3. QED
            BY <1>2, <1>3, <2>1, <3>1, <3>2
    <2>3. CASE ~(e # Absent /\ e.sig = op[c].sig)
        <3> DEFINE r == [op[c] EXCEPT !.pc = "parse"]
        <3>1. op' = [op EXCEPT ![c] = r]
            BY <1>6, <2>3 DEF Lookup, Go
        <3>2. /\ DOMAIN r = CallFields /\ r.kind = op[c].kind /\ r.id = i /\ r.todo = op[c].todo
              /\ r.out = op[c].out /\ r.saved = op[c].saved /\ r.pc = "parse" /\ r.sig = op[c].sig
            BY <1>2 DEF CallType, CallFields
        <3> HIDE DEF r
        <3>3. CallType(r)
            BY <1>2, <3>2 DEF CallType, Places, Loading
        <3>4. QED
            BY <1>4, <2>1, <3>1, <3>2, <3>3
    <2>4. QED
        BY <2>2, <2>3
<1>7. CASE ReadFile(c)
    <2>1. CASE notes[i] = Absent
        <3>1. Put(c, Absent) /\ op' = [op EXCEPT ![c] = Parsed(op[c], Absent)]
            BY <1>7, <2>1 DEF ReadFile, Go
        <3>2. op[c].kind \in {"get", "search"} => <<i, Absent>> \in seen[c]
            BY <1>2, <2>1 DEF ItemOf
        <3>3. /\ DOMAIN cache' = Stores /\ \A q \in Stores : DOMAIN cache'[q] = MemIds
              /\ \A q \in Stores, j \in MemIds : cache'[q][j] \in {cache[q][j], Absent}
            BY <1>1, <3>1, PutEntry
        <3>4. QED
            BY <1>3, <3>1, <3>2, <3>3
    <2>2. CASE notes[i] # Absent
        <3> DEFINE r == [op[c] EXCEPT !.item = Parse(notes[i].raw), !.pc = "store"]
        <3>1. UNCHANGED cache /\ op' = [op EXCEPT ![c] = r] /\ op[c].pc = "parse"
            BY <1>7, <2>2 DEF ReadFile, Go, At
        <3>2. /\ DOMAIN r = CallFields /\ r.kind = op[c].kind /\ r.id = i /\ r.todo = op[c].todo
              /\ r.out = op[c].out /\ r.saved = op[c].saved /\ r.pc = "store" /\ r.sig = op[c].sig
              /\ r.item = ItemOf(notes[i])
            BY <1>2, <2>2 DEF CallType, CallFields, ItemOf
        <3> HIDE DEF r
        <3>3. CallType(r)
            BY <1>2, <3>2 DEF CallType, Places, Loading
        <3>4. QED
            BY <1>4, <2>2, <3>1, <3>2, <3>3
    <2>3. QED
        BY <2>1, <2>2
<1>8. CASE StoreEntry(c)
    <2> DEFINE e == [sig |-> op[c].sig, item |-> op[c].item]
    <2>1. Put(c, e) /\ op' = [op EXCEPT ![c] = Parsed(op[c], op[c].item)] /\ At(c, "store")
        BY <1>8 DEF StoreEntry, Go
    <2>2. op[c].kind \in {"get", "search"} => <<i, op[c].item>> \in seen[c]
        BY <1>1, <2>1 DEF MemInv, SeenInv, Reads, At
    <2>3. e.sig = op[c].sig /\ e.item = op[c].item
        OBVIOUS
    <2> HIDE DEF e
    <2>4. /\ DOMAIN cache' = Stores /\ \A q \in Stores : DOMAIN cache'[q] = MemIds
          /\ \A q \in Stores, j \in MemIds : cache'[q][j] = cache[q][j] \/ (j = i /\ cache'[q][j] = e)
        BY <1>1, <2>1, PutEntry
    <2>5. QED
        BY <1>3, <2>1, <2>2, <2>3, <2>4
<1>9. QED
    BY <1>5, <1>6, <1>7, <1>8

\* The directory is listed: an id without a file has its answer, the others are loaded.
LEMMA ScanStep ==
    ASSUME MemInv, NEW c \in Callers, Scan(c)
    PROVE  MemInv'
<1> DEFINE names == {i \in MemIds : notes[i] # Absent}
           next == IF names = {} THEN op[c].id ELSE CHOOSE i \in names : TRUE
           place == IF names = {} THEN "return" ELSE "stat"
           r == [op[c] EXCEPT !.todo = names, !.pc = place, !.id = next]
<1>1. /\ op[c] # Absent /\ op[c].pc = "scan" /\ op' = [op EXCEPT ![c] = r]
      /\ UNCHANGED <<notes, temps, seen, past, recurred>>
    BY DEF Scan, Go, At
<1>2. /\ CallType(op[c]) /\ op[c].kind = "search" /\ op[c].id \in MemIds
      /\ DOMAIN temps = Callers /\ DOMAIN seen = Callers
      /\ OutOk(op[c], seen[c]) /\ \A i \in MemIds : <<i, ItemOf(notes[i])>> \in seen[c]
    BY <1>1, CallNow DEF CallType, Places, Loading
<1>3. /\ names = {} => next = op[c].id /\ place = "return"
      /\ names # {} => next \in names /\ place = "stat"
    OBVIOUS
<1>4. next \in MemIds /\ names \subseteq MemIds
    BY <1>2, <1>3
<1>5. /\ DOMAIN cache' = Stores /\ \A q \in Stores : DOMAIN cache'[q] = MemIds
      /\ \A q \in Stores, i \in MemIds : cache'[q][i] \in {cache[q][i], Absent}
    BY <1>1 DEF Scan, MemInv, MemType, Stores
<1> HIDE DEF next, place, r
<1>6. /\ DOMAIN r = CallFields /\ r.kind = "search" /\ r.id = next /\ r.todo = names
      /\ r.out = op[c].out /\ r.saved = op[c].saved /\ r.pc = place
    BY <1>2 DEF CallType, CallFields, r
<1>7. CallType(r)
    BY <1>2, <1>3, <1>4, <1>6 DEF CallType, Places, Loading
<1>8. \A i \in MemIds \ names : <<i, r.out[i]>> \in seen[c]
    BY <1>1, <1>2, <1>6 DEF OutOk, ItemOf
<1>9. OutOk(r, seen[c])
    BY <1>3, <1>6, <1>8 DEF OutOk, Loading
<1>10. r.pc \notin {"lookup", "parse", "store"}
    BY <1>3, <1>6
<1>11. QED
    BY <1>1, <1>2, <1>5, <1>7, <1>9, <1>10, CallMoves

\* The steps of save and delete that leave the directory's files alone.
LEMMA WriterSteps ==
    ASSUME MemInv, NEW c \in Callers,
           Lock(c) \/ PopEntry(c) \/ \E ino \in Inodes : WriteTemp(c, ino)
    PROVE  MemInv'
<1>1. op[c] # Absent /\ UNCHANGED <<notes, seen, past, recurred>> /\ DOMAIN temps' = Callers
    BY DEF Lock, PopEntry, WriteTemp, At, MemInv, MemType
<1>2. /\ CallType(op[c]) /\ op[c].kind \in {"save", "delete"}
      /\ DOMAIN temps = Callers /\ DOMAIN seen = Callers
    BY CallNow DEF Lock, PopEntry, WriteTemp, At, CallType, Places, Loading
<1>3. /\ DOMAIN cache' = Stores /\ \A q \in Stores : DOMAIN cache'[q] = MemIds
      /\ \A q \in Stores, i \in MemIds : cache'[q][i] \in {cache[q][i], Absent}
    <2>1. CASE PopEntry(c)
        BY <1>1, <2>1, PutEntry DEF PopEntry
    <2>2. CASE UNCHANGED cache
        BY <2>2 DEF MemInv, MemType
    <2>3. QED
        BY <2>1, <2>2 DEF Lock, WriteTemp
<1>4. ASSUME NEW r, op' = [op EXCEPT ![c] = r], CallType(r), r.kind = op[c].kind,
             r.pc \notin {"lookup", "parse", "store"}
      PROVE  MemInv'
    BY <1>1, <1>2, <1>3, <1>4, CallMoves
<1>5. CASE Lock(c)
    <2> DEFINE place == IF op[c].kind = "save" THEN "stat" ELSE "pop"
               r == [op[c] EXCEPT !.pc = place]
    <2>1. op' = [op EXCEPT ![c] = r]
        BY <1>5 DEF Lock, Go
    <2>2. DOMAIN r = CallFields /\ r.pc = place /\ \A k \in CallFields \ {"pc"} : r[k] = op[c][k]
        BY <1>2 DEF CallType, CallFields
    <2> HIDE DEF r
    <2>3. CallType(r) /\ r.kind = op[c].kind /\ r.pc \notin {"lookup", "parse", "store"}
        BY <1>2, <2>2 DEF CallType, CallFields, Places, Loading
    <2>4. QED
        BY <1>4, <2>1, <2>3
<1>6. CASE PopEntry(c)
    <2> DEFINE r == [op[c] EXCEPT !.pc = "unlink"]
    <2>1. op' = [op EXCEPT ![c] = r] /\ op[c].kind = "delete"
        BY <1>2, <1>6 DEF PopEntry, Go, At, CallType, Places, Loading
    <2>2. DOMAIN r = CallFields /\ r.pc = "unlink" /\ \A k \in CallFields \ {"pc"} : r[k] = op[c][k]
        BY <1>2 DEF CallType, CallFields
    <2> HIDE DEF r
    <2>3. CallType(r) /\ r.kind = op[c].kind /\ r.pc \notin {"lookup", "parse", "store"}
        BY <1>2, <2>1, <2>2 DEF CallType, CallFields, Places, Loading
    <2>4. QED
        BY <1>4, <2>1, <2>3
<1>7. CASE \E ino \in Inodes : WriteTemp(c, ino)
    <2> DEFINE r == [op[c] EXCEPT !.pc = "replace", !.item = Absent]
    <2>1. op' = [op EXCEPT ![c] = r] /\ op[c].kind = "save"
        BY <1>2, <1>7 DEF WriteTemp, Go, At, CallType, Places, Loading
    <2>2. /\ DOMAIN r = CallFields /\ r.pc = "replace"
          /\ \A k \in CallFields \ {"pc", "item"} : r[k] = op[c][k]
        BY <1>2 DEF CallType, CallFields
    <2> HIDE DEF r
    <2>3. CallType(r) /\ r.kind = op[c].kind /\ r.pc \notin {"lookup", "parse", "store"}
        BY <1>2, <2>1, <2>2 DEF CallType, CallFields, Places, Loading
    <2>4. QED
        BY <1>4, <2>1, <2>3
<1>8. QED
    BY <1>5, <1>6, <1>7

\* A save's rename and a delete's unlink, the steps of calls that change the directory.
LEMMA FileSteps ==
    ASSUME MemInv, NEW c \in Callers, Replace(c) \/ Unlink(c)
    PROVE  MemInv'
<1>1. op[c] # Absent /\ CallType(op[c]) /\ op[c].id \in MemIds /\ UNCHANGED cache
    BY CallNow DEF Replace, Unlink, At, CallType
<1>2. DOMAIN temps' = Callers
    BY DEF Replace, Unlink, MemInv, MemType
<1>3. ASSUME NEW r, op' = [op EXCEPT ![c] = r], CallType(r), op[c].kind \notin {"get", "search"},
             r.kind = op[c].kind, r.pc \notin {"lookup", "parse", "store"}
      PROVE  /\ DOMAIN op' = Callers
             /\ \A d \in Callers :
                  \/ op'[d] = op[d]
                  \/ /\ op[d] # Absent /\ op[d].kind \notin {"get", "search"} /\ CallType(op'[d])
                     /\ op'[d].kind \notin {"get", "search"} /\ op'[d].pc \notin {"lookup", "parse", "store"}
    BY <1>1, <1>3 DEF MemInv, MemType
<1>4. CASE Replace(c)
    <2> DEFINE r == [op[c] EXCEPT !.pc = "stat", !.saved = TRUE]
    <2>1. op' = [op EXCEPT ![c] = r] /\ op[c].kind = "save"
        BY <1>1, <1>4 DEF Replace, Go, At, CallType, Places, Loading
    <2>2. /\ DOMAIN r = CallFields /\ r.pc = "stat" /\ r.saved = TRUE
          /\ \A k \in CallFields \ {"pc", "saved"} : r[k] = op[c][k]
        BY <1>1 DEF CallType, CallFields
    <2> HIDE DEF r
    <2>3. CallType(r) /\ r.kind = op[c].kind /\ r.pc \notin {"lookup", "parse", "store"}
        BY <1>1, <2>1, <2>2 DEF CallType, CallFields, Places, Loading
    <2>4. /\ NotesBecome([notes EXCEPT ![op[c].id] = temps[c]], op[c].id)
          /\ Recorded(op[c].id, temps[c])
        BY <1>4 DEF Replace
    <2>5. QED
        BY <1>1, <1>2, <1>3, <2>1, <2>3, <2>4, NotesMove
<1>5. CASE Unlink(c)
    <2> DEFINE r == [op[c] EXCEPT !.pc = "return"]
    <2>1. op' = [op EXCEPT ![c] = r] /\ op[c].kind = "delete"
        BY <1>1, <1>5 DEF Unlink, Go, At, CallType, Places, Loading
    <2>2. DOMAIN r = CallFields /\ r.pc = "return" /\ \A k \in CallFields \ {"pc"} : r[k] = op[c][k]
        BY <1>1 DEF CallType, CallFields
    <2> HIDE DEF r
    <2>3. CallType(r) /\ r.kind = op[c].kind /\ r.pc \notin {"lookup", "parse", "store"}
        BY <1>1, <2>1, <2>2 DEF CallType, CallFields, Places, Loading
    <2>4. /\ NotesBecome([notes EXCEPT ![op[c].id] = Absent], op[c].id)
          /\ UNCHANGED <<past, recurred>>
        BY <1>5 DEF Unlink
    <2>5. QED
        BY <1>1, <1>2, <1>3, <2>1, <2>3, <2>4, NotesMove
<1>6. QED
    BY <1>4, <1>5

\* A file written by hand: its new signature is in no cache unless it came back.
LEMMA HandEditStep ==
    ASSUME MemInv, NEW i \in MemIds, NEW raw \in HandWritten, NEW ino \in Inodes, HandEdit(i, raw, ino)
    PROVE  MemInv'
<1> DEFINE f == [ino |-> ino, mtime |-> clock, raw |-> raw]
<1>1. NotesBecome([notes EXCEPT ![i] = f], i) /\ Recorded(i, notes'[i])
    BY DEF HandEdit
<1>2. notes'[i] = f
    BY <1>1 DEF NotesBecome, MemInv, MemType
<1>3. UNCHANGED <<temps, cache, op>> /\ DOMAIN temps = Callers /\ DOMAIN op = Callers
    BY DEF HandEdit, MemInv, MemType
<1> HIDE DEF f
<1>4. QED
    BY <1>1, <1>2, <1>3, NotesMove

\* A call raises or returns, a process dies, time passes.
LEMMA EndSteps ==
    ASSUME MemInv,
           \/ \E c \in Callers : SaveFails(c) \/ ReturnCall(c)
           \/ \E q \in Stores : Reopen(q)
           \/ Tick
           \/ UNCHANGED memVars
    PROVE  MemInv'
<1>1. /\ DOMAIN temps = Callers /\ DOMAIN op = Callers /\ DOMAIN seen = Callers
      /\ DOMAIN cache = Stores /\ \A q \in Stores : DOMAIN cache[q] = MemIds
    BY DEF MemInv, MemType
<1>2. ASSUME NEW c \in Callers, SaveFails(c) \/ ReturnCall(c)
      PROVE  MemInv'
    <2>1. /\ UNCHANGED <<notes, past, recurred, cache>> /\ op' = [op EXCEPT ![c] = Absent]
          /\ DOMAIN temps' = Callers /\ DOMAIN seen' = Callers
          /\ \A d \in Callers \ {c} : seen'[d] = seen[d]
        BY <1>1, <1>2 DEF SaveFails, ReturnCall, Go
    <2>2. QED
        BY <1>1, <2>1, Vanishes
<1>3. ASSUME NEW q \in Stores, Reopen(q)
      PROVE  MemInv'
    <2> DEFINE dead == {c \in Callers : Process[c] = q}
    <2>1. /\ UNCHANGED <<notes, past, recurred>> /\ DOMAIN temps' = Callers
          /\ op' = [c \in Callers |-> IF c \in dead THEN Absent ELSE op[c]]
          /\ seen' = [c \in Callers |-> IF c \in dead THEN {} ELSE seen[c]]
          /\ cache' = [cache EXCEPT ![q] = [i \in MemIds |-> Absent]]
        BY <1>3 DEF Reopen
    <2> HIDE DEF dead
    <2>2. QED
        BY <1>1, <2>1, Vanishes
<1>4. CASE Tick \/ UNCHANGED memVars
    <2>1. UNCHANGED <<notes, past, recurred, temps, cache, op, seen>>
        BY <1>4 DEF Tick, memVars
    <2>2. QED
        BY <1>1, <2>1, Vanishes
<1>5. QED
    BY <1>2, <1>3, <1>4

\* Every step keeps MemInv.
LEMMA MemStep == MemInv /\ [MemNext]_memVars => MemInv'
<1> SUFFICES ASSUME MemInv, [MemNext]_memVars PROVE MemInv'
    OBVIOUS
<1>1. ASSUME NEW c \in Callers,
             \/ \E i \in MemIds, t \in Texts : BeginCall(c, "save", i, t) \/ Remember(c, i, t)
             \/ \E i \in MemIds : BeginCall(c, "get", i, <<>>) \/ Recall(c, i) \/ Forget(c, i)
      PROVE  MemInv'
    BY <1>1, BeginStep DEF Remember, Recall, Forget
<1>2. QED
    BY <1>1, LoadSteps, ScanStep, WriterSteps, FileSteps, HandEditStep, EndSteps DEF MemNext

\* ReadsCurrent: what get and search return is what the file held at some moment
\* of the call, however calls, processes, editors and deaths interleave.
THEOREM ReadsAreCurrent == MemSpec => []ReadsCurrent
<1>1. MemInv => ReadsCurrent
    <2> SUFFICES ASSUME MemInv, NEW c \in Callers, At(c, "return"), op[c].kind \in {"get", "search"},
                        NEW i \in MemIds, op[c].kind = "search" \/ i = op[c].id, i \notin recurred
                 PROVE  <<i, op[c].out[i]>> \in seen[c]
        BY DEF ReadsCurrent
    <2>1. OutOk(op[c], seen[c])
        BY DEF MemInv, OutInv, Reads, At
    <2>2. QED
        BY <2>1 DEF OutOk, At
<1>2. QED
    BY MemInvInit, MemStep, <1>1, PTL DEF MemSpec

-----------------------------------------------------------------------------
(* CreatedKept: what a save finds, from its stat to its rename.            *)

Known == {Parse(raw) : raw \in Raws}

ToWrite == {Item(t, v) : t \in Texts, v \in Stamps}

\* The text and the item of a call.
CallItems(r) ==
    /\ r.kind \in {"remember", "save"} /\ ~r.saved /\ r.pc \notin {"write", "replace"} => r.text \in Texts
    /\ r.pc = "store" => r.item \in Known
    /\ r.pc = "write" => r.item \in ToWrite

ItemsInv ==
    /\ clock \in 1 .. MaxTick
    /\ \A i \in MemIds : notes[i] # Absent => notes[i].raw \in Raws
    /\ \A c \in Callers : temps[c] # Absent => temps[c].raw \in Raws
    /\ \A q \in Stores, i \in MemIds : cache[q][i] # Absent => cache[q][i].item \in Known
    /\ \A c \in Callers : op[c] # Absent => CallItems(op[c])

\* The locks keep writers apart: flock, or the one process there is.
Guarded == flocks \/ Cardinality(Stores) = 1

Writes(r) == r.kind \in {"save", "delete"} /\ r.pc # "lock"

LockInv ==
    /\ locked \subseteq Callers
    /\ Guarded => \A c, d \in locked : c = d
    /\ \A c \in Callers : op[c] # Absent /\ Writes(op[c]) => c \in locked

\* What save r has found, and temp holds, is of the file there is, unless that is
\* somebody's own.
MatchOk(r, temp) ==
    r.kind = "save" /\ r.id \notin recurred /\ notes[r.id] # Absent /\ notes[r.id].raw \notin HandWritten =>
        /\ r.pc \in {"lookup", "parse", "store"} => r.sig = Signature(notes[r.id])
        /\ r.pc = "write" => r.item.created = ItemOf(notes[r.id]).created
        /\ r.pc = "replace" /\ temp # Absent => ItemOf(temp).created = ItemOf(notes[r.id]).created

MatchInv == Guarded => \A c \in Callers : op[c] # Absent => MatchOk(op[c], temps[c])

SaveInv == ItemsInv /\ LockInv /\ MatchInv

\* The header that save writes is read back, whatever the text below it looks like.
LEMMA CreatedReadBack ==
    ASSUME NEW t \in Texts, NEW v
    PROVE  HeaderValue(Serialize(Item(t, v)), "created_at") = v
<1> DEFINE head == <<Delimiter, Line("created_at", v), Line("format", 2), Delimiter>>
           raw == head \o t \o <<Empty>>
<1>1. Serialize(Item(t, v)) = raw
    BY DEF Serialize, Item
<1>2. PICK S : t \in Seq(S)
    BY MemAssumption
<1>3. /\ Len(raw) \in Nat /\ Len(raw) >= 5
      /\ raw[1] = Delimiter /\ raw[2] = Line("created_at", v)
      /\ raw[3] = Line("format", 2) /\ raw[4] = Delimiter
    <2> DEFINE U == S \cup {Delimiter, Line("created_at", v), Line("format", 2), Empty}
    <2>1. t \in Seq(U)
        BY <1>2
    <2>2. /\ head \in Seq(U) /\ Len(head) = 4 /\ <<Empty>> \in Seq(U) /\ Len(<<Empty>>) = 1
          /\ head[1] = Delimiter /\ head[2] = Line("created_at", v)
          /\ head[3] = Line("format", 2) /\ head[4] = Delimiter
        OBVIOUS
    <2> HIDE DEF head, U
    <2>3. /\ head \o t \in Seq(U) /\ Len(head \o t) = 4 + Len(t) /\ Len(t) \in Nat
          /\ \A j \in 1 .. 4 : (head \o t)[j] = head[j]
        <3>1. Len(t) \in Nat
            BY <2>1, LenProperties
        <3>2. /\ head \o t \in Seq(U) /\ Len(head \o t) = Len(head) + Len(t)
              /\ \A j \in 1 .. Len(head) + Len(t) : (head \o t)[j] = IF j <= Len(head) THEN head[j] ELSE t[j - Len(head)]
            BY <2>1, <2>2, ConcatProperties, Zenon
        <3>3. QED
            BY <2>2, <3>1, <3>2
    <2> DEFINE first == head \o t
    <2> HIDE DEF first
    <2>4. Len(first \o <<Empty>>) = Len(first) + 1 /\ \A j \in 1 .. Len(first) : (first \o <<Empty>>)[j] = first[j]
        BY <2>2, <2>3, ConcatProperties DEF first
    <2>5. QED
        BY <2>2, <2>3, <2>4 DEF first
<1> HIDE DEF raw
<1>4. /\ Delimiter.kind = "delimiter"
      /\ Line("created_at", v).kind = "created_at" /\ Line("created_at", v).val = v
      /\ Line("format", 2).kind = "format"
    BY DEF Line, Delimiter
<1>5. raw[2] # Delimiter /\ raw[3] # Delimiter /\ IsHeader(raw[2]) /\ IsHeader(raw[3])
    BY <1>3, <1>4 DEF IsHeader
<1>6. HeaderEnd(raw) = 4
    <2> DEFINE ends == {j \in 2 .. Len(raw) : raw[j] = Delimiter}
               first == CHOOSE j \in ends : \A k \in ends : j <= k
    <2>1. 4 \in ends /\ \A k \in ends : 4 <= k
        BY <1>3, <1>5
    <2>2. ends \subseteq Int
        BY <1>3
    <2> HIDE DEF ends
    <2>3. first = 4
        <3>1. first \in ends /\ \A k \in ends : first <= k
            BY <2>1
        <3> HIDE DEF first
        <3>2. QED
            BY <2>1, <2>2, <3>1
    <2> HIDE DEF first
    <2>4. \A k \in 2 .. first - 1 : IsHeader(raw[k])
        BY <1>5, <2>3
    <2>5. HeaderEnd(raw) = IF /\ Len(raw) > 1 /\ raw[1] = Delimiter /\ ends # {}
                              /\ \A k \in 2 .. first - 1 : IsHeader(raw[k])
                           THEN first ELSE 0
        BY DEF HeaderEnd, ends, first
    <2>6. QED
        BY <1>3, <2>1, <2>3, <2>4, <2>5
<1>7. HeaderValue(raw, "created_at") = v
    <2> DEFINE at == {j \in 2 .. HeaderEnd(raw) - 1 : raw[j].kind = "created_at"}
    <2>1. at = {2}
        BY <1>3, <1>4, <1>6
    <2>2. HeaderValue(raw, "created_at") = IF at = {} THEN 0 ELSE raw[CHOOSE j \in at : \A l \in at : j <= l].val
        BY DEF HeaderValue
    <2> HIDE DEF at
    <2>3. (CHOOSE j \in at : \A l \in at : j <= l) = 2
        BY <2>1
    <2>4. QED
        BY <1>3, <1>4, <2>1, <2>2, <2>3
<1>8. QED
    BY <1>1, <1>7

\* Items that were read carry a creation time that was given, and are no Absent.
LEMMA KnownItems ==
    /\ \A item \in Known : item.created \in Stamps /\ item # Absent
    /\ \A raw \in Raws : Parse(raw) \in Known
    /\ \A item \in ToWrite : Serialize(item) \in Raws /\ Parse(Serialize(item)).created = item.created
<1>1. \A raw : Parse(raw).created = HeaderValue(raw, "created_at")
    BY DEF Parse, Item
<1>2. ASSUME NEW raw \in Raws PROVE HeaderValue(raw, "created_at") \in Stamps
    <2>1. CASE raw \in HandWritten
        BY <2>1 DEF Stamps
    <2>2. ASSUME NEW t \in Texts, NEW v \in Stamps, raw = Serialize(Item(t, v))
          PROVE  HeaderValue(raw, "created_at") \in Stamps
        BY <2>2, CreatedReadBack
    <2>3. QED
        BY <2>1, <2>2 DEF Raws
<1>3. ASSUME NEW item \in ToWrite
      PROVE  Serialize(item) \in Raws /\ Parse(Serialize(item)).created = item.created
    <2>1. PICK t \in Texts, v \in Stamps : item = Item(t, v)
        BY DEF ToWrite
    <2>2. item.created = v
        BY <2>1 DEF Item
    <2>3. QED
        BY <1>1, <2>1, <2>2, CreatedReadBack DEF Raws
<1>4. QED
    BY <1>1, <1>2, <1>3, AbsentAssumption DEF Known

\* Nobody writes or remembers anything at the start.
LEMMA SaveInvInit == MemInit => SaveInv
<1> SUFFICES ASSUME MemInit PROVE SaveInv
    OBVIOUS
<1>1. 0 \in Stamps /\ 1 \in 1 .. MaxTick
    BY MemAssumption DEF Stamps
<1>2. ASSUME NEW i \in MemIds, notes[i] # Absent PROVE notes[i].raw \in Raws
    <2>1. PICK ino \in Inodes, t \in Texts : notes[i] = [ino |-> ino, mtime |-> 0, raw |-> Serialize(Item(t, 0))]
        BY <1>2 DEF MemInit
    <2>2. notes[i].raw = Serialize(Item(t, 0))
        BY <2>1
    <2>3. QED
        BY <1>1, <2>2 DEF Raws
<1>3. ItemsInv
    BY <1>1, <1>2 DEF MemInit, ItemsInv
<1>4. LockInv /\ MatchInv
    BY DEF MemInit, LockInv, MatchInv
<1>5. QED
    BY <1>3, <1>4 DEF SaveInv

\* A call goes on with r, or ends; the files of the directory stay.
LEMMA SaveMoves ==
    ASSUME MemInv, SaveInv, NEW c \in Callers, NEW r, op' = [op EXCEPT ![c] = r],
           UNCHANGED <<notes, recurred, flocks, clock>>,
           \A d \in Callers \ {c} : temps'[d] = temps[d],
           temps'[c] = Absent \/ temps'[c].raw \in Raws,
           \A q \in Stores, i \in MemIds :
              cache'[q][i] \in {cache[q][i], Absent} \/ cache'[q][i].item \in Known,
           locked' \in {locked, locked \ {c}} \/ (locked' = locked \cup {c} /\ (Guarded => locked = {})),
           r # Absent => CallItems(r) /\ (Writes(r) => c \in locked') /\ (Guarded => MatchOk(r, temps'[c]))
    PROVE  SaveInv'
<1> USE DEF SaveInv
<1>1. DOMAIN op' = Callers /\ op'[c] = r /\ \A d \in Callers \ {c} : op'[d] = op[d]
    BY DEF MemInv, MemType
<1>2. Guarded' = Guarded
    BY DEF Guarded
<1>3. ItemsInv'
    <2>1. \A d \in Callers : temps'[d] # Absent => temps'[d].raw \in Raws
        BY DEF ItemsInv
    <2>2. \A d \in Callers : op'[d] # Absent => CallItems(op'[d])
        BY <1>1 DEF ItemsInv
    <2>3. \A q \in Stores, i \in MemIds : cache'[q][i] # Absent => cache'[q][i].item \in Known
        BY DEF ItemsInv
    <2>4. QED
        BY <2>1, <2>2, <2>3 DEF ItemsInv, CallItems
<1>4. LockInv'
    <2>1. locked' \subseteq Callers /\ \A d \in Callers \ {c} : d \in locked => d \in locked'
        BY DEF LockInv
    <2>2. Guarded => \A d, e \in locked' : d = e
        BY DEF LockInv
    <2>3. \A d \in Callers : op'[d] # Absent /\ Writes(op'[d]) => d \in locked'
        BY <1>1, <2>1 DEF LockInv
    <2>4. QED
        BY <1>2, <2>1, <2>2, <2>3 DEF LockInv, Writes
<1>5. MatchInv'
    <2> SUFFICES ASSUME Guarded, NEW d \in Callers, op'[d] # Absent
                 PROVE  MatchOk(op'[d], temps'[d])
        BY <1>2 DEF MatchInv, MatchOk, Signature, ItemOf
    <2>1. QED
        BY <1>1 DEF MatchInv
<1>6. QED
    BY <1>3, <1>4, <1>5

\* What _load's caller does with what it was given, field by field.
LEMMA ParsedFields ==
    ASSUME NEW call, NEW item, CallType(call)
    PROVE  /\ call.kind = "remember" =>
                 /\ Parsed(call, item).kind = "save" /\ Parsed(call, item).pc = "lock"
                 /\ Parsed(call, item).text = call.text /\ Parsed(call, item).saved = call.saved
           /\ call.kind = "save" /\ ~call.saved =>
                 /\ Parsed(call, item).kind = "save" /\ Parsed(call, item).pc = "write"
                 /\ Parsed(call, item).id = call.id
                 /\ Parsed(call, item).item = Item(call.text, IF item = Absent THEN clock ELSE item.created)
           /\ call.kind = "save" /\ call.saved =>
                 Parsed(call, item).kind = "save" /\ Parsed(call, item).pc = "return" /\ Parsed(call, item).saved
           /\ call.kind \in {"get", "search"} =>
                 Parsed(call, item).kind = call.kind /\ Parsed(call, item).pc \in {"return", "stat"}
<1> DEFINE r == [call EXCEPT !.sig = Absent, !.item = Absent]
           p == Parsed(call, item)
<1>1. /\ DOMAIN r = CallFields /\ r.kind = call.kind /\ r.id = call.id /\ r.saved = call.saved /\ r.text = call.text
      /\ call.saved \in BOOLEAN
    BY DEF CallType, CallFields
<1>2. CASE call.kind = "remember"
    <2>1. p = [r EXCEPT !.kind = "save", !.pc = "lock"]
        BY <1>1, <1>2 DEF Parsed
    <2> HIDE DEF r, p
    <2>2. p.kind = "save" /\ p.pc = "lock" /\ p.text = call.text /\ p.saved = call.saved
        BY <1>1, <2>1 DEF CallFields
    <2>3. QED
        BY <1>2, <2>2 DEF p
<1>3. CASE call.kind = "save" /\ ~call.saved
    <2> DEFINE new == Item(r.text, IF item = Absent THEN clock ELSE item.created)
    <2>1. p = [r EXCEPT !.pc = "write", !.text = <<>>, !.item = new]
        BY <1>1, <1>3 DEF Parsed
    <2>2. new = Item(call.text, IF item = Absent THEN clock ELSE item.created)
        BY <1>1
    <2> HIDE DEF r, p, new
    <2>3. p.kind = "save" /\ p.pc = "write" /\ p.id = call.id /\ p.item = new
        BY <1>1, <1>3, <2>1 DEF CallFields
    <2>4. QED
        BY <1>3, <2>2, <2>3 DEF p
<1>4. CASE call.kind = "save" /\ call.saved
    <2>1. p = [r EXCEPT !.pc = "return"]
        BY <1>1, <1>4 DEF Parsed
    <2> HIDE DEF r, p
    <2>2. p.kind = "save" /\ p.pc = "return" /\ p.saved
        BY <1>1, <1>4, <2>1 DEF CallFields
    <2>3. QED
        BY <1>4, <2>2 DEF p
<1>5. CASE call.kind = "get"
    <2>1. p = [r EXCEPT !.pc = "return", !.out[r.id] = item]
        BY <1>1, <1>5 DEF Parsed
    <2> HIDE DEF r, p
    <2>2. p.kind = "get" /\ p.pc = "return"
        BY <1>1, <1>5, <2>1 DEF CallFields
    <2>3. QED
        BY <1>5, <2>2 DEF p
<1>6. CASE call.kind = "search"
    <2> DEFINE left == r.todo \ {r.id}
               next == IF left = {} THEN r.id ELSE CHOOSE i \in left : TRUE
               place == IF left = {} THEN "return" ELSE "stat"
    <2>1. p = [r EXCEPT !.out[r.id] = item, !.todo = left, !.pc = place, !.id = next]
        BY <1>1, <1>6 DEF Parsed
    <2>2. place \in {"return", "stat"}
        OBVIOUS
    <2> HIDE DEF r, p, left, next, place
    <2>3. p.kind = "search" /\ p.pc = place
        BY <1>1, <1>6, <2>1 DEF CallFields
    <2>4. QED
        BY <1>6, <2>2, <2>3 DEF p
<1>7. QED
    BY <1>2, <1>3, <1>4, <1>5, <1>6

\* Save call was given the item of the file there is, unless that is somebody's own.
Given(call, item) ==
    call.kind = "save" /\ call.id \notin recurred /\ notes[call.id] # Absent
        /\ notes[call.id].raw \notin HandWritten =>
          item \in Known /\ item = ItemOf(notes[call.id])

\* A save that was given the file's item, or none, goes on with its creation time.
LEMMA ParsedSaves ==
    ASSUME NEW call, NEW item, CallType(call), CallItems(call), call.kind # "delete", call.pc \in Loading,
           clock \in 1 .. MaxTick, item = Absent \/ item \in Known
    PROVE  /\ CallItems(Parsed(call, item))
           /\ Given(call, item) => \A temp : MatchOk(Parsed(call, item), temp)
           /\ Writes(Parsed(call, item)) => Writes(call)
<1> DEFINE p == Parsed(call, item)
<1>1. clock \in Stamps
    BY DEF Stamps
<1>2. CASE call.kind = "save" /\ ~call.saved
    <2> DEFINE v == IF item = Absent THEN clock ELSE item.created
    <2>1. p.kind = "save" /\ p.pc = "write" /\ p.id = call.id /\ p.item = Item(call.text, v)
        BY <1>2, ParsedFields
    <2>2. v \in Stamps /\ call.text \in Texts
        BY <1>1, <1>2, KnownItems DEF CallItems, Loading
    <2>3. item \in Known => v = item.created
        BY KnownItems
    <2> HIDE DEF p, v
    <2>4. CallItems(p)
        BY <2>1, <2>2 DEF CallItems, ToWrite
    <2>5. p.item.created = v
        BY <2>1 DEF Item
    <2>6. Given(call, item) => \A temp : MatchOk(p, temp)
        BY <1>2, <2>1, <2>3, <2>5 DEF MatchOk, Given
    <2>7. QED
        BY <1>2, <2>4, <2>6 DEF p, Writes, Loading
<1>3. CASE ~(call.kind = "save" /\ ~call.saved)
    <2>1. /\ p.pc \in {"lock", "return", "stat"}
          /\ call.kind = "remember" => p.kind = "save" /\ p.pc = "lock" /\ p.text = call.text /\ p.saved = call.saved
          /\ call.kind = "save" => p.kind = "save" /\ p.saved
          /\ call.kind \in {"get", "search"} => p.kind = call.kind
        BY <1>3, ParsedFields DEF CallType
    <2> HIDE DEF p
    <2>2. CallItems(p)
        BY <1>3, <2>1 DEF CallItems, CallType, Loading
    <2>3. \A temp : MatchOk(p, temp)
        BY <2>1 DEF MatchOk
    <2>4. Writes(p) => Writes(call)
        BY <2>1 DEF Writes, CallType, Loading
    <2>5. QED
        BY <2>2, <2>3, <2>4 DEF p
<1>4. QED
    BY <1>2, <1>3

\* _load on behalf of any call.
LEMMA SaveLoadSteps ==
    ASSUME MemInv, SaveInv, NEW c \in Callers, Stat(c) \/ Lookup(c) \/ ReadFile(c) \/ StoreEntry(c)
    PROVE  SaveInv'
<1> DEFINE i == op[c].id
<1>1. /\ op[c] # Absent /\ op[c].pc \in Loading /\ Process[c] \in Stores
      /\ UNCHANGED <<notes, temps, recurred, flocks, clock, locked>>
    BY DEF Stat, Lookup, ReadFile, StoreEntry, At, Loading, Stores
<1>2. CallType(op[c]) /\ i \in MemIds /\ op[c].kind # "delete"
    BY <1>1, CallNow DEF CallType, Places, Loading
<1>3. /\ CallItems(op[c]) /\ (Writes(op[c]) => c \in locked) /\ clock \in 1 .. MaxTick
      /\ Guarded => MatchOk(op[c], temps[c])
      /\ temps[c] = Absent \/ temps[c].raw \in Raws
    BY <1>1 DEF SaveInv, ItemsInv, LockInv, MatchInv
<1>4. notes[i] # Absent => ItemOf(notes[i]) \in Known
    BY <1>2, KnownItems DEF SaveInv, ItemsInv, ItemOf
<1>5. ASSUME NEW item, op' = [op EXCEPT ![c] = Parsed(op[c], item)], item = Absent \/ item \in Known,
             Guarded => Given(op[c], item),
             \A q \in Stores, j \in MemIds :
                cache'[q][j] \in {cache[q][j], Absent} \/ cache'[q][j].item \in Known
      PROVE  SaveInv'
    <2> DEFINE r == Parsed(op[c], item)
    <2>1. /\ CallItems(r) /\ (Writes(r) => Writes(op[c]))
          /\ Guarded => MatchOk(r, temps[c])
        BY <1>1, <1>2, <1>3, <1>5, ParsedSaves
    <2>2. op' = [op EXCEPT ![c] = r]
        BY <1>5
    <2> HIDE DEF r
    <2>3. QED
        BY <1>1, <1>3, <1>5, <2>1, <2>2, SaveMoves
<1>6. ASSUME NEW r, op' = [op EXCEPT ![c] = r], UNCHANGED cache,
             r.kind = op[c].kind, r.id = i, r.text = op[c].text, r.saved = op[c].saved,
             r.pc \in {"lookup", "parse", "store"}, r.pc = "store" => r.item \in Known,
             (r.sig = op[c].sig /\ op[c].pc # "stat") \/ r.sig = Signature(notes[i])
      PROVE  SaveInv'
    <2>1. CallItems(r) /\ (Writes(r) => c \in locked')
        BY <1>1, <1>3, <1>6 DEF CallItems, Writes, Loading
    <2>2. Guarded => MatchOk(r, temps[c])
        BY <1>1, <1>3, <1>6 DEF MatchOk, Loading
    <2>3. QED
        BY <1>1, <1>3, <1>6, <2>1, <2>2, SaveMoves
<1>7. CASE Stat(c)
    <2>1. CASE notes[i] = Absent
        <3>1. Put(c, Absent) /\ op' = [op EXCEPT ![c] = Parsed(op[c], Absent)]
            BY <1>7, <2>1 DEF Stat, Go
        <3>2. Given(op[c], Absent)
            BY <2>1 DEF Given
        <3>3. \A q \in Stores, j \in MemIds : cache'[q][j] \in {cache[q][j], Absent}
            BY <1>1, <3>1, PutEntry
        <3>4. QED
            BY <1>5, <3>1, <3>2, <3>3
    <2>2. CASE notes[i] # Absent
        <3> DEFINE r == [op[c] EXCEPT !.sig = Signature(notes[i]), !.pc = "lookup"]
        <3>1. UNCHANGED cache /\ op' = [op EXCEPT ![c] = r]
            BY <1>7, <2>2 DEF Stat, Go
        <3>2. /\ r.kind = op[c].kind /\ r.id = i /\ r.text = op[c].text /\ r.saved = op[c].saved
              /\ r.pc = "lookup" /\ r.sig = Signature(notes[i])
            BY <1>2 DEF CallType, CallFields
        <3> HIDE DEF r
        <3>3. QED
            BY <1>6, <3>1, <3>2
    <2>3. QED
        BY <2>1, <2>2
<1>8. CASE Lookup(c)
    <2> DEFINE e == cache[Process[c]][i]
    <2>1. UNCHANGED cache /\ op[c].pc = "lookup"
        BY <1>8 DEF Lookup, At
    <2>2. CASE e # Absent /\ e.sig = op[c].sig
        <3>1. op' = [op EXCEPT ![c] = Parsed(op[c], e.item)]
            BY <1>8, <2>2 DEF Lookup, Go
        <3>2. e.item \in Known
            BY <1>1, <1>2, <2>2 DEF SaveInv, ItemsInv
        <3>3. Guarded => Given(op[c], e.item)
            <4> SUFFICES ASSUME MatchOk(op[c], temps[c]), op[c].kind = "save", i \notin recurred,
                                notes[i] # Absent, notes[i].raw \notin HandWritten
                         PROVE  e.item = ItemOf(notes[i])
                BY <1>3, <3>2 DEF Given
            <4>1. e.sig = Signature(notes[i])
                BY <2>1, <2>2 DEF MatchOk
            <4>2. QED
                BY <1>1, <1>2, <2>2, <4>1 DEF MemInv, CoherentInv
        <3> HIDE DEF e
        <3>4. QED
            BY <1>5, <2>1, <3>1, <3>2, <3>3
    <2>3. CASE ~(e # Absent /\ e.sig = op[c].sig)
        <3> DEFINE r == [op[c] EXCEPT !.pc = "parse"]
        <3>1. op' = [op EXCEPT ![c] = r]
            BY <1>8, <2>3 DEF Lookup, Go
        <3>2. /\ r.kind = op[c].kind /\ r.id = i /\ r.text = op[c].text /\ r.saved = op[c].saved
              /\ r.pc = "parse" /\ r.sig = op[c].sig
            BY <1>2 DEF CallType, CallFields
        <3> HIDE DEF r
        <3>3. QED
            BY <1>6, <2>1, <3>1, <3>2
    <2>4. QED
        BY <2>2, <2>3
<1>9. CASE ReadFile(c)
    <2>1. CASE notes[i] = Absent
        <3>1. Put(c, Absent) /\ op' = [op EXCEPT ![c] = Parsed(op[c], Absent)]
            BY <1>9, <2>1 DEF ReadFile, Go
        <3>2. Given(op[c], Absent)
            BY <2>1 DEF Given
        <3>3. \A q \in Stores, j \in MemIds : cache'[q][j] \in {cache[q][j], Absent}
            BY <1>1, <3>1, PutEntry
        <3>4. QED
            BY <1>5, <3>1, <3>2, <3>3
    <2>2. CASE notes[i] # Absent
        <3> DEFINE r == [op[c] EXCEPT !.item = Parse(notes[i].raw), !.pc = "store"]
        <3>1. UNCHANGED cache /\ op' = [op EXCEPT ![c] = r] /\ op[c].pc = "parse"
            BY <1>9, <2>2 DEF ReadFile, Go, At
        <3>2. /\ r.kind = op[c].kind /\ r.id = i /\ r.text = op[c].text /\ r.saved = op[c].saved
              /\ r.pc = "store" /\ r.sig = op[c].sig /\ r.item = ItemOf(notes[i])
            BY <1>2, <2>2 DEF CallType, CallFields, ItemOf
        <3> HIDE DEF r
        <3>3. QED
            BY <1>4, <1>6, <2>2, <3>1, <3>2
    <2>3. QED
        BY <2>1, <2>2
<1>10. CASE StoreEntry(c)
    <2> DEFINE e == [sig |-> op[c].sig, item |-> op[c].item]
    <2>1. Put(c, e) /\ op' = [op EXCEPT ![c] = Parsed(op[c], op[c].item)] /\ At(c, "store")
        BY <1>10 DEF StoreEntry, Go
    <2>2. op[c].item \in Known /\ e.item = op[c].item
        BY <1>3, <2>1 DEF CallItems, At
    <2>3. Guarded => Given(op[c], op[c].item)
        <3> SUFFICES ASSUME MatchOk(op[c], temps[c]), op[c].kind = "save", i \notin recurred,
                            notes[i] # Absent, notes[i].raw \notin HandWritten
                     PROVE  op[c].item = ItemOf(notes[i])
            BY <1>3, <2>2 DEF Given
        <3>1. op[c].sig = Signature(notes[i])
            BY <2>1 DEF MatchOk, At
        <3>2. QED
            BY <2>1, <3>1 DEF MemInv, CoherentInv
    <2> HIDE DEF e
    <2>4. \A q \in Stores, j \in MemIds : cache'[q][j] = cache[q][j] \/ cache'[q][j] = e
        BY <1>1, <2>1, PutEntry
    <2>5. QED
        BY <1>5, <2>1, <2>2, <2>3, <2>4
<1>11. QED
    BY <1>7, <1>8, <1>9, <1>10

\* A call begins.
LEMMA SaveBeginStep ==
    ASSUME MemInv, SaveInv, NEW c \in Callers, NEW i \in MemIds, NEW t,
           NEW kind \in {"get", "remember", "search", "save", "delete"}, BeginCall(c, kind, i, t),
           kind \in {"remember", "save"} => t \in Texts
    PROVE  SaveInv'
<1> DEFINE r == [kind |-> kind, id |-> i, text |-> t, todo |-> {}, sig |-> Absent, item |-> Absent,
                 saved |-> FALSE, out |-> [j \in MemIds |-> Absent],
                 pc |-> CASE kind \in {"get", "remember"} -> "stat"
                          [] kind = "search" -> "scan" [] OTHER -> "lock"]
<1>1. op' = [op EXCEPT ![c] = r] /\ UNCHANGED <<notes, temps, cache, locked, flocks, clock, recurred>>
    BY DEF BeginCall
<1>2. r.kind = kind /\ r.text = t
    OBVIOUS
<1>3. /\ kind \in {"get", "remember"} => r.pc = "stat"
      /\ kind = "search" => r.pc = "scan"
      /\ kind \in {"save", "delete"} => r.pc = "lock"
    OBVIOUS
<1> HIDE DEF r
<1>4. CallItems(r) /\ ~Writes(r) /\ MatchOk(r, temps'[c])
    BY <1>2, <1>3 DEF CallItems, Writes, MatchOk
<1>5. temps'[c] = Absent \/ temps'[c].raw \in Raws
    BY <1>1 DEF SaveInv, ItemsInv
<1>6. QED
    BY <1>1, <1>4, <1>5, SaveMoves

\* The other steps of a call that leave the directory's files alone.
LEMMA SaveCallSteps ==
    ASSUME MemInv, SaveInv, NEW c \in Callers,
           \/ Scan(c) \/ Lock(c) \/ PopEntry(c) \/ SaveFails(c) \/ ReturnCall(c)
           \/ \E ino \in Inodes : WriteTemp(c, ino)
    PROVE  SaveInv'
<1>1. op[c] # Absent /\ CallType(op[c]) /\ CallItems(op[c]) /\ (Writes(op[c]) => c \in locked)
    BY CallNow DEF Scan, Lock, PopEntry, SaveFails, ReturnCall, WriteTemp, At, SaveInv, ItemsInv, LockInv
<1>2. UNCHANGED <<notes, recurred, flocks, clock>>
    BY DEF Scan, Lock, PopEntry, SaveFails, ReturnCall, WriteTemp
<1>3. /\ Guarded => MatchOk(op[c], temps[c])
      /\ temps[c] = Absent \/ temps[c].raw \in Raws
      /\ DOMAIN temps = Callers /\ DOMAIN op = Callers
    BY <1>1 DEF SaveInv, ItemsInv, MatchInv, MemInv, MemType
<1>4. CASE Scan(c)
    <2> DEFINE names == {j \in MemIds : notes[j] # Absent}
               place == IF names = {} THEN "return" ELSE "stat"
               next == IF names = {} THEN op[c].id ELSE CHOOSE j \in names : TRUE
               r == [op[c] EXCEPT !.todo = names, !.pc = place, !.id = next]
    <2>1. op' = [op EXCEPT ![c] = r] /\ UNCHANGED <<temps, locked>> /\ op[c].kind = "search"
        BY <1>1, <1>4 DEF Scan, Go, At, CallType, Places, Loading
    <2>2. place \in {"return", "stat"}
        OBVIOUS
    <2>3. \A q \in Stores, j \in MemIds : cache'[q][j] \in {cache[q][j], Absent}
        BY <1>4 DEF Scan, MemInv, MemType, Stores
    <2> HIDE DEF names, place, next, r
    <2>4. r.kind = "search" /\ r.pc = place
        BY <1>1, <2>1 DEF CallType, CallFields, r
    <2>5. CallItems(r) /\ ~Writes(r) /\ MatchOk(r, temps'[c])
        BY <2>2, <2>4 DEF CallItems, Writes, MatchOk
    <2>6. QED
        BY <1>2, <1>3, <2>1, <2>3, <2>5, SaveMoves
<1>5. CASE Lock(c)
    <2> DEFINE place == IF op[c].kind = "save" THEN "stat" ELSE "pop"
               r == [op[c] EXCEPT !.pc = place]
    <2>1. /\ op' = [op EXCEPT ![c] = r] /\ UNCHANGED <<temps, cache>> /\ op[c].pc = "lock"
          /\ locked' = locked \cup {c} /\ \A d \in locked : Process[d] # Process[c] /\ ~flocks
        BY <1>5 DEF Lock, Go, At
    <2>2. Guarded => locked = {}
        <3>1. CASE Cardinality(Stores) = 1
            <4>1. PICK x : Stores = {x}
                BY <3>1, MemAssumption, FS_Singleton DEF Stores
            <4>2. \A d \in Callers : Process[d] = x
                BY <4>1 DEF Stores
            <4>3. QED
                BY <2>1, <4>2 DEF SaveInv, LockInv
        <3>2. QED
            BY <2>1, <3>1 DEF Guarded
    <2>3. r.kind = op[c].kind /\ r.pc = place /\ r.text = op[c].text /\ r.saved = op[c].saved
        BY <1>1 DEF CallType, CallFields
    <2> HIDE DEF r
    <2>4. CallItems(r) /\ MatchOk(r, temps'[c])
        BY <1>1, <2>1, <2>3 DEF CallItems, MatchOk
    <2>5. QED
        BY <1>2, <1>3, <2>1, <2>2, <2>4, SaveMoves
<1>6. CASE PopEntry(c)
    <2> DEFINE r == [op[c] EXCEPT !.pc = "unlink"]
    <2>1. /\ op' = [op EXCEPT ![c] = r] /\ Put(c, Absent) /\ UNCHANGED <<temps, locked>>
          /\ op[c].pc = "pop" /\ op[c].kind = "delete"
        BY <1>1, <1>6 DEF PopEntry, Go, At, CallType, Places, Loading
    <2>2. r.kind = "delete" /\ r.pc = "unlink"
        BY <1>1, <2>1 DEF CallType, CallFields
    <2> HIDE DEF r
    <2>3. CallItems(r) /\ MatchOk(r, temps'[c]) /\ c \in locked
        BY <1>1, <2>1, <2>2 DEF CallItems, MatchOk, Writes
    <2>4. \A q \in Stores, j \in MemIds : cache'[q][j] \in {cache[q][j], Absent}
        BY <1>1, <2>1, PutEntry
    <2>5. QED
        BY <1>2, <1>3, <2>1, <2>3, <2>4, SaveMoves
<1>7. CASE SaveFails(c) \/ ReturnCall(c)
    <2>1. /\ op' = [op EXCEPT ![c] = Absent] /\ UNCHANGED cache /\ locked' = locked \ {c}
          /\ temps' = temps \/ temps' = [temps EXCEPT ![c] = Absent]
        BY <1>7 DEF SaveFails, ReturnCall, Go
    <2>2. QED
        BY <1>2, <1>3, <2>1, SaveMoves
<1>8. ASSUME NEW ino \in Inodes, WriteTemp(c, ino)
      PROVE  SaveInv'
    <2> DEFINE r == [op[c] EXCEPT !.pc = "replace", !.item = Absent]
               f == [ino |-> ino, mtime |-> clock, raw |-> Serialize(op[c].item)]
    <2>1. /\ op' = [op EXCEPT ![c] = r] /\ temps' = [temps EXCEPT ![c] = f] /\ UNCHANGED <<cache, locked>>
          /\ op[c].pc = "write" /\ op[c].kind = "save"
        BY <1>1, <1>8 DEF WriteTemp, Go, At, CallType, Places, Loading
    <2>2. r.kind = "save" /\ r.pc = "replace" /\ r.id = op[c].id
        BY <1>1, <2>1 DEF CallType, CallFields
    <2>3. f.raw = Serialize(op[c].item)
        OBVIOUS
    <2> HIDE DEF r, f
    <2>4. f.raw \in Raws /\ Parse(f.raw).created = op[c].item.created
        BY <1>1, <2>1, <2>3, KnownItems DEF CallItems
    <2>5. temps'[c] = f /\ \A d \in Callers \ {c} : temps'[d] = temps[d]
        BY <1>3, <2>1
    <2>6. CallItems(r) /\ c \in locked
        BY <1>1, <2>1, <2>2 DEF CallItems, Writes
    <2>7. Guarded => MatchOk(r, temps'[c])
        BY <1>3, <2>1, <2>2, <2>4, <2>5 DEF MatchOk, ItemOf
    <2>8. QED
        BY <1>2, <2>1, <2>4, <2>5, <2>6, <2>7, SaveMoves
<1>9. QED
    BY <1>4, <1>5, <1>6, <1>7, <1>8

\* The file of i becomes f, or goes: by hand, or by the one writer there is.
LEMMA SaveNotesMove ==
    ASSUME MemInv, SaveInv, NEW i \in MemIds, NEW f, notes' = [notes EXCEPT ![i] = f],
           recurred \subseteq recurred', UNCHANGED <<flocks, clock, cache, locked>>,
           f = Absent \/ f.raw \in Raws,
           \A d \in Callers : temps'[d] \in {temps[d], Absent},
           \A d \in Callers :
              \/ op'[d] = op[d] /\ (f.raw \in HandWritten \/ (Guarded => d \notin locked))
              \/ CallItems(op'[d]) /\ d \in locked /\ op'[d].pc \in {"stat", "return"}
    PROVE  SaveInv'
<1> USE DEF SaveInv
<1>1. notes'[i] = f /\ \A j \in MemIds \ {i} : notes'[j] = notes[j]
    BY DEF MemInv, MemType
<1>2. Guarded' = Guarded
    BY DEF Guarded
<1>3. ItemsInv'
    <2>1. \A j \in MemIds : notes'[j] # Absent => notes'[j].raw \in Raws
        BY <1>1 DEF ItemsInv
    <2>2. \A d \in Callers : op'[d] # Absent => CallItems(op'[d])
        BY DEF ItemsInv
    <2>3. QED
        BY <2>1, <2>2 DEF ItemsInv, CallItems
<1>4. LockInv'
    BY <1>2 DEF LockInv, Writes
<1>5. MatchInv'
    <2> SUFFICES ASSUME Guarded, NEW d \in Callers, op'[d] # Absent
                 PROVE  MatchOk(op[d], temps[d])'
        BY <1>2 DEF MatchInv
    <2>1. CASE op'[d].pc \in {"stat", "return"}
        BY <2>1 DEF MatchOk
    <2>2. CASE op'[d] = op[d] /\ op[d].id \in MemIds \ {i}
        <3>1. MatchOk(op[d], temps[d]) /\ notes'[op[d].id] = notes[op[d].id]
            BY <1>1, <2>2 DEF MatchInv
        <3>2. QED
            BY <2>2, <3>1 DEF MatchOk, Signature, ItemOf
    <2>3. CASE op'[d] = op[d] /\ op[d].id = i /\ f.raw \in HandWritten
        BY <1>1, <2>3 DEF MatchOk
    <2>4. CASE op'[d] = op[d] /\ d \notin locked
        BY <2>4 DEF MatchOk, LockInv, Writes
    <2>5. QED
        BY <2>1, <2>2, <2>3, <2>4 DEF MemInv, MemType, CallType
<1>6. QED
    BY <1>3, <1>4, <1>5

\* A save's rename and a delete's unlink.
LEMMA SaveFileSteps ==
    ASSUME MemInv, SaveInv, NEW c \in Callers, Replace(c) \/ Unlink(c)
    PROVE  SaveInv'
<1>1. /\ op[c] # Absent /\ CallType(op[c]) /\ op[c].id \in MemIds
      /\ UNCHANGED <<flocks, clock, cache, locked>>
    BY CallNow DEF Replace, Unlink, At, CallType
<1>2. op[c].kind \in {"save", "delete"} /\ Writes(op[c])
    BY <1>1 DEF Replace, Unlink, At, CallType, Places, Loading, Writes
<1>3. c \in locked /\ \A d \in Callers \ {c} : Guarded => d \notin locked
    BY <1>1, <1>2 DEF SaveInv, LockInv
<1>4. DOMAIN op = Callers /\ DOMAIN temps = Callers
    BY DEF MemInv, MemType
<1>5. CASE Replace(c)
    <2> DEFINE r == [op[c] EXCEPT !.pc = "stat", !.saved = TRUE]
    <2>1. /\ op' = [op EXCEPT ![c] = r] /\ temps' = [temps EXCEPT ![c] = Absent] /\ temps[c] # Absent
          /\ notes' = [notes EXCEPT ![op[c].id] = temps[c]] /\ recurred \subseteq recurred'
        BY <1>5 DEF Replace, Go, NotesBecome, Recorded
    <2>2. r.pc = "stat" /\ r.saved
        BY <1>1 DEF CallType, CallFields
    <2> HIDE DEF r
    <2>3. CallItems(r) /\ temps[c].raw \in Raws
        BY <2>1, <2>2 DEF CallItems, SaveInv, ItemsInv
    <2>4. QED
        BY <1>1, <1>3, <1>4, <2>1, <2>2, <2>3, SaveNotesMove
<1>6. CASE Unlink(c)
    <2> DEFINE r == [op[c] EXCEPT !.pc = "return"]
    <2>1. /\ op' = [op EXCEPT ![c] = r] /\ UNCHANGED temps /\ op[c].kind = "delete"
          /\ notes' = [notes EXCEPT ![op[c].id] = Absent] /\ recurred' = recurred
        BY <1>1, <1>6 DEF Unlink, Go, NotesBecome, At, CallType, Places, Loading
    <2>2. r.pc = "return" /\ r.kind = "delete"
        BY <1>1, <2>1 DEF CallType, CallFields
    <2> HIDE DEF r
    <2>3. CallItems(r)
        BY <2>2 DEF CallItems
    <2>4. QED
        BY <1>1, <1>3, <1>4, <2>1, <2>2, <2>3, SaveNotesMove
<1>7. QED
    BY <1>5, <1>6

\* Somebody's file, the death of a process, and time.
LEMMA SaveOtherSteps ==
    ASSUME MemInv, SaveInv,
           \/ \E i \in MemIds, raw \in HandWritten, ino \in Inodes : HandEdit(i, raw, ino)
           \/ \E q \in Stores : Reopen(q)
           \/ Tick
           \/ UNCHANGED memVars
    PROVE  SaveInv'
<1>1. ASSUME NEW i \in MemIds, NEW raw \in HandWritten, NEW ino \in Inodes, HandEdit(i, raw, ino)
      PROVE  SaveInv'
    <2> DEFINE f == [ino |-> ino, mtime |-> clock, raw |-> raw]
    <2>1. /\ notes' = [notes EXCEPT ![i] = f] /\ recurred \subseteq recurred'
          /\ UNCHANGED <<temps, cache, locked, flocks, op, clock>>
        BY <1>1 DEF HandEdit, NotesBecome, Recorded
    <2>2. f.raw \in HandWritten /\ f.raw \in Raws
        BY DEF Raws
    <2> HIDE DEF f
    <2>3. QED
        BY <2>1, <2>2, SaveNotesMove
<1>2. ASSUME NEW q \in Stores, Reopen(q)
      PROVE  SaveInv'
    <2> DEFINE dead == {c \in Callers : Process[c] = q}
    <2>1. /\ UNCHANGED <<notes, recurred, flocks, clock>> /\ locked' = locked \ dead
          /\ op' = [c \in Callers |-> IF c \in dead THEN Absent ELSE op[c]]
          /\ \A c \in Callers : temps'[c] \in {temps[c], Absent}
          /\ cache' = [cache EXCEPT ![q] = [i \in MemIds |-> Absent]]
        BY <1>2 DEF Reopen
    <2> HIDE DEF dead
    <2>2. \A s \in Stores, i \in MemIds : cache'[s][i] \in {cache[s][i], Absent}
        BY <2>1 DEF MemInv, MemType
    <2>3. \A c \in Callers : op'[c] # Absent => op'[c] = op[c] /\ (c \in locked => c \in locked')
        BY <2>1
    <2>4. Guarded' = Guarded
        BY <2>1 DEF Guarded
    <2>5. ItemsInv'
        BY <2>1, <2>2, <2>3 DEF SaveInv, ItemsInv, CallItems
    <2>6. LockInv'
        BY <2>1, <2>3, <2>4 DEF SaveInv, LockInv, Writes
    <2>7. MatchInv'
        BY <2>1, <2>3, <2>4 DEF SaveInv, MatchInv, MatchOk, Signature, ItemOf
    <2>8. QED
        BY <2>5, <2>6, <2>7 DEF SaveInv
<1>3. CASE Tick \/ UNCHANGED memVars
    <2>1. UNCHANGED <<notes, temps, cache, locked, flocks, op, recurred>> /\ Guarded' = Guarded
        BY <1>3 DEF Tick, memVars, Guarded
    <2>2. clock' \in 1 .. MaxTick
        BY <1>3, MemAssumption DEF Tick, memVars, SaveInv, ItemsInv
    <2>3. ItemsInv'
        BY <2>1, <2>2 DEF SaveInv, ItemsInv, CallItems
    <2>4. LockInv'
        BY <2>1 DEF SaveInv, LockInv, Writes
    <2>5. MatchInv'
        BY <2>1 DEF SaveInv, MatchInv, MatchOk, Signature, ItemOf
    <2>6. QED
        BY <2>3, <2>4, <2>5 DEF SaveInv
<1>4. QED
    BY <1>1, <1>2, <1>3

\* CreatedKept: a save that overwrites a memory gives it the creation time of the
\* one it replaces, not of one that another writer has replaced meanwhile.
THEOREM CreationTimeIsKept == MemSpec => CreatedKept
<1> DEFINE Kept ==
        \A i \in MemIds, c \in Callers :
            /\ flocks \/ Cardinality(Stores) = 1
            /\ i \notin recurred /\ Replace(c) /\ op[c].id = i
            /\ notes[i] # Absent /\ notes[i].raw \notin HandWritten
            => ItemOf(notes'[i]).created = ItemOf(notes[i]).created
<1>1. MemInit => MemInv /\ SaveInv
    BY MemInvInit, SaveInvInit
<1>2. MemInv /\ SaveInv /\ [MemNext]_memVars => (MemInv /\ SaveInv)'
    <2> SUFFICES ASSUME MemInv, SaveInv, [MemNext]_memVars PROVE MemInv' /\ SaveInv'
        OBVIOUS
    <2>1. MemInv'
        BY MemStep
    <2>2. ASSUME NEW c \in Callers,
                 \/ \E i \in MemIds, t \in Texts : BeginCall(c, "save", i, t) \/ Remember(c, i, t)
                 \/ \E i \in MemIds : BeginCall(c, "get", i, <<>>) \/ Recall(c, i) \/ Forget(c, i)
          PROVE  SaveInv'
        BY <2>2, SaveBeginStep DEF Remember, Recall, Forget
    <2>3. SaveInv'
        BY <2>2, SaveLoadSteps, SaveCallSteps, SaveFileSteps, SaveOtherSteps DEF MemNext
    <2>4. QED
        BY <2>1, <2>3
<1>3. MemInv /\ SaveInv => [Kept]_memVars
    <2> SUFFICES ASSUME MemInv, SaveInv, NEW i \in MemIds, NEW c \in Callers, Guarded,
                        i \notin recurred, Replace(c), op[c].id = i,
                        notes[i] # Absent, notes[i].raw \notin HandWritten
                 PROVE  ItemOf(notes'[i]).created = ItemOf(notes[i]).created
        BY DEF Guarded
    <2>1. op[c] # Absent /\ op[c].pc = "replace" /\ temps[c] # Absent /\ notes'[i] = temps[c]
        BY DEF Replace, At, NotesBecome, MemInv, MemType
    <2>2. op[c].kind = "save" /\ MatchOk(op[c], temps[c])
        BY <2>1, CallNow DEF SaveInv, MatchInv, CallType, Places, Loading
    <2>3. ItemOf(temps[c]).created = ItemOf(notes[i]).created
        BY <2>1, <2>2 DEF MatchOk
    <2>4. QED
        BY <2>1, <2>3
<1>4. QED
    BY <1>1, <1>2, <1>3, PTL DEF MemSpec, CreatedKept
=============================================================================
