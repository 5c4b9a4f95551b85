--------------------------- MODULE MCPersistence ---------------------------
(***************************************************************************)
(* What a harness keeps on disk.  The parts share no variable: a behaviour *)
(* exercises the session files (SessionStore), their contents (SavedState) *)
(* or the memory files (MemoryStore).                                      *)
(***************************************************************************)
EXTENDS SessionStore, SavedState, MemoryStore, TLC

CONSTANTS c1, c2, c3        \* callers of the memory store; c1 and c2 are also Procs

VARIABLE part

(* Two threads of one process and a thread of another.  The saved text     *)
(* could be taken for a header; the hand-written file has none.            *)
MCProcess == (c1 :> 1) @@ (c2 :> 1) @@ (c3 :> 2)
Plain == Line("other", 1)
MCTexts == {<<Delimiter, Line("created_at", 9), Delimiter, Plain, Empty>>}
MCHandWritten == {<<Empty, Plain, Empty>>}

PersistenceInit ==
    /\ part \in {"files", "contents", "memory"}
    /\ StoreInit /\ SavedInit /\ MemInit
    /\ part # "files" => dir = [i \in Ids |-> None] /\ links /\ dirsync
    /\ part # "contents" => proc = [release |-> 1, known |-> {}]
    /\ part # "memory" => notes = [i \in MemIds |-> Absent] /\ flocks

PersistenceNext ==
    /\ UNCHANGED part
    /\ \/ part = "files" /\ StoreNext /\ UNCHANGED <<savedVars, memVars>>
       \/ part = "contents" /\ SavedNext /\ UNCHANGED <<storeVars, memVars>>
       \/ part = "memory" /\ MemNext /\ UNCHANGED <<storeVars, savedVars>>

PersistenceSpec ==
    PersistenceInit /\ [][PersistenceNext]_<<part, storeVars, savedVars, memVars>>

\* Model values stand for several sets at once (see the .cfg): the parts are
\* apart, so that one permutation serves them all.
Symmetry == Permutations(Procs) \cup Permutations(Ids) \cup Permutations(Inodes)
=============================================================================
