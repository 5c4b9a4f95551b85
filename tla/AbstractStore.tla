--------------------------- MODULE AbstractStore ---------------------------
(***************************************************************************)
(* What a SessionStore promises (protocols/session_store.py): save,        *)
(* create, delete and fork_session each take effect at one instant between *)
(* their call and their return, or fail without effect; create never       *)
(* replaces a session when the store says it is exclusive; and a power     *)
(* loss leaves under every id a whole snapshot, the one that was visible   *)
(* or the one that was last made stable.                                   *)
(***************************************************************************)

CONSTANTS
    Procs,      \* the processes that share the store
    Ids,        \* session ids
    Data,       \* snapshots
    Newer,      \* the snapshots of a release with a newer schema
    None        \* no snapshot, no call

VARIABLES
    store,      \* store[i]: the snapshot a reader finds under i
    stable,     \* stable[i]: the snapshot under i that a power loss may bring back
    call,       \* call[p]: p's call, or None
    exclusive   \* whether create is atomic

absVars == <<store, stable, call, exclusive>>

Requests ==
    [kind : {"save", "create"}, id : Ids, data : Data, result : {"pending"}]
        \cup [kind : {"delete", "fork"}, id : Ids, data : {None}, result : {"pending"}]

AbsInit ==
    /\ store \in [Ids -> Data \cup {None}]
    /\ stable = store
    /\ call = [p \in Procs |-> None]
    /\ exclusive \in BOOLEAN

Pending(p) == call[p] # None /\ call[p].result = "pending"

Invoke(p) ==
    /\ call[p] = None
    /\ \E r \in Requests : call' = [call EXCEPT ![p] = r]
    /\ UNCHANGED <<store, stable, exclusive>>

Finish(p, result) == call' = [call EXCEPT ![p].result = result]

\* fork_session first reads its source, and is a create of what it read from
\* then on; a source that is missing or cannot be read ends it.
ReadSource(p) ==
    /\ call[p] # None /\ call[p].kind = "fork"
    /\ \E i \in Ids :
        \/ /\ store[i] \in Data \ Newer
           /\ call' = [call EXCEPT ![p].kind = "create", ![p].data = store[i]]
        \/ /\ store[i] = None
           /\ Finish(p, "missing")
        \/ /\ store[i] \in Newer
           /\ Finish(p, "error")
    /\ UNCHANGED <<store, stable, exclusive>>

Effect(p) ==
    /\ Pending(p)
    /\ LET c == call[p] IN
       \/ /\ c.kind \in {"save", "create"}
          /\ c.kind = "save" \/ ~exclusive \/ store[c.id] = None
          /\ store' = [store EXCEPT ![c.id] = c.data]
          /\ Finish(p, "ok")
       \/ /\ c.kind = "create" /\ store[c.id] # None
          /\ Finish(p, "exists")
          /\ UNCHANGED store
       \/ /\ c.kind = "delete" /\ store[c.id] # None
          /\ store' = [store EXCEPT ![c.id] = None]
          /\ Finish(p, "ok")
       \/ /\ c.kind = "delete" /\ store[c.id] = None
          /\ Finish(p, "missing")
          /\ UNCHANGED store
    /\ UNCHANGED <<stable, exclusive>>

Fail(p) ==
    /\ Pending(p)
    /\ Finish(p, "error")
    /\ UNCHANGED <<store, stable, exclusive>>

\* The call returns, or its process dies, before or after the effect.
Return(p) ==
    /\ call[p] # None
    /\ call' = [call EXCEPT ![p] = None]
    /\ UNCHANGED <<store, stable, exclusive>>

Stabilize ==
    /\ \E s \in SUBSET Ids :
        stable' = [i \in Ids |-> IF i \in s THEN store[i] ELSE stable[i]]
    /\ UNCHANGED <<store, call, exclusive>>

PowerLoss ==
    /\ \E s \in [Ids -> BOOLEAN] :
        store' = [i \in Ids |-> IF s[i] THEN store[i] ELSE stable[i]]
    /\ stable' = store'
    /\ call' = [p \in Procs |-> None]
    /\ UNCHANGED exclusive

AbsNext ==
    \/ Stabilize
    \/ PowerLoss
    \/ \E p \in Procs :
        Invoke(p) \/ ReadSource(p) \/ Effect(p) \/ Fail(p) \/ Return(p)

AbsSpec == AbsInit /\ [][AbsNext]_absVars
=============================================================================
