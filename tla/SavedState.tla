----------------------------- MODULE SavedState -----------------------------
(***************************************************************************)
(* What of a session a snapshot carries from one process to the next: the  *)
(* state of each plugin under its persistable name, the pending            *)
(* interventions and the schema version.  The processes are of different   *)
(* releases and import different plugins, and each may die at any moment.  *)
(* Concurrent access to the files is the subject of SessionStore.          *)
(***************************************************************************)
EXTENDS Naturals, Sequences

CONSTANTS
    Sessions,       \* session ids
    Names,          \* names under which classes register with @persistable
    Values,         \* what the state of a plugin may hold
    Default,        \* what a new instance holds
    Nothing,
    Releases,       \* the SCHEMA_VERSIONs of the releases in use
    Migrations,     \* the versions from which a migration is registered
    MaxInbox        \* bound: pending interventions

ASSUME SavedAssumption ==
    /\ Default \in Values /\ Nothing \notin Values \cup Sessions
    /\ Releases \subseteq Nat \ {0} /\ Migrations \subseteq Nat
    /\ MaxInbox \in Nat

VARIABLES
    files,          \* files[s]: the snapshot saved under s, or Nothing
    proc,           \* the process: its release and the names it has imported
    cur,            \* the id of the session it holds, or Nothing
    live,           \* live[n]: the state instance in Session._state
    saved,          \* saved[n]: Session._saved_state, not claimed yet
    inbox,          \* the pending interventions, each by its persistable name
    owed            \* history: owed[s][n], the value last written for n, or
                    \* Nothing when its own class could not restore, dump or copy it

savedVars == <<files, proc, cur, live, saved, inbox, owed>>

Blank == [n \in Names |-> Nothing]

Processes == [release : Releases, known : SUBSET Names]

SavedInit ==
    /\ files = [s \in Sessions |-> Nothing]
    /\ proc \in Processes
    /\ cur = Nothing
    /\ live = Blank /\ saved = Blank
    /\ inbox = <<>>
    /\ owed = [s \in Sessions |-> Blank]

\* dump() gives up instances whose to_dict raises, and classes without a name.
Dumped(l, undumped) == {n \in Names : l[n] # Nothing /\ n \notin undumped}

DumpInterventions == SelectSeq(inbox, LAMBDA k : k \in proc.known)

\* Interventions of a class this process has not imported are dropped.
LoadInterventions(raw) == SelectSeq(raw, LAMBDA k : k \in proc.known)

\* Unclaimed state is carried along; what the process holds goes over it.
Mutant_PersistedState(l, undumped) ==
    [n \in Names |-> IF n \in Dumped(l, undumped) THEN l[n] ELSE Nothing]

PersistedState(l, undumped) ==
    [n \in Names |-> IF n \in Dumped(l, undumped) THEN l[n] ELSE saved[n]]

Snapshot(l, undumped) ==
    [version |-> proc.release, state |-> PersistedState(l, undumped),
     inbox |-> DumpInterventions]

\* migrate raises on a newer version and where a migration is missing.
Readable(v) ==
    v <= proc.release /\ \A w \in v .. (proc.release - 1) : w \in Migrations

\* Session(): a new conversation.
NewSession(s) ==
    /\ cur = Nothing /\ files[s] = Nothing
    /\ cur' = s
    /\ owed' = [owed EXCEPT ![s] = Blank]
    /\ UNCHANGED <<files, proc, live, saved, inbox>>

Resume(s) ==
    /\ cur = Nothing /\ files[s] # Nothing /\ Readable(files[s].version)
    /\ cur' = s
    /\ saved' = files[s].state
    /\ inbox' = LoadInterventions(files[s].inbox)
    /\ UNCHANGED <<files, proc, live, owed>>

\* restore: the instance, or nothing when from_dict raises.
Restore(data, ok) == IF ok THEN data ELSE Nothing

\* _claim_saved pops the saved data, whatever becomes of it.
ClaimSaved(n, ok) ==
    /\ saved' = [saved EXCEPT ![n] = Nothing]
    /\ LET inst == Restore(saved[n], ok) IN
        live' = [live EXCEPT ![n] = IF inst = Nothing THEN Default ELSE inst]

\* state(cls): the first call claims what was saved under the class's name.
State(n, restored) ==
    /\ cur # Nothing /\ n \in proc.known /\ live[n] = Nothing
    /\ restored => saved[n] # Nothing
    /\ ClaimSaved(n, restored)
    /\ owed' = IF restored \/ saved[n] = Nothing THEN owed ELSE [owed EXCEPT ![cur][n] = Nothing]
    /\ UNCHANGED <<files, proc, cur, inbox>>

\* A plugin changes its state.
Update(n, v) ==
    /\ live[n] # Nothing
    /\ live' = [live EXCEPT ![n] = v]
    /\ UNCHANGED <<files, proc, cur, saved, inbox, owed>>

Submit(k) ==
    /\ cur # Nothing /\ k \in proc.known /\ Len(inbox) < MaxInbox
    /\ inbox' = Append(inbox, k)
    /\ UNCHANGED <<files, proc, cur, live, saved, owed>>

Owing(o, l, undumped) ==
    [n \in Names |-> IF l[n] = Nothing THEN o[n]
                     ELSE IF n \in undumped THEN Nothing ELSE l[n]]

\* AutoSave; undumped are the names whose to_dict raised.
Save(undumped) ==
    /\ cur # Nothing
    /\ files' = [files EXCEPT ![cur] = Snapshot(live, undumped)]
    /\ owed' = [owed EXCEPT ![cur] = Owing(owed[cur], live, undumped)]
    /\ UNCHANGED <<proc, cur, live, saved, inbox>>

\* fork_session: resume a saved session, copy it under a new id and create that.
Fork(s, new) ==
    /\ cur = Nothing /\ files[s] # Nothing /\ files[new] = Nothing
    /\ Readable(files[s].version)
    /\ cur' = new
    /\ saved' = files[s].state
    /\ inbox' = LoadInterventions(files[s].inbox)
    /\ files' = [files EXCEPT ![new] = [version |-> proc.release, state |-> files[s].state,
                                        inbox |-> inbox']]
    /\ owed' = [owed EXCEPT ![new] = owed[s]]
    /\ UNCHANGED <<proc, live>>

\* Session.fork of a running session: uncopied state is not in the copy.
ForkLive(new, uncopied) ==
    /\ cur # Nothing /\ cur # new /\ files[new] = Nothing
    /\ cur' = new
    /\ live' = [n \in Names |-> IF n \in uncopied THEN Nothing ELSE live[n]]
    /\ owed' = [owed EXCEPT ![new] = [n \in Names |->
                  IF live[n] # Nothing THEN Nothing ELSE owed[cur][n]]]
    /\ UNCHANGED <<files, proc, saved, inbox>>

\* The process ends, in order or not.
Exit ==
    /\ cur # Nothing
    /\ cur' = Nothing
    /\ live' = Blank /\ saved' = Blank
    /\ inbox' = <<>>
    /\ UNCHANGED <<files, proc, owed>>

\* Another one is started, which will resume a session or begin one.
Restart(q) ==
    /\ cur = Nothing
    /\ proc' = q
    /\ UNCHANGED <<files, cur, live, saved, inbox, owed>>

SavedNext ==
    \/ Exit
    \/ \E q \in Processes : Restart(q)
    \/ \E s \in Sessions : NewSession(s) \/ Resume(s)
    \/ \E s, t \in Sessions : Fork(s, t)
    \/ \E n \in Names, r \in BOOLEAN : State(n, r)
    \/ \E n \in Names, v \in Values : Update(n, v)
    \/ \E k \in Names : Submit(k)
    \/ \E bad \in SUBSET proc.known : Save(bad)
    \/ \E s \in Sessions, bad \in SUBSET proc.known : ForkLive(s, bad)

SavedSpec == SavedInit /\ [][SavedNext]_savedVars
-----------------------------------------------------------------------------
\* What a plugin once saved stays in the session's snapshots through any
\* number of processes and forks, also through those that never import the
\* plugin, until the plugin itself replaces it or fails to read or write it;
\* and a process never holds, so never overwrites, a session whose snapshot
\* is of a newer schema than its own.
StateKept ==
    \A s \in Sessions : files[s] # Nothing =>
        /\ \A n \in Names : owed[s][n] # Nothing => files[s].state[n] = owed[s][n]
        /\ cur = s => files[s].version <= proc.release
=============================================================================
