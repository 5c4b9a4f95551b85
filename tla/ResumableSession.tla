--------------------------- MODULE ResumableSession ---------------------------
(***************************************************************************)
(* The session of AgenticLoop with the AutoSave hook                       *)
(* (plugins/persistence/autosave.py) saving it to a SessionStore, a        *)
(* process that may die at any point, and resume() (persistence/file.py)   *)
(* in the process that takes over.                                         *)
(*                                                                         *)
(* A step of the loop emits events one after the other; AutoSave answers   *)
(* each of them before the loop goes on, and the process may die between   *)
(* two of them.  A save writes the whole snapshot or fails.                *)
(***************************************************************************)
EXTENDS AgenticLoop, SequencesExt

CONSTANTS
    Persistable,   \* the interventions whose class carries @persistable
    EveryMessage,  \* AutoSave(every_message=...)
    MaxFailures    \* bound: how many times store.save raises

\* What a SessionStore keeps of a session.
Snapshots == [history : Seq(Message), inbox : Seq(Notes), stopReason : Reasons]

ASSUME SaveAssumption ==
    /\ Persistable \subseteq Notes
    /\ EveryMessage \in BOOLEAN /\ MaxFailures \in Nat
    /\ None \notin Snapshots

VARIABLES
    disk,     \* the stored snapshot, or None
    unsaved,  \* the session's id is in AutoSave._unsaved
    failures, \* history: the saves that failed
    events    \* what the loop's step emits and AutoSave has not been given yet

store == <<disk, unsaved, failures>>
allVars == <<vars, store, events>>

-----------------------------------------------------------------------------
(* AutoSave. *)

\* Of the pending interventions only the persistable ones are dumped.
Snapshot(h, reason) ==
    [history |-> h, inbox |-> Kept(inbox', Persistable), stopReason |-> reason]

\* What AutoSave tells apart of the events a step emits: MessageAdded, SessionEnded,
\* and the boundaries IterationStarted, IterationCompleted and ModelCallStarted.
Added(h, reason) == [kind |-> "added", data |-> Snapshot(h, reason)]
Boundary(h, reason) == [kind |-> "boundary", data |-> Snapshot(h, reason)]
Ended(h, reason) == [kind |-> "ended", data |-> Snapshot(h, reason)]

Saved(s, data) == [s EXCEPT !.disk = data, !.unsaved = FALSE]

Mutant_ForgetsFailedSave(s, data) ==
    {Saved(s, data)} \cup
    {t \in {[s EXCEPT !.failures = @ + 1, !.unsaved = FALSE]} : s.failures < MaxFailures}

\* The outcomes of a save: a failed one leaves the session pending.
Save(s, data) ==
    {Saved(s, data)} \cup {t \in {[s EXCEPT !.failures = @ + 1]} : s.failures < MaxFailures}

Mutant_SaveResponse(s, e) ==
    CASE e.kind = "added" ->
             LET t == [s EXCEPT !.unsaved = TRUE] IN
             IF EveryMessage \/ phase = "tools" THEN Save(t, e.data) ELSE {t}
      [] e.kind = "boundary" -> IF s.unsaved THEN Save(s, e.data) ELSE {s}
      [] e.kind = "ended" -> Save(s, e.data)

Mutant_NoBoundary(s, e) ==
    CASE e.kind = "added" -> {[s EXCEPT !.unsaved = TRUE]}
      [] e.kind = "boundary" -> {s}
      [] e.kind = "ended" -> Save(s, e.data)

On(s, e) ==
    CASE e.kind = "added" ->
             LET t == [s EXCEPT !.unsaved = TRUE] IN
             IF EveryMessage THEN Save(t, e.data) ELSE {t}
      [] e.kind = "boundary" -> IF s.unsaved THEN Save(s, e.data) ELSE {s}
      [] e.kind = "ended" -> Save(s, e.data)

\* emit() calls every hook with the event.
Hear ==
    /\ events # <<>>
    /\ events' = Tail(events)
    /\ \E s \in On([disk |-> disk, unsaved |-> unsaved, failures |-> failures], Head(events)) :
          disk' = s.disk /\ unsaved' = s.unsaved /\ failures' = s.failures
    /\ UNCHANGED vars

Emits(es) == events' = es /\ UNCHANGED store

-----------------------------------------------------------------------------
(* The steps of the loop, with the events they emit. *)

SavedBeginLoop == BeginLoop /\ Emits(<<Added(history', stopReason)>>)

SavedTop ==
    /\ Top
    /\ Emits(IF phase' = "idle" THEN <<Ended(history, stopReason')>> ELSE <<>>)

SavedApply == Apply /\ Emits(<<Added(history', stopReason)>>)

SavedGuard ==
    /\ Guard
    /\ Emits(<<Boundary(history, stopReason)>> \o
             IF phase' = "idle"
             THEN <<Boundary(history, stopReason'), Ended(history, stopReason')>>
             ELSE <<>>)

SavedAuxiliary == Auxiliary /\ Emits(<<Boundary(history, stopReason)>>)

SavedPrepared == Prepared /\ Emits(<<Boundary(history, stopReason)>>)

SavedModelFails ==
    /\ ModelFails
    /\ Emits(<<Boundary(history, stopReason), Boundary(history, stopReason'),
               Ended(history, stopReason')>>)

\* A clean exit sets its stop reason after IterationCompleted, a guard before it.
SavedModelReturns(b) ==
    /\ ModelReturns(b)
    /\ Emits(<<Added(history', stopReason)>> \o
             IF phase' = "idle"
             THEN <<Boundary(history', IF stopReason' = "completed" THEN stopReason ELSE stopReason'),
                    Ended(history', stopReason')>>
             ELSE <<>>)

SavedToolsDone ==
    /\ ToolsDone
    /\ Emits([k \in 1..Len(batch) |->
                 Added(SubSeq(history', 1, Len(history) + k), stopReason)] \o
             <<Boundary(history', stopReason)>>)

\* These emit nothing AutoSave listens to.
Unheard ==
    /\ \/ Run \/ Interrupt \/ Tick
       \/ \E n \in Notes : Submit(n)
       \/ \E c \in Calls : Tool(c) \/ LateFinishes(c) \/ GateRaises(c)
       \/ Cancelled \/ ApplyRaises
    /\ Emits(<<>>)

-----------------------------------------------------------------------------
(* The process dies; the next one resumes the session, or starts a new one
   when nothing was stored.  Cost, clock and interrupt are not persisted. *)

Mutant_ResumeDropsNotes ==
    /\ history' = (IF disk = None THEN <<>> ELSE disk.history)
    /\ inbox' = <<>>
    /\ stopReason' = (IF disk = None THEN "" ELSE disk.stopReason)
    /\ phase' = "idle" /\ interrupted' = FALSE /\ asked' = FALSE
    /\ taken' = <<>> /\ i' = 0 /\ aux' = 0 /\ batch' = <<>>
    /\ call' = [c \in Calls |-> "none"] /\ late' = [c \in Calls |-> FALSE]
    /\ cost' = 0 /\ counted' = None /\ paid' = 0
    /\ startedAt' = None
    /\ unsaved' = FALSE /\ events' = <<>>
    /\ UNCHANGED <<clock, runs, submitted, disk, failures>>

Crash ==
    /\ history' = (IF disk = None THEN <<>> ELSE disk.history)
    /\ inbox' = (IF disk = None THEN <<>> ELSE disk.inbox)
    /\ stopReason' = (IF disk = None THEN "" ELSE disk.stopReason)
    /\ phase' = "idle" /\ interrupted' = FALSE /\ asked' = FALSE
    /\ taken' = <<>> /\ i' = 0 /\ aux' = 0 /\ batch' = <<>>
    /\ call' = [c \in Calls |-> "none"] /\ late' = [c \in Calls |-> FALSE]
    /\ cost' = 0 /\ counted' = None /\ paid' = 0
    /\ startedAt' = None
    /\ unsaved' = FALSE /\ events' = <<>>
    /\ UNCHANGED <<clock, runs, submitted, disk, failures>>

-----------------------------------------------------------------------------
SavedInit == Init /\ disk = None /\ unsaved = FALSE /\ failures = 0 /\ events = <<>>

SavedLoop ==
    \/ SavedBeginLoop \/ SavedTop \/ SavedApply \/ SavedGuard \/ SavedAuxiliary \/ SavedPrepared
    \/ SavedModelFails \/ SavedToolsDone
    \/ \E b \in Batches : SavedModelReturns(b)
    \/ Unheard

SavedNext ==
    \/ events = <<>> /\ SavedLoop
    \/ Hear
    \/ Crash

SavedSpec == SavedInit /\ [][SavedNext]_allVars

-----------------------------------------------------------------------------
(* What a saved session promises. *)

\* "a resumed session never starts partway through an iteration": every tool call
\* of the stored history has its answer there.
DiskIsBoundary == disk # None => Answered(disk.history)

\* "the user's input is on disk before the model is asked, even if that call then
\* raises", as long as no save failed; and so is all the model is shown.
InputOnDisk ==
    phase = "model" /\ events = <<>> /\ failures = 0 => disk # None /\ disk.history = history

\* A session that AutoSave does not hold as pending is on disk as it is, whichever
\* saves failed before: "the session stays pending so the next boundary retries it".
SavedIsCurrent ==
    ~unsaved /\ events = <<>> => history = (IF disk = None THEN <<>> ELSE disk.history)

StoredNotes(d) == ToSet(NotesOf(d.history) \o d.inbox)

\* What was stored stays stored: later saves, crashes and resumes only add to the
\* history, and an intervention that was stored, pending or applied, is in every later
\* snapshot.
SavedStays ==
    [][disk # None =>
        /\ disk' # None /\ IsPrefix(disk.history, disk'.history)
        /\ StoredNotes(disk) \subseteq StoredNotes(disk')]_allVars

\* No intervention is applied twice, whether or not the process died between taking
\* it, applying it and saving the result.
AppliedOnce ==
    LET known == KnownNotes IN \A k, l \in 1..Len(known) : known[k] = known[l] => k = l
=============================================================================
