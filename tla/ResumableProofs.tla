---------------------------- MODULE ResumableProofs ----------------------------
(***************************************************************************)
(* Proofs about ResumableSession for every value of its constants: any     *)
(* number of calls, interventions, runs and failed saves, and a process    *)
(* that may die between any two steps.                                     *)
(***************************************************************************)
EXTENDS ResumableSession, AgenticLoopProofs

Event == [kind : {"added", "boundary", "ended"}, data : Snapshots]

Latest == IF disk = None THEN <<>> ELSE disk.history

Distinct(s) == \A k, l \in 1..Len(s) : s[k] = s[l] => k = l

StoreTypeInv ==
    /\ disk \in Snapshots \cup {None}
    /\ unsaved \in BOOLEAN /\ failures \in 0..MaxFailures
    /\ events \in Seq(Event)

\* What AutoSave has not been given yet tells of the session as it is now; only between
\* messages that are added together does an event know less of them.
QueueInv ==
    /\ \A k \in 1..Len(events) :
          /\ events[k].data.inbox = Kept(inbox, Persistable)
          /\ NotesOf(events[k].data.history) = NotesOf(history)
          /\ events[k].kind # "added" =>
                events[k].data.history = history /\ taken = <<>> /\ phase # "tools"
          /\ k = Len(events) => events[k].data.history = history
          /\ k < Len(events) => events[k + 1].kind = "added" \/ events[k].data.history = history
    /\ phase = "model" /\ events # <<>> => events[Len(events)].kind = "boundary"

\* Between events, or before one that adds no message, a session that is not pending is on disk.
CurrentInv ==
    (events = <<>> \/ events[1].kind # "added") /\ ~unsaved => history = Latest

\* A run that got as far as the model has messages, and AutoSave had an event to save them.
ModelInv ==
    /\ phase \notin {"idle", "starting"} => history # <<>>
    /\ phase = "model" /\ events = <<>> /\ failures = 0 => ~unsaved

BoundaryInv == disk # None => AnsweredUpTo(disk.history, Len(disk.history))

\* Every intervention the session or the disk knows was submitted, and is there once.
OnceInv ==
    /\ Distinct(submitted)
    /\ Distinct(KnownNotes) /\ ToSet(KnownNotes) \subseteq ToSet(submitted)
    /\ disk # None =>
          /\ Distinct(NotesOf(disk.history) \o disk.inbox)
          /\ StoredNotes(disk) \subseteq ToSet(submitted)

\* The session is never behind the disk.
AheadInv ==
    disk # None =>
        /\ IsPrefix(disk.history, history)
        /\ ToSet(disk.inbox) \subseteq Persistable \cap ToSet(KnownNotes)

-----------------------------------------------------------------------------
(* What a step of the loop emits. *)

\* A step of the loop with its events is a step of AgenticLoop.
LEMMA SavedLoopIsNext == SavedLoop => Next /\ UNCHANGED store
<1> USE DEF Next, Loop, Emits
<1>1. CASE \/ SavedBeginLoop \/ SavedTop \/ SavedApply \/ SavedGuard \/ SavedAuxiliary \/ SavedPrepared
           \/ SavedModelFails \/ SavedToolsDone
    BY <1>1 DEF SavedBeginLoop, SavedTop, SavedApply, SavedGuard, SavedAuxiliary, SavedPrepared,
                SavedModelFails, SavedToolsDone
<1>2. CASE \E b \in Batches : SavedModelReturns(b)
    BY <1>2 DEF SavedModelReturns
<1>3. CASE Unheard
    BY <1>3 DEF Unheard
<1> QED
    BY <1>1, <1>2, <1>3 DEF SavedLoop

\* What AutoSave is given: the kind, and a snapshot of the history and the persistable inbox.
LEMMA EventsAre ==
    ASSUME inbox' \in Seq(Notes), NEW h \in Seq(Message), NEW r \in Reasons
    PROVE  /\ Added(h, r) \in Event /\ Boundary(h, r) \in Event /\ Ended(h, r) \in Event
           /\ Added(h, r).kind = "added" /\ Boundary(h, r).kind = "boundary"
           /\ Ended(h, r).kind = "ended"
           /\ \A e \in {Added(h, r), Boundary(h, r), Ended(h, r)} :
                 e.data.history = h /\ e.data.inbox = Kept(inbox', Persistable)
<1>1. Kept(inbox', Persistable) \in Seq(Notes)
    <2>1. Kept(inbox', Persistable) \in Seq(Persistable \cap Notes)
        BY KeptType
    <2> QED
        BY <2>1
<1>2. Snapshot(h, r) \in Snapshots
    BY <1>1 DEF Snapshot, Snapshots
<1>3. Snapshot(h, r).history = h /\ Snapshot(h, r).inbox = Kept(inbox', Persistable)
    BY DEF Snapshot
<1> QED
    BY <1>2, <1>3 DEF Added, Boundary, Ended, Event

\* A queue of one event.
LEMMA OneEvent ==
    ASSUME NEW x \in Event, NEW es, es = <<x>> \/ es = <<x>> \o <<>>
    PROVE  /\ es \in Seq(Event) /\ es # <<>> /\ Len(es) = 1 /\ es[1] = x
           /\ \A k \in 1..Len(es) : es[k] = x /\ k = 1
<1>1. <<x>> \o <<>> = <<x>>
    <2>1. <<x>> \in Seq(Event)
        OBVIOUS
    <2> QED
        BY <2>1, ConcatEmptySeq
<1>2. es = <<x>>
    BY <1>1, Zenon
<1>3. es \in Seq(Event) /\ Len(es) = 1 /\ es[1] = x
    BY <1>2
<1>4. 1..Len(es) = {1} /\ es # <<>>
    BY <1>3
<1> QED
    BY <1>3, <1>4

\* A queue of three events.
LEMMA ThreeEvents ==
    ASSUME NEW x \in Event, NEW y \in Event, NEW z \in Event,
           NEW es, es = <<x, y, z>> \/ es = <<x>> \o <<y, z>>
    PROVE  /\ es \in Seq(Event) /\ es # <<>> /\ Len(es) = 3
           /\ es[1] = x /\ es[2] = y /\ es[3] = z
           /\ \A k \in 1..Len(es) : es[k] \in {x, y, z} /\ (k # 1 => es[k] \in {y, z})
<1>1. <<x>> \in Seq(Event) /\ <<y, z>> \in Seq(Event) /\ <<x, y, z>> \in Seq(Event)
    OBVIOUS
<1>2. /\ es \in Seq(Event) /\ Len(es) = 3
      /\ es[1] = x /\ es[2] = y /\ es[3] = z
    <2>1. CASE es = <<x, y, z>>
        BY <1>1, <2>1
    <2>2. CASE es = <<x>> \o <<y, z>>
        <3> DEFINE s == <<x>>
                   t == <<y, z>>
        <3>1. s \in Seq(Event) /\ t \in Seq(Event) /\ Len(s) = 1 /\ Len(t) = 2
              /\ s[1] = x /\ t[1] = y /\ t[2] = z /\ es = s \o t
            BY <1>1, <2>2
        <3> HIDE DEF s, t
        <3>2. /\ s \o t \in Seq(Event) /\ Len(s \o t) = Len(s) + Len(t)
              /\ \A k \in 1..(Len(s) + Len(t)) : (s \o t)[k] = IF k <= Len(s) THEN s[k] ELSE t[k - Len(s)]
            BY <3>1, ConcatProperties, Zenon
        <3>3. Len(es) = 3 /\ es[1] = s[1] /\ es[2] = t[1] /\ es[3] = t[2]
            BY <3>1, <3>2
        <3> QED
            BY <3>1, <3>2, <3>3
    <2> QED
        BY <2>1, <2>2
<1>3. 1..Len(es) = {1, 2, 3} /\ es # <<>>
    BY <1>2
<1> QED
    BY <1>2, <1>3

\* A history with messages behind it.
LEMMA Behind ==
    ASSUME NEW h \in Seq(Message), NEW r \in Seq(Message)
    PROVE  /\ Len(h \o r) = Len(h) + Len(r) /\ Len(h) \in 0..Len(h \o r)
           /\ \A k \in (Len(h) + 1)..Len(h \o r) : (h \o r)[k] = r[k - Len(h)] /\ k - Len(h) \in 1..Len(r)
           /\ SubSeq(h \o r, 1, Len(h)) = h /\ SubSeq(h \o r, 1, Len(h \o r)) = h \o r
           /\ \A k \in 0..Len(r) : /\ Len(h) + k \in Len(h)..Len(h \o r)
                                   /\ SubSeq(h \o r, 1, Len(h) + k) \in Seq(Message)
OBVIOUS

\* The queue is right when every event tells of the session as it is after the step.
LEMMA AllCurrent ==
    ASSUME events' \in Seq(Event),
           \A k \in 1..Len(events') :
              /\ events'[k].data.history = history'
              /\ events'[k].data.inbox = Kept(inbox', Persistable)
              /\ events'[k].kind # "added" => taken' = <<>> /\ phase' # "tools",
           phase' = "model" /\ events' # <<>> => events'[Len(events')].kind = "boundary"
    PROVE  QueueInv'
BY DEF QueueInv

\* What a step of the loop emits is a queue that is right, and a message it adds is announced.
LEMMA QueueStart ==
    ASSUME LoopTypeInv, LoopTypeInv', TakenInv, SavedLoop
    PROVE  /\ events' \in Seq(Event) /\ QueueInv'
           /\ events' = <<>> \/ events'[1].kind # "added" => history' = history
           /\ phase' = "model" /\ events' = <<>> => phase = "model"
<1>0. /\ history \in Seq(Message) /\ history' \in Seq(Message) /\ inbox' \in Seq(Notes)
      /\ stopReason \in Reasons /\ stopReason' \in Reasons
    BY DEF LoopTypeInv, TypeSession, ControlInv, TypeControl
<1> DEFINE Told(e) == /\ e \in Event /\ e.data.history = history'
                      /\ e.data.inbox = Kept(inbox', Persistable)
           added == Added(history', stopReason)
<1>1. ASSUME NEW r \in Reasons
      PROVE  /\ Told(Added(history', r)) /\ Added(history', r).kind = "added"
             /\ Told(Boundary(history', r)) /\ Boundary(history', r).kind = "boundary"
             /\ Told(Ended(history', r)) /\ Ended(history', r).kind = "ended"
    BY <1>0, EventsAre
<1>2. CASE SavedBeginLoop \/ SavedApply
    <2>1. events' = <<added>> /\ phase' # "model"
        BY <1>2 DEF SavedBeginLoop, SavedApply, BeginLoop, Apply, Emits
    <2>2. Told(added) /\ added.kind = "added"
        BY <1>0, <1>1
    <2> HIDE DEF added
    <2>3. events' \in Seq(Event) /\ Len(events') = 1 /\ events'[1] = added
        BY <2>1, <2>2
    <2> QED
        BY <2>1, <2>2, <2>3, AllCurrent
<1>3. CASE SavedAuxiliary \/ SavedPrepared
    <2> DEFINE e == Boundary(history', stopReason)
    <2>1. history' = history /\ taken' = taken /\ phase = "prepare" /\ phase' # "tools"
        BY <1>3 DEF SavedAuxiliary, SavedPrepared, Auxiliary, Prepared, session
    <2>2. events' = <<e>>
        BY <1>3, <2>1 DEF SavedAuxiliary, SavedPrepared, Emits
    <2>3. Told(e) /\ e.kind = "boundary"
        BY <1>0, <1>1
    <2> HIDE DEF e
    <2>4. events' \in Seq(Event) /\ Len(events') = 1 /\ events'[1] = e
        BY <2>2, <2>3
    <2>5. taken' = <<>>
        BY <2>1 DEF TakenInv
    <2> QED
        BY <2>1, <2>2, <2>3, <2>4, <2>5, AllCurrent
<1>4. CASE SavedTop
    <2>1. history' = history /\ phase = "top" /\ phase' \in {"idle", "applying"}
        BY <1>4 DEF SavedTop, Top, Stop
    <2>2. CASE phase' = "applying"
        <3>1. events' = <<>>
            BY <1>4, <2>2 DEF SavedTop, Emits
        <3>2. events' \in Seq(Event) /\ Len(events') = 0
            BY <3>1
        <3> QED
            BY <2>1, <2>2, <3>1, <3>2, AllCurrent
    <2>3. CASE phase' = "idle"
        <3> DEFINE e == Ended(history', stopReason')
        <3>1. events' = <<e>> /\ taken' = <<>>
            BY <1>4, <2>1, <2>3 DEF SavedTop, Top, Emits, TakenInv
        <3>2. Told(e) /\ e.kind = "ended"
            BY <1>0, <1>1
        <3> HIDE DEF e
        <3>3. events' \in Seq(Event) /\ Len(events') = 1 /\ events'[1] = e
            BY <3>1, <3>2
        <3> QED
            BY <2>1, <2>3, <3>1, <3>2, <3>3, AllCurrent
    <2> QED
        BY <2>1, <2>2, <2>3
<1>5. CASE SavedGuard \/ SavedModelFails
    <2> DEFINE b == Boundary(history', stopReason)
               c == Boundary(history', stopReason')
               e == Ended(history', stopReason')
    <2>1. history' = history /\ taken' = <<>> /\ phase' \in {"idle", "prepare"}
        BY <1>5 DEF SavedGuard, SavedModelFails, Guard, ModelFails, Stop, session, TakenInv
    <2>2. \/ (events' = <<b, c, e>> \/ events' = <<b>> \o <<c, e>>) /\ phase' = "idle"
          \/ events' = <<b>> \o <<>>
        <3>1. CASE SavedModelFails
            BY <2>1, <3>1 DEF SavedModelFails, ModelFails, Stop, Emits
        <3>2. CASE SavedGuard /\ phase' = "idle"
            <4>1. events' = <<b>> \o <<c, e>>
                BY <2>1, <3>2, Zenon DEF SavedGuard, Emits
            <4> QED
                BY <3>2, <4>1
        <3>3. CASE SavedGuard /\ phase' # "idle"
            <4>1. events' = <<b>> \o <<>>
                BY <2>1, <3>3, Zenon DEF SavedGuard, Emits
            <4> QED
                BY <4>1
        <3> QED
            BY <1>5, <3>1, <3>2, <3>3
    <2>3. /\ Told(b) /\ Told(c) /\ Told(e)
          /\ b.kind = "boundary" /\ c.kind = "boundary" /\ e.kind = "ended"
        BY <1>0, <1>1
    <2> HIDE DEF b, c, e
    <2>4. CASE events' = <<b>> \o <<>>
        <3>1. events' \in Seq(Event) /\ events' # <<>> /\ Len(events') = 1 /\ \A k \in 1..Len(events') : events'[k] = b
            BY <2>3, <2>4, OneEvent
        <3> QED
            BY <2>1, <2>3, <3>1, AllCurrent
    <2>5. CASE (events' = <<b, c, e>> \/ events' = <<b>> \o <<c, e>>) /\ phase' = "idle"
        <3>1. /\ events' \in Seq(Event) /\ events' # <<>> /\ Len(events') = 3
              /\ \A k \in 1..Len(events') : events'[k] \in {b, c, e}
            BY <2>3, <2>5, ThreeEvents
        <3> QED
            BY <2>1, <2>3, <2>5, <3>1, AllCurrent
    <2> QED
        BY <2>2, <2>4, <2>5
<1>6. CASE \E b \in Batches : SavedModelReturns(b)
    <2>1. PICK b \in Batches : SavedModelReturns(b)
        BY <1>6
    <2> DEFINE r == IF stopReason' = "completed" THEN stopReason ELSE stopReason'
               c == Boundary(history', r)
               e == Ended(history', stopReason')
    <2>2. taken' = <<>> /\ phase' \in {"idle", "tools"}
        BY <2>1 DEF SavedModelReturns, ModelReturns, Stop, TakenInv
    <2>3. \/ events' = <<added>> \o <<c, e>> /\ phase' = "idle"
          \/ events' = <<added>> \o <<>>
        <3>1. CASE phase' = "idle"
            BY <2>1, <3>1, Zenon DEF SavedModelReturns, Emits
        <3>2. CASE phase' # "idle"
            BY <2>1, <3>2, Zenon DEF SavedModelReturns, Emits
        <3> QED
            BY <3>1, <3>2
    <2>4. r \in Reasons
        BY <1>0
    <2>5. /\ Told(added) /\ Told(c) /\ Told(e)
          /\ added.kind = "added" /\ c.kind = "boundary" /\ e.kind = "ended"
        BY <1>0, <1>1, <2>4
    <2> HIDE DEF added, c, e
    <2>6. CASE events' = <<added>> \o <<>>
        <3>1. /\ events' \in Seq(Event) /\ events' # <<>> /\ events'[1] = added
              /\ \A k \in 1..Len(events') : events'[k] = added
            BY <2>5, <2>6, OneEvent
        <3> QED
            BY <2>2, <2>5, <3>1, AllCurrent
    <2>7. CASE events' = <<added>> \o <<c, e>> /\ phase' = "idle"
        <3>1. /\ events' \in Seq(Event) /\ events' # <<>> /\ events'[1] = added
              /\ \A k \in 1..Len(events') : events'[k] \in {added, c, e}
            BY <2>5, <2>7, ThreeEvents
        <3> QED
            BY <2>2, <2>5, <2>7, <3>1, AllCurrent
    <2> QED
        BY <2>3, <2>6, <2>7
<1>7. CASE SavedToolsDone
    <2> DEFINE n == Len(batch)
               a == [k \in 1..n |-> Added(SubSeq(history', 1, Len(history) + k), stopReason)]
               results == [k \in 1..n |-> ToolMessage(batch[k])]
               e == Boundary(history', stopReason)
    <2>1. /\ history' = history \o results /\ phase' = "top" /\ taken' = <<>>
          /\ events' = a \o <<e>>
        BY <1>7 DEF SavedToolsDone, ToolsDone, TakenInv, Emits
    <2>2. batch \in Seq(Calls) /\ n \in Nat
        <3>1. Batches \subseteq Seq(Calls) /\ <<>> \in Seq(Calls)
            BY LoopAssumption
        <3>2. batch \in Seq(Calls)
            BY <3>1 DEF LoopTypeInv, TypeTools
        <3> QED
            BY <3>2
    <2>3. /\ results \in Seq(Message) /\ Len(results) = n
          /\ \A k \in 1..n : results[k] \notin {Note(x) : x \in Notes}
        BY <2>2, MessagesAreMessages, NoNotes
    <2> HIDE DEF results
    <2>4. /\ Len(history') = Len(history) + n /\ Len(history) \in 0..Len(history')
          /\ \A k \in (Len(history) + 1)..Len(history') : history'[k] \notin {Note(x) : x \in Notes}
          /\ SubSeq(history', 1, Len(history)) = history /\ SubSeq(history', 1, Len(history')) = history'
          /\ \A k \in 0..n : /\ Len(history) + k \in Len(history)..Len(history')
                             /\ SubSeq(history', 1, Len(history) + k) \in Seq(Message)
        <3>1. history' = history \o results /\ results \in Seq(Message) /\ Len(results) = n
            BY <2>1, <2>3
        <3> HIDE DEF n
        <3>2. /\ Len(history') = Len(history) + Len(results) /\ Len(history) \in 0..Len(history')
              /\ \A k \in (Len(history) + 1)..Len(history') :
                    history'[k] = results[k - Len(history)] /\ k - Len(history) \in 1..Len(results)
              /\ SubSeq(history', 1, Len(history)) = history /\ SubSeq(history', 1, Len(history')) = history'
              /\ \A k \in 0..Len(results) : /\ Len(history) + k \in Len(history)..Len(history')
                                            /\ SubSeq(history', 1, Len(history) + k) \in Seq(Message)
            <4> DEFINE g == history \o results
            <4>1. /\ Len(g) = Len(history) + Len(results) /\ Len(history) \in 0..Len(g)
                  /\ \A k \in (Len(history) + 1)..Len(g) :
                        g[k] = results[k - Len(history)] /\ k - Len(history) \in 1..Len(results)
                  /\ SubSeq(g, 1, Len(history)) = history /\ SubSeq(g, 1, Len(g)) = g
                  /\ \A k \in 0..Len(results) : /\ Len(history) + k \in Len(history)..Len(g)
                                                /\ SubSeq(g, 1, Len(history) + k) \in Seq(Message)
                BY <1>0, <3>1, Behind
            <4> QED
                BY <3>1, <4>1
        <3> QED
            BY <2>3, <3>1, <3>2 DEF n
    <2>5. \A k \in Len(history)..Len(history') : NotesOf(SubSeq(history', 1, k)) = NotesOf(history')
        <3>1. Len(history') \in Len(history)..Len(history')
            BY <1>0, <2>4
        <3>2. \A k \in Len(history)..Len(history') :
                 NotesOf(SubSeq(history', 1, k)) = NotesOf(SubSeq(history', 1, Len(history)))
            BY <1>0, <2>4, NotesOfPrefix
        <3> QED
            BY <2>4, <3>1, <3>2
    <2>6. ASSUME NEW k \in 1..n
          PROVE  /\ a[k] \in Event /\ a[k].kind = "added"
                 /\ a[k].data.inbox = Kept(inbox', Persistable)
                 /\ NotesOf(a[k].data.history) = NotesOf(history')
                 /\ k = n => a[k].data.history = history'
        <3> DEFINE h == SubSeq(history', 1, Len(history) + k)
        <3>1. h \in Seq(Message) /\ NotesOf(h) = NotesOf(history') /\ (k = n => h = history')
            <4>1. k \in 0..n
                BY <2>2
            <4> HIDE DEF n
            <4> QED
                BY <2>4, <2>5, <4>1
        <3> HIDE DEF h
        <3>2. /\ Added(h, stopReason) \in Event /\ Added(h, stopReason).kind = "added"
              /\ Added(h, stopReason).data.history = h
              /\ Added(h, stopReason).data.inbox = Kept(inbox', Persistable)
            BY <1>0, <3>1, EventsAre
        <3>3. a[k] = Added(h, stopReason)
            BY DEF h
        <3> QED
            BY <3>1, <3>2, <3>3
    <2>7. Told(e) /\ e.kind = "boundary"
        BY <1>0, <1>1
    <2>8. a \in Seq(Event) /\ Len(a) = n
        BY <2>2, <2>6
    <2> HIDE DEF a, e, n
    <2>9. /\ events' \in Seq(Event) /\ Len(events') = n + 1 /\ events'[n + 1] = e
          /\ \A k \in 1..n : events'[k] = a[k]
        <3>1. <<e>> \in Seq(Event) /\ Len(<<e>>) = 1 /\ <<e>>[1] = e
            BY <2>7
        <3>2. /\ a \o <<e>> \in Seq(Event) /\ Len(a \o <<e>>) = Len(a) + Len(<<e>>)
              /\ \A k \in 1..(Len(a) + Len(<<e>>)) :
                    (a \o <<e>>)[k] = IF k <= Len(a) THEN a[k] ELSE <<e>>[k - Len(a)]
            BY <2>8, <3>1, ConcatProperties
        <3>3. n + 1 \in 1..(n + 1) /\ ~(n + 1 <= n) /\ (n + 1) - n = 1
              /\ \A k \in 1..n : k \in 1..(n + 1) /\ k <= n
            BY <2>2
        <3>4. events' = a \o <<e>>
            BY <2>1
        <3> QED
            BY <2>8, <3>1, <3>2, <3>3, <3>4
    <2>10. events'[1].kind # "added" => history' = history
        <3>1. CASE n = 0
            <4>1. Len(history') = Len(history)
                BY <1>0, <2>4, <3>1
            <4> QED
                BY <2>4, <4>1
        <3>2. CASE n # 0
            BY <2>2, <2>6, <2>9, <3>2
        <3> QED
            BY <3>1, <3>2
    <2>11. ASSUME NEW k \in 1..(n + 1)
           PROVE  /\ events'[k].data.inbox = Kept(inbox', Persistable)
                  /\ NotesOf(events'[k].data.history) = NotesOf(history')
                  /\ events'[k].kind # "added" =>
                        events'[k].data.history = history' /\ taken' = <<>> /\ phase' # "tools"
                  /\ k = n + 1 => events'[k].data.history = history'
                  /\ k < n + 1 => events'[k + 1].kind = "added" \/ events'[k].data.history = history'
        <3>1. CASE k = n + 1
            BY <2>1, <2>7, <2>9, <3>1
        <3>2. CASE k \in 1..n
            <4>1. k < n => k + 1 \in 1..n
                BY <2>2, <3>2
            <4> QED
                BY <2>2, <2>6, <2>9, <3>2, <4>1
        <3> QED
            BY <2>2, <3>1, <3>2
    <2>12. QueueInv'
        BY <2>1, <2>9, <2>11 DEF QueueInv
    <2>13. events' # <<>>
        BY <2>2, <2>9
    <2> QED
        BY <2>9, <2>10, <2>12, <2>13
<1>8. CASE Unheard
    <2>1. events' = <<>> /\ history' = history /\ (phase' = "model" => phase = "model")
        BY <1>8 DEF Unheard, Emits, Run, Interrupt, Tick, Submit, Tool, Gate, Approved, ToolReturns,
                    SetCall, LateFinishes, GateRaises, Cancelled, ApplyRaises, Raise, session
    <2>2. events' \in Seq(Event) /\ Len(events') = 0
        BY <2>1
    <2> QED
        BY <2>1, <2>2, AllCurrent
<1> QED
    BY <1>2, <1>3, <1>4, <1>5, <1>6, <1>7, <1>8 DEF SavedLoop

-----------------------------------------------------------------------------
(* AutoSave and the process. *)

\* The three ways AutoSave deals with an event: the snapshot is stored, the save fails, or
\* there is nothing to save.
Stores(e) ==
    /\ disk' = e.data /\ unsaved' = FALSE /\ failures' = failures
    /\ e.kind # "added" \/ EveryMessage

Fails(e) ==
    /\ disk' = disk /\ failures < MaxFailures /\ failures' = failures + 1
    /\ e.kind = "added" => unsaved' = TRUE
    /\ e.kind # "added" => unsaved' = unsaved

Skips(e) ==
    /\ disk' = disk /\ failures' = failures
    /\ e.kind = "added" => unsaved' = TRUE
    /\ e.kind # "added" => e.kind = "boundary" /\ ~unsaved /\ unsaved' = unsaved

\* AutoSave deals with the first event in one of these ways.
LEMMA HearIs ==
    ASSUME StoreTypeInv, Hear
    PROVE  /\ events # <<>> /\ events[1] \in Event /\ events' = Tail(events) /\ UNCHANGED vars
           /\ Stores(events[1]) \/ Fails(events[1]) \/ Skips(events[1])
<1> DEFINE e == events[1]
           s0 == [disk |-> disk, unsaved |-> unsaved, failures |-> failures]
           s1 == [s0 EXCEPT !.unsaved = TRUE]
<1>1. events \in Seq(Event) /\ events # <<>> /\ events' = Tail(events) /\ UNCHANGED vars
    BY DEF Hear, StoreTypeInv
<1>2. e \in Event /\ Head(events) = e
    BY <1>1
<1>3. e.kind \in {"added", "boundary", "ended"}
    BY <1>2 DEF Event
<1>4. PICK s \in On(s0, e) : disk' = s.disk /\ unsaved' = s.unsaved /\ failures' = s.failures
    BY <1>1, <1>2 DEF Hear
<1> SUFFICES Stores(e) \/ Fails(e) \/ Skips(e)
    BY <1>1, <1>2
<1> HIDE DEF e
<1>5. ASSUME NEW t, t.disk = disk, t.failures = failures, NEW u \in Save(t, e.data),
             t \in [disk : {disk}, unsaved : BOOLEAN, failures : {failures}]
      PROVE  \/ u.disk = e.data /\ u.unsaved = FALSE /\ u.failures = failures
             \/ u.disk = disk /\ u.unsaved = t.unsaved /\ failures < MaxFailures /\ u.failures = failures + 1
    BY <1>5 DEF Save, Saved
<1>6. /\ s0 \in [disk : {disk}, unsaved : BOOLEAN, failures : {failures}]
      /\ s1 \in [disk : {disk}, unsaved : BOOLEAN, failures : {failures}]
      /\ s0.disk = disk /\ s0.failures = failures /\ s0.unsaved = unsaved
      /\ s1.disk = disk /\ s1.failures = failures /\ s1.unsaved = TRUE
    BY DEF StoreTypeInv
<1>7. CASE e.kind = "added"
    <2>1. On(s0, e) = IF EveryMessage THEN Save(s1, e.data) ELSE {s1}
        BY <1>7 DEF On
    <2> HIDE DEF s0, s1
    <2>2. CASE EveryMessage
        <3>1. s \in Save(s1, e.data)
            BY <1>4, <2>1, <2>2
        <3> QED
            BY <1>4, <1>5, <1>6, <1>7, <2>2, <3>1 DEF Stores, Fails
    <2>3. CASE ~EveryMessage
        <3>1. s = s1
            BY <1>4, <2>1, <2>3
        <3> QED
            BY <1>4, <1>6, <1>7, <3>1 DEF Skips
    <2> QED
        BY <2>2, <2>3
<1>8. CASE e.kind = "boundary"
    <2>1. On(s0, e) = IF s0.unsaved THEN Save(s0, e.data) ELSE {s0}
        BY <1>8 DEF On
    <2> HIDE DEF s0, s1
    <2>2. CASE unsaved
        <3>1. s \in Save(s0, e.data)
            BY <1>4, <1>6, <2>1, <2>2
        <3> QED
            BY <1>4, <1>5, <1>6, <1>8, <3>1 DEF Stores, Fails
    <2>3. CASE ~unsaved
        <3>1. s = s0
            BY <1>4, <1>6, <2>1, <2>3
        <3> QED
            BY <1>4, <1>6, <1>8, <2>3, <3>1 DEF Skips
    <2> QED
        BY <2>2, <2>3
<1>9. CASE e.kind = "ended"
    <2>1. On(s0, e) = Save(s0, e.data)
        BY <1>9 DEF On
    <2> HIDE DEF s0, s1
    <2> QED
        BY <1>4, <1>5, <1>6, <1>9, <2>1 DEF Stores, Fails
<1> QED
    BY <1>3, <1>7, <1>8, <1>9

\* The queue behind its first event.
LEMMA Rest ==
    ASSUME NEW q \in Seq(Event), q # <<>>
    PROVE  /\ Tail(q) \in Seq(Event) /\ Len(Tail(q)) = Len(q) - 1 /\ Len(q) \in Nat \ {0}
           /\ \A k \in 1..Len(Tail(q)) : Tail(q)[k] = q[k + 1] /\ k + 1 \in 1..Len(q)
           /\ Tail(q) = <<>> <=> Len(q) = 1
<1>1. /\ Tail(q) \in Seq(Event) /\ Len(Tail(q)) = Len(q) - 1 /\ Len(q) \in Nat \ {0}
    OBVIOUS
<1>2. \A k \in 1..Len(Tail(q)) : Tail(q)[k] = q[k + 1] /\ k + 1 \in 1..Len(q)
    OBVIOUS
<1> DEFINE t == Tail(q)
<1>3. t \in Seq(Event) /\ (Len(t) = 0 <=> Len(q) = 1)
    BY <1>1
<1> HIDE DEF t
<1>4. t = <<>> <=> Len(t) = 0
    BY <1>3
<1> QED
    BY <1>1, <1>2, <1>3, <1>4 DEF t

\* A snapshot is not None, and has the parts of a session.
LEMMA SnapshotParts ==
    ASSUME NEW d \in Snapshots
    PROVE  d # None /\ d.history \in Seq(Message) /\ d.inbox \in Seq(Notes) /\ d.stopReason \in Reasons
BY SaveAssumption DEF Snapshots

SessionInv == LoopTypeInv /\ StoreTypeInv /\ TakenInv /\ QueueInv /\ CurrentInv

\* A process that starts has nothing stored.
LEMMA SessionInit == SavedInit => SessionInv
<1> SUFFICES ASSUME SavedInit PROVE SessionInv
    OBVIOUS
<1>1. LoopTypeInv
    BY LoopTypeInit DEF SavedInit
<1>2. /\ Init /\ disk = None /\ unsaved = FALSE /\ failures = 0 /\ events = <<>>
    BY DEF SavedInit
<1>3. events \in Seq(Event) /\ Len(events) = 0
    BY <1>2
<1>4. 0 \in 0..MaxFailures
    BY SaveAssumption
<1>5. StoreTypeInv
    BY <1>2, <1>3, <1>4 DEF StoreTypeInv
<1>6. TakenInv /\ QueueInv
    BY <1>2, <1>3, InitSession DEF TakenInv, QueueInv
<1>7. CurrentInv
    BY <1>2, InitSession DEF CurrentInv, Latest
<1> QED
    BY <1>1, <1>5, <1>6, <1>7 DEF SessionInv

\* The session a process resumes is typed.
LEMMA CrashTypes == LoopTypeInv /\ StoreTypeInv /\ Crash => LoopTypeInv'
<1> SUFFICES ASSUME LoopTypeInv, StoreTypeInv, Crash PROVE LoopTypeInv'
    OBVIOUS
<1>1. history' \in Seq(Message) /\ inbox' \in Seq(Notes) /\ stopReason' \in Reasons
    <2>1. CASE disk = None
        <3>1. history' = <<>> /\ inbox' = <<>> /\ stopReason' = ""
            BY <2>1 DEF Crash
        <3>2. <<>> \in Seq(Message) /\ <<>> \in Seq(Notes) /\ "" \in Reasons
            BY DEF Reasons
        <3> QED
            BY <3>1, <3>2
    <2>2. CASE disk # None
        BY <2>2, SnapshotParts DEF Crash, StoreTypeInv
    <2> QED
        BY <2>1, <2>2
<1>2. /\ phase' = "idle" /\ interrupted' = FALSE /\ asked' = FALSE /\ runs' = runs
      /\ taken' = <<>> /\ i' = 0 /\ aux' = 0 /\ batch' = <<>>
      /\ call' = [c \in Calls |-> "none"] /\ late' = [c \in Calls |-> FALSE]
      /\ cost' = 0 /\ counted' = None /\ paid' = 0 /\ startedAt' = None
      /\ clock' = clock /\ submitted' = submitted
    BY DEF Crash
<1>3. ControlInv'
    BY <1>1, <1>2, Limits DEF LoopTypeInv, ControlInv, TypeControl, BelowLimit, Phases
<1>4. TypeSession'
    <2>1. taken' \in Seq(Notes)
        BY <1>2
    <2> QED
        BY <1>1, <1>2, <2>1 DEF LoopTypeInv, TypeSession
<1>5. TypeTools'
    BY <1>2 DEF TypeTools
<1>6. TypeCounters'
    BY <1>2 DEF LoopTypeInv, TypeCounters
<1> QED
    BY <1>3, <1>4, <1>5, <1>6 DEF LoopTypeInv

\* While AutoSave listens, the session stands still.
LEMMA StandsStill ==
    ASSUME UNCHANGED vars
    PROVE  /\ UNCHANGED <<phase, history, interrupted, inbox, taken, batch, call, late, submitted>>
           /\ LoopTypeInv => LoopTypeInv' /\ (TakenInv => TakenInv')
           /\ KnownNotes' = KnownNotes
<1>1. UNCHANGED <<phase, history, interrupted, inbox, taken, batch, call, late, submitted>>
    BY DEF vars, session
<1>2. LoopTypeInv => LoopTypeInv'
    BY LoopTypeStep
<1>3. TakenInv => TakenInv'
    BY <1>1 DEF TakenInv
<1>4. KnownNotes' = KnownNotes
    BY <1>1 DEF KnownNotes, NotesOf
<1> QED
    BY <1>1, <1>2, <1>3, <1>4

\* Every step keeps the types, and the queue of events and the disk in agreement with the session.
LEMMA SessionInvStep == SessionInv /\ [SavedNext]_allVars => SessionInv'
<1> SUFFICES ASSUME SessionInv, [SavedNext]_allVars PROVE SessionInv'
    OBVIOUS
<1>0. /\ LoopTypeInv /\ StoreTypeInv /\ TakenInv /\ QueueInv /\ CurrentInv
      /\ disk \in Snapshots \cup {None} /\ unsaved \in BOOLEAN /\ failures \in 0..MaxFailures
      /\ events \in Seq(Event) /\ MaxFailures \in Nat
    BY SaveAssumption DEF SessionInv, StoreTypeInv
<1>1. CASE events = <<>> /\ SavedLoop
    <2>1. Next /\ UNCHANGED store
        BY <1>1, SavedLoopIsNext
    <2>2. LoopTypeInv' /\ TakenInv'
        BY <1>0, <2>1, LoopTypeStep, TakenStep
    <2>3. /\ events' \in Seq(Event) /\ QueueInv'
          /\ events' = <<>> \/ events'[1].kind # "added" => history' = history
        BY <1>0, <1>1, <2>2, QueueStart
    <2>4. StoreTypeInv'
        BY <1>0, <2>1, <2>3 DEF StoreTypeInv, store
    <2>5. CurrentInv'
        BY <1>0, <1>1, <2>1, <2>3 DEF CurrentInv, Latest, store
    <2> QED
        BY <2>2, <2>3, <2>4, <2>5 DEF SessionInv
<1>2. CASE Hear
    <2> DEFINE e == events[1]
    <2>1. /\ events # <<>> /\ e \in Event /\ events' = Tail(events) /\ UNCHANGED vars
          /\ Stores(e) \/ Fails(e) \/ Skips(e)
        BY <1>0, <1>2, HearIs
    <2>2. UNCHANGED <<phase, history, inbox, taken>> /\ LoopTypeInv' /\ TakenInv'
        BY <1>0, <2>1, StandsStill
    <2>3. /\ events' \in Seq(Event) /\ Len(events') = Len(events) - 1 /\ Len(events) \in Nat \ {0}
          /\ \A k \in 1..Len(events') : events'[k] = events[k + 1] /\ k + 1 \in 1..Len(events)
          /\ events' = <<>> <=> Len(events) = 1
        BY <1>0, <2>1, Rest
    <2>4. e.data \in Snapshots
        BY <2>1 DEF Event
    <2> HIDE DEF e
    <2>5. StoreTypeInv'
        <3>1. disk' \in Snapshots \cup {None}
            BY <1>0, <2>1, <2>4 DEF Stores, Fails, Skips
        <3>2. unsaved' \in BOOLEAN
            BY <1>0, <2>1 DEF Stores, Fails, Skips
        <3>3. failures' \in 0..MaxFailures
            BY <1>0, <2>1 DEF Stores, Fails, Skips
        <3> QED
            BY <2>3, <3>1, <3>2, <3>3 DEF StoreTypeInv
    <2>6. QueueInv'
        <3>1. NotesOf(history)' = NotesOf(history) /\ Kept(inbox, Persistable)' = Kept(inbox, Persistable)
            BY <2>2 DEF NotesOf
        <3>2. ASSUME NEW k \in 1..Len(events')
              PROVE  /\ events'[k].data.inbox = Kept(inbox, Persistable)
                     /\ NotesOf(events'[k].data.history) = NotesOf(history)
                     /\ events'[k].kind # "added" =>
                           events'[k].data.history = history /\ taken = <<>> /\ phase # "tools"
                     /\ k = Len(events') => events'[k].data.history = history
                     /\ k < Len(events') => events'[k + 1].kind = "added" \/ events'[k].data.history = history
            <4>1. k + 1 \in 1..Len(events) /\ events'[k] = events[k + 1]
                BY <2>3
            <4>2. k = Len(events') => k + 1 = Len(events)
                BY <2>3
            <4>3. k < Len(events') => k + 1 < Len(events) /\ events'[k + 1] = events[(k + 1) + 1]
                BY <2>3
            <4> QED
                BY <1>0, <4>1, <4>2, <4>3 DEF QueueInv
        <3>3. phase' = "model" /\ events' # <<>> => events'[Len(events')].kind = "boundary"
            <4>1. events' # <<>> => Len(events') \in 1..Len(events') /\ Len(events') + 1 = Len(events)
                BY <2>3
            <4> QED
                BY <1>0, <2>1, <2>2, <2>3, <4>1 DEF QueueInv
        <3> QED
            BY <2>2, <3>1, <3>2, <3>3 DEF QueueInv
    <2>7. CurrentInv'
        <3>1. SUFFICES ASSUME events' = <<>> \/ events'[1].kind # "added", ~unsaved'
                       PROVE  history' = Latest'
            BY DEF CurrentInv
        <3>2. CASE Stores(e)
            <4>1. e.data.history = history
                <5>1. Len(events) = 1 \/ (1 < Len(events) /\ events'[1] = events[1 + 1])
                    BY <2>3
                <5>2. 1 \in 1..Len(events)
                    BY <2>3
                <5> QED
                    BY <1>0, <2>3, <3>1, <5>1, <5>2 DEF QueueInv, e
            <4> QED
                BY <2>2, <2>4, <3>2, <4>1, SnapshotParts DEF Latest, Stores
        <3>3. CASE Fails(e) \/ Skips(e)
            <4>1. e.kind # "added" /\ ~unsaved /\ disk' = disk
                BY <3>1, <3>3 DEF Fails, Skips
            <4> QED
                BY <1>0, <2>2, <4>1 DEF CurrentInv, Latest, e
        <3> QED
            BY <2>1, <3>2, <3>3
    <2> QED
        BY <2>2, <2>5, <2>6, <2>7 DEF SessionInv
<1>3. CASE Crash
    <2>1. LoopTypeInv'
        BY <1>0, <1>3, CrashTypes
    <2>2. /\ events' = <<>> /\ taken' = <<>> /\ unsaved' = FALSE /\ disk' = disk /\ failures' = failures
          /\ history' = Latest
        BY <1>3 DEF Crash, Latest
    <2>3. events' \in Seq(Event) /\ Len(events') = 0
        BY <2>2
    <2>4. StoreTypeInv' /\ TakenInv' /\ QueueInv'
        <3>1. StoreTypeInv'
            BY <1>0, <2>2, <2>3 DEF StoreTypeInv
        <3>2. TakenInv'
            BY <2>2 DEF TakenInv
        <3>3. QueueInv'
            BY <2>2, <2>3 DEF QueueInv
        <3> QED
            BY <3>1, <3>2, <3>3
    <2>5. CurrentInv'
        BY <2>2 DEF CurrentInv, Latest
    <2> QED
        BY <2>1, <2>4, <2>5 DEF SessionInv
<1>4. CASE UNCHANGED allVars
    <2>1. UNCHANGED vars /\ UNCHANGED <<disk, unsaved, failures, events>>
        BY <1>4 DEF allVars, store
    <2>2. UNCHANGED <<phase, history, inbox, taken>> /\ LoopTypeInv' /\ TakenInv'
        BY <1>0, <2>1, StandsStill
    <2>3. StoreTypeInv'
        BY <1>0, <2>1 DEF StoreTypeInv
    <2>4. QueueInv'
        BY <1>0, <2>1, <2>2 DEF QueueInv, NotesOf
    <2>5. CurrentInv'
        BY <1>0, <2>1, <2>2 DEF CurrentInv, Latest
    <2> QED
        BY <2>2, <2>3, <2>4, <2>5 DEF SessionInv
<1> QED
    BY <1>1, <1>2, <1>3, <1>4 DEF SavedNext

\* The session invariant holds in every reachable state.
LEMMA SessionInvariance == SavedSpec => []SessionInv
BY SessionInit, SessionInvStep, PTL DEF SavedSpec

\* AutoSave never takes a session for saved that is not: one that is not pending is on disk
\* as it is, whichever saves failed, and wherever the process died and was resumed.
THEOREM SavedSessionIsCurrent == SavedSpec => []SavedIsCurrent
<1>1. SessionInv => SavedIsCurrent
    BY DEF SessionInv, CurrentInv, SavedIsCurrent, Latest
<1> QED
    BY <1>1, SessionInvariance, PTL

-----------------------------------------------------------------------------
(* The input of a model call. *)

\* Every step of the loop leaves messages in a session whose run has begun.
LEMMA HistoryStarts ==
    ASSUME LoopTypeInv, phase \notin {"idle", "starting"} => history # <<>>, Next
    PROVE  phase' \notin {"idle", "starting"} => history' # <<>>
<1>0. history \in Seq(Message) /\ batch \in Seq(Calls)
    <2>1. Batches \subseteq Seq(Calls) /\ <<>> \in Seq(Calls)
        BY LoopAssumption
    <2> QED
        BY <2>1 DEF LoopTypeInv, TypeSession, TypeTools
<1>1. CASE BeginLoop \/ Apply \/ \E b \in Batches : ModelReturns(b)
    <2>1. PICK m : history' = Append(history, m)
        BY <1>1 DEF BeginLoop, Apply, ModelReturns
    <2> QED
        BY <1>0, <2>1
<1>2. CASE ToolsDone
    <2> DEFINE r == [k \in 1..Len(batch) |-> ToolMessage(batch[k])]
    <2>1. history' = history \o r /\ history # <<>>
        BY <1>2 DEF ToolsDone
    <2>2. r \in Seq(Message)
        BY <1>0, MessagesAreMessages
    <2> HIDE DEF r
    <2>3. Len(history) # 0 /\ Len(history \o r) = Len(history) + Len(r) /\ Len(r) \in Nat /\ Len(history) \in Nat
        BY <1>0, <2>1, <2>2
    <2>4. Len(history') # 0
        BY <2>1, <2>3
    <2> QED
        BY <2>4
<1>3. CASE Top \/ Guard \/ Auxiliary \/ Prepared \/ ModelFails
    BY <1>3 DEF Top, Guard, Auxiliary, Prepared, ModelFails, session
<1>4. CASE Run \/ Cancelled \/ ApplyRaises \/ \E c \in Calls : GateRaises(c)
    BY <1>4 DEF Run, Cancelled, ApplyRaises, GateRaises, Raise
<1>5. CASE Interrupt \/ Tick \/ (\E n \in Notes : Submit(n)) \/ \E c \in Calls : Tool(c) \/ LateFinishes(c)
    <2>1. UNCHANGED <<phase, history>>
        BY <1>5 DEF Interrupt, Tick, Submit, Tool, Gate, Approved, ToolReturns, SetCall,
                    LateFinishes, session
    <2> QED
        BY <2>1
<1> QED
    BY <1>1, <1>2, <1>3, <1>4, <1>5 DEF Next, Loop

\* Every step keeps the session of a model call that no failed save left pending saved.
LEMMA ModelInvStep == SessionInv /\ ModelInv /\ [SavedNext]_allVars => ModelInv'
<1> SUFFICES ASSUME SessionInv, ModelInv, [SavedNext]_allVars PROVE ModelInv'
    OBVIOUS
<1>0. /\ LoopTypeInv /\ StoreTypeInv /\ TakenInv /\ QueueInv /\ CurrentInv
      /\ events \in Seq(Event) /\ failures \in Nat
    BY SaveAssumption DEF SessionInv, StoreTypeInv
<1>1. CASE events = <<>> /\ SavedLoop
    <2>1. Next /\ UNCHANGED store
        BY <1>1, SavedLoopIsNext
    <2>2. LoopTypeInv'
        BY <1>0, <2>1, LoopTypeStep
    <2>3. phase' = "model" /\ events' = <<>> => phase = "model"
        BY <1>0, <1>1, <2>2, QueueStart
    <2>4. phase' \notin {"idle", "starting"} => history' # <<>>
        BY <1>0, <2>1, HistoryStarts DEF ModelInv
    <2> QED
        BY <1>1, <2>1, <2>3, <2>4 DEF ModelInv, store
<1>2. CASE Hear
    <2> DEFINE e == events[1]
    <2>1. /\ events # <<>> /\ e \in Event /\ events' = Tail(events) /\ UNCHANGED vars
          /\ Stores(e) \/ Fails(e) \/ Skips(e)
        BY <1>0, <1>2, HearIs
    <2>2. UNCHANGED <<phase, history>>
        BY <2>1, StandsStill
    <2>3. events' = <<>> <=> Len(events) = 1
        BY <1>0, <2>1, Rest
    <2>4. phase = "model" /\ events' = <<>> => e.kind = "boundary"
        BY <1>0, <2>1, <2>3 DEF QueueInv
    <2> HIDE DEF e
    <2>5. phase' = "model" /\ events' = <<>> /\ failures' = 0 => ~unsaved'
        <3>1. ~Fails(e) \/ failures' # 0
            BY <1>0 DEF Fails
        <3> QED
            BY <2>1, <2>2, <2>4, <3>1 DEF Stores, Skips
    <2> QED
        BY <2>2, <2>5 DEF ModelInv
<1>3. CASE Crash
    BY <1>3 DEF Crash, ModelInv
<1>4. CASE UNCHANGED allVars
    <2>1. UNCHANGED vars /\ UNCHANGED <<unsaved, failures, events>>
        BY <1>4 DEF allVars, store
    <2>2. UNCHANGED <<phase, history>>
        BY <2>1, StandsStill
    <2> QED
        BY <2>1, <2>2 DEF ModelInv
<1> QED
    BY <1>1, <1>2, <1>3, <1>4 DEF SavedNext

\* As long as no save failed, all that a model is asked about is on disk before it is asked,
\* so that neither a failing call nor a crash during it loses the user's input.
THEOREM InputIsOnDisk == SavedSpec => []InputOnDisk
<1>1. SavedInit => ModelInv
    BY InitControl DEF SavedInit, ModelInv
<1>2. SessionInv /\ ModelInv => InputOnDisk
    <2> SUFFICES ASSUME SessionInv, ModelInv, phase = "model", events = <<>>, failures = 0
                 PROVE  disk # None /\ disk.history = history
        BY DEF InputOnDisk
    <2>1. ~unsaved /\ history # <<>>
        BY DEF ModelInv
    <2>2. history = Latest
        BY <2>1 DEF SessionInv, CurrentInv
    <2> QED
        BY <2>1, <2>2 DEF Latest
<1>3. SavedSpec => []ModelInv
    BY <1>1, ModelInvStep, SessionInvariance, PTL DEF SavedSpec
<1> QED
    BY <1>2, <1>3, SessionInvariance, PTL

-----------------------------------------------------------------------------
(* What a resumed process and a model are given. *)

\* No cancellation and no raising gate tears down a gather.
GathersFinish == Quirks \cap {"cancel", "raise_in_gate"} = {}

AnswersInv == SessionInv /\ QuietInv /\ AnsweredInv /\ BoundaryInv

\* Every step keeps what is stored, and the session, answered.
LEMMA AnswersStep ==
    ASSUME GathersFinish, ~EveryMessage, AnswersInv, [SavedNext]_allVars
    PROVE  AnswersInv'
<1>0. /\ SessionInv /\ LoopTypeInv /\ StoreTypeInv /\ TakenInv /\ QueueInv
      /\ QuietInv /\ AnsweredInv /\ BoundaryInv /\ TypeTools
      /\ events \in Seq(Event)
    BY DEF AnswersInv, SessionInv, LoopTypeInv, StoreTypeInv
<1>1. SessionInv'
    BY <1>0, SessionInvStep
<1>2. ASSUME [Next]_vars PROVE QuietInv' /\ AnsweredInv'
    BY <1>0, <1>2, QuietStep, AnsweredStep DEF GathersFinish
<1>3. CASE events = <<>> /\ SavedLoop
    <2>1. Next /\ UNCHANGED store
        BY <1>3, SavedLoopIsNext
    <2>2. QuietInv' /\ AnsweredInv'
        BY <1>2, <2>1
    <2>3. BoundaryInv'
        BY <1>0, <2>1 DEF BoundaryInv, store
    <2> QED
        BY <1>1, <2>2, <2>3 DEF AnswersInv
<1>4. CASE Hear
    <2> DEFINE e == events[1]
    <2>1. /\ events # <<>> /\ e \in Event /\ UNCHANGED vars
          /\ Stores(e) \/ Fails(e) \/ Skips(e)
        BY <1>0, <1>4, HearIs
    <2>2. QuietInv' /\ AnsweredInv'
        BY <1>2, <2>1
    <2>3. 1 \in 1..Len(events)
        BY <1>0, <2>1
    <2>4. e.kind # "added" => e.data.history = history /\ phase # "tools"
        BY <1>0, <2>3 DEF QueueInv
    <2> HIDE DEF e
    <2>5. CASE Stores(e)
        <3>1. disk' = e.data /\ e.data.history = history /\ phase # "tools"
            BY <2>4, <2>5 DEF Stores
        <3>2. AnsweredUpTo(disk'.history, Len(disk'.history))
            BY <1>0, <3>1 DEF AnsweredInv
        <3> QED
            BY <1>1, <2>2, <3>2 DEF AnswersInv, BoundaryInv
    <2>6. CASE Fails(e) \/ Skips(e)
        <3>1. disk' = disk
            BY <2>6 DEF Fails, Skips
        <3> QED
            BY <1>0, <1>1, <2>2, <3>1 DEF AnswersInv, BoundaryInv
    <2> QED
        BY <2>1, <2>5, <2>6
<1>5. CASE Crash
    <2>1. /\ phase' = "idle" /\ history' = Latest /\ disk' = disk
          /\ call' = [c \in Calls |-> "none"] /\ late' = [c \in Calls |-> FALSE]
        BY <1>5 DEF Crash, Latest
    <2>2. QuietInv'
        BY <2>1 DEF QuietInv
    <2>3. AnsweredUpTo(Latest, Len(Latest))
        <3>1. CASE disk = None
            BY <3>1 DEF Latest, AnsweredUpTo
        <3>2. CASE disk # None
            BY <1>0, <3>2 DEF Latest, BoundaryInv
        <3> QED
            BY <3>1, <3>2
    <2>4. AnsweredInv' /\ BoundaryInv'
        BY <1>0, <2>1, <2>3 DEF AnsweredInv, BoundaryInv
    <2> QED
        BY <1>1, <2>2, <2>4 DEF AnswersInv
<1>6. CASE UNCHANGED allVars
    <2>1. UNCHANGED vars /\ disk' = disk
        BY <1>6 DEF allVars, store
    <2>2. QuietInv' /\ AnsweredInv'
        BY <1>2, <2>1
    <2> QED
        BY <1>0, <1>1, <2>1, <2>2 DEF AnswersInv, BoundaryInv
<1> QED
    BY <1>3, <1>4, <1>5, <1>6 DEF SavedNext

\* Those invariants hold in every reachable state.
LEMMA AnswersInvariance == ASSUME GathersFinish, ~EveryMessage PROVE SavedSpec => []AnswersInv
<1>1. SavedInit => AnswersInv
    <2> SUFFICES ASSUME SavedInit PROVE AnswersInv
        OBVIOUS
    <2>1. Init /\ disk = None
        BY DEF SavedInit
    <2>2. QuietInv
        BY <2>1 DEF Init, QuietInv
    <2>3. history = <<>> /\ phase = "idle"
        BY <2>1, InitSession, InitControl, Zenon
    <2>4. Len(history) = 0
        BY <2>3
    <2>5. AnsweredInv
        BY <2>3, <2>4 DEF AnsweredInv, AnsweredUpTo
    <2> QED
        BY <2>1, <2>2, <2>5, SessionInit DEF AnswersInv, BoundaryInv
<1>2. AnswersInv /\ [SavedNext]_allVars => AnswersInv'
    BY AnswersStep
<1> QED
    BY <1>1, <1>2, PTL DEF SavedSpec

\* With every_message=False, whatever a process resumes from is a whole iteration: each tool
\* call of the stored history is answered there, however saves fail and processes die.
THEOREM StoredAtBoundary ==
    ASSUME GathersFinish, ~EveryMessage PROVE SavedSpec => []DiskIsBoundary
<1>1. AnswersInv => DiskIsBoundary
    BY DEF AnswersInv, BoundaryInv, AnsweredUpTo, DiskIsBoundary, Answered
<1> QED
    BY <1>1, AnswersInvariance, PTL

\* Crashes and resumes included, a model is only ever given histories that answer every
\* tool call, and no tool is left running when run() has returned.
THEOREM ResumedSessionsAnswer ==
    ASSUME GathersFinish, ~EveryMessage PROVE SavedSpec => []CallsAwaited
<1>1. AnswersInv => ModelSeesAnswers
    BY DEF AnswersInv, AnsweredInv, AnsweredUpTo, ModelSeesAnswers, Answered
<1>2. AnswersInv => QuietWhenIdle
    BY DEF AnswersInv, QuietInv, QuietWhenIdle
<1>3. ModelSeesAnswers /\ QuietWhenIdle => CallsAwaited
    BY DEF CallsAwaited
<1> QED
    BY <1>1, <1>2, <1>3, AnswersInvariance, PTL

-----------------------------------------------------------------------------
(* Interventions.  First the elements of sequences and of what Kept keeps. *)

\* The elements of a sequence are those at its positions.
LEMMA Elements ==
    ASSUME NEW A, NEW s \in Seq(A)
    PROVE  /\ \A x : x \in ToSet(s) <=> \E k \in 1..Len(s) : s[k] = x
           /\ ToSet(s) \subseteq A
BY DEF ToSet

\* One element more.
LEMMA AppendElements ==
    ASSUME NEW A, NEW s \in Seq(A), NEW x \in A
    PROVE  /\ ToSet(Append(s, x)) = ToSet(s) \cup {x}
           /\ Distinct(Append(s, x)) <=> Distinct(s) /\ x \notin ToSet(s)
<1> DEFINE t == Append(s, x)
<1>1. /\ t \in Seq(A) /\ Len(t) = Len(s) + 1 /\ Len(s) \in Nat
      /\ \A k \in 1..Len(s) : t[k] = s[k]
      /\ t[Len(s) + 1] = x
    OBVIOUS
<1> HIDE DEF t
<1>2. \A y : y \in ToSet(t) <=> \E k \in 1..Len(t) : t[k] = y
    BY <1>1, Elements
<1>3. \A y : y \in ToSet(s) <=> \E k \in 1..Len(s) : s[k] = y
    BY Elements
<1>4. \A k : k \in 1..Len(t) <=> k \in 1..Len(s) \/ k = Len(s) + 1
    BY <1>1
<1>5. \A y : y \in ToSet(t) <=> y \in ToSet(s) \/ y = x
    BY <1>1, <1>2, <1>3, <1>4
<1>6. Distinct(t) <=> Distinct(s) /\ x \notin ToSet(s)
    <2>1. ASSUME Distinct(t) PROVE Distinct(s) /\ x \notin ToSet(s)
        BY <1>1, <1>3, <1>4, <2>1 DEF Distinct
    <2>2. ASSUME Distinct(s), x \notin ToSet(s) PROVE Distinct(t)
        BY <1>1, <1>3, <1>4, <2>2 DEF Distinct
    <2> QED
        BY <2>1, <2>2
<1> QED
    BY <1>5, <1>6 DEF t

\* Two sequences, one behind the other.
LEMMA ConcatElements ==
    ASSUME NEW A, NEW s \in Seq(A), NEW t \in Seq(A)
    PROVE  /\ s \o t \in Seq(A) /\ ToSet(s \o t) = ToSet(s) \cup ToSet(t)
           /\ Distinct(s \o t) <=> Distinct(s) /\ Distinct(t) /\ ToSet(s) \cap ToSet(t) = {}
<1> DEFINE u == s \o t
           m == Len(s)
           n == Len(t)
<1>1. /\ u \in Seq(A) /\ Len(u) = m + n /\ m \in Nat /\ n \in Nat
      /\ \A k \in 1..m : u[k] = s[k]
      /\ \A k \in 1..n : u[m + k] = t[k]
    OBVIOUS
<1>2. \A y : y \in ToSet(s) <=> \E k \in 1..m : s[k] = y
    BY Elements
<1>3. \A y : y \in ToSet(t) <=> \E k \in 1..n : t[k] = y
    BY Elements
<1>4. \A y : y \in ToSet(u) <=> \E k \in 1..Len(u) : u[k] = y
    BY <1>1, Elements
<1>5. (Distinct(s) <=> \A k, l \in 1..m : s[k] = s[l] => k = l) /\ (Distinct(t) <=> \A k, l \in 1..n : t[k] = t[l] => k = l)
    BY DEF Distinct
<1> HIDE DEF u, m, n
<1>6. \A k \in 1..Len(u) : k \in 1..m \/ \E l \in 1..n : k = m + l
    <2>1. ASSUME NEW k \in 1..Len(u), k \notin 1..m PROVE k - m \in 1..n /\ k = m + (k - m)
        BY <1>1, <2>1
    <2> QED
        BY <2>1
<1>7. (\A k \in 1..m : k \in 1..Len(u)) /\ (\A l \in 1..n : m + l \in 1..Len(u) /\ m + l \notin 1..m)
    BY <1>1
<1>8. \A y : y \in ToSet(u) <=> y \in ToSet(s) \/ y \in ToSet(t)
    <2>1. ASSUME NEW y, y \in ToSet(u) PROVE y \in ToSet(s) \/ y \in ToSet(t)
        <3>1. PICK k \in 1..Len(u) : u[k] = y
            BY <1>4, <2>1
        <3>2. CASE k \in 1..m
            BY <1>1, <1>2, <3>1, <3>2
        <3>3. CASE \E l \in 1..n : k = m + l
            BY <1>1, <1>3, <3>1, <3>3
        <3> QED
            BY <1>6, <3>2, <3>3
    <2>2. ASSUME NEW y, y \in ToSet(s) PROVE y \in ToSet(u)
        BY <1>1, <1>2, <1>4, <1>7, <2>2
    <2>3. ASSUME NEW y, y \in ToSet(t) PROVE y \in ToSet(u)
        <3>1. PICK l \in 1..n : t[l] = y
            BY <1>3, <2>3
        <3>2. m + l \in 1..Len(u) /\ u[m + l] = y
            BY <1>1, <1>7, <3>1
        <3> QED
            BY <1>4, <3>2
    <2> QED
        BY <2>1, <2>2, <2>3
<1>9. ASSUME Distinct(u) PROVE Distinct(s) /\ Distinct(t) /\ ToSet(s) \cap ToSet(t) = {}
    <2>1. \A k, l \in 1..m : s[k] = s[l] => k = l
        BY <1>1, <1>7, <1>9 DEF Distinct
    <2>2. ASSUME NEW k \in 1..n, NEW l \in 1..n, t[k] = t[l] PROVE k = l
        <3>1. m + k = m + l
            BY <1>1, <1>7, <1>9, <2>2 DEF Distinct
        <3> QED
            BY <1>1, <3>1
    <2>3. ASSUME NEW k \in 1..m, NEW l \in 1..n PROVE s[k] # t[l]
        BY <1>1, <1>7, <1>9 DEF Distinct
    <2> QED
        BY <1>2, <1>3, <1>5, <2>1, <2>2, <2>3
<1>10. ASSUME Distinct(s), Distinct(t), ToSet(s) \cap ToSet(t) = {} PROVE Distinct(u)
    <2>1. \A k \in 1..m : \A l \in 1..n : s[k] # t[l]
        BY <1>2, <1>3, <1>10
    <2>2. ASSUME NEW k \in 1..Len(u), NEW l \in 1..Len(u), u[k] = u[l] PROVE k = l
        <3>1. CASE k \in 1..m /\ l \in 1..m
            BY <1>1, <1>5, <1>10, <2>2, <3>1
        <3>2. ASSUME NEW x \in 1..n, k = m + x, NEW y \in 1..n, l = m + y PROVE k = l
            <4>1. t[x] = t[y]
                BY <1>1, <2>2, <3>2
            <4>2. x = y
                BY <1>5, <1>10, <4>1
            <4> QED
                BY <3>2, <4>2
        <3>3. ASSUME NEW x \in 1..m, NEW y \in 1..n PROVE u[x] # u[m + y]
            BY <1>1, <2>1
        <3> QED
            BY <1>6, <2>2, <3>1, <3>2, <3>3
    <2> QED
        BY <2>2 DEF Distinct
<1> QED
    BY <1>1, <1>8, <1>9, <1>10 DEF u

\* Kept keeps all that it is to keep, and repeats nothing.
LEMMA KeptElements ==
    ASSUME NEW A, NEW s \in Seq(A), NEW keep
    PROVE  /\ ToSet(Kept(s, keep)) = ToSet(s) \cap keep
           /\ Distinct(s) => Distinct(Kept(s, keep))
<1> DEFINE Right(t) == /\ ToSet(Kept(t, keep)) = ToSet(t) \cap keep
                       /\ Distinct(t) => Distinct(Kept(t, keep))
           S == {m \in Nat : m <= Len(s) => Right(SubSeq(s, 1, m))}
<1>1. 0 \in S
    <2>1. SubSeq(s, 1, 0) = <<>> /\ Kept(<<>>, keep) = <<>>
        BY PrefixEnds, KeptEmpty
    <2>2. ToSet(<<>>) = {}
        BY DEF ToSet
    <2> QED
        BY <2>1, <2>2
<1>2. ASSUME NEW m \in Nat, m \in S PROVE m + 1 \in S
    <2> SUFFICES ASSUME m + 1 <= Len(s) PROVE Right(SubSeq(s, 1, m + 1))
        OBVIOUS
    <2> DEFINE t == SubSeq(s, 1, m)
               x == s[m + 1]
    <2>1. t \in Seq(A) /\ x \in A /\ SubSeq(s, 1, m + 1) = Append(t, x)
        BY PrefixGrows
    <2>2. Right(t)
        BY <1>2
    <2> HIDE DEF t, x
    <2>3. Kept(Append(t, x), keep) = IF x \in keep THEN Append(Kept(t, keep), x) ELSE Kept(t, keep)
        BY <2>1, KeptAppend
    <2>4. /\ ToSet(Append(t, x)) = ToSet(t) \cup {x}
          /\ Distinct(Append(t, x)) <=> Distinct(t) /\ x \notin ToSet(t)
        BY <2>1, AppendElements
    <2>5. CASE x \notin keep
        <3>1. ToSet(t) \cap keep = ToSet(Append(t, x)) \cap keep
            BY <2>4, <2>5
        <3> QED
            BY <2>1, <2>2, <2>3, <2>4, <2>5, <3>1
    <2>6. CASE x \in keep
        <3>1. Kept(t, keep) \in Seq(keep \cap A) /\ x \in keep \cap A
            BY <2>1, <2>6, KeptType
        <3>2. /\ ToSet(Append(Kept(t, keep), x)) = ToSet(Kept(t, keep)) \cup {x}
              /\ Distinct(Append(Kept(t, keep), x)) <=> Distinct(Kept(t, keep)) /\ x \notin ToSet(Kept(t, keep))
            BY <3>1, AppendElements
        <3>3. ToSet(Append(Kept(t, keep), x)) = ToSet(Append(t, x)) \cap keep
            BY <2>2, <2>4, <2>6, <3>2
        <3>4. Distinct(Append(t, x)) => Distinct(Append(Kept(t, keep), x))
            BY <2>2, <2>4, <3>2
        <3> QED
            BY <2>1, <2>3, <2>6, <3>3, <3>4
    <2> QED
        BY <2>5, <2>6
<1> HIDE DEF S
<1>3. Nat \subseteq S
    BY <1>1, <1>2, NaturalInduction
<1>4. Len(s) \in Nat /\ SubSeq(s, 1, Len(s)) = s
    BY PrefixEnds
<1>5. Right(SubSeq(s, 1, Len(s)))
    BY <1>3, <1>4 DEF S
<1> QED
    BY <1>4, <1>5, Zenon

\* The notes of a history are interventions.
LEMMA NotesTyped == ASSUME NEW h \in Seq(Message) PROVE NotesOf(h) \in Seq(Notes) /\ NotesOf(<<>>) = <<>>
<1>1. \A m \in Message : NotesOf(h) \in Seq(Notes) /\ NotesOf(<<>>) = <<>>
    BY NotesAppend
<1> QED
    BY <1>1, MessagesAreMessages

\* Notes without those taken: what is left of a session's interventions is distinct too.
LEMMA WithoutTaken ==
    ASSUME NEW s \in Seq(Notes), NEW t \in Seq(Notes), NEW u \in Seq(Notes), Distinct(s \o t \o u)
    PROVE  /\ Distinct(s \o <<>> \o u) /\ ToSet(s \o <<>> \o u) \subseteq ToSet(s \o t \o u)
           /\ Distinct(s \o Kept(u, Persistable))
           /\ ToSet(s \o Kept(u, Persistable)) \subseteq ToSet(s \o t \o u)
<1> DEFINE v == s \o t
           w == Kept(u, Persistable)
<1>1. v \in Seq(Notes) /\ ToSet(v) = ToSet(s) \cup ToSet(t) /\ (Distinct(v) => Distinct(s))
    BY ConcatElements
<1>2. v \o u = s \o t \o u
    OBVIOUS
<1> HIDE DEF v
<1>3. /\ ToSet(v \o u) = ToSet(v) \cup ToSet(u)
      /\ Distinct(v) /\ Distinct(u) /\ ToSet(v) \cap ToSet(u) = {}
    BY <1>1, <1>2, ConcatElements
<1>4. w \in Seq(Notes) /\ ToSet(w) = ToSet(u) \cap Persistable /\ Distinct(w)
    <2>1. w \in Seq(Persistable \cap Notes)
        BY KeptType
    <2>2. w \in Seq(Notes)
        BY <2>1
    <2> QED
        BY <1>3, <2>2, KeptElements
<1> HIDE DEF w
<1>5. s \o <<>> = s
    OBVIOUS
<1>6. /\ ToSet(s \o u) = ToSet(s) \cup ToSet(u) /\ ToSet(s \o w) = ToSet(s) \cup ToSet(w)
      /\ Distinct(s \o u) <=> Distinct(s) /\ Distinct(u) /\ ToSet(s) \cap ToSet(u) = {}
      /\ Distinct(s \o w) <=> Distinct(s) /\ Distinct(w) /\ ToSet(s) \cap ToSet(w) = {}
    BY <1>4, ConcatElements
<1>7. Distinct(s \o u) /\ Distinct(s \o w)
    BY <1>1, <1>3, <1>4, <1>6
<1>8. ToSet(s \o u) \subseteq ToSet(v \o u) /\ ToSet(s \o w) \subseteq ToSet(v \o u)
    BY <1>1, <1>3, <1>4, <1>6
<1> QED
    BY <1>2, <1>5, <1>7, <1>8 DEF w

\* Every step leaves each known intervention known once, in the session and on disk.
LEMMA OnceStep ==
    ASSUME "apply_raises" \notin Quirks, SessionInv, OnceInv, [SavedNext]_allVars
    PROVE  OnceInv'
<1>0. /\ LoopTypeInv /\ StoreTypeInv /\ TakenInv /\ QueueInv
      /\ events \in Seq(Event) /\ disk \in Snapshots \cup {None}
      /\ history \in Seq(Message) /\ inbox \in Seq(Notes) /\ taken \in Seq(Notes)
      /\ submitted \in Seq(Notes) /\ NotesOf(history) \in Seq(Notes)
    <2>1. /\ LoopTypeInv /\ StoreTypeInv /\ TakenInv /\ QueueInv /\ TypeSession
        BY DEF SessionInv, LoopTypeInv
    <2> QED
        BY <2>1, NotesTyped DEF StoreTypeInv, TypeSession
<1> DEFINE OnDisk == disk # None => /\ Distinct(NotesOf(disk.history) \o disk.inbox)
                                    /\ StoredNotes(disk) \subseteq ToSet(submitted)
<1>1. /\ Distinct(submitted) /\ Distinct(KnownNotes) /\ ToSet(KnownNotes) \subseteq ToSet(submitted)
      /\ OnDisk
    BY DEF OnceInv
<1>2. CASE events = <<>> /\ SavedLoop
    <2>1. Next /\ disk' = disk
        BY <1>2, SavedLoopIsNext DEF store
    <2>2. KnownNotes \in Seq(Notes) /\ KnownChange
        BY <1>0, <2>1, NotesStep
    <2>3. ASSUME ToSet(submitted) \subseteq ToSet(submitted') PROVE OnDisk'
        BY <1>1, <2>1, <2>3 DEF StoredNotes, NotesOf
    <2>4. CASE KnownNotes' = KnownNotes /\ submitted' = submitted
        BY <1>1, <2>3, <2>4 DEF OnceInv
    <2>5. ASSUME NEW n \in Notes, \A k \in 1..Len(submitted) : submitted[k] # n,
                 KnownNotes' = Append(KnownNotes, n), submitted' = Append(submitted, n)
          PROVE  OnceInv'
        <3>1. n \notin ToSet(submitted)
            BY <1>0, <2>5, Elements
        <3>2. /\ ToSet(Append(submitted, n)) = ToSet(submitted) \cup {n}
              /\ Distinct(Append(submitted, n)) <=> Distinct(submitted) /\ n \notin ToSet(submitted)
            BY <1>0, AppendElements
        <3>3. /\ ToSet(Append(KnownNotes, n)) = ToSet(KnownNotes) \cup {n}
              /\ Distinct(Append(KnownNotes, n)) <=> Distinct(KnownNotes) /\ n \notin ToSet(KnownNotes)
            BY <2>2, AppendElements
        <3>4. ToSet(submitted) \subseteq ToSet(submitted')
            BY <2>5, <3>2
        <3>5. OnDisk'
            BY <2>3, <3>4
        <3>6. Distinct(submitted') /\ Distinct(KnownNotes') /\ ToSet(KnownNotes') \subseteq ToSet(submitted')
            BY <1>1, <2>5, <3>1, <3>2, <3>3
        <3> QED
            BY <3>5, <3>6 DEF OnceInv
    <2>6. CASE Cancelled /\ taken' = <<>> /\ UNCHANGED session
        <3>1. submitted' = submitted /\ history' = history /\ inbox' = inbox
            BY <2>6 DEF Cancelled, session
        <3>2. KnownNotes' = NotesOf(history) \o <<>> \o inbox
            BY <2>6, <3>1 DEF KnownNotes, NotesOf
        <3>3. Distinct(NotesOf(history) \o taken \o inbox)
            BY <1>1 DEF KnownNotes
        <3>4. /\ Distinct(NotesOf(history) \o <<>> \o inbox)
              /\ ToSet(NotesOf(history) \o <<>> \o inbox) \subseteq ToSet(NotesOf(history) \o taken \o inbox)
            BY <1>0, <3>3, WithoutTaken
        <3>5. Distinct(KnownNotes') /\ ToSet(KnownNotes') \subseteq ToSet(KnownNotes)
            BY <3>2, <3>4 DEF KnownNotes
        <3> QED
            BY <1>1, <2>3, <3>1, <3>5 DEF OnceInv
    <2>7. ~ApplyRaises
        BY DEF ApplyRaises
    <2> QED
        BY <2>2, <2>4, <2>5, <2>6, <2>7 DEF KnownChange
<1>3. CASE Hear
    <2> DEFINE e == events[1]
    <2>1. /\ events # <<>> /\ e \in Event /\ UNCHANGED vars
          /\ Stores(e) \/ Fails(e) \/ Skips(e)
        BY <1>0, <1>3, HearIs
    <2>2. submitted' = submitted /\ KnownNotes' = KnownNotes
        BY <2>1, StandsStill
    <2>3. 1 \in 1..Len(events)
        BY <1>0, <2>1
    <2>4. e.data.inbox = Kept(inbox, Persistable) /\ NotesOf(e.data.history) = NotesOf(history)
        BY <1>0, <2>3 DEF QueueInv
    <2> HIDE DEF e
    <2>5. CASE Stores(e)
        <3>1. disk' = e.data
            BY <2>5 DEF Stores
        <3>2. Distinct(NotesOf(history) \o taken \o inbox)
            BY <1>1 DEF KnownNotes
        <3>3. /\ Distinct(NotesOf(history) \o Kept(inbox, Persistable))
              /\ ToSet(NotesOf(history) \o Kept(inbox, Persistable))
                    \subseteq ToSet(NotesOf(history) \o taken \o inbox)
            BY <1>0, <3>2, WithoutTaken
        <3>4. /\ Distinct(NotesOf(disk'.history) \o disk'.inbox)
              /\ ToSet(NotesOf(disk'.history) \o disk'.inbox) \subseteq ToSet(KnownNotes)
            BY <2>4, <3>1, <3>3 DEF KnownNotes
        <3>5. OnDisk'
            BY <1>1, <2>2, <3>4 DEF StoredNotes, NotesOf
        <3> QED
            BY <1>1, <2>2, <3>5 DEF OnceInv
    <2>6. CASE Fails(e) \/ Skips(e)
        <3>1. disk' = disk
            BY <2>6 DEF Fails, Skips
        <3>2. OnDisk'
            BY <1>1, <2>2, <3>1 DEF StoredNotes, NotesOf
        <3> QED
            BY <1>1, <2>2, <3>2 DEF OnceInv
    <2> QED
        BY <2>1, <2>5, <2>6
<1>4. CASE Crash
    <2>1. submitted' = submitted /\ disk' = disk /\ taken' = <<>>
        BY <1>4 DEF Crash
    <2>2. OnDisk'
        BY <1>1, <2>1 DEF StoredNotes, NotesOf
    <2>3. CASE disk = None
        <3>1. history' = <<>> /\ inbox' = <<>>
            BY <1>4, <2>3 DEF Crash
        <3>2. NotesOf(<<>>) = <<>> /\ <<>> \o <<>> \o <<>> = <<>>
            BY <1>0, NotesTyped
        <3>3. KnownNotes' = <<>>
            BY <2>1, <3>1, <3>2 DEF KnownNotes, NotesOf
        <3>4. Distinct(<<>>) /\ ToSet(<<>>) = {}
            BY DEF Distinct, ToSet
        <3> QED
            BY <1>1, <2>1, <2>2, <3>3, <3>4 DEF OnceInv
    <2>4. CASE disk # None
        <3>1. history' = disk.history /\ inbox' = disk.inbox
            BY <1>4, <2>4 DEF Crash
        <3>2. disk.history \in Seq(Message) /\ disk.inbox \in Seq(Notes)
            BY <1>0, <2>4, SnapshotParts
        <3>3. NotesOf(disk.history) \in Seq(Notes)
            BY <3>2, NotesTyped
        <3>4. NotesOf(disk.history) \o <<>> = NotesOf(disk.history)
            BY <3>3
        <3>5. KnownNotes' = NotesOf(disk.history) \o disk.inbox
            BY <2>1, <3>1, <3>4 DEF KnownNotes, NotesOf
        <3> QED
            BY <1>1, <2>1, <2>2, <2>4, <3>5 DEF OnceInv, StoredNotes
    <2> QED
        BY <2>3, <2>4
<1>5. CASE UNCHANGED allVars
    <2>1. UNCHANGED vars /\ disk' = disk
        BY <1>5 DEF allVars, store
    <2>2. submitted' = submitted /\ KnownNotes' = KnownNotes
        BY <2>1, StandsStill
    <2>3. OnDisk'
        BY <1>1, <2>1, <2>2 DEF StoredNotes, NotesOf
    <2> QED
        BY <1>1, <2>2, <2>3 DEF OnceInv
<1> QED
    BY <1>2, <1>3, <1>4, <1>5 DEF SavedNext

\* No intervention is applied twice: neither cancellations nor failed saves nor a process
\* that dies after applying some and resumes from before makes one known a second time.
THEOREM NothingAppliedTwice ==
    ASSUME "apply_raises" \notin Quirks PROVE SavedSpec => []AppliedOnce
<1>1. SavedInit => OnceInv
    <2> SUFFICES ASSUME SavedInit PROVE OnceInv
        OBVIOUS
    <2>1. history = <<>> /\ taken = <<>> /\ inbox = <<>> /\ submitted = <<>> /\ disk = None
        BY InitSession DEF SavedInit
    <2>2. <<>> \in Seq(Message) /\ <<>> \o <<>> \o <<>> = <<>>
        OBVIOUS
    <2>3. KnownNotes = <<>>
        BY <2>1, <2>2, NotesTyped DEF KnownNotes
    <2>4. Distinct(<<>>) /\ ToSet(<<>>) = {}
        BY DEF Distinct, ToSet
    <2> QED
        BY <2>1, <2>3, <2>4 DEF OnceInv
<1>2. SessionInv /\ OnceInv /\ [SavedNext]_allVars => OnceInv'
    BY OnceStep
<1>3. OnceInv => AppliedOnce
    BY DEF OnceInv, Distinct, AppliedOnce
<1> QED
    BY <1>1, <1>2, <1>3, SessionInvariance, PTL DEF SavedSpec

-----------------------------------------------------------------------------
(* What was stored stays stored. *)

\* Prefixes of histories.
LEMMA PrefixFacts ==
    ASSUME NEW f \in Seq(Message), NEW g \in Seq(Message)
    PROVE  /\ IsPrefix(f, f)
           /\ IsPrefix(f, f \o g)
           /\ IsPrefix(f, g) => Len(f) \in 0..Len(g) /\ f = SubSeq(g, 1, Len(f))
           /\ \A h \in Seq(Message) : IsPrefix(f, g) /\ IsPrefix(g, h) => IsPrefix(f, h)
<1>1. IsPrefix(f, f)
    BY DEF IsPrefix
<1>2. IsPrefix(f, f \o g)
    BY DEF IsPrefix
<1>3. IsPrefix(f, g) => Len(f) \in 0..Len(g) /\ f = SubSeq(g, 1, Len(f))
    BY DEF IsPrefix
<1>4. ASSUME NEW s \in Seq(Message), NEW t \in Seq(Message)
      PROVE  IsPrefix(s, t) <=> Len(s) <= Len(t) /\ \A k \in 1..Len(s) : s[k] = t[k]
    <2>1. ASSUME IsPrefix(s, t) PROVE Len(s) <= Len(t) /\ \A k \in 1..Len(s) : s[k] = t[k]
        <3>1. /\ Len(s) <= Len(t) /\ SubSeq(s, 1, Len(s)) = SubSeq(t, 1, Len(s))
            BY <2>1 DEF IsPrefix
        <3>2. \A k \in 1..Len(s) : SubSeq(s, 1, Len(s))[k] = s[k] /\ SubSeq(t, 1, Len(s))[k] = t[k]
            BY <3>1
        <3> QED
            BY <3>1, <3>2
    <2>2. ASSUME Len(s) <= Len(t), \A k \in 1..Len(s) : s[k] = t[k] PROVE IsPrefix(s, t)
        BY <2>2 DEF IsPrefix
    <2> QED
        BY <2>1, <2>2
<1>5. ASSUME NEW h \in Seq(Message), IsPrefix(f, g), IsPrefix(g, h) PROVE IsPrefix(f, h)
    <2>1. /\ Len(f) <= Len(g) /\ \A k \in 1..Len(f) : f[k] = g[k]
          /\ Len(g) <= Len(h) /\ \A k \in 1..Len(g) : g[k] = h[k]
        BY <1>4, <1>5
    <2>2. Len(f) <= Len(h) /\ \A k \in 1..Len(f) : f[k] = h[k]
        BY <2>1
    <2> QED
        BY <1>4, <2>2
<1> QED
    BY <1>1, <1>2, <1>3, <1>5

\* A longer history has the notes of its prefixes.
LEMMA NotesGrow ==
    ASSUME NEW h \in Seq(Message), NEW m \in 0..Len(h)
    PROVE  ToSet(NotesOf(SubSeq(h, 1, m))) \subseteq ToSet(NotesOf(h))
<1> DEFINE S == {n \in Nat : m + n <= Len(h) =>
                    ToSet(NotesOf(SubSeq(h, 1, m))) \subseteq ToSet(NotesOf(SubSeq(h, 1, m + n)))}
<1>1. 0 \in S
    OBVIOUS
<1>2. ASSUME NEW n \in Nat, n \in S PROVE n + 1 \in S
    <2> SUFFICES ASSUME m + (n + 1) <= Len(h)
                 PROVE  ToSet(NotesOf(SubSeq(h, 1, m))) \subseteq ToSet(NotesOf(SubSeq(h, 1, m + (n + 1))))
        OBVIOUS
    <2> DEFINE g == SubSeq(h, 1, m + n)
               x == h[(m + n) + 1]
    <2>1. m + n \in Nat /\ m + n < Len(h) /\ m + (n + 1) = (m + n) + 1
        OBVIOUS
    <2>2. g \in Seq(Message) /\ x \in Message /\ SubSeq(h, 1, (m + n) + 1) = Append(g, x)
        BY <2>1, PrefixGrows
    <2>3. ToSet(NotesOf(SubSeq(h, 1, m))) \subseteq ToSet(NotesOf(g))
        BY <1>2, <2>1
    <2> HIDE DEF g, x
    <2>4. /\ NotesOf(g) \in Seq(Notes)
          /\ NotesOf(Append(g, x)) = IF x \in {Note(y) : y \in Notes} THEN Append(NotesOf(g), x.of) ELSE NotesOf(g)
        BY <2>2, NotesAppend
    <2>5. ToSet(NotesOf(g)) \subseteq ToSet(NotesOf(Append(g, x)))
        <3>1. CASE x \in {Note(y) : y \in Notes}
            <4>1. x.of \in Notes
                BY <3>1 DEF Note
            <4>2. ToSet(Append(NotesOf(g), x.of)) = ToSet(NotesOf(g)) \cup {x.of}
                BY <2>4, <4>1, AppendElements
            <4> QED
                BY <2>4, <3>1, <4>2
        <3>2. CASE x \notin {Note(y) : y \in Notes}
            BY <2>4, <3>2
        <3> QED
            BY <3>1, <3>2
    <2> QED
        BY <2>1, <2>2, <2>3, <2>5
<1> HIDE DEF S
<1>3. Nat \subseteq S
    BY <1>1, <1>2, NaturalInduction
<1>4. Len(h) - m \in Nat /\ m + (Len(h) - m) = Len(h) /\ SubSeq(h, 1, Len(h)) = h
    BY PrefixEnds
<1>5. Len(h) - m \in S
    BY <1>3, <1>4
<1>6. ToSet(NotesOf(SubSeq(h, 1, m))) \subseteq ToSet(NotesOf(SubSeq(h, 1, m + (Len(h) - m))))
    <2>1. m + (Len(h) - m) <= Len(h)
        BY <1>4
    <2> QED
        BY <1>5, <2>1 DEF S
<1> QED
    BY <1>4, <1>6

\* The loop only adds to the history.
LEMMA HistoryGrows == ASSUME LoopTypeInv, Next PROVE IsPrefix(history, history')
<1>0. history \in Seq(Message) /\ batch \in Seq(Calls) /\ taken \in Seq(Notes)
    <2>1. Batches \subseteq Seq(Calls) /\ <<>> \in Seq(Calls)
        BY LoopAssumption
    <2> QED
        BY <2>1 DEF LoopTypeInv, TypeSession, TypeTools
<1>1. ASSUME NEW m \in Message, history' = Append(history, m) PROVE IsPrefix(history, history')
    <2>1. <<m>> \in Seq(Message) /\ Append(history, m) = history \o <<m>>
        BY <1>0, AppendIsConcat
    <2> QED
        BY <1>0, <1>1, <2>1, PrefixFacts, ZenonT(60)
<1>2. CASE BeginLoop
    BY <1>1, <1>2, MessagesAreMessages DEF BeginLoop
<1>3. CASE Apply
    <2>1. Head(taken) \in Notes /\ history' = Append(history, Note(Head(taken)))
        BY <1>0, <1>3 DEF Apply
    <2> QED
        BY <1>1, <2>1, MessagesAreMessages
<1>4. CASE \E b \in Batches : ModelReturns(b)
    BY <1>1, <1>4, MessagesAreMessages DEF ModelReturns
<1>5. CASE ToolsDone
    <2> DEFINE r == [k \in 1..Len(batch) |-> ToolMessage(batch[k])]
    <2>1. history' = history \o r
        BY <1>5 DEF ToolsDone
    <2>2. r \in Seq(Message)
        BY <1>0, MessagesAreMessages
    <2> HIDE DEF r
    <2> QED
        BY <1>0, <2>1, <2>2, PrefixFacts
<1>6. CASE \/ Top \/ Guard \/ Auxiliary \/ Prepared \/ ModelFails \/ Run \/ Cancelled \/ ApplyRaises
           \/ Interrupt \/ Tick \/ (\E n \in Notes : Submit(n))
           \/ \E c \in Calls : Tool(c) \/ LateFinishes(c) \/ GateRaises(c)
    <2>1. history' = history
        BY <1>6 DEF Top, Guard, Auxiliary, Prepared, ModelFails, Run, Cancelled, ApplyRaises, Raise,
                    GateRaises, Interrupt, Tick, Submit, Tool, Gate, Approved, ToolReturns, SetCall,
                    LateFinishes, session
    <2> QED
        BY <1>0, <2>1, PrefixFacts
<1> QED
    BY <1>2, <1>3, <1>4, <1>5, <1>6 DEF Next, Loop

\* Nothing raises while interventions are applied.
ApplyingFinishes == Quirks \cap {"cancel", "apply_raises"} = {}

\* What SavedStays says of a step.
StoredStays ==
    disk # None =>
        /\ disk' # None /\ IsPrefix(disk.history, disk'.history)
        /\ StoredNotes(disk) \subseteq StoredNotes(disk')

\* Every step keeps the session ahead of the disk, so that a save only adds to what is stored.
LEMMA AheadStep ==
    ASSUME ApplyingFinishes, ~EveryMessage, SessionInv, AheadInv, [SavedNext]_allVars
    PROVE  AheadInv' /\ StoredStays
<1>0. /\ LoopTypeInv /\ StoreTypeInv /\ TakenInv /\ QueueInv
      /\ events \in Seq(Event) /\ disk \in Snapshots \cup {None}
      /\ history \in Seq(Message) /\ inbox \in Seq(Notes) /\ taken \in Seq(Notes)
      /\ NotesOf(history) \in Seq(Notes)
    <2>1. /\ LoopTypeInv /\ StoreTypeInv /\ TakenInv /\ QueueInv /\ TypeSession
        BY DEF SessionInv, LoopTypeInv
    <2> QED
        BY <2>1, NotesTyped DEF StoreTypeInv, TypeSession
<1>1. disk # None => /\ disk.history \in Seq(Message) /\ disk.inbox \in Seq(Notes)
                     /\ NotesOf(disk.history) \in Seq(Notes)
    BY <1>0, SnapshotParts, NotesTyped
<1>2. ASSUME disk' = disk PROVE StoredStays
    <2>1. disk # None => IsPrefix(disk.history, disk'.history)
        BY <1>1, <1>2, PrefixFacts
    <2>2. disk # None => StoredNotes(disk) = StoredNotes(disk')
        BY <1>2
    <2> QED
        BY <1>2, <2>1, <2>2 DEF StoredStays
<1>3. CASE events = <<>> /\ SavedLoop
    <2>1. Next /\ disk' = disk
        BY <1>3, SavedLoopIsNext DEF store
    <2>2. KnownNotes \in Seq(Notes) /\ KnownChange
        BY <1>0, <2>1, NotesStep
    <2>3. ToSet(KnownNotes) \subseteq ToSet(KnownNotes')
        <3>1. ~Cancelled /\ ~ApplyRaises
            BY DEF Cancelled, ApplyRaises, ApplyingFinishes
        <3>2. KnownNotes' = KnownNotes \/ \E n \in Notes : KnownNotes' = Append(KnownNotes, n)
            BY <2>2, <3>1 DEF KnownChange
        <3>3. \A n \in Notes : ToSet(Append(KnownNotes, n)) = ToSet(KnownNotes) \cup {n}
            BY <2>2, AppendElements
        <3> QED
            BY <3>2, <3>3
    <2>4. history' \in Seq(Message) /\ IsPrefix(history, history')
        <3>1. LoopTypeInv'
            BY <1>0, <2>1, LoopTypeStep
        <3> QED
            BY <1>0, <2>1, <3>1, HistoryGrows DEF LoopTypeInv, TypeSession
    <2>5. disk # None => IsPrefix(disk.history, history')
        BY <1>0, <1>1, <2>4, PrefixFacts DEF AheadInv
    <2>6. AheadInv'
        BY <2>1, <2>3, <2>5 DEF AheadInv
    <2> QED
        BY <1>2, <2>1, <2>6
<1>4. CASE Hear
    <2> DEFINE e == events[1]
    <2>1. /\ events # <<>> /\ e \in Event /\ UNCHANGED vars
          /\ Stores(e) \/ Fails(e) \/ Skips(e)
        BY <1>0, <1>4, HearIs
    <2>2. history' = history /\ KnownNotes' = KnownNotes
        BY <2>1, StandsStill
    <2>3. 1 \in 1..Len(events)
        BY <1>0, <2>1
    <2>4. /\ e.data.inbox = Kept(inbox, Persistable)
          /\ e.kind # "added" => e.data.history = history /\ taken = <<>>
        BY <1>0, <2>3 DEF QueueInv
    <2>5. e.data # None
        BY <2>1, SnapshotParts DEF Event
    <2> HIDE DEF e
    <2>6. CASE Stores(e)
        <3> DEFINE kept == Kept(inbox, Persistable)
        <3>1. disk' = e.data /\ disk'.history = history /\ disk'.inbox = kept /\ taken = <<>>
            BY <2>4, <2>6 DEF Stores
        <3>2. kept \in Seq(Notes) /\ ToSet(kept) = ToSet(inbox) \cap Persistable
            <4>1. kept \in Seq(Persistable \cap Notes)
                BY <1>0, KeptType
            <4>2. kept \in Seq(Notes)
                BY <4>1
            <4> QED
                BY <1>0, <4>2, KeptElements
        <3> HIDE DEF kept
        <3>3. ToSet(KnownNotes) = ToSet(NotesOf(history)) \cup ToSet(inbox)
            <4>1. NotesOf(history) \o <<>> = NotesOf(history)
                BY <1>0
            <4>2. KnownNotes = NotesOf(history) \o inbox
                BY <3>1, <4>1 DEF KnownNotes
            <4> QED
                BY <1>0, <4>2, ConcatElements
        <3>4. AheadInv'
            <4>1. IsPrefix(disk'.history, history')
                BY <1>0, <2>2, <3>1, PrefixFacts
            <4>2. ToSet(disk'.inbox) \subseteq Persistable \cap ToSet(KnownNotes')
                BY <2>2, <3>1, <3>2, <3>3
            <4> QED
                BY <4>1, <4>2 DEF AheadInv
        <3>5. StoredStays
            <4> SUFFICES ASSUME disk # None
                         PROVE  /\ disk' # None /\ IsPrefix(disk.history, disk'.history)
                                /\ StoredNotes(disk) \subseteq StoredNotes(disk')
                BY DEF StoredStays
            <4>1. disk' # None /\ IsPrefix(disk.history, disk'.history)
                BY <2>5, <3>1 DEF AheadInv
            <4>2. StoredNotes(disk) = ToSet(NotesOf(disk.history)) \cup ToSet(disk.inbox)
                BY <1>1, ConcatElements DEF StoredNotes
            <4>3. StoredNotes(disk') = ToSet(NotesOf(history)) \cup ToSet(kept)
                <5>1. StoredNotes(disk') = ToSet(NotesOf(history) \o kept)
                    BY <3>1 DEF StoredNotes
                <5> QED
                    BY <1>0, <3>2, <5>1, ConcatElements
            <4>4. ToSet(NotesOf(disk.history)) \subseteq ToSet(NotesOf(history))
                <5>1. Len(disk.history) \in 0..Len(history) /\ disk.history = SubSeq(history, 1, Len(disk.history))
                    BY <1>0, <1>1, PrefixFacts DEF AheadInv
                <5>2. ToSet(NotesOf(SubSeq(history, 1, Len(disk.history)))) \subseteq ToSet(NotesOf(history))
                    BY <1>0, <5>1, NotesGrow
                <5> QED
                    BY <5>1, <5>2
            <4>5. ToSet(disk.inbox) \subseteq ToSet(NotesOf(history)) \cup ToSet(kept)
                BY <3>2, <3>3 DEF AheadInv
            <4> QED
                BY <4>1, <4>2, <4>3, <4>4, <4>5
        <3> QED
            BY <3>4, <3>5
    <2>7. CASE Fails(e) \/ Skips(e)
        <3>1. disk' = disk
            BY <2>7 DEF Fails, Skips
        <3>2. AheadInv'
            BY <2>2, <3>1 DEF AheadInv
        <3> QED
            BY <1>2, <3>1, <3>2
    <2> QED
        BY <2>1, <2>6, <2>7
<1>5. CASE Crash
    <2>1. disk' = disk /\ taken' = <<>>
        BY <1>5 DEF Crash
    <2>2. ASSUME disk # None
          PROVE  /\ IsPrefix(disk.history, history')
                 /\ ToSet(disk.inbox) \subseteq Persistable \cap ToSet(KnownNotes')
        <3>1. history' = disk.history /\ inbox' = disk.inbox
            BY <1>5, <2>2 DEF Crash
        <3>2. NotesOf(disk.history) \o <<>> = NotesOf(disk.history)
            BY <1>1, <2>2
        <3>3. KnownNotes' = NotesOf(disk.history) \o disk.inbox
            BY <2>1, <3>1, <3>2 DEF KnownNotes, NotesOf
        <3>4. ToSet(KnownNotes') = ToSet(NotesOf(disk.history)) \cup ToSet(disk.inbox)
            BY <1>1, <2>2, <3>3, ConcatElements
        <3>5. ToSet(disk.inbox) \subseteq Persistable
            BY <2>2 DEF AheadInv
        <3> QED
            BY <1>1, <2>2, <3>1, <3>4, <3>5, PrefixFacts
    <2>3. AheadInv'
        BY <2>1, <2>2 DEF AheadInv
    <2> QED
        BY <1>2, <2>1, <2>3
<1>6. CASE UNCHANGED allVars
    <2>1. UNCHANGED vars /\ disk' = disk
        BY <1>6 DEF allVars, store
    <2>2. history' = history /\ KnownNotes' = KnownNotes
        BY <2>1, StandsStill
    <2>3. AheadInv'
        BY <2>1, <2>2 DEF AheadInv
    <2> QED
        BY <1>2, <2>1, <2>3
<1> QED
    BY <1>3, <1>4, <1>5, <1>6 DEF SavedNext

\* With every_message=False, what was stored stays stored: a later save, or the save of a
\* process that resumed, only adds to the history and has every intervention it had.
THEOREM StoredIsKept ==
    ASSUME ApplyingFinishes, ~EveryMessage PROVE SavedSpec => SavedStays
<1>1. SavedInit => AheadInv
    BY DEF SavedInit, AheadInv
<1>2. SessionInv /\ AheadInv /\ [SavedNext]_allVars => AheadInv'
    BY AheadStep
<1>3. SessionInv /\ AheadInv /\ [SavedNext]_allVars => [StoredStays]_allVars
    BY AheadStep
<1>4. SavedSpec => [](SessionInv /\ AheadInv)
    BY <1>1, <1>2, SessionInvariance, PTL DEF SavedSpec
<1>5. SavedSpec => [][StoredStays]_allVars
    BY <1>3, <1>4, PTL DEF SavedSpec
<1> QED
    BY <1>5, Zenon DEF SavedStays, StoredStays
=============================================================================
