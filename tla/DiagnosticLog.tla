--------------------------- MODULE DiagnosticLog ---------------------------
(***************************************************************************)
(* The diagnostic log of one process: events folded into runs under a      *)
(* lock, a bounded queue that drops what it has no room for, the worker    *)
(* that writes the queue to a file family rotated by size, and the thread  *)
(* that releases a held run when the process goes quiet (core,             *)
(* diagnostics).                                                           *)
(*                                                                         *)
(* Threads record events one at a time (record holds the lock throughout), *)
(* so an event is one step; the worker and the release thread run beside   *)
(* it.  A line is the number of the first event of its run; a file is the  *)
(* sequence of its lines and its size their number.  Each of the file      *)
(* operations of a write may fail, and what was done before it stays.      *)
(***************************************************************************)
EXTENDS Integers, Sequences, FiniteSets, FiniteSetsExt, SequencesExt

CONSTANTS
    QueueLines,  \* settings.queue_lines
    MaxSize,     \* max_size, in lines
    MaxFiles,    \* max_files
    MaxEvents,   \* bound on events
    MaxFaults    \* bound on file operations that fail

LogAssumption == {QueueLines, MaxSize, MaxFiles, MaxEvents, MaxFaults} \subseteq Nat

VARIABLES
    seen,      \* events so far; their numbers are 1..seen
    held,      \* the run not yet written: [first, text], or NoRun
    queue,     \* lines on the way to the worker
    dropped,   \* the queue's error counter
    reported,  \* state.reported
    told,      \* what the notices the queue has taken say was dropped
    cut,       \* event lines the queue refused
    slot,      \* slot[0] the active file, slot[i] the i-th rotation
    faults,    \* file operations that failed
    wakes,     \* messages to the release thread
    releaser,  \* the release thread: "waiting", "holding" or "ended"
    guard      \* the guard: "kept", "flushed" (drop has begun) or "dropped"

vars == <<seen, held, queue, dropped, reported, told, cut, slot, faults, wakes,
          releaser, guard>>

NoRun == [first |-> 0, text |-> "none"]
NoFile == <<-1>>          \* a slot with no file behind it
Torn == -2                \* what a write that failed half way leaves
Notice == -3              \* a log.dropped line
Texts == {"a", "b"}       \* ordinary events; equal ones fold
Slots == 0..MaxFiles

Init ==
    /\ seen = 0 /\ held = NoRun /\ queue = <<>>
    /\ dropped = 0 /\ reported = 0 /\ told = 0 /\ cut = 0
    /\ slot = [i \in Slots |-> NoFile] /\ faults = 0
    /\ wakes = 0 /\ releaser = "waiting" /\ guard = "kept"

-----------------------------------------------------------------------------
(* The writing side, under the lock.                                       *)

Log == [queue |-> queue, dropped |-> dropped, reported |-> reported,
        told |-> told, cut |-> cut]

HasRoom(l) == Len(l.queue) < QueueLines

\* Mutation of Told: a refused notice counts as a lost event.
Told_Inflated(l) ==
    IF l.dropped = l.reported THEN l
    ELSE IF HasRoom(l)
         THEN [l EXCEPT !.queue = Append(@, Notice), !.reported = l.dropped,
                        !.told = @ + (l.dropped - l.reported)]
         ELSE [l EXCEPT !.dropped = @ + 1]

\* The notice that tells what was dropped since the queue last had room.  One
\* the queue refuses counts in its counter too, and is not a lost event.
Told(l) ==
    IF l.dropped = l.reported THEN l
    ELSE IF HasRoom(l)
         THEN [l EXCEPT !.queue = Append(@, Notice), !.reported = l.dropped,
                        !.told = @ + (l.dropped - l.reported)]
         ELSE [l EXCEPT !.dropped = @ + 1, !.reported = @ + 1]

\* write: the notice if one is due, then the line itself.
Write(l, line) ==
    LET t == Told(l)
    IN IF HasRoom(t) THEN [t EXCEPT !.queue = Append(@, line)]
       ELSE [t EXCEPT !.dropped = @ + 1, !.cut = @ + 1]

WriteRun(l, run) == IF run = NoRun THEN l ELSE Write(l, run.first)

SetLog(l) ==
    /\ queue' = l.queue /\ dropped' = l.dropped /\ reported' = l.reported
    /\ told' = l.told /\ cut' = l.cut

\* record, for an error: the run it ends, then the error itself, at once.
RecordError ==
    /\ seen < MaxEvents /\ seen' = seen + 1
    /\ SetLog(Write(WriteRun(Log, held), seen + 1))
    /\ held' = NoRun
    /\ UNCHANGED <<slot, faults, wakes, releaser, guard>>

\* A message goes out when a run begins: nothing was held, or a run ended.
BeginsARun(text) == held.text # text

\* record, for any other event: it extends the held run or begins another.
RecordEvent(text) ==
    /\ seen < MaxEvents /\ seen' = seen + 1
    /\ IF held.text = text THEN UNCHANGED <<held, queue, dropped, reported, told, cut>>
       ELSE /\ SetLog(WriteRun(Log, held))
            /\ held' = [first |-> seen + 1, text |-> text]
    /\ wakes' = IF BeginsARun(text) /\ releaser # "ended" THEN wakes + 1 ELSE wakes
    /\ UNCHANGED <<slot, faults, releaser, guard>>

-----------------------------------------------------------------------------
(* The release thread.                                                     *)

\* recv returns: the thread holds off until the run is due, or ends.
Wake ==
    /\ releaser = "waiting" /\ wakes > 0
    /\ wakes' = wakes - 1
    /\ releaser' = IF guard = "dropped" THEN "ended" ELSE "holding"
    /\ UNCHANGED <<seen, held, queue, dropped, reported, told, cut, slot, faults, guard>>

\* flush_due: the held run is written once it has waited long enough; while
\* one is held the thread sleeps again.
FlushDue(due) ==
    /\ releaser = "holding"
    /\ IF due /\ held # NoRun
       THEN SetLog(WriteRun(Log, held)) /\ held' = NoRun
       ELSE UNCHANGED <<held, queue, dropped, reported, told, cut>>
    /\ releaser' = IF guard = "dropped" THEN "ended"
                   ELSE IF held' = NoRun THEN "waiting" ELSE "holding"
    /\ UNCHANGED <<seen, slot, faults, wakes, guard>>

\* The guard is dropped: flush_all, then stop.
FlushAll ==
    /\ guard = "kept" /\ guard' = "flushed"
    /\ SetLog(WriteRun(Log, held)) /\ held' = NoRun
    /\ UNCHANGED <<seen, slot, faults, wakes, releaser>>

Stop ==
    /\ guard = "flushed" /\ guard' = "dropped"
    /\ wakes' = wakes + 1
    /\ UNCHANGED <<seen, held, queue, dropped, reported, told, cut, slot, faults, releaser>>

-----------------------------------------------------------------------------
(* The worker and the rotating writer.                                     *)

Opened == IF slot[0] = NoFile THEN <<>> ELSE slot[0]
IsFull == Len(Opened) > 0 /\ Len(Opened) + 1 > MaxSize

\* Mutation of Free: every shift goes through the last slot.
Free_AlwaysLast == MaxFiles

\* The first empty slot, so that a rotation cut short is finished by the next
\* one; the last slot is emptied only when there is none.
Free ==
    LET empty == {i \in 1..MaxFiles : slot[i] = NoFile}
    IN IF empty = {} THEN MaxFiles ELSE Min(empty)

\* The family after the first n renames of a shift into the slot `free`: each
\* moves a file one up, from the slot below `free` down to the active file.
Shifted(free, n) ==
    [i \in Slots |->
        IF i \in (free - n + 1)..free THEN slot[i - 1]
        ELSE IF i = free - n THEN NoFile ELSE slot[i]]

\* One line is written whole, to a fresh file when the active one is full.
\* Where no rotation is kept, the active file is emptied instead.
WriteLine ==
    /\ queue # <<>> /\ queue' = Tail(queue)
    /\ slot' = IF IsFull
               THEN IF MaxFiles = 0 THEN [slot EXCEPT ![0] = <<Head(queue)>>]
                    ELSE [Shifted(Free, Free) EXCEPT ![0] = <<Head(queue)>>]
               ELSE [slot EXCEPT ![0] = Append(Opened, Head(queue))]
    /\ UNCHANGED <<seen, held, dropped, reported, told, cut, faults, wakes, releaser, guard>>

\* A file operation fails: the line is lost.  Of a rotation the operations
\* before it are done; of the write itself a part may be left in the file.
LoseLine ==
    /\ queue # <<>> /\ queue' = Tail(queue)
    /\ faults < MaxFaults /\ faults' = faults + 1
    /\ \/ UNCHANGED slot
       \/ ~IsFull /\ slot' = [slot EXCEPT ![0] = Append(Opened, Torn)]
       \/ IsFull /\ MaxFiles > 0 /\ \E n \in 0..Free : slot' = Shifted(Free, n)
    /\ UNCHANGED <<seen, held, dropped, reported, told, cut, wakes, releaser, guard>>

-----------------------------------------------------------------------------

Release == Wake \/ \E due \in BOOLEAN : FlushDue(due)

Next ==
    \/ RecordError \/ (\E t \in Texts : RecordEvent(t))
    \/ Wake \/ (\E due \in BOOLEAN : FlushDue(due))
    \/ FlushAll \/ Stop
    \/ WriteLine \/ LoseLine

\* The release thread keeps running, and a run it finds held long enough is
\* due: sleeping is all it does between two looks.
Fairness == WF_vars(Wake) /\ WF_vars(FlushDue(TRUE))

Spec == Init /\ [][Next]_vars
FairSpec == Spec /\ Fairness

-----------------------------------------------------------------------------
(* Properties.                                                             *)

\* The lines of events, those of s in their order and those of s before those of t.
Ordered(s) == \A k, m \in DOMAIN s : k < m /\ s[k] > 0 /\ s[m] > 0 => s[k] < s[m]
Before(s, t) == \A k \in DOMAIN s, m \in DOMAIN t : s[k] > 0 /\ t[m] > 0 => s[k] < t[m]

HeldLine == IF held = NoRun THEN <<>> ELSE <<held.first>>

\* Whatever was dropped, whichever file operations failed half way and
\* whoever wrote a run, the log reads in the order things happened and says
\* nothing twice; and the notices, with what is still to be told, count the
\* events dropped exactly, a refused notice never among them.
LogIsTrue ==
    /\ \A i \in Slots : Ordered(slot[i]) /\ Before(slot[i], queue) /\ Before(slot[i], HeldLine)
    /\ \A older, newer \in Slots : newer < older => Before(slot[older], slot[newer])
    /\ Ordered(queue) /\ Before(queue, HeldLine)
    /\ told + (dropped - reported) = cut

\* A file disappears only off the end of a full family: a rotation finished
\* after it failed half way discards nothing that had already moved.
OnlyTheOldestIsDiscarded ==
    [][\A i \in Slots :
         (slot[i] # NoFile /\ MaxFiles > 0 /\ ~\E k \in Slots : IsPrefix(slot[i], slot'[k]))
            => i = MaxFiles /\ \A k \in Slots : slot[k] # NoFile]_vars

\* What the log has is not lost on its way or behind it: no file is discarded
\* early, and an event that is held while the log is kept is written, since
\* the release thread never sleeps through it.
LogIsKept ==
    /\ OnlyTheOldestIsDiscarded
    /\ \A n \in 1..MaxEvents :
          (held.first = n) ~> (held.first # n \/ guard = "dropped")
=============================================================================
