--------------------------- MODULE SessionJournal ---------------------------
(***************************************************************************)
(* One session's journal and the turns that write it: run_turn in          *)
(* crates/domain/src/session/chat.rs over session/writer.rs and            *)
(* session/journal.rs.                                                     *)
(*                                                                         *)
(* The journal is a file of lines, each one entry, only ever appended to.  *)
(* A write can be cut short anywhere, by a crash or by an I/O error, and   *)
(* ends its turn: the file then ends in a damaged line, in a whole line    *)
(* without its newline, or in fewer lines than were handed to it.  Turns   *)
(* read, mend and continue what an earlier one left.                       *)
(***************************************************************************)
EXTENDS Naturals, Sequences, SequencesExt

CONSTANTS
    Turns,      \* turns of the session, each one run of run_turn
    NoTurn,     \* the turn of a line that is not an entry
    OneAtATime  \* whether a turn begins only when no other is running

ASSUME JournalAssumption ==
    /\ NoTurn \notin Turns
    /\ OneAtATime \in BOOLEAN

VARIABLES
    file,       \* the journal on disk
    place,      \* where each turn is in run_turn
    writer,     \* each turn's JournalWriter
    acked       \* entries whose append reported success

vars == <<file, place, writer, acked>>

\* A line of the file.  A damaged line says nothing.
Line(kind, id, parent, turn, stop) ==
    [kind |-> kind, id |-> id, parent |-> parent, turn |-> turn, stop |-> stop]
Header == Line("header", 0, 0, NoTurn, "none")
Damaged == Line("damaged", 0, 0, NoTurn, "none")
Stops == {"stop", "error", "aborted"}
Entries == [kind: {"user", "reply"}, id: Nat \ {0}, parent: Nat, turn: Turns,
            stop: Stops \cup {"none", "interrupted"}]

IsEntry(line) == line.kind \in {"user", "reply"}

\* Where in the file the entries are that parse.
Places(lines) == {i \in DOMAIN lines : IsEntry(lines[i])}

-----------------------------------------------------------------------------
(* Files.                                                                  *)

Missing == [exists |-> FALSE, lines |-> <<>>, terminated |-> TRUE]

\* The lines at the end of the file; what follows an unterminated line is glued
\* onto it, and the two do not parse.
Joined(f, lines, terminated) ==
    IF lines = <<>> THEN [f EXCEPT !.exists = TRUE]
    ELSE [exists |-> TRUE,
          terminated |-> terminated,
          lines |-> IF f.terminated THEN f.lines \o lines
                    ELSE Front(f.lines) \o <<Damaged>> \o Tail(lines)]

\* What a write leaves that was cut short, or whose sync failed.
CutShort(f, lines) ==
    {Joined(f, lines, TRUE)} \cup
    UNION {{Joined(f, SubSeq(lines, 1, k), TRUE),
            Joined(f, SubSeq(lines, 1, k) \o <<Damaged>>, FALSE),
            Joined(f, SubSeq(lines, 1, k + 1), FALSE)} : k \in 0 .. Len(lines) - 1}

\* The file holds a journal this build can continue.
HasHeader(f) == f.lines # <<>> /\ f.lines[1].kind = "header"

-----------------------------------------------------------------------------
Fresh == [open |-> FALSE, entries |-> 0, last |-> 0, awaiting |-> FALSE,
          pending |-> <<>>]

Init ==
    /\ file = Missing
    /\ place = [t \in Turns |-> "idle"]
    /\ writer = [t \in Turns |-> Fresh]
    /\ acked = {}

Running(t) == place[t] \notin {"idle", "done", "over"}
Goto(t, where) == place' = [place EXCEPT ![t] = where]

Begin(t) ==
    /\ place[t] = "idle"
    /\ OneAtATime => \A u \in Turns : ~Running(u)
    /\ Goto(t, "reading")
    /\ UNCHANGED <<file, writer, acked>>

\* journal::read: a session to continue, or one to start.
ReadJournal(t) ==
    /\ place[t] = "reading"
    /\ Goto(t, IF file.exists THEN "opening" ELSE "creating")
    /\ UNCHANGED <<file, writer, acked>>

\* JournalWriter::create; it touches nothing on disk.
Create(t) ==
    /\ place[t] = "creating"
    /\ Goto(t, IF file.exists THEN "over" ELSE "asking")
    /\ UNCHANGED <<file, writer, acked>>

\* What JournalWriter::open makes of the file: every line after the header
\* counts, a damaged one too; the last entry and the last message are those
\* that parse.
Opened(f) ==
    LET places == Places(f.lines)
        newest == f.lines[Max(places)]
    IN
    [open |-> TRUE,
     entries |-> Len(f.lines) - 1,
     last |-> IF places = {} THEN 0 ELSE newest.id,
     awaiting |-> places # {} /\ newest.kind = "user",
     pending |-> <<>>]

\* JournalWriter::open, which refuses a file without a header.
Open(t) ==
    /\ place[t] = "opening"
    /\ \/ /\ HasHeader(file)
          /\ writer' = [writer EXCEPT ![t] = Opened(file)]
          /\ Goto(t, IF file.terminated THEN "closing" ELSE "mending")
       \/ /\ ~HasHeader(file)
          /\ Goto(t, "over")
          /\ UNCHANGED writer
    /\ UNCHANGED <<file, acked>>

\* Mutation of Mend: the line torn by a crash is left as it is.
Mend_Not(t) ==
    /\ place[t] = "mending"
    /\ Goto(t, "closing")
    /\ UNCHANGED <<file, writer, acked>>

\* ... and ends a line torn by a crash, so that nothing is glued onto it.
Mend(t) ==
    /\ place[t] = "mending"
    /\ \/ file' = [file EXCEPT !.terminated = TRUE] /\ Goto(t, "closing")
       \/ Goto(t, "over") /\ UNCHANGED file
    /\ UNCHANGED <<writer, acked>>

\* Mutation of NextEntry: the parent is counted instead of remembered.
NextEntry_CountedParent(t, kind, stop) ==
    Line(kind, writer[t].entries + 1, writer[t].entries, t, stop)

\* The entry an append writes.
NextEntry(t, kind, stop) ==
    Line(kind, writer[t].entries + 1, writer[t].last, t, stop)

\* The writer once the entry is appended.
Counted(w, entry) ==
    [w EXCEPT !.entries = @ + 1, !.last = entry.id, !.awaiting = entry.kind = "user"]

\* JournalWriter::append: the entry goes to the file, waits in memory, or
\* brings the journal into being with all that waits (materialize).  If its
\* write is cut short the turn is over.
Append_(t, entry, next) ==
    LET w == writer[t]
        after == Counted(w, entry)
        lines == IF w.open THEN <<entry>> ELSE <<Header>> \o w.pending \o <<entry>>
    IN
    \/ /\ w.open \/ (entry.kind = "reply" /\ ~file.exists)
       /\ \/ /\ file' = Joined(file, lines, TRUE)
             /\ writer' = [writer EXCEPT ![t] = [after EXCEPT !.open = TRUE, !.pending = <<>>]]
             /\ acked' = acked \cup {l \in Range(lines) : IsEntry(l)}
             /\ Goto(t, next)
          \/ /\ file' \in CutShort(file, lines)
             /\ Goto(t, "over")
             /\ UNCHANGED <<writer, acked>>
    \/ /\ ~w.open /\ entry.kind = "reply" /\ file.exists
       /\ Goto(t, "over")
       /\ UNCHANGED <<file, writer, acked>>
    \/ /\ ~w.open /\ entry.kind # "reply"
       /\ writer' = [writer EXCEPT ![t] = [after EXCEPT !.pending = Append(@, entry)]]
       /\ Goto(t, next)
       /\ UNCHANGED <<file, acked>>

\* close_interrupted_turn
CloseInterruptedTurn(t) ==
    /\ place[t] = "closing"
    /\ \/ writer[t].awaiting /\ Append_(t, NextEntry(t, "reply", "interrupted"), "asking")
       \/ ~writer[t].awaiting /\ Goto(t, "asking") /\ UNCHANGED <<file, writer, acked>>

\* append_message("user", ..)
Ask(t) ==
    /\ place[t] = "asking"
    /\ Append_(t, NextEntry(t, "user", "none"), "generating")

\* The model has answered, failed or been cancelled; append_reply records it.
Reply(t) ==
    /\ place[t] = "generating"
    /\ \E stop \in Stops : Append_(t, NextEntry(t, "reply", stop), "done")

\* The process of a turn dies between two writes.
Die(t) ==
    /\ Running(t)
    /\ Goto(t, "over")
    /\ UNCHANGED <<file, writer, acked>>

Next ==
    \E t \in Turns :
        \/ Begin(t) \/ ReadJournal(t) \/ Create(t) \/ Open(t) \/ Mend(t)
        \/ CloseInterruptedTurn(t) \/ Ask(t) \/ Reply(t) \/ Die(t)

Spec == Init /\ [][Next]_vars

-----------------------------------------------------------------------------
(* Properties.                                                             *)

\* "Every entry carries a stable id": no two entries of a journal share one,
\* whatever was lost or damaged between them.
IdsAreUnique ==
    \A i, j \in Places(file.lines) : file.lines[i].id = file.lines[j].id => i = j

\* The entry at i is the one right before place j; and the one at j names it and is of
\* the other kind, or there is none before it to name.
IsBefore(lines, i, j) ==
    /\ i \in Places(lines) /\ i < j
    /\ \A k \in Places(lines) : k < j => k <= i
IsLinked(lines, j) ==
    \/ lines[j].parent = 0 /\ \A k \in Places(lines) : k >= j
    \/ \E i \in Places(lines) :
          /\ IsBefore(lines, i, j)
          /\ lines[j].parent = lines[i].id /\ lines[j].kind # lines[i].kind

\* The entries that can be read form one conversation, also across damage.  Ids
\* are unique "and a parentId nam[es] the entry before it"; and "a turn always ends
\* in an assistant entry": a question is answered, or closed as interrupted,
\* before the next is asked.
EntriesFormAChain ==
    IdsAreUnique /\ \A j \in Places(file.lines) : IsLinked(file.lines, j)

\* "A crash can lose at most the line being written": an entry whose append
\* reported success stays readable, whatever is torn, mended or appended after.
AckedEntriesAreKept == acked \subseteq Range(file.lines)

=============================================================================
