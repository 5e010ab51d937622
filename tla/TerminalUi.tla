----------------------------- MODULE TerminalUi -----------------------------
(***************************************************************************)
(* The loop of the terminal UI (tui/src/app.rs): keys, commands that run   *)
(* beside the loop and come back as questions or answers (work.rs,         *)
(* installation.rs), the chat and its turns, the conversation of the       *)
(* selected session, and the relaunch onto a changed installation.         *)
(*                                                                         *)
(* The loop is one thread; a step is one thing that a tick takes up: a     *)
(* key, an answer of the work channel, the end of a turn, a snapshot.  A   *)
(* tick that takes up several is a sequence of such steps, so only a key,  *)
(* which is the first thing of its tick, has to wait for a relaunch that   *)
(* is due.  What the person types is data: what the line is when Enter or  *)
(* Esc is pressed is any line.  The four panels and the Kanban screen are  *)
(* one here: no guard but that of a card's Enter tells them apart.  What   *)
(* the Chat screen shows of the conversation is left out.                  *)
(***************************************************************************)
EXTENDS Naturals, Sequences, FiniteSets

CONSTANTS
    Old,            \* how many sessions there are at the start
    MaxSessions,    \* bound: sessions at the end
    MaxMessages,    \* bound: messages sent
    MaxCommands,    \* bound: commands run
    MaxMoves,       \* bound: moves of the selection on the Sessions screen
    MaxStops,       \* bound: requests to stop that are under way at once
    MaxRelaunches   \* bound: relaunches

VARIABLES
    ui,         \* App and its view-model
    threads,    \* the turns being written, each on its thread
    disk,       \* the number of entries of each session's journal, 0 for none
    read,       \* CapabilitySource::reading: what the read under way found, if any
    used        \* what has been used up of the bounds

vars == <<ui, threads, disk, read, used>>

Sessions == 1..MaxSessions
None == [id |-> 0, entries |-> 0]

\* The rows of core:session.list, newest first.  A list that cannot be had counts as empty.
Listing ==
    SelectSeq([i \in Sessions |-> [id |-> MaxSessions + 1 - i, entries |-> disk[MaxSessions + 1 - i]]],
              LAMBDA row : row.entries > 0)

\* The row under the selection.
Wanted(u) ==
    IF u.list = <<>> THEN None
    ELSE u.list[IF u.cursor > Len(u.list) THEN Len(u.list) ELSE u.cursor]

(***************************************************************************)
(* What the handlers of App do to its state.                               *)
(***************************************************************************)
\* Work::spawn; n tells apart jobs that ask for the same.
Spawn(u, kind, key) ==
    LET Job(n) == [kind |-> kind, key |-> key, n |-> n]
        n == CHOOSE i \in 1..(Cardinality(u.jobs) + 1) : Job(i) \notin u.jobs
    IN  [u EXCEPT !.jobs = @ \union {Job(n)}]

\* sync_transcript
Sync(u) ==
    LET w == Wanted(u)
        v == IF u.transcript.id = w.id THEN u ELSE [u EXCEPT !.transcript = None]
    IN  IF w = None \/ u.transcript = w \/ u.reading = w THEN v
        ELSE Spawn([v EXCEPT !.reading = w], "transcript", w)

\* finish_reply
FinishReply(u) == [u EXCEPT !.settling = FALSE, !.pending = 0]

\* refresh_chat_transcript
Refresh(u) ==
    IF u.session = 0 THEN FinishReply(u)
    ELSE Spawn([u EXCEPT !.settling = TRUE], "chat", [id |-> u.session, entries |-> 0])

\* Mutation of Refuses: the relaunch to come is not looked at.
Refuses_WhenBusy(u) == u.command

\* run_command: one at a time, and none on a composition about to be replaced.
Refuses(u) == u.command \/ u.relaunch
RunCommand(u) == Spawn([u EXCEPT !.command = TRUE], "command", None)

IsBusy(u) == u.command \/ u.reading # None \/ u.settling \/ u.stops > 0
Due(u) == u.relaunch /\ ~u.quit /\ ~IsBusy(u) /\ u.turn = 0

\* App::shared over an empty view
NewApp ==
    [screen |-> "overview", bar |-> FALSE, cursor |-> 1, list |-> <<>>, transcript |-> None,
     session |-> 0, pending |-> 0, turn |-> 0, jobs |-> {}, command |-> FALSE, reading |-> None,
     settling |-> FALSE, stops |-> 0, asked |-> "no", relaunch |-> FALSE, quit |-> FALSE]
NoRead == [under |-> FALSE, rows |-> <<>>]

Init ==
    /\ ui = NewApp
    /\ threads = {}
    /\ disk = [s \in Sessions |-> IF s <= Old THEN 1 ELSE 0]
    /\ read = NoRead
    /\ used = [messages |-> 0, commands |-> 0, moves |-> 0, composed |-> 0, sessions |-> Old]

(***************************************************************************)
(* Keys.                                                                   *)
(***************************************************************************)
Pressed == ~ui.quit /\ ~Due(ui) /\ UNCHANGED <<disk, read>>
Free == Pressed /\ ui.asked = "no"
Only(u) == ui' = u /\ UNCHANGED <<threads, used>>

\* consent_key
SayYes ==
    /\ Pressed /\ ui.asked # "no"
    /\ Only(Spawn([ui EXCEPT !.asked = "no", !.command = TRUE], "confirmed",
                  [id |-> 0, entries |-> IF ui.asked = "relaunching" THEN 1 ELSE 0]))
SayNo ==
    /\ Pressed /\ ui.asked # "no"
    /\ Only([ui EXCEPT !.asked = "no"])

\* dispatch_pane_action, by a key or a /pane line, and the Esc of a full-width screen.
PaneAction ==
    /\ Free
    /\ \/ \E bar \in {FALSE, ~ui.bar} :             \* FocusNext, FocusPrev
             Only([ui EXCEPT !.bar = bar, !.screen = IF bar THEN @ ELSE "overview"])
       \/ Only([ui EXCEPT !.bar = TRUE])            \* FocusCommandBar
       \/ Only([ui EXCEPT !.bar = FALSE, !.screen = "overview"])    \* FocusBoard, FocusOffice
       \/ Only(Sync([ui EXCEPT !.bar = FALSE, !.screen = "sessions"]))  \* FocusSessions
       \/ Only([ui EXCEPT !.bar = TRUE, !.screen = "chat"])         \* FocusChat
       \/ ~ui.bar /\ Only([ui EXCEPT !.screen = "overview"])        \* Esc on a screen

\* PaneAction::Quit: the process ends, and what it ran with it.
Quit ==
    /\ ~ui.quit /\ ~Due(ui) /\ ui.asked = "no"
    /\ ui' = [NewApp EXCEPT !.quit = TRUE]
    /\ threads' = {} /\ read' = NoRead
    /\ UNCHANGED <<disk, used>>

\* sessions_key
MoveSelection ==
    /\ Free /\ ui.screen = "sessions" /\ ~ui.bar /\ ui.list # <<>>
    /\ used.moves < MaxMoves
    /\ \E next \in 1..Len(ui.list) :
         /\ LET at == IF ui.cursor > Len(ui.list) THEN Len(ui.list) ELSE ui.cursor
            IN  next \in {at - 1, at, at + 1}
         /\ ui' = Sync([ui EXCEPT !.cursor = next])
    /\ used' = [used EXCEPT !.moves = @ + 1]
    /\ UNCHANGED threads

\* A slash line that names a verb, or Enter on a card (kanban_key).
Command ==
    /\ Free /\ (ui.bar \/ ui.screen = "overview")
    /\ ~Refuses(ui)
    /\ used.commands < MaxCommands
    /\ ui' = RunCommand(ui)
    /\ used' = [used EXCEPT !.commands = @ + 1]
    /\ UNCHANGED threads

\* send_message
SendMessage ==
    LET fresh == ui.session = 0
        session == IF fresh THEN used.sessions + 1 ELSE ui.session
        n == used.messages + 1
    IN  /\ Free /\ ui.bar /\ ui.screen = "chat"
        /\ ~ui.relaunch /\ ui.pending = 0
        /\ n <= MaxMessages /\ session <= MaxSessions
        /\ ui' = [ui EXCEPT !.turn = n, !.session = session, !.pending = n]
        /\ threads' = threads \union {[n |-> n, session |-> session]}
        /\ used' = [used EXCEPT !.messages = n, !.sessions = IF fresh THEN @ + 1 ELSE @]

\* apply_chat_action, /chat new
ChatNew ==
    /\ Free /\ ui.bar /\ ui.pending = 0
    /\ Only([ui EXCEPT !.session = 0])

\* Esc on the Chat screen with nothing typed: stop_turn, or the screen is left.
ChatEsc ==
    /\ Free /\ ui.bar /\ ui.screen = "chat"
    /\ IF ui.pending = 0 THEN Only([ui EXCEPT !.screen = "overview", !.bar = FALSE])
       ELSE IF ui.session = 0 THEN Only(ui)
       ELSE ui.stops < MaxStops /\ Only(Spawn([ui EXCEPT !.stops = @ + 1], "stop", None))

(***************************************************************************)
(* Answers.                                                                *)
(***************************************************************************)
Without(job) == [ui EXCEPT !.jobs = @ \ {job}]

\* Finished::Command: an answer, or a question (prepare); or the job died.
CommandAnswers ==
    /\ \E job \in ui.jobs, asked \in {"no", "plain", "relaunching"} :
         /\ job.kind = "command"
         /\ Only([Without(job) EXCEPT !.command = FALSE, !.asked = IF asked = "no" THEN @ ELSE asked])
    /\ UNCHANGED <<disk, read>>

\* The agreed change was carried out, and asks for a relaunch; or it was not.
ConfirmedAnswers ==
    /\ \E job \in ui.jobs :
         /\ job.kind = "confirmed"
         /\ \E relaunch \in {FALSE, job.key.entries = 1 /\ used.composed < MaxRelaunches} :
              Only([Without(job) EXCEPT !.command = FALSE, !.relaunch = @ \/ relaunch])
    /\ UNCHANGED <<disk, read>>

\* Mutation of Shows: whatever was read is shown.
Shows_Anything(u, key) == [u EXCEPT !.transcript = key]

\* The conversation that was read is shown if it is still the wanted one.
Shows(u, key) == IF Wanted(u) = key THEN [u EXCEPT !.transcript = key] ELSE Sync(u)

\* Finished::Transcript, or Failed
TranscriptAnswers ==
    /\ \E job \in ui.jobs :
         /\ job.kind = "transcript"
         /\ \/ Only(Shows([Without(job) EXCEPT !.reading = IF @ = job.key THEN None ELSE @], job.key))
            \/ Only([Without(job) EXCEPT !.reading = None])
    /\ UNCHANGED <<disk, read>>

\* Finished::ChatTranscript, or Failed
ChatAnswers ==
    /\ \E job \in ui.jobs :
         job.kind = "chat" /\ Only(FinishReply(Without(job)))
    /\ UNCHANGED <<disk, read>>

\* Mutation of Stopped: only a stop that was answered is counted down.
Stopped_IfAnswered(u, died) == [u EXCEPT !.stops = IF died THEN @ ELSE @ - 1]

\* A stop that was asked for is over, answered or not.
Stopped(u, died) == [u EXCEPT !.stops = @ - 1]

\* Finished::Stopped, or Failed
StopAnswers ==
    /\ \E job \in ui.jobs, died \in BOOLEAN :
         job.kind = "stop" /\ Only(Stopped(Without(job), died))
    /\ UNCHANGED <<disk, read>>

\* A turn has been recorded, or has failed.  If the loop still listens to it (poll_turn), the
\* conversation is read back.
TurnEnds ==
    /\ \E t \in threads :
         /\ threads' = threads \ {t}
         /\ disk' \in {disk, [disk EXCEPT ![t.session] = @ + 1]}
         /\ ui' = IF ui.turn = t.n THEN Refresh([ui EXCEPT !.turn = 0]) ELSE ui
    /\ UNCHANGED <<read, used>>

\* CapabilitySource: a read is started, and handed over by a later poll; it may be lost.
StartRead ==
    /\ ~ui.quit /\ ~read.under
    /\ read' = [under |-> TRUE, rows |-> Listing]
    /\ UNCHANGED <<ui, threads, disk, used>>

HandOver ==
    /\ ~ui.quit /\ read.under
    /\ \E rows \in {read.rows, <<>>} :
         LET u == [ui EXCEPT !.list = rows]
         IN  ui' = IF rows # ui.list /\ ui.screen = "sessions" THEN Sync(u) ELSE u
    /\ read' = NoRead
    /\ UNCHANGED <<threads, disk, used>>

\* run_with: the view is carried into a new App, on a new composition, over a new source
\* (into_view, after_relaunch).  What still runs for the old App answers to no one.
Relaunch ==
    /\ Due(ui)
    /\ ui' = LET u == [ui EXCEPT !.jobs = {}, !.transcript = None, !.asked = "no", !.relaunch = FALSE]
             IN  IF u.session = 0 THEN u ELSE Refresh(u)
    /\ read' = NoRead
    /\ used' = [used EXCEPT !.composed = @ + 1]
    /\ UNCHANGED <<threads, disk>>

Answer == CommandAnswers \/ ConfirmedAnswers \/ TranscriptAnswers \/ ChatAnswers \/ StopAnswers
Key == \/ SayYes \/ SayNo \/ PaneAction \/ Quit \/ MoveSelection \/ Command \/ SendMessage
       \/ ChatNew \/ ChatEsc
Next == Key \/ Answer \/ TurnEnds \/ StartRead \/ HandOver \/ Relaunch

Spec == Init /\ [][Next]_vars

\* Every job and every turn comes to an end, and the loop goes on ticking.
Fairness ==
    /\ WF_vars(CommandAnswers) /\ WF_vars(ConfirmedAnswers) /\ WF_vars(TranscriptAnswers)
    /\ WF_vars(ChatAnswers) /\ WF_vars(StopAnswers) /\ WF_vars(TurnEnds) /\ WF_vars(Relaunch)
FairSpec == Spec /\ Fairness

-----------------------------------------------------------------------------
Jobs(kind) == {job \in ui.jobs : job.kind = kind}

\* Every mark of work under way stands for a job that will take it back, so that no mark keeps
\* the bar or a relaunch waiting for ever; and between the change that asked for it and the
\* relaunch no command runs and no question is open, so that none is lost (App::is_busy, apply,
\* run_command).
MarksHaveJobs ==
    /\ ui.command <=> Cardinality(Jobs("command") \union Jobs("confirmed")) = 1
    /\ ui.stops = Cardinality(Jobs("stop"))
    /\ ui.reading # None => \E job \in Jobs("transcript") : job.key = ui.reading
    /\ ui.settling => Jobs("chat") # {}
    /\ ui.relaunch => ~ui.command /\ ui.asked = "no"

\* The conversation on the Sessions screen is never that of another session than the selected
\* one, however late it was read and however the list has changed ("it would sit under the
\* wrong header", sync_transcript).
ShownIsSelected ==
    ui.screen = "sessions" /\ ui.transcript # None => ui.transcript.id = Wanted(ui).id

\* A relaunch that was asked for takes place, unless the person leaves, or comes back for ever
\* to the Sessions screen, where every look at an unread conversation starts a read that the
\* relaunch waits for (TickResult::relaunch).
RelaunchComes ==
    <>[](ui.screen # "sessions") => (ui.relaunch ~> (~ui.relaunch \/ ui.quit))

\* "the screen shows the message as pending until it finishes" (send_message)
PendingUntilItFinishes == ui.turn # 0 => ui.pending = ui.turn
=============================================================================
