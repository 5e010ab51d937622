--------------------------- MODULE TerminalUiProofs ---------------------------
(***************************************************************************)
(* The terminal UI for any numbers of sessions, messages, commands, moves, *)
(* stops and relaunches.  The marks of App (a command under way, a reply   *)
(* being read back, a conversation being read, the stops) and its jobs are *)
(* two books of the same work; MarksFit says that they agree, and with the *)
(* consent that may be open that no command runs where none may.           *)
(***************************************************************************)
EXTENDS TerminalUi, FiniteSetTheorems, TLAPS

JobsOf(u, kind) == {job \in u.jobs : job.kind = kind}
Commands(u) == JobsOf(u, "command") \union JobsOf(u, "confirmed")

\* The fields of App, and the values of those that the marks are made of.
TypeFits(u) ==
    /\ DOMAIN u = DOMAIN NewApp
    /\ IsFiniteSet(u.jobs)
    /\ u.command \in BOOLEAN /\ u.settling \in BOOLEAN /\ u.relaunch \in BOOLEAN
    /\ u.stops \in Nat

\* Each mark stands for its jobs; and a command, an open question and a
\* relaunch exclude one another.
MarksFit(u) ==
    /\ u.command => \E job \in u.jobs : Commands(u) = {job}
    /\ ~u.command => Commands(u) = {}
    /\ u.stops = Cardinality(JobsOf(u, "stop"))
    /\ u.reading # None => \E job \in JobsOf(u, "transcript") : job.key = u.reading
    /\ u.settling => JobsOf(u, "chat") # {}
    /\ u.relaunch => ~u.command /\ u.asked = "no"
    /\ u.asked # "no" => ~u.command

\* What is shown belongs to what is selected.
ShownFits(u) ==
    u.screen = "sessions" /\ u.transcript # None => u.transcript.id = Wanted(u).id

IInv == TypeFits(ui) /\ MarksFit(ui) /\ ShownFits(ui)

-----------------------------------------------------------------------------
(* What the handlers do to App.                                            *)

Fits(u) == TypeFits(u) /\ MarksFit(u)
SameView(v, u) ==
    v.screen = u.screen /\ v.list = u.list /\ v.cursor = u.cursor /\ v.transcript = u.transcript

\* A job that is spawned is not one that is under way: of its likes there are
\* at most as many as there are jobs.
LEMMA SpawnAddsAJob ==
    ASSUME NEW u, TypeFits(u), NEW kind, NEW key
    PROVE  \E job : /\ job \notin u.jobs /\ job.kind = kind /\ job.key = key
                    /\ Spawn(u, kind, key) = [u EXCEPT !.jobs = @ \union {job}]
<1> DEFINE Job(n) == [kind |-> kind, key |-> key, n |-> n]
           I == 1 .. (Cardinality(u.jobs) + 1)
           n == CHOOSE i \in I : Job(i) \notin u.jobs
<1>1. IsFiniteSet(u.jobs) /\ Cardinality(u.jobs) \in Nat
    BY FS_CardinalityType DEF TypeFits
<1>2. IsFiniteSet(I) /\ Cardinality(I) = Cardinality(u.jobs) + 1
    BY <1>1, FS_Interval
<1>3. \E i \in I : Job(i) \notin u.jobs
    <2>1. SUFFICES ASSUME \A i \in I : Job(i) \in u.jobs PROVE FALSE
        OBVIOUS
    <2> DEFINE f == [i \in I |-> Job(i)]
    <2>2. f \in [I -> u.jobs]
        BY <2>1
    <2>3. Cardinality(u.jobs) < Cardinality(I)
        BY <1>1, <1>2
    <2> HIDE DEF I
    <2>4. PICK i, j \in I : i # j /\ f[i] = f[j]
        <3> HIDE DEF f
        <3> QED BY <1>1, <1>2, <2>2, <2>3, FS_PigeonHole
    <2>5. Job(i).n = Job(j).n
        BY <2>4
    <2> QED BY <2>4, <2>5
<1>4. Job(n) \notin u.jobs
    <2> HIDE DEF I
    <2> QED BY <1>3
<1>5. Spawn(u, kind, key) = [u EXCEPT !.jobs = @ \union {Job(n)}]
    BY DEF Spawn
<1>6. Job(n).kind = kind /\ Job(n).key = key
    OBVIOUS
<1> HIDE DEF n
<1> QED BY <1>4, <1>5, <1>6

\* Nothing that the marks are about is touched, or a mark of a read is given up.
LEMMA Untouched ==
    ASSUME NEW u, Fits(u), NEW v, DOMAIN v = DOMAIN u,
           v.jobs = u.jobs, v.command = u.command, v.stops = u.stops,
           v.reading = u.reading \/ v.reading = None,
           v.settling = u.settling \/ v.settling = FALSE,
           v.relaunch = u.relaunch, v.asked = u.asked
    PROVE  Fits(v)
BY DEF Fits, TypeFits, MarksFit, JobsOf, Commands

\* A read is marked and spawned: it is no command and no stop, and a new mark
\* has its job.
LEMMA ReadSpawned ==
    ASSUME NEW u, Fits(u), NEW kind \in {"transcript", "chat"}, NEW key,
           NEW r, DOMAIN r = DOMAIN u, r.jobs = u.jobs, r.command = u.command,
           r.stops = u.stops, r.relaunch = u.relaunch, r.asked = u.asked,
           r.reading = u.reading \/ (kind = "transcript" /\ r.reading = key),
           r.settling = u.settling \/ (kind = "chat" /\ r.settling = TRUE)
    PROVE  /\ Fits(Spawn(r, kind, key))
           /\ SameView(Spawn(r, kind, key), r)
<1>0. TypeFits(r)
    BY DEF Fits, TypeFits
<1>1. PICK job : /\ job \notin r.jobs /\ job.kind = kind /\ job.key = key
                 /\ Spawn(r, kind, key) = [r EXCEPT !.jobs = @ \union {job}]
    BY <1>0, SpawnAddsAJob
<1> DEFINE v == Spawn(r, kind, key)
<1>2. /\ DOMAIN v = DOMAIN NewApp
      /\ \A field \in DOMAIN NewApp \ {"jobs"} : v[field] = r[field]
    BY <1>0, <1>1 DEF TypeFits
<1>3. v.jobs = u.jobs \union {job}
    BY <1>0, <1>1 DEF TypeFits, NewApp
<1>4. /\ v.command = u.command /\ v.stops = u.stops /\ v.reading = r.reading
      /\ v.settling = r.settling /\ v.relaunch = u.relaunch /\ v.asked = u.asked
    BY <1>2 DEF NewApp
<1> HIDE DEF v
<1>5. IsFiniteSet(v.jobs)
    BY <1>3, FS_AddElement DEF Fits, TypeFits
<1>6. Commands(v) = Commands(u) /\ JobsOf(v, "stop") = JobsOf(u, "stop")
    BY <1>1, <1>3 DEF Commands, JobsOf
<1>7. TypeFits(v)
    BY <1>2, <1>4, <1>5 DEF Fits, TypeFits
<1>8. /\ v.command => \E j \in v.jobs : Commands(v) = {j}
      /\ ~v.command => Commands(v) = {}
    BY <1>3, <1>4, <1>6 DEF Fits, MarksFit
<1>9. /\ v.reading # None => \E j \in JobsOf(v, "transcript") : j.key = v.reading
      /\ v.settling => JobsOf(v, "chat") # {}
    BY <1>1, <1>3, <1>4 DEF Fits, MarksFit, JobsOf
<1>10. MarksFit(v)
    BY <1>4, <1>6, <1>8, <1>9 DEF Fits, MarksFit
<1>11. SameView(v, r)
    BY <1>2 DEF SameView, NewApp
<1> QED BY <1>7, <1>10, <1>11 DEF v, Fits

\* sync_transcript leaves nothing on show that is not of the wanted session.
LEMMA SyncFits ==
    ASSUME NEW u, Fits(u)
    PROVE  Fits(Sync(u)) /\ ShownFits(Sync(u))
<1> DEFINE w == Wanted(u)
           v == IF u.transcript.id = w.id THEN u ELSE [u EXCEPT !.transcript = None]
<1>1. DOMAIN u = DOMAIN NewApp
    BY DEF Fits, TypeFits
<1>2. Fits(v) /\ Wanted(v) = w /\ (v.transcript # None => v.transcript.id = w.id)
    BY <1>1, Untouched DEF NewApp, Wanted
<1>3. CASE w = None \/ u.transcript = w \/ u.reading = w
    BY <1>2, <1>3 DEF Sync, ShownFits
<1>4. CASE ~(w = None \/ u.transcript = w \/ u.reading = w)
    <2> DEFINE r == [v EXCEPT !.reading = w]
    <2>1. Sync(u) = Spawn(r, "transcript", w)
        BY <1>4 DEF Sync
    <2>2. DOMAIN v = DOMAIN NewApp
        BY <1>2 DEF Fits, TypeFits
    <2> HIDE DEF v, w
    <2>3. /\ DOMAIN r = DOMAIN v /\ r.reading = w
          /\ r.jobs = v.jobs /\ r.command = v.command /\ r.stops = v.stops
          /\ r.relaunch = v.relaunch /\ r.asked = v.asked /\ r.settling = v.settling
          /\ r.list = v.list /\ r.cursor = v.cursor /\ r.transcript = v.transcript
        BY <2>2 DEF NewApp
    <2> HIDE DEF r
    <2> DEFINE x == Spawn(r, "transcript", w)
    <2>4. Fits(x) /\ SameView(x, r)
        <3>1. Fits(v)
            BY <1>2
        <3>2. \/ r.settling = v.settling
              \/ "transcript" = "chat" /\ r.settling = TRUE
            BY <2>3
        <3> QED BY <2>3, <3>1, <3>2, ReadSpawned
    <2> HIDE DEF x
    <2>5. x.list = v.list /\ x.cursor = v.cursor /\ x.transcript = v.transcript
        BY <2>3, <2>4 DEF SameView
    <2>6. ShownFits(x)
        BY <1>2, <2>5 DEF ShownFits, Wanted
    <2> QED BY <2>1, <2>4, <2>6 DEF x
<1> QED BY <1>3, <1>4

LEMMA SameShown ==
    ASSUME NEW u, ShownFits(u), NEW v, SameView(v, u)
    PROVE  ShownFits(v)
BY DEF ShownFits, SameView, Wanted

\* refresh_chat_transcript
LEMMA RefreshFits ==
    ASSUME NEW u, Fits(u), ShownFits(u)
    PROVE  Fits(Refresh(u)) /\ ShownFits(Refresh(u))
<1>0. DOMAIN u = DOMAIN NewApp
    BY DEF Fits, TypeFits
<1>1. CASE u.session = 0
    <2> DEFINE v == [u EXCEPT !.settling = FALSE, !.pending = 0]
    <2>1. Refresh(u) = v
        BY <1>1 DEF Refresh, FinishReply
    <2>2. /\ DOMAIN v = DOMAIN u /\ v.settling = FALSE
          /\ v.jobs = u.jobs /\ v.command = u.command /\ v.stops = u.stops
          /\ v.reading = u.reading /\ v.relaunch = u.relaunch /\ v.asked = u.asked
        BY <1>0 DEF NewApp
    <2>3. SameView(v, u)
        BY <1>0 DEF NewApp, SameView
    <2> HIDE DEF v
    <2> QED BY <2>1, <2>2, <2>3, Untouched, SameShown
<1>2. CASE u.session # 0
    <2> DEFINE r == [u EXCEPT !.settling = TRUE]
               key == [id |-> u.session, entries |-> 0]
    <2>1. Refresh(u) = Spawn(r, "chat", key)
        BY <1>2 DEF Refresh
    <2>2. /\ DOMAIN r = DOMAIN u /\ r.settling = TRUE
          /\ r.jobs = u.jobs /\ r.command = u.command /\ r.stops = u.stops
          /\ r.reading = u.reading /\ r.relaunch = u.relaunch /\ r.asked = u.asked
        BY <1>0 DEF NewApp
    <2>3. SameView(r, u)
        BY <1>0 DEF NewApp, SameView
    <2> HIDE DEF r, key
    <2>4. Fits(Spawn(r, "chat", key)) /\ SameView(Spawn(r, "chat", key), r)
        BY <2>2, ReadSpawned
    <2> QED BY <2>1, <2>3, <2>4, SameShown
<1> QED BY <1>1, <1>2

\* A command or an agreed change is marked and spawned where none may run yet.
LEMMA CommandSpawned ==
    ASSUME NEW u, Fits(u), ~u.command, ~u.relaunch, NEW kind \in {"command", "confirmed"}, NEW key,
           NEW r, DOMAIN r = DOMAIN u, r.jobs = u.jobs, r.command = TRUE, r.stops = u.stops,
           r.reading = u.reading, r.settling = u.settling, r.relaunch = u.relaunch, r.asked = "no"
    PROVE  Fits(Spawn(r, kind, key)) /\ SameView(Spawn(r, kind, key), r)
<1>0. TypeFits(r)
    BY DEF Fits, TypeFits
<1>1. PICK job : /\ job \notin r.jobs /\ job.kind = kind /\ job.key = key
                 /\ Spawn(r, kind, key) = [r EXCEPT !.jobs = @ \union {job}]
    BY <1>0, SpawnAddsAJob
<1> DEFINE v == Spawn(r, kind, key)
<1>2. /\ DOMAIN v = DOMAIN NewApp
      /\ v.jobs = u.jobs \union {job}
      /\ v.command = TRUE /\ v.stops = u.stops /\ v.reading = u.reading
      /\ v.settling = u.settling /\ v.relaunch = u.relaunch /\ v.asked = "no"
      /\ SameView(v, r)
    BY <1>0, <1>1 DEF TypeFits, NewApp, SameView
<1> HIDE DEF v
<1>3. Commands(v) = {job}
    BY <1>1, <1>2 DEF Fits, MarksFit, Commands, JobsOf
<1>4. /\ JobsOf(v, "stop") = JobsOf(u, "stop")
      /\ JobsOf(v, "transcript") = JobsOf(u, "transcript")
      /\ JobsOf(v, "chat") = JobsOf(u, "chat")
    BY <1>1, <1>2 DEF JobsOf
<1>5. TypeFits(v)
    BY <1>2, FS_AddElement, ZenonT(60) DEF Fits, TypeFits
<1>6. MarksFit(v)
    BY <1>2, <1>3, <1>4 DEF Fits, MarksFit
<1> QED BY <1>2, <1>5, <1>6 DEF Fits, v

\* A stop is counted and spawned.
LEMMA StopSpawned ==
    ASSUME NEW u, Fits(u), NEW kind \in {"stop"}, NEW key, NEW r, DOMAIN r = DOMAIN u, r.jobs = u.jobs,
           r.command = u.command, r.stops = u.stops + 1, r.reading = u.reading,
           r.settling = u.settling, r.relaunch = u.relaunch, r.asked = u.asked
    PROVE  Fits(Spawn(r, kind, key)) /\ SameView(Spawn(r, kind, key), r)
<1>0. TypeFits(r)
    BY DEF Fits, TypeFits
<1>1. PICK job : /\ job \notin r.jobs /\ job.kind = kind /\ job.key = key
                 /\ Spawn(r, kind, key) = [r EXCEPT !.jobs = @ \union {job}]
    BY <1>0, SpawnAddsAJob
<1> DEFINE v == Spawn(r, kind, key)
<1>2. /\ DOMAIN v = DOMAIN NewApp
      /\ v.jobs = u.jobs \union {job}
      /\ v.command = u.command /\ v.stops = u.stops + 1 /\ v.reading = u.reading
      /\ v.settling = u.settling /\ v.relaunch = u.relaunch /\ v.asked = u.asked
      /\ SameView(v, r)
    BY <1>0, <1>1 DEF TypeFits, NewApp, SameView
<1> HIDE DEF v
<1>3. /\ Commands(v) = Commands(u)
      /\ JobsOf(v, "transcript") = JobsOf(u, "transcript")
      /\ JobsOf(v, "chat") = JobsOf(u, "chat")
      /\ JobsOf(v, "stop") = JobsOf(u, "stop") \union {job} /\ job \notin JobsOf(u, "stop")
    BY <1>1, <1>2 DEF Commands, JobsOf
<1>4. IsFiniteSet(JobsOf(u, "stop"))
    BY FS_Subset DEF Fits, TypeFits, JobsOf
<1>5. Cardinality(JobsOf(v, "stop")) = u.stops + 1
    BY <1>3, <1>4, FS_AddElement DEF Fits, MarksFit
<1>6. TypeFits(v)
    BY <1>2, FS_AddElement DEF Fits, TypeFits
<1>7. MarksFit(v)
    <2>1. \A j : Commands(u) = {j} => j \in v.jobs
        BY <1>2 DEF Commands, JobsOf
    <2> QED BY <1>2, <1>3, <1>5, <2>1 DEF Fits, MarksFit
<1> QED BY <1>2, <1>6, <1>7 DEF Fits, v

\* A job is over, and its mark with it.
LEMMA CommandGone ==
    ASSUME NEW u, Fits(u), NEW job \in Commands(u),
           NEW v, DOMAIN v = DOMAIN u, v.jobs = u.jobs \ {job}, v.command = FALSE,
           v.stops = u.stops, v.reading = u.reading, v.settling = u.settling,
           v.relaunch \in BOOLEAN, v.relaunch = u.relaunch \/ v.asked = u.asked
    PROVE  Fits(v)
<1>1. u.command /\ Commands(u) = {job} /\ ~u.relaunch /\ u.asked = "no"
    BY DEF Fits, MarksFit, Commands
<1>2. job \in u.jobs /\ job.kind \in {"command", "confirmed"}
    BY DEF Commands, JobsOf
<1>3. /\ Commands(v) = {}
      /\ JobsOf(v, "stop") = JobsOf(u, "stop")
      /\ JobsOf(v, "transcript") = JobsOf(u, "transcript")
      /\ JobsOf(v, "chat") = JobsOf(u, "chat")
    BY <1>1, <1>2 DEF Commands, JobsOf
<1>4. TypeFits(v)
    <2>1. IsFiniteSet(v.jobs)
        BY FS_RemoveElement DEF Fits, TypeFits
    <2> QED BY <2>1 DEF Fits, TypeFits
<1> QED BY <1>1, <1>3, <1>4 DEF Fits, MarksFit, TypeFits

LEMMA ReadGone ==
    ASSUME NEW u, Fits(u), NEW job \in u.jobs, job.kind \in {"transcript", "chat"},
           NEW v, DOMAIN v = DOMAIN u, v.jobs = u.jobs \ {job}, v.command = u.command,
           v.stops = u.stops, v.relaunch = u.relaunch, v.asked = u.asked,
           \/ v.reading = None
           \/ v.reading = u.reading /\ (job.kind = "chat" \/ job.key # u.reading),
           v.settling = FALSE \/ (v.settling = u.settling /\ job.kind = "transcript")
    PROVE  Fits(v)
<1>1. /\ Commands(v) = Commands(u)
      /\ JobsOf(v, "stop") = JobsOf(u, "stop")
      /\ job.kind = "chat" => JobsOf(v, "transcript") = JobsOf(u, "transcript")
      /\ job.kind = "transcript" => JobsOf(v, "chat") = JobsOf(u, "chat")
      /\ JobsOf(v, "transcript") = JobsOf(u, "transcript") \ {job}
    BY DEF Commands, JobsOf
<1>2. TypeFits(v)
    BY FS_RemoveElement DEF Fits, TypeFits
<1>3. /\ v.command => \E j \in v.jobs : Commands(v) = {j}
      /\ ~v.command => Commands(v) = {}
    <2>1. \A j : Commands(u) = {j} => j \in v.jobs
        BY DEF Commands, JobsOf
    <2> QED BY <1>1, <2>1 DEF Fits, MarksFit
<1>4. v.reading # None => \E j \in JobsOf(v, "transcript") : j.key = v.reading
    BY <1>1 DEF Fits, MarksFit
<1>5. v.settling => JobsOf(v, "chat") # {}
    BY <1>1 DEF Fits, MarksFit
<1>6. /\ v.stops = Cardinality(JobsOf(v, "stop"))
      /\ v.relaunch => ~v.command /\ v.asked = "no"
      /\ v.asked # "no" => ~v.command
    BY <1>1 DEF Fits, MarksFit
<1> QED BY <1>2, <1>3, <1>4, <1>5, <1>6 DEF Fits, MarksFit

LEMMA StopGone ==
    ASSUME NEW u, Fits(u), NEW job \in JobsOf(u, "stop"),
           NEW v, DOMAIN v = DOMAIN u, v.jobs = u.jobs \ {job}, v.command = u.command,
           v.stops = u.stops - 1, v.reading = u.reading, v.settling = u.settling,
           v.relaunch = u.relaunch, v.asked = u.asked
    PROVE  Fits(v)
<1>1. /\ Commands(v) = Commands(u)
      /\ JobsOf(v, "transcript") = JobsOf(u, "transcript")
      /\ JobsOf(v, "chat") = JobsOf(u, "chat")
      /\ JobsOf(v, "stop") = JobsOf(u, "stop") \ {job}
    BY DEF Commands, JobsOf
<1>2. IsFiniteSet(JobsOf(u, "stop")) /\ Cardinality(JobsOf(u, "stop")) = u.stops /\ u.stops \in Nat
    BY FS_Subset DEF Fits, TypeFits, MarksFit, JobsOf
<1>3. Cardinality(JobsOf(v, "stop")) = u.stops - 1 /\ u.stops - 1 \in Nat
    <2>1. Cardinality(JobsOf(v, "stop")) = u.stops - 1
        BY <1>1, <1>2, FS_RemoveElement
    <2>2. Cardinality(JobsOf(v, "stop")) \in Nat
        BY <1>1, <1>2, FS_RemoveElement, FS_CardinalityType
    <2> QED BY <2>1, <2>2
<1>4. TypeFits(v)
    BY <1>3, FS_RemoveElement DEF Fits, TypeFits
<1>5. /\ v.command => \E j \in v.jobs : Commands(v) = {j}
      /\ ~v.command => Commands(v) = {}
    <2>1. \A j : Commands(u) = {j} => j \in v.jobs
        BY DEF Commands, JobsOf
    <2> QED BY <1>1, <2>1 DEF Fits, MarksFit
<1>6. MarksFit(v)
    BY <1>1, <1>3, <1>5 DEF Fits, MarksFit
<1> QED BY <1>4, <1>6 DEF Fits

-----------------------------------------------------------------------------
(* The steps.                                                              *)

\* App at the start, and when the process has ended.
LEMMA NewAppFits == Fits(NewApp) /\ Fits([NewApp EXCEPT !.quit = TRUE])
<1>1. Fits(NewApp)
    <2>1. TypeFits(NewApp)
        BY FS_EmptySet DEF TypeFits, NewApp
    <2>2. MarksFit(NewApp)
        BY FS_EmptySet DEF MarksFit, Commands, JobsOf, NewApp
    <2> QED BY <2>1, <2>2 DEF Fits
<1> DEFINE v == [NewApp EXCEPT !.quit = TRUE]
<1>2. /\ DOMAIN v = DOMAIN NewApp /\ v.jobs = NewApp.jobs /\ v.command = NewApp.command
      /\ v.stops = NewApp.stops /\ v.reading = NewApp.reading /\ v.settling = NewApp.settling
      /\ v.relaunch = NewApp.relaunch /\ v.asked = NewApp.asked
    BY DEF NewApp
<1> HIDE DEF v
<1> QED BY <1>1, <1>2, Untouched DEF v

\* What IInv says of App after a step.
Done == Fits(ui') /\ ShownFits(ui')

\* A key that only moves about: the marks stay, and the Sessions screen is
\* not entered.
LEMMA MovedAbout ==
    ASSUME IInv, DOMAIN ui' = DOMAIN ui, ui'.jobs = ui.jobs, ui'.command = ui.command,
           ui'.stops = ui.stops, ui'.reading = ui.reading, ui'.settling = ui.settling,
           ui'.relaunch = ui.relaunch, ui'.asked = ui.asked,
           ui'.list = ui.list, ui'.cursor = ui.cursor, ui'.transcript = ui.transcript,
           ui'.screen = ui.screen \/ ui'.screen # "sessions"
    PROVE  Done
<1>1. Fits(ui')
    BY Untouched DEF IInv, Fits
<1>2. ShownFits(ui')
    BY DEF IInv, ShownFits, Wanted
<1> QED BY <1>1, <1>2 DEF Done

LEMMA KeysFit ==
    ASSUME IInv, Key
    PROVE  Done
<1>0. Fits(ui) /\ ShownFits(ui) /\ DOMAIN ui = DOMAIN NewApp
    BY DEF IInv, Fits, TypeFits
<1>1. ASSUME NEW v, DOMAIN v = DOMAIN ui,
             v.jobs = ui.jobs, v.command = ui.command, v.stops = ui.stops, v.reading = ui.reading,
             v.settling = ui.settling, v.relaunch = ui.relaunch, v.asked = ui.asked
      PROVE  Fits(v)
    BY <1>0, <1>1, Untouched
<1>2. CASE SayYes
    <2> DEFINE key == [id |-> 0, entries |-> IF ui.asked = "relaunching" THEN 1 ELSE 0]
               r == [ui EXCEPT !.asked = "no", !.command = TRUE]
    <2>1. ui' = Spawn(r, "confirmed", key) /\ ~ui.command /\ ~ui.relaunch
        BY <1>0, <1>2 DEF SayYes, Only, Fits, MarksFit
    <2>2. /\ DOMAIN r = DOMAIN ui /\ r.jobs = ui.jobs /\ r.command = TRUE /\ r.stops = ui.stops
          /\ r.reading = ui.reading /\ r.settling = ui.settling /\ r.relaunch = ui.relaunch
          /\ r.asked = "no" /\ SameView(r, ui)
        BY <1>0 DEF NewApp, SameView
    <2> HIDE DEF key, r
    <2>3. Fits(ui') /\ SameView(ui', r)
        BY <1>0, <2>1, <2>2, CommandSpawned
    <2>4. ShownFits(ui')
        BY <1>0, <2>2, <2>3, SameShown
    <2> QED BY <2>3, <2>4 DEF Done
<1>3. CASE SayNo
    <2>1. ui' = [ui EXCEPT !.asked = "no"]
        BY <1>3 DEF SayNo, Only
    <2>2. TypeFits(ui') /\ MarksFit(ui') /\ SameView(ui', ui)
        BY <1>0, <2>1 DEF Fits, TypeFits, MarksFit, Commands, JobsOf, NewApp, SameView
    <2> QED BY <1>0, <2>2, SameShown DEF Done, Fits
<1>4. CASE PaneAction
    <2>1. ASSUME NEW r, r = [ui EXCEPT !.bar = FALSE, !.screen = "sessions"], ui' = Sync(r)
          PROVE  Done
        <3>1. Fits(r)
            BY <1>0, <1>1, <2>1 DEF NewApp
        <3> QED BY <2>1, <3>1, SyncFits DEF Done
    <2>2. CASE \E bar \in {FALSE, ~ui.bar} :
                 Only([ui EXCEPT !.bar = bar, !.screen = IF bar THEN @ ELSE "overview"])
        BY <1>0, <2>2, MovedAbout DEF Only, NewApp
    <2>3. CASE Only([ui EXCEPT !.bar = TRUE])
        BY <1>0, <2>3, MovedAbout DEF Only, NewApp
    <2>4. CASE Only([ui EXCEPT !.bar = FALSE, !.screen = "overview"])
        BY <1>0, <2>4, MovedAbout DEF Only, NewApp
    <2>5. CASE Only(Sync([ui EXCEPT !.bar = FALSE, !.screen = "sessions"]))
        BY <2>1, <2>5 DEF Only
    <2>6. CASE Only([ui EXCEPT !.bar = TRUE, !.screen = "chat"])
        BY <1>0, <2>6, MovedAbout DEF Only, NewApp
    <2>7. CASE ~ui.bar /\ Only([ui EXCEPT !.screen = "overview"])
        BY <1>0, <2>7, MovedAbout DEF Only, NewApp
    <2> QED BY <1>4, <2>2, <2>3, <2>4, <2>5, <2>6, <2>7 DEF PaneAction
<1>5. CASE Quit
    <2>1. ui' = [NewApp EXCEPT !.quit = TRUE]
        BY <1>5 DEF Quit
    <2>2. ui'.screen # "sessions"
        BY <2>1 DEF NewApp
    <2> QED BY <2>1, <2>2, NewAppFits DEF Done, ShownFits
<1>6. CASE MoveSelection
    <2>1. PICK next : ui' = Sync([ui EXCEPT !.cursor = next])
        BY <1>6 DEF MoveSelection
    <2> DEFINE r == [ui EXCEPT !.cursor = next]
    <2>2. Fits(r)
        BY <1>0, <1>1 DEF NewApp
    <2> HIDE DEF r
    <2>3. Fits(Sync(r)) /\ ShownFits(Sync(r))
        BY <2>2, SyncFits
    <2> QED BY <2>1, <2>3 DEF Done, r
<1>7. CASE Command
    <2> DEFINE r == [ui EXCEPT !.command = TRUE]
    <2>1. ui' = Spawn(r, "command", None) /\ ~ui.command /\ ~ui.relaunch /\ ui.asked = "no"
        BY <1>7 DEF Command, RunCommand, Refuses, Free
    <2>2. /\ DOMAIN r = DOMAIN ui /\ r.jobs = ui.jobs /\ r.command = TRUE /\ r.stops = ui.stops
          /\ r.reading = ui.reading /\ r.settling = ui.settling /\ r.relaunch = ui.relaunch
          /\ r.asked = "no" /\ SameView(r, ui)
        BY <1>0, <2>1 DEF NewApp, SameView
    <2> HIDE DEF r
    <2>3. Fits(ui') /\ SameView(ui', r)
        BY <1>0, <2>1, <2>2, CommandSpawned
    <2>4. ShownFits(ui')
        BY <1>0, <2>2, <2>3, SameShown
    <2> QED BY <2>3, <2>4 DEF Done
<1>8. CASE SendMessage
    <2>1. PICK n, session :
            ui' = [ui EXCEPT !.turn = n, !.session = session, !.pending = n]
        BY <1>8 DEF SendMessage
    <2> QED BY <1>0, <2>1, MovedAbout DEF NewApp
<1>9. CASE ChatNew
    <2>1. ui' = [ui EXCEPT !.session = 0]
        BY <1>9 DEF ChatNew, Only
    <2> QED BY <1>0, <2>1, MovedAbout DEF NewApp
<1>10. CASE ChatEsc
    <2>1. CASE ui' = [ui EXCEPT !.screen = "overview", !.bar = FALSE]
        BY <1>0, <2>1, MovedAbout DEF NewApp
    <2>2. CASE ui' = ui
        BY <1>0, <2>2 DEF Done
    <2>3. CASE ui' = Spawn([ui EXCEPT !.stops = @ + 1], "stop", None)
        <3> DEFINE r == [ui EXCEPT !.stops = @ + 1]
        <3>1. /\ DOMAIN r = DOMAIN ui /\ r.jobs = ui.jobs /\ r.command = ui.command
              /\ r.stops = ui.stops + 1 /\ r.reading = ui.reading /\ r.settling = ui.settling
              /\ r.relaunch = ui.relaunch /\ r.asked = ui.asked /\ SameView(r, ui)
            BY <1>0 DEF NewApp, SameView
        <3> HIDE DEF r
        <3>2. Fits(Spawn(r, "stop", None)) /\ SameView(Spawn(r, "stop", None), r)
            BY <1>0, <3>1, StopSpawned
        <3>3. ui' = Spawn(r, "stop", None)
            BY <2>3 DEF r
        <3>4. ShownFits(ui')
            BY <1>0, <3>1, <3>2, <3>3, SameShown
        <3> QED BY <3>2, <3>3, <3>4 DEF Done
    <2> QED BY <1>10, <2>1, <2>2, <2>3 DEF ChatEsc, Only
<1> QED BY <1>2, <1>3, <1>4, <1>5, <1>6, <1>7, <1>8, <1>9, <1>10 DEF Key

LEMMA AnswersFit ==
    ASSUME IInv, Answer
    PROVE  Done
<1>0. Fits(ui) /\ ShownFits(ui) /\ DOMAIN ui = DOMAIN NewApp /\ ui.relaunch \in BOOLEAN
    BY DEF IInv, Fits, TypeFits
<1>1. CASE CommandAnswers
    <2>1. PICK job \in ui.jobs, asked \in {"no", "plain", "relaunching"} :
            /\ job.kind = "command"
            /\ ui' = [Without(job) EXCEPT !.command = FALSE,
                                         !.asked = IF asked = "no" THEN @ ELSE asked]
        BY <1>1 DEF CommandAnswers, Only
    <2>2. job \in Commands(ui)
        BY <2>1 DEF Commands, JobsOf
    <2>3. /\ DOMAIN ui' = DOMAIN ui /\ ui'.jobs = ui.jobs \ {job} /\ ui'.command = FALSE
          /\ ui'.stops = ui.stops /\ ui'.reading = ui.reading /\ ui'.settling = ui.settling
          /\ ui'.relaunch = ui.relaunch /\ SameView(ui', ui)
        BY <1>0, <2>1 DEF Without, NewApp, SameView
    <2>4. Fits(ui')
        BY <1>0, <2>2, <2>3, CommandGone
    <2> QED BY <1>0, <2>3, <2>4, SameShown DEF Done
<1>2. CASE ConfirmedAnswers
    <2>1. PICK job \in ui.jobs :
            /\ job.kind = "confirmed"
            /\ \E relaunch \in {FALSE, job.key.entries = 1 /\ used.composed < MaxRelaunches} :
                 Only([Without(job) EXCEPT !.command = FALSE, !.relaunch = @ \/ relaunch])
        BY <1>2 DEF ConfirmedAnswers
    <2>2. PICK relaunch :
            ui' = [Without(job) EXCEPT !.command = FALSE, !.relaunch = @ \/ relaunch]
        BY <2>1 DEF Only
    <2>3. job \in Commands(ui)
        BY <2>1 DEF Commands, JobsOf
    <2>4. /\ DOMAIN ui' = DOMAIN ui /\ ui'.jobs = ui.jobs \ {job} /\ ui'.command = FALSE
          /\ ui'.stops = ui.stops /\ ui'.reading = ui.reading /\ ui'.settling = ui.settling
          /\ ui'.relaunch \in BOOLEAN /\ ui'.asked = ui.asked /\ SameView(ui', ui)
        BY <1>0, <2>2 DEF Without, NewApp, SameView
    <2>5. Fits(ui')
        BY <1>0, <2>3, <2>4, CommandGone
    <2> QED BY <1>0, <2>4, <2>5, SameShown DEF Done
<1>3. CASE TranscriptAnswers
    <2>1. PICK job \in ui.jobs :
            /\ job.kind = "transcript"
            /\ \/ ui' = Shows([Without(job) EXCEPT !.reading = IF @ = job.key THEN None ELSE @],
                             job.key)
               \/ ui' = [Without(job) EXCEPT !.reading = None]
        BY <1>3 DEF TranscriptAnswers, Only
    <2>2. ASSUME NEW v, DOMAIN v = DOMAIN ui, v.jobs = ui.jobs \ {job}, v.command = ui.command,
                 v.stops = ui.stops, v.relaunch = ui.relaunch, v.asked = ui.asked,
                 v.settling = ui.settling,
                 \/ v.reading = None
                 \/ v.reading = ui.reading /\ job.key # ui.reading
          PROVE  Fits(v)
        <3>1. job.kind \in {"transcript", "chat"}
            BY <2>1
        <3>2. \/ v.reading = None
              \/ v.reading = ui.reading /\ (job.kind = "chat" \/ job.key # ui.reading)
            BY <2>2
        <3>3. v.settling = FALSE \/ (v.settling = ui.settling /\ job.kind = "transcript")
            BY <2>1, <2>2
        <3> QED BY <1>0, <2>2, <3>1, <3>2, <3>3, ReadGone
    <2>3. CASE ui' = [Without(job) EXCEPT !.reading = None]
        <3>1. Fits(ui')
            BY <1>0, <2>2, <2>3 DEF Without, NewApp
        <3>2. SameView(ui', ui)
            BY <1>0, <2>3 DEF Without, NewApp, SameView
        <3> QED BY <1>0, <3>1, <3>2, SameShown DEF Done
    <2>4. CASE ui' = Shows([Without(job) EXCEPT !.reading = IF @ = job.key THEN None ELSE @],
                           job.key)
        <3> DEFINE v == [Without(job) EXCEPT !.reading = IF @ = job.key THEN None ELSE @]
        <3>1. Fits(v)
            BY <1>0, <2>2 DEF Without, NewApp
        <3> HIDE DEF v
        <3>2. CASE Wanted(v) = job.key
            <4>1. ui' = [v EXCEPT !.transcript = job.key]
                BY <2>4, <3>2 DEF Shows, v
            <4>2. DOMAIN v = DOMAIN NewApp
                BY <3>1 DEF Fits, TypeFits
            <4>3. Fits(ui')
                BY <3>1, <4>1, <4>2, Untouched DEF NewApp
            <4>4. ui'.transcript = Wanted(ui')
                BY <3>2, <4>1, <4>2 DEF Wanted, NewApp
            <4> QED BY <4>3, <4>4 DEF Done, ShownFits
        <3>3. CASE Wanted(v) # job.key
            <4>1. ui' = Sync(v)
                BY <2>4, <3>3 DEF Shows, v
            <4> QED BY <3>1, <4>1, SyncFits DEF Done
        <3> QED BY <3>2, <3>3
    <2> QED BY <2>1, <2>3, <2>4
<1>4. CASE ChatAnswers
    <2>1. PICK job \in ui.jobs : job.kind = "chat" /\ ui' = FinishReply(Without(job))
        BY <1>4 DEF ChatAnswers, Only
    <2>2. /\ DOMAIN ui' = DOMAIN ui /\ ui'.jobs = ui.jobs \ {job} /\ ui'.command = ui.command
          /\ ui'.stops = ui.stops /\ ui'.reading = ui.reading /\ ui'.settling = FALSE
          /\ ui'.relaunch = ui.relaunch /\ ui'.asked = ui.asked /\ SameView(ui', ui)
        BY <1>0, <2>1 DEF FinishReply, Without, NewApp, SameView
    <2>3. Fits(ui')
        <3>1. job.kind \in {"transcript", "chat"}
            BY <2>1
        <3>2. \/ ui'.reading = None
              \/ ui'.reading = ui.reading /\ (job.kind = "chat" \/ job.key # ui.reading)
            BY <2>1, <2>2
        <3>3. ui'.settling = FALSE \/ (ui'.settling = ui.settling /\ job.kind = "transcript")
            BY <2>2
        <3> QED BY <1>0, <2>2, <3>1, <3>2, <3>3, ReadGone
    <2> QED BY <1>0, <2>2, <2>3, SameShown DEF Done
<1>5. CASE StopAnswers
    <2>1. PICK job \in ui.jobs, died \in BOOLEAN :
            job.kind = "stop" /\ ui' = Stopped(Without(job), died)
        BY <1>5 DEF StopAnswers, Only
    <2>2. job \in JobsOf(ui, "stop")
        BY <2>1 DEF JobsOf
    <2>3. /\ DOMAIN ui' = DOMAIN ui /\ ui'.jobs = ui.jobs \ {job} /\ ui'.command = ui.command
          /\ ui'.stops = ui.stops - 1 /\ ui'.reading = ui.reading /\ ui'.settling = ui.settling
          /\ ui'.relaunch = ui.relaunch /\ ui'.asked = ui.asked /\ SameView(ui', ui)
        BY <1>0, <2>1 DEF Stopped, Without, NewApp, SameView
    <2>4. Fits(ui')
        BY <1>0, <2>2, <2>3, StopGone
    <2> QED BY <1>0, <2>3, <2>4, SameShown DEF Done
<1> QED BY <1>1, <1>2, <1>3, <1>4, <1>5 DEF Answer

LEMMA NextIInv ==
    ASSUME IInv, [Next]_vars
    PROVE  IInv'
<1>0. Fits(ui) /\ ShownFits(ui) /\ DOMAIN ui = DOMAIN NewApp
    BY DEF IInv, Fits, TypeFits
<1> SUFFICES Done
    BY DEF Done, Fits, IInv
<1>1. CASE Key
    BY <1>1, KeysFit
<1>2. CASE Answer
    BY <1>2, AnswersFit
<1>3. CASE TurnEnds
    <2>1. ui' = ui \/ ui' = Refresh([ui EXCEPT !.turn = 0])
        BY <1>3 DEF TurnEnds
    <2> DEFINE r == [ui EXCEPT !.turn = 0]
    <2>2. Fits(r) /\ SameView(r, ui)
        BY <1>0, Untouched DEF NewApp, SameView
    <2> HIDE DEF r
    <2>3. Fits(Refresh(r)) /\ ShownFits(Refresh(r))
        BY <1>0, <2>2, SameShown, RefreshFits
    <2> QED BY <1>0, <2>1, <2>3 DEF Done, r
<1>4. CASE StartRead
    BY <1>0, <1>4 DEF StartRead, Done
<1>5. CASE HandOver
    <2>1. PICK rows :
            LET u == [ui EXCEPT !.list = rows]
            IN  ui' = IF rows # ui.list /\ ui.screen = "sessions" THEN Sync(u) ELSE u
        BY <1>5 DEF HandOver
    <2> DEFINE u == [ui EXCEPT !.list = rows]
    <2>2. Fits(u)
        BY <1>0, Untouched DEF NewApp
    <2>3. CASE rows # ui.list /\ ui.screen = "sessions"
        <3>1. ui' = Sync(u)
            BY <2>1, <2>3
        <3> HIDE DEF u
        <3> QED BY <2>2, <3>1, SyncFits DEF Done
    <2>4. CASE ~(rows # ui.list /\ ui.screen = "sessions")
        <3>1. ui' = u
            BY <2>1, <2>4
        <3>2. ShownFits(u)
            BY <1>0, <2>4 DEF ShownFits, Wanted, NewApp
        <3> HIDE DEF u
        <3> QED BY <2>2, <3>1, <3>2 DEF Done
    <2> QED BY <2>3, <2>4
<1>6. CASE Relaunch
    <2> DEFINE u == [ui EXCEPT !.jobs = {}, !.transcript = None, !.asked = "no",
                               !.relaunch = FALSE]
    <2>1. ui' = u \/ ui' = Refresh(u)
        BY <1>6 DEF Relaunch
    <2>2. ~ui.command /\ ui.reading = None /\ ~ui.settling /\ ~(ui.stops > 0)
        BY <1>6 DEF Relaunch, Due, IsBusy
    <2>3. /\ DOMAIN u = DOMAIN NewApp /\ u.jobs = {} /\ u.command = FALSE /\ u.stops = 0
          /\ u.reading = None /\ u.settling = FALSE /\ u.relaunch = FALSE /\ u.asked = "no"
          /\ u.transcript = None
        BY <1>0, <2>2 DEF NewApp, Fits, TypeFits
    <2> HIDE DEF u
    <2>4. Fits(u) /\ ShownFits(u)
        <3>1. TypeFits(u)
            <4>1. u.command \in BOOLEAN /\ u.settling \in BOOLEAN /\ u.relaunch \in BOOLEAN
                BY <2>3
            <4>2. IsFiniteSet(u.jobs)
                BY <2>3, FS_EmptySet
            <4> QED BY <2>3, <4>1, <4>2 DEF TypeFits
        <3>2. Commands(u) = {} /\ \A kind : JobsOf(u, kind) = {}
            BY <2>3 DEF Commands, JobsOf
        <3>3. MarksFit(u)
            BY <2>3, <3>2, FS_EmptySet DEF MarksFit
        <3>4. ShownFits(u)
            BY <2>3 DEF ShownFits
        <3> QED BY <3>1, <3>3, <3>4 DEF Fits
    <2> QED BY <2>1, <2>4, RefreshFits DEF Done
<1>7. CASE UNCHANGED vars
    BY <1>0, <1>7 DEF vars, Done
<1> QED BY <1>1, <1>2, <1>3, <1>4, <1>5, <1>6, <1>7 DEF Next

-----------------------------------------------------------------------------
(* The theorems.                                                           *)

\* The books of App agree in every state that its loop can reach.
THEOREM UiInvariant == Spec => []IInv
<1>1. Init => IInv
    <2> SUFFICES ASSUME Init PROVE IInv
        OBVIOUS
    <2>1. ui = NewApp
        BY DEF Init
    <2>2. ui.screen # "sessions"
        BY <2>1 DEF NewApp
    <2> QED BY <2>1, <2>2, NewAppFits DEF IInv, Fits, ShownFits
<1>2. IInv /\ [Next]_vars => IInv'
    BY NextIInv
<1> QED BY <1>1, <1>2, PTL DEF Spec

\* Every mark of App stands for the jobs that will take it back, however many
\* commands, stops and reads the person has asked for (App::is_busy).
THEOREM MarksAreTrue == Spec => []MarksHaveJobs
<1>1. IInv => MarksHaveJobs
    <2> SUFFICES ASSUME IInv PROVE MarksHaveJobs
        OBVIOUS
    <2>1. \A kind : Jobs(kind) = JobsOf(ui, kind)
        BY DEF Jobs, JobsOf
    <2>2. ui.command <=> Cardinality(Commands(ui)) = 1
        <3>1. CASE ui.command
            BY <3>1, FS_Singleton DEF IInv, MarksFit
        <3>2. CASE ~ui.command
            BY <3>2, FS_EmptySet DEF IInv, MarksFit
        <3> QED BY <3>1, <3>2
    <2> QED BY <2>1, <2>2 DEF MarksHaveJobs, IInv, MarksFit, Commands
<1> QED BY <1>1, UiInvariant, PTL

\* The conversation on the Sessions screen is the selected session's, in
\* whatever order reads, lists and moves of the selection arrive
\* (sync_transcript).
THEOREM ShownIsOfSelected == Spec => []ShownIsSelected
<1>1. IInv => ShownIsSelected
    BY DEF IInv, ShownFits, ShownIsSelected
<1> QED BY <1>1, UiInvariant, PTL

=============================================================================
