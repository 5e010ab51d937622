# Cronus: verification project

Cronus is an AI "office" that runs on one machine: several frontends (a command
line, a terminal UI, a desktop shell) share one *engine* per state root, which
dispatches *invocables* (verbs) registered by the core and by extensions, talks
to a model, keeps journals, a board and a memory, runs workflows and loops, and
lets the installation be changed ("recomposed") only while no work depends on
it. This project models the part of it in which processes, threads, files,
sockets and people meet: who is the engine, how a frontend reaches it, what runs
at once, what a crash or a refusal leaves behind, and when the installation may
change. TLC checks the models on small instances; TLAPS proves, for every
instance, every safety property the runs check but two: of the protocols
everything else rests on (gate, seat, server, streamed results, turns, model
client, dispatcher, registry), of the terminal UI's bookkeeping, of workflows,
loops, router and log, and of what is kept in files and databases.

Paths below are relative to `src/crates/` unless they start with `.design/`.

## 1. Inventory

### Modelled

| Component | State | Operations | What is hard, and what makes it correct |
|---|---|---|---|
| **Work lock, ledger, recompose gate** `core/src/endpoint/{worklock,ledger,mod}.rs`, `core/src/installation/{gate,registration}.rs`, `cli/src/installation.rs` | a reader-writer file lock per state root; a list of running work per process; what each root's files say | `begin_work_in`, drop of `WorkGuard`, `gate::begin/begin_for/check_for`, apply, release, process death | Work takes two locks in turn; several processes; guards dropped field by field. No change may be applied to what running work is built from, and no lock may leak. |
| **Engine seat and roles** `core/src/endpoint/{seat,mod}.rs` | the seat lock, the record file, listeners, what each joiner has read | `claim`, `join`, `attach_or_stand_alone`, `EngineHost::serve`, `publish`, drops, exit, death | Lock, removal, bind and rename are separate steps; records outlive their writers. One engine, one listener, findable, never joined by another release; joins end. |
| **Endpoint server** `core/src/endpoint/server.rs` with `client.rs` | the connection count, the list of live sockets, the stop flag, each connection's place | accept, list, spawn, serve, unlist, give back, drop of the server | A counter shared by threads, steps that fail half-way, a drop that joins a blocked thread. The limit holds, places come back once, clients are settled. |
| **Streamed results** `domain/src/invocable/stream.rs`, `core/src/endpoint/spoke.rs` | two channels, two hold-backs, a connection | write, relay, pump, subscribe, settle, break | The connection or the engine may go between two frames. The surface sees a prefix in order, a result only after all of it, and always an end. |
| **Masking** `domain/src/redact.rs`, `stream.rs` | the tail held back | take a chunk, flush | A secret cut by a chunk boundary. |
| **Invocable registry and dispatcher** `domain/src/invocable/{registry,dispatch}.rs` | the catalog, bare names, identities; the dispatch journal, handler threads | register, dispose, notify; resolve, enter, bind, run, time out, settle | Refusals half-way through, disposals in any order; time bounds that race answers, handlers left behind, a failing journal. |
| **Session journal, chat turn** `domain/src/session/{writer,journal,chat}.rs` | the file, each turn's writer | read, create, open, mend, close, append, die | Torn lines, lines without newline, a reply that never came. One chain of entries; what was acknowledged is kept. |
| **session.say / session.stop** `core/src/invocable_bootstrap/session.rs`, `domain/src/paths.rs` | `IN_FLIGHT`, cancel flags, the work each turn holds | begin, register, spawn, run, stop, drops | The handler returns while its thread goes on; entries are removed by session. |
| **Local model client** `model-local/src/lib.rs` | the connection, the line being read, the event being assembled, a bounded channel | connect, head, read, timeout, send, pull, cancel, drop | Lines arrive in halves, timeouts fall between them, the channel fills. The caller sees what was sent, and a cancelled call ends. |
| **Terminal UI loop** `tui/src/{app,work,installation,dispatch}.rs` | marks of work under way, the selected session, what is shown, a relaunch that is due | keys, commands and their confirmation, chat turns, transcripts, stops, snapshots, relaunch | Answers come in any order or never (a panicked job). No mark outlives its job, what is shown is what is selected, a relaunch comes. |
| **Kanban board** `domain/src/kanban/mod.rs`, `core/src/invocable_bootstrap/board.rs` | card files, the event log, the archive | create, move, claim, block, archive, ... | Read-decide-rewrite with no lock; a verb dies between card and event. |
| **Memory store** `store-local/src/memory/{store,consolidate,maintenance,capture}.rs` | rows, edges, chains, the watermark | capture, consolidation pass, correct, refine, merge, summarise, archive | Several statements without a transaction; one input fails while a later one commits. |
| **Schema of a database** `store-local/src/versioning.rs` | `user_version`, the tables, safety copies | `open_schema`: baseline, migration steps, copy, stamp | Builds of several versions, a build that dies anywhere. The stamp tells the shape. |
| **Catalogs** `domain/src/{extensions/mod,agent_registry}.rs`, `core/src/installation/carry_out/{catalogs,recompose}.rs` | `extensions/registry.json`, its staged sibling, `agents/registry.json` | ext.add/activate/deactivate, registry.create/enable/disable | Load, change, write the whole; verbs without a gate overlap; one file is written in place. |
| **Background activation** `domain/src/activation.rs`, `activation-os/src/{lib,linux_calls}.rs`, `carry_out.rs` | the user unit or autostart entry, the system unit, lingering | enable, disable, from the command line and from a surface | Every command may fail or be refused by a person; nothing is rolled back. No success that is not real. |
| **Backup** `domain/src/backup.rs`, `carry_out.rs`, `carry_out/recompose.rs` | the tier's files, staging and listed directories | create, list, restore | Copied file by file while files change; names made of a second. |
| **Loop runner** `domain/src/loop_runner/*.rs` | iteration, streak, ledger, committed changes; generations | run_execution inside run_evolution, governor | Ceilings, stalls, refusals; what is committed was declared and recorded. |
| **Model router** `domain/src/router/*.rs` | circuits, cool-downs, credentials | route, record success/failure, recover | Reports in any order; asking changes the answer. |
| **Nodus executor** `nodus/src/{executor,workflows,validator}.rs` | a stack of frames, errors, effects to undo, rules | statements, retries, branches, loops, parallel blocks, ~MAP, handler, unwinding, restart, dialog | Errors, rules and undoing across every construct. |
| **Diagnostic log** `core/src/diagnostics/{mod,rotate}.rs` | the held run, the queue, the file family | record, release, drop, notice, write, rotate | A full queue, failing file operations, a process that goes quiet. |

How they meet: a frontend *joins* (EngineSeat); if it becomes a spoke, each
invocation is one connection to the engine's *server* (EndpointServer), whose
thread *dispatches* it (InvocableDispatch over InvocableRegistry); a streaming
answer goes through a hub, the connection and a second hub (StreamRelay,
StreamMask); `session.say` is such a handler (SessionTurns), takes *work* from
the gate (WorkGate), calls the model (ModelStream) and appends to a *journal*
(SessionJournal); the terminal UI (TerminalUi) is one of the surfaces that ask.
The verbs that change the installation go through the gate, or, where they only
add, past it (Catalogs, Backup, Activation). Board, memory, workflows and loops
are works of their own over files of their own.

### Not modelled

`PROJECT.json` lists every component with its sources and the reason. In short:

- *No control of its own to model*: scoring, ranking and embedding (floating
  point), text classification by pattern (tool security, egress), the lexer,
  parser, transpiler and most of the validator of Nodus (text transformation),
  presentation (`tui/src/view.rs`, printing, argument parsing), contract types,
  the JSON wire encoding (a round trip of data), key stores and cryptography
  (operating system), the repository's test equipment (simulation, conformance).
- *Reached by no verb yet*: the agent session loop (`session/turn.rs`), one-shot
  schedules and whatever would fire due ones, the staged import of
  `agent_migration.rs` (its sinks have no implementation), the consent ledger.
- *Sequential policies left for later*: mission, office and budget control,
  roles and archetypes, tool receipts, the workspace registry, hot reload,
  doctor, the knowledge and wiki stores.

Of the 105,000 implementation lines about 40,000 are unit tests inside the source
files, and most of the rest is of the first kind; what the map covers is the part
in which something can happen in more than one order.

## 2. Modules

Every module names its source files in its header; `PROJECT.json` maps every
definition to its lines. Program points are the strings of a `step`, `pc` or
`place`; each file, lock, socket, statement or mutex operation of the code that
another actor can come between is one action. Operators named `X_Something`,
commented "Mutation of X", are wrong variants of `X`: each property of a run is
refuted by one of them, which shows that it depends on the code it is about.

- **WorkGate** (instance: MCWorkGate). `BeginWork`, `ShareMachine`,
  `EnterLedger` are the three steps of `begin_work_in`; `EndWork`,
  `DropRootShare`, `DropMachineShare` the guard's drop in field order;
  `AskGate`, `AnswerBusy`, `ApplyChange`, `ReleaseGate` a recomposing request by
  its three paths (a handler, the command line's `dispatch_leaf`, a surface's
  `check_for`); `Crash` the end of a process. What the verb writes is one value
  per root (`stored`).
- **EngineSeat** (instance: MCEngineSeat) and **EngineElection**, the abstract
  specification it implements: one process serves at a time, each term is new, a
  process attaches only to the one serving and of its own release. The token in
  a record stands for address and token.
- **EndpointServer**. The accept thread (`Accept`, `List`, `Spawn`, `EndAccept`),
  the connection's thread (`ServeConnection`, `Unlist`, `GiveBack`), `Drop for
  Server` (`StopServer`, `CloseLive`), the client. `Faults` says which failures
  the environment may inject, among them that the server being dropped cannot
  connect to itself to wake its accept. What is asked and answered is abstracted.
- **StreamRelay** and **ResultStream**, the promise it implements: pieces in
  order, the result only after all of them, else "unavailable".
- **StreamMask**: `redact` and the hold-back over sequences of letters. Letters
  are one byte each; the cut at character boundaries is not modelled.
- **InvocableRegistry**, **InvocableDispatch**: descriptors are their ids;
  whether one is valid, granted, bound is an input. A core handler runs on the
  caller's thread, a contribution's on its own with a time bound. Whether the
  dispatcher has a journal (`journaled`) is an input too: no code but tests sets
  one today, so what is claimed of the journal is a claim about those that will.
- **SessionJournal**: the file is a sequence of lines and a flag for a missing
  last newline; `CutShort` is every file a cut write can leave. `OneAtATime`
  says whether turns of the session may overlap.
- **SessionTurns**: the gate is reduced to the exclusion WorkGate establishes.
- **ModelStream**: a line is two halves and a newline, so reads cut and join
  lines in every way; both workers (completion and progress), the bounded
  channel, the read timeout that looks at the cancel flag.
- **TerminalUi**: a step is one thing a tick takes up. What the person types is
  any line; panels are one.
- **KanbanBoard**: a rewrite is two steps, emptied and filled.
- **MemoryStore**: consolidation, capture and refinement statement by statement
  (find, insert, cite, trust, record, cross-references), each of which may fail
  with what the earlier ones wrote staying; what the code wraps in a transaction
  is one step. The row a pass makes is the row it read under a new id and depth,
  so it takes over `superseded_at` and the lifecycle state; the values of
  `superseded` tell apart what the code does not: "corrected" by `correct`,
  "inherited" from the row it was made of.
- **SchemaVersions**: a table remembers at which version it was made and how
  often each step changed it, so that "the shape of version v" is a statement
  about its history. The ghost variables `raced` and `adopted` record whether
  two processes changed the file at once and whether a build has taken unstamped
  tables of another version for its own.
- **Catalogs**: both registries, each file operation a step; a file is absent,
  whole or torn, and an open file follows a rename, as on the systems the
  program runs on. A definition is the program's own or one that people made,
  under their own name or a built-in's, and is enabled or not.
- **Activation**: what is registered is only what the operating system shows
  (`Observed`); a transition is a row of commands, each with its refusal. Hosts
  are with systemd, with logind alone (elogind: lingering can be set and seen,
  but there is nothing to start) or bare.
- **Backup**: creators of the same second share their names; a restore copies
  back file by file.
- **LoopRunner**, **ModelRouter**, **NodusExecutor**, **DiagnosticLog**: see
  their headers; scores count only as zero or positive, conditions may go either
  way at each evaluation, the answers of models, people and policies are inputs.
- **WorkGateProofs**, **EngineSeatProofs**, **EndpointProofs**,
  **InvocablesProofs**, **TurnsProofs**, **TerminalUiProofs**,
  **BackgroundProofs**, **StoresProofs**: the theorems (section 4).
- **MCEndpoint**, **MCInvocables**, **MCTurns**, **MCBackground**, **MCStores**
  (and MCNodusExecutor, the workflows): instances for TLC. Components of one
  area that share no state are checked in one run: a behaviour is of one *part*,
  chosen at the start, and the other parts stay as they begin, so the run
  explores the sum of the state spaces and never their product, and every
  property is of one part or a conjunction of properties of several. The .cfg
  files give the constants their values, so that a theorem about such a
  composition is about every value of them.

## 3. Runs

### Passing

| Run | Instance | Shows |
|---|---|---|
| `work_gate` | 2 processes, 2 workers, 2 changers, a workspace and the machine root (222,066 states) | `ChangesAreExclusive`: no work runs under a change that alters it, except under a machine-wide verb of the command line, and one change of a workspace is applied at a time. `LocksAreTrue`: locks are held exactly where the programs say, and what a ledger names holds them. `SteadyUnderWork`: what running work is built from stays. |
| `engine_seat` | 3 processes of 2 releases, patience 2, 2 terms (121,544) | `OneEngineAndFindable`, `SpokesMatchTheirEngine` (also through a stale record), the refinement `ImplementsElection`, and `JoinSettles`: every join and shutdown ends. |
| `endpoint` | 3 connections for 2 places with all faults; 4 pieces of one result (244,351) | `PlacesAreAccountedFor` (a panicked thread's place stays taken: it says so), `DroppedMeansClosed`, `NothingLostOnTheWay`, `KeepsItsPromise` (the relay refines ResultStream), `EveryoneIsAnswered`: the only request left waiting is one whose thread never started or panicked while its clone is listed, and no subscriber waits for a result that cannot come; a drop whose own connection failed ends with the next client's. |
| `invocables` | 2 calls of every kind, with a journal and without; core and 2 extensions, 3 origins; secrets of up to 3 letters in texts of up to 7, every cut (211,753) | `RunsAreRecorded`, `ContributionsAreAnswered`, `CatalogAgrees`, `RefusalsLeaveNoTrace`, `NoSecretShown`. |
| `turns` | 3 calls in 2 sessions; a model call with 2 tokens, 1 other event, a channel of 1 (232,049) | `ChangesWaitForTurns`, `EntriesAreOfLiveTurns`, `SeenIsSent`, `TurnsAndCallsEnd`: a stopped turn ends, and a cancelled or finished call leaves neither worker nor caller behind. |
| `terminal_ui` | 3 sessions, 2 commands, a message, a stop, a relaunch (348,050) | `MarksHaveJobs`, `ShownIsSelected`, `RelaunchComes`. |
| `background` | 10 workflows, one without a step; 2 tasks, 2 artifacts, 2 generations; 2 providers, 2 callers, 2 keys; 4 log events, 2 files, 2 faults (110,296) | Nodus: `RulesHold`, `EffectsAreUndone`, `LoggedOutIsFinal`. Loops: `CommitsAreDeclaredAndRecorded`. Both: `RunsAndLoopsEnd`. Router: `CircuitsFollowReports`, `ProvidersRestAndAreTried`. Log: `LogIsTrue`, `LogIsKept`. |
| `stores` | 3 turns; 2 board verbs; 3 memory rows, a pass or capture and a refinement that may overlap (moves, cards and crashes of the board together at most 6; failures, other operations and further seconds of the memory, and an overlap, together at most 2); builds of 3 versions, 2 at once; 2 processes over the catalogs; hosts with systemd, with logind alone and bare; 2 creators, 2 files, 2 seconds (1,259,674) | `JournalHolds`, `HistoriesAreLegalAndLogged`, `DatabasesHold` (memory's provenance, and a file's stamp tells its shape), `MergesLoseNoLink`, `CatalogsHold`, `ActivationAnswersHold`, `BackupsAreWhole`. |

Some of these say less than one would wish, and say so: `HistoriesAreLegalAndLogged`
holds however verbs overlap or die, but the log may miss the move of a verb that
has yet to append its line or ended before it could, and a history moved by an
actor with a bracket in the name is not claimed to be a path,
`CatalogsHold` claims that what was answered is kept only for verbs that come one
after another (but that nothing is active without a grant for its own manifest,
however they overlap), `DatabasesHold` that a row corrected by `correct` has its one
correction, not that every row with `superseded_at` set has one, `MergesLoseNoLink`
what becomes of the links of a row that is merged away, those added or moved since
the pair was found included, but not that the row it is merged into is there,
`ActivationAnswersHold` that an activated system mode starts at boot on hosts with systemd
only, `BackupsAreWhole` leaves out two creators of one second,
`StampsTellTheShape` two processes that change the file at once. The cases left
out are the disagreements listed below.

### Refuting a statement of the code

| Run | Statement | What happens |
|---|---|---|
| `cli_machine_scope` | gate.rs:53, `.design/main/specifications/l2-engine-endpoint.md`:185: a machine-wide change waits for all work | `dispatch_leaf` (cli/src/installation.rs:361) takes the lock of the caller's *workspace* for every recomposing verb; registry, ext and dev verbs are applied while work in another root runs. |
| `journal_two_turns_ids` | writer.rs:4 "Every entry carries a stable `id`" | Two turns of one session at once (nothing prevents it) count from the same number. |
| `turn_recorded_elsewhere` | session.rs:15, `.design/main/specifications/l2-engine-endpoint.md`:145: the handler runs as an invocation made from the caller's directory | The turn's thread asks for `sessions_dir()` where the thread-local caller's directory is not set, and records in the engine's workspace. |
| `memory_retry` | consolidate.rs:370: a failed input "is retried on the next pass" | The watermark moves to the latest input that committed, past an earlier one that failed; no later pass reads it. |

### Other disagreements, stated in the modules and checked by no run

Each is a definition that TLC refutes when it is put in the place of the run's
properties; the comment above it quotes the statement.

| Module: definition | What happens |
|---|---|
| Activation: `FailuresChangeNothing` | A refused authorisation of the system mode leaves the user unit written and enabled (linux_calls.rs:203-224), although a failure is to leave "the registry at `Inactive` or unchanged". |
| Activation: `SurfacesNeverElevate` | Enabling the login mode from a surface over a registered system unit removes that unit first, with `pkexec`; only `activation.disable` asks `needs_elevation_now`. |
| Activation: `LoginWorksWithoutSystemd`, `ApprovalMeansNotYet` | Without `loginctl` the state cannot be observed, so every transition there fails; a system unit that waits for approval hides a lingering user unit that starts. |
| Activation: `SystemStartsAtBoot` | On a host with `loginctl` and no systemd, enabling the system mode writes an autostart entry, sets lingering, observes both as the system mode (linux_calls.rs:179-187) and answers that it is activated; nothing starts at boot. `system_capability` knows (linux_calls.rs:286) and is asked by no verb. |
| Catalogs: `StoreIsNeverHalfWritten`, `GrantsWereShown` | Two savers share `registry.json.tmp` (extensions/mod.rs:208); the manifest may be replaced between the disclosure and the activation. |
| SchemaVersions: `NewerStaysNewer`, `AdoptedFilesAreCurrent` | The version is read before the transactions: a slower, older build stamps a newer file back, and a step is run twice; unstamped tables of version 1 are stamped with the current version whatever that is. Every store is at version 1 today, so this waits for the first migration. |
| Backup: `MadeBackupsStay` | Of two creators of one second the later removes the earlier's backup before its own rename, which may fail. |
| KanbanBoard: `ArchivedCardsStay` | The rename replaces an archived card of the same id: an id is free again once its card is archived, a verb that read the card before writes it back to the board, and a half-written file is renamed like any other (mod.rs:476). |
| MemoryStore: `SupersededIsReplaced` | `correct` is to leave a superseded row with a new one "carrying a supersedes edge back to it" (consolidate.rs:298-302). A pass over a raw row that was corrected stores a copy of it that is superseded as well (only id and depth are replaced, consolidate.rs:239-240) and has no such edge. |
| MemoryStore: `MergesKeepARow` | `merge_pair` (maintenance.rs:278) does not look whether the row to be kept is still there: when it was deleted since the pair was found, the other one is removed too, and its links are moved to a row that does not exist; "No path silently … drops durable knowledge" (`.design/main/specifications/l1-memory-intelligence.md`:53). |
| MemoryStore: `AddsAreChained` | The latest row of the workspace is asked for once the new row is inserted, so the answer may be the new row itself, and then nothing is linked (store.rs:59-75). |
| LoopRunner: `RefusalsAreRecorded` | A candidate of the evolution loop outside the manifest ends its generation and leaves no record. |
| ModelRouter: `OfflineStaysLocal` | Exploration does not look at the mode, and when every candidate scores 0 the first one is taken; either may be remote (scoring.rs:104 only makes the score 0). |
| NodusExecutor: `ResumeOnlyWhenPaused`, `ElementsAreTheirOwn` | A run that the pause signal ended gets a resume descriptor also when a rule violation makes its status Failed; an element of a ~MAP whose command failed takes the value of the element before it, which `$__map_element` still holds. |
| TerminalUi: `PendingUntilItFinishes` | A message sent while the conversation is still being read back after a relaunch loses its mark when that read is answered. |

### Noted while modelling

The models contain these behaviours, visible in the lines named: a surface's
check holds the exclusive lock for a moment and refuses work that begins then
(gate.rs:86); a refusal may name work that is not what refused the change
(gate.rs:107); a join may be told "incompatible" by a dead engine's record
while the seat's new holder has not cleared it (seat.rs:127); a connection whose
thread cannot start stays on the live list, one whose handler panics keeps its
place too (server.rs:151-160); a crash between the creation and the first line
of a journal leaves a file no later turn can open (writer.rs:288); opening a
journal closes as "interrupted" a question whose turn is still being answered
elsewhere (chat.rs:95); the end of a turn removes the entry of another turn of
the same session (session.rs:194); a stop may be answered for a turn whose reply
is already complete (session.rs:222); a shadowing notice is also given when the
winner did not change (registry.rs:374); spending a handle removes whatever is
attached (dispatch.rs:165); a settlement is also written for a handler that
overran (dispatch.rs:145); a contribution's `thread::spawn` panics on the
caller's thread when none is to be had (dispatch.rs:132).

In the components added later: a compensation that pauses for a dialog is
neither undone nor reported; `!BREAK` and `!SKIP` differ from
`.design/main/specifications/l2-workflow-runtime.md`:460; a restart resets the
step budget; rows of the same second as the end of a pass are never picked up,
and corroboration also considers superseded rows; two processes that share a log
family rotate it under each other; a file of agent definitions whose
writing was cut short counts as the built-in ones, so the definitions of that write
and all earlier ones are lost (what `CatalogsHold` keeps is what was answered since);
consolidated rows made of an archived row are archived from the start;
`remove_system_entry` returns before it looks at lingering, disabling turns off
lingering that was the user's own, and a lingering but disabled unit is reported
as active; the workspace registry clears the active workspace in a second
statement, so a crash or a switch between the two leaves it naming a workspace
that is gone.

### Bounds, and why they are enough

Two of everything that competes plus one that observes: two changers and two
workers give every pair of conflicting requests; three processes give an engine,
its successor and a joiner who saw the first; three connections for two places
give a full server, a refusal and a place that comes back; three turns give a
torn write, its mending and the turn after. `Patience = 2` makes a join both
retry and give up, `MaxServes = 2` makes tokens go stale, `MaxHandles = 2` lets
one id have two handles, `MaxPieces = 4` fills both hold-backs, a channel of 1
is full while a token waits. Three builds give a path of two steps with a death
between them and a build that knows neither end; two tables a file whose
creation was cut. Two seconds and two creators give creators of one second and
of different ones. A circuit with threshold 2 is reached by one caller or by
two; a log family of 2 files rotates twice in 4 events. In the run of
SessionTurns one root suffices, since roots do not interact there; the run on
recording has two. No symmetry is used. CHECK_DEADLOCK FALSE stands where every
call, turn or event of the instance is used up; in `stores` also because a torn
extension registry refuses every later verb for good. WorkGate and EngineSeat
are checked for deadlock.

### Fairness, and why the code justifies it

- EngineSeat: weak fairness of a started process's own steps - locks are only
  tried, pings have a timeout. Nobody is obliged to start or to leave.
- EndpointServer: threads are scheduled and a handler that does not panic
  returns; a client's read ends when the connection does.
- StreamRelay: threads are scheduled, the work ends or dies.
- SessionTurns: a registered turn's thread runs; a model need never answer, but
  a cancelled turn proceeds. ModelStream justifies that: under fairness of the
  worker and of the caller's pulling alone, with a server that may say nothing
  for ever, a cancelled call ends, because reads time out.
- InvocableDispatch: callers and clocks proceed; handlers may hang for ever.
- TerminalUi: jobs answer or die and the loop ticks; the person need do nothing.
- NodusExecutor and LoopRunner: one thread that proceeds, with seams that
  answer. ModelRouter: time passes, calls are made and report. DiagnosticLog:
  the release thread wakes up; the writer need not keep up.

## 4. Proofs

**WorkGateProofs** (assumption `ConstantsAssumption`: the machine root is a
root, threads belong to processes, workers and changers are different). The
gate's promise is not inductive: that no work runs under a change depends on who
holds which lock. The invariant is `TypeOK`, `LocksFollowPrograms` (lock holders
are exactly the threads at certain program points), `LockExclusion` (an
exclusive holder is alone: what the operating system guarantees) and
`LedgerFollowsWork` (a ledger lists exactly its process's running work). Each
action is shown to keep each part it can disturb. The theorems for the run's
properties are `GateKeepsChangesApart` (`ChangesAreExclusive`),
`LocksTellTheTruth` (`LocksAreTrue`) and `WorkIsSteady` (`SteadyUnderWork`); they
rest on `GateTypes`, `LocksAreAccountedFor`, `GateExclusion`,
`WorkspaceChangesSerialised` and `LedgerNamesLockedWork`.

**EngineSeatProofs** (assumption `SeatAssumption`: the value for "nobody" is no
process, patience is positive). The invariant adds to `OneEngine`: a listener is
open exactly at three places of the seat's holder and is the newest ever
(`ListenersAreSeated`); there is no record between the claim and the publication
(`RecordFollowsSeat`); and no record, on disk or in a joiner's hands, says
anything false of a listener that is open (`SeenIsTrue`) - which is why a stale
record is harmless. Theorems: `SeatIsOneAndFindable` (`OneEngineAndFindable`)
from `SeatTypes`, `SeatHasOneEngine`, `SeatHasOneListener` and
`EngineStaysFindable`; `ReleasesMatch` (`SpokesMatchTheirEngine`); and the
refinement `SeatImplementsElection` (`ImplementsElection`): `Serve` is `Open`,
`StopServer` and the death of the server are `Close`, a ping that is answered is
`Attach`, exit and death of a spoke are `Detach`, everything else stutters.

**EndpointProofs** (`ServerAssumption`: finitely many connections, a
positive limit; `MaxConnections`, the connections that time out and the faults
are arbitrary). That the counter never passes the limit is not inductive, since
it is raised, lowered and abandoned by different threads. `PlacesAreCounted` says
that it *is* the number of connections at certain places; `HandFollowsPlaces` that
the accept thread has in hand what it has counted and not handed over, which
makes the addition exact; `ListFollowsPlaces` that a socket on the list, shut down
or not cloned is what a request has from listing to end; `DropComesLast` that
nothing is placed once the listener is closed. From them `PlacesAreAccounted`
(`PlacesAreAccountedFor`), `DropClosesAll` (`DroppedMeansClosed`),
`ServerTypes`, and the action property `ClientsHearTheTruth`: an outcome is told
once and for its cause. The drop theorem is the join before the sweep: without
it (`CloseLive_NotJoining`) the accept thread could list a socket afterwards.

Its second part is the relay (`RelayAssumption`: the number of pieces is a natural
number). Everything on its way is one sequence cut into eight - shown, ready and
held back at the surface, local channel, connection, ready and held back at the
relay, channel. A step moves an item over one cut (`MoveOne`, `TakeMoves`: the
hold-back releases any part of what it has, in order), adds one at the upper end
(`SentGrows`), or loses some from the connection. `AllIsThere` says that the whole
is what the work sent as long as the connection stands and the relay reads;
`Faithful(Down)` what is true even then when it does not: what has left the engine
is a beginning of what was sent, and an end stands only in the last place, the
result only behind the last piece of settled work. `PumpingMeansMore` (the pump
has carried only pieces so far) is why the pump may end the stream as unavailable.
`RelayInvariant` is this; `NothingLost` follows, and so does the refinement
`RelayKeepsItsPromise`: `WritePiece` is `Write`, `SettleWork` and `AnswerAtOnce` are
`Settle`, `Show` is `Show`, `EndWithResult` or `EndUnavailable` by what is shown,
`FirstReply` an end or a stutter, everything else stutters.
Both are carried over to the composition the run checks:
`EndpointLosesNothing` (`NothingLostOnTheWay`), `EndpointKeepsItsPromise`
(`KeepsItsPromise`).

**InvocablesProofs** (any calls; no assumption is needed). The journal and the
calls are two pieces of state tied only by dispatch ids. `TicketsAreTheirOwn`: no
two calls have drawn the same id. `RecordsFollowCalls`: a record is of a call that
has come so far, and a call that has gone on has its entry. `RecordsPair`: records
are written once, an entry first. `Recorded` is claimed where there is a journal;
without one a call goes on from its entry with nothing written (`EnterUnrecorded`). `HandlersFollowCalls`: what a handler can be
doing and a caller have been told at each place. Theorems: `RunsRecorded`
(`RunsAreRecorded`), `DispatchTypes`. The second part is the registry
(`PartsAssumption`: the core is an identity and has an origin, "none" is no origin
and no handler). `ClaimsAreRegistered` ties the list of claimants of a bare name to
the registered ids, `OriginsStay` every id to the origin that owns its identity,
the core's from the start, `HandlersHaveHandles` what answers to a handle; adding
and removing a claimant are lemmas on injective sequences (`ClaimAdded`,
`ClaimRemoved`). `CatalogStaysWhole` is `CatalogAgrees`: that the core wins follows
from there being one core id per tail. `RefusedLeaveNoTrace`
(`RefusalsLeaveNoTrace`) needs `OriginsStay`: an identity is claimed before the id
is found to be taken, but then it was claimed already. The attempt showed that the
order of the registry's checks was stated with a CASE whose conditions overlap,
which TLC reads in order and TLA+ does not; it is now an order.

**TurnsProofs** (`TurnsAssumption`: the engine's root is a root, the value
for none is not). `WorkFollowsPlaces` says exactly when a call holds its guard -
until its stream is settled, long after the handler has returned - and
`GateExcludes` what the gate gives for that; together they are
`TurnsKeepChangesAway` (`ChangesWaitForTurns`). `EntriesAreInOrder` (`IN_FLIGHT` is
one list) is needed for `StopIsExact`: a stop cancels one turn, the oldest of
its session. `TurnsCanBeFound` is `EntriesAreOfLiveTurns`.

Its second part is the call of the model server (`CallAssumption`: the channel has a
positive capacity, the numbers of tokens and other lines are natural):
`CallersSeeWhatWasSent` is `SeenIsSent`. A read takes any part of what is on the wire, so
no line is whole where the worker looks; the invariant is about the buffer and the
wire together, which a read only cuts elsewhere (`ReadsFirst`). `Whole` says that
this stream consists of lines from the start of one, that the tokens on it are those
after the ones passed on, in order and with none left out, and that the sentinel
comes after the last; taking a line off its front and the server adding to its end keep
that (`DropLines`, `DropCounts`, `ExtendLines`, `ExtendCounts`). `EventsInOrder` says the
same of what lies between the worker's hands, the channel and the caller, with the
event a full channel has not taken counted as given once (`Passed`). Once the call
has been given up nothing is claimed of the stream (`Live`), and the order of what was
given still stands. The call that hands back a whole body is the simpler `HandedBackOnce`.
To be proved, `SeenIsSent` is stated by places instead of with `SelectSeq`.

**BackgroundProofs** (`WorkflowsAssumption`: what a workflow consists of;
the set of workflows, their statements, nesting and bounds are arbitrary). The
executor has many operators on the context (assignment, command, retry, ~MAP,
parallel blocks, handler, unwinding), so the proof states once what any of them may
make of a context, `MayBecome`: typed, `$out` as it was if locked, a log that keeps
the rules if it kept them. Each operator is in it, it is transitive, and so
every action is in it, a restart apart. The rule that no step begins over an error
depends on the place of the run as well: `StepsStartClean`, with `Open` for the stack
of blocks. Theorems: `RunsKeepTheirRules` (`RulesHold`), `LockHolds`
(`LoggedOutIsFinal`), `ExecutorTypes`. An attempt at `StepsStartClean` showed that
the model let a workflow without steps begin one; it now ends at once, as in the code,
and the instance has such a workflow.

Three shorter parts follow. Loops (`LoopAssumption`: what may be changed are artifacts,
the ceilings are numbers): `LoopIInv` adds the places at which nothing can have been
committed yet; `LoopsCommitOnlyWhatTheyMay` is `CommitsAreDeclaredAndRecorded`, and
`LoopsStayBelowTheirCeiling` bounds the turns. Router (`RouterAssumption`: thresholds are
positive): `RouterIInv` is the types and the property itself, which is inductive once
the circuit's count is bounded by the threshold; the work is in the arithmetic of a
credential list that shrinks under its index. `CircuitsAreTrue` is `CircuitsFollowReports`;
`RestingProvidersAreLeft`, an action property, says that neither score nor exploration asks
a provider its breaker keeps out. Log (`LogAssumption`: sizes and numbers are natural, zero
included): `LogIInv` says that files, queue and the held run are, one after the other,
in the order of the events (`FilesFit`, `LogFits`), that no rotation breaks that wherever it
stops, and what the counters dropped, reported and told have to do with each other.
`LogReadsInOrder` is `LogIsTrue`; `OnlyTheOldestFileGoes` is the part of `LogIsKept` that is about
single steps, stated on its own as `OnlyTheOldestIsDiscarded`.

**StoresProofs** (assumptions of the parts: finitely many board verbs, actors
with a bracket are actors; built-in and custom agents are different; there is a second
to make a backup in; migration steps lead to versions that are known). One inductive
invariant per part; a step of one part leaves the others alone (`PartsStep`).

- Journal, `JournalIsKept` (`JournalHolds`, for `OneAtATime` as in the run): the lines
  of the file form a chain whatever is cut off (`IsJournal`), and `TurnFollows` ties a
  turn's writer, which remembers what it read, to the file as it is now. That holds because
  no one else has written since; with two turns it does not, which the run
  `journal_two_turns_ids` shows.
- Board, `BoardIsLegalAndLogged`: verbs that overlap write back cards they read long ago,
  so a card need not be the latest. `Fits` says of every copy, on disk or in a verb's
  hands, that its history is a path and that the log has counted its moves, but for the
  verbs still to log or dead (`FitsOnceLogged`); counting those is why the verbs must
  be finitely many.
- Memory and schema, `DatabasesAreSound`: `JobFollows` says what each statement of a pass
  has done before the next, up to the last one, with which its input counts as
  consolidated; `Cited` is kept by every statement and survives merges of other rows
  (`StaysCited`), and `CorrectedOnce` says that `correct` alone makes a row "corrected"
  and gives it its edge, while a row made by a pass is "inherited" and has none. For the schema, `OpenersAreOnTheirWay`, `StampsAreTheirs` and `UnstampedTables` say
  where on its way an opener and the file are, as long as no two changed it at once.
  `MergesMoveEveryLink` is the action property `MergesLoseNoLink`.
- Catalogs, `CatalogsAreKept`: `GrantedEverywhere` holds of the file, the staged file and what
  every verb is about to write, however verbs overlap; `Registering` and `Creating` are for
  verbs one after another.
- Activation, `ActivationAnswersAreTrue`: `DoneSoFar` and `NothingWider` say what the steps of a
  transition have made of the registration when it comes to verify it, and
  `SystemdKeepsUnits` what the host allows of it.
- Backup, `ListedBackupsAreWhole`: a second in which one creator began is that
  creator's own (`AloneInItsSecond`), what it has copied was so since it began
  (`LiveIsNoted`), and a restore has put back what it is past (`RestoreFollows`).

For these proofs some operators are stated as what they select and no longer as how it is
computed: `Places` of the journal (the entries of a file), `Candidates` (the
ordered enumerations of what a pass may read) and `Clusters` of the memory,
`OneBegan` of the backup.

**TerminalUiProofs** (any sessions, messages, commands, moves, stops and
relaunches). The marks of `App` and its jobs are two books of the same work;
`MarksFit` says they agree: a command mark stands for exactly one job, the stop
counter for as many as it says, and a command, an open question and a relaunch
exclude one another. `ShownFits` ties what is shown to what is selected. That a
spawned job is none of those under way is a pigeonhole argument over the finite set
of jobs (`SpawnAddsAJob`). Theorems: `MarksAreTrue` (`MarksHaveJobs`),
`ShownIsOfSelected` (`ShownIsSelected`).

Only model-checked, and why:

- liveness (`JoinSettles`, `EveryoneIsAnswered`, `ContributionsAreAnswered`,
  `TurnsAndCallsEnd`, `RelaunchComes`, `RunsAndLoopsEnd`, and the parts of
  `ProvidersRestAndAreTried` and `LogIsKept` that say something comes about): outside the
  prover's reach. The step parts of the last two are proved;
- `NoSecretShown`: what recursive definitions over texts compute; it would need
  induction over data;
- `EffectsAreUndone`: it is true of the instance's workflows and not of all: a
  step may itself issue the command that compensates another, and then the ledger
  cannot tell which was which. It is also about what a sequence of undoing steps adds up
  to, which again is induction over data.

## 5. Plan

What the models claim is proved as far as the prover goes. Modules that could follow:
the workspace registry, the agent session loop once a verb calls it, mission and
office control, budgets.
