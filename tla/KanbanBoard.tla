---------------------------- MODULE KanbanBoard ----------------------------
(***************************************************************************)
(* The kanban board of a workspace: domain/src/kanban/mod.rs, as the       *)
(* board.* verbs call it (core/src/invocable_bootstrap/board.rs).          *)
(*                                                                         *)
(* A card is a file.  A verb reads it, decides, and writes it anew in      *)
(* place: the file is emptied and then filled, and nothing keeps two verbs *)
(* of two threads or programs apart.  A move also adds a line to the       *)
(* card's event log.  Done cards are moved to an archive directory.        *)
(***************************************************************************)
EXTENDS Naturals, Sequences, FiniteSets, SequencesExt

CONSTANTS
    Verbs,          \* board verbs that may run at once
    Ids,            \* card ids
    Actors,         \* names of those who move cards
    Bracketed,      \* those of them with a ']' in the name
    MaxCards,       \* bound: cards ever added
    MaxMoves,       \* bound: moves ever made
    MaxFaults       \* bound: verbs that die, or meet an I/O error, half way

BoardAssumption ==
    /\ IsFiniteSet(Verbs) /\ Bracketed \subseteq Actors
    /\ MaxCards \in Nat /\ MaxMoves \in Nat /\ MaxFaults \in Nat

VARIABLES
    cards,          \* cards/<id>.json
    archive,        \* archive/<id>.json
    events,         \* events/<id>.jsonl, as how often each state was entered
    verb,           \* how far each verb is
    born,           \* cards added so far; a card's task_ref is its number
    moves,          \* moves made so far
    garbled,        \* cards some bracketed actor has moved
    faults

vars == <<cards, archive, events, verb, born, moves, garbled, faults>>

States == {"triage", "todo", "ready", "running", "blocked", "done"}

\* CardState::can_transition_to, everything a card may do in one move.
CanTransition ==
    {<<"triage", "todo">>, <<"todo", "ready">>, <<"todo", "triage">>, <<"ready", "running">>,
     <<"running", "done">>, <<"running", "blocked">>, <<"running", "todo">>,
     <<"blocked", "ready">>, <<"blocked", "todo">>}

\* A file is not there, empty (opened for writing, not yet written), or a card's JSON.
NoFile == [is |-> "none"]
Empty == [is |-> "empty"]
Card(ref, state, history) ==
    [is |-> "card", ref |-> ref, state |-> state, history |-> history]

\* Card::from_json after Card::to_json: no name is escaped, and the history ends for the
\* reader at the first ']' in it, the record that holds one included.
ReadHistory(history) ==
    IF \E i \in DOMAIN history : history[i].by \in Bracketed
    THEN SubSeq(history, 1, (CHOOSE i \in DOMAIN history :
                                /\ history[i].by \in Bracketed
                                /\ \A j \in 1..(i - 1) : history[j].by \notin Bracketed) - 1)
    ELSE history

\* get_card: an empty file has no id and reads as no card at all.
Readable(file) == file.is = "card"
Loaded(file) == [file EXCEPT !.history = ReadHistory(@)]

Idle == [step |-> "idle"]
Saving(id, card, moved) == [step |-> "open", id |-> id, card |-> card, moved |-> moved]

Init ==
    /\ cards = [id \in Ids |-> NoFile]
    /\ archive = [id \in Ids |-> NoFile]
    /\ events = [id \in Ids |-> [s \in States |-> 0]]
    /\ verb = [v \in Verbs |-> Idle]
    /\ born = 0
    /\ moves = 0
    /\ garbled = {}
    /\ faults = 0

-----------------------------------------------------------------------------
\* add_card, up to the save: the id is refused when a card can be read under it.
AddCard(v, id) ==
    /\ verb[v] = Idle
    /\ born < MaxCards
    /\ ~Readable(cards[id])
    /\ born' = born + 1
    /\ verb' = [verb EXCEPT ![v] = Saving(id, Card(born + 1, "triage", <<>>), FALSE)]
    /\ UNCHANGED <<cards, archive, events, moves, garbled, faults>>

\* Mutation of Moved: the state is set before the record is made of it.
Moved_StateFirst(card, to, actor) ==
    Card(card.ref, to, Append(card.history, [from |-> to, to |-> to, by |-> actor]))

\* The card move_card saves.
Moved(card, to, actor) ==
    Card(card.ref, to, Append(card.history, [from |-> card.state, to |-> to, by |-> actor]))

\* move_card, up to the save; board.block alone names "blocked", and gives its reason.
MoveCard(v, id, to, actor) ==
    /\ verb[v] = Idle
    /\ Readable(cards[id])
    /\ <<cards[id].state, to>> \in CanTransition
    /\ moves < MaxMoves
    /\ moves' = moves + 1
    /\ verb' = [verb EXCEPT ![v] = Saving(id, Moved(Loaded(cards[id]), to, actor), TRUE)]
    /\ garbled' = IF actor \in Bracketed THEN garbled \union {cards[id].ref} ELSE garbled
    /\ UNCHANGED <<cards, archive, events, born, faults>>

\* save_card, fs::write: the file is created or emptied ...
OpenCard(v) ==
    /\ verb[v].step = "open"
    /\ cards' = [cards EXCEPT ![verb[v].id] = Empty]
    /\ verb' = [verb EXCEPT ![v] = [step |-> "fill", id |-> @.id, card |-> @.card,
                                    moved |-> @.moved, file |-> "cards"]]
    /\ UNCHANGED <<archive, events, born, moves, garbled, faults>>

AfterFill(v) ==
    IF verb[v].moved THEN [step |-> "log", id |-> verb[v].id, card |-> verb[v].card] ELSE Idle

\* ... and written, wherever a rename has taken it meanwhile.  A longer text that another
\* verb wrote into it leaves its tail behind the card's, which from_json never reaches.
FillCard(v) ==
    LET id == verb[v].id
        Into(where) == verb[v].file = where
    IN  /\ verb[v].step = "fill"
        /\ cards' = IF Into("cards") THEN [cards EXCEPT ![id] = verb[v].card] ELSE cards
        /\ archive' = IF Into("archive") THEN [archive EXCEPT ![id] = verb[v].card] ELSE archive
        /\ verb' = [verb EXCEPT ![v] = AfterFill(v)]
        /\ UNCHANGED <<events, born, moves, garbled, faults>>

\* append_event
AppendEvent(v) ==
    /\ verb[v].step = "log"
    /\ events' = [events EXCEPT ![verb[v].id][verb[v].card.state] = @ + 1]
    /\ verb' = [verb EXCEPT ![v] = Idle]
    /\ UNCHANGED <<cards, archive, born, moves, garbled, faults>>

\* archive_done_cards: list_cards, then one rename for each done card of the list.
ListDone(v) ==
    LET done == {id \in Ids : Readable(cards[id]) /\ cards[id].state = "done"}
    IN  /\ verb[v] = Idle
        /\ done # {}
        /\ verb' = [verb EXCEPT ![v] = [step |-> "archive", todo |-> done]]
        /\ UNCHANGED <<cards, archive, events, born, moves, garbled, faults>>

\* A file that is open keeps its writer when it is renamed or replaced.
FileMoves(x, id) ==
    IF x.step = "fill" /\ x.id = id
    THEN [x EXCEPT !.file = IF @ = "cards" THEN "archive" ELSE "gone"]
    ELSE x

RenameOne(v) ==
    \E id \in verb[v].todo :
        LET rest == verb[v].todo \ {id}
        IN  /\ cards[id] # NoFile
            /\ archive' = [archive EXCEPT ![id] = cards[id]]
            /\ cards' = [cards EXCEPT ![id] = NoFile]
            /\ verb' = [w \in Verbs |->
                            IF w # v THEN FileMoves(verb[w], id)
                            ELSE IF rest = {} THEN Idle ELSE [verb[v] EXCEPT !.todo = rest]]

\* A card archived by another verb first ends this one with an error.
RenameFails(v) ==
    /\ \E id \in verb[v].todo : cards[id] = NoFile
    /\ verb' = [verb EXCEPT ![v] = Idle]
    /\ UNCHANGED <<cards, archive>>

ArchiveOne(v) ==
    /\ verb[v].step = "archive"
    /\ RenameOne(v) \/ RenameFails(v)
    /\ UNCHANGED <<events, born, moves, garbled, faults>>

\* The program dies, or an I/O error ends the verb, between two of its steps.
Abandon(v) ==
    /\ verb[v] # Idle
    /\ faults < MaxFaults
    /\ verb' = [verb EXCEPT ![v] = Idle]
    /\ faults' = faults + 1
    /\ UNCHANGED <<cards, archive, events, born, moves, garbled>>

Next ==
    \E v \in Verbs :
        \/ \E id \in Ids : AddCard(v, id)
        \/ \E id \in Ids, to \in States, actor \in Actors : MoveCard(v, id, to, actor)
        \/ OpenCard(v)
        \/ FillCard(v)
        \/ AppendEvent(v)
        \/ ListDone(v)
        \/ ArchiveOne(v)
        \/ Abandon(v)

Spec == Init /\ [][Next]_vars

-----------------------------------------------------------------------------
Stored(id) == {file \in {cards[id], archive[id]} : Readable(file)}

LegalChain(card) ==
    LET h == card.history
    IN  /\ \A i \in DOMAIN h : <<h[i].from, h[i].to>> \in CanTransition
        /\ \A i \in DOMAIN h : h[i].from = IF i = 1 THEN "triage" ELSE h[i - 1].to
        /\ card.state = IF h = <<>> THEN "triage" ELSE Last(h).to

(***************************************************************************)
(* Whatever verbs overlap, and wherever they die, the history of a card on *)
(* the board or in the archive is a path of legal moves from triage to the *)
(* state the card is in, and the event log misses none of them, but for    *)
(* those whose verb has yet to append its line and those whose verb ended  *)
(* before it could.  (The path not of a card that an actor with a bracket  *)
(* in the name has moved: its history is cut when it is read back.)        *)
(***************************************************************************)
HistoriesAreLegalAndLogged ==
    \A id \in Ids : \A card \in Stored(id) :
        /\ card.ref \in garbled \/ LegalChain(card)
        /\ \A s \in States :
              Cardinality({i \in DOMAIN card.history : card.history[i].to = s})
                  <= events[id][s] + faults
                     + Cardinality({v \in Verbs : verb[v].step = "log" /\ verb[v].id = id
                                                   /\ verb[v].card.state = s})

(***************************************************************************)
(* What archive_done_cards says of itself, "(non-destructive)": a card in  *)
(* the archive stays there.                                                *)
(***************************************************************************)
ArchivedCardsStay ==
    [][\A id \in Ids : Readable(archive[id]) =>
            Readable(archive'[id]) /\ archive'[id].ref = archive[id].ref]_vars
=============================================================================
