------------------------------ MODULE MCStores ------------------------------
(***************************************************************************)
(* What is kept on disk, on small instances: a session's journal, the      *)
(* board, the memory store, the schema of a database, the catalogs of the  *)
(* installation, background activation and backups.  They share no file,   *)
(* so a behaviour is of one part, chosen at the start; the others stay as  *)
(* they begin.                                                             *)
(***************************************************************************)
EXTENDS SessionJournal

CONSTANTS
    BoardCalls, CardIds, Actors, Bracketed, MaxCards, MaxMoves, MaxFaults,  \* KanbanBoard
    Bodies, Depths, InWorkspace, Jobs, MinCluster, MaxItems, MaxTime, MaxFails,
    MaxOps, Refiner,                                                        \* MemoryStore
    Carriers, Exts, Versions, Builtins, Customs,                            \* Catalogs
    Hosts, Faults,                                                          \* Activation
    Creators, TierFiles, MaxSeconds, MaxVersion,                            \* Backup
    Openers, Newest, Steps, NTables                                         \* SchemaVersions

VARIABLES part,
    cards, archive, events, verb, born, moves, garbled, faults,
    rows, made, edges, chains, watermark, pairs, job, clock, fails, ops,
    committed, missed, merged,
    about, alone, store, staged, agents, change, shown, granted, added, created,
    host, login, system, linger, transition, step, answer, before, trouble, prompted,
    second, live, staging, listed, create, since, answered, restore,
    stamp, tables, copies, open, raced, adopted

boardVars == <<cards, archive, events, verb, born, moves, garbled, faults>>
memoryVars == <<rows, made, edges, chains, watermark, pairs, job, clock, fails, ops,
                committed, missed, merged>>
catalogVars == <<about, alone, store, staged, agents, change, shown, granted, added,
                 created>>
activationVars == <<host, login, system, linger, transition, step, answer, before,
                    trouble, prompted>>
backupVars == <<second, live, staging, listed, create, since, answered, restore>>
schemaVars == <<stamp, tables, copies, open, raced, adopted>>

Board == INSTANCE KanbanBoard WITH Verbs <- BoardCalls, Ids <- CardIds

Memory == INSTANCE MemoryStore

Catalog == INSTANCE Catalogs WITH Procs <- Carriers, verb <- change

Activating == INSTANCE Activation WITH verb <- transition

Backups == INSTANCE Backup WITH Files <- TierFiles, MaxTime <- MaxSeconds, clock <- second

Schema == INSTANCE SchemaVersions WITH Procs <- Openers

ASSUME PartsAssumption ==
    /\ Board!BoardAssumption /\ Catalog!CatalogsAssumption
    /\ Activating!ActivationAssumption /\ Backups!BackupAssumption /\ Schema!SchemaAssumption

MCInit ==
    /\ part \in {"journal", "board", "memory", "catalogs", "activation", "backup", "schema"}
    /\ Init /\ Board!Init /\ Memory!Init /\ Catalog!Init /\ Activating!Init /\ Backups!Init
    /\ Schema!Init
    /\ part # "schema" => stamp = 1
    /\ part # "catalogs" => about = "extensions" /\ alone
    /\ part # "activation" => host = "systemd" /\ ~linger

\* Bounds over several of a part's counters at once: a behaviour spends its steps on more
\* moves or on a second card or a crash, on a failure, on a second operation or second, or
\* on a refinement that overlaps a pass or a capture; one writer refines, the others do not.
BoardBound == born' + moves' + faults' <= 6
MemoryBound ==
    LET busy == {j \in Jobs : job'[j].stage # "idle"}
    IN /\ fails' + ops' + clock' + (IF busy = Jobs THEN 1 ELSE 0) <= 3
       /\ \A j \in busy : job'[j].kind = "refine" <=> j = Refiner

MCNext ==
    \/ /\ part = "journal" /\ Next
       /\ UNCHANGED <<part, boardVars, memoryVars, catalogVars, activationVars, backupVars, schemaVars>>
    \/ /\ part = "board" /\ Board!Next /\ BoardBound
       /\ UNCHANGED <<part, vars, memoryVars, catalogVars, activationVars, backupVars, schemaVars>>
    \/ /\ part = "memory" /\ Memory!Next /\ MemoryBound
       /\ UNCHANGED <<part, vars, boardVars, catalogVars, activationVars, backupVars, schemaVars>>
    \/ /\ part = "catalogs" /\ Catalog!Next
       /\ UNCHANGED <<part, vars, boardVars, memoryVars, activationVars, backupVars, schemaVars>>
    \/ /\ part = "activation" /\ Activating!Next
       /\ UNCHANGED <<part, vars, boardVars, memoryVars, catalogVars, backupVars, schemaVars>>
    \/ /\ part = "backup" /\ Backups!Next
       /\ UNCHANGED <<part, vars, boardVars, memoryVars, catalogVars, activationVars,
                      schemaVars>>
    \/ /\ part = "schema" /\ Schema!Next
       /\ UNCHANGED <<part, vars, boardVars, memoryVars, catalogVars, activationVars,
                      backupVars>>

MCSpec ==
    MCInit /\ [][MCNext]_<<part, vars, boardVars, memoryVars, catalogVars, activationVars,
                           backupVars, schemaVars>>

-----------------------------------------------------------------------------
(* The parts' properties, stated and explained in their own modules.       *)

\* The journal's entries form one chain, and those acknowledged are kept.
JournalHolds == EntriesFormAChain /\ AckedEntriesAreKept

\* A card's history is a path of legal moves, and the event log has them all.
HistoriesAreLegalAndLogged == Board!HistoriesAreLegalAndLogged

\* In the memory store what was consolidated is cited, and corrections and corrected rows
\* pair; and a database file has the shape that its stamp says.
DatabasesHold == Memory!ProvenanceHolds /\ Schema!StampsTellTheShape

\* A merge moves every link of the row it removes.
MergesLoseNoLink == Memory!MergesLoseNoLink

\* What a catalog's verb answered is kept, and what is active was granted.
CatalogsHold == Catalog!CatalogsHold

\* An activation that succeeded is real, and one that failed had a cause of its own.
ActivationAnswersHold == Activating!ActivationAnswersHold

\* A listed backup is whole.
BackupsAreWhole == Backups!BackupsAreWhole
=============================================================================
