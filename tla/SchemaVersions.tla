--------------------------- MODULE SchemaVersions ---------------------------
(***************************************************************************)
(* The schema version of a database file: open_schema of                   *)
(* store-local/src/versioning.rs, with which every store of store-local    *)
(* opens its file.                                                         *)
(*                                                                         *)
(* A build knows one version.  It creates what is missing of a file at its *)
(* own version, takes an older file forward step by step, each step in a   *)
(* transaction with its stamp, and refuses a newer one.  The version is    *)
(* read once, at the beginning, and the tables of the baseline and the     *)
(* last stamp are statements of their own.                                 *)
(***************************************************************************)
EXTENDS Naturals

CONSTANTS
    Procs,          \* processes that open the file
    Newest,         \* the newest version a build knows
    Steps,          \* versions there is a migration step to
    NTables         \* tables of the baseline

SchemaAssumption ==
    /\ Newest \in Nat \ {0} /\ NTables \in Nat \ {0}
    /\ Steps \subseteq 2..Newest

VARIABLES
    stamp,          \* user_version
    tables,         \* each table: the version it was made at, 0 if it is not there, and how
                    \* often each step has changed it
    copies,         \* the safety copies: the version in the name, the version of the content
    open,           \* how far each process is
    raced,          \* whether two processes that both change the file have had it open at once
    adopted         \* whether a build has taken unstamped tables of another version for its own

vars == <<stamp, tables, copies, open, raced, adopted>>

Builds == 1..Newest
Absent == [made |-> 0, changed |-> [v \in Builds |-> 0]]
Made(build) == [Absent EXCEPT !.made = build]

Idle == [step |-> "idle"]
At(step, build, found, next) == [step |-> step, build |-> build, found |-> found, next |-> next]

\* A new file, one of some build, or one from before versions were stamped.
Init ==
    /\ \/ stamp = 0 /\ tables \in {[i \in 1..NTables |-> Absent], [i \in 1..NTables |-> Made(1)]}
       \/ stamp \in Builds /\ tables = [i \in 1..NTables |-> Made(stamp)]
    /\ copies = {}
    /\ open = [p \in Procs |-> Idle]
    /\ raced = FALSE /\ adopted = FALSE

To(p, o) == open' = [open EXCEPT ![p] = o]

\* Two processes that may have the file open at once: one that finds it as it should be, and
\* two of one build that find it new.
MayShare(o1, o2) ==
    \/ o1.found = o1.build \/ o2.found = o2.build
    \/ o1.build = o2.build /\ o1.found = 0 /\ o2.found = 0

-----------------------------------------------------------------------------
\* open_schema: the version is read; a newer file is refused, and a path with a missing step
\* is refused before anything is touched.
Open(p, build) ==
    /\ open[p] = Idle
    /\ stamp <= build
    /\ IF stamp \in 1..(build - 1)
       THEN (stamp + 1)..build \subseteq Steps /\ To(p, At("copy", build, stamp, stamp + 1))
       ELSE To(p, At("baseline", build, stamp, 1))
    /\ adopted' = (adopted \/ (stamp = 0 /\ \E i \in 1..NTables : tables[i].made \notin {0, build}))
    /\ raced' = (raced \/ \E q \in Procs : open[q] # Idle /\ ~MayShare(open[q], open'[p]))
    /\ UNCHANGED <<stamp, tables, copies>>

\* backup_before_migration: named after the version that was found.
Copy(p) ==
    /\ open[p].step = "copy"
    /\ copies' = copies \union {[named |-> open[p].found, holds |-> stamp]}
    /\ To(p, [open[p] EXCEPT !.step = "migrate"])
    /\ UNCHANGED <<stamp, tables, raced, adopted>>

Changed(table, v) == [table EXCEPT !.changed[v] = IF @ < 2 THEN @ + 1 ELSE @]

\* What follows the step to version v.
AfterStep(o) ==
    IF o.next = o.build THEN [o EXCEPT !.step = "baseline", !.next = 1]
    ELSE [o EXCEPT !.next = @ + 1]

\* Mutation of Migrate: the file is stamped when the whole path has been taken.
Migrate_StampedLast(p) ==
    /\ open[p].step = "migrate"
    /\ \A i \in 1..NTables : tables[i].made # 0
    /\ tables' = [i \in 1..NTables |-> Changed(tables[i], open[p].next)]
    /\ To(p, AfterStep(open[p]))
    /\ UNCHANGED <<stamp, copies, raced, adopted>>

\* migrate_forward, one step: its change and its stamp in one transaction.  A step fails on a
\* table that is not there.
Migrate(p) ==
    /\ open[p].step = "migrate"
    /\ \A i \in 1..NTables : tables[i].made # 0
    /\ tables' = [i \in 1..NTables |-> Changed(tables[i], open[p].next)]
    /\ stamp' = open[p].next
    /\ To(p, AfterStep(open[p]))
    /\ UNCHANGED <<copies, raced, adopted>>

\* baseline, one CREATE TABLE IF NOT EXISTS.
Baseline(p) ==
    LET i == open[p].next
    IN  /\ open[p].step = "baseline"
        /\ tables' = IF tables[i].made # 0 THEN tables
                     ELSE [tables EXCEPT ![i] = Made(open[p].build)]
        /\ To(p, IF i = NTables THEN [open[p] EXCEPT !.step = "stamp"]
                 ELSE [open[p] EXCEPT !.next = i + 1])
        /\ UNCHANGED <<stamp, copies, raced, adopted>>

\* The stamp at the end, if another version was found at the beginning.
Stamp(p) ==
    /\ open[p].step = "stamp"
    /\ stamp' = IF open[p].found # open[p].build THEN open[p].build ELSE stamp
    /\ To(p, Idle)
    /\ UNCHANGED <<tables, copies, raced, adopted>>

\* A statement fails, or the process dies: a transaction is rolled back, the rest stays.
Fail(p) ==
    /\ open[p] # Idle
    /\ To(p, Idle)
    /\ UNCHANGED <<stamp, tables, copies, raced, adopted>>

Next == \E p \in Procs :
    \/ \E build \in Builds : Open(p, build)
    \/ Copy(p) \/ Migrate(p) \/ Baseline(p) \/ Stamp(p) \/ Fail(p)

Spec == Init /\ [][Next]_vars

-----------------------------------------------------------------------------
TypeOK ==
    /\ stamp \in 0..Newest
    /\ tables \in [1..NTables -> [made : 0..Newest, changed : [Builds -> 0..2]]]
    /\ copies \subseteq [named : Builds, holds : Builds]
    /\ raced \in BOOLEAN /\ adopted \in BOOLEAN

\* A table is of version v: it was made at some version up to v, and every step from there
\* to v, and no other, has changed it once.
IsOf(table, v) ==
    /\ table.made \in 1..v
    /\ \A w \in Builds : table.changed[w] = IF w \in (table.made + 1)..v THEN 1 ELSE 0

\* "a broken step list can never leave a file half-upgraded", nor can a build that dies: of a
\* file that builds of several versions open, each dying anywhere, and that no two of them
\* change at once, every table is of the version it is stamped with, each step has run once,
\* and what any step changed is still there in a safety copy of an older version.  Builds of
\* one version may create it together.
StampsTellTheShape ==
    ~raced /\ ~adopted =>
        /\ stamp > 0 => \A i \in 1..NTables : IsOf(tables[i], stamp)
        /\ \A c \in copies : c.named = c.holds
        /\ \A i \in 1..NTables, v \in Builds :
              tables[i].changed[v] > 0 => \E c \in copies : c.holds < v

\* versioning.rs:9: a file from before versioning is "adopted as the current version - the
\* baseline is idempotent, so nothing is lost".
AdoptedFilesAreCurrent ==
    ~raced /\ stamp > 0 => \A i \in 1..NTables : IsOf(tables[i], stamp)

\* versioning.rs:17: a build "must not read it optimistically or write into it", so that a
\* newer file is never stamped older.
NewerStaysNewer == [][stamp' >= stamp]_vars
=============================================================================
