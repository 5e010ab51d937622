------------------------------- MODULE Backup -------------------------------
(***************************************************************************)
(* Backups: create, list and restore of domain/src/backup.rs, as           *)
(* backup.create (core/src/installation/carry_out.rs), the staged import   *)
(* of agent_migration.rs and restore (carry_out/recompose.rs) call them.   *)
(*                                                                         *)
(* A backup is copied file by file into a staging directory, and renamed   *)
(* to the name under which it is listed.  Both names are made of the       *)
(* second it began in, nothing keeps two creators apart, and the state     *)
(* tier goes on changing while it is copied.  A restore copies the files   *)
(* back one by one, over the live ones; nothing keeps creators from        *)
(* copying meanwhile, nor the verbs that take no gate from writing.        *)
(***************************************************************************)
EXTENDS Naturals

CONSTANTS
    Creators,       \* calls of create
    Files,          \* files of the state tier that are not excluded
    MaxTime,        \* bound: seconds
    MaxVersion      \* bound: times a file is written

BackupAssumption == MaxTime \in Nat \ {0} /\ MaxVersion \in Nat

VARIABLES
    clock,
    live,           \* the version of each file of the state tier
    staging,        \* .backup-<second>.partial: the files in it, with their versions
    listed,         \* backup-<second>
    create,         \* how far each call is
    since,          \* what the files have been since the backup of that second was begun
    answered,       \* seconds whose backup was answered as made
    restore         \* how far the restore is, and what was written since it began

vars == <<clock, live, staging, listed, create, since, answered, restore>>

Seconds == 1..MaxTime
NoDir == [is |-> "none"]
Dir(has) == [is |-> "dir", has |-> has]
EmptyDir == Dir([f \in {} |-> 0])
With(dir, f, version) ==
    Dir([g \in DOMAIN dir.has \union {f} |-> IF g = f THEN version ELSE dir.has[g]])

NoRestore == [step |-> "none"]
At(step, second) == [step |-> step, second |-> second, left |-> Files]

Init ==
    /\ clock = 1
    /\ live = [f \in Files |-> 1]
    /\ staging = [t \in Seconds |-> NoDir]
    /\ listed = [t \in Seconds |-> NoDir]
    /\ create = [c \in Creators |-> At("idle", 0)]
    /\ since = [t \in Seconds |-> [f \in Files |-> {}]]
    /\ answered = {}
    /\ restore = NoRestore

\* Calls that began in a second, whatever became of them.
BegunIn(t) == {c \in Creators : create[c].second = t}

-----------------------------------------------------------------------------
\* A file of the tier takes a version.
Takes(f, version) ==
    /\ live' = [live EXCEPT ![f] = version]
    /\ since' = [t \in Seconds |->
                    IF BegunIn(t) = {} THEN since[t]
                    ELSE [since[t] EXCEPT ![f] = @ \union {version}]]

\* The rest of the program writes a file; time passes.
Write(f) ==
    /\ live[f] < MaxVersion
    /\ Takes(f, live[f] + 1)
    /\ restore' = IF restore = NoRestore THEN restore
                  ELSE [restore EXCEPT !.touched = @ \union {f}]
    /\ UNCHANGED <<clock, staging, listed, create, answered>>

Tick ==
    /\ clock < MaxTime
    /\ clock' = clock + 1
    /\ UNCHANGED <<live, staging, listed, create, since, answered, restore>>

\* create: the staging directory of this second is removed, whoever left it, and made.
Begin(c) ==
    /\ create[c].step = "idle"
    /\ create' = [create EXCEPT ![c] = At("copy", clock)]
    /\ staging' = [staging EXCEPT ![clock] = EmptyDir]
    /\ since' = [since EXCEPT ![clock] = [f \in Files |-> @[f] \union {live[f]}]]
    /\ UNCHANGED <<clock, live, listed, answered, restore>>

Step(c, step) == create' = [create EXCEPT ![c].step = step]

\* copy_tree_excluding, one file; the directory may have been renamed or removed by another.
CopyFile(c, f) ==
    LET t == create[c].second
    IN  /\ create[c].step = "copy" /\ f \in create[c].left
        /\ staging[t] # NoDir
        /\ staging' = [staging EXCEPT ![t] = With(@, f, live[f])]
        /\ create' = [create EXCEPT ![c].left = @ \ {f}]
        /\ UNCHANGED <<clock, live, listed, since, answered, restore>>

\* A file that cannot be copied: what was staged is removed, and the call fails.
CopyFails(c) ==
    /\ create[c].step = "copy" /\ create[c].left # {}
    /\ staging' = [staging EXCEPT ![create[c].second] = NoDir]
    /\ Step(c, "failed")
    /\ UNCHANGED <<clock, live, listed, since, answered, restore>>

\* Mutation of Copied: the backup takes its place when the first file is in it.
Copied_First(c) == create[c].step = "copy" /\ create[c].left # Files

\* All of it has been copied.
Copied(c) == create[c].step = "copy" /\ create[c].left = {}

\* fs::rename of a directory: it fails if there is nothing to rename, or if something is in
\* the way.
CanRename(t) == staging[t] # NoDir /\ listed[t] = NoDir

Renamed(c) ==
    LET t == create[c].second
    IN  /\ listed' = [listed EXCEPT ![t] = staging[t]]
        /\ staging' = [staging EXCEPT ![t] = NoDir]
        /\ Step(c, "made")
        /\ answered' = answered \union {t}

\* The rename into place; one that fails is followed by the removal of what is there, if
\* there is something, and is an error otherwise.
Rename(c) ==
    LET t == create[c].second
    IN  /\ Copied(c)
        /\ IF CanRename(t) THEN Renamed(c)
           ELSE /\ Step(c, IF listed[t] # NoDir THEN "clear" ELSE "failed")
                /\ UNCHANGED <<staging, listed, answered>>
        /\ UNCHANGED <<clock, live, since, restore>>

\* remove_dir_all of the target.
Clear(c) ==
    /\ create[c].step = "clear"
    /\ listed' = [listed EXCEPT ![create[c].second] = NoDir]
    /\ Step(c, "again")
    /\ UNCHANGED <<clock, live, staging, since, answered, restore>>

\* The second rename.
RenameAgain(c) ==
    LET t == create[c].second
    IN  /\ create[c].step = "again"
        /\ IF CanRename(t) THEN Renamed(c)
           ELSE Step(c, "failed") /\ UNCHANGED <<staging, listed, answered>>
        /\ UNCHANGED <<clock, live, since, restore>>

\* The process dies.
Die(c) ==
    /\ create[c].step \in {"copy", "clear", "again"}
    /\ Step(c, "failed")
    /\ UNCHANGED <<clock, live, staging, listed, since, answered, restore>>

-----------------------------------------------------------------------------
\* restore: of a backup that is listed.  The gate lets one restore run at a time.
BeginRestore(t) ==
    /\ restore = NoRestore \/ restore.step = "done"
    /\ listed[t] # NoDir
    /\ restore' = [step |-> "copy", second |-> t, left |-> DOMAIN listed[t].has, touched |-> {}]
    /\ UNCHANGED <<clock, live, staging, listed, create, since, answered>>

RestoreFile(f) ==
    /\ restore # NoRestore /\ restore.step = "copy" /\ f \in restore.left
    /\ listed[restore.second] # NoDir /\ f \in DOMAIN listed[restore.second].has
    /\ Takes(f, listed[restore.second].has[f])
    /\ restore' = [restore EXCEPT !.left = @ \ {f}]
    /\ UNCHANGED <<clock, staging, listed, create, answered>>

\* The answer; and a restore that cannot copy a file, or dies, with what it has done so far.
EndRestore ==
    /\ restore # NoRestore /\ restore.step = "copy"
    /\ restore' = IF restore.left = {} THEN [restore EXCEPT !.step = "done"] ELSE NoRestore
    /\ UNCHANGED <<clock, live, staging, listed, create, since, answered>>

Next ==
    \/ Tick
    \/ \E t \in Seconds : BeginRestore(t)
    \/ \E f \in Files : Write(f) \/ RestoreFile(f)
    \/ EndRestore
    \/ \E c \in Creators :
          \/ Begin(c) \/ CopyFails(c) \/ Rename(c) \/ Clear(c) \/ RenameAgain(c) \/ Die(c)
          \/ \E f \in Files : CopyFile(c, f)

Spec == Init /\ [][Next]_vars

-----------------------------------------------------------------------------
Dirs == {NoDir} \union {Dir(has) : has \in UNION {[S -> 1..MaxVersion] : S \in SUBSET Files}}

TypeOK ==
    /\ clock \in Seconds /\ live \in [Files -> 1..MaxVersion]
    /\ staging \in [Seconds -> Dirs] /\ listed \in [Seconds -> Dirs]
    /\ since \in [Seconds -> [Files -> SUBSET (1..MaxVersion)]]
    /\ answered \subseteq Seconds

\* A backup has every file, each as it was at some moment since the call began.
IsWhole(t) ==
    /\ DOMAIN listed[t].has = Files
    /\ \A f \in Files : listed[t].has[f] \in since[t][f]

\* No two calls began in that second.
OneBegan(t) == \A c, d \in BegunIn(t) : c = d

\* "a crash or I/O error mid-copy leaves no half-written directory for a later list/restore
\* to pick up": a listed backup that was the only one begun in its second is whole, however
\* others of other seconds fail; one that was answered as made is listed; and a restore of it
\* that was answered as done has brought back every file, but for those written meanwhile.
BackupsAreWhole ==
    \A t \in Seconds : OneBegan(t) =>
        /\ listed[t] # NoDir => IsWhole(t)
        /\ t \in answered => listed[t] # NoDir
        /\ restore # NoRestore /\ restore.step = "done" /\ restore.second = t =>
              \A f \in Files \ restore.touched : live[f] = listed[t].has[f]

\* create: "the old target is never destroyed unless a complete new one is ready to take its
\* place".
MadeBackupsStay ==
    \A t \in answered : (\A c \in Creators : create[c].step \notin {"clear", "again"}) =>
        listed[t] # NoDir
=============================================================================
