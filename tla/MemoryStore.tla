---------------------------- MODULE MemoryStore ----------------------------
(***************************************************************************)
(* The long-term memory of a workspace: the rows of one database file,     *)
(* their relationship edges, the session chains, and the passes that turn  *)
(* raw rows into consolidated ones (store-local, memory).                  *)
(*                                                                         *)
(* Every process opens the file for itself, and the consolidation path     *)
(* runs statement by statement with no transaction around it, so what      *)
(* other processes write lands between its statements and any statement    *)
(* may fail (the file is busy or full).  The operations that the code      *)
(* wraps in a transaction, and those of a single statement, are one step.  *)
(*                                                                         *)
(* Left out: the full-text index, trust scores, derived signals, expiry,   *)
(* the audit tables and the maintenance cooldown: statements on them are   *)
(* steps that may fail and leave nothing else.  Nothing modelled here      *)
(* reads them but the archive sweep, whose tests are a free choice.        *)
(*                                                                         *)
(* superseded_at is set unless a row's superseded is "no"; the other two   *)
(* values tell how it came to be set, which the code does not keep.        *)
(***************************************************************************)
EXTENDS Naturals, FiniteSets, Sequences, FiniteSetsExt

CONSTANTS
    Bodies,      \* texts, told apart after normalisation
    Depths,      \* the depths of the rows callers add
    InWorkspace, \* whether those rows name their workspace: a set of booleans
    Jobs,        \* passes, captures and refinements that may overlap
    MinCluster,  \* MC7_MIN_CLUSTER_SIZE
    MaxItems,    \* bound on rows ever inserted
    MaxTime,     \* bound on the clock, in seconds
    MaxFails,    \* bound on statements that fail
    MaxOps       \* bound on the operations other than adding and passes

VARIABLES
    rows,      \* memories: id -> row, for the ids stored
    made,      \* ids handed out; ids grow in the order of insertion
    edges,     \* memory_edge: <<source, target, predicate>>
    chains,    \* memory_chains: <<source, target>>
    watermark, \* consolidation_checkpoint
    pairs,     \* merge candidates a caller has read: <<keep, discard>>
    job,       \* what each of the overlapping writers is doing
    clock, fails, ops,
    committed, \* ids of inputs a pass counted as consolidated
    missed,    \* ids of inputs whose consolidation failed since
    merged     \* ids that took part in a merge

vars == <<rows, made, edges, chains, watermark, pairs, job, clock,
          fails, ops, committed, missed, merged>>

Summary == "summary"   \* the text of a synthesized summary, like no other
NoItem == 0
Idle == [kind |-> "none", stage |-> "idle", todo |-> <<>>, max |-> 0,
         item |-> NoItem, related |-> {}]

Ids == DOMAIN rows
Stored(i) == i \in Ids
Is(i, state) == rows[i].life = state

-----------------------------------------------------------------------------

Init ==
    /\ rows = <<>> /\ made = 0 /\ edges = {} /\ chains = {}
    /\ watermark = 0 /\ pairs = {}
    /\ job = [j \in Jobs |-> Idle]
    /\ clock = 1 /\ fails = 0 /\ ops = 0
    /\ committed = {} /\ missed = {} /\ merged = {}

Without(i) == [k \in Ids \ {i} |-> rows[k]]
With(i, row) == [k \in Ids \cup {i} |-> IF k = i THEN row ELSE rows[k]]

Row(body, depth, at, ws) ==
    [body |-> body, depth |-> depth, at |-> at, ws |-> ws,
     life |-> "Active", superseded |-> "no"]

\* insert takes a fresh id.
Insert(row) == made < MaxItems /\ made' = made + 1 /\ rows' = With(made + 1, row)

\* latest_in_workspace: the newest rows of the workspace, the row just
\* inserted among them; of several with one timestamp any may be the answer.
Latest(table) ==
    LET mine == {i \in DOMAIN table : table[i].ws}
    IN {i \in mine : \A k \in mine : table[i].at >= table[k].at}

\* add: insert the row, then link the latest row of its workspace to it.
Add(depth, body, ws) ==
    /\ Insert(Row(body, depth, clock, ws))
    /\ IF ws
       THEN \E prev \in Latest(rows') :
               chains' = IF prev = made + 1 THEN chains
                         ELSE chains \cup {<<prev, made + 1>>}
       ELSE chains' = chains
    /\ UNCHANGED <<edges, watermark, pairs, job, clock, fails, ops,
                   committed, missed, merged>>

-----------------------------------------------------------------------------
(* The consolidation path: run_incremental_pass and capture, both over     *)
(* consolidate.                                                            *)

\* The rows a pass takes up: neither consolidated nor under the watermark,
\* oldest first.
Due == {i \in Ids : rows[i].depth # "consolidated" /\ rows[i].at > watermark}

Candidates ==
    {s \in [1 .. Cardinality(Due) -> Due] :
        \A m, n \in DOMAIN s :
           m < n => \/ rows[s[m]].at < rows[s[n]].at
                    \/ rows[s[m]].at = rows[s[n]].at /\ s[m] < s[n]}

\* The whole row is read, whether or not it is superseded or archived.
Copy(i) == [id |-> i, body |-> rows[i].body, at |-> rows[i].at, ws |-> rows[i].ws,
            life |-> rows[i].life, superseded |-> rows[i].superseded]

StartPass(j) ==
    /\ job[j] = Idle
    /\ \E s \in Candidates :
          job' = [job EXCEPT ![j] =
                     [kind |-> "pass", stage |-> IF Due = {} THEN "mark" ELSE "find",
                      todo |-> [n \in 1 .. Cardinality(Due) |-> Copy(s[n])],
                      max |-> watermark, item |-> NoItem, related |-> {}]]
    /\ UNCHANGED <<rows, made, edges, chains, watermark, pairs, clock,
                   fails, ops, committed, missed, merged>>

\* capture: a candidate of its own, cited by nothing, with cross-references.
StartCapture(j, body, related) ==
    /\ job[j] = Idle /\ ops < MaxOps /\ ops' = ops + 1
    /\ job' = [job EXCEPT ![j] =
                  [kind |-> "capture", stage |-> "find",
                   todo |-> <<[id |-> NoItem, body |-> body, at |-> clock, ws |-> FALSE,
                               life |-> "Active", superseded |-> "no"]>>,
                   max |-> 0, item |-> NoItem, related |-> related]]
    /\ UNCHANGED <<rows, made, edges, chains, watermark, pairs, clock,
                   fails, committed, missed, merged>>

\* find_same_abstraction, by text over the active consolidated rows.
SameAbstraction(body) ==
    {i \in Ids : Is(i, "Active") /\ rows[i].depth = "consolidated" /\ rows[i].body = body}

Find(j) ==
    /\ job[j].stage = "find"
    /\ LET same == SameAbstraction(Head(job[j].todo).body)
       IN job' = [job EXCEPT ![j].stage = IF same = {} THEN "insert" ELSE "attach",
                             ![j].item = IF same = {} THEN NoItem ELSE Min(same)]
    /\ UNCHANGED <<rows, made, edges, chains, watermark, pairs, clock,
                   fails, ops, committed, missed, merged>>

\* The item made of a candidate: only the id and the depth are its own, so it
\* is archived, or superseded though nothing corrects it, when the candidate was.
Consolidated(c) ==
    [Row(c.body, "consolidated", c.at, c.ws) EXCEPT
        !.life = c.life,
        !.superseded = IF c.superseded = "no" THEN "no" ELSE "inherited"]

\* The create branch.
Create(j) ==
    /\ job[j].stage = "insert"
    /\ Insert(Consolidated(Head(job[j].todo)))
    /\ job' = [job EXCEPT ![j].stage = "cite", ![j].item = made + 1]
    /\ UNCHANGED <<edges, chains, watermark, pairs, clock, fails, ops,
                   committed, missed, merged>>

\* The row a pass works on; captures and refinements count for no watermark.
Input(b) == IF b.kind = "pass" THEN {Head(b.todo).id} ELSE {}

\* What a job goes on to once its candidate is done with.
After(b) ==
    IF b.kind # "pass" THEN Idle
    ELSE [b EXCEPT !.todo = Tail(@), !.item = NoItem,
                   !.stage = IF Len(b.todo) = 1 THEN "mark" ELSE "find"]

Failed(j) ==
    /\ job' = [job EXCEPT ![j] = After(@)]
    /\ missed' = missed \cup Input(job[j])
    /\ UNCHANGED committed

\* The write is complete; a capture has its cross-references before it.
Done(j) ==
    LET b == job[j]
    IN /\ job' = [job EXCEPT ![j] =
                     IF b.related # {} THEN [b EXCEPT !.stage = "refer"]
                     ELSE After([b EXCEPT !.max = Max({b.max, Head(b.todo).at})])]
       /\ missed' = missed \ Input(b)
       /\ committed' = committed \cup Input(b)

\* Mutation of Citations: only an item that was created is linked to its source.
Citations_OfCreated(b) ==
    {<<b.item, s, "derived-from">> :
        s \in {c \in {Head(b.todo).id} \ {NoItem} : b.stage = "cite"}}

\* The link to the source, where one is given: a capture has none.
Citations(b) == {<<b.item, s, "derived-from">> : s \in {Head(b.todo).id} \ {NoItem}}

\* add_edge.
Cite(j) ==
    /\ job[j].stage \in {"cite", "attach"}
    /\ edges' = edges \cup Citations(job[j])
    /\ job' = [job EXCEPT ![j].stage = IF @ = "attach" THEN "trust" ELSE "record"]
    /\ UNCHANGED <<rows, made, chains, watermark, pairs, clock, fails, ops,
                   committed, missed, merged>>

\* The trust of an item that is corroborated is read and raised: a failure
\* when the item is gone by then.
Trust(j) ==
    /\ job[j].stage = "trust"
    /\ IF Stored(job[j].item)
       THEN job' = [job EXCEPT ![j].stage = "record"] /\ UNCHANGED <<committed, missed>>
       ELSE Failed(j)
    /\ UNCHANGED <<rows, made, edges, chains, watermark, pairs, clock, fails,
                   ops, merged>>

\* record_action, the last statement of a write.
Record(j) ==
    /\ job[j].stage = "record" /\ Done(j)
    /\ UNCHANGED <<rows, made, edges, chains, watermark, pairs, clock, fails,
                   ops, merged>>

\* capture: the cross-references, one statement each.
Refer(j) ==
    /\ job[j].stage = "refer"
    /\ LET b == job[j]
       IN \E r \in b.related :
             /\ edges' = edges \cup {<<b.item, r, "cross-ref">>}
             /\ job' = [job EXCEPT ![j] = IF b.related = {r} THEN Idle
                                          ELSE [b EXCEPT !.related = b.related \ {r}]]
    /\ UNCHANGED <<rows, made, chains, watermark, pairs, clock, fails, ops,
                   committed, missed, merged>>

\* Any statement may fail, and what the earlier ones wrote stays: a pass goes
\* on to the next row, a capture or a refinement ends.
StatementFails(j) ==
    /\ job[j].stage \in {"find", "insert", "cite", "attach", "trust", "record", "refer"}
    /\ fails < MaxFails /\ fails' = fails + 1
    /\ Failed(j)
    /\ UNCHANGED <<rows, made, edges, chains, watermark, pairs, clock,
                   ops, merged>>

\* The watermark becomes the newest timestamp the pass committed.
Mark(j) ==
    /\ job[j].stage = "mark"
    /\ watermark' = job[j].max
    /\ job' = [job EXCEPT ![j] = Idle]
    /\ UNCHANGED <<rows, made, edges, chains, pairs, clock, fails, ops,
                   committed, missed, merged>>

\* The process ends in the middle, or the watermark cannot be written.
GiveUp(j) ==
    /\ job[j] # Idle /\ fails < MaxFails /\ fails' = fails + 1
    /\ job' = [job EXCEPT ![j] = Idle]
    /\ UNCHANGED <<rows, made, edges, chains, watermark, pairs, clock,
                   ops, committed, missed, merged>>

-----------------------------------------------------------------------------
(* Explicit writes and maintenance.                                        *)

Op == ops < MaxOps /\ ops' = ops + 1

\* refine: the text is compared with the one that was read and appended to; the
\* link to the source src, where one is given, and the audit follow, and no
\* transaction spans them.
Refine(j, i, body, src) ==
    /\ job[j] = Idle /\ Op /\ Stored(i) /\ body # rows[i].body
    /\ rows' = [rows EXCEPT ![i].body = body]
    /\ job' = [job EXCEPT ![j] =
                  [kind |-> "refine", stage |-> "cite",
                   todo |-> <<[Copy(i) EXCEPT !.id = src]>>,
                   max |-> 0, item |-> i, related |-> {}]]
    /\ UNCHANGED <<made, edges, chains, watermark, pairs, clock, fails,
                   committed, missed, merged>>

\* correct: one transaction; refused when the row is superseded already.
Correctable(i) == Stored(i) /\ rows[i].superseded = "no"

Correct(i, body) ==
    /\ Op /\ Correctable(i) /\ made < MaxItems
    /\ made' = made + 1
    /\ rows' = [k \in Ids \cup {made + 1} |->
                   IF k = made + 1 THEN Row(body, "consolidated", clock, FALSE)
                   ELSE [rows[k] EXCEPT !.superseded = IF k = i THEN "corrected" ELSE @]]
    /\ edges' = edges \cup {<<made + 1, i, "supersedes">>}
    /\ UNCHANGED <<chains, watermark, pairs, job, clock, fails,
                   committed, missed, merged>>

\* delete: the row goes, its edges and chains stay.
Delete(i) ==
    /\ Op /\ Stored(i)
    /\ rows' = Without(i)
    /\ UNCHANGED <<made, edges, chains, watermark, pairs, job, clock,
                   fails, committed, missed, merged>>

\* sweep_archive, touch and set_lifecycle_state.
SetLife(i, state) == rows' = [rows EXCEPT ![i].life = state]

Archive(i) ==
    /\ Op /\ Stored(i) /\ Is(i, "Active") /\ SetLife(i, "Archived")
    /\ UNCHANGED <<made, edges, chains, watermark, pairs, job, clock, fails,
                   committed, missed, merged>>

Touch(i) ==
    /\ Op /\ Stored(i) /\ Is(i, "Archived") /\ SetLife(i, "Active")
    /\ UNCHANGED <<made, edges, chains, watermark, pairs, job, clock,
                   fails, committed, missed, merged>>

\* find_merge_candidates: active rows of one text; the newer is kept, of two
\* with one timestamp the one inserted first.
FindPairs ==
    /\ Op
    /\ pairs' = {p \in Ids \X Ids :
                   LET k == rows[p[1]]  d == rows[p[2]]
                   IN /\ p[1] # p[2] /\ k.life = "Active" /\ d.life = "Active"
                      /\ k.body = d.body
                      /\ (k.at > d.at \/ (k.at = d.at /\ p[1] < p[2]))}
    /\ pairs' # {}
    /\ UNCHANGED <<rows, made, edges, chains, watermark, job, clock,
                   fails, committed, missed, merged>>

\* UPDATE of one end of every row of a table; OR IGNORE leaves a row that
\* would repeat another as it was.
Repointed(t, end, k, d, ignore) ==
    LET To(e) == [e EXCEPT ![end] = k]
        hit == {e \in t : e[end] = d /\ ~(ignore /\ To(e) \in t)}
    IN (t \ hit) \cup {To(e) : e \in hit}

Clashes(t, end, k, d) == \E e \in t : e[end] = d /\ [e EXCEPT ![end] = k] \in t

\* Mutation of MergedEdges: only the source ends are moved.
MergedEdges_SourcesOnly(k, d) ==
    {e \in Repointed(edges, 1, k, d, TRUE) : e[1] # e[2] /\ e[1] # d /\ e[2] # d}

\* Both ends are moved; what would link a row to itself goes.
MergedEdges(k, d) ==
    LET both == Repointed(Repointed(edges, 1, k, d, TRUE), 2, k, d, TRUE)
    IN {e \in both : e[1] # e[2] /\ e[1] # d /\ e[2] # d}

\* merge_pair, one transaction, on a pair that was read earlier.  The chains
\* have no OR IGNORE: a chain that would repeat another rolls it all back.
MergePair(k, d) ==
    LET moved == Repointed(chains, 1, k, d, FALSE)
        undone == Clashes(chains, 1, k, d) \/ Clashes(moved, 2, k, d)
    IN /\ <<k, d>> \in pairs /\ pairs' = pairs \ {<<k, d>>}
       /\ IF undone THEN UNCHANGED <<rows, edges, chains, merged>>
          ELSE /\ chains' = {c \in Repointed(moved, 2, k, d, FALSE) : c[1] # c[2]}
               /\ edges' = MergedEdges(k, d)
               /\ rows' = Without(d)
               /\ merged' = merged \cup {k, d}
       /\ UNCHANGED <<made, watermark, job, clock, fails, ops, committed, missed>>

\* The clusters of the edge graph: linked with nothing outside, and not to be parted.
Clusters ==
    LET nodes == {e[1] : e \in edges} \cup {e[2] : e \in edges}
        Apart(S) == \A e \in edges : e[1] \in S <=> e[2] \in S
    IN {c \in SUBSET nodes :
           c # {} /\ Apart(c) /\ \A S \in SUBSET c : Apart(S) => S \in {{}, c}}

\* synthesize_summaries, for one cluster: only one that nothing summarizes yet
\* and that has an active member.
Synthesize(c) ==
    /\ Op /\ Cardinality(c) >= MinCluster
    /\ ~\E e \in edges : e[2] \in c /\ e[3] = "summarizes"
    /\ \E i \in c : Stored(i) /\ Is(i, "Active")
    /\ Insert(Row(Summary, "consolidated", clock, FALSE))
    /\ edges' = edges \cup {<<made + 1, m, "summarizes">> : m \in c}
    /\ UNCHANGED <<chains, watermark, pairs, job, clock, fails,
                   committed, missed, merged>>

\* A second goes by.
Tick ==
    /\ clock < MaxTime /\ clock' = clock + 1
    /\ UNCHANGED <<rows, made, edges, chains, watermark, pairs, job, fails, ops,
                   committed, missed, merged>>

Next ==
    \/ \E d \in Depths, b \in Bodies, ws \in InWorkspace : Add(d, b, ws)
    \/ \E j \in Jobs :
          \/ StartPass(j) \/ Find(j) \/ Create(j) \/ Cite(j) \/ Trust(j)
          \/ Record(j) \/ Refer(j) \/ StatementFails(j) \/ Mark(j) \/ GiveUp(j)
          \/ \E b \in Bodies : \E r \in {{}} \cup {{i} : i \in Ids} : StartCapture(j, b, r)
          \/ \E i \in Ids, b \in Bodies, src \in Ids \cup {NoItem} : Refine(j, i, b, src)
    \/ \E i \in Ids :
          \/ Delete(i) \/ Archive(i) \/ Touch(i)
          \/ \E b \in Bodies : Correct(i, b)
    \/ FindPairs
    \/ \E p \in pairs : MergePair(p[1], p[2])
    \/ \E c \in Clusters : Synthesize(c)
    \/ Tick

Spec == Init /\ [][Next]_vars

-----------------------------------------------------------------------------
(* Properties.                                                             *)

\* An input a pass has counted as consolidated is cited by another row,
\* whatever failed or was merged or deleted since; only a merge of the input
\* itself ends that.  A row that was corrected has exactly one correction, and
\* a row with a correction was corrected: neither is ever seen without the
\* other.  A row that took over superseded_at from the row it was made of has
\* no correction of its own.
ProvenanceHolds ==
    /\ \A i \in committed \ merged :
          \E e \in edges : e[2] = i /\ e[1] # i /\ e[3] = "derived-from"
    /\ \A i \in Ids \ merged :
          Cardinality({e \in edges : e[2] = i /\ e[3] = "supersedes"})
             = IF rows[i].superseded = "corrected" THEN 1 ELSE 0

\* Whatever linked a row with a third one before it was merged away links the
\* row it was merged into with it afterwards, in the same direction and with
\* the same predicate, and nothing refers to the merged row any more.
MergesLoseNoLink ==
    [][\A k \in merged' , d \in merged' \ Ids' :
          (d \in Ids /\ <<k, d>> \in pairs \ pairs') =>
             /\ \A e \in edges :
                   /\ e[1] = d /\ e[2] \notin {k, d} => <<k, e[2], e[3]>> \in edges'
                   /\ e[2] = d /\ e[1] \notin {k, d} => <<e[1], k, e[3]>> \in edges'
             /\ \A e \in edges' : d \notin {e[1], e[2]}]_vars

\* "a failed input is not checkpointed, so it is retried on the next pass":
\* an input whose consolidation failed is still past the watermark.
FailedInputsAreRetried ==
    \A i \in missed \cap Ids :
       (\A j \in Jobs : job[j] = Idle) => rows[i].at > watermark

\* "Auto-chains to the most recent memory in the same workspace if one exists
\* within the session window": of two rows of a workspace the later was linked
\* to from an earlier one when it was added.
AddsAreChained ==
    \A i \in Ids : (rows[i].ws /\ \E k \in Ids : k < i /\ rows[k].ws /\ rows[k].at < rows[i].at)
                      => \E c \in chains : c[2] = i

\* "`target` is superseded (superseded_at set ...) and `corrected` is inserted as
\* a new item carrying a supersedes edge back to it": a superseded row has the
\* row that replaces it.
SupersededIsReplaced ==
    \A i \in Ids \ merged :
       rows[i].superseded # "no" => \E e \in edges : e[2] = i /\ e[3] = "supersedes"

\* "No path silently ... drops durable knowledge": when one of a pair is merged
\* away the row of the pair that is kept is there.
MergesKeepARow ==
    [][\A p \in pairs \ pairs' : p[2] \in Ids \ Ids' => p[1] \in Ids']_vars
=============================================================================
