------------------------------ MODULE Catalogs ------------------------------
(***************************************************************************)
(* The catalogs of the installation and the verbs that change them: the    *)
(* extension registry (domain/src/extensions/mod.rs) and the agent         *)
(* definitions (domain/src/agent_registry.rs), as ext.add, ext.activate,   *)
(* ext.deactivate, registry.create, registry.enable and registry.disable   *)
(* read and write them (core/src/installation/carry_out).                  *)
(*                                                                         *)
(* A verb loads a file, changes what it has loaded and writes the whole of *)
(* it.  The extension registry is written aside and renamed into place;    *)
(* the agent definitions are written in place.  Adding and creating take   *)
(* no gate, so verbs of two processes may overlap.                         *)
(***************************************************************************)
EXTENDS Naturals

CONSTANTS
    Procs,          \* processes that carry out verbs
    Exts,           \* extension ids
    Versions,       \* manifests an id may come with
    Builtins,       \* agent definitions the program ships
    Customs         \* names people give theirs

CatalogsAssumption == Builtins \intersect Customs = {}

VARIABLES
    about,          \* the catalog a behaviour is about: the two share no file
    alone,          \* whether verbs of this machine come one after another
    store,          \* extensions/registry.json
    staged,         \* extensions/registry.json.tmp
    agents,         \* agents/registry.json
    verb,           \* how far each process is
    shown,          \* the manifests a person has been shown and agreed to
    granted,        \* the manifests some activation has granted
    added,          \* the extensions answered as registered
    created         \* the definitions answered as created since a write was cut short

vars == <<about, alone, store, staged, agents, verb, shown, granted, added, created>>

Names == Builtins \union Customs

\* A file is not there, cannot be parsed (empty, cut short, mixed), or holds a whole catalog.
NoFile == [is |-> "none"]
Torn == [is |-> "torn"]
Whole(content) == [is |-> "whole", content |-> content]

NoEntry == [state |-> "none"]
Entry(version, state) == [state |-> state, version |-> version]
NoExtensions == [e \in Exts |-> NoEntry]

\* ExtensionRegistry::load: no file is an empty registry, an unreadable one an error.
Loadable(file) == file.is # "torn"
Extensions(file) == IF file.is = "whole" THEN file.content ELSE NoExtensions

\* A definition is as the program ships it, with its switch on or off, or one that people
\* made, under a name of their own or in the place of a built-in.
Shipped == {"shipped", "shippedOff"}
Own == {"on", "off"}
Switched(def, enabled) ==
    IF def \in Shipped THEN (IF enabled THEN "shipped" ELSE "shippedOff")
    ELSE IF enabled THEN "on" ELSE "off"

\* AgentRegistry::load: a file that is not there or cannot be read counts as empty, and the
\* built-in definitions are there whatever it says.
Seed == [n \in Names |-> IF n \in Builtins THEN "shipped" ELSE "none"]
Definitions(file) ==
    IF file.is # "whole" THEN Seed
    ELSE [n \in Names |-> IF file.content[n] = "none" THEN Seed[n] ELSE file.content[n]]

\* Mutation of Overlay: what has a built-in's name and is enabled counts as shipped.
Overlay_ByName(defs) ==
    [n \in Names |-> IF n \in Builtins /\ defs[n] \in {"shipped", "on"} THEN "none" ELSE defs[n]]

\* AgentRegistry::save_to, what it leaves out: built-ins that are as they ship.
Overlay(defs) == [n \in Names |-> IF defs[n] = "shipped" THEN "none" ELSE defs[n]]

Idle == [step |-> "idle"]

Init ==
    /\ about \in {"extensions", "agents"}
    /\ alone \in BOOLEAN
    /\ store = NoFile /\ staged = NoFile /\ agents = NoFile
    /\ verb = [p \in Procs |-> Idle]
    /\ shown = {} /\ granted = {} /\ added = {} /\ created = {}

May(p, catalog) ==
    /\ about = catalog
    /\ verb[p] = Idle
    /\ (alone => \A q \in Procs : verb[q] = Idle)

-----------------------------------------------------------------------------
(* What the verbs make of what they have loaded.                            *)

\* Mutation of Registered: a manifest that comes again keeps the state of the one it replaces.
Registered_KeepingState(registry, e, version) ==
    [registry EXCEPT ![e] = IF @ = NoEntry THEN Entry(version, "discovered")
                            ELSE Entry(version, @.state)]

\* register: a manifest that comes again starts afresh.
Registered(registry, e, version) == [registry EXCEPT ![e] = Entry(version, "discovered")]

\* ext_activate: permitted first where that is the next step, then active.
CanActivate(registry, e) == registry[e].state \in {"discovered", "permitted", "inactive"}
CanDeactivate(registry, e) == registry[e].state = "active"

Saving(content, e, for) ==
    [step |-> "open", content |-> content, ext |-> e, for |-> for]

\* ext.add
Add(p, e, version) ==
    /\ May(p, "extensions") /\ Loadable(store)
    /\ verb' = [verb EXCEPT ![p] = Saving(Registered(Extensions(store), e, version), e, "add")]
    /\ UNCHANGED <<about, alone, store, staged, agents, shown, granted, added, created>>

\* disclosure: the person is shown what the manifest declares, and agrees.
Disclose(p, e) ==
    /\ May(p, "extensions") /\ Loadable(store)
    /\ Extensions(store)[e] # NoEntry
    /\ verb' = [verb EXCEPT ![p] = [step |-> "agreed", ext |-> e]]
    /\ shown' = shown \union {<<e, Extensions(store)[e].version>>}
    /\ UNCHANGED <<about, alone, store, staged, agents, granted, added, created>>

\* ext.activate, acknowledged: the registry is loaded once more.
Activate(p) ==
    LET e == verb[p].ext
        registry == Extensions(store)
    IN  /\ verb[p].step = "agreed"
        /\ IF Loadable(store) /\ CanActivate(registry, e)
           THEN /\ verb' = [verb EXCEPT ![p] =
                              Saving([registry EXCEPT ![e].state = "active"], e, "activate")]
                /\ granted' = granted \union {<<e, registry[e].version>>}
           ELSE verb' = [verb EXCEPT ![p] = Idle] /\ UNCHANGED granted
        /\ UNCHANGED <<about, alone, store, staged, agents, shown, added, created>>

\* ext.deactivate
Deactivate(p, e) ==
    /\ May(p, "extensions") /\ Loadable(store) /\ CanDeactivate(Extensions(store), e)
    /\ verb' = [verb EXCEPT ![p] =
                  Saving([Extensions(store) EXCEPT ![e].state = "inactive"], e, "deactivate")]
    /\ UNCHANGED <<about, alone, store, staged, agents, shown, granted, added, created>>

-----------------------------------------------------------------------------
(* save_to of the extension registry.                                       *)

\* Mutation of OpenStaged: the store itself is written.
OpenStaged_InPlace(p) ==
    /\ verb[p].step = "open"
    /\ store' = Torn
    /\ verb' = [verb EXCEPT ![p] = [step |-> "fill", content |-> @.content, ext |-> @.ext,
                                    for |-> @.for, file |-> "store"]]
    /\ UNCHANGED <<about, alone, staged, agents, shown, granted, added, created>>

\* fs::write of the staged file: created, or emptied ...
OpenStaged(p) ==
    /\ verb[p].step = "open"
    /\ staged' = Torn
    /\ verb' = [verb EXCEPT ![p] = [step |-> "fill", content |-> @.content, ext |-> @.ext,
                                    for |-> @.for, file |-> "staged"]]
    /\ UNCHANGED <<about, alone, store, agents, shown, granted, added, created>>

\* What a file holds once a text was written to its beginning: over another's text, that
\* other's tail may stay behind it.
Filled(file, content) ==
    {Whole(content)} \union (IF file.is = "whole" THEN {Torn} ELSE {})

\* ... and filled, under whatever name another process's rename has given it.
FillStaged(p) ==
    LET into == verb[p].file
    IN  /\ verb[p].step = "fill"
        /\ staged' \in IF into = "staged" THEN Filled(staged, verb[p].content) ELSE {staged}
        /\ store' \in IF into = "store" THEN Filled(store, verb[p].content) ELSE {store}
        /\ verb' = [verb EXCEPT ![p] = [step |-> "rename", ext |-> @.ext, for |-> @.for]]
        /\ UNCHANGED <<about, alone, agents, shown, granted, added, created>>

\* Where the file a process holds open is after the staged one was renamed over the store.
Follows(v) ==
    IF v.step # "fill" THEN v
    ELSE [v EXCEPT !.file = IF @ = "staged" THEN "store" ELSE "gone"]

\* fs::rename, and the answer; with no staged file left the verb answers an error.
Rename(p) ==
    /\ verb[p].step = "rename"
    /\ IF staged = NoFile
       THEN verb' = [verb EXCEPT ![p] = Idle] /\ UNCHANGED <<store, staged, added>>
       ELSE /\ store' = staged
            /\ staged' = NoFile
            /\ verb' = [q \in Procs |-> IF q = p THEN Idle ELSE Follows(verb[q])]
            /\ added' = IF verb[p].for = "add" THEN added \union {verb[p].ext} ELSE added
    /\ UNCHANGED <<about, alone, agents, shown, granted, created>>

-----------------------------------------------------------------------------
(* The agent definitions.                                                   *)

Writing(defs, made) == [step |-> "openAgents", content |-> Overlay(defs), made |-> made]

\* registry.create: a definition of that name is replaced, a disabled or a built-in one too.
Create(p, n) ==
    /\ May(p, "agents")
    /\ verb' = [verb EXCEPT ![p] = Writing([Definitions(agents) EXCEPT ![n] = "on"], {n})]
    /\ UNCHANGED <<about, alone, store, staged, agents, shown, granted, added, created>>

\* registry.enable, registry.disable: of a definition that is there.
SetEnabled(p, n, enabled) ==
    LET def == Definitions(agents)[n]
    IN  /\ May(p, "agents") /\ def # "none"
        /\ verb' = [verb EXCEPT ![p] =
                      Writing([Definitions(agents) EXCEPT ![n] = Switched(def, enabled)], {})]
        /\ UNCHANGED <<about, alone, store, staged, agents, shown, granted, added, created>>

\* fs::write in place: the file is emptied ...
OpenAgents(p) ==
    /\ verb[p].step = "openAgents"
    /\ agents' = Torn
    /\ verb' = [verb EXCEPT ![p].step = "fillAgents"]
    /\ UNCHANGED <<about, alone, store, staged, shown, granted, added, created>>

\* ... and filled.
FillAgents(p) ==
    /\ verb[p].step = "fillAgents"
    /\ agents' \in Filled(agents, verb[p].content)
    /\ verb' = [verb EXCEPT ![p] = Idle]
    /\ created' = created \union verb[p].made
    /\ UNCHANGED <<about, alone, store, staged, shown, granted, added>>

\* A process dies, or its write fails, anywhere.
Die(p) ==
    /\ verb[p] # Idle
    /\ verb' = [verb EXCEPT ![p] = Idle]
    /\ created' = IF verb[p].step = "fillAgents" THEN {} ELSE created
    /\ UNCHANGED <<about, alone, store, staged, agents, shown, granted, added>>

Next == \E p \in Procs :
    \/ \E e \in Exts :
          \/ \E version \in Versions : Add(p, e, version)
          \/ Disclose(p, e) \/ Deactivate(p, e)
    \/ \E n \in Names : Create(p, n) \/ \E enabled \in BOOLEAN : SetEnabled(p, n, enabled)
    \/ Activate(p) \/ OpenStaged(p) \/ FillStaged(p) \/ Rename(p)
    \/ OpenAgents(p) \/ FillAgents(p)
    \/ Die(p)

Spec == Init /\ [][Next]_vars

-----------------------------------------------------------------------------
Files(contents) == {NoFile, Torn} \union {Whole(c) : c \in contents}
ExtStates == {"discovered", "permitted", "active", "inactive"}
Registries ==
    [Exts -> {NoEntry} \union {Entry(v, s) : v \in Versions, s \in ExtStates}]

TypeOK ==
    /\ alone \in BOOLEAN
    /\ store \in Files(Registries) /\ staged \in Files(Registries)
    /\ agents \in Files([Names -> {"none"} \union Shipped \union Own])
    /\ shown \subseteq Exts \X Versions /\ granted \subseteq Exts \X Versions
    /\ added \subseteq Exts /\ created \subseteq Names

\* register: "a changed manifest can never inherit an earlier grant".  However verbs overlap
\* and whatever stale registry one of them writes back, what is active is active under a
\* manifest that an activation was carried out for.
GrantsAreOfTheManifest ==
    \A e \in Exts :
        LET entry == Extensions(store)[e]
        IN  entry.state = "active" => <<e, entry.version>> \in granted

\* Verbs that come one after another, and die anywhere, lose no extension that was answered
\* as registered, and leave a registry that can be loaded.
RegisteredIsKept ==
    alone => Loadable(store) /\ \A e \in added : Extensions(store)[e] # NoEntry

\* A definition that was answered as created is there for a later verb, and is not taken
\* for one the program ships, whatever its name.  Only a write that is cut short loses
\* definitions, all that there were, for which AgentRegistry::load says the built-in ones
\* are enough; those created after it are kept again.
CreatedIsKept ==
    alone /\ (\A p \in Procs : verb[p].step # "fillAgents") =>
        \A n \in created : Definitions(agents)[n] \in Own

\* The catalogs as a later verb finds them: what was answered is kept, what is active was
\* granted.
CatalogsHold == GrantsAreOfTheManifest /\ RegisteredIsKept /\ CreatedIsKept

\* save_to: "an interrupted write can never leave the store half-written".
StoreIsNeverHalfWritten == Loadable(store)

\* ext_activate runs "only when the caller says the person has seen that and agreed".
GrantsWereShown == granted \subseteq shown
=============================================================================
