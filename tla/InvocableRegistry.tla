------------------------- MODULE InvocableRegistry -------------------------
(***************************************************************************)
(* The catalog of invocables and the handlers attached to them:            *)
(* domain/src/invocable/registry.rs, and attach and dispose of             *)
(* domain/src/invocable/dispatch.rs.                                       *)
(*                                                                         *)
(* The core and its extensions register descriptors through one door and   *)
(* contend for the bare form of each name's tail.  Descriptors are reduced *)
(* to their ids; whether one is well formed and whether a manifest grants  *)
(* contributing are inputs of a registration.                              *)
(***************************************************************************)
EXTENDS Naturals, Sequences, FiniteSets, SequencesExt

CONSTANTS
    Identities,     \* qualifiers, the core's among them
    Core,           \* CORE_IDENTITY
    Sources,        \* origins that loaders assign
    CoreSource,     \* CORE_SOURCE
    Tails,          \* unqualified names
    Observers,      \* how many observers there are, called in turn
    Faulty,         \* those that panic when called
    Behaviours,     \* what can be attached to an id
    MaxHandles,     \* bound: DispatchHandles outstanding at a time
    None

RegistryAssumption ==
    /\ Core \in Identities /\ CoreSource \in Sources
    /\ Observers \in Nat /\ Faulty \subseteq 1 .. Observers
    /\ MaxHandles \in Nat
    /\ None \notin Sources \cup Behaviours

VARIABLES
    byId,           \* registered ids, each with the source that registered it
    bare,           \* the claimants of each tail, in order of registration
    sources,        \* identity_sources: who claimed each identity
    seen,           \* the ids each observer was last shown
    handlers,       \* Dispatcher::handlers
    attached,       \* DispatchHandles not yet spent: what each attached
    answer          \* what the last operation answered

vars == <<byId, bare, sources, seen, handlers, attached, answer>>

Ids == [qualifier: Identities, tail: Tails]
Registered == {r.id : r \in byId}

\* The first claimant of the core, else the first of all.
bare_winner(claimants) ==
    LET core == {i \in DOMAIN claimants : claimants[i].qualifier = Core}
    IN claimants[IF core # {} THEN Min(core) ELSE 1]

Answer(kind, shadow) == [kind |-> kind, shadow |-> shadow]

Init ==
    /\ byId = {}
    /\ bare = [t \in Tails |-> <<>>]
    /\ sources = [i \in Identities |-> IF i = Core THEN CoreSource ELSE None]
    /\ seen = [o \in 1 .. Observers |-> {}]
    /\ handlers = [id \in Ids |-> None]
    /\ attached = {}
    /\ answer = Answer("none", <<>>)

\* notify_observers: each panic is caught on its own.
Notified(ids) ==
    [o \in 1 .. Observers |-> IF o \in Faulty THEN seen[o] ELSE ids]

-----------------------------------------------------------------------------
\* What registering answers, the checks in the order of the code.
Verdict(identity, source, granted, valid, id) ==
    IF ~valid THEN "InvalidDescriptor"
    ELSE IF id.qualifier # identity THEN "IdentityMismatch"
    ELSE IF identity # Core /\ ~granted THEN "MissingGrant"
    ELSE IF sources[identity] \notin {None, source} THEN "IdentityCollision"
    ELSE IF id \in Registered THEN "DuplicateId"
    ELSE "Ok"

\* Mutation of Claimed: an identity is claimed whatever comes of the attempt.
Claimed_Early(identity, source, verdict) ==
    IF sources[identity] = None THEN [sources EXCEPT ![identity] = source] ELSE sources

\* The identity is claimed once the checks on the registrant have passed, before
\* the id is looked up.
Claimed(identity, source, verdict) ==
    IF verdict \in {"DuplicateId", "Ok"} THEN [sources EXCEPT ![identity] = source]
    ELSE sources

\* The bare form's winner and loser, told to the one who registers.
Shadow(claimants, id) ==
    LET after == bare_winner(Append(claimants, id)) IN
    IF claimants = <<>> THEN <<>>
    ELSE IF bare_winner(claimants) = after THEN <<after, id>>
    ELSE <<after, bare_winner(claimants)>>

Register(identity, source, granted, valid, id) ==
    LET verdict == Verdict(identity, source, granted, valid, id) IN
    /\ sources' = Claimed(identity, source, verdict)
    /\ \/ /\ verdict = "Ok"
          /\ bare' = [bare EXCEPT ![id.tail] = Append(@, id)]
          /\ byId' = byId \cup {[id |-> id, by |-> source]}
          /\ seen' = Notified(Registered \cup {id})
          /\ answer' = Answer("Ok", Shadow(bare[id.tail], id))
       \/ /\ verdict # "Ok"
          /\ answer' = Answer(verdict, <<>>)
          /\ UNCHANGED <<byId, bare, seen>>
    /\ UNCHANGED <<handlers, attached>>

\* Mutation of DisposeRegistration: the claim on the bare form stays.
DisposeRegistration_KeepingBare(id) ==
    /\ id \in Registered
    /\ byId' = {r \in byId : r.id # id}
    /\ seen' = Notified(Registered \ {id})
    /\ answer' = Answer("disposed", <<>>)
    /\ UNCHANGED <<bare, sources, handlers, attached>>

\* RegistrationHandle::dispose.  A handle is spent once, and each registered id
\* has one; the identity stays claimed.  (retain drops every claim of the id; a
\* tail has each id once, see CatalogAgrees.)
DisposeRegistration(id) ==
    /\ id \in Registered
    /\ byId' = {r \in byId : r.id # id}
    /\ bare' = [bare EXCEPT ![id.tail] = RemoveFirst(@, id)]
    /\ seen' = Notified(Registered \ {id})
    /\ answer' = Answer("disposed", <<>>)
    /\ UNCHANGED <<sources, handlers, attached>>

\* Dispatcher::attach replaces what was attached, whoever attached it.  Handles
\* are told apart by what they attached, so each id's are as many at a time as
\* there are Behaviours.
Attach(id, behaviour) ==
    /\ <<id, behaviour>> \notin attached
    /\ Cardinality(attached) < MaxHandles
    /\ handlers' = [handlers EXCEPT ![id] = behaviour]
    /\ attached' = attached \cup {<<id, behaviour>>}
    /\ answer' = Answer("attached", <<>>)
    /\ UNCHANGED <<byId, bare, sources, seen>>

\* DispatchHandle::dispose removes what is attached to its id, its own or not.
DisposeHandler(handle) ==
    /\ handle \in attached
    /\ handlers' = [handlers EXCEPT ![handle[1]] = None]
    /\ attached' = attached \ {handle}
    /\ answer' = Answer("disposed", <<>>)
    /\ UNCHANGED <<byId, bare, sources, seen>>

Next ==
    \/ \E identity \in Identities, source \in Sources, granted, valid \in BOOLEAN, id \in Ids :
           Register(identity, source, granted, valid, id)
    \/ \E id \in Ids : DisposeRegistration(id)
    \/ \E id \in Ids, behaviour \in Behaviours : Attach(id, behaviour)
    \/ \E handle \in attached : DisposeHandler(handle)

Spec == Init /\ [][Next]_vars

-----------------------------------------------------------------------------
(* Properties.                                                             *)

\* What the catalog says agrees, in whatever order entries and handlers come
\* and go.  resolve and resolve_bare: the claimants of a tail are the registered
\* ids that end in it, each once, so a bare name whose winner is disposed falls
\* to one that is still there, and no contribution ever shadows a core name.  An
\* identity belongs to one origin: every id was registered by the source that
\* owns its qualifier, also after disposals.  And what answers for an id was
\* attached through a handle that is not spent, though handles of one id are
\* spent in any order and each removes whatever is attached.
CatalogAgrees ==
    /\ \A t \in Tails :
          /\ Range(bare[t]) = {id \in Registered : id.tail = t}
          /\ IsInjective(bare[t])
    /\ \A id \in Registered : id.qualifier = Core => bare_winner(bare[id.tail]) = id
    /\ \A r \in byId :
          r.by = sources[r.id.qualifier] /\ (r.id.qualifier = Core => r.by = CoreSource)
    /\ \A id \in Ids : handlers[id] # None => <<id, handlers[id]>> \in attached

\* A refused registration leaves no trace, though the identity is claimed
\* before the id is found to be taken.
RefusalsLeaveNoTrace ==
    [][answer'.kind \notin {"none", "Ok", "disposed", "attached"}
          => UNCHANGED <<byId, bare, sources, seen, handlers, attached>>]_vars
=============================================================================
