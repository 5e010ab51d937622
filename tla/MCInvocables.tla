---------------------------- MODULE MCInvocables ----------------------------
(***************************************************************************)
(* crates/domain/src/invocable on small instances: the dispatcher's calls, *)
(* the registry, and the masking of what a stream shows.  The three share  *)
(* no state, so a behaviour is of one part, chosen at the start; the       *)
(* others stay as they begin.                                              *)
(***************************************************************************)
EXTENDS InvocableDispatch

\* The registry's constants, explained in InvocableRegistry.
CONSTANTS Identities, Core, Sources, CoreSource, Tails, Observers, Faulty, Behaviours,
          MaxHandles, None

VARIABLES part,
    byId, bare, sources, seen, handlers, attached, reply,
    secrets, said, carry, shown, flushed

registryVars == <<byId, bare, sources, seen, handlers, attached, reply>>
maskVars == <<secrets, said, carry, shown, flushed>>

Registry == INSTANCE InvocableRegistry WITH answer <- reply

Mask == INSTANCE StreamMask WITH
    Letters <- {"a", "b"}, MaxSecret <- 3, MaxChunk <- 2, MaxText <- 7

ASSUME PartsAssumption == Registry!RegistryAssumption /\ Mask!MaskAssumption

OfDispatch(A) == part = "dispatch" /\ A /\ UNCHANGED <<part, registryVars, maskVars>>
OfRegistry(A) == part = "registry" /\ A /\ UNCHANGED <<part, vars, maskVars>>
OfMask(A) == part = "mask" /\ A /\ UNCHANGED <<part, vars, registryVars>>

MCInit ==
    /\ part \in {"dispatch", "registry", "mask"}
    /\ Init
    /\ part # "dispatch" =>
          /\ journaled
          /\ call = [c \in Calls |-> [kind |-> "unknown", binds |-> FALSE, attached |-> FALSE]]
    /\ Registry!Init /\ Mask!Init
    /\ part # "mask" => secrets = <<<<"a">>>>

MCNext == OfDispatch(Next) \/ OfRegistry(Registry!Next) \/ OfMask(Mask!Next)

\* The fairness of each part, for the behaviours that are of that part.
MCSpec ==
    /\ MCInit /\ [][MCNext]_<<part, vars, registryVars, maskVars>>
    /\ \A c \in Calls : WF_vars(OfDispatch(CallStep(c)))

-----------------------------------------------------------------------------
(* The parts' properties, stated and explained in their own modules.       *)

\* The registry's indexes, claims and handlers agree.
CatalogAgrees == Registry!CatalogAgrees

\* A refused registration leaves no trace.
RefusalsLeaveNoTrace == Registry!RefusalsLeaveNoTrace

\* Subscription's masking shows no secret, however the text is cut.
NoSecretShown == Mask!NoSecretShown
=============================================================================
