------------------------------ MODULE MCTurns ------------------------------
(***************************************************************************)
(* A turn on small instances: the turns of one engine, and the call of the *)
(* local model server that a turn makes.  What a turn needs of the call,   *)
(* that a cancelled one comes to its end, is its fairness for CutShort and *)
(* the call's CallsEnd; the two share no other state, so a behaviour is of *)
(* one part, chosen at the start, and the other stays as it begins.        *)
(***************************************************************************)
EXTENDS SessionTurns

CONSTANTS MaxTokens, MaxOther, Capacity

VARIABLES part,
    kind, wire, server, buf, worker, data, chan, callCancelled, caller, seen

modelVars == <<kind, wire, server, buf, worker, data, chan, callCancelled, caller, seen>>

Model == INSTANCE ModelStream WITH cancelled <- callCancelled

ASSUME PartsAssumption == Model!CallAssumption

OfTurns(A) == part = "turns" /\ A /\ UNCHANGED <<part, modelVars>>
OfModel(A) == part = "model" /\ A /\ UNCHANGED <<part, vars>>

MCInit ==
    /\ part \in {"turns", "model"}
    /\ Init /\ Model!Init
    /\ part = "turns" => kind = "call"
    /\ part = "model" => \A c \in Calls : call[c].session = CHOOSE s \in Sessions : TRUE

MCNext == OfTurns(Next) \/ OfModel(Model!Next)

\* The fairness of each part, for the behaviours that are of that part.
MCSpec ==
    /\ MCInit /\ [][MCNext]_<<part, vars, modelVars>>
    /\ \A c \in Calls : WF_vars(OfTurns(Register(c))) /\ WF_vars(OfTurns(ThreadStep(c)))
    /\ WF_modelVars(OfModel(Model!Work))
    /\ WF_modelVars(OfModel(Model!Pull))

-----------------------------------------------------------------------------
(* The parts' properties, stated and explained in their own modules.       *)

\* The caller is given what the model server sent, whole and in order.
SeenIsSent == Model!SeenIsSent

\* A stopped turn ends, and a cancelled or ended call of the model leaves neither worker
\* nor caller behind.
TurnsAndCallsEnd == StoppedTurnsEnd /\ Model!CallsEnd
=============================================================================
