----------------------------- MODULE MCEndpoint -----------------------------
(***************************************************************************)
(* The endpoint on small instances: the server that takes connections, and *)
(* the relay of a streamed result over one of them.  The two share no      *)
(* state, so a behaviour is of one part, chosen at the start; the other    *)
(* stays as it begins.                                                     *)
(***************************************************************************)
EXTENDS EndpointServer

CONSTANT MaxPieces      \* bound: pieces the streamed work writes

VARIABLES part,
    work, written, chan, relay, reading, wire, link, forward, answer, local,
    surface, showing, shown

relayVars == <<work, written, chan, relay, reading, wire, link, forward, answer, local,
               surface, showing, shown>>

Relay == INSTANCE StreamRelay

ASSUME PartsAssumption == Relay!RelayAssumption

Server(A) == part = "server" /\ A /\ UNCHANGED <<part, relayVars>>
OfRelay(A) == part = "relay" /\ A /\ UNCHANGED <<part, vars>>

MCInit == part \in {"server", "relay"} /\ Init /\ Relay!Init

MCNext == Server(Next) \/ OfRelay(Relay!Next)

\* The fairness of each part, for the behaviours that are of that part.
MCSpec ==
    /\ MCInit /\ [][MCNext]_<<part, vars, relayVars>>
    /\ WF_vars(Server(AcceptThread))
    /\ WF_vars(Server(CloseLive))
    /\ \A c \in Conns : WF_vars(Server(RequestThread(c))) /\ WF_vars(Server(ClientWaits(c)))
    /\ WF_relayVars(OfRelay(Relay!Work))
    /\ WF_relayVars(OfRelay(Relay!RelayThread))
    /\ WF_relayVars(OfRelay(Relay!SpokeThread))
    /\ WF_relayVars(OfRelay(Relay!Surface))

-----------------------------------------------------------------------------
(* The parts' properties, stated and explained in their own modules.       *)

\* Every piece written is shown or on its way, in order.
NothingLostOnTheWay == Relay!NothingLostOnTheWay

\* The relay implements ResultStream, the promise of the streaming module.
KeepsItsPromise == Relay!KeepsItsPromise

\* Every client is answered or finds its connection closed, also when the server is dropped
\* around it; and "a subscriber is never left waiting for a result that cannot come".
EveryoneIsAnswered ==
    /\ ClientsAreSettled
    /\ (part = "relay" /\ forward = "waiting") ~> answer # "none"
    /\ answer = "stream" ~> (Relay!Ended(shown) \/ surface = "gone")
=============================================================================
