---------------------------- MODULE EndpointProofs --------------------------
(***************************************************************************)
(* The listener for any connections, limit and faults.  The connection in  *)
(* the accept thread's hand is the one being placed (HandFollowsPlaces), a *)
(* socket leaves the list only to be closed or when its request is over    *)
(* (ListFollowsPlaces), and once the server is dropped nothing is placed   *)
(* any more (DropComesLast).  From these: the counter is the number of     *)
(* places taken, never above the limit and never below zero; and no socket *)
(* that a client still waits at escapes the drop.                          *)
(*                                                                         *)
(* The relay of a streamed result implements ResultStream, for any number  *)
(* of pieces.  InFlight is one sequence, cut into eight; Down is the part  *)
(* of it that has left the engine, Before what of that the spoke has.  A   *)
(* step moves an item over one of the cuts, or adds one at the upper end,  *)
(* or loses some from the middle: then the connection is no longer open,   *)
(* and nothing follows what was left but the news that there will be no    *)
(* result.  The last part carries both to the composition the runs check.  *)
(***************************************************************************)
EXTENDS MCEndpoint, FiniteSetTheorems, SequenceTheorems, TLAPS

TypeOK ==
    /\ conn \in [Conns -> Places]
    /\ hand \in Conns \cup {NoConn}
    /\ active \in Nat
    /\ live \subseteq Conns
    /\ unlisted \subseteq Conns
    /\ cut \subseteq Conns
    /\ stop \in BOOLEAN
    /\ waking \in BOOLEAN
    /\ listening \in BOOLEAN
    /\ dropping \in {"no", "join", "dropped"}
    /\ client \in [Conns -> Heard]

\* The connections that hold a place: those counted and not yet given back.
Holders == At(Counted \cup {"dead"})

PlacesAreCounted ==
    /\ active = Cardinality(Holders)
    /\ active <= MaxConnections

\* The accept thread has in hand what it has counted and not handed over.
HandFollowsPlaces ==
    \A c \in Conns : conn[c] \in {"counted", "listed"} <=> hand = c

\* From its listing to the end of its request a socket is on the list, was shut down, or
\* could not be cloned; and none other is on the list.
ListFollowsPlaces ==
    \A c \in Conns :
        /\ c \in live => conn[c] \in {"listed", "serving", "served", "dead", "unstarted"}
        /\ conn[c] \in {"listed", "serving", "served", "dead", "unstarted"}
              => c \in live \cup unlisted \cup cut

\* Once the listener is closed nothing is placed, and the sockets are shut down only then.
DropComesLast ==
    /\ ~listening => hand = NoConn
    /\ dropping = "dropped" => ~listening /\ live = {}

\* A client that has not asked has no connection.
IdleMeansUnconnected == \A c \in Conns : client[c] = "idle" => conn[c] = "none"

IInv ==
    /\ TypeOK
    /\ IdleMeansUnconnected
    /\ PlacesAreCounted
    /\ HandFollowsPlaces
    /\ ListFollowsPlaces
    /\ DropComesLast

-----------------------------------------------------------------------------
\* Nobody has connected.
LEMMA InitIInv == Init => IInv
<1> SUFFICES ASSUME Init PROVE IInv
    OBVIOUS
<1>1. TypeOK /\ IdleMeansUnconnected /\ HandFollowsPlaces /\ ListFollowsPlaces /\ DropComesLast
    BY ServerAssumption
    DEF Init, TypeOK, Places, Heard, HandFollowsPlaces, ListFollowsPlaces, DropComesLast,
        IdleMeansUnconnected
<1>2. Holders = {}
    BY DEF Init, Holders, At, Counted
<1>3. PlacesAreCounted
    BY <1>2, FS_EmptySet, ServerAssumption DEF Init, PlacesAreCounted
<1> QED BY <1>1, <1>3 DEF IInv

\* Connections are finitely many, and so are those at any places.
LEMMA AtIsFinite ==
    ASSUME NEW places
    PROVE  /\ IsFiniteSet(At(places))
           /\ Cardinality(At(places)) \in Nat
BY ServerAssumption, FS_Subset, FS_CardinalityType DEF At

\* A place taken by a connection that held none is one place more.
LEMMA TakingAPlace ==
    ASSUME TypeOK, NEW c \in Conns, c \notin Holders,
           NEW to \in Counted \cup {"dead"}, conn' = [conn EXCEPT ![c] = to]
    PROVE  Cardinality(Holders') = Cardinality(Holders) + 1
<1>1. Holders' = Holders \cup {c}
    BY DEF Holders, At, TypeOK
<1> QED BY <1>1, AtIsFinite, FS_AddElement DEF Holders

\* One given back by a connection that held it is one less, and there was one.
LEMMA GivingAPlaceBack ==
    ASSUME TypeOK, NEW c \in Holders,
           NEW to, to \notin Counted \cup {"dead"}, conn' = [conn EXCEPT ![c] = to]
    PROVE  /\ Cardinality(Holders') = Cardinality(Holders) - 1
           /\ Cardinality(Holders') \in Nat
<1>1. Holders' = Holders \ {c}
    BY DEF Holders, At, TypeOK
<1>2. IsFiniteSet(Holders)
    BY AtIsFinite DEF Holders
<1> QED BY <1>1, <1>2, FS_RemoveElement, FS_CardinalityType

\* A move between places that count, or between places that do not, leaves it.
LEMMA KeepingAPlace ==
    ASSUME TypeOK, NEW c \in Conns, NEW to,
           conn[c] \in Counted \cup {"dead"} <=> to \in Counted \cup {"dead"},
           conn' = [conn EXCEPT ![c] = to]
    PROVE  Holders' = Holders
BY DEF Holders, At, TypeOK

-----------------------------------------------------------------------------
\* Types are kept by every step but the giving back, whose counter is the lemma below.
LEMMA NextType ==
    ASSUME IInv, [Next]_vars, active' \in Nat
    PROVE  TypeOK'
<1> USE DEF IInv, TypeOK, Places, Heard, acceptVars
<1>1. ASSUME NEW c \in Conns, Connect(c) PROVE TypeOK'
    BY <1>1 DEF Connect
<1>2. ASSUME NEW c \in Conns, ClientWaits(c) PROVE TypeOK'
    BY <1>2 DEF ClientWaits, LoseConnection, TimeOut, Hears
<1>3. ASSUME NEW c \in Conns, Accept(c) PROVE TypeOK'
    BY <1>3 DEF Accept, Hears
<1>4. ASSUME NEW c \in Conns, List(c) PROVE TypeOK'
    BY <1>4 DEF List
<1>5. ASSUME NEW c \in Conns, Spawn(c) PROVE TypeOK'
    BY <1>5 DEF Spawn
<1>6. CASE EndAccept
    BY <1>6 DEF EndAccept
<1>7. ASSUME NEW c \in Conns, ServeConnection(c) PROVE TypeOK'
    BY <1>7 DEF ServeConnection, Hears
<1>8. ASSUME NEW c \in Conns, Unlist(c) PROVE TypeOK'
    BY <1>8 DEF Unlist
<1>9. ASSUME NEW c \in Conns, GiveBack(c) PROVE TypeOK'
    BY <1>9 DEF GiveBack
<1>10. CASE StopServer
    BY <1>10 DEF StopServer
<1>11. CASE CloseLive
    BY <1>11 DEF CloseLive
<1>12. CASE UNCHANGED vars
    BY <1>12 DEF vars
<1> QED
    BY <1>1, <1>2, <1>3, <1>4, <1>5, <1>6, <1>7, <1>8, <1>9, <1>10, <1>11, <1>12
    DEF Next, AcceptThread, RequestThread

\* The counter follows the places, whoever takes or gives one back.
LEMMA NextPlaces ==
    ASSUME IInv, [Next]_vars
    PROVE  PlacesAreCounted' /\ active' \in Nat
<1> USE DEF IInv, TypeOK, PlacesAreCounted
<1>0. ASSUME Holders' = Holders, active' = active
      PROVE  PlacesAreCounted' /\ active' \in Nat
    BY <1>0
<1>1. ASSUME NEW c \in Conns, NEW to, conn' = [conn EXCEPT ![c] = to], active' = active,
             conn[c] \in Counted \cup {"dead"} <=> to \in Counted \cup {"dead"}
      PROVE  PlacesAreCounted' /\ active' \in Nat
    BY <1>0, <1>1, KeepingAPlace
<1>2. ASSUME NEW c \in Holders, NEW to, conn' = [conn EXCEPT ![c] = to],
             to \notin Counted \cup {"dead"}, active' = active - 1
      PROVE  PlacesAreCounted' /\ active' \in Nat
    <2>1. Cardinality(Holders') = Cardinality(Holders) - 1 /\ Cardinality(Holders') \in Nat
        BY <1>2, GivingAPlaceBack
    <2> QED BY <1>2, <2>1, ServerAssumption
<1>3. ASSUME UNCHANGED <<conn, active>> PROVE PlacesAreCounted' /\ active' \in Nat
    BY <1>0, <1>3 DEF Holders, At
<1>4. ASSUME NEW c \in Conns, Connect(c) PROVE PlacesAreCounted' /\ active' \in Nat
    <2>1. CASE UNCHANGED conn
        BY <1>3, <1>4, <2>1 DEF Connect
    <2>2. CASE conn' = [conn EXCEPT ![c] = "queued"]
        BY <1>1, <1>4, <2>2 DEF Connect, IdleMeansUnconnected, Counted
    <2> QED BY <1>4, <2>1, <2>2 DEF Connect
<1>5. ASSUME NEW c \in Conns, ClientWaits(c) PROVE PlacesAreCounted' /\ active' \in Nat
    BY <1>3, <1>5 DEF ClientWaits, LoseConnection, TimeOut
<1>6. ASSUME NEW c \in Conns, Accept(c) PROVE PlacesAreCounted' /\ active' \in Nat
    <2>1. c \notin Holders
        BY <1>6 DEF Accept, Holders, At, Counted
    <2>2. CASE conn' = [conn EXCEPT ![c] = "done"] /\ UNCHANGED active
        BY <1>1, <1>6, <2>2 DEF Accept, Counted
    <2>3. CASE active < MaxConnections /\ active' = active + 1
                 /\ conn' = [conn EXCEPT ![c] = "counted"]
        <3>1. Cardinality(Holders') = Cardinality(Holders) + 1
            BY <2>1, <2>3, TakingAPlace DEF Counted
        <3> QED BY <2>3, <3>1, ServerAssumption
    <2> QED BY <1>6, <2>2, <2>3 DEF Accept
<1>7. ASSUME NEW c \in Conns, List(c) PROVE PlacesAreCounted' /\ active' \in Nat
    BY <1>1, <1>7 DEF List, Counted
<1>8. ASSUME NEW c \in Conns, Spawn(c) PROVE PlacesAreCounted' /\ active' \in Nat
    <2>1. CASE conn' = [conn EXCEPT ![c] = "serving"] /\ UNCHANGED active
        BY <1>1, <1>8, <2>1 DEF Spawn, Counted
    <2>2. CASE conn' = [conn EXCEPT ![c] = "unstarted"] /\ active' = active - 1
        BY <1>2, <1>8, <2>2 DEF Spawn, Counted, Holders, At
    <2> QED BY <1>8, <2>1, <2>2 DEF Spawn
<1>9. CASE EndAccept
    <2>1. Holders' = Holders
        BY <1>9 DEF EndAccept, Holders, At, Counted
    <2> QED BY <1>0, <1>9, <2>1 DEF EndAccept
<1>10. ASSUME NEW c \in Conns, ServeConnection(c) PROVE PlacesAreCounted' /\ active' \in Nat
    BY <1>1, <1>10 DEF ServeConnection, Counted
<1>11. ASSUME NEW c \in Conns, Unlist(c) PROVE PlacesAreCounted' /\ active' \in Nat
    BY <1>1, <1>11 DEF Unlist, Counted
<1>12. ASSUME NEW c \in Conns, GiveBack(c) PROVE PlacesAreCounted' /\ active' \in Nat
    BY <1>2, <1>12 DEF GiveBack, Counted, Holders, At
<1>13. CASE StopServer \/ CloseLive \/ UNCHANGED vars
    BY <1>3, <1>13 DEF StopServer, CloseLive, vars
<1> QED
    BY <1>4, <1>5, <1>6, <1>7, <1>8, <1>9, <1>10, <1>11, <1>12, <1>13
    DEF Next, AcceptThread, RequestThread

\* What is in hand, on the list and closed stays as the places say.
LEMMA NextList ==
    ASSUME IInv, [Next]_vars
    PROVE  /\ IdleMeansUnconnected'
           /\ HandFollowsPlaces'
           /\ ListFollowsPlaces'
           /\ DropComesLast'
<1> DEFINE Follows == /\ IdleMeansUnconnected
                      /\ HandFollowsPlaces
                      /\ ListFollowsPlaces
                      /\ DropComesLast
<1> USE ServerAssumption
    DEF IInv, TypeOK, Places, Heard, acceptVars, IdleMeansUnconnected, HandFollowsPlaces,
        ListFollowsPlaces, DropComesLast
<1>1. ASSUME NEW c \in Conns, Connect(c) PROVE Follows'
    BY <1>1 DEF Connect
<1>2. ASSUME NEW c \in Conns, ClientWaits(c) PROVE Follows'
    BY <1>2 DEF ClientWaits, LoseConnection, TimeOut, Hears
<1>3. ASSUME NEW c \in Conns, Accept(c) PROVE Follows'
    BY <1>3 DEF Accept, Hears
<1>4. ASSUME NEW c \in Conns, List(c) PROVE Follows'
    BY <1>4 DEF List
<1>5. ASSUME NEW c \in Conns, Spawn(c) PROVE Follows'
    BY <1>5 DEF Spawn
<1>6. CASE EndAccept
    BY <1>6 DEF EndAccept
<1>7. ASSUME NEW c \in Conns, ServeConnection(c) PROVE Follows'
    BY <1>7 DEF ServeConnection, Hears
<1>8. ASSUME NEW c \in Conns, Unlist(c) PROVE Follows'
    BY <1>8 DEF Unlist
<1>9. ASSUME NEW c \in Conns, GiveBack(c) PROVE Follows'
    BY <1>9 DEF GiveBack
<1>10. CASE StopServer
    BY <1>10 DEF StopServer
<1>11. CASE CloseLive
    BY <1>11 DEF CloseLive
<1>12. CASE UNCHANGED vars
    BY <1>12 DEF vars
<1> QED
    BY <1>1, <1>2, <1>3, <1>4, <1>5, <1>6, <1>7, <1>8, <1>9, <1>10, <1>11, <1>12
    DEF Next, AcceptThread, RequestThread

\* The strengthened invariant holds always.
THEOREM ServerInvariant == Spec => []IInv
<1>1. IInv /\ [Next]_vars => IInv'
    <2> SUFFICES ASSUME IInv, [Next]_vars PROVE IInv'
        OBVIOUS
    <2> QED BY NextPlaces, NextType, NextList DEF IInv
<1> QED BY <1>1, InitIInv, PTL DEF Spec

\* Every variable keeps its type; the counter is a natural number, so it never wraps
\* below zero (server.rs, fetch_sub on Context::active).
THEOREM ServerTypes == Spec => []TypeOK
<1>1. IInv => TypeOK
    BY DEF IInv
<1> QED BY <1>1, ServerInvariant, PTL

\* Every place taken is given back exactly once, except by a thread that panicked, and no
\* more than MAX_CONNECTIONS are served at once, in whatever order threads end, fail to
\* start and panic (accept_loop, serve_connection).
THEOREM PlacesAreAccounted == Spec => []PlacesAreAccountedFor
<1>1. ASSUME IInv PROVE PlacesAreAccountedFor
    <2> DEFINE S == At({"counted", "listed", "serving", "served"})
    <2>1. S \in SUBSET Holders /\ IsFiniteSet(Holders)
        BY AtIsFinite DEF Holders, At, Counted
    <2>2. Cardinality(S) <= Cardinality(Holders)
        BY <2>1, FS_Subset
    <2>3. Cardinality(S) \in Nat
        BY AtIsFinite
    <2>4. Cardinality(S) <= MaxConnections
        BY <1>1, <2>2, <2>3, ServerAssumption DEF IInv, TypeOK, PlacesAreCounted
    <2> QED BY <1>1, <2>4 DEF IInv, PlacesAreCounted, PlacesAreAccountedFor, Holders
<1> QED BY <1>1, ServerInvariant, PTL

\* A socket that a client still waits at when the server has been dropped was shut down, or
\* could not be cloned: none is still being placed (Drop for Server joins the accept
\* thread before it closes the list).
THEOREM DropClosesAll == Spec => []DroppedMeansClosed
<1>1. IInv => DroppedMeansClosed
    BY ServerAssumption
    DEF IInv, TypeOK, HandFollowsPlaces, ListFollowsPlaces, DropComesLast,
        DroppedMeansClosed, Open
<1> QED BY <1>1, ServerInvariant, PTL

-----------------------------------------------------------------------------
\* What a client that waits is told, it is told for a reason: an answer only by a server
\* that had not shut its connection down, a refusal only by a full one, and the loss of
\* its connection only when every handle on the socket is closed or it was shut down.
\* And what it was told it is told once (Link::read in client.rs).
HeardForAReason ==
    [][\A c \in Conns : client'[c] # client[c] =>
          /\ client[c] \in {"idle", "waiting"}
          /\ client'[c] = "answered" => conn[c] = "serving" /\ c \notin cut
          /\ client'[c] = "refused" => Cardinality(Holders) >= MaxConnections
          /\ client'[c] = "lost" => c \in cut \/ ~Open(c)
          /\ client'[c] = "timedout" => c \in Quick]_vars

\* Each client's outcome is settled once and has its cause.
THEOREM ClientsHearTheTruth == Spec => HeardForAReason
<1> DEFINE Told(c) ==
        /\ client[c] \in {"idle", "waiting"}
        /\ client'[c] = "answered" => conn[c] = "serving" /\ c \notin cut
        /\ client'[c] = "refused" => Cardinality(Holders) >= MaxConnections
        /\ client'[c] = "lost" => c \in cut \/ ~Open(c)
        /\ client'[c] = "timedout" => c \in Quick
<1>1. ASSUME IInv, Next, NEW c \in Conns, client'[c] # client[c] PROVE Told(c)
    <2> USE DEF IInv, TypeOK, acceptVars
    <2>1. CASE \E d \in Conns : Connect(d)
        BY <1>1, <2>1 DEF Connect, Open, IdleMeansUnconnected, ListFollowsPlaces
    <2>2. CASE \E d \in Conns : ClientWaits(d)
        BY <1>1, <2>2 DEF ClientWaits, LoseConnection, TimeOut, Hears
    <2>3. CASE \E d \in Conns : Accept(d)
        BY <1>1, <2>3 DEF Accept, Hears, PlacesAreCounted
    <2>4. CASE \E d \in Conns : ServeConnection(d)
        BY <1>1, <2>4 DEF ServeConnection, Hears
    <2>5. CASE \E d \in Conns : List(d) \/ Spawn(d) \/ Unlist(d) \/ GiveBack(d)
        BY <1>1, <2>5 DEF List, Spawn, Unlist, GiveBack
    <2>6. CASE EndAccept \/ StopServer \/ CloseLive
        BY <1>1, <2>6 DEF EndAccept, StopServer, CloseLive
    <2> QED
        BY <1>1, <2>1, <2>2, <2>3, <2>4, <2>5, <2>6 DEF Next, AcceptThread, RequestThread
<1>2. IInv /\ [Next]_vars =>
        [\A c \in Conns : client'[c] # client[c] => Told(c)]_vars
    BY <1>1
<1> QED BY <1>2, ServerInvariant, PTL DEF Spec, HeardForAReason

-----------------------------------------------------------------------------
(* The relay.                                                              *)

Before == shown \o showing.ready \o showing.carry \o local
Down == Before \o wire

RelayTypeOK ==
    /\ work \in {"none", "running", "settled", "died"}
    /\ written \in 0 .. MaxPieces
    /\ chan \in Seq(Relay!Items)
    /\ relay \in {"dispatch", "reading", "done"}
    /\ reading \in Relay!Sub
    /\ wire \in Seq(Relay!Frames)
    /\ link \in {"open", "closed", "cut"}
    /\ forward \in {"waiting", "pumping", "done"}
    /\ answer \in {"none", "stream", "result", "unavailable"}
    /\ local \in Seq(Relay!Items)
    /\ surface \in {"away", "listening", "gone"}
    /\ showing \in Relay!Sub
    /\ shown \in Seq(Relay!Items)

\* The frame at place i, of n, of what has come down may be this one.
MayStandAt(f, i, n) ==
    \/ f = Relay!Piece(i) /\ i <= written
    \/ i = n /\ f \in {Relay!Unavailable, Relay!Refused}
    \/ i = n /\ f = Relay!Result /\ i = written + 1 /\ work = "settled"
    \/ i = n /\ f = Relay!PlainOutcome /\ i = 1 /\ written = 0 /\ work = "settled"
Faithful(s) == \A i \in 1 .. Len(s) : MayStandAt(s[i], i, Len(s))

\* Before the answer of the engine nothing is on its way, and before that of the
\* spoke nothing has reached its surface.
BothBegin ==
    /\ work = "none" => written = 0
    /\ relay = "dispatch" =>
          work = "none" /\ chan = <<>> /\ reading = Relay!Fresh /\ wire = <<>> /\ answer # "stream"
    /\ answer # "stream" => shown = <<>> /\ showing = Relay!Fresh /\ local = <<>>
    /\ forward = "waiting" <=> answer = "none"

\* The pump has seen no end.
PumpingMeansMore ==
    forward = "pumping" => answer = "stream" /\ \A i \in 1 .. Len(Before) : Relay!IsPiece(Before[i])

\* As long as the relay reads and can send, everything is there.
AllIsThere == link = "open" /\ relay = "reading" => Relay!InFlight = Relay!Sent

RelayIInv ==
    /\ RelayTypeOK
    /\ BothBegin
    /\ PumpingMeansMore
    /\ Faithful(Down)
    /\ AllIsThere

-----------------------------------------------------------------------------
(* Items and frames.                                                       *)

LEMMA FrameFacts ==
    /\ \A k : Relay!IsPiece(Relay!Piece(k)) /\ Relay!Piece(k) \notin {Relay!Result,
       Relay!Unavailable, Relay!Refused, Relay!PlainOutcome}
    /\ \A f \in {Relay!Result, Relay!Unavailable, Relay!Refused,
       Relay!PlainOutcome} : ~Relay!IsPiece(f)
    /\ Relay!Result # Relay!Unavailable /\ Relay!Result # Relay!Refused
       /\ Relay!Result # Relay!PlainOutcome
    /\ Relay!Unavailable # Relay!Refused /\ Relay!Unavailable # Relay!PlainOutcome
       /\ Relay!Refused # Relay!PlainOutcome
    /\ Relay!Result[1] = "result" /\ Relay!Unavailable[1] = "unavailable"
BY DEF Relay!IsPiece, Relay!Piece, Relay!Result, Relay!Unavailable, Relay!Refused,
    Relay!PlainOutcome

LEMMA FrameKinds ==
    /\ Relay!Items \subseteq Relay!Frames
    /\ \A f \in Relay!Items : Relay!IsPiece(f) \/ f \in {Relay!Result, Relay!Unavailable}
    /\ \A f \in Relay!Frames : f \in Relay!Items \/ f \in {Relay!Refused, Relay!PlainOutcome}
    /\ \A k \in 1 .. MaxPieces : Relay!Piece(k) \in Relay!Items
    /\ Relay!Result \in Relay!Items /\ Relay!Unavailable \in Relay!Items
    /\ Relay!Refused \in Relay!Frames /\ Relay!PlainOutcome \in Relay!Frames
    /\ Relay!Refused \notin Relay!Items /\ Relay!PlainOutcome \notin Relay!Items
BY FrameFacts DEF Relay!Items, Relay!Frames

(* Sequences of frames.                                                    *)

LEMMA ItemsAreFrames ==
    ASSUME NEW s \in Seq(Relay!Items)
    PROVE  s \in Seq(Relay!Frames)
BY FrameKinds, SeqMonotonic

\* Moving the first item of one part to the end of the part below changes nothing.
LEMMA MoveOne ==
    ASSUME NEW S, NEW s \in Seq(S), NEW t \in Seq(S), t # <<>>
    PROVE  Append(s, Head(t)) \o Tail(t) = s \o t
<1>1. /\ Head(t) \in S /\ Tail(t) \in Seq(S) /\ Len(Tail(t)) = Len(t) - 1
      /\ \A i \in 1 .. Len(Tail(t)) : Tail(t)[i] = t[i + 1]
    BY HeadTailProperties
<1>2. Head(t) = t[1] /\ Len(t) \in Nat \ {0} /\ Len(s) \in Nat
    BY EmptySeq, LenProperties
<1> DEFINE a == Append(s, Head(t))
<1>3. /\ a \in Seq(S) /\ Len(a) = Len(s) + 1
      /\ \A i \in 1 .. Len(s) : a[i] = s[i]
      /\ a[Len(s) + 1] = t[1]
    BY <1>1, <1>2, AppendProperties
<1> HIDE DEF a
<1>4. /\ a \o Tail(t) \in Seq(S)
      /\ Len(a \o Tail(t)) = Len(s) + Len(t)
      /\ \A i \in 1 .. Len(s) + Len(t) :
            (a \o Tail(t))[i] = IF i <= Len(a) THEN a[i] ELSE Tail(t)[i - Len(a)]
    <2>1. Len(a) + Len(Tail(t)) = Len(s) + Len(t)
        BY <1>1, <1>2, <1>3
    <2>2. /\ a \o Tail(t) \in Seq(S)
          /\ Len(a \o Tail(t)) = Len(a) + Len(Tail(t))
          /\ \A i \in 1 .. Len(a) + Len(Tail(t)) :
                (a \o Tail(t))[i] = IF i <= Len(a) THEN a[i] ELSE Tail(t)[i - Len(a)]
        BY <1>1, <1>3, ConcatProperties
    <2> QED BY <2>1, <2>2
<1>5. /\ s \o t \in Seq(S) /\ Len(s \o t) = Len(s) + Len(t)
      /\ \A i \in 1 .. Len(s) + Len(t) :
            (s \o t)[i] = IF i <= Len(s) THEN s[i] ELSE t[i - Len(s)]
    BY ConcatProperties
<1>6. ASSUME NEW i \in 1 .. Len(s) + Len(t)
      PROVE  (a \o Tail(t))[i] = (s \o t)[i]
    <2>1. CASE i <= Len(s)
        BY <1>2, <1>3, <1>4, <1>5, <2>1
    <2>2. CASE i = Len(s) + 1
        BY <1>2, <1>3, <1>4, <1>5, <2>2
    <2>3. CASE i > Len(s) + 1
        <3>1. i - (Len(s) + 1) \in 1 .. Len(Tail(t))
            BY <1>1, <1>2, <2>3
        <3>2. Tail(t)[i - (Len(s) + 1)] = t[(i - (Len(s) + 1)) + 1]
            BY <1>1, <3>1
        <3> QED BY <1>2, <1>4, <1>5, <2>3, <3>2
    <2>4. ASSUME NEW n \in Nat PROVE i <= n \/ i = n + 1 \/ i > n + 1
        OBVIOUS
    <2>5. i <= Len(s) \/ i = Len(s) + 1 \/ i > Len(s) + 1
        BY <1>2, <2>4
    <2> QED BY <2>1, <2>2, <2>3, <2>5
<1>7. a \o Tail(t) = s \o t
    BY <1>4, <1>5, <1>6, SeqEqual
<1> QED BY <1>7 DEF a

\* A hold-back releases what it takes in its order.
LEMMA TakeKeeps ==
    ASSUME NEW s \in Relay!Sub, s.ready = <<>>, NEW item \in Relay!Items,
        NEW t \in Relay!Take(s, item)
    PROVE  t \in Relay!Sub /\ t.ready \o t.carry = Append(s.carry, item)
<1> DEFINE text == Append(s.carry, item)
<1>1. s.carry \in Seq(Relay!Items)
    BY DEF Relay!Sub
<1>2. text \in Seq(Relay!Items) /\ Len(text) \in Nat
    BY <1>1, AppendProperties, LenProperties
<1> HIDE DEF text
<1>3. ASSUME NEW k \in 0 .. Len(text)
      PROVE  /\ SubSeq(text, 1, k) \in Seq(Relay!Items)
             /\ SubSeq(text, k + 1, Len(text)) \in Seq(Relay!Items)
             /\ SubSeq(text, 1, k) \o SubSeq(text, k + 1, Len(text)) = text
    <2>1. \A i \in 1 .. Len(text) : text[i] \in Relay!Items
        BY <1>2, ElementOfSeq
    <2>2. SubSeq(text, 1, k) \in Seq(Relay!Items)
        BY <1>2, <2>1, SubSeqProperties
    <2>3. SubSeq(text, k + 1, Len(text)) \in Seq(Relay!Items)
        BY <1>2, <2>1, SubSeqProperties
    <2>4. SubSeq(text, 1, k) \o SubSeq(text, k + 1, Len(text)) = SubSeq(text, 1, Len(text))
        <3>1. /\ 1 \in 1 .. Len(text) + 1 /\ k \in 1 - 1 .. Len(text)
              /\ Len(text) \in k .. Len(text)
            BY <1>2
        <3> QED BY <1>2, <3>1, ConcatAdjacentSubSeq
    <2> QED BY <1>2, <2>2, <2>3, <2>4, SubSeqFull
<1>4. CASE Relay!IsPiece(item)
    <2>1. PICK k \in 0 .. Len(text) :
            t = [s EXCEPT !.ready = @ \o SubSeq(text, 1, k),
                          !.carry = SubSeq(text, k + 1, Len(text))]
        BY <1>4 DEF Relay!Take, text
    <2>2. <<>> \o SubSeq(text, 1, k) = SubSeq(text, 1, k)
        BY <1>3, ConcatEmptySeq
    <2>3. /\ t.ready = SubSeq(text, 1, k) /\ t.carry = SubSeq(text, k + 1, Len(text))
          /\ t.finished = s.finished
          /\ t = [carry |-> t.carry, ready |-> t.ready, finished |-> t.finished]
        BY <2>1, <2>2 DEF Relay!Sub
    <2> QED BY <1>3, <2>3 DEF Relay!Sub, text
<1>5. CASE ~Relay!IsPiece(item)
    <2>1. t = [s EXCEPT !.ready = @ \o text, !.carry = <<>>, !.finished = TRUE]
        BY <1>5 DEF Relay!Take, text
    <2>2. <<>> \o text = text /\ text \o <<>> = text /\ <<>> \in Seq(Relay!Items)
        BY <1>2, ConcatEmptySeq, EmptySeq
    <2>3. /\ t.ready = text /\ t.carry = <<>> /\ t.finished = TRUE
          /\ t = [carry |-> t.carry, ready |-> t.ready, finished |-> t.finished]
        BY <2>1, <2>2 DEF Relay!Sub
    <2> QED BY <1>2, <2>2, <2>3 DEF Relay!Sub, text
<1> QED BY <1>4, <1>5

LEMMA ConcatAppend ==
    ASSUME NEW S, NEW s \in Seq(S), NEW t \in Seq(S), NEW e \in S
    PROVE  s \o Append(t, e) = Append(s \o t, e)
<1>1. <<e>> \in Seq(S) /\ s \o t \in Seq(S)
    BY ConcatProperties
<1>2. Append(t, e) = t \o <<e>> /\ Append(s \o t, e) = (s \o t) \o <<e>>
    BY <1>1, AppendIsConcat
<1> QED BY <1>1, <1>2, ConcatAssociative

\* Taking the next item of a channel into a hold-back changes nothing of the
\* sequence that the two are part of.
LEMMA TakeMoves ==
    ASSUME NEW base \in Seq(Relay!Frames), NEW s \in Relay!Sub, s.ready = <<>>,
           NEW q \in Seq(Relay!Items), q # <<>>, NEW t \in Relay!Take(s, Head(q))
    PROVE  /\ t \in Relay!Sub /\ Tail(q) \in Seq(Relay!Items)
           /\ base \o t.ready \o t.carry \o Tail(q) = base \o s.ready \o s.carry \o q
<1>1. Head(q) \in Relay!Items /\ Tail(q) \in Seq(Relay!Items)
    BY HeadTailProperties
<1>2. t \in Relay!Sub /\ t.ready \o t.carry = Append(s.carry, Head(q))
    BY <1>1, TakeKeeps
<1>3. /\ t.ready \in Seq(Relay!Frames) /\ t.carry \in Seq(Relay!Frames)
         /\ s.carry \in Seq(Relay!Frames)
      /\ q \in Seq(Relay!Frames) /\ Head(q) \in Relay!Frames
    BY <1>1, <1>2, ItemsAreFrames, FrameKinds DEF Relay!Sub
<1>4. (base \o t.ready) \o t.carry = base \o Append(s.carry, Head(q))
    <2>1. ASSUME NEW r \in Seq(Relay!Frames), NEW c \in Seq(Relay!Frames)
          PROVE  (base \o r) \o c = base \o (r \o c)
        BY ConcatAssociative
    <2>2. (base \o t.ready) \o t.carry = base \o (t.ready \o t.carry)
        BY <1>3, <2>1, Zenon
    <2> QED BY <1>2, <2>2, Zenon
<1>5. base \o Append(s.carry, Head(q)) = Append(base \o s.carry, Head(q))
    BY <1>3, ConcatAppend, SMTT(30)
<1>6. base \o s.carry \in Seq(Relay!Frames)
    BY <1>3, ConcatProperties
<1>7. Append(base \o s.carry, Head(q)) \o Tail(q) = (base \o s.carry) \o q
    BY <1>3, <1>6, MoveOne
<1>8. base \o s.ready = base
    BY ConcatEmptySeq
<1> QED BY <1>1, <1>2, <1>4, <1>5, <1>7, <1>8

\* t goes on where s ends.
BeginsWith(t, s) ==
    /\ Len(s) \in Nat /\ Len(t) \in Nat /\ Len(s) <= Len(t)
    /\ \A i \in 1 .. Len(s) : t[i] = s[i]

LEMMA FirstPart ==
    ASSUME NEW S, NEW s \in Seq(S), NEW t \in Seq(S)
    PROVE  BeginsWith(s \o t, s)
BY ConcatProperties, LenProperties DEF BeginsWith

LEMMA FirstOfFirst ==
    ASSUME NEW s, NEW t, NEW u, BeginsWith(t, s), BeginsWith(u, t)
    PROVE  BeginsWith(u, s)
<1> DEFINE m == Len(s)
           n == Len(t)
           o == Len(u)
<1>1. m \in Nat /\ n \in Nat /\ o \in Nat /\ m <= n /\ n <= o
    BY DEF BeginsWith
<1>2. \A i \in 1 .. m : i \in 1 .. n /\ t[i] = s[i]
    BY <1>1 DEF BeginsWith
<1>3. \A i \in 1 .. n : u[i] = t[i]
    BY DEF BeginsWith
<1> HIDE DEF m, n, o
<1>4. m <= o /\ \A i \in 1 .. m : u[i] = s[i]
    BY <1>1, <1>2, <1>3
<1> QED BY <1>1, <1>4 DEF BeginsWith, m, n, o

-----------------------------------------------------------------------------
(* The parts of what is on its way.                                        *)

Parts ==
    /\ shown \in Seq(Relay!Frames) /\ local \in Seq(Relay!Frames) /\ chan \in Seq(Relay!Frames)
    /\ showing.ready \in Seq(Relay!Frames) /\ showing.carry \in Seq(Relay!Frames)
    /\ reading.ready \in Seq(Relay!Frames) /\ reading.carry \in Seq(Relay!Frames)
    /\ wire \in Seq(Relay!Frames)
    /\ shown \o showing.ready \in Seq(Relay!Frames)
    /\ shown \o showing.ready \o showing.carry \in Seq(Relay!Frames)
    /\ Before \in Seq(Relay!Frames) /\ Down \in Seq(Relay!Frames)
    /\ Down \o reading.ready \in Seq(Relay!Frames)
    /\ Down \o reading.ready \o reading.carry \in Seq(Relay!Frames)
    /\ Relay!InFlight \in Seq(Relay!Frames)
    /\ Relay!InFlight = Down \o reading.ready \o reading.carry \o chan

LEMMA PartTypes == RelayTypeOK => Parts
<1> SUFFICES ASSUME RelayTypeOK PROVE Parts
    OBVIOUS
<1>1. /\ shown \in Seq(Relay!Frames) /\ local \in Seq(Relay!Frames) /\ chan \in Seq(Relay!Frames)
      /\ showing.ready \in Seq(Relay!Frames) /\ showing.carry \in Seq(Relay!Frames)
      /\ reading.ready \in Seq(Relay!Frames) /\ reading.carry \in Seq(Relay!Frames)
      /\ wire \in Seq(Relay!Frames)
    BY ItemsAreFrames DEF RelayTypeOK, Relay!Sub
<1>2. /\ shown \o showing.ready \in Seq(Relay!Frames)
      /\ shown \o showing.ready \o showing.carry \in Seq(Relay!Frames)
    BY <1>1, ConcatProperties
<1>3. Before \in Seq(Relay!Frames)
    BY <1>1, <1>2, ConcatProperties DEF Before
<1>4. Down \in Seq(Relay!Frames)
    BY <1>1, <1>3, ConcatProperties DEF Down
<1>5. /\ Down \o reading.ready \in Seq(Relay!Frames)
      /\ Down \o reading.ready \o reading.carry \in Seq(Relay!Frames)
    BY <1>1, <1>4, ConcatProperties
<1>6. Relay!InFlight = Down \o reading.ready \o reading.carry \o chan
    BY DEF Relay!InFlight, Down, Before
<1>7. Relay!InFlight \in Seq(Relay!Frames)
    BY <1>1, <1>5, <1>6, ConcatProperties
<1> QED BY <1>1, <1>2, <1>3, <1>4, <1>5, <1>6, <1>7 DEF Parts

\* The surface was shown the first of what came down; and what came down is the
\* first of what is on its way.
FirstThings ==
    /\ BeginsWith(Down, Before) /\ BeginsWith(Down, shown) /\ BeginsWith(Relay!InFlight, Down)
    /\ BeginsWith(Down, shown \o showing.ready)

LEMMA PartsInOrder == RelayTypeOK => FirstThings
<1> SUFFICES ASSUME RelayTypeOK PROVE FirstThings
    OBVIOUS
<1> USE PartTypes DEF Parts
<1>1. BeginsWith(shown \o showing.ready, shown)
    BY FirstPart
<1>2. BeginsWith(shown \o showing.ready \o showing.carry, shown \o showing.ready)
    BY FirstPart
<1>3. BeginsWith(Before, shown \o showing.ready \o showing.carry)
    BY FirstPart DEF Before
<1>4. BeginsWith(Down, Before)
    BY FirstPart DEF Down
<1>5. BeginsWith(Down, shown \o showing.ready)
    BY <1>2, <1>3, <1>4, FirstOfFirst
<1>6. BeginsWith(Down, shown)
    BY <1>1, <1>5, FirstOfFirst
<1>7. BeginsWith(Down \o reading.ready, Down)
    BY FirstPart
<1>8. BeginsWith(Down \o reading.ready \o reading.carry, Down \o reading.ready)
    BY FirstPart
<1>9. BeginsWith(Relay!InFlight, Down \o reading.ready \o reading.carry)
    BY FirstPart
<1>10. BeginsWith(Relay!InFlight, Down)
    BY <1>7, <1>8, <1>9, FirstOfFirst
<1> QED BY <1>4, <1>5, <1>6, <1>10 DEF FirstThings

\* What the work has sent, item by item.
SentStands ==
    /\ Relay!Sent \in Seq(Relay!Items) /\ written \in Nat
    /\ Len(Relay!Sent) = IF work \in {"settled", "died"} THEN written + 1 ELSE written
    /\ \A i \in 1 .. written : Relay!Sent[i] = Relay!Piece(i)
    /\ work = "settled" => Relay!Sent[written + 1] = Relay!Result
    /\ work = "died" => Relay!Sent[written + 1] = Relay!Unavailable
    /\ work \notin {"settled", "died"} => Relay!Sent = [k \in 1 .. written |-> Relay!Piece(k)]
    /\ work = "settled" => Relay!Sent = Append([k \in 1 .. written |-> Relay!Piece(k)],
       Relay!Result)
    /\ work = "died" => Relay!Sent = Append([k \in 1 .. written |-> Relay!Piece(k)],
       Relay!Unavailable)

LEMMA SentFacts ==
    ASSUME Relay!RelayAssumption, RelayTypeOK
    PROVE  SentStands
<1> DEFINE P == [k \in 1 .. written |-> Relay!Piece(k)]
<1>1. written \in Nat /\ \A k \in 1 .. written : Relay!Piece(k) \in Relay!Items
    BY FrameKinds DEF Relay!RelayAssumption, RelayTypeOK
<1>2. P \in Seq(Relay!Items) /\ Len(P) = written /\ \A i \in 1 .. written : P[i] = Relay!Piece(i)
    BY <1>1
<1>3. /\ work = "settled" => Relay!Sent = P \o <<Relay!Result>>
      /\ work = "died" => Relay!Sent = P \o <<Relay!Unavailable>>
      /\ work \notin {"settled", "died"} => Relay!Sent = P \o <<>>
    BY DEF Relay!Sent
<1> HIDE DEF P
<1>4. /\ work = "settled" => Relay!Sent = Append(P, Relay!Result)
      /\ work = "died" => Relay!Sent = Append(P, Relay!Unavailable)
      /\ work \notin {"settled", "died"} => Relay!Sent = P
    BY <1>2, <1>3, ConcatEmptySeq, AppendIsConcat, FrameKinds
<1>5. ASSUME NEW e \in Relay!Items
      PROVE  /\ Append(P, e) \in Seq(Relay!Items) /\ Len(Append(P, e)) = written + 1
             /\ \A i \in 1 .. written : Append(P, e)[i] = Relay!Piece(i)
             /\ Append(P, e)[written + 1] = e
    BY <1>2, AppendProperties
<1>6. CASE work = "settled"
    BY <1>1, <1>4, <1>5, <1>6, FrameKinds DEF P, SentStands
<1>7. CASE work = "died"
    BY <1>1, <1>4, <1>5, <1>7, FrameKinds DEF P, SentStands
<1>8. CASE work \notin {"settled", "died"}
    BY <1>1, <1>2, <1>4, <1>8 DEF P, SentStands
<1> QED BY <1>6, <1>7, <1>8

\* What the work sends next.
LEMMA SentGrows ==
    ASSUME Relay!RelayAssumption, RelayTypeOK, RelayTypeOK', work = "running"
    PROVE  /\ work' = "running" /\ written' = written + 1 => Relay!Sent' = Append(Relay!Sent,
              Relay!Piece(written + 1))
           /\ work' = "settled" /\ written' = written => Relay!Sent' = Append(Relay!Sent,
              Relay!Result)
           /\ work' = "died" /\ written' = written => Relay!Sent' = Append(Relay!Sent,
              Relay!Unavailable)
<1> DEFINE P(n) == [k \in 1 .. n |-> Relay!Piece(k)]
<1>1. Relay!Sent = P(written) /\ written \in Nat
    BY SentFacts DEF SentStands
<1>2. /\ work' \notin {"settled", "died"} => Relay!Sent' = P(written')
      /\ work' = "settled" => Relay!Sent' = Append(P(written'), Relay!Result)
      /\ work' = "died" => Relay!Sent' = Append(P(written'), Relay!Unavailable)
    <2>1. Relay!RelayAssumption'
        BY DEF Relay!RelayAssumption
    <2>2. SentStands'
        BY <2>1, SentFacts, PTL
    <2> QED BY <2>2 DEF SentStands
<1>3. ASSUME NEW n \in Nat
      PROVE  P(n + 1) = Append(P(n), Relay!Piece(n + 1))
    OBVIOUS
<1> QED BY <1>1, <1>2, <1>3

-----------------------------------------------------------------------------
(* The steps.                                                              *)

LEMMA RelayNextType ==
    ASSUME Relay!RelayAssumption, RelayTypeOK, [Relay!Next]_(Relay!vars)
    PROVE  RelayTypeOK'
<1> USE FrameKinds DEF RelayTypeOK
<1> USE DEF Relay!engineVars, Relay!spokeVars, Relay!surfaceVars
<1>1. CASE Relay!AnswerAtOnce
    BY <1>1, AppendProperties DEF Relay!AnswerAtOnce
<1>2. CASE Relay!OpenStream
    BY <1>2 DEF Relay!OpenStream
<1>3. CASE Relay!WritePiece
    <2>1. written + 1 \in 1 .. MaxPieces /\ written' \in 0 .. MaxPieces
        BY <1>3 DEF Relay!WritePiece, Relay!RelayAssumption
    <2>2. chan' \in Seq(Relay!Items)
        BY <1>3, <2>1, AppendProperties DEF Relay!WritePiece, Relay!Send
    <2> QED BY <1>3, <2>1, <2>2 DEF Relay!WritePiece
<1>4. CASE Relay!SettleWork
    BY <1>4, AppendProperties DEF Relay!SettleWork, Relay!Send
<1>5. CASE Relay!DieWork
    BY <1>5, AppendProperties DEF Relay!DieWork, Relay!Send
<1>6. CASE Relay!RelayTakes
    <2>1. Head(chan) \in Relay!Items /\ Tail(chan) \in Seq(Relay!Items)
        BY <1>6, HeadTailProperties DEF Relay!RelayTakes
    <2>2. reading' \in Relay!Sub
        BY <1>6, <2>1, TakeKeeps DEF Relay!RelayTakes
    <2> QED BY <1>6, <2>1, <2>2 DEF Relay!RelayTakes
<1>7. CASE Relay!RelaySends
    <2>1. reading.ready \in Seq(Relay!Items) /\ reading.ready # <<>>
        BY <1>7 DEF Relay!RelaySends, Relay!Sub
    <2>2. Head(reading.ready) \in Relay!Items /\ Tail(reading.ready) \in Seq(Relay!Items)
        BY <2>1, HeadTailProperties
    <2>3. reading' \in Relay!Sub
        BY <1>7, <2>2 DEF Relay!RelaySends, Relay!Sub
    <2>4. wire' = wire \/ \E f \in Relay!Frames : wire' = Append(wire, f)
        BY <1>7, <2>2 DEF Relay!RelaySends
    <2>5. wire' \in Seq(Relay!Frames)
        <3>1. ASSUME NEW f \in Relay!Frames PROVE Append(wire, f) \in Seq(Relay!Frames)
            BY AppendProperties
        <3> QED BY <2>4, <3>1
    <2> QED BY <1>7, <2>3, <2>5 DEF Relay!RelaySends
<1>8. CASE Relay!CloseLink
    BY <1>8 DEF Relay!CloseLink
<1>9. CASE Relay!CutLink \/ Relay!EngineDies
    <2>1. PICK n \in 0 .. Len(wire) : wire' = SubSeq(wire, 1, n)
        BY <1>9 DEF Relay!CutLink, Relay!EngineDies
    <2>2. wire' \in Seq(Relay!Frames)
        <3>1. n \in Int /\ \A i \in 1 .. n : wire[i] \in Relay!Frames
            BY <2>1, LenProperties, ElementOfSeq
        <3> QED BY <2>1, <3>1, SubSeqProperties
    <2> QED BY <1>9, <2>2 DEF Relay!CutLink, Relay!EngineDies
<1>10. CASE Relay!FirstReply
    BY <1>10, HeadTailProperties, ZenonT(60) DEF Relay!FirstReply
<1>11. CASE Relay!Pump
    <2>1. \E f \in Relay!Items : local' = Append(local, f)
        BY <1>11 DEF Relay!Pump
    <2>2. local' \in Seq(Relay!Items)
        <3>1. ASSUME NEW f \in Relay!Items PROVE Append(local, f) \in Seq(Relay!Items)
            BY AppendProperties
        <3> QED BY <2>1, <3>1
    <2>3. wire' \in Seq(Relay!Frames)
        <3>1. wire' = wire \/ (wire # <<>> /\ wire' = Tail(wire))
            BY <1>11 DEF Relay!Pump
        <3> QED BY <3>1, HeadTailProperties, ZenonT(60)
    <2> QED BY <1>11, <2>2, <2>3 DEF Relay!Pump
<1>12. CASE Relay!Subscribe
    BY <1>12 DEF Relay!Subscribe
<1>13. CASE Relay!SurfaceTakes
    <2>1. Head(local) \in Relay!Items /\ Tail(local) \in Seq(Relay!Items)
        BY <1>13, HeadTailProperties DEF Relay!SurfaceTakes
    <2>2. showing' \in Relay!Sub
        BY <1>13, <2>1, TakeKeeps DEF Relay!SurfaceTakes
    <2> QED BY <1>13, <2>1, <2>2 DEF Relay!SurfaceTakes
<1>14. CASE Relay!Show
    <2>1. showing.ready \in Seq(Relay!Items) /\ showing.ready # <<>>
        BY <1>14 DEF Relay!Show, Relay!Sub
    <2>2. Head(showing.ready) \in Relay!Items /\ Tail(showing.ready) \in Seq(Relay!Items)
        BY <2>1, HeadTailProperties
    <2>3. showing' \in Relay!Sub /\ shown' \in Seq(Relay!Items)
        BY <1>14, <2>2, AppendProperties DEF Relay!Show, Relay!Sub
    <2> QED BY <1>14, <2>3 DEF Relay!Show
<1>15. CASE Relay!StopListening
    BY <1>15 DEF Relay!StopListening
<1>16. CASE UNCHANGED Relay!vars
    BY <1>16 DEF Relay!vars
<1> QED BY <1>1, <1>2, <1>3, <1>4, <1>5, <1>6, <1>7, <1>8, <1>9, <1>10, <1>11, <1>12, <1>13,
           <1>14, <1>15, <1>16 DEF Relay!Next, Relay!Work, Relay!RelayThread, Relay!SpokeThread,
               Relay!Surface

\* What has come down stays true when the work goes on.
LEMMA StaysFaithful ==
    ASSUME RelayTypeOK, Faithful(Down), Down' = Down,
           \/ written' = written /\ (work = "settled" => work' = "settled")
           \/ written' = written + 1 /\ work # "settled"
    PROVE  Faithful(Down)'
<1>1. written \in Nat
    BY DEF RelayTypeOK
<1>2. ASSUME NEW i \in 1 .. Len(Down) PROVE MayStandAt(Down[i], i, Len(Down))'
    <2>1. MayStandAt(Down[i], i, Len(Down)) /\ i \in Nat
        BY DEF Faithful
    <2> QED BY <1>1, <2>1 DEF MayStandAt
<1> QED BY <1>2 DEF Faithful

\* Nothing of what has come down reaches the surface unless a stream was answered.
LEMMA NothingYet ==
    ASSUME RelayTypeOK, BothBegin, answer # "stream"
    PROVE  Before = <<>> /\ Down = wire
<1>1. shown = <<>> /\ showing.ready = <<>> /\ showing.carry = <<>> /\ local = <<>>
    BY DEF BothBegin, Relay!Fresh
<1>2. <<>> \o <<>> = <<>> /\ <<>> \in Seq(Relay!Frames)
    BY ConcatEmptySeq, EmptySeq
<1>3. Before = <<>>
    BY <1>1, <1>2 DEF Before
<1> QED BY <1>3, ConcatEmptySeq DEF Down, RelayTypeOK

\* What IInv says besides the types.
Rest == BothBegin /\ PumpingMeansMore /\ Faithful(Down) /\ AllIsThere

\* The engine answers.
LEMMA EngineBegins ==
    ASSUME Relay!RelayAssumption, RelayIInv, Relay!AnswerAtOnce \/ Relay!OpenStream, RelayTypeOK'
    PROVE  Rest'
<1> USE DEF Relay!engineVars, Relay!spokeVars, Relay!surfaceVars
<1>1. /\ relay = "dispatch" /\ work = "none" /\ written = 0 /\ answer # "stream"
      /\ wire = <<>> /\ chan = <<>> /\ reading = Relay!Fresh
    BY DEF RelayIInv, BothBegin, Relay!AnswerAtOnce, Relay!OpenStream
<1>2. Before = <<>> /\ Down = <<>>
    BY <1>1, NothingYet DEF RelayIInv
<1>3. BothBegin'
    BY <1>1 DEF RelayIInv, BothBegin, Relay!AnswerAtOnce, Relay!OpenStream
<1>4. Before' = Before
    BY DEF Relay!AnswerAtOnce, Relay!OpenStream, Before
<1>5. PumpingMeansMore'
    BY <1>1, <1>4 DEF RelayIInv, PumpingMeansMore, Relay!AnswerAtOnce, Relay!OpenStream
<1>6. CASE Relay!AnswerAtOnce
    <2>1. wire' = <<>> \/ wire' = <<Relay!PlainOutcome>>
        BY <1>1, <1>6 DEF Relay!AnswerAtOnce
    <2>2. Down' = wire'
        <3>1. wire' \in Seq(Relay!Frames)
            BY DEF RelayTypeOK
        <3> QED BY <1>2, <1>4, <3>1, ConcatEmptySeq DEF Down
    <2>3. written' = 0 /\ work' = "settled" /\ relay' = "done"
        BY <1>1, <1>6 DEF Relay!AnswerAtOnce
    <2>4. Faithful(Down)'
        <3>1. CASE wire' = <<>>
            BY <2>2, <3>1, EmptySeq DEF Faithful
        <3>2. CASE wire' = <<Relay!PlainOutcome>>
            <4>1. Len(Down') = 1 /\ Down'[1] = Relay!PlainOutcome
                BY <2>2, <3>2
            <4> QED BY <2>3, <4>1 DEF Faithful, MayStandAt
        <3> QED BY <2>1, <3>1, <3>2
    <2> QED BY <1>3, <1>5, <2>3, <2>4 DEF Rest, AllIsThere
<1>7. CASE Relay!OpenStream
    <2>1. wire' = <<>> /\ chan' = <<>> /\ reading' = Relay!Fresh /\ work' = "running"
        /\ written' = 0
        BY <1>1, <1>7 DEF Relay!OpenStream
    <2>2. <<>> \o <<>> = <<>>
        BY ConcatEmptySeq, EmptySeq
    <2>3. Down' = <<>>
        BY <1>2, <1>4, <2>1, <2>2 DEF Down
    <2>4. Faithful(Down)'
        BY <2>3, EmptySeq DEF Faithful
    <2>5. Relay!InFlight' = <<>>
        <3>1. Relay!InFlight' = Down' \o reading'.ready \o reading'.carry \o chan'
            BY DEF Relay!InFlight, Down, Before
        <3> QED BY <2>1, <2>2, <2>3, <3>1 DEF Relay!Fresh
    <2>6. Relay!Sent' = <<>>
        BY <2>1, <2>2 DEF Relay!Sent
    <2> QED BY <1>3, <1>5, <2>4, <2>5, <2>6 DEF Rest, AllIsThere
<1> QED BY <1>6, <1>7

\* The work writes, or ends.
LEMMA WorkGoesOn ==
    ASSUME Relay!RelayAssumption, RelayIInv, Relay!Work, RelayTypeOK'
    PROVE  Rest'
<1> USE DEF Relay!engineVars, Relay!spokeVars, Relay!surfaceVars
<1>1. PICK item \in Relay!Items :
        /\ Relay!Send(item) /\ work = "running"
        /\ \/ item = Relay!Piece(written + 1) /\ work' = work /\ written' = written + 1
           \/ item = Relay!Result /\ work' = "settled" /\ written' = written
           \/ item = Relay!Unavailable /\ work' = "died" /\ written' = written
    <2>1. written < MaxPieces => Relay!Piece(written + 1) \in Relay!Items
        BY FrameKinds DEF RelayIInv, RelayTypeOK, Relay!RelayAssumption
    <2> QED BY <2>1, FrameKinds DEF Relay!Work, Relay!WritePiece, Relay!SettleWork, Relay!DieWork
<1>2. UNCHANGED <<relay, reading, wire, link, Relay!spokeVars, Relay!surfaceVars>>
    BY DEF Relay!Work, Relay!WritePiece, Relay!SettleWork, Relay!DieWork
<1>3. Before' = Before /\ Down' = Down
    BY <1>2 DEF Before, Down
<1>4. BothBegin' /\ PumpingMeansMore'
    BY <1>1, <1>2, <1>3 DEF RelayIInv, BothBegin, PumpingMeansMore
<1>5. Faithful(Down)'
    BY <1>1, <1>3, StaysFaithful DEF RelayIInv
<1>6. AllIsThere'
    <2> SUFFICES ASSUME link = "open", relay = "reading" PROVE Relay!InFlight' = Relay!Sent'
        BY <1>2 DEF AllIsThere
    <2>1. Relay!InFlight = Relay!Sent
        BY DEF RelayIInv, AllIsThere
    <2>2. chan' = Append(chan, item)
        BY <1>1 DEF Relay!Send
    <2> DEFINE x == Down \o reading.ready \o reading.carry
    <2>3. x \in Seq(Relay!Frames) /\ chan \in Seq(Relay!Frames) /\ Relay!InFlight = x \o chan
        BY PartTypes DEF RelayIInv, Parts
    <2>4. Relay!InFlight' = x \o chan'
        BY <1>2, <1>3 DEF Relay!InFlight, Down, Before
    <2> HIDE DEF x
    <2>5. x \o Append(chan, item) = Append(x \o chan, item)
        BY <2>3, FrameKinds, ConcatAppend
    <2>6. Relay!Sent' = Append(Relay!Sent, item)
        BY <1>1, SentGrows DEF RelayIInv
    <2> QED BY <2>1, <2>2, <2>3, <2>4, <2>5, <2>6
<1> QED BY <1>4, <1>5, <1>6 DEF Rest

\* The relay takes an item of the engine's channel.
LEMMA RelayTakesOne ==
    ASSUME RelayIInv, Relay!RelayTakes
    PROVE  Rest'
<1> USE DEF Relay!engineVars, Relay!spokeVars, Relay!surfaceVars
<1>1. UNCHANGED <<work, written, relay, wire, link, Relay!spokeVars, Relay!surfaceVars>>
    BY DEF Relay!RelayTakes
<1>2. Before' = Before /\ Down' = Down
    BY <1>1 DEF Before, Down
<1>3. BothBegin' /\ PumpingMeansMore'
    BY <1>1, <1>2 DEF RelayIInv, BothBegin, PumpingMeansMore, Relay!RelayTakes
<1>4. Faithful(Down)'
    BY <1>1, <1>2, StaysFaithful DEF RelayIInv
<1>5. Down \o reading'.ready \o reading'.carry \o Tail(chan)
        = Down \o reading.ready \o reading.carry \o chan
    <2>1. Down \in Seq(Relay!Frames) /\ reading \in Relay!Sub /\ chan \in Seq(Relay!Items)
        BY PartTypes DEF RelayIInv, RelayTypeOK, Parts
    <2>2. reading.ready = <<>> /\ chan # <<>> /\ reading' \in Relay!Take(reading, Head(chan))
        BY DEF Relay!RelayTakes
    <2>3. ASSUME NEW base \in Seq(Relay!Frames), NEW t \in Relay!Take(reading, Head(chan))
          PROVE  base \o t.ready \o t.carry \o Tail(chan)
                   = base \o reading.ready \o reading.carry \o chan
        BY <2>1, <2>2, TakeMoves
    <2> QED BY <2>1, <2>2, <2>3, Zenon
<1>6. Relay!InFlight' = Relay!InFlight
    BY <1>2, <1>5 DEF Relay!InFlight, Down, Before, Relay!RelayTakes
<1>7. Relay!Sent' = Relay!Sent
    BY <1>1 DEF Relay!Sent
<1> QED BY <1>1, <1>3, <1>4, <1>6, <1>7 DEF Rest, AllIsThere, RelayIInv

\* The first Len(s) of what was sent stand where they may.
LEMMA FirstOfSent ==
    ASSUME Relay!RelayAssumption, RelayTypeOK, NEW t, BeginsWith(Relay!Sent, t),
        NEW i \in 1 .. Len(t)
    PROVE  /\ MayStandAt(t[i], i, Len(t))
           /\ i < Len(Relay!Sent) => t[i] = Relay!Piece(i) /\ i <= written
<1>1. SentStands
    BY SentFacts
<1>2. /\ Len(t) \in Nat /\ Len(t) <= Len(Relay!Sent) /\ t[i] = Relay!Sent[i] /\ written \in Nat
      /\ Len(Relay!Sent) = written \/ Len(Relay!Sent) = written + 1
    BY <1>1 DEF BeginsWith, SentStands
<1>3. CASE i <= written
    BY <1>1, <1>2, <1>3 DEF SentStands, MayStandAt
<1>4. CASE ~(i <= written)
    <2>1. i = written + 1 /\ Len(Relay!Sent) = written + 1 /\ Len(t) = i
        BY <1>2, <1>4
    <2>2. \/ work = "settled" /\ t[i] = Relay!Result
          \/ work = "died" /\ t[i] = Relay!Unavailable
        BY <1>1, <1>2, <2>1 DEF SentStands
    <2> QED BY <2>1, <2>2 DEF MayStandAt
<1> QED BY <1>3, <1>4

\* The relay writes a frame, or finds that it cannot.
LEMMA RelaySendsOne ==
    ASSUME Relay!RelayAssumption, RelayIInv, Relay!RelaySends, RelayTypeOK'
    PROVE  Rest'
<1> USE DEF Relay!engineVars, Relay!spokeVars, Relay!surfaceVars
<1> DEFINE item == Head(reading.ready)
<1>1. /\ UNCHANGED <<work, written, chan, link, Relay!spokeVars, Relay!surfaceVars>>
      /\ relay = "reading" /\ relay' \in {"reading", "done"}
    BY DEF Relay!RelaySends
<1>2. Before' = Before
    BY <1>1 DEF Before
<1>3. BothBegin' /\ PumpingMeansMore'
    BY <1>1, <1>2 DEF RelayIInv, BothBegin, PumpingMeansMore, Relay!RelaySends
<1>4. reading.ready \in Seq(Relay!Items) /\ reading.ready # <<>> /\ item \in Relay!Items
      /\ reading'.ready = Tail(reading.ready) /\ reading'.carry = reading.carry
    BY HeadTailProperties DEF Relay!RelaySends, RelayIInv, RelayTypeOK, Relay!Sub
<1>5. CASE link # "open"
    <2>1. wire' = wire /\ link' # "open"
        BY <1>5 DEF Relay!RelaySends
    <2>2. Down' = Down
        BY <1>2, <2>1 DEF Down
    <2>3. Faithful(Down)'
        BY <1>1, <2>2, StaysFaithful DEF RelayIInv
    <2> QED BY <1>3, <2>1, <2>3 DEF Rest, AllIsThere
<1>6. CASE link = "open"
    <2>1. PICK f \in Relay!Frames :
            /\ wire' = Append(wire, f)
            /\ f \in {item, Relay!Unavailable, Relay!Refused}
            /\ relay' = "reading" => f = item
        BY <1>4, <1>6, FrameKinds DEF Relay!RelaySends
    <2> DEFINE d == Append(Down, item)
    <2>2. Down' = Append(Down, f)
        <3>1. Down' = Before \o Append(wire, f)
            BY <1>2, <2>1 DEF Down
        <3>2. Before \in Seq(Relay!Frames) /\ wire \in Seq(Relay!Frames)
            BY PartTypes DEF RelayIInv, Parts
        <3>3. Before \o Append(wire, f) = Append(Before \o wire, f)
            BY <3>2, ConcatAppend
        <3> QED BY <3>1, <3>3 DEF Down
    <2>3. item \in Relay!Frames /\ Down \in Seq(Relay!Frames) /\ reading.ready \in Seq(Relay!Frames)
        BY <1>4, PartTypes, FrameKinds DEF RelayIInv, Parts
    <2>4. d \o Tail(reading.ready) = Down \o reading.ready
        BY <1>4, <2>3, MoveOne
    <2>5. Relay!InFlight = Relay!Sent
        BY <1>1, <1>6 DEF RelayIInv, AllIsThere
    <2> HIDE DEF item
    <2>6. /\ d \in Seq(Relay!Frames) /\ Len(Down) \in Nat /\ Len(d) = Len(Down) + 1
          /\ \A i \in 1 .. Len(Down) : d[i] = Down[i]
          /\ d[Len(Down) + 1] = item
        BY <2>3, AppendProperties, LenProperties
    <2>7. BeginsWith(Relay!Sent, d)
        <3>1. Tail(reading.ready) \in Seq(Relay!Frames) /\ reading.carry \in Seq(Relay!Frames)
              /\ chan \in Seq(Relay!Frames)
            BY <1>4, <2>3, HeadTailProperties, PartTypes DEF RelayIInv, Parts
        <3>2. BeginsWith(d \o Tail(reading.ready), d)
            BY <2>6, <3>1, FirstPart
        <3>3. BeginsWith(Down \o reading.ready \o reading.carry, Down \o reading.ready)
            BY <3>1, FirstPart, PartTypes DEF RelayIInv, Parts
        <3>4. BeginsWith(Relay!InFlight, Down \o reading.ready \o reading.carry)
            BY <3>1, FirstPart, PartTypes DEF RelayIInv, Parts
        <3> HIDE DEF d
        <3> QED BY <2>4, <2>5, <3>2, <3>3, <3>4, FirstOfFirst
    <2> HIDE DEF d
    <2>8. \A i \in 1 .. Len(d) : MayStandAt(d[i], i, Len(d))
        BY <2>7, FirstOfSent DEF RelayIInv
    <2>9. \A i \in 1 .. Len(Down) : Down[i] = Relay!Piece(i) /\ i <= written
        <3> SUFFICES ASSUME NEW i \in 1 .. Len(Down) PROVE Down[i] = Relay!Piece(i) /\ i <= written
            OBVIOUS
        <3>1. Len(d) <= Len(Relay!Sent) /\ Len(Relay!Sent) \in Nat
            BY <2>7 DEF BeginsWith
        <3>2. i \in 1 .. Len(d) /\ i < Len(Relay!Sent)
            BY <2>6, <3>1
        <3> QED BY <2>6, <2>7, <3>2, FirstOfSent DEF RelayIInv
    <2>10. Faithful(Down)'
        <3>1. CASE f = item
            <4>1. Down' = d
                BY <2>2, <3>1 DEF d
            <4> QED BY <1>1, <2>8, <4>1 DEF Faithful, MayStandAt
        <3>2. CASE f \in {Relay!Unavailable, Relay!Refused}
            <4>1. /\ Len(Down') = Len(Down) + 1
                  /\ \A i \in 1 .. Len(Down) : Down'[i] = Down[i]
                  /\ Down'[Len(Down) + 1] = f
                BY <2>2, <2>3, AppendProperties
            <4>2. ASSUME NEW i \in 1 .. Len(Down')
                  PROVE  \/ Down'[i] = Relay!Piece(i) /\ i <= written
                         \/ i = Len(Down') /\ Down'[i] \in {Relay!Unavailable, Relay!Refused}
                <5>1. i \in 1 .. Len(Down) \/ i = Len(Down) + 1
                    BY <2>6, <4>1
                <5> QED BY <2>9, <3>2, <4>1, <5>1
            <4> QED BY <1>1, <4>2 DEF Faithful, MayStandAt
        <3> QED BY <2>1, <3>1, <3>2
    <2>11. AllIsThere'
        <3> SUFFICES ASSUME relay' = "reading" PROVE Relay!InFlight' = Relay!Sent'
            BY DEF AllIsThere
        <3>1. Down' = d
            BY <2>1, <2>2 DEF d
        <3>2. Relay!InFlight' = Down' \o reading'.ready \o reading'.carry \o chan'
            BY DEF Relay!InFlight, Down, Before
        <3>3. Relay!InFlight' = Down \o reading.ready \o reading.carry \o chan
            BY <1>1, <1>4, <2>4, <3>1, <3>2
        <3>4. Relay!InFlight' = Relay!InFlight
            BY <3>3, PartTypes DEF RelayIInv, Parts
        <3>5. Relay!Sent' = Relay!Sent
            BY <1>1 DEF Relay!Sent
        <3> QED BY <2>5, <3>4, <3>5
    <2> QED BY <1>3, <2>10, <2>11 DEF Rest
<1> QED BY <1>5, <1>6

\* What is left of it when some is lost from its end is still true.
LEMMA FirstOfFaithful ==
    ASSUME RelayTypeOK, Faithful(Down), BeginsWith(Down, Down'), written' = written,
           work = "settled" => work' = "settled"
    PROVE  Faithful(Down)'
<1>1. ASSUME NEW i \in 1 .. Len(Down') PROVE MayStandAt(Down[i], i, Len(Down))'
    <2> DEFINE m == Len(Down')
               n == Len(Down)
    <2>1. m \in Nat /\ n \in Nat /\ m <= n /\ i \in 1 .. m /\ Down'[i] = Down[i]
        BY DEF BeginsWith
    <2> HIDE DEF m, n
    <2>2. i \in 1 .. n /\ (i = n => i = m)
        BY <2>1
    <2>3. MayStandAt(Down[i], i, n)
        BY <2>2 DEF Faithful, n
    <2>4. MayStandAt(Down'[i], i, m)
        BY <2>1, <2>2, <2>3 DEF MayStandAt
    <2> QED BY <2>4 DEF MayStandAt, m
<1> QED BY <1>1 DEF Faithful

\* The connection ends: closed in its order, or cut with what was not read.
LEMMA LinkEnds ==
    ASSUME RelayIInv, Relay!CloseLink \/ Relay!CutLink \/ Relay!EngineDies, RelayTypeOK'
    PROVE  Rest'
<1> USE DEF Relay!engineVars, Relay!spokeVars, Relay!surfaceVars
<1>1. /\ UNCHANGED <<written, chan, reading, Relay!spokeVars, Relay!surfaceVars>> /\ link' # "open"
      /\ work = "none" <=> work' = "none"
      /\ work = "settled" => work' = "settled"
      /\ relay' \in {relay, "done"}
    BY DEF Relay!CloseLink, Relay!CutLink, Relay!EngineDies, RelayIInv, RelayTypeOK
<1>2. PICK n \in 0 .. Len(wire) : wire' = SubSeq(wire, 1, n)
    <2>1. wire = SubSeq(wire, 1, Len(wire)) /\ Len(wire) \in 0 .. Len(wire)
        BY SubSeqFull, LenProperties DEF RelayIInv, RelayTypeOK
    <2> QED BY <2>1 DEF Relay!CloseLink, Relay!CutLink, Relay!EngineDies
<1>3. /\ n \in Nat /\ Len(wire') = n /\ wire' \in Seq(Relay!Frames)
      /\ \A i \in 1 .. n : wire'[i] = wire[i]
    <2>1. n \in Int /\ \A i \in 1 .. n : wire[i] \in Relay!Frames
        BY LenProperties, ElementOfSeq DEF RelayIInv, RelayTypeOK
    <2>2. n \in Nat
        BY LenProperties DEF RelayIInv, RelayTypeOK
    <2> QED BY <1>2, <2>1, <2>2, SubSeqProperties DEF RelayTypeOK
<1>4. wire = <<>> => wire' = <<>>
    <2> SUFFICES ASSUME wire = <<>> PROVE wire' = <<>>
        OBVIOUS
    <2>1. n = 0
        BY EmptySeq
    <2> QED BY <1>2, <2>1, SubSeqEmpty
<1>5. Before' = Before
    BY <1>1 DEF Before
<1>6. BothBegin' /\ PumpingMeansMore'
    BY <1>1, <1>4, <1>5 DEF RelayIInv, BothBegin, PumpingMeansMore
<1>7. BeginsWith(Down, Down')
    <2> DEFINE b == Len(Before)
               w == Len(wire)
    <2>1. /\ Before \in Seq(Relay!Frames) /\ wire \in Seq(Relay!Frames) /\ b \in Nat
             /\ w \in Nat /\ n <= w
          /\ Down = Before \o wire /\ Down' = Before \o wire'
        BY <1>2, <1>5, PartTypes, LenProperties DEF RelayIInv, Parts, Down
    <2>2. /\ Len(Down) = b + w
          /\ \A i \in 1 .. b + w : Down[i] = IF i <= b THEN Before[i] ELSE wire[i - b]
        BY <2>1, ConcatProperties
    <2>3. /\ Len(Down') = b + n
          /\ \A i \in 1 .. b + n : Down'[i] = IF i <= b THEN Before[i] ELSE wire'[i - b]
        BY <1>3, <2>1, ConcatProperties
    <2> HIDE DEF b, w
    <2>4. ASSUME NEW i \in 1 .. b + n PROVE Down[i] = Down'[i]
        <3>1. i \in 1 .. b + w /\ (i <= b \/ i - b \in 1 .. n)
            BY <1>3, <2>1
        <3> QED BY <1>3, <2>2, <2>3, <3>1
    <2> QED BY <1>3, <2>1, <2>2, <2>3, <2>4, SMTT(30) DEF BeginsWith
<1>8. Faithful(Down)'
    BY <1>1, <1>7, FirstOfFaithful DEF RelayIInv
<1> QED BY <1>1, <1>6, <1>8 DEF Rest, AllIsThere

\* What comes down of a stream that is whole is made of items.
LEMMA WholeIsOfItems ==
    ASSUME Relay!RelayAssumption, RelayIInv, link = "open", relay = "reading",
        NEW i \in 1 .. Len(Down)
    PROVE  Down[i] \in Relay!Items
<1>1. Relay!InFlight = Relay!Sent /\ Relay!Sent \in Seq(Relay!Items)
    BY SentFacts DEF RelayIInv, AllIsThere, SentStands
<1>2. BeginsWith(Relay!InFlight, Down)
    BY PartsInOrder DEF RelayIInv, FirstThings
<1>3. i \in 1 .. Len(Relay!Sent) /\ Down[i] = Relay!Sent[i]
    BY <1>1, <1>2 DEF BeginsWith
<1> QED BY <1>1, <1>3, ElementOfSeq

\* The frame the spoke reads next, in what has come down.
LEMMA NextFrame ==
    ASSUME Relay!RelayAssumption, RelayTypeOK, Faithful(Down), wire # <<>>
    PROVE  /\ Len(Before) + 1 \in 1 .. Len(Down)
           /\ Down[Len(Before) + 1] = Head(wire)
           /\ Head(wire) \in Relay!Frames
           /\ Head(wire) \notin Relay!Items => Tail(wire) = <<>>
<1> DEFINE b == Len(Before)
           w == Len(wire)
<1>1. /\ Before \in Seq(Relay!Frames) /\ wire \in Seq(Relay!Frames) /\ b \in Nat /\ w \in Nat \ {0}
      /\ Down = Before \o wire
    BY PartTypes, LenProperties, EmptySeq DEF Parts, Down
<1>2. /\ Len(Down) = b + w
      /\ \A i \in 1 .. b + w : Down[i] = IF i <= b THEN Before[i] ELSE wire[i - b]
    BY <1>1, ConcatProperties
<1>3. Head(wire) = wire[1] /\ Head(wire) \in Relay!Frames
    BY <1>1, HeadTailProperties
<1> HIDE DEF b, w
<1>4. b + 1 \in 1 .. b + w /\ ~(b + 1 <= b) /\ (b + 1) - b = 1
    BY <1>1
<1>5. Down[b + 1] = Head(wire)
    BY <1>2, <1>3, <1>4
<1>6. ASSUME Head(wire) \notin Relay!Items PROVE Tail(wire) = <<>>
    <2>1. MayStandAt(Head(wire), b + 1, b + w)
        BY <1>2, <1>4, <1>5 DEF Faithful
    <2>2. Head(wire) # Relay!Piece(b + 1) \/ ~(b + 1 <= written)
        <3>1. b + 1 <= written => Relay!Piece(b + 1) \in Relay!Items
            <4>1. written \in 0 .. MaxPieces /\ MaxPieces \in Nat
                BY DEF RelayTypeOK, Relay!RelayAssumption
            <4> QED BY <1>1, <4>1, FrameKinds
        <3> QED BY <1>6, <3>1
    <2>3. b + 1 = b + w
        BY <2>1, <2>2 DEF MayStandAt
    <2>4. w = 1
        BY <1>1, <2>3
    <2>5. Tail(wire) \in Seq(Relay!Frames) /\ Len(Tail(wire)) = 0
        BY <1>1, <2>4, HeadTailProperties DEF w
    <2> QED BY <2>5, EmptySeq
<1> QED BY <1>2, <1>3, <1>4, <1>5, <1>6 DEF b

\* The spoke's handler answers.
LEMMA SpokeBegins ==
    ASSUME Relay!RelayAssumption, RelayIInv, Relay!FirstReply, RelayTypeOK'
    PROVE  Rest'
<1> USE DEF Relay!engineVars, Relay!spokeVars, Relay!surfaceVars
<1>1. /\ UNCHANGED <<Relay!engineVars, link, local, Relay!surfaceVars>>
      /\ answer = "none" /\ answer' # "none" /\ forward' # "waiting"
      /\ forward' = "pumping" => answer' = "stream"
      /\ answer' = "stream" => wire # <<>>
    BY DEF RelayIInv, BothBegin, Relay!FirstReply
<1>2. Before = <<>> /\ Down = wire
    BY <1>1, NothingYet DEF RelayIInv
<1>3. Before' = Before
    BY <1>1 DEF Before
<1>4. Down' = wire'
    <2>1. wire' \in Seq(Relay!Frames)
        BY DEF RelayTypeOK
    <2> QED BY <1>2, <1>3, <2>1, ConcatEmptySeq DEF Down
<1>5. PumpingMeansMore'
    BY <1>1, <1>2, <1>3, EmptySeq DEF PumpingMeansMore
<1>6. wire' = wire \/ (wire # <<>> /\ wire' = Tail(wire) /\ Head(wire) \in {Relay!PlainOutcome,
    Relay!Refused})
    BY DEF Relay!FirstReply
<1>7. BothBegin'
    BY <1>1, <1>6 DEF RelayIInv, BothBegin
<1>8. CASE wire' = wire
    <2>1. Down' = Down
        BY <1>2, <1>4, <1>8
    <2>2. Faithful(Down)'
        BY <1>1, <2>1, StaysFaithful DEF RelayIInv
    <2>3. Relay!InFlight' = Relay!InFlight /\ Relay!Sent' = Relay!Sent
        BY <1>1, <1>8 DEF Relay!InFlight, Relay!Sent
    <2> QED BY <1>1, <1>5, <1>7, <2>2, <2>3 DEF Rest, AllIsThere, RelayIInv
<1>9. CASE wire # <<>> /\ wire' = Tail(wire) /\ Head(wire) \in {Relay!PlainOutcome, Relay!Refused}
    <2>1. Head(wire) \notin Relay!Items
        BY <1>9, FrameKinds
    <2>2. /\ Tail(wire) = <<>> /\ Len(Before) + 1 \in 1 .. Len(Down)
          /\ Down[Len(Before) + 1] = Head(wire)
        BY <1>9, <2>1, NextFrame DEF RelayIInv
    <2>3. Faithful(Down)'
        <3>1. Down' = <<>>
            BY <1>4, <1>9, <2>2
        <3> QED BY <3>1, EmptySeq DEF Faithful
    <2>4. ~(link = "open" /\ relay = "reading")
        BY <2>1, <2>2, WholeIsOfItems
    <2> QED BY <1>1, <1>5, <1>7, <2>3, <2>4 DEF Rest, AllIsThere
<1> QED BY <1>6, <1>8, <1>9

\* Nothing but the news that there will be no result follows pieces that were left alone.
LEMMA EndsUnavailable ==
    ASSUME Relay!RelayAssumption, RelayIInv, forward = "pumping", Down' = Append(Before,
        Relay!Unavailable),
           work' = work, written' = written
    PROVE  Faithful(Down)'
<1> DEFINE b == Len(Before)
<1>1. /\ Before \in Seq(Relay!Frames) /\ b \in Nat /\ BeginsWith(Down, Before)
      /\ \A i \in 1 .. b : Relay!IsPiece(Before[i])
    BY PartTypes, PartsInOrder, LenProperties DEF RelayIInv, Parts, FirstThings, PumpingMeansMore
<1>2. /\ Len(Down') = b + 1
      /\ \A i \in 1 .. b : Down'[i] = Before[i]
      /\ Down'[b + 1] = Relay!Unavailable
    BY <1>1, AppendProperties, FrameKinds
<1>3. ASSUME NEW i \in 1 .. b PROVE Before[i] = Relay!Piece(i) /\ i <= written
    <2>1. i \in 1 .. Len(Down) /\ Down[i] = Before[i]
        BY <1>1 DEF BeginsWith
    <2>2. MayStandAt(Before[i], i, Len(Down)) /\ Relay!IsPiece(Before[i])
        BY <1>1, <2>1 DEF RelayIInv, Faithful
    <2> QED BY <2>2, FrameFacts DEF MayStandAt
<1> HIDE DEF b
<1>4. ASSUME NEW i \in 1 .. b + 1
      PROVE  (Down'[i] = Relay!Piece(i) /\ i <= written) \/ (i = b + 1
          /\ Down'[i] = Relay!Unavailable)
    <2>1. i \in 1 .. b \/ i = b + 1
        BY <1>1
    <2> QED BY <1>2, <1>3, <2>1
<1> QED BY <1>2, <1>4 DEF Faithful, MayStandAt

\* The pump carries a frame, or ends what it has carried.
LEMMA PumpCarries ==
    ASSUME Relay!RelayAssumption, RelayIInv, Relay!Pump, RelayTypeOK'
    PROVE  Rest'
<1> USE DEF Relay!engineVars, Relay!spokeVars, Relay!surfaceVars
<1>1. /\ UNCHANGED <<Relay!engineVars, link, answer, Relay!surfaceVars>>
      /\ forward = "pumping" /\ forward' # "waiting" /\ answer = "stream"
    BY DEF Relay!Pump, RelayIInv, PumpingMeansMore
<1>2. BothBegin'
    BY <1>1, EmptySeq DEF RelayIInv, BothBegin, Relay!Pump
<1>3. ASSUME NEW f \in Relay!Frames, local' = Append(local, f)
      PROVE  Before' = Append(Before, f)
    <2> DEFINE x == shown \o showing.ready \o showing.carry
    <2>1. x \in Seq(Relay!Frames) /\ local \in Seq(Relay!Frames) /\ Before = x \o local
        BY PartTypes DEF RelayIInv, Parts, Before
    <2>2. Before' = x \o Append(local, f)
        BY <1>1, <1>3 DEF Before
    <2> HIDE DEF x
    <2>3. x \o Append(local, f) = Append(x \o local, f)
        BY <2>1, ConcatAppend
    <2> QED BY <2>1, <2>2, <2>3
<1>4. Before \in Seq(Relay!Frames) /\ Down \in Seq(Relay!Frames) /\ wire \in Seq(Relay!Frames)
    BY PartTypes DEF RelayIInv, Parts
<1>5. Relay!Sent' = Relay!Sent
    BY <1>1 DEF Relay!Sent
<1>6. CASE wire # <<>> /\ Head(wire) \in Relay!Items
    <2>1. /\ local' = Append(local, Head(wire)) /\ wire' = Tail(wire) /\ Head(wire) \in Relay!Frames
          /\ forward' = "pumping" => Relay!IsPiece(Head(wire))
        BY <1>6, FrameKinds DEF Relay!Pump
    <2>2. Before' = Append(Before, Head(wire))
        BY <1>3, <2>1
    <2>3. Down' = Down
        <3>1. Append(Before, Head(wire)) \o Tail(wire) = Before \o wire
            BY <1>4, <1>6, MoveOne
        <3> QED BY <2>1, <2>2, <3>1 DEF Down
    <2>4. Faithful(Down)'
        BY <1>1, <2>3, StaysFaithful DEF RelayIInv
    <2>5. Relay!InFlight' = Relay!InFlight
        BY <1>1, <2>3 DEF Relay!InFlight, Down, Before
    <2>6. PumpingMeansMore'
        <3> SUFFICES ASSUME forward' = "pumping", NEW i \in 1 .. Len(Before')
                     PROVE  Relay!IsPiece(Before'[i])
            BY <1>1 DEF PumpingMeansMore, Relay!IsPiece
        <3> DEFINE b == Len(Before)
        <3>1. /\ b \in Nat /\ Len(Before') = b + 1 /\ Before'[b + 1] = Head(wire)
              /\ \A j \in 1 .. b : Before'[j] = Before[j] /\ Relay!IsPiece(Before[j])
            BY <1>1, <1>4, <2>1, <2>2, AppendProperties, LenProperties DEF RelayIInv,
                PumpingMeansMore
        <3> HIDE DEF b
        <3>2. i \in 1 .. b \/ i = b + 1
            BY <3>1
        <3> QED BY <2>1, <3>1, <3>2
    <2> QED BY <1>1, <1>2, <1>5, <2>4, <2>5, <2>6 DEF Rest, AllIsThere, RelayIInv
<1>7. CASE ~(wire # <<>> /\ Head(wire) \in Relay!Items)
    <2>1. local' = Append(local, Relay!Unavailable) /\ forward' = "done"
        BY <1>7, FrameFacts DEF Relay!Pump
    <2>2. /\ wire' = <<>>
          /\ wire = <<>> => link # "open"
        <3>1. CASE wire = <<>>
            BY <3>1 DEF Relay!Pump
        <3>2. CASE wire # <<>>
            BY <1>7, <3>2, NextFrame DEF Relay!Pump, RelayIInv
        <3> QED BY <3>1, <3>2
    <2>3. Before' = Append(Before, Relay!Unavailable)
        BY <1>3, <2>1, FrameKinds
    <2>4. Down' = Append(Before, Relay!Unavailable)
        <3>1. Append(Before, Relay!Unavailable) \in Seq(Relay!Frames)
            BY <1>4, AppendProperties, FrameKinds
        <3>2. Append(Before, Relay!Unavailable) \o <<>> = Append(Before, Relay!Unavailable)
            BY <3>1, ConcatEmptySeq
        <3> QED BY <2>2, <2>3, <3>2 DEF Down
    <2>5. Faithful(Down)'
        BY <1>1, <2>4, EndsUnavailable
    <2>6. ~(link = "open" /\ relay = "reading")
        <3> SUFFICES ASSUME link = "open", relay = "reading" PROVE FALSE
            OBVIOUS
        <3>1. wire # <<>>
            BY <2>2
        <3>2. Len(Before) + 1 \in 1 .. Len(Down) /\ Down[Len(Before) + 1] = Head(wire)
            BY <3>1, NextFrame DEF RelayIInv
        <3> QED BY <1>7, <3>1, <3>2, WholeIsOfItems
    <2> QED BY <1>1, <1>2, <2>1, <2>5, <2>6 DEF Rest, AllIsThere, PumpingMeansMore
<1> QED BY <1>6, <1>7

\* The surface reads: nothing moves but what it has, within what came to it.
LEMMA SurfaceReads ==
    ASSUME RelayIInv, Relay!Surface \/ Relay!StopListening \/ UNCHANGED Relay!vars
    PROVE  Rest'
<1> USE DEF Relay!engineVars, Relay!spokeVars, Relay!surfaceVars
<1>1. UNCHANGED <<Relay!engineVars, wire, link, forward, answer>>
    BY DEF Relay!Surface, Relay!Subscribe, Relay!SurfaceTakes, Relay!Show, Relay!StopListening,
        Relay!vars
<1>2. shown' \o showing'.ready \o showing'.carry \o local'
        = shown \o showing.ready \o showing.carry \o local
    <2>1. /\ shown \in Seq(Relay!Frames) /\ shown \in Seq(Relay!Items) /\ showing \in Relay!Sub
          /\ local \in Seq(Relay!Items) /\ showing.ready \in Seq(Relay!Frames)
        BY PartTypes DEF RelayIInv, RelayTypeOK, Parts
    <2>2. CASE Relay!SurfaceTakes
        <3>1. ASSUME NEW base \in Seq(Relay!Frames), NEW t \in Relay!Take(showing, Head(local))
              PROVE  base \o t.ready \o t.carry \o Tail(local)
                       = base \o showing.ready \o showing.carry \o local
            BY <2>1, <2>2, TakeMoves, ZenonT(60) DEF Relay!SurfaceTakes
        <3>2. showing' \in Relay!Take(showing, Head(local)) /\ local' = Tail(local)
            /\ shown' = shown
            BY <2>2 DEF Relay!SurfaceTakes
        <3> QED BY <2>1, <3>1, <3>2, Zenon
    <2>3. CASE Relay!Show
        <3>1. /\ showing'.ready = Tail(showing.ready) /\ showing'.carry = showing.carry
              /\ shown' = Append(shown, Head(showing.ready)) /\ local' = local
              /\ showing.ready # <<>>
            BY <2>1, <2>3 DEF Relay!Show, Relay!Sub
        <3>2. Append(shown, Head(showing.ready)) \o Tail(showing.ready) = shown \o showing.ready
            BY <2>1, <3>1, MoveOne
        <3> QED BY <3>1, <3>2
    <2>4. CASE Relay!Subscribe \/ Relay!StopListening \/ UNCHANGED Relay!vars
        BY <2>4 DEF Relay!Subscribe, Relay!StopListening, Relay!vars
    <2> QED BY <2>2, <2>3, <2>4 DEF Relay!Surface
<1>3. Before' = Before
    BY <1>2 DEF Before
<1>4. Down' = Down
    BY <1>1, <1>3 DEF Down
<1>5. BothBegin'
    BY <1>1, EmptySeq DEF RelayIInv, BothBegin, Relay!Surface, Relay!Subscribe,
        Relay!SurfaceTakes, Relay!Show, Relay!StopListening,
                 Relay!vars, Relay!Fresh
<1>6. PumpingMeansMore'
    BY <1>1, <1>3 DEF RelayIInv, PumpingMeansMore
<1>7. Faithful(Down)'
    BY <1>1, <1>4, StaysFaithful DEF RelayIInv
<1>8. Relay!InFlight' = Relay!InFlight /\ Relay!Sent' = Relay!Sent
    BY <1>1, <1>4 DEF Relay!InFlight, Down, Before, Relay!Sent
<1> QED BY <1>1, <1>5, <1>6, <1>7, <1>8 DEF Rest, AllIsThere, RelayIInv

-----------------------------------------------------------------------------
(* The invariant, and what the run checks of it.                           *)

LEMMA RelayInitIInv ==
    ASSUME Relay!RelayAssumption, Relay!Init
    PROVE  RelayIInv
<1>1. <<>> \in Seq(Relay!Items) /\ <<>> \in Seq(Relay!Frames) /\ <<>> \o <<>> = <<>>
    /\ Len(<<>>) = 0
    BY EmptySeq, ConcatEmptySeq
<1>2. RelayTypeOK
    BY <1>1 DEF Relay!Init, Relay!RelayAssumption, RelayTypeOK, Relay!Sub, Relay!Fresh
<1>3. Before = <<>> /\ Down = <<>>
    BY <1>1 DEF Relay!Init, Before, Down, Relay!Fresh
<1>4. BothBegin /\ PumpingMeansMore /\ AllIsThere
    BY DEF Relay!Init, BothBegin, PumpingMeansMore, AllIsThere
<1>5. Faithful(Down)
    BY <1>1, <1>3 DEF Faithful
<1> QED BY <1>2, <1>4, <1>5 DEF RelayIInv

LEMMA RelayNextIInv ==
    ASSUME Relay!RelayAssumption, RelayIInv, [Relay!Next]_(Relay!vars)
    PROVE  RelayIInv'
<1>1. RelayTypeOK'
    BY RelayNextType DEF RelayIInv
<1>2. Rest'
    <2>1. CASE Relay!AnswerAtOnce \/ Relay!OpenStream
        BY <1>1, <2>1, EngineBegins
    <2>2. CASE Relay!Work
        BY <1>1, <2>2, WorkGoesOn
    <2>3. CASE Relay!RelayTakes
        BY <2>3, RelayTakesOne
    <2>4. CASE Relay!RelaySends
        BY <1>1, <2>4, RelaySendsOne
    <2>5. CASE Relay!CloseLink \/ Relay!CutLink \/ Relay!EngineDies
        BY <1>1, <2>5, LinkEnds
    <2>6. CASE Relay!FirstReply
        BY <1>1, <2>6, SpokeBegins
    <2>7. CASE Relay!Pump
        BY <1>1, <2>7, PumpCarries
    <2>8. CASE Relay!Surface \/ Relay!StopListening \/ UNCHANGED Relay!vars
        BY <2>8, SurfaceReads
    <2> QED BY <2>1, <2>2, <2>3, <2>4, <2>5, <2>6, <2>7, <2>8 DEF Relay!Next, Relay!RelayThread,
        Relay!SpokeThread
<1> QED BY <1>1, <1>2 DEF RelayIInv, Rest

\* The invariant of the relay, for any number of pieces: what has come down is the
\* beginning of what was sent, with at most one end, which only a broken connection or
\* a refused frame made other than the work's own (relay in server.rs, pump in spoke.rs).
THEOREM RelayInvariant ==
    ASSUME Relay!RelayAssumption
    PROVE  Relay!Spec => []RelayIInv
<1>1. Relay!Init => RelayIInv
    BY RelayInitIInv
<1>2. RelayIInv /\ [Relay!Next]_(Relay!vars) => RelayIInv'
    BY RelayNextIInv
<1> QED BY <1>1, <1>2, PTL DEF Relay!Spec

LEMMA NothingLostFromInvariant ==
    ASSUME RelayIInv
    PROVE  Relay!NothingLostOnTheWay
<1> DEFINE m == Len(shown)
           n == Len(Down)
<1>1. BeginsWith(Down, shown) /\ shown \in Seq(Relay!Items)
    BY PartsInOrder DEF RelayIInv, FirstThings, RelayTypeOK
<1>2. m \in Nat /\ n \in Nat /\ m <= n /\ DOMAIN shown = 1 .. m
    BY <1>1, LenProperties DEF BeginsWith
<1>3. ASSUME NEW i \in 1 .. m
      PROVE  shown[i] = Relay!Piece(i) \/ (i = m /\ shown[i] \in {Relay!Result, Relay!Unavailable})
    <2>1. i \in 1 .. n /\ shown[i] = Down[i] /\ shown[i] \in Relay!Items
        BY <1>1, <1>2, ElementOfSeq DEF BeginsWith
    <2>2. MayStandAt(shown[i], i, n)
        BY <2>1 DEF RelayIInv, Faithful
    <2> HIDE DEF m, n
    <2>3. i = n => i = m
        BY <1>2
    <2> QED BY <2>1, <2>2, <2>3, FrameKinds DEF MayStandAt
<1> QED BY <1>2, <1>3 DEF RelayIInv, AllIsThere, Relay!NothingLostOnTheWay

\* While the connection stands and the relay reads, every piece and the end are shown or in
\* exactly one place on the way, in order; and whatever breaks, the surface is shown a
\* prefix, and nothing after an end.
THEOREM NothingLost ==
    ASSUME Relay!RelayAssumption
    PROVE  Relay!Spec => []Relay!NothingLostOnTheWay
<1>1. RelayIInv => Relay!NothingLostOnTheWay
    BY NothingLostFromInvariant
<1> QED BY <1>1, RelayInvariant, PTL

-----------------------------------------------------------------------------
(* The promise.  What the surface sees of the state:                       *)

PShown == IF Relay!Ended(shown) THEN Len(shown) - 1 ELSE Len(shown)
POutcome ==
    CASE answer \in {"result", "unavailable"} -> answer
      [] Relay!Ended(shown) -> Relay!Last(shown)[1]
      [] OTHER -> "none"

\* An end that was shown is the last thing that will be.
LEMMA EndIsLast ==
    ASSUME RelayIInv, showing.ready # <<>>
    PROVE  /\ Len(shown) \in Nat
           /\ Len(shown) + 1 <= Len(Down) /\ Len(Down) \in Nat
           /\ Down[Len(shown) + 1] = Head(showing.ready)
           /\ Head(showing.ready) \in Relay!Items
           /\ ~Relay!Ended(shown)
<1> DEFINE m == Len(shown)
           n == Len(Down)
           r == Len(showing.ready)
<1>1. /\ shown \in Seq(Relay!Frames) /\ showing.ready \in Seq(Relay!Frames)
         /\ showing.ready \in Seq(Relay!Items)
      /\ BeginsWith(Down, shown \o showing.ready)
    BY PartTypes, PartsInOrder DEF RelayIInv, Parts, FirstThings, RelayTypeOK, Relay!Sub
<1>2. m \in Nat /\ r \in Nat \ {0} /\ Head(showing.ready) = showing.ready[1]
      /\ Head(showing.ready) \in Relay!Items
    BY <1>1, LenProperties, EmptySeq, HeadTailProperties
<1>3. /\ Len(shown \o showing.ready) = m + r
      /\ \A i \in 1 .. m + r : (shown \o showing.ready)[i]
            = IF i <= m THEN shown[i] ELSE showing.ready[i - m]
    BY <1>1, ConcatProperties
<1>4. n \in Nat /\ m + r <= n /\ \A i \in 1 .. m + r : Down[i] = (shown \o showing.ready)[i]
    BY <1>1, <1>3 DEF BeginsWith
<1> HIDE DEF m, n, r
<1>5. m + 1 <= n /\ m + 1 \in 1 .. m + r /\ ~(m + 1 <= m) /\ (m + 1) - m = 1
    BY <1>2, <1>4
<1>6. Down[m + 1] = Head(showing.ready)
    BY <1>2, <1>3, <1>4, <1>5
<1>7. ~Relay!Ended(shown)
    <2> SUFFICES ASSUME shown # <<>> PROVE Relay!IsPiece(Relay!Last(shown))
        BY DEF Relay!Ended
    <2>1. m \in Nat \ {0}
        BY <1>1, EmptySeq DEF m
    <2>2. m \in 1 .. m + r /\ m \in 1 .. n /\ m # n
        BY <1>2, <1>4, <1>5, <2>1
    <2>3. Relay!Last(shown) = Down[m]
        BY <1>3, <1>4, <2>1, <2>2 DEF Relay!Last, m
    <2>4. MayStandAt(Down[m], m, n)
        BY <2>2 DEF RelayIInv, Faithful, n
    <2> QED BY <2>2, <2>3, <2>4, FrameFacts DEF MayStandAt
<1> QED BY <1>2, <1>4, <1>5, <1>6, <1>7 DEF m, n

\* Showing one more item: a piece, or the end.
LEMMA ShowKeeps ==
    ASSUME Relay!RelayAssumption, RelayIInv, Relay!Show
    PROVE  Relay!Promise!Next
<1> USE DEF Relay!engineVars, Relay!spokeVars, Relay!surfaceVars
<1> DEFINE item == Head(showing.ready)
           m == Len(shown)
<1>1. /\ m \in Nat /\ m + 1 <= Len(Down) /\ Len(Down) \in Nat /\ Down[m + 1] = item
      /\ item \in Relay!Items /\ ~Relay!Ended(shown)
    BY EndIsLast DEF Relay!Show
<1>2. shown \in Seq(Relay!Items) /\ answer = "stream"
    <2>1. showing # Relay!Fresh
        BY DEF Relay!Show, Relay!Fresh
    <2> QED BY <2>1 DEF RelayIInv, RelayTypeOK, BothBegin
<1>3. PShown = m /\ POutcome = "none"
    BY <1>1, <1>2 DEF PShown, POutcome
<1>4. /\ shown' \in Seq(Relay!Items) /\ shown' # <<>> /\ Len(shown') = m + 1 /\ shown'[m + 1] = item
    <2>1. shown' = Append(shown, item)
        BY DEF Relay!Show
    <2> HIDE DEF item
    <2> QED BY <1>1, <1>2, <2>1, AppendProperties
<1>5. Relay!Last(shown') = item /\ answer' = "stream" /\ written' = written /\ work' = work
    BY <1>2, <1>4 DEF Relay!Last, Relay!Show
<1>6. MayStandAt(item, m + 1, Len(Down))
    <2>1. m + 1 \in 1 .. Len(Down)
        BY <1>1
    <2> QED BY <1>1, <2>1 DEF RelayIInv, Faithful
<1>7. written \in Nat
    BY DEF RelayIInv, RelayTypeOK
<1> HIDE DEF item, m
<1>8. CASE item = Relay!Piece(m + 1) /\ m + 1 <= written
    <2>1. PShown' = m + 1 /\ POutcome' = "none"
        BY <1>1, <1>4, <1>5, <1>8, FrameFacts DEF PShown, POutcome, Relay!Ended
    <2>2. m < written
        BY <1>1, <1>7, <1>8
    <2> QED BY <1>3, <1>5, <2>1, <2>2 DEF Relay!Promise!Next, Relay!Promise!Show, PShown, POutcome
<1>9. CASE item = Relay!Result /\ m + 1 = written + 1 /\ work = "settled"
    <2>1. PShown' = m /\ POutcome' = "result"
        BY <1>1, <1>4, <1>5, <1>9, FrameFacts DEF PShown, POutcome, Relay!Ended
    <2>2. m = written
        BY <1>1, <1>7, <1>9
    <2> QED BY <1>3, <1>5, <1>9, <2>1, <2>2
            DEF Relay!Promise!Next, Relay!Promise!EndWithResult, PShown, POutcome
<1>10. CASE item = Relay!Unavailable
    <2>1. PShown' = m /\ POutcome' = "unavailable"
        BY <1>1, <1>4, <1>5, <1>10, FrameFacts DEF PShown, POutcome, Relay!Ended
    <2> QED BY <1>3, <1>5, <2>1
            DEF Relay!Promise!Next, Relay!Promise!EndUnavailable, PShown, POutcome
<1> QED BY <1>1, <1>6, <1>8, <1>9, <1>10, FrameKinds DEF MayStandAt

\* The answer of the spoke's handler: an outcome, or nothing yet.
LEMMA AnswerKeeps ==
    ASSUME Relay!RelayAssumption, RelayIInv, Relay!FirstReply
    PROVE  Relay!Promise!Next \/ UNCHANGED Relay!Promise!rvars
<1> USE DEF Relay!engineVars, Relay!spokeVars, Relay!surfaceVars
<1>1. /\ UNCHANGED <<work, written, shown>> /\ answer = "none" /\ shown = <<>>
      /\ answer' \in {"stream", "result", "unavailable"}
      /\ answer' = "result" => wire # <<>> /\ Head(wire) = Relay!PlainOutcome
    BY DEF RelayIInv, BothBegin, Relay!FirstReply
<1>2. PShown = 0 /\ PShown' = 0 /\ POutcome = "none"
      /\ POutcome' = IF answer' = "stream" THEN "none" ELSE answer'
    BY <1>1, EmptySeq DEF PShown, POutcome, Relay!Ended
<1>3. CASE answer' = "stream"
    BY <1>1, <1>2, <1>3 DEF Relay!Promise!rvars, PShown, POutcome
<1>4. CASE answer' = "unavailable"
    BY <1>1, <1>2, <1>4 DEF Relay!Promise!Next, Relay!Promise!EndUnavailable, PShown, POutcome
<1>5. CASE answer' = "result"
    <2>1. wire # <<>> /\ Head(wire) = Relay!PlainOutcome
        BY <1>1, <1>5
    <2>2. Len(Before) + 1 \in 1 .. Len(Down) /\ Down[Len(Before) + 1] = Relay!PlainOutcome
        BY <2>1, NextFrame DEF RelayIInv
    <2>3. MayStandAt(Relay!PlainOutcome, Len(Before) + 1, Len(Down))
        BY <2>2 DEF RelayIInv, Faithful
    <2>4. written = 0 /\ work = "settled"
        BY <2>3, FrameFacts DEF MayStandAt
    <2> QED BY <1>1, <1>2, <1>5, <2>4 DEF Relay!Promise!Next, Relay!Promise!EndWithResult,
        PShown, POutcome
<1> QED BY <1>1, <1>3, <1>4, <1>5

\* The relay implements ResultStream: pieces in the order they were written, none left
\* out, then one outcome, the work's own result only after every piece; across a connection
\* that may break anywhere and an engine that may die (the module doc of stream.rs).
THEOREM RelayKeepsItsPromise ==
    ASSUME Relay!RelayAssumption
    PROVE  Relay!Spec => Relay!KeepsItsPromise
<1> USE DEF Relay!engineVars, Relay!spokeVars, Relay!surfaceVars
<1>1. Relay!Init => Relay!Promise!Init
    <2> SUFFICES ASSUME Relay!Init PROVE Relay!Promise!Init
        OBVIOUS
    <2>1. ~Relay!Ended(shown) /\ Len(shown) = 0
        BY EmptySeq DEF Relay!Init, Relay!Ended
    <2> QED BY <2>1 DEF Relay!Init, Relay!Promise!Init
<1>2. ASSUME RelayIInv, [Relay!Next]_(Relay!vars)
      PROVE  [Relay!Promise!Next]_(Relay!Promise!rvars)
    <2>1. CASE Relay!WritePiece
        <3>1. work = "running" /\ work' = "running" /\ written' = written + 1
              /\ UNCHANGED <<shown, answer>>
            BY <2>1 DEF Relay!WritePiece
        <3> QED BY <3>1 DEF Relay!Promise!Next, Relay!Promise!Write
    <2>2. CASE Relay!SettleWork \/ Relay!AnswerAtOnce
        <3>1. work' = "settled" /\ UNCHANGED <<written, shown, answer>>
            BY <2>2 DEF Relay!SettleWork, Relay!AnswerAtOnce
        <3> QED BY <3>1 DEF Relay!Promise!Next, Relay!Promise!Settle
    <2>3. CASE Relay!Show
        BY <1>2, <2>3, ShowKeeps
    <2>4. CASE Relay!FirstReply
        BY <1>2, <2>4, AnswerKeeps
    <2>5. CASE \/ Relay!DieWork \/ Relay!OpenStream \/ Relay!RelayTakes \/ Relay!RelaySends
                  \/ Relay!CloseLink \/ Relay!CutLink
               \/ Relay!EngineDies \/ Relay!Pump \/ Relay!Subscribe \/ Relay!SurfaceTakes
                  \/ Relay!StopListening
               \/ UNCHANGED Relay!vars
        <3>1. UNCHANGED <<written, shown, answer>> /\ (work' = "settled" <=> work = "settled")
            <4>1. CASE Relay!OpenStream
                BY <1>2, <4>1 DEF Relay!OpenStream, RelayIInv, BothBegin
            <4> QED BY <2>5, <4>1 DEF Relay!DieWork, Relay!RelayTakes, Relay!RelaySends,
                Relay!CloseLink, Relay!CutLink,
                    Relay!EngineDies, Relay!Pump, Relay!Subscribe, Relay!SurfaceTakes,
                        Relay!StopListening, Relay!vars
        <3> QED BY <3>1 DEF Relay!Promise!rvars
    <2> QED BY <1>2, <2>1, <2>2, <2>3, <2>4, <2>5
            DEF Relay!Next, Relay!Work, Relay!RelayThread, Relay!SpokeThread, Relay!Surface
<1> QED BY <1>1, <1>2, RelayInvariant, PTL DEF Relay!Spec, Relay!KeepsItsPromise, Relay!Promise!Spec

-----------------------------------------------------------------------------
(* The relay beside the listener, as the runs check the two.               *)

\* A behaviour of the endpoint is one of the relay, which may stand still.
LEMMA EndpointRelays == MCSpec => Relay!Spec
<1>1. MCInit => Relay!Init
    BY DEF MCInit
<1>2. [MCNext]_<<part, vars, relayVars>> => [Relay!Next]_(Relay!vars)
    BY DEF MCNext, Server, OfRelay, relayVars, Relay!vars, Relay!engineVars, Relay!spokeVars,
           Relay!surfaceVars
<1> QED BY <1>1, <1>2, PTL DEF MCSpec, Relay!Spec

\* Every piece the work of a streamed invocation wrote is shown or on its way, in order,
\* for any number of them (relay in server.rs, pump in spoke.rs, Subscription in stream.rs).
THEOREM EndpointLosesNothing == MCSpec => []NothingLostOnTheWay
BY NothingLost, PartsAssumption, EndpointRelays, PTL DEF NothingLostOnTheWay

\* The relay implements ResultStream beside the listener too: pieces in order, none left
\* out, then one outcome, the work's own result only after every piece.
THEOREM EndpointKeepsItsPromise == MCSpec => KeepsItsPromise
<1>1. Relay!Spec => Relay!KeepsItsPromise
    BY RelayKeepsItsPromise, PartsAssumption
<1> QED BY <1>1, EndpointRelays, PTL DEF KeepsItsPromise
=============================================================================
