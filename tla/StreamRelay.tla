---------------------------- MODULE StreamRelay -----------------------------
(***************************************************************************)
(* One invocation of a spoke whose answer is written while it is read:     *)
(*   work -> channel -> relay -> connection -> pump -> channel -> surface   *)
(* crates/domain/src/invocable/stream.rs (StreamHub, StreamSink,           *)
(* Subscription), relay and its caller in core/src/endpoint/server.rs,     *)
(* Link::invoke and Streaming in client.rs, forward and pump in spoke.rs.  *)
(*                                                                         *)
(* Work, relay, pump and surface are threads of two processes.  The        *)
(* connection may break anywhere and lose what was not read; the work may  *)
(* die; the engine may die; the surface may stop listening.                *)
(***************************************************************************)
EXTENDS Naturals, Sequences, SequencesExt

CONSTANT MaxPieces      \* bound: pieces the work writes

RelayAssumption == MaxPieces \in Nat

VARIABLES
    work,       \* "none", "running", "settled", "died"
    written,    \* pieces written so far; the k-th is <<"piece", k>>
    chan,       \* the engine's channel
    relay,      \* "dispatch", "reading", "done"
    reading,    \* the relay's subscription
    wire,       \* frames on the connection
    link,       \* "open", "closed" by the server, or "cut"
    forward,    \* the spoke's handler and then its pump
    answer,     \* what the handler answered: "none", "stream", or an outcome
    local,      \* the spoke's channel
    surface,    \* "away", "listening", "gone"
    showing,    \* the surface's subscription
    shown       \* what the surface was given

engineVars == <<work, written, chan, relay, reading>>
spokeVars == <<forward, answer, local>>
surfaceVars == <<surface, showing, shown>>
vars == <<engineVars, wire, link, spokeVars, surfaceVars>>

Piece(k) == <<"piece", k>>
IsPiece(item) == item[1] = "piece"
\* Ends of a stream, and the frames that are not part of one.
Result == <<"result", 0>>
Unavailable == <<"unavailable", 0>>
PlainOutcome == <<"outcome", 0>>
Refused == <<"refused", 0>>
Items == {Piece(k) : k \in 1 .. MaxPieces} \cup {Result, Unavailable}
Frames == Items \cup {PlainOutcome, Refused}

-----------------------------------------------------------------------------
(* Subscription: what take does with an item.  Masking holds back a tail of *)
(* the text, so any part of what was held may be released; an end releases  *)
(* all of it first.                                                         *)

Fresh == [carry |-> <<>>, ready |-> <<>>, finished |-> FALSE]

\* Mutation of Take: the held text is not flushed before the end.
Take_NotFlushing(s, item) ==
    LET text == Append(s.carry, item) IN
    IF IsPiece(item)
    THEN {[s EXCEPT !.ready = @ \o SubSeq(text, 1, k),
                    !.carry = SubSeq(text, k + 1, Len(text))] : k \in 0 .. Len(text)}
    ELSE {[s EXCEPT !.ready = Append(@, item), !.carry = <<>>, !.finished = TRUE]}

Take(s, item) ==
    LET text == Append(s.carry, item) IN
    IF IsPiece(item)
    THEN {[s EXCEPT !.ready = @ \o SubSeq(text, 1, k),
                    !.carry = SubSeq(text, k + 1, Len(text))] : k \in 0 .. Len(text)}
    ELSE {[s EXCEPT !.ready = @ \o text, !.carry = <<>>, !.finished = TRUE]}

Sub == [carry: Seq(Items), ready: Seq(Items), finished: BOOLEAN]

-----------------------------------------------------------------------------
Init ==
    /\ work = "none" /\ written = 0 /\ chan = <<>>
    /\ relay = "dispatch" /\ reading = Fresh
    /\ wire = <<>> /\ link = "open"
    /\ forward = "waiting" /\ answer = "none" /\ local = <<>>
    /\ surface = "away" /\ showing = Fresh /\ shown = <<>>

(* The engine's side.                                                      *)

\* The handler answers at once, or opens a stream and hands the work to a
\* thread; the relay takes the one subscription.
AnswerAtOnce ==
    /\ relay = "dispatch"
    /\ relay' = "done"
    /\ work' = "settled"
    /\ wire' = IF link = "open" THEN Append(wire, PlainOutcome) ELSE wire
    /\ UNCHANGED <<written, chan, reading, link, spokeVars, surfaceVars>>

OpenStream ==
    /\ relay = "dispatch"
    /\ relay' = "reading"
    /\ work' = "running"
    /\ UNCHANGED <<written, chan, reading, wire, link, spokeVars, surfaceVars>>

\* What the work sends is dropped when nobody reads the channel any more.
Send(item) == chan' = IF relay = "reading" THEN Append(chan, item) ELSE chan

\* StreamSink::chunk
WritePiece ==
    /\ work = "running"
    /\ written < MaxPieces
    /\ written' = written + 1
    /\ Send(Piece(written + 1))
    /\ UNCHANGED <<work, relay, reading, wire, link, spokeVars, surfaceVars>>

\* StreamSink::end
SettleWork ==
    /\ work = "running"
    /\ work' = "settled"
    /\ Send(Result)
    /\ UNCHANGED <<written, relay, reading, wire, link, spokeVars, surfaceVars>>

\* Drop for StreamSink: work that dies ends its stream all the same.
DieWork ==
    /\ work = "running"
    /\ work' = "died"
    /\ Send(Unavailable)
    /\ UNCHANGED <<written, relay, reading, wire, link, spokeVars, surfaceVars>>

\* Subscription::next_item takes one more from the channel.
RelayTakes ==
    /\ relay = "reading"
    /\ reading.ready = <<>> /\ ~reading.finished
    /\ chan # <<>>
    /\ reading' \in Take(reading, Head(chan))
    /\ chan' = Tail(chan)
    /\ UNCHANGED <<work, written, relay, wire, link, spokeVars, surfaceVars>>

\* relay writes a frame.  A failed write ends it; a piece that cannot be sent
\* ends the stream there, saying so; after an end, sent or refused, it is done.
RelaySends ==
    LET item == Head(reading.ready) IN
    /\ relay = "reading"
    /\ reading.ready # <<>>
    /\ reading' = [reading EXCEPT !.ready = Tail(@)]
    /\ \/ link # "open" /\ relay' = "done" /\ UNCHANGED wire
       \/ /\ link = "open"
          /\ IsPiece(item)
          /\ \/ wire' = Append(wire, item) /\ UNCHANGED relay
             \/ wire' = Append(wire, Unavailable) /\ relay' = "done"
       \/ /\ link = "open"
          /\ ~IsPiece(item)
          /\ \E f \in {item, Refused} : wire' = Append(wire, f)
          /\ relay' = "done"
    /\ UNCHANGED <<work, written, chan, link, spokeVars, surfaceVars>>

\* The request thread ends and its connection is closed.
CloseLink ==
    /\ relay = "done"
    /\ link = "open"
    /\ link' = "closed"
    /\ UNCHANGED <<engineVars, wire, spokeVars, surfaceVars>>

\* The connection breaks (the server is dropped, the network stack gives up);
\* frames that were not read yet may be lost from the end.
CutLink ==
    /\ link = "open"
    /\ link' = "cut"
    /\ \E n \in 0 .. Len(wire) : wire' = SubSeq(wire, 1, n)
    /\ UNCHANGED <<engineVars, spokeVars, surfaceVars>>

\* The engine's process dies, its work and its relay with it.
EngineDies ==
    /\ link # "cut"
    /\ link' = "cut"
    /\ \E n \in 0 .. Len(wire) : wire' = SubSeq(wire, 1, n)
    /\ work' = IF work = "running" THEN "died" ELSE work
    /\ relay' = "done"
    /\ UNCHANGED <<written, chan, reading, spokeVars, surfaceVars>>

-----------------------------------------------------------------------------
(* The spoke's side.                                                       *)

\* Link::invoke and forward, once the first frame or the end of the connection
\* is there: a finished outcome, a stream with a thread to pump it (the frame
\* is put back), or no answer.
FirstReply ==
    /\ forward = "waiting"
    /\ \/ /\ wire = <<>> /\ link # "open"
          /\ answer' = "unavailable" /\ forward' = "done"
          /\ UNCHANGED wire
       \/ /\ wire # <<>>
          /\ Head(wire) \in {PlainOutcome, Refused}
          /\ answer' = IF Head(wire) = PlainOutcome THEN "result" ELSE "unavailable"
          /\ forward' = "done"
          /\ wire' = Tail(wire)
       \/ /\ wire # <<>>
          /\ Head(wire) \in Items
          /\ \/ answer' = "stream" /\ forward' = "pumping"
             \/ answer' = "unavailable" /\ forward' = "done"
          /\ UNCHANGED wire
    /\ UNCHANGED <<engineVars, link, local, surfaceVars>>

\* Mutation of Pump: a connection that has ended is read again.
Pump_NotEnding ==
    /\ forward = "pumping"
    /\ wire # <<>>
    /\ wire' = Tail(wire)
    /\ LET item == IF Head(wire) \in Items THEN Head(wire) ELSE Unavailable IN
        /\ local' = Append(local, item)
        /\ forward' = IF IsPiece(item) THEN "pumping" ELSE "done"
    /\ UNCHANGED <<engineVars, link, answer, surfaceVars>>

\* Mutation of Pump: a connection that fails is taken for the end of the text.
Pump_TrustingClose ==
    /\ forward = "pumping"
    /\ \/ /\ wire # <<>>
          /\ wire' = Tail(wire)
          /\ LET item == IF Head(wire) \in Items THEN Head(wire) ELSE Unavailable IN
                /\ local' = Append(local, item)
                /\ forward' = IF IsPiece(item) THEN "pumping" ELSE "done"
       \/ /\ wire = <<>> /\ link # "open"
          /\ local' = Append(local, Result)
          /\ forward' = "done"
          /\ UNCHANGED wire
    /\ UNCHANGED <<engineVars, link, answer, surfaceVars>>

\* pump carries a frame into the local stream; a refusal or a connection that
\* ended ends it as unavailable.
Pump ==
    /\ forward = "pumping"
    /\ \/ /\ wire # <<>>
          /\ wire' = Tail(wire)
          /\ LET item == IF Head(wire) \in Items THEN Head(wire) ELSE Unavailable IN
                /\ local' = Append(local, item)
                /\ forward' = IF IsPiece(item) THEN "pumping" ELSE "done"
       \/ /\ wire = <<>> /\ link # "open"
          /\ local' = Append(local, Unavailable)
          /\ forward' = "done"
          /\ UNCHANGED wire
    /\ UNCHANGED <<engineVars, link, answer, surfaceVars>>

\* The surface takes the subscription of the handle it was answered with.
Subscribe ==
    /\ surface = "away"
    /\ answer = "stream"
    /\ surface' = "listening"
    /\ UNCHANGED <<engineVars, wire, link, spokeVars, showing, shown>>

\* It reads: one more from the channel, or the next that is ready.
SurfaceTakes ==
    /\ surface = "listening"
    /\ showing.ready = <<>> /\ ~showing.finished
    /\ local # <<>>
    /\ showing' \in Take(showing, Head(local))
    /\ local' = Tail(local)
    /\ UNCHANGED <<engineVars, wire, link, forward, answer, surface, shown>>

Show ==
    /\ surface = "listening"
    /\ showing.ready # <<>>
    /\ showing' = [showing EXCEPT !.ready = Tail(@)]
    /\ shown' = Append(shown, Head(showing.ready))
    /\ UNCHANGED <<engineVars, wire, link, spokeVars, surface>>

\* It stops listening; what the pump sends is then for nobody.
StopListening ==
    /\ surface = "listening"
    /\ surface' = "gone"
    /\ UNCHANGED <<engineVars, wire, link, spokeVars, showing, shown>>

-----------------------------------------------------------------------------
Work == WritePiece \/ SettleWork \/ DieWork
RelayThread == AnswerAtOnce \/ OpenStream \/ RelayTakes \/ RelaySends \/ CloseLink
SpokeThread == FirstReply \/ Pump
Surface == Subscribe \/ SurfaceTakes \/ Show

Next ==
    \/ Work \/ RelayThread \/ SpokeThread \/ Surface
    \/ CutLink \/ EngineDies \/ StopListening

Spec == Init /\ [][Next]_vars

\* Every thread is scheduled and the work comes to an end.
FairSpec ==
    /\ Spec
    /\ WF_vars(Work) /\ WF_vars(RelayThread)
    /\ WF_vars(SpokeThread) /\ WF_vars(Surface)

-----------------------------------------------------------------------------
(* Properties.                                                             *)

Ended(items) == items # <<>> /\ ~IsPiece(Last(items))

\* What the work has sent: its pieces, and its end once it has come to one.
Sent ==
    [k \in 1 .. written |-> Piece(k)]
        \o (CASE work = "settled" -> <<Result>>
              [] work = "died" -> <<Unavailable>>
              [] OTHER -> <<>>)

\* Everything that is on its way to the surface, oldest first, as long as
\* nothing on the way has been lost.
InFlight ==
    shown \o showing.ready \o showing.carry \o local \o wire
          \o reading.ready \o reading.carry \o chan

\* While the connection stands and the relay reads, every piece the work wrote
\* and then its end is shown or in exactly one place on the way, in order: none
\* lost, none twice, across two channels, two hold-backs and a connection.  And
\* whatever breaks, the surface is shown a prefix, and nothing after an end.
NothingLostOnTheWay ==
    /\ link = "open" /\ relay = "reading" => InFlight = Sent
    /\ \A i \in DOMAIN shown :
          shown[i] = Piece(i) \/ (i = Len(shown) /\ shown[i] \in {Result, Unavailable})

\* An engine that dies and a connection that breaks lose pieces, but never from
\* the middle, and never unnoticed: the stream implements the promise of the
\* module doc, with the result only after everything the work wrote.
Promise == INSTANCE ResultStream WITH
    written <- written,
    settled <- work = "settled",
    shown   <- IF Ended(shown) THEN Len(shown) - 1 ELSE Len(shown),
    outcome <- CASE answer \in {"result", "unavailable"} -> answer
                 [] Ended(shown) -> Last(shown)[1]
                 [] OTHER -> "none"
KeepsItsPromise == Promise!Spec

\* "A subscriber is never left waiting for a result that cannot come."
NeverLeftWaiting ==
    /\ forward = "waiting" ~> answer # "none"
    /\ answer = "stream" ~> (Ended(shown) \/ surface = "gone")
=============================================================================
