---------------------------- MODULE ModelStream ----------------------------
(***************************************************************************)
(* One call of the local model client (model-local/src/lib.rs): a worker   *)
(* thread owns the connection, splits what it reads into lines, the lines  *)
(* into events, and hands the events over a bounded channel to the caller, *)
(* who may cancel the call or drop its end of the channel.                 *)
(*                                                                         *)
(* A line is sent as two halves and a newline, a blank line as a newline   *)
(* alone, and a read returns any part of what has arrived, so lines are    *)
(* cut and joined in every way.  T(k) is the line, and the event, of the   *)
(* k-th token or progress report.                                          *)
(***************************************************************************)
EXTENDS Naturals, Sequences, SequencesExt

CONSTANTS MaxTokens,  \* how many tokens the server has to send at most
          MaxOther,   \* how many other lines it puts between them at most
          Capacity    \* of the channel

CallAssumption == Capacity \in Nat \ {0} /\ MaxTokens \in Nat /\ MaxOther \in Nat

VARIABLES
    kind,       \* which call this is: "generate", "pull" or "call"
    wire,       \* what the server has sent and the client has not read
    server,     \* what the server has done: tokens and other lines sent, its end
    buf,        \* FrameReader::buf
    worker,     \* where the worker thread stands
    data,       \* read_sse_event's payload_lines
    chan,       \* the bounded channel
    cancelled,  \* the CancelHandle
    caller,     \* "pulling", "ended" (terminated) or "dropped"
    seen        \* the events the caller has been given

vars == <<kind, wire, server, buf, worker, data, chan, cancelled, caller, seen>>

T(k) == [is |-> "token", k |-> k]
L(name) == [is |-> name, k |-> 0]
Tokens == {T(k) : k \in 1..MaxTokens}
Lines == Tokens \cup {L(name) : name \in {"2xx", "4xx", "5xx", "odd", "done", "note", "role", "junk", "blank"}}

NL == [l |-> L("newline"), half |-> 0]
Line(x) == <<[l |-> x, half |-> 1], [l |-> x, half |-> 2], NL>>
Terminal(e) == e \notin Tokens

(***************************************************************************)
(* The server, external: it answers with a head and then with lines, and   *)
(* stops when it likes: with the sentinel, by closing, even in the middle  *)
(* of a line, by a reset that loses what is under way, or not at all.      *)
(***************************************************************************)
ServerAnswers ==
    /\ server.end = "asked"
    /\ \E head \in {"2xx", "4xx", "5xx", "odd"} : wire' = wire \o Line(L(head)) \o <<NL>>
    /\ server' = [server EXCEPT !.end = "open"]
    /\ UNCHANGED <<kind, buf, worker, data, chan, cancelled, caller, seen>>

ServerSendsToken ==
    /\ server.end = "open" /\ server.sent < MaxTokens
    /\ server' = [server EXCEPT !.sent = @ + 1]
    /\ wire' = wire \o Line(T(server.sent + 1)) \o (IF kind = "generate" THEN <<NL>> ELSE <<>>)
    /\ UNCHANGED <<kind, buf, worker, data, chan, cancelled, caller, seen>>

ServerSendsOther ==
    /\ server.end = "open" /\ server.other < MaxOther
    /\ server' = [server EXCEPT !.other = @ + 1]
    /\ \E x \in {"note", "junk", "blank"} \cup (IF kind = "generate" THEN {"role"} ELSE {}) :
         wire' = wire \o (IF x = "blank" THEN <<>> ELSE Line(L(x)))
                      \o (IF x = "note" THEN <<>> ELSE <<NL>>)
    /\ UNCHANGED <<kind, buf, worker, data, chan, cancelled, caller, seen>>

ServerEnds ==
    /\ server.end \in {"asked", "open"}
    /\ \/ /\ server.end = "open"
          /\ wire' = wire \o Line(L("done")) \o <<NL>> /\ server' = [server EXCEPT !.end = "closed"]
       \/ server' = [server EXCEPT !.end = "closed"] /\ UNCHANGED wire
       \/ /\ server.end = "open"
          /\ server.sent < MaxTokens
          /\ \E n \in {1, 2} :
               /\ wire' = wire \o SubSeq(Line(T(server.sent + 1)), 1, n)
               /\ server' = [server EXCEPT !.end = "closed", !.sent = @ + n - 1]
       \/ server' = [server EXCEPT !.end = "reset"] /\ wire' = <<>>
    /\ UNCHANGED <<kind, buf, worker, data, chan, cancelled, caller, seen>>

(***************************************************************************)
(* FrameReader.                                                            *)
(***************************************************************************)
HasLine == \E i \in DOMAIN buf : buf[i] = NL
NewLine == CHOOSE i \in DOMAIN buf : buf[i] = NL /\ \A j \in 1..(i - 1) : buf[j] # NL

\* Mutation of Cancelled: a worker waiting for bytes does not look.
Cancelled_Never == FALSE

\* The caller's handle is looked at before every read (only generate has one).
Cancelled == ~HasLine /\ cancelled

\* What a line reads as.  One that was cut is no JSON; cut before its field name
\* is complete, it is not even a data line.
ReadsAs(halves) ==
    IF halves = <<>> THEN {L("blank")}
    ELSE IF Len(halves) = 2 THEN {halves[1].l}
    ELSE {L("junk"), L("note")}

\* read_line gives a line: the first whole one, or what is left at the end.
LineRead(x) ==
    \/ /\ HasLine
       /\ x \in ReadsAs(SubSeq(buf, 1, NewLine - 1))
       /\ buf' = SubSeq(buf, NewLine + 1, Len(buf))
       /\ UNCHANGED <<kind, server, wire>>
    \/ /\ ~HasLine /\ ~Cancelled
       /\ server.end = "closed" /\ wire = <<>> /\ buf # <<>>
       /\ x \in ReadsAs(buf)
       /\ buf' = <<>>
       /\ UNCHANGED <<kind, server, wire>>

EndRead == ~HasLine /\ ~Cancelled /\ server.end = "closed" /\ wire = <<>> /\ buf = <<>>

Reading == worker.at \in {"status", "headers", "body"}
Stay == UNCHANGED <<chan, cancelled, caller, seen>>

\* Mutation of AfterTimeout: what was read of a line is dropped.
AfterTimeout_Dropped == <<>>

\* A read that times out leaves the bytes read so far where they are.
AfterTimeout == buf

Read ==
    /\ Reading /\ ~HasLine /\ ~Cancelled
    /\ \E n \in 1..Len(wire) :
         /\ buf' = buf \o SubSeq(wire, 1, n)
         /\ wire' = SubSeq(wire, n + 1, Len(wire))
    /\ UNCHANGED <<kind, server, worker, data>> /\ Stay

\* The timeout runs out while nothing arrives: what was sent may still be under way.
ReadTimesOut ==
    /\ Reading /\ ~HasLine /\ ~Cancelled
    /\ server.end \in {"asked", "open"} \/ (server.end = "closed" /\ wire # <<>>)
    /\ buf' = AfterTimeout
    /\ UNCHANGED <<kind, server, wire, worker, data>> /\ Stay

(***************************************************************************)
(* The worker: connect, status, headers, events.  Events to be sent wait   *)
(* in worker.  The direct call has no channel: its caller is the worker.   *)
(***************************************************************************)
At(place) == [at |-> place, event |-> L("none")]
Sending(e) == [at |-> "send", event |-> e]

\* resolve_one, connect and the request.
Connect ==
    /\ worker.at = "connect"
    /\ \/ /\ server.end = "listening"
          /\ server' = [server EXCEPT !.end = "asked"] /\ worker' = At("status")
       \/ worker' = Sending(L("error")) /\ UNCHANGED server
    /\ UNCHANGED <<kind, wire, buf, data>> /\ Stay

\* read_http_status: the status line, then the headers up to the blank line.
ReadHead ==
    /\ worker.at \in {"status", "headers"}
    /\ UNCHANGED data /\ Stay
    /\ \E x \in Lines :
         /\ LineRead(x)
         /\ worker' = CASE worker.at = "status" /\ x.is = "2xx" -> At("headers")
                        [] worker.at = "status" /\ x.is # "2xx" -> Sending(L("error"))
                        [] worker.at = "headers" /\ x.is = "blank" -> At("body")
                        [] OTHER -> worker

\* The connection ends, is reset, or the call is cancelled while it is read.
\* A clean end of the body counts as the end of the answer.
ReadFails ==
    /\ Reading
    /\ \/ Cancelled
       \/ ~HasLine /\ ~Cancelled /\ server.end = "reset"
       \/ EndRead /\ worker.at # "body"
    /\ worker' = Sending(L("error"))
    /\ UNCHANGED <<kind, wire, server, buf, data>> /\ Stay

\* map_sse_payload: several data lines in one event are no JSON together.
Payload(lines) ==
    IF Len(lines) # 1 THEN Sending(L("error"))
    ELSE CASE lines[1].is = "role" -> At("body")
           [] lines[1].is = "junk" -> Sending(L("error"))
           [] OTHER -> Sending(lines[1])

EndOfBody ==
    /\ worker.at = "body" /\ EndRead
    /\ IF data = <<>> THEN worker' = Sending(L("done")) /\ UNCHANGED data
       ELSE worker' = Payload(data) /\ data' = <<>>
    /\ UNCHANGED <<kind, wire, server, buf>> /\ Stay

ReadEvent ==
    /\ worker.at = "body" /\ kind = "generate" /\ Stay
    /\ \E x \in Lines :
         /\ LineRead(x)
         /\ CASE x.is = "blank" /\ data = <<>> -> UNCHANGED <<worker, data>>
              [] x.is = "blank" /\ data # <<>> -> worker' = Payload(data) /\ data' = <<>>
              [] x.is = "note" -> UNCHANGED <<worker, data>>
              [] OTHER -> data' = Append(data, x) /\ UNCHANGED worker

\* run_pull_worker: every line is a JSON object of its own.
ReadProgress ==
    /\ worker.at = "body" /\ kind = "pull" /\ UNCHANGED data /\ Stay
    /\ \E x \in Lines :
         /\ LineRead(x)
         /\ worker' = CASE x.is = "blank" -> worker
                        [] x.is \in {"note", "junk"} -> Sending(L("error"))
                        [] OTHER -> Sending(x)

\* http_call: the whole body is read and handed back.
ReadToEnd ==
    /\ worker.at = "body" /\ kind = "call" /\ UNCHANGED data /\ Stay
    /\ \E x \in Lines :
         /\ LineRead(x)
         /\ UNCHANGED worker

\* The channel takes the event, or the caller is gone.  A terminal one is the last.
Hand ==
    /\ worker.at = "send" /\ kind # "call"
    /\ LET e == worker.event IN
       /\ \/ caller # "dropped" /\ Len(chan) < Capacity /\ chan' = Append(chan, e)
          \/ caller = "dropped" /\ UNCHANGED chan
       /\ worker' = IF Terminal(e) \/ caller = "dropped" THEN At("over") ELSE At("body")
    /\ UNCHANGED <<kind, wire, server, buf, data, cancelled, caller, seen>>

HandBack ==
    /\ worker.at = "send" /\ kind = "call"
    /\ seen' = Append(seen, worker.event)
    /\ worker' = At("over") /\ caller' = "ended"
    /\ UNCHANGED <<kind, wire, server, buf, data, chan, cancelled>>

(***************************************************************************)
(* The caller.                                                             *)
(***************************************************************************)
\* StreamReceiver::next, PullReceiver::next
Pull ==
    /\ caller = "pulling" /\ chan # <<>>
    /\ seen' = Append(seen, Head(chan)) /\ chan' = Tail(chan)
    /\ caller' = IF Terminal(Head(chan)) THEN "ended" ELSE caller
    /\ UNCHANGED <<kind, wire, server, buf, worker, data, cancelled>>

Cancel ==
    /\ kind = "generate" /\ ~cancelled
    /\ cancelled' = TRUE
    /\ UNCHANGED <<kind, wire, server, buf, worker, data, chan, caller, seen>>

Drop ==
    /\ kind # "call" /\ caller \in {"pulling", "ended"}
    /\ caller' = "dropped"
    /\ UNCHANGED <<kind, wire, server, buf, worker, data, chan, cancelled, seen>>

Init ==
    /\ kind \in {"generate", "pull", "call"}
    /\ wire = <<>> /\ buf = <<>> /\ data = <<>> /\ chan = <<>> /\ seen = <<>>
    /\ server = [end |-> "listening", sent |-> 0, other |-> 0]
    /\ worker = At("connect") /\ cancelled = FALSE /\ caller = "pulling"

Work == \/ Connect \/ Read \/ ReadTimesOut \/ ReadHead \/ ReadFails \/ EndOfBody \/ ReadEvent
        \/ ReadProgress \/ ReadToEnd \/ Hand \/ HandBack
Serve == ServerAnswers \/ ServerSendsToken \/ ServerSendsOther \/ ServerEnds
Next == Work \/ Serve \/ Pull \/ Cancel \/ Drop
Spec == Init /\ [][Next]_vars
FairSpec == Spec /\ WF_vars(Work) /\ WF_vars(Pull)

-----------------------------------------------------------------------------
\* What the caller is given is what the server sent: the tokens in order, none
\* twice and none left out, and after them at most one last event.  An answer
\* reported as done is whole: every token whose line was sent entire has been
\* given, however the lines were cut by reads, timeouts and the channel
\* (FrameReader, read_sse_event, the two workers, the receivers).
SeenIsSent ==
    /\ \A i \in DOMAIN seen : seen[i] = T(i) \/ (Terminal(seen[i]) /\ i = Len(seen))
    /\ kind # "call" /\ seen # <<>> /\ Last(seen) = L("done") => Len(seen) - 1 = server.sent

\* A call that is cancelled, or whose server has ended, comes to its end: the
\* worker is gone and the caller is not left waiting, as long as a caller that
\* keeps the receiver keeps pulling (the cancellation discipline of FrameReader).
CallsEnd ==
    (cancelled \/ server.end \in {"closed", "reset"})
        ~> (worker.at = "over" /\ caller # "pulling")
=============================================================================
