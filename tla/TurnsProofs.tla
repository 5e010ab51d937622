----------------------------- MODULE TurnsProofs -----------------------------
(***************************************************************************)
(* The turns of one engine, for any calls, sessions and workspaces.  The   *)
(* guard of a call is held exactly from its admission to its settled       *)
(* stream (WorkFollowsPlaces), which together with the gate's exclusion    *)
(* keeps changes away from it; and the list of running turns holds no      *)
(* turn that is over, loses none that has its session to itself, and is in *)
(* one order (EntriesAreInOrder), so that a stop reaches one turn.         *)
(*                                                                         *)
(* And the call of the model server that a turn makes, for any number of   *)
(* tokens and of other lines and any capacity of the channel: what is in   *)
(* the buffer and on the wire is, from the start of a line, the tokens     *)
(* after the ones passed on, none left out (StreamIsWhole).                *)
(***************************************************************************)
EXTENDS MCTurns, SequenceTheorems, WellFoundedInduction, TLAPS

TypeOK ==
    /\ place \in [Calls -> Places]
    /\ call \in [Calls -> [session: Sessions, root: Roots, dir: Roots \cup {NoRoot}]]
    /\ inFlight \subseteq Calls
    /\ ahead \subseteq inFlight \X inFlight
    /\ cancelled \subseteq Calls
    /\ work \subseteq Calls
    /\ changing \subseteq Roots

\* A call holds a WorkGuard exactly from its admission to its settled stream.
WorkFollowsPlaces ==
    work = {c \in Calls : place[c] \in {"admitted", "registered", "spawned", "running",
                                        "recorded", "ended"}}

\* The gate: no work over a workspace that is being changed.
GateExcludes == \A c \in work : call[c].root \notin changing

\* Of two entries one is ahead of the other, and the list has no cycle.
EntriesAreInOrder ==
    /\ \A c \in inFlight : <<c, c>> \notin ahead
    /\ \A c, d \in inFlight : c = d \/ <<c, d>> \in ahead \/ <<d, c>> \in ahead
    /\ \A b, c, d \in inFlight :
          <<b, c>> \in ahead /\ <<c, d>> \in ahead => <<b, d>> \in ahead

IInv ==
    /\ TypeOK
    /\ WorkFollowsPlaces
    /\ GateExcludes
    /\ EntriesAreOfLiveTurns
    /\ EntriesAreInOrder

-----------------------------------------------------------------------------
\* Nothing has begun, and nothing is being changed.
LEMMA InitIInv == Init => IInv
BY TurnsAssumption
DEF Init, IInv, TypeOK, Places, WorkFollowsPlaces, GateExcludes, EntriesAreOfLiveTurns,
    EntriesAreInOrder

\* What RunningTurn::drop keeps is in order, and keeps every other session's turn.
LEMMA KeepOthersKeeps ==
    ASSUME IInv, NEW c \in Calls, KeepOthers(c)
    PROVE  /\ inFlight' = {d \in inFlight : call[d].session # call[c].session}
           /\ ahead' \subseteq inFlight' \X inFlight'
           /\ EntriesAreInOrder'
<1>1. inFlight' = {d \in inFlight : call[d].session # call[c].session}
    BY DEF KeepOthers, OtherSessions
<1>2. ahead' = ahead \cap (inFlight' \X inFlight')
    BY DEF KeepOthers
<1>3. EntriesAreInOrder'
    BY <1>1, <1>2 DEF IInv, EntriesAreInOrder
<1> QED BY <1>1, <1>2, <1>3

\* Types are kept by every step.
LEMMA NextType ==
    ASSUME IInv, [Next]_vars
    PROVE  TypeOK'
<1> USE TurnsAssumption DEF IInv, TypeOK
<1>1. ASSUME NEW c \in Calls, NEW from \in Places, NEW to \in Places, Step(c, from, to)
      PROVE  place' \in [Calls -> Places]
    BY <1>1 DEF Step
<1>2. ASSUME NEW c \in Calls, BeginWork(c) PROVE TypeOK'
    BY <1>1, <1>2 DEF BeginWork, Places
<1>3. ASSUME NEW c \in Calls, Register(c) PROVE TypeOK'
    BY <1>1, <1>3 DEF Register, Places
<1>4. ASSUME NEW c \in Calls, Spawn(c) PROVE TypeOK'
    BY <1>1, <1>4 DEF Spawn, Places
<1>5. ASSUME NEW c \in Calls, SpawnFails(c) PROVE TypeOK'
    BY <1>1, <1>5, KeepOthersKeeps DEF SpawnFails, Places
<1>6. ASSUME NEW c \in Calls, SessionsDir(c) PROVE TypeOK'
    BY <1>1, <1>6 DEF SessionsDir, Places
<1>7. ASSUME NEW c \in Calls, Answer(c) PROVE TypeOK'
    BY <1>1, <1>7 DEF Answer, Places
<1>8. ASSUME NEW c \in Calls, End(c) PROVE TypeOK'
    BY <1>1, <1>8 DEF End, Places
<1>9. ASSUME NEW c \in Calls, DropWork(c) PROVE TypeOK'
    BY <1>1, <1>9 DEF DropWork, Places
<1>10. ASSUME NEW c \in Calls, DropRunning(c) PROVE TypeOK'
    BY <1>1, <1>10, KeepOthersKeeps DEF DropRunning, Places
<1>11. ASSUME NEW s \in Sessions, Stop(s) PROVE TypeOK'
    BY <1>11 DEF Stop
<1>12. ASSUME NEW r \in Roots, BeginChange(r) \/ EndChange(r) PROVE TypeOK'
    BY <1>12 DEF BeginChange, EndChange
<1>13. CASE UNCHANGED vars
    BY <1>13 DEF vars
<1> QED
    BY <1>2, <1>3, <1>4, <1>5, <1>6, <1>7, <1>8, <1>9, <1>10, <1>11, <1>12, <1>13
    DEF Next, ThreadStep, CutShort

\* A guard is taken and dropped at its places, and no change begins under one.
LEMMA NextGate ==
    ASSUME IInv, [Next]_vars
    PROVE  WorkFollowsPlaces' /\ GateExcludes'
<1> USE DEF IInv, TypeOK, WorkFollowsPlaces, GateExcludes, Step, Places
<1>1. ASSUME NEW c \in Calls, BeginWork(c) PROVE WorkFollowsPlaces' /\ GateExcludes'
    BY <1>1 DEF BeginWork
<1>2. ASSUME NEW c \in Calls, Register(c) \/ Spawn(c) \/ Answer(c) \/ End(c)
      PROVE  WorkFollowsPlaces' /\ GateExcludes'
    BY <1>2 DEF Register, Spawn, Answer, End
<1>3. ASSUME NEW c \in Calls, SpawnFails(c) \/ DropWork(c)
      PROVE  WorkFollowsPlaces' /\ GateExcludes'
    BY <1>3 DEF SpawnFails, DropWork
<1>4. ASSUME NEW c \in Calls, SessionsDir(c) PROVE WorkFollowsPlaces' /\ GateExcludes'
    BY <1>4 DEF SessionsDir
<1>5. ASSUME NEW c \in Calls, DropRunning(c) PROVE WorkFollowsPlaces' /\ GateExcludes'
    BY <1>5 DEF DropRunning
<1>6. ASSUME NEW s \in Sessions, Stop(s) PROVE WorkFollowsPlaces' /\ GateExcludes'
    BY <1>6 DEF Stop
<1>7. ASSUME NEW r \in Roots, BeginChange(r) \/ EndChange(r)
      PROVE  WorkFollowsPlaces' /\ GateExcludes'
    BY <1>7 DEF BeginChange, EndChange
<1>8. CASE UNCHANGED vars
    BY <1>8 DEF vars
<1> QED
    BY <1>1, <1>2, <1>3, <1>4, <1>5, <1>6, <1>7, <1>8 DEF Next, ThreadStep, CutShort

\* An entry comes with its turn and goes before or with it.
LEMMA NextEntries ==
    ASSUME IInv, [Next]_vars
    PROVE  EntriesAreOfLiveTurns' /\ EntriesAreInOrder'
<1> USE DEF IInv, TypeOK, EntriesAreOfLiveTurns, Step, Places
<1>1. ASSUME NEW c \in Calls, BeginWork(c)
      PROVE  EntriesAreOfLiveTurns' /\ EntriesAreInOrder'
    BY <1>1 DEF BeginWork, EntriesAreInOrder
<1>2. ASSUME NEW c \in Calls, Register(c)
      PROVE  EntriesAreOfLiveTurns' /\ EntriesAreInOrder'
    <2>1. c \notin inFlight /\ inFlight' = inFlight \cup {c}
        BY <1>2 DEF Register
    <2>2. EntriesAreOfLiveTurns'
        BY <1>2, <2>1 DEF Register
    <2>3. ahead' = ahead \cup (inFlight \X {c})
        BY <1>2 DEF Register
    <2>4. EntriesAreInOrder'
        BY <2>1, <2>3 DEF EntriesAreInOrder
    <2> QED BY <2>2, <2>4
<1>3. ASSUME NEW c \in Calls, Spawn(c) \/ Answer(c) \/ End(c) \/ DropWork(c)
      PROVE  EntriesAreOfLiveTurns' /\ EntriesAreInOrder'
    BY <1>3 DEF Spawn, Answer, End, DropWork, EntriesAreInOrder
<1>4. ASSUME NEW c \in Calls, SessionsDir(c)
      PROVE  EntriesAreOfLiveTurns' /\ EntriesAreInOrder'
    BY <1>4 DEF SessionsDir, EntriesAreInOrder
<1>5. ASSUME NEW c \in Calls, SpawnFails(c) \/ DropRunning(c)
      PROVE  EntriesAreOfLiveTurns' /\ EntriesAreInOrder'
    <2>1. KeepOthers(c)
        BY <1>5 DEF SpawnFails, DropRunning
    <2>2. inFlight' = {d \in inFlight : call[d].session # call[c].session}
        BY <2>1, KeepOthersKeeps
    <2>3. EntriesAreOfLiveTurns'
        BY <1>5, <2>2 DEF SpawnFails, DropRunning
    <2> QED BY <2>1, <2>3, KeepOthersKeeps
<1>6. ASSUME NEW s \in Sessions, Stop(s)
      PROVE  EntriesAreOfLiveTurns' /\ EntriesAreInOrder'
    BY <1>6 DEF Stop, EntriesAreInOrder
<1>7. ASSUME NEW r \in Roots, BeginChange(r) \/ EndChange(r)
      PROVE  EntriesAreOfLiveTurns' /\ EntriesAreInOrder'
    BY <1>7 DEF BeginChange, EndChange, EntriesAreInOrder
<1>8. CASE UNCHANGED vars
    BY <1>8 DEF vars, EntriesAreInOrder
<1> QED
    BY <1>1, <1>2, <1>3, <1>4, <1>5, <1>6, <1>7, <1>8 DEF Next, ThreadStep, CutShort

\* The strengthened invariant holds always.
THEOREM TurnsInvariant == Spec => []IInv
<1>1. IInv /\ [Next]_vars => IInv'
    BY NextType, NextGate, NextEntries DEF IInv
<1> QED BY <1>1, InitIInv, PTL DEF Spec

\* Every variable keeps its type (session.rs, the handler of session.say).
THEOREM TurnsTypes == Spec => []TypeOK
<1>1. IInv => TypeOK
    BY DEF IInv
<1> QED BY <1>1, TurnsInvariant, PTL

\* From its admission to its settled stream a turn's workspace is not changed, though
\* the handler that admitted it returned long before (register_say moves the guard into
\* the thread).
THEOREM TurnsKeepChangesAway == Spec => []ChangesWaitForTurns
<1>1. IInv => ChangesWaitForTurns
    BY DEF IInv, WorkFollowsPlaces, GateExcludes, ChangesWaitForTurns
<1> QED BY <1>1, TurnsInvariant, PTL

\* What can be stopped has not let go yet, and a turn that has its session to itself
\* can be stopped as long as it runs (RunningTurn::register and drop).
THEOREM TurnsCanBeFound == Spec => []EntriesAreOfLiveTurns
<1>1. IInv => EntriesAreOfLiveTurns
    BY DEF IInv
<1> QED BY <1>1, TurnsInvariant, PTL

-----------------------------------------------------------------------------
\* The turns that a stop of the session may cancel: those that no other turn of the
\* session is ahead of.
Stoppable(s) ==
    {c \in inFlight : call[c].session = s
                        /\ \A d \in inFlight \ {c} : call[d].session = s => <<c, d>> \in ahead}

\* A stop reaches at most one turn, the oldest of its session (iter().find in
\* register_stop), and it is one that can still be stopped.
StopsReachOneTurn ==
    [][\A s \in Sessions : Stop(s) =>
          \E c \in Stoppable(s) :
             /\ Stoppable(s) = {c}
             /\ cancelled' = cancelled \cup {c}
             /\ place[c] \in {"registered", "spawned", "running", "recorded", "ended",
                              "released"}]_vars

THEOREM StopIsExact == Spec => StopsReachOneTurn
<1>1. ASSUME IInv, NEW s \in Sessions, Stop(s)
      PROVE  \E c \in Stoppable(s) :
                /\ Stoppable(s) = {c}
                /\ cancelled' = cancelled \cup {c}
                /\ place[c] \in {"registered", "spawned", "running", "recorded", "ended",
                                 "released"}
    <2>1. PICK c \in inFlight :
             /\ call[c].session = s
             /\ \A d \in inFlight \ {c} : call[d].session = s => <<c, d>> \in ahead
             /\ cancelled' = cancelled \cup {c}
        BY <1>1 DEF Stop
    <2>2. c \in Stoppable(s)
        BY <2>1 DEF Stoppable
    <2>3. ASSUME NEW d \in Stoppable(s), d # c PROVE FALSE
        <3>1. d \in inFlight /\ <<d, c>> \in ahead /\ <<c, d>> \in ahead
            BY <2>1, <2>3 DEF Stoppable
        <3> QED BY <1>1, <3>1 DEF IInv, EntriesAreInOrder
    <2>4. place[c] \in {"registered", "spawned", "running", "recorded", "ended", "released"}
        BY <1>1 DEF IInv, TypeOK, Places, EntriesAreOfLiveTurns
    <2> QED BY <2>1, <2>2, <2>3, <2>4
<1>2. IInv /\ [Next]_vars =>
         [\A s \in Sessions : Stop(s) =>
             \E c \in Stoppable(s) :
                /\ Stoppable(s) = {c}
                /\ cancelled' = cancelled \cup {c}
                /\ place[c] \in {"registered", "spawned", "running", "recorded", "ended",
                                 "released"}]_vars
    BY <1>1
<1> QED BY <1>2, TurnsInvariant, PTL DEF Spec, StopsReachOneTurn


-----------------------------------------------------------------------------
(* A call of the model server.                                              *)

Halves == [l : Model!Lines \cup {Model!L("newline")}, half : 0..2]

\* What has been sent and not yet been taken as a line, and the events given to the caller
\* or on their way in the channel.
Stream == buf \o wire
Given == seen \o chan

\* The stream is of lines, from the start of one: it may only stop in the middle of one.
InLines(s) ==
    \A i \in 1..Len(s) :
        \/ s[i] = Model!NL
        \/ /\ s[i].half = 1
           /\ i < Len(s) => s[i + 1] = [l |-> s[i].l, half |-> 2]
        \/ /\ s[i].half = 2 /\ 1 < i /\ s[i - 1] = [l |-> s[i].l, half |-> 1]
           /\ i < Len(s) => s[i + 1] = Model!NL

\* A token's line ends here, or the line that says the answer is done.
Token(s, i) == s[i].half = 2 /\ s[i].l \in Model!Tokens
Sentinel(s, i) == s[i].half = 2 /\ s[i].l = Model!L("done")

\* The tokens of s are those after the p-th, in order and with none left out, up to the m-th
\* unless the rest was lost; and the sentinel comes after them all.
Counts(s, p, m, end) ==
    /\ \A i \in 1..Len(s) : Token(s, i) => s[i].l.k \in (p + 1)..m
    /\ \A i, j \in 1..Len(s) : i < j /\ Token(s, i) /\ Token(s, j) => s[i].l.k < s[j].l.k
    /\ \A i \in 1..Len(s) : Token(s, i) =>
          \A k \in (p + 1)..(s[i].l.k - 1) : \E j \in 1..(i - 1) : Token(s, j) /\ s[j].l.k = k
    /\ end # "reset" => \A k \in (p + 1)..m : \E i \in 1..Len(s) : Token(s, i) /\ s[i].l.k = k
    /\ \A i \in 1..Len(s) : Sentinel(s, i) =>
          end = "closed" /\ \A j \in 1..Len(s) : Token(s, j) => j < i

\* Before the body: the head is a line and a blank one, all of it, unless the rest was lost.
HeadFirst(s, end, at) ==
    /\ at = "connect" => s = <<>> /\ end = "listening"
    /\ at = "status" =>
          \/ s = <<>> /\ end \in {"asked", "closed", "reset"}
          \/ /\ \A i \in 1..Len(s) : /\ i = 1 => s[i].half = 1
                                     /\ i \in {3, 4} => s[i] = Model!NL
             /\ end # "reset" => Len(s) >= 4
    /\ at = "headers" => IF s = <<>> THEN end = "reset" ELSE s[1] = Model!NL

\* A stream of which p tokens are passed on and m sent.
Whole(s, p, m, end, at) ==
    /\ InLines(s) /\ HeadFirst(s, end, at)
    /\ end \in {"listening", "asked", "open"} /\ s # <<>> => s[Len(s)] = Model!NL
    /\ p <= m /\ Counts(s, p, m, end)

\* A token the worker has taken from the stream and not yet handed on.
Pending(w, d) ==
    \/ w.at = "send" /\ w.event \in Model!Tokens
    \/ d # <<>> /\ d[1] \in Model!Tokens

Passed(g, w, d) == IF Pending(w, d) THEN Len(g) + 1 ELSE Len(g)

\* The worker will go on with the stream, and can still make something of it.
Live(w, d) ==
    \/ w.at \in {"connect", "status", "headers"} /\ d = <<>>
    \/ w.at = "body" /\ Len(d) <= 1
    \/ w.at = "send" /\ w.event \in Model!Tokens /\ d = <<>>

\* Nothing follows an event that ends the call, and done is said of a whole answer.
EventsInOrder(g, w, d, m, end) ==
    /\ \A i \in 1..Len(g) :
          \/ g[i] = Model!T(i) /\ g[i] \in Model!Tokens
          \/ /\ Model!Terminal(g[i]) /\ i = Len(g) /\ w.at = "over"
             /\ g[i] = Model!L("done") => end = "closed" /\ m = i - 1
    /\ w.at = "send" =>
          \/ w.event = Model!T(Len(g) + 1) /\ w.event \in Model!Tokens /\ d = <<>>
          \/ /\ Model!Terminal(w.event)
             /\ w.event = Model!L("done") => end = "closed" /\ m = Len(g)
    /\ w.at = "body" /\ Len(d) = 1 =>
          /\ d[1] \in Model!Tokens => d[1] = Model!T(Len(g) + 1)
          /\ d[1] = Model!L("done") => end = "closed" /\ m = Len(g)

StreamIsWhole ==
    /\ Live(worker, data) => Whole(Stream, Passed(Given, worker, data), server.sent, server.end,
                                   worker.at)
    /\ EventsInOrder(Given, worker, data, server.sent, server.end)

\* The call that hands back a whole body.
HandedBackOnce ==
    /\ chan = <<>> /\ data = <<>>
    /\ worker.at = "send" => worker.event \in {Model!L("done"), Model!L("error")}
    /\ \/ seen = <<>>
       \/ /\ worker.at = "over"
          /\ seen = <<Model!L("done")>> \/ seen = <<Model!L("error")>>

CallTypes ==
    /\ buf \in Seq(Halves) /\ wire \in Seq(Halves)
    /\ server.sent \in Nat /\ server.sent <= MaxTokens
    /\ server \in [end : {"listening", "asked", "open", "closed", "reset"}, sent : Nat, other : Nat]
    /\ worker \in [at : {"connect", "status", "headers", "body", "send", "over"},
                   event : Model!Lines \cup {Model!L("none"), Model!L("error")}]
    /\ worker.at = "send" => worker.event \in Model!Lines \cup {Model!L("error")}
    /\ data \in Seq(Model!Lines)
    /\ worker.at \in {"connect", "status", "headers"} \/ kind # "generate" => data = <<>>
    /\ chan \in Seq(Model!Lines \cup {Model!L("error")})
    /\ seen \in Seq(Model!Lines \cup {Model!L("error")})

CallIInv ==
    /\ CallTypes
    /\ IF kind = "call" THEN HandedBackOnce ELSE StreamIsWhole

\* A nonempty set of numbers has a least one.
LEMMA LeastOfMany ==
    ASSUME NEW Set \in SUBSET Nat, Set # {}
    PROVE  \E m \in Set : \A k \in Set : m <= k
<1>1. PICK m \in Set : \A k \in Set : ~(<<k, m>> \in OpToRel(<, Nat))
  BY NatLessThanWellFounded, WFMin
<1>2. \A k \in Set : ~(k < m)
  BY <1>1 DEF OpToRel
<1> QED
  BY <1>2

\* What a token is, and what is none.
LEMMA TokensAre ==
    /\ \A x \in Model!Tokens : x.k \in 1..MaxTokens /\ x.k \in Nat /\ x = Model!T(x.k)
       /\ x \in Model!Lines
    /\ \A k \in Nat : 1 <= k /\ k <= MaxTokens => Model!T(k) \in Model!Tokens /\ Model!T(k).k = k
    /\ \A name \in {"done", "error", "none", "2xx", "note", "junk", "blank", "role", "newline"} :
          Model!L(name) \notin Model!Tokens /\ Model!L(name).is = name
    /\ \A x \in Model!Lines : x.is = "2xx" => x \notin Model!Tokens
<1> USE PartsAssumption DEF Model!CallAssumption, Model!Tokens, Model!T, Model!L, Model!Lines
<1>1. \A x \in Model!Tokens : x.k \in 1..MaxTokens /\ x.k \in Nat /\ x = Model!T(x.k)
    /\ x \in Model!Lines
  OBVIOUS
<1>2. \A k \in Nat : 1 <= k /\ k <= MaxTokens => Model!T(k) \in Model!Tokens /\ Model!T(k).k = k
  OBVIOUS
<1>3. \A name \in {"done", "error", "none", "2xx", "note", "junk", "blank", "role", "newline"} :
          Model!L(name) \notin Model!Tokens /\ Model!L(name).is = name
  OBVIOUS
<1>4. \A x \in Model!Lines : x.is = "2xx" => x \notin Model!Tokens
  OBVIOUS
<1> QED
  BY <1>1, <1>2, <1>3, <1>4

\* One sequence after another.
LEMMA Joined ==
    ASSUME NEW Set, NEW a \in Seq(Set), NEW b \in Seq(Set), NEW c, c = a \o b
    PROVE  /\ c \in Seq(Set) /\ Len(c) = Len(a) + Len(b) /\ Len(a) \in Nat /\ Len(b) \in Nat
           /\ \A i \in 1..Len(a) : i \in 1..Len(c) /\ c[i] = a[i]
           /\ \A i \in 1..Len(b) : Len(a) + i \in 1..Len(c) /\ c[Len(a) + i] = b[i]
           /\ \A i \in 1..Len(c) : i \in 1..Len(a) \/ (i - Len(a) \in 1..Len(b)
              /\ c[i] = b[i - Len(a)])
<1>1. Len(a) \in Nat /\ Len(b) \in Nat
  OBVIOUS
<1>2. c \in Seq(Set) /\ Len(c) = Len(a) + Len(b)
      /\ \A i \in 1..(Len(a) + Len(b)) : c[i] = IF i <= Len(a) THEN a[i] ELSE b[i - Len(a)]
  BY ConcatProperties
<1>3. PICK m \in Nat, n \in Nat : m = Len(a) /\ n = Len(b)
  BY <1>1
<1>4. /\ \A i \in 1..m : i \in 1..(m + n) /\ c[i] = a[i]
      /\ \A i \in 1..n : m + i \in 1..(m + n) /\ c[m + i] = b[i]
      /\ \A i \in 1..(m + n) : i \in 1..m \/ (i - m \in 1..n /\ c[i] = b[i - m])
  <2>1. \A i \in 1..m : i \in 1..(m + n) /\ i <= m
    OBVIOUS
  <2>2. \A i \in 1..n : m + i \in 1..(m + n) /\ ~(m + i <= m) /\ m + i - m = i
    OBVIOUS
  <2>3. \A i \in 1..(m + n) : i \in 1..m \/ (i - m \in 1..n /\ ~(i <= m))
    OBVIOUS
  <2> QED
    BY <1>2, <1>3, <2>1, <2>2, <2>3
<1> QED
  BY <1>1, <1>2, <1>3, <1>4

\* r is what is left of s without its first n.
Dropped(s, n, r) ==
    /\ s \in Seq(Halves) /\ r \in Seq(Halves) /\ n \in 0..Len(s) /\ Len(r) = Len(s) - n
    /\ \A i \in 1..Len(r) : r[i] = s[i + n]

\* Without its first lines the stream is still of lines.
LEMMA DropLines ==
    ASSUME NEW s, NEW r, NEW n \in Nat, 1 <= n, Dropped(s, n, r), InLines(s),
           s[n] = Model!NL \/ n = Len(s)
    PROVE  InLines(r)
<1>1. PICK k \in Nat, h \in Nat : k = Len(s) /\ h = Len(r) /\ h = k - n /\ n <= k
  BY DEF Dropped
<1>2. \A i \in 1..h : r[i] = s[i + n] /\ i + n \in 1..k
  BY <1>1 DEF Dropped
<1>3. n \in 1..k /\ Model!NL.half = 0
  BY <1>1 DEF Model!NL
<1> SUFFICES ASSUME NEW i \in 1..h
             PROVE  \/ r[i] = Model!NL
                    \/ /\ r[i].half = 1
                       /\ i < h => r[i + 1] = [l |-> r[i].l, half |-> 2]
                    \/ /\ r[i].half = 2 /\ 1 < i /\ r[i - 1] = [l |-> r[i].l, half |-> 1]
                       /\ i < h => r[i + 1] = Model!NL
  BY <1>1 DEF InLines
<1>4. PICK j \in 1..k : j = i + n /\ r[i] = s[j]
  BY <1>2
<1>5. /\ i < h => j < k /\ r[i + 1] = s[j + 1]
      /\ 1 < i => r[i - 1] = s[j - 1]
      /\ 1 = i => j - 1 = n
  <2>1. i < h => i + 1 \in 1..h /\ i + 1 + n = j + 1 /\ j < k
    BY <1>1, <1>4
  <2>2. 1 < i => i - 1 \in 1..h /\ i - 1 + n = j - 1
    BY <1>1, <1>4
  <2> QED
    BY <1>2, <1>4, <2>1, <2>2
<1>6. \/ s[j] = Model!NL
      \/ /\ s[j].half = 1
         /\ j < k => s[j + 1] = [l |-> s[j].l, half |-> 2]
      \/ /\ s[j].half = 2 /\ 1 < j /\ s[j - 1] = [l |-> s[j].l, half |-> 1]
         /\ j < k => s[j + 1] = Model!NL
  BY <1>1 DEF InLines
<1>7. ASSUME s[j].half = 2, s[j - 1] = [l |-> s[j].l, half |-> 1] PROVE 1 < i
  <2> SUFFICES ASSUME i = 1 PROVE FALSE
    OBVIOUS
  <2>1. s[n].half = 1
    BY <1>5, <1>7
  <2>2. n = k
    BY <1>1, <1>3, <2>1
  <2> QED
    BY <1>1, <2>2
<1> QED
  BY <1>4, <1>5, <1>6, <1>7

\* Without its first token, or without lines that are none, it counts on from there.
LEMMA DropCounts ==
    ASSUME NEW s, NEW r, NEW n \in Nat, 1 <= n, Dropped(s, n, r), NEW p \in Nat, NEW q \in Nat,
           NEW m \in Nat, NEW end, Counts(s, p, m, end),
           \/ q = p /\ \A j \in 1..n : ~Token(s, j)
           \/ /\ q = p + 1
              /\ \E j \in 1..n : /\ Token(s, j) /\ s[j].l.k = p + 1
                                 /\ \A i \in 1..n : Token(s, i) => i = j
    PROVE  Counts(r, q, m, end)
<1>1. PICK k \in Nat, h \in Nat : k = Len(s) /\ h = Len(r) /\ h = k - n /\ n <= k
  BY DEF Dropped
<1>2. \A i \in 1..h : r[i] = s[i + n] /\ i + n \in 1..k
  BY <1>1 DEF Dropped
<1>3. \A i \in 1..h : (Token(r, i) <=> Token(s, i + n)) /\ (Sentinel(r, i) <=> Sentinel(s, i + n))
  BY <1>2 DEF Token, Sentinel
<1>4. \A i \in 1..k : Token(s, i) => s[i].l.k \in Nat
  BY TokensAre DEF Token
<1>5. \A j \in 1..k : n < j => j - n \in 1..h /\ j - n + n = j
  BY <1>1
<1>6. q \in Int /\ p <= q /\ \A i \in 1..n : i \in 1..k
  BY <1>1
<1>7. \A i \in 1..h : Token(r, i) => r[i].l.k \in (q + 1)..m
  <2> SUFFICES ASSUME NEW i \in 1..h, Token(r, i) PROVE r[i].l.k \in (q + 1)..m
    OBVIOUS
  <2>1. r[i] = s[i + n] /\ i + n \in 1..k /\ Token(s, i + n) /\ r[i].l.k \in Nat
    BY <1>2, <1>3, <1>4
  <2>2. r[i].l.k \in (p + 1)..m
    BY <1>1, <2>1 DEF Counts
  <2>3. CASE q = p
    BY <2>2, <2>3
  <2>4. CASE q = p + 1 /\ \E j \in 1..n : Token(s, j) /\ s[j].l.k = p + 1
    <3>1. PICK j \in 1..n : Token(s, j) /\ s[j].l.k = p + 1
      BY <2>4
    <3>2. j < i + n /\ j \in 1..k
      BY <1>6
    <3>3. s[j].l.k < s[i + n].l.k
      BY <1>1, <2>1, <3>1, <3>2 DEF Counts
    <3> QED
      BY <2>1, <2>2, <2>4, <3>1, <3>3
  <2> QED
    BY <2>3, <2>4
<1>8. \A i, j \in 1..h : i < j /\ Token(r, i) /\ Token(r, j) => r[i].l.k < r[j].l.k
  <2> SUFFICES ASSUME NEW i \in 1..h, NEW j \in 1..h, i < j, Token(r, i), Token(r, j)
               PROVE  r[i].l.k < r[j].l.k
    OBVIOUS
  <2>1. i + n < j + n
    OBVIOUS
  <2> QED
    BY <1>1, <1>2, <1>3, <2>1 DEF Counts
\* A token between the q-th and one that is left, or the last, is left too.
<1>9. ASSUME NEW v \in (q + 1)..m, NEW j \in 1..k, Token(s, j), s[j].l.k = v
      PROVE  n < j
  <2> SUFFICES ASSUME j \in 1..n PROVE FALSE
    BY <1>1
  <2> QED
    BY <1>9
<1>10. \A i \in 1..h : Token(r, i) =>
           \A v \in (q + 1)..(r[i].l.k - 1) : \E j \in 1..(i - 1) : Token(r, j) /\ r[j].l.k = v
  <2> SUFFICES ASSUME NEW i \in 1..h, Token(r, i), NEW v \in (q + 1)..(r[i].l.k - 1)
               PROVE  \E j \in 1..(i - 1) : Token(r, j) /\ r[j].l.k = v
    OBVIOUS
  <2>1. r[i] = s[i + n] /\ i + n \in 1..k /\ Token(s, i + n) /\ r[i].l.k \in Nat
    BY <1>2, <1>3, <1>4
  <2>2. r[i].l.k \in (q + 1)..m
    BY <1>7
  <2>3. v \in (p + 1)..(s[i + n].l.k - 1) /\ v \in (q + 1)..m
    BY <1>6, <2>1, <2>2
  <2>4. PICK j \in 1..(i + n - 1) : Token(s, j) /\ s[j].l.k = v
    BY <1>1, <2>1, <2>3 DEF Counts
  <2>5. j \in 1..k
    BY <2>1
  <2>6. n < j
    BY <1>9, <2>3, <2>4, <2>5
  <2>7. j - n \in 1..(i - 1) /\ j - n \in 1..h /\ j - n + n = j
    BY <1>5, <2>5, <2>6
  <2> QED
    BY <1>2, <1>3, <2>4, <2>7
<1>11. end # "reset" => \A v \in (q + 1)..m : \E i \in 1..h : Token(r, i) /\ r[i].l.k = v
  <2> SUFFICES ASSUME end # "reset", NEW v \in (q + 1)..m
               PROVE  \E i \in 1..h : Token(r, i) /\ r[i].l.k = v
    OBVIOUS
  <2>1. v \in (p + 1)..m
    BY <1>6
  <2>2. PICK j \in 1..k : Token(s, j) /\ s[j].l.k = v
    BY <1>1, <2>1 DEF Counts
  <2>3. n < j
    BY <1>9, <2>2
  <2> QED
    BY <1>2, <1>3, <1>5, <2>2, <2>3
<1>12. \A i \in 1..h : Sentinel(r, i) =>
           end = "closed" /\ \A j \in 1..h : Token(r, j) => j < i
  <2> SUFFICES ASSUME NEW i \in 1..h, Sentinel(r, i)
               PROVE  end = "closed" /\ \A j \in 1..h : Token(r, j) => j < i
    OBVIOUS
  <2>1. i + n \in 1..k /\ Sentinel(s, i + n)
    BY <1>2, <1>3
  <2>2. end = "closed" /\ \A j \in 1..k : Token(s, j) => j < i + n
    BY <1>1, <2>1 DEF Counts
  <2>3. \A j \in 1..h : Token(r, j) => j + n < i + n
    BY <1>2, <1>3, <2>2
  <2> QED
    BY <2>2, <2>3
<1> QED
  BY <1>1, <1>7, <1>8, <1>10, <1>11, <1>12 DEF Counts

\* The first lines of a stream: a blank one, a whole one or, at its end, a part of one.
LEMMA FirstLine ==
    ASSUME NEW s \in Seq(Halves), InLines(s), s # <<>>
    PROVE  /\ Len(s) \in Nat /\ 1 <= Len(s)
           /\ \/ s[1] = Model!NL
              \/ /\ s[1].half = 1 /\ s[1] # Model!NL
                 /\ 2 <= Len(s) => s[2].half = 2 /\ s[2].l = s[1].l /\ s[2] # Model!NL
                 /\ 3 <= Len(s) => s[3] = Model!NL
<1>1. Len(s) \in Nat /\ 1 <= Len(s)
  BY EmptySeq
<1>2. PICK k \in Nat : k = Len(s) /\ 1 <= k
  BY <1>1
<1>3. Model!NL.half = 0
  BY DEF Model!NL
<1>4. s[1] = Model!NL \/ (s[1].half = 1 /\ (1 < k => s[2] = [l |-> s[1].l, half |-> 2]))
  <2>1. 1 \in 1..k /\ ~(1 < 1) /\ 1 + 1 = 2
    BY <1>2
  <2> QED
    BY <1>2, <2>1 DEF InLines
<1>5. ASSUME s[1] # Model!NL, 2 <= k
      PROVE  /\ s[2].half = 2 /\ s[2].l = s[1].l /\ s[2] # Model!NL
             /\ 3 <= k => s[3] = Model!NL
  <2>1. s[2] = [l |-> s[1].l, half |-> 2]
    BY <1>4, <1>5
  <2>2. s[2].half = 2 /\ s[2].l = s[1].l /\ s[2] # Model!NL
    BY <1>3, <2>1
  <2>3. 2 \in 1..k /\ 2 + 1 = 3 /\ (3 <= k => 2 < k)
    BY <1>2, <1>5
  <2>4. \/ s[2] = Model!NL
        \/ s[2].half = 1
        \/ 2 < k => s[2 + 1] = Model!NL
    BY <1>2, <2>3 DEF InLines
  <2> QED
    BY <2>2, <2>3, <2>4
<1>6. 3 <= k => 2 <= k
  BY <1>2
<1> QED
  BY <1>1, <1>2, <1>3, <1>4, <1>5, <1>6

\* What read_line takes from the stream, and what is left.
LEMMA ReadsFirst ==
    ASSUME NEW x, Model!LineRead(x), buf \in Seq(Halves), wire \in Seq(Halves), InLines(Stream),
           NEW r, r = Stream'
    PROVE  \E n \in {1, 2, 3} :
              /\ Dropped(Stream, n, r) /\ (Stream[n] = Model!NL \/ n = Len(Stream))
              /\ \/ n = 1 /\ Stream[1] = Model!NL /\ x = Model!L("blank")
                 \/ n = 1 /\ Stream[1].half = 1 /\ x \in {Model!L("junk"), Model!L("note")}
                 \/ /\ 1 < n /\ Stream[1].half = 1 /\ Stream[2].half = 2 /\ x = Stream[2].l
                    /\ 2 < n => Stream[3] = Model!NL
              /\ Stream[n] # Model!NL => server.end = "closed"
<1>1. PICK s \in Seq(Halves) : s = Stream
  BY ConcatProperties DEF Stream
<1>2. PICK b \in Nat, k \in Nat : b = Len(buf) /\ k = Len(s) /\ b <= k
  <2>1. s = buf \o wire
    BY <1>1 DEF Stream
  <2>2. Len(s) = Len(buf) + Len(wire) /\ Len(buf) \in Nat /\ Len(wire) \in Nat
    BY <2>1, Joined
  <2> QED
    BY <2>2
<1>3. \A i \in 1..b : i \in 1..k /\ s[i] = buf[i]
  BY <1>1, <1>2, Joined DEF Stream
<1>4. InLines(s)
  BY <1>1
<1>5. CASE Model!HasLine
  <2>1. PICK n \in 1..b : n = Model!NewLine /\ buf[n] = Model!NL
      /\ \A j \in 1..(n - 1) : buf[j] # Model!NL
    <3>0. DOMAIN buf = 1..b
      BY <1>2
    <3>1. PICK y \in 1..b : buf[y] = Model!NL
      BY <1>5, <3>0 DEF Model!HasLine
    <3>2. \E y0 \in 1..b : buf[y0] = Model!NL /\ \A j \in 1..(y0 - 1) : buf[j] # Model!NL
      <4>1. s # <<>> /\ 1 \in 1..b /\ 1 <= k
        BY <1>2, <1>3, EmptySeq
      <4>2. CASE s[1] = Model!NL
        BY <1>3, <4>1, <4>2
      <4>3. CASE s[1] # Model!NL
        <5>1. /\ 2 <= k => s[2] # Model!NL
              /\ 3 <= k => s[3] = Model!NL
          BY <1>2, <1>4, <4>1, <4>3, FirstLine
        <5>2. y # 1 /\ y # 2
          BY <1>2, <1>3, <3>1, <4>3, <5>1
        <5>3. 3 \in 1..b /\ 3 <= k /\ 2 <= k /\ 2 \in 1..b
          BY <1>2, <5>2
        <5>4. buf[3] = Model!NL /\ buf[1] # Model!NL /\ buf[2] # Model!NL
          BY <1>3, <4>1, <4>3, <5>1, <5>3
        <5>5. \A j \in 1..(3 - 1) : j = 1 \/ j = 2
          OBVIOUS
        <5> QED
          BY <5>3, <5>4, <5>5
      <4> QED
        BY <4>2, <4>3
    <3> QED
      BY <3>0, <3>2 DEF Model!NewLine
  <2>2. /\ x \in Model!ReadsAs(SubSeq(buf, 1, n - 1))
        /\ buf' = SubSeq(buf, n + 1, b) /\ wire' = wire
    BY <1>2, <1>5, <2>1 DEF Model!LineRead
  <2>3. n \in 1..k /\ s[n] = Model!NL /\ n \in Nat
    BY <1>3, <2>1
  <2>4. \A j \in 1..(n - 1) : s[j] # Model!NL
    <3>1. \A j \in 1..(n - 1) : j \in 1..b
      BY <1>2
    <3> QED
      BY <1>3, <2>1, <3>1
  <2>5. n = 1 \/ (n = 3 /\ s[1].half = 1 /\ s[2].half = 2 /\ s[2].l = s[1].l)
    <3>1. s # <<>> /\ 1 \in 1..k
      BY <1>2, <2>3, EmptySeq
    <3>2. CASE s[1] = Model!NL
      <4>1. ~(1 \in 1..(n - 1))
        BY <2>4, <3>2
      <4> QED
        BY <2>3, <4>1
    <3>3. CASE s[1] # Model!NL
      <4>1. /\ s[1].half = 1
            /\ 2 <= k => s[2].half = 2 /\ s[2].l = s[1].l /\ s[2] # Model!NL
            /\ 3 <= k => s[3] = Model!NL
        BY <1>2, <1>4, <3>1, <3>3, FirstLine
      <4>2. n # 1 /\ 2 <= k
        BY <1>2, <2>3, <3>3
      <4>3. n # 2
        BY <2>3, <4>1, <4>2
      <4>4. 3 <= k
        BY <1>2, <2>3, <4>2, <4>3
      <4>5. ~(3 \in 1..(n - 1))
        BY <2>4, <4>1, <4>4
      <4>6. n = 3
        BY <2>3, <4>2, <4>3, <4>5
      <4> QED
        BY <4>1, <4>2, <4>6
    <3> QED
      BY <3>2, <3>3
  <2>6. Dropped(s, n, r)
    <3>1. \A i \in (n + 1)..b : buf[i] \in Halves
      BY <1>2, <2>3
    <3>2. /\ buf' \in Seq(Halves)
          /\ Len(buf') = IF n + 1 <= b THEN b - (n + 1) + 1 ELSE 0
          /\ \A i \in 1..(b - (n + 1) + 1) : buf'[i] = buf[n + 1 + i - 1]
      <4>1. n + 1 \in Int /\ b \in Int
        BY <2>3
      <4> QED
        BY <2>2, <3>1, <4>1, SubSeqProperties
    <3>3. Len(buf') = b - n /\ \A i \in 1..(b - n) : buf'[i] = buf[i + n]
      <4>1. /\ (IF n + 1 <= b THEN b - (n + 1) + 1 ELSE 0) = b - n /\ b - (n + 1) + 1 = b - n
            /\ \A i \in 1..(b - n) : n + 1 + i - 1 = i + n
        BY <1>2, <2>1
      <4> QED
        BY <3>2, <4>1
    <3>4. r = buf' \o wire
      BY <2>2 DEF Stream
    <3>5. PICK e \in Nat : e = Len(wire) /\ k = b + e
      BY <1>1, <1>2, Joined DEF Stream
    <3>6. /\ r \in Seq(Halves) /\ Len(r) = (b - n) + e
          /\ \A i \in 1..(b - n) : r[i] = buf'[i]
          /\ \A i \in 1..Len(r) : i \in 1..(b - n) \/ (i - (b - n) \in 1..e
             /\ r[i] = wire[i - (b - n)])
      <4>1. PICK c \in Seq(Halves) : c = buf' /\ Len(c) = b - n
        BY <3>2, <3>3
      <4>2. r = c \o wire
        BY <3>4, <4>1
      <4>3. /\ r \in Seq(Halves) /\ Len(r) = Len(c) + Len(wire)
            /\ \A i \in 1..Len(c) : r[i] = c[i]
            /\ \A i \in 1..Len(r) : i \in 1..Len(c) \/
                  (i - Len(c) \in 1..Len(wire) /\ r[i] = wire[i - Len(c)])
        BY <4>2, Joined
      <4> QED
        BY <3>5, <4>1, <4>3
    <3>7. \A i \in 1..e : s[b + i] = wire[i]
      BY <1>1, <1>2, <3>5, Joined DEF Stream
    <3>8. Len(r) = k - n
      BY <1>2, <2>3, <3>5, <3>6
    <3>9. ASSUME NEW i \in 1..(k - n) PROVE r[i] = s[i + n]
      <4>1. CASE i \in 1..(b - n)
        <5>1. i + n \in 1..b
          BY <1>2, <2>1, <4>1
        <5> QED
          BY <1>3, <3>3, <3>6, <4>1, <5>1
      <4>2. CASE i - (b - n) \in 1..e /\ r[i] = wire[i - (b - n)]
        <5>1. b + (i - (b - n)) = i + n
          BY <1>2, <2>1
        <5> QED
          BY <3>7, <4>2, <5>1
      <4> QED
        BY <3>6, <3>8, <4>1, <4>2
    <3>10. n \in 0..k
      BY <2>3
    <3> QED
      BY <1>2, <3>6, <3>8, <3>9, <3>10 DEF Dropped
  <2>7. CASE n = 1
    <3>1. SubSeq(buf, 1, n - 1) = <<>>
      BY <2>7, SubSeqEmpty
    <3>2. x = Model!L("blank")
      BY <2>2, <3>1 DEF Model!ReadsAs
    <3> QED
      BY <1>1, <2>3, <2>6, <2>7, <3>2
  <2>8. CASE n = 3 /\ s[1].half = 1 /\ s[2].half = 2 /\ s[2].l = s[1].l
    <3>1. 1 \in 1..b /\ 2 \in 1..b
      BY <1>2, <2>1, <2>8
    <3>2. \A i \in 1..2 : buf[i] \in Halves
      BY <1>2, <3>1
    <3>3. /\ SubSeq(buf, 1, 2) \in Seq(Halves)
          /\ Len(SubSeq(buf, 1, 2)) = 2 /\ SubSeq(buf, 1, 2)[1] = buf[1]
      <4>1. /\ SubSeq(buf, 1, 2) \in Seq(Halves)
            /\ Len(SubSeq(buf, 1, 2)) = IF 1 <= 2 THEN 2 - 1 + 1 ELSE 0
            /\ \A i \in 1..(2 - 1 + 1) : SubSeq(buf, 1, 2)[i] = buf[1 + i - 1]
        BY <3>2, SubSeqProperties
      <4> QED
        BY <4>1
    <3>4. x = buf[1].l
      <4>1. n - 1 = 2
        BY <2>8
      <4>2. PICK h \in Seq(Halves) : Len(h) = 2 /\ h[1] = buf[1] /\ x \in Model!ReadsAs(h)
        BY <2>2, <3>3, <4>1
      <4>3. h # <<>>
        BY <4>2
      <4> QED
        BY <4>2, <4>3 DEF Model!ReadsAs
    <3>5. x = s[2].l
      BY <1>3, <2>8, <3>1, <3>4
    <3> QED
      BY <1>1, <2>3, <2>6, <2>8, <3>5
  <2> QED
    BY <2>5, <2>7, <2>8
<1>6. CASE ~Model!HasLine
  <2>1. /\ server.end = "closed" /\ wire = <<>> /\ buf # <<>>
        /\ x \in Model!ReadsAs(buf) /\ buf' = <<>> /\ wire' = <<>>
    BY <1>6 DEF Model!LineRead
  <2>2. s = buf /\ b = k /\ s # <<>>
    <3>1. s = buf
      BY <1>1, <2>1, ConcatEmptySeq DEF Stream
    <3> QED
      BY <1>2, <2>1, <3>1
  <2>3. \A i \in 1..k : s[i] # Model!NL
    BY <1>2, <1>6, <2>2 DEF Model!HasLine
  <2>4. /\ 1 <= k /\ s[1].half = 1
        /\ 2 <= k => s[2].half = 2 /\ s[2].l = s[1].l
        /\ ~(3 <= k)
    <3>1. 1 <= k /\ 1 \in 1..k
      BY <1>2, <2>2, EmptySeq
    <3>2. s[1] # Model!NL
      BY <2>3, <3>1
    <3>3. /\ s[1].half = 1
          /\ 2 <= k => s[2].half = 2 /\ s[2].l = s[1].l
          /\ 3 <= k => s[3] = Model!NL
      BY <1>2, <1>4, <2>2, <3>2, FirstLine
    <3>4. 3 <= k => 3 \in 1..k
      BY <1>2
    <3> QED
      BY <2>3, <3>1, <3>3, <3>4
  <2>5. k = 1 \/ k = 2
    BY <1>2, <2>4
  <2>6. r = <<>>
    BY <2>1 DEF Stream
  <2>7. Dropped(s, k, r)
    BY <1>2, <2>6 DEF Dropped
  <2>8. s[k] # Model!NL
    BY <2>3, <2>5
  <2>9. CASE k = 1
    <3>1. x \in {Model!L("junk"), Model!L("note")}
      BY <1>2, <2>1, <2>2, <2>9 DEF Model!ReadsAs
    <3> QED
      BY <1>1, <1>2, <2>1, <2>4, <2>7, <2>9, <3>1
  <2>10. CASE k = 2
    <3>1. x = s[2].l
      BY <1>2, <2>1, <2>2, <2>4, <2>10 DEF Model!ReadsAs
    <3> QED
      BY <1>1, <1>2, <2>1, <2>4, <2>7, <2>10, <3>1
  <2> QED
    BY <2>5, <2>9, <2>10
<1> QED
  BY <1>5, <1>6

\* The next token of a stream, where its first line is one, is the one after the last.
LEMMA FirstToken ==
    ASSUME NEW s \in Seq(Halves), InLines(s), NEW p \in Nat, NEW m \in Nat, NEW end,
           Counts(s, p, m, end), 2 <= Len(s), s[1].half = 1, Token(s, 2)
    PROVE  s[2].l = Model!T(p + 1)
<1>1. 2 \in 1..Len(s) /\ 1 \in 1..Len(s)
  OBVIOUS
<1>2. s[2].l.k \in Nat /\ s[2].l = Model!T(s[2].l.k) /\ s[2].l.k \in (p + 1)..m
  BY <1>1, TokensAre DEF Token, Counts
<1>3. ~Token(s, 1)
  BY DEF Token
<1>4. \A k \in (p + 1)..(s[2].l.k - 1) : \E j \in 1..(2 - 1) : Token(s, j) /\ s[j].l.k = k
  BY <1>1 DEF Counts
<1>5. \A k \in (p + 1)..(s[2].l.k - 1) : FALSE
  BY <1>3, <1>4
<1>6. s[2].l.k = p + 1
  BY <1>2, <1>5
<1> QED
  BY <1>2, <1>6

\* After the sentinel is read everything was passed on.
LEMMA FirstSentinel ==
    ASSUME NEW s \in Seq(Halves), NEW p \in Nat, NEW m \in Nat, p <= m, NEW end,
           Counts(s, p, m, end), 2 <= Len(s), s[1].half = 1, Sentinel(s, 2)
    PROVE  end = "closed" /\ m = p
<1>1. 2 \in 1..Len(s)
  OBVIOUS
<1>2. end = "closed" /\ \A j \in 1..Len(s) : Token(s, j) => j < 2
  BY <1>1 DEF Counts
<1>3. \A j \in 1..Len(s) : ~Token(s, j)
  <2>1. ~Token(s, 1)
    BY DEF Token
  <2>2. \A j \in 1..Len(s) : j < 2 => j = 1
    OBVIOUS
  <2> QED
    BY <1>2, <2>1, <2>2
<1>4. \A k \in (p + 1)..m : FALSE
  BY <1>2, <1>3 DEF Counts
<1> QED
  BY <1>2, <1>4

\* r is s and then w.
Longer(s, w, r) ==
    /\ s \in Seq(Halves) /\ w \in Seq(Halves) /\ r \in Seq(Halves)
    /\ Len(r) = Len(s) + Len(w)
    /\ \A i \in 1..Len(s) : r[i] = s[i]
    /\ \A i \in 1..Len(w) : r[Len(s) + i] = w[i]

\* Lines after lines.
LEMMA ExtendLines ==
    ASSUME NEW s, NEW w, NEW r, Longer(s, w, r), InLines(s), InLines(w),
           s = <<>> \/ s[Len(s)] = Model!NL
    PROVE  InLines(r)
<1>1. PICK a \in Nat, b \in Nat : a = Len(s) /\ b = Len(w) /\ Len(r) = a + b
  BY DEF Longer
<1>2. \A i \in 1..a : i \in 1..(a + b) /\ r[i] = s[i]
  BY <1>1 DEF Longer
<1>3. \A i \in 1..b : a + i \in 1..(a + b) /\ r[a + i] = w[i]
  BY <1>1 DEF Longer
<1>4. Model!NL.half = 0
  BY DEF Model!NL
<1>5. a > 0 => s[a] = Model!NL
  BY <1>1
<1> SUFFICES ASSUME NEW i \in 1..(a + b)
             PROVE  \/ r[i] = Model!NL
                    \/ /\ r[i].half = 1
                       /\ i < a + b => r[i + 1] = [l |-> r[i].l, half |-> 2]
                    \/ /\ r[i].half = 2 /\ 1 < i /\ r[i - 1] = [l |-> r[i].l, half |-> 1]
                       /\ i < a + b => r[i + 1] = Model!NL
  BY <1>1 DEF InLines
<1>6. CASE i \in 1..a
  <2>1. CASE i = a
    BY <1>2, <1>5, <1>6, <2>1
  <2>2. CASE i # a
    <3>1. i < a /\ i + 1 \in 1..a /\ (1 < i => i - 1 \in 1..a) /\ r[i] = s[i] /\ r[i + 1] = s[i + 1]
      BY <1>2, <1>6, <2>2
    <3>2. 1 < i => r[i - 1] = s[i - 1]
      BY <1>2, <3>1
    <3>3. \/ s[i] = Model!NL
          \/ /\ s[i].half = 1
             /\ i < a => s[i + 1] = [l |-> s[i].l, half |-> 2]
          \/ /\ s[i].half = 2 /\ 1 < i /\ s[i - 1] = [l |-> s[i].l, half |-> 1]
             /\ i < a => s[i + 1] = Model!NL
      BY <1>1, <1>6 DEF InLines
    <3> QED
      BY <3>1, <3>2, <3>3
  <2> QED
    BY <2>1, <2>2
<1>7. CASE i \notin 1..a
  <2>1. PICK j \in 1..b : i = a + j /\ r[i] = w[j]
    <3>1. i - a \in 1..b /\ i = a + (i - a)
      BY <1>7
    <3> QED
      BY <1>3, <3>1
  <2>2. j < b <=> i < a + b
    BY <2>1
  <2>3. /\ j < b => r[i + 1] = w[j + 1]
        /\ 1 < j => r[i - 1] = w[j - 1] /\ 1 < i
    <3>1. j < b => j + 1 \in 1..b /\ a + (j + 1) = i + 1
      BY <2>1
    <3>2. 1 < j => j - 1 \in 1..b /\ a + (j - 1) = i - 1 /\ 1 < i
      BY <2>1
    <3> QED
      BY <1>3, <3>1, <3>2
  <2>4. \/ w[j] = Model!NL
        \/ /\ w[j].half = 1
           /\ j < b => w[j + 1] = [l |-> w[j].l, half |-> 2]
        \/ /\ w[j].half = 2 /\ 1 < j /\ w[j - 1] = [l |-> w[j].l, half |-> 1]
           /\ j < b => w[j + 1] = Model!NL
    BY <1>1 DEF InLines
  <2> QED
    BY <2>1, <2>2, <2>3, <2>4
<1> QED
  BY <1>6, <1>7

\* Nothing with a token or the sentinel in it, or the next token.
LEMMA ExtendCounts ==
    ASSUME NEW s, NEW w, NEW r, Longer(s, w, r), NEW p \in Nat, NEW m \in Nat, p <= m,
           NEW e, e \in {"listening", "asked", "open"}, Counts(s, p, m, e),
           NEW f, f # "reset", NEW q \in Nat,
           \/ q = m /\ \A i \in 1..Len(w) : ~Token(w, i)
           \/ /\ q = m + 1
              /\ \E i \in 1..Len(w) : /\ Token(w, i) /\ w[i].l.k = m + 1
                                      /\ \A j \in 1..Len(w) : Token(w, j) => j = i,
           \A i \in 1..Len(w) : Sentinel(w, i) => f = "closed" /\ q = m
    PROVE  Counts(r, p, q, f)
<1>1. PICK a \in Nat, b \in Nat : a = Len(s) /\ b = Len(w) /\ Len(r) = a + b
  BY DEF Longer
<1>2. \A i \in 1..a : i \in 1..(a + b) /\ r[i] = s[i]
  BY <1>1 DEF Longer
<1>3. \A i \in 1..b : a + i \in 1..(a + b) /\ r[a + i] = w[i]
  BY <1>1 DEF Longer
<1>4. /\ \A i \in 1..a : (Token(r, i) <=> Token(s, i)) /\ (Sentinel(r, i) <=> Sentinel(s, i))
      /\ \A i \in 1..b : (Token(r, a + i) <=> Token(w, i))
      /\ \A i \in 1..b : (Sentinel(r, a + i) <=> Sentinel(w, i))
  BY <1>2, <1>3 DEF Token, Sentinel
<1>5. ASSUME NEW i \in 1..(a + b), i \notin 1..a
      PROVE  \E j \in 1..b : i = a + j
  <2>1. i - a \in 1..b /\ i = a + (i - a)
    BY <1>5
  <2> QED
    BY <2>1
<1>6. \A i \in 1..a : ~Sentinel(s, i)
  BY <1>1 DEF Counts
<1>7. \A i \in 1..a : Token(s, i) => s[i].l.k \in (p + 1)..m
  BY <1>1 DEF Counts
<1>8. \A i \in 1..b : Token(w, i) => w[i].l.k = m + 1 /\ q = m + 1
  BY <1>1
<1>9. ASSUME NEW i \in 1..(a + b), Token(r, i)
      PROVE  \/ i \in 1..a /\ Token(s, i) /\ r[i].l.k = s[i].l.k /\ r[i].l.k \in (p + 1)..m
             \/ i \notin 1..a /\ r[i].l.k = m + 1 /\ q = m + 1
  <2>1. CASE i \in 1..a
    BY <1>2, <1>4, <1>7, <1>9, <2>1
  <2>2. CASE i \notin 1..a
    <3>1. PICK j \in 1..b : i = a + j
      BY <1>5, <2>2
    <3>2. Token(w, j) /\ r[i] = w[j]
      BY <1>3, <1>4, <1>9, <3>1
    <3> QED
      BY <1>8, <2>2, <3>2
  <2> QED
    BY <2>1, <2>2
<1>10. ASSUME NEW i \in 1..(a + b), Token(r, i) PROVE r[i].l.k \in (p + 1)..q
  <2>1. q = m \/ q = m + 1
    OBVIOUS
  <2>2. CASE r[i].l.k \in (p + 1)..m
    BY <2>1, <2>2
  <2>3. CASE r[i].l.k = m + 1 /\ q = m + 1
    BY <2>3
  <2> QED
    BY <1>9, <1>10, <2>2, <2>3
<1>11. \A i, j \in 1..(a + b) : i < j /\ Token(r, i) /\ Token(r, j) => r[i].l.k < r[j].l.k
  <2> SUFFICES ASSUME NEW i \in 1..(a + b), NEW j \in 1..(a + b), i < j, Token(r, i), Token(r, j)
               PROVE  r[i].l.k < r[j].l.k
    OBVIOUS
  <2>1. CASE j \in 1..a
    <3>1. i \in 1..a
      BY <2>1
    <3>2. Token(s, i) /\ Token(s, j) /\ r[i] = s[i] /\ r[j] = s[j]
      BY <1>2, <1>4, <2>1, <3>1
    <3> QED
      BY <1>1, <2>1, <3>1, <3>2 DEF Counts
  <2>2. CASE j \notin 1..a /\ i \in 1..a
    BY <1>9, <2>2, SMTT(30)
  <2>3. CASE j \notin 1..a /\ i \notin 1..a
    <3>1. PICK x \in 1..b, y \in 1..b : i = a + x /\ j = a + y
      BY <1>5, <2>3
    <3>2. Token(w, x) /\ Token(w, y)
      BY <1>4, <3>1
    <3>3. x = y
      BY <1>1, <3>2
    <3> QED
      BY <3>1, <3>3
  <2> QED
    BY <2>1, <2>2, <2>3
<1>12. ASSUME NEW v \in (p + 1)..m PROVE \E j \in 1..a : Token(r, j) /\ r[j].l.k = v
  BY <1>1, <1>2, <1>4 DEF Counts
<1>13. \A i \in 1..(a + b) : Token(r, i) =>
           \A v \in (p + 1)..(r[i].l.k - 1) : \E j \in 1..(i - 1) : Token(r, j) /\ r[j].l.k = v
  <2> SUFFICES ASSUME NEW i \in 1..(a + b), Token(r, i), NEW v \in (p + 1)..(r[i].l.k - 1)
               PROVE  \E j \in 1..(i - 1) : Token(r, j) /\ r[j].l.k = v
    OBVIOUS
  <2>1. CASE i \in 1..a
    <3>1. Token(s, i) /\ r[i] = s[i]
      BY <1>2, <1>4, <2>1
    <3>2. PICK j \in 1..(i - 1) : Token(s, j) /\ s[j].l.k = v
      BY <1>1, <2>1, <3>1 DEF Counts
    <3>3. j \in 1..a
      BY <2>1
    <3> QED
      BY <1>2, <1>4, <3>2, <3>3
  <2>2. CASE i \notin 1..a
    <3>1. r[i].l.k = m + 1
      BY <1>9, <2>2
    <3>2. v \in (p + 1)..m
      BY <3>1
    <3>3. PICK j \in 1..a : Token(r, j) /\ r[j].l.k = v
      BY <1>12, <3>2
    <3>4. j \in 1..(i - 1)
      BY <2>2
    <3> QED
      BY <3>3, <3>4
  <2> QED
    BY <2>1, <2>2
<1>14. \A v \in (p + 1)..q : \E i \in 1..(a + b) : Token(r, i) /\ r[i].l.k = v
  <2> SUFFICES ASSUME NEW v \in (p + 1)..q PROVE \E i \in 1..(a + b) : Token(r, i) /\ r[i].l.k = v
    OBVIOUS
  <2>1. CASE v \in (p + 1)..m
    BY <1>2, <1>12, <2>1
  <2>2. CASE v \notin (p + 1)..m
    <3>0. q = m \/ q = m + 1
      OBVIOUS
    <3>1. q = m + 1 /\ v = m + 1
      BY <2>2, <3>0
    <3>2. PICK i \in 1..b : Token(w, i) /\ w[i].l.k = m + 1
      BY <1>1, <3>1
    <3> QED
      BY <1>3, <1>4, <3>1, <3>2, SMTT(30)
  <2> QED
    BY <2>1, <2>2
<1>15. \A i \in 1..(a + b) : Sentinel(r, i) =>
           f = "closed" /\ \A j \in 1..(a + b) : Token(r, j) => j < i
  <2> SUFFICES ASSUME NEW i \in 1..(a + b), Sentinel(r, i)
               PROVE  f = "closed" /\ \A j \in 1..(a + b) : Token(r, j) => j < i
    OBVIOUS
  <2>1. i \notin 1..a
    BY <1>4, <1>6
  <2>2. f = "closed" /\ q = m
    BY <1>1, <1>4, <1>5, <2>1
  <2>3. \A j \in 1..(a + b) : Token(r, j) => j \in 1..a
    <3>1. m # m + 1
      OBVIOUS
    <3> QED
      BY <1>9, <2>2, <3>1
  <2> QED
    BY <2>1, <2>2, <2>3
<1> QED
  BY <1>1, <1>10, <1>11, <1>13, <1>14, <1>15 DEF Counts

\* A stream whose end is lost.
LEMMA CutStream ==
    ASSUME NEW s \in Seq(Halves), NEW r \in Seq(Halves), Len(r) <= Len(s),
           \A i \in 1..Len(r) : r[i] = s[i], InLines(s), NEW p \in Nat, NEW m \in Nat, NEW e,
           e # "closed", Counts(s, p, m, e)
    PROVE  InLines(r) /\ Counts(r, p, m, "reset")
<1>1. PICK a \in Nat, b \in Nat : a = Len(r) /\ b = Len(s) /\ a <= b
  OBVIOUS
<1>2. \A i \in 1..a : i \in 1..b /\ r[i] = s[i]
  BY <1>1
<1>3. \A i \in 1..a : (Token(r, i) <=> Token(s, i)) /\ (Sentinel(r, i) <=> Sentinel(s, i))
  BY <1>2 DEF Token, Sentinel
<1>4. InLines(r)
  <2> SUFFICES ASSUME NEW i \in 1..a
               PROVE  \/ r[i] = Model!NL
                      \/ /\ r[i].half = 1
                         /\ i < a => r[i + 1] = [l |-> r[i].l, half |-> 2]
                      \/ /\ r[i].half = 2 /\ 1 < i /\ r[i - 1] = [l |-> r[i].l, half |-> 1]
                         /\ i < a => r[i + 1] = Model!NL
    BY <1>1 DEF InLines
  <2>1. (i < a => i < b /\ i + 1 \in 1..a) /\ (1 < i => i - 1 \in 1..a)
    BY <1>1
  <2>2. \/ s[i] = Model!NL
        \/ /\ s[i].half = 1
           /\ i < b => s[i + 1] = [l |-> s[i].l, half |-> 2]
        \/ /\ s[i].half = 2 /\ 1 < i /\ s[i - 1] = [l |-> s[i].l, half |-> 1]
           /\ i < b => s[i + 1] = Model!NL
    BY <1>1, <1>2 DEF InLines
  <2> QED
    BY <1>2, <2>1, <2>2
<1>5. \A i \in 1..a : Token(r, i) => r[i].l.k \in (p + 1)..m
  BY <1>1, <1>2, <1>3 DEF Counts
<1>6. \A i, j \in 1..a : i < j /\ Token(r, i) /\ Token(r, j) => r[i].l.k < r[j].l.k
  BY <1>1, <1>2, <1>3 DEF Counts
<1>7. \A i \in 1..a : Token(r, i) =>
          \A v \in (p + 1)..(r[i].l.k - 1) : \E j \in 1..(i - 1) : Token(r, j) /\ r[j].l.k = v
  <2> SUFFICES ASSUME NEW i \in 1..a, Token(r, i), NEW v \in (p + 1)..(r[i].l.k - 1)
               PROVE  \E j \in 1..(i - 1) : Token(r, j) /\ r[j].l.k = v
    OBVIOUS
  <2>1. PICK j \in 1..(i - 1) : Token(s, j) /\ s[j].l.k = v
    BY <1>1, <1>2, <1>3 DEF Counts
  <2>2. j \in 1..a
    OBVIOUS
  <2> QED
    BY <1>2, <1>3, <2>1, <2>2
<1>8. \A i \in 1..a : ~Sentinel(r, i)
  BY <1>1, <1>2, <1>3 DEF Counts
<1> QED
  BY <1>1, <1>4, <1>5, <1>6, <1>7, <1>8 DEF Counts

\* A line x, whole or cut, and perhaps a blank one after it.
IsLine(w, x) ==
    /\ w \in Seq(Halves) /\ Len(w) \in 1..4 /\ w[1] = [l |-> x, half |-> 1]
    /\ 2 <= Len(w) => w[2] = [l |-> x, half |-> 2]
    /\ \A i \in 3..Len(w) : w[i] = Model!NL

\* Nothing, or a blank line.
IsBlank(w) == w \in Seq(Halves) /\ Len(w) \in 0..1 /\ \A i \in 1..Len(w) : w[i] = Model!NL

\* A line alone is a stream, with its token or none.
LEMMA LineIs ==
    ASSUME NEW w, NEW x, IsLine(w, x) \/ IsBlank(w)
    PROVE  /\ w \in Seq(Halves) /\ InLines(w)
           /\ \A i \in 1..Len(w) : Token(w, i) => i = 2 /\ x \in Model!Tokens /\ w[i].l = x
           /\ \A i \in 1..Len(w) : Sentinel(w, i) => i = 2 /\ x = Model!L("done")
           /\ IsLine(w, x) /\ 2 <= Len(w) /\ x \in Model!Tokens =>
                 2 \in 1..Len(w) /\ Token(w, 2) /\ w[2].l = x
           /\ IsBlank(w) \/ 3 <= Len(w) => w = <<>> \/ w[Len(w)] = Model!NL
<1>0. Model!NL.half = 0
  BY DEF Model!NL
<1>1. CASE IsBlank(w)
  <2>1. \A i \in 1..Len(w) : w[i] = Model!NL /\ ~Token(w, i) /\ ~Sentinel(w, i)
    BY <1>0, <1>1 DEF IsBlank, Token, Sentinel
  <2>2. ~(2 <= Len(w)) /\ w \in Seq(Halves)
    BY <1>1 DEF IsBlank
  <2>3. InLines(w)
    BY <2>1 DEF InLines
  <2>4. w = <<>> \/ Len(w) \in 1..Len(w)
    BY <2>2, EmptySeq
  <2> QED
    BY <2>1, <2>2, <2>3, <2>4
<1>2. CASE IsLine(w, x) /\ ~IsBlank(w)
  <2>1. PICK k \in 1..4 : k = Len(w) /\ w \in Seq(Halves)
    BY <1>2 DEF IsLine
  <2>2. /\ w[1] = [l |-> x, half |-> 1] /\ w[1].half = 1 /\ w[1].l = x
        /\ 2 <= k => w[2] = [l |-> x, half |-> 2] /\ w[2].half = 2 /\ w[2].l = x
        /\ \A i \in 3..k : w[i] = Model!NL /\ w[i].half = 0
    BY <1>0, <1>2, <2>1 DEF IsLine
  <2>3. \A i \in 1..k : i = 1 \/ (i = 2 /\ 2 <= k) \/ i \in 3..k
    OBVIOUS
  <2>4. InLines(w)
    <3> SUFFICES ASSUME NEW i \in 1..k
                 PROVE  \/ w[i] = Model!NL
                        \/ /\ w[i].half = 1
                           /\ i < k => w[i + 1] = [l |-> w[i].l, half |-> 2]
                        \/ /\ w[i].half = 2 /\ 1 < i /\ w[i - 1] = [l |-> w[i].l, half |-> 1]
                           /\ i < k => w[i + 1] = Model!NL
      BY <2>1 DEF InLines
    <3>1. CASE i = 1
      <4>1. i < k => 2 <= k /\ i + 1 = 2
        BY <3>1
      <4> QED
        BY <2>2, <3>1, <4>1
    <3>2. CASE i = 2 /\ 2 <= k
      <4>1. 1 < i /\ i - 1 = 1 /\ (i < k => i + 1 = 3 /\ 3 \in 3..k)
        BY <3>2
      <4> QED
        BY <2>2, <3>2, <4>1
    <3>3. CASE i \in 3..k
      BY <2>2, <3>3
    <3> QED
      BY <2>3, <3>1, <3>2, <3>3
  <2>5. \A i \in 1..k : (Token(w, i) => i = 2 /\ x \in Model!Tokens /\ w[i].l = x)
                        /\ (Sentinel(w, i) => i = 2 /\ x = Model!L("done"))
    BY <2>2, <2>3 DEF Token, Sentinel
  <2>6. 2 <= k => 2 \in 1..k
    OBVIOUS
  <2>7. 3 <= k => k \in 3..k
    OBVIOUS
  <2> QED
    BY <1>2, <2>1, <2>2, <2>4, <2>5, <2>6, <2>7 DEF Token
<1> QED
  BY <1>1, <1>2

\* The server says something more.
LEMMA ServerSays ==
    ASSUME NEW s, NEW w, NEW r, Longer(s, w, r), NEW x, IsLine(w, x) \/ IsBlank(w),
           NEW p \in Nat, NEW m \in Nat, NEW q \in Nat, NEW e, NEW f, NEW at,
           e \in {"asked", "open"}, f \in {"open", "closed"}, Whole(s, p, m, e, at),
           \/ q = m /\ (x \in Model!Tokens => ~IsLine(w, x) \/ Len(w) = 1)
           \/ q = m + 1 /\ x = Model!T(q) /\ x \in Model!Tokens /\ IsLine(w, x) /\ 2 <= Len(w),
           x = Model!L("done") => f = "closed",
           f = "open" => IsBlank(w) \/ 3 <= Len(w),
           e = "asked" => Len(w) = 4 \/ (w = <<>> /\ f = "closed")
    PROVE  Whole(r, p, q, f, at)
<1>1. PICK a \in Nat, b \in Nat : a = Len(s) /\ b = Len(w) /\ Len(r) = a + b
  BY DEF Longer
<1>2. \A i \in 1..a : i \in 1..(a + b) /\ r[i] = s[i]
  BY <1>1 DEF Longer
<1>3. \A i \in 1..b : a + i \in 1..(a + b) /\ r[a + i] = w[i]
  BY <1>1 DEF Longer
<1>4. s \in Seq(Halves) /\ w \in Seq(Halves) /\ r \in Seq(Halves)
  BY DEF Longer
<1>5. InLines(s) /\ HeadFirst(s, e, at) /\ p <= m /\ Counts(s, p, m, e)
      /\ (s = <<>> \/ s[a] = Model!NL)
  BY <1>1 DEF Whole
<1>6. InLines(r)
  BY <1>1, <1>5, LineIs, ExtendLines
<1>7. Counts(r, p, q, f)
  <2>1. e \in {"listening", "asked", "open"} /\ f # "reset"
    OBVIOUS
  <2>2. \A i \in 1..Len(w) : Sentinel(w, i) => f = "closed" /\ q = m
    <3>1. Model!L("done") \notin Model!Tokens
      BY TokensAre
    <3>2. \A i \in 1..Len(w) : Sentinel(w, i) => x = Model!L("done")
      BY LineIs
    <3> QED
      BY <3>1, <3>2
  <2>3. CASE q = m /\ (x \in Model!Tokens => ~IsLine(w, x) \/ Len(w) = 1)
    <3>1. \A i \in 1..Len(w) : ~Token(w, i)
      <4> SUFFICES ASSUME NEW i \in 1..Len(w), Token(w, i) PROVE FALSE
        OBVIOUS
      <4>1. i = 2 /\ x \in Model!Tokens
        BY LineIs
      <4>2. ~IsBlank(w)
        BY <4>1 DEF IsBlank
      <4>3. Len(w) # 1
        BY <1>1, <4>1
      <4> QED
        BY <2>3, <4>1, <4>2, <4>3
    <3> QED
      BY <1>5, <2>1, <2>2, <2>3, <3>1, ExtendCounts
  <2>4. CASE q = m + 1 /\ x = Model!T(q) /\ x \in Model!Tokens /\ IsLine(w, x) /\ 2 <= Len(w)
    <3>1. 2 \in 1..Len(w) /\ Token(w, 2) /\ w[2].l = x /\ x.k = q
      BY <2>4, LineIs DEF Model!T
    <3>2. \A j \in 1..Len(w) : Token(w, j) => j = 2
      BY LineIs
    <3>3. \E i \in 1..Len(w) : /\ Token(w, i) /\ w[i].l.k = m + 1
                               /\ \A j \in 1..Len(w) : Token(w, j) => j = i
      BY <2>4, <3>1, <3>2
    <3> QED
      BY <1>5, <2>1, <2>2, <2>4, <3>3, ExtendCounts
  <2> QED
    BY <2>3, <2>4
<1>8. f = "open" /\ r # <<>> => r[a + b] = Model!NL
  <2> SUFFICES ASSUME f = "open", r # <<>> PROVE r[a + b] = Model!NL
    OBVIOUS
  <2>1. w = <<>> \/ w[b] = Model!NL
    BY <1>1, LineIs
  <2>2. CASE b = 0
    <3>1. a >= 1
      BY <1>1, <1>4, <2>2, EmptySeq
    <3>2. s # <<>> /\ a + b = a /\ a \in 1..a
      BY <1>1, <2>2, <3>1
    <3> QED
      BY <1>2, <1>5, <3>2
  <2>3. CASE b # 0
    <3>1. b \in 1..b /\ w # <<>>
      BY <1>1, <2>3
    <3> QED
      BY <1>3, <2>1, <3>1
  <2> QED
    BY <2>2, <2>3
<1>9. HeadFirst(r, f, at)
  <2>1. at # "connect"
    BY <1>5 DEF HeadFirst
  <2>2. ASSUME at = "status"
        PROVE  \/ r = <<>> /\ f \in {"asked", "closed", "reset"}
               \/ /\ \A i \in 1..Len(r) : /\ i = 1 => r[i].half = 1
                                          /\ i \in {3, 4} => r[i] = Model!NL
                  /\ f # "reset" => Len(r) >= 4
    <3>1. CASE s = <<>> /\ e = "asked"
      <4>1. a = 0
        BY <1>1, <3>1
      <4>2. CASE w = <<>> /\ f = "closed"
        <5>1. b = 0 /\ a + b = 0
          BY <1>1, <4>1, <4>2
        <5>2. r = <<>>
          BY <1>1, <1>4, <5>1, EmptySeq
        <5> QED
          BY <4>2, <5>2
      <4>3. CASE Len(w) = 4
        <5>1. b = 4 /\ Len(r) = 4 /\ \A i \in 1..4 : r[i] = w[i]
          <6>1. \A i \in 1..4 : a + i = i
            BY <4>1
          <6> QED
            BY <1>1, <1>3, <4>1, <4>3, <6>1
        <5>2. IsLine(w, x)
          BY <4>3 DEF IsBlank
        <5>3. w[1].half = 1 /\ w[3] = Model!NL /\ w[4] = Model!NL
          BY <4>3, <5>2 DEF IsLine
        <5> QED
          BY <5>1, <5>3
      <4> QED
        BY <3>1, <4>2, <4>3
    <3>2. CASE ~(s = <<>> /\ e = "asked")
      <4>1. /\ \A i \in 1..a : /\ i = 1 => s[i].half = 1
                               /\ i \in {3, 4} => s[i] = Model!NL
            /\ a >= 4
        BY <1>1, <1>5, <2>2, <3>2 DEF HeadFirst
      <4>2. 1 \in 1..a /\ 3 \in 1..a /\ 4 \in 1..a /\ a + b >= 4
        BY <4>1
      <4> QED
        BY <1>1, <1>2, <4>1, <4>2
    <3> QED
      BY <3>1, <3>2
  <2>3. ASSUME at = "headers" PROVE IF r = <<>> THEN f = "reset" ELSE r[1] = Model!NL
    <3>1. s # <<>> /\ s[1] = Model!NL
      BY <1>5, <2>3 DEF HeadFirst
    <3>2. 1 \in 1..a /\ a + b # 0
      BY <1>1, <1>4, <3>1, EmptySeq
    <3>3. r # <<>>
      BY <1>1, <3>2
    <3> QED
      BY <1>2, <3>1, <3>2, <3>3
  <2> QED
    BY <2>1, <2>2, <2>3 DEF HeadFirst
<1>10. p <= q
  BY <1>5
<1> QED
  BY <1>1, <1>6, <1>7, <1>8, <1>9, <1>10 DEF Whole

\* What the server sends is a line or a blank one.
LEMMA Sent ==
    ASSUME NEW x \in Model!Lines
    PROVE  /\ Model!Line(x) \in Seq(Halves) /\ <<Model!NL>> \in Seq(Halves) /\ <<>> \in Seq(Halves)
           /\ IsLine(Model!Line(x), x) /\ Len(Model!Line(x)) = 3
           /\ IsLine(Model!Line(x) \o <<Model!NL>>, x) /\ Len(Model!Line(x) \o <<Model!NL>>) = 4
           /\ \A n \in {1, 2} : IsLine(SubSeq(Model!Line(x), 1, n), x)
                                /\ Len(SubSeq(Model!Line(x), 1, n)) = n
           /\ IsBlank(<<Model!NL>>) /\ IsBlank(<<>>)
<1>1. [l |-> x, half |-> 1] \in Halves /\ [l |-> x, half |-> 2] \in Halves /\ Model!NL \in Halves
  BY DEF Halves, Model!NL
<1>2. PICK w \in Seq(Halves) : /\ w = Model!Line(x) /\ Len(w) = 3 /\ w[1] = [l |-> x, half |-> 1]
                               /\ w[2] = [l |-> x, half |-> 2] /\ w[3] = Model!NL
  <2>1. PICK a \in Halves, b \in Halves, c \in Halves :
            a = [l |-> x, half |-> 1] /\ b = [l |-> x, half |-> 2] /\ c = Model!NL
    BY <1>1
  <2>2. Model!Line(x) = <<a, b, c>>
    BY <2>1 DEF Model!Line
  <2>3. <<a, b, c>> \in Seq(Halves) /\ Len(<<a, b, c>>) = 3
    OBVIOUS
  <2> QED
    BY <2>1, <2>2, <2>3
<1>3. PICK v \in Seq(Halves) : v = <<Model!NL>> /\ Len(v) = 1 /\ v[1] = Model!NL
  <2>1. PICK c \in Halves : c = Model!NL
    BY <1>1
  <2>2. <<c>> \in Seq(Halves) /\ Len(<<c>>) = 1 /\ <<c>>[1] = c
    OBVIOUS
  <2> QED
    BY <2>1, <2>2
<1>4. IsLine(w, x)
  <2>1. \A i \in 3..3 : i = 3
    OBVIOUS
  <2> QED
    BY <1>2, <2>1 DEF IsLine
<1>5. IsLine(w \o v, x) /\ Len(w \o v) = 4
  <2>1. PICK u : u = w \o v
    OBVIOUS
  <2>2. /\ u \in Seq(Halves) /\ Len(u) = 3 + 1
        /\ \A i \in 1..3 : u[i] = w[i]
        /\ \A i \in 1..1 : u[3 + i] = v[i]
    <3>1. /\ u \in Seq(Halves) /\ Len(u) = Len(w) + Len(v)
          /\ \A i \in 1..Len(w) : u[i] = w[i]
          /\ \A i \in 1..Len(v) : u[Len(w) + i] = v[i]
      BY <2>1, Joined
    <3>2. Len(w) = 3 /\ Len(v) = 1
      BY <1>2, <1>3
    <3> QED
      BY <3>1, <3>2
  <2>3. Len(u) = 4 /\ u[1] = w[1] /\ u[2] = w[2] /\ u[3] = w[3] /\ u[4] = v[1]
    BY <2>2
  <2>4. \A i \in 3..4 : i = 3 \/ i = 4
    OBVIOUS
  <2> QED
    BY <1>2, <1>3, <2>1, <2>2, <2>3, <2>4 DEF IsLine
<1>6. ASSUME NEW n \in {1, 2} PROVE IsLine(SubSeq(w, 1, n), x) /\ Len(SubSeq(w, 1, n)) = n
  <2>1. PICK u : u = SubSeq(w, 1, n)
    OBVIOUS
  <2>2. \A i \in 1..n : w[i] \in Halves
    <3>1. \A i \in 1..n : i = 1 \/ i = 2
      OBVIOUS
    <3> QED
      BY <1>1, <1>2, <3>1
  <2>3. /\ u \in Seq(Halves) /\ Len(u) = IF 1 <= n THEN n - 1 + 1 ELSE 0
        /\ \A i \in 1..(n - 1 + 1) : u[i] = w[1 + i - 1]
    BY <2>1, <2>2, SubSeqProperties
  <2>4. Len(u) = n /\ u[1] = w[1] /\ (2 <= n => u[2] = w[2])
    BY <2>3
  <2>5. \A i \in 3..n : FALSE
    OBVIOUS
  <2>6. IsLine(u, x)
    <3>1. PICK h : h = Len(u) /\ h = n /\ 1 <= h /\ (2 <= h => u[2] = w[2]) /\ u[1] = w[1]
      BY <2>4
    <3>2. u \in Seq(Halves) /\ \A i \in 3..h : FALSE
      BY <2>3, <2>5, <3>1
    <3> QED
      BY <1>2, <3>1, <3>2 DEF IsLine
  <2> QED
    BY <2>1, <2>4, <2>6
<1>7. IsBlank(v) /\ IsBlank(<<>>)
  <2>1. \A i \in 1..1 : i = 1
    OBVIOUS
  <2> QED
    BY <1>3, <2>1 DEF IsBlank
<1> QED
  BY <1>2, <1>3, <1>4, <1>5, <1>6, <1>7

\* While the answer is not at its end, nothing has been said to be done.
LEMMA EventsWait ==
    ASSUME NEW g, NEW w, NEW d, NEW m, NEW e, e # "closed", EventsInOrder(g, w, d, m, e),
           NEW q, NEW f
    PROVE  EventsInOrder(g, w, d, q, f)
BY DEF EventsInOrder

\* The server sends a line, a blank one, or the beginning of one and its end.
LEMMA ServerActs ==
    ASSUME CallTypes, UNCHANGED <<kind, buf, worker, data, chan, seen>>,
           NEW w, wire' = wire \o w, NEW x, IsLine(w, x) \/ IsBlank(w),
           server.end \in {"asked", "open"}, server'.end \in {"open", "closed"},
           server' \in [end : {"listening", "asked", "open", "closed", "reset"}, sent : Nat,
               other : Nat],
           server'.sent <= MaxTokens,
           \/ /\ server'.sent = server.sent
              /\ x \in Model!Tokens => ~IsLine(w, x) \/ Len(w) = 1
           \/ /\ server'.sent = server.sent + 1 /\ x = Model!T(server'.sent)
              /\ x \in Model!Tokens /\ IsLine(w, x) /\ 2 <= Len(w),
           x = Model!L("done") => server'.end = "closed",
           server'.end = "open" => IsBlank(w) \/ 3 <= Len(w),
           server.end = "asked" => Len(w) = 4 \/ (w = <<>> /\ server'.end = "closed")
    PROVE  CallTypes' /\ (StreamIsWhole => StreamIsWhole')
<1>1. /\ buf \in Seq(Halves) /\ wire \in Seq(Halves) /\ w \in Seq(Halves)
      /\ server.sent \in Nat /\ server.end # "closed"
         /\ chan \in Seq(Model!Lines \cup {Model!L("error")})
      /\ seen \in Seq(Model!Lines \cup {Model!L("error")})
  BY DEF CallTypes, IsLine, IsBlank
<1>2. PICK g, s, r : g = Given /\ s = Stream /\ r = Stream'
  OBVIOUS
<1>3. Longer(s, w, r) /\ wire' \in Seq(Halves)
  <2>1. s = buf \o wire /\ r = buf \o (wire \o w)
    BY <1>2 DEF Stream
  <2>2. s \in Seq(Halves)
    BY <1>1, <2>1, ConcatProperties
  <2>3. r = s \o w
    <3>0. PICK a \in Seq(Halves), b \in Seq(Halves), c \in Seq(Halves) : a = buf /\ b = wire
        /\ c = w
      BY <1>1
    <3>1. (a \o b) \o c = a \o (b \o c)
      BY ConcatAssociative, SMTT(30)
    <3> QED
      BY <2>1, <3>0, <3>1
  <2>4. /\ r \in Seq(Halves) /\ Len(r) = Len(s) + Len(w)
        /\ \A i \in 1..Len(s) : r[i] = s[i]
        /\ \A i \in 1..Len(w) : r[Len(s) + i] = w[i]
    BY <1>1, <2>2, <2>3, Joined
  <2>5. wire \o w \in Seq(Halves)
    BY <1>1, ConcatProperties
  <2> QED
    BY <1>1, <2>2, <2>4, <2>5 DEF Longer
<1>4. Given' = g
  BY <1>2 DEF Given
<1>5. StreamIsWhole => EventsInOrder(g, worker, data, server'.sent, server'.end)
  BY <1>1, <1>2, EventsWait DEF StreamIsWhole
<1>6. ASSUME StreamIsWhole, Live(worker, data)
      PROVE  Whole(r, Passed(g, worker, data), server'.sent, server'.end, worker.at)
  <2>1. PICK p \in Nat : p = Passed(g, worker, data)
    <3>1. Len(Given) \in Nat
      <4>1. Given \in Seq(Model!Lines \cup {Model!L("error")})
        BY <1>1, ConcatProperties DEF Given
      <4> QED
        BY <4>1
    <3> QED
      BY <1>2, <3>1 DEF Passed
  <2>2. Whole(s, p, server.sent, server.end, worker.at)
    BY <1>1, <1>2, <1>6, <2>1 DEF StreamIsWhole
  <2>3. PICK m \in Nat, q \in Nat : m = server.sent /\ q = server'.sent
    BY <1>1
  <2>5. PICK e, f : e = server.end /\ f = server'.end
    OBVIOUS
  <2>4. Whole(r, p, q, f, worker.at)
    BY <1>3, <2>2, <2>3, <2>5, ServerSays
  <2> QED
    BY <2>1, <2>3, <2>4, <2>5
<1>7. StreamIsWhole => StreamIsWhole'
  BY <1>2, <1>4, <1>5, <1>6 DEF StreamIsWhole
<1>8. CallTypes'
  BY <1>3 DEF CallTypes
<1> QED
  BY <1>7, <1>8

\* A reset loses what is under way; what was read stays.
LEMMA ServerResets ==
    ASSUME CallTypes, UNCHANGED <<kind, buf, worker, data, chan, seen>>,
           wire' = <<>>, server.end \in {"asked", "open"},
           server' = [server EXCEPT !.end = "reset"]
    PROVE  CallTypes' /\ (StreamIsWhole => StreamIsWhole')
<1>1. /\ buf \in Seq(Halves) /\ wire \in Seq(Halves)
      /\ server.sent \in Nat /\ server'.sent = server.sent /\ server'.end = "reset"
      /\ chan \in Seq(Model!Lines \cup {Model!L("error")})
      /\ seen \in Seq(Model!Lines \cup {Model!L("error")})
  BY DEF CallTypes
<1>2. PICK g, s, r : g = Given /\ s = Stream /\ r = Stream'
  OBVIOUS
<1>3. /\ s \in Seq(Halves) /\ r \in Seq(Halves) /\ Len(r) <= Len(s)
      /\ \A i \in 1..Len(r) : r[i] = s[i]
  <2>1. r = buf
    <3>1. buf \o <<>> = buf
      BY <1>1, ConcatEmptySeq
    <3> QED
      BY <1>2, <3>1 DEF Stream
  <2>2. s = buf \o wire
    BY <1>2 DEF Stream
  <2>3. /\ s \in Seq(Halves) /\ Len(s) = Len(buf) + Len(wire) /\ Len(buf) \in Nat
           /\ Len(wire) \in Nat
        /\ \A i \in 1..Len(buf) : s[i] = buf[i]
    BY <1>1, <2>2, Joined
  <2> QED
    BY <1>1, <2>1, <2>3
<1>4. Given' = g
  BY <1>2 DEF Given
<1>5. StreamIsWhole => EventsInOrder(g, worker, data, server'.sent, server'.end)
  BY <1>1, <1>2, EventsWait DEF StreamIsWhole
<1>6. ASSUME StreamIsWhole, Live(worker, data)
      PROVE  Whole(r, Passed(g, worker, data), server.sent, "reset", worker.at)
  <2>1. PICK p \in Nat : p = Passed(g, worker, data)
    <3>1. Len(Given) \in Nat
      <4>1. Given \in Seq(Model!Lines \cup {Model!L("error")})
        BY <1>1, ConcatProperties DEF Given
      <4> QED
        BY <4>1
    <3> QED
      BY <1>2, <3>1 DEF Passed
  <2>2. Whole(s, p, server.sent, server.end, worker.at)
    BY <1>1, <1>2, <1>6, <2>1 DEF StreamIsWhole
  <2>3. InLines(r) /\ Counts(r, p, server.sent, "reset") /\ p <= server.sent
    <3>1. PICK m \in Nat, e \in {"asked", "open"} : m = server.sent /\ e = server.end
      BY <1>1
    <3>2. InLines(s) /\ Counts(s, p, m, e) /\ p <= m /\ e # "closed"
      BY <2>2, <3>1 DEF Whole
    <3>3. InLines(r) /\ Counts(r, p, m, "reset")
      BY <1>3, <3>2, CutStream
    <3> QED
      BY <3>1, <3>2, <3>3
  <2>4. HeadFirst(r, "reset", worker.at)
    <3>1. HeadFirst(s, server.end, worker.at)
      BY <2>2 DEF Whole
    <3>2. worker.at # "connect"
      BY <3>1 DEF HeadFirst
    <3>3. ASSUME worker.at = "status"
          PROVE  \/ r = <<>>
                 \/ \A i \in 1..Len(r) : /\ i = 1 => r[i].half = 1
                                         /\ i \in {3, 4} => r[i] = Model!NL
      <4>1. \A i \in 1..Len(r) : i \in 1..Len(s)
        BY <1>3
      <4>2. CASE s = <<>>
        BY <1>3, <4>2, EmptySeq
      <4>3. CASE s # <<>>
        BY <1>3, <3>1, <3>3, <4>1, <4>3 DEF HeadFirst
      <4> QED
        BY <4>2, <4>3
    <3>4. ASSUME worker.at = "headers", r # <<>> PROVE r[1] = Model!NL
      <4>1. s # <<>> => s[1] = Model!NL
        BY <3>1, <3>4 DEF HeadFirst
      <4>2. 1 \in 1..Len(r) /\ Len(s) # 0
        BY <1>3, <3>4, EmptySeq
      <4>3. s # <<>>
        BY <4>2
      <4> QED
        BY <1>3, <4>1, <4>2, <4>3
    <3> QED
      BY <3>2, <3>3, <3>4 DEF HeadFirst
  <2> QED
    BY <2>1, <2>3, <2>4 DEF Whole
<1>7. StreamIsWhole => StreamIsWhole'
  BY <1>1, <1>2, <1>4, <1>5, <1>6 DEF StreamIsWhole
<1>8. CallTypes'
  <2>1. /\ server' \in [end : {"listening", "asked", "open", "closed", "reset"}, sent : Nat,
           other : Nat]
        /\ server'.sent \in Nat /\ server'.sent <= MaxTokens
    BY <1>1 DEF CallTypes
  <2>2. wire' \in Seq(Halves)
    BY EmptySeq
  <2> QED
    BY <1>1, <2>1, <2>2 DEF CallTypes
<1> QED
  BY <1>7, <1>8

\* Whatever the server does, the types and the whole stream are kept.
LEMMA Serves ==
    ASSUME CallTypes, Model!Serve
    PROVE  CallTypes' /\ (StreamIsWhole => StreamIsWhole')
<1>0. /\ UNCHANGED <<kind, buf, worker, data, chan, seen>>
      /\ wire \in Seq(Halves) /\ server.sent \in Nat /\ server.sent <= MaxTokens
      /\ server \in [end : {"listening", "asked", "open", "closed", "reset"}, sent : Nat,
         other : Nat]
      /\ MaxTokens \in Nat
  BY PartsAssumption DEF CallTypes, Model!Serve, Model!ServerAnswers, Model!ServerSendsToken,
         Model!ServerSendsOther, Model!ServerEnds, Model!CallAssumption
<1>1. ASSUME NEW x \in Model!Lines
      PROVE  /\ (wire \o Model!Line(x)) \o <<Model!NL>> = wire \o (Model!Line(x) \o <<Model!NL>>)
             /\ (wire \o Model!Line(x)) \o <<>> = wire \o Model!Line(x)
  <2>1. PICK a \in Seq(Halves), b \in Seq(Halves), c \in Seq(Halves) :
            a = wire /\ b = Model!Line(x) /\ c = <<Model!NL>>
    BY <1>0, Sent
  <2>2. (a \o b) \o c = a \o (b \o c)
    BY ConcatAssociative, SMTT(30)
  <2>3. a \o b \in Seq(Halves)
    BY ConcatProperties
  <2>4. (a \o b) \o <<>> = a \o b
    BY <2>3, ConcatEmptySeq
  <2> QED
    BY <2>1, <2>2, <2>4
<1>2. (wire \o <<>>) \o <<Model!NL>> = wire \o <<Model!NL>> /\ wire = wire \o <<>>
  BY <1>0, ConcatEmptySeq
<1>3. \A name \in {"2xx", "4xx", "5xx", "odd", "done", "note", "role", "junk", "blank"} :
          /\ Model!L(name) \in Model!Lines /\ Model!L(name) \notin Model!Tokens
          /\ Model!L(name) = Model!L("done") => name = "done"
  BY DEF Model!Lines, Model!L, Model!Tokens, Model!T
<1>4. CASE Model!ServerAnswers
  <2>1. PICK name \in {"2xx", "4xx", "5xx", "odd"} :
            wire' = wire \o Model!Line(Model!L(name)) \o <<Model!NL>>
    BY <1>4 DEF Model!ServerAnswers
  <2>2. PICK x \in Model!Lines : x = Model!L(name) /\ x \notin Model!Tokens /\ x # Model!L("done")
    BY <1>3, <2>1
  <2>3. PICK w : w = Model!Line(x) \o <<Model!NL>>
    OBVIOUS
  <2>4. wire' = wire \o w /\ IsLine(w, x) /\ Len(w) = 4
    BY <1>1, <2>1, <2>2, <2>3, Sent
  <2>5. /\ server.end = "asked" /\ server'.end = "open" /\ server'.sent = server.sent
        /\ server' \in [end : {"listening", "asked", "open", "closed", "reset"}, sent : Nat,
           other : Nat]
    BY <1>0, <1>4 DEF Model!ServerAnswers
  <2>6. 3 <= Len(w) /\ server'.sent <= MaxTokens
    BY <1>0, <2>4, <2>5
  <2> QED
    BY <1>0, <2>2, <2>4, <2>5, <2>6, ServerActs
<1>5. CASE Model!ServerSendsToken
  <2>1. /\ server.end = "open" /\ server'.end = "open" /\ server'.sent = server.sent + 1
        /\ server' \in [end : {"listening", "asked", "open", "closed", "reset"}, sent : Nat,
           other : Nat]
        /\ server'.sent <= MaxTokens
    BY <1>0, <1>5 DEF Model!ServerSendsToken
  <2>2. PICK x \in Model!Lines : x = Model!T(server.sent + 1) /\ x \in Model!Tokens
    BY <1>0, <2>1, TokensAre
  <2>3. PICK w : /\ w = Model!Line(x) \o <<Model!NL>> \/ w = Model!Line(x)
                 /\ wire' = wire \o w
    BY <1>1, <1>5, <2>2 DEF Model!ServerSendsToken
  <2>4. IsLine(w, x) /\ 3 <= Len(w) /\ 2 <= Len(w)
    <3>1. /\ IsLine(Model!Line(x), x) /\ Len(Model!Line(x)) = 3
          /\ IsLine(Model!Line(x) \o <<Model!NL>>, x) /\ Len(Model!Line(x) \o <<Model!NL>>) = 4
      BY Sent
    <3>2. PICK n : n = Len(w) /\ IsLine(w, x) /\ (n = 3 \/ n = 4)
      BY <2>3, <3>1
    <3>3. 3 <= n /\ 2 <= n
      BY <3>2
    <3> QED
      BY <3>2, <3>3
  <2>5. x # Model!L("done")
    BY <2>2, TokensAre
  <2> QED
    BY <1>0, <2>1, <2>2, <2>3, <2>4, <2>5, ServerActs
<1>6. CASE Model!ServerSendsOther
  <2>1. /\ server.end = "open" /\ server'.end = "open" /\ server'.sent = server.sent
        /\ server' \in [end : {"listening", "asked", "open", "closed", "reset"}, sent : Nat,
           other : Nat]
    BY <1>0, <1>6 DEF Model!ServerSendsOther
  <2>2. PICK name \in {"note", "junk", "blank", "role"} :
            wire' = wire \o (IF name = "blank" THEN <<>> ELSE Model!Line(Model!L(name)))
                         \o (IF name = "note" THEN <<>> ELSE <<Model!NL>>)
    BY <1>6 DEF Model!ServerSendsOther
  <2>3. PICK x \in Model!Lines : x = Model!L(name) /\ x \notin Model!Tokens /\ x # Model!L("done")
    BY <1>3, <2>2
  <2>4. PICK w : /\ wire' = wire \o w
                 /\ (IsLine(w, x) /\ 3 <= Len(w)) \/ IsBlank(w)
    <3>0. PICK a, b : a = Model!Line(x) /\ b = Model!Line(x) \o <<Model!NL>>
      OBVIOUS
    <3>4. /\ IsLine(a, x) /\ 3 <= Len(a) /\ IsLine(b, x) /\ 3 <= Len(b)
          /\ IsBlank(<<Model!NL>>)
      <4>1. /\ IsLine(a, x) /\ Len(a) = 3 /\ IsLine(b, x) /\ Len(b) = 4
            /\ IsBlank(<<Model!NL>>)
        BY <3>0, Sent
      <4> QED
        BY <4>1
    <3>1. CASE name = "blank"
      <4>1. wire' = wire \o <<Model!NL>>
        BY <1>2, <2>2, <3>1
      <4> QED
        BY <3>4, <4>1
    <3>2. CASE name = "note"
      <4>1. wire' = wire \o a
        BY <1>1, <2>2, <2>3, <3>0, <3>2
      <4> QED
        BY <3>4, <4>1
    <3>3. CASE name \notin {"blank", "note"}
      <4>1. wire' = wire \o b
        BY <1>1, <2>2, <2>3, <3>0, <3>3
      <4> QED
        BY <3>4, <4>1
    <3> QED
      BY <3>1, <3>2, <3>3
  <2> QED
    BY <1>0, <2>1, <2>3, <2>4, ServerActs
<1>7. CASE Model!ServerEnds
  <2>0. server.end \in {"asked", "open"}
    BY <1>7 DEF Model!ServerEnds
  <2>1. CASE /\ server.end = "open"
             /\ wire' = wire \o Model!Line(Model!L("done")) \o <<Model!NL>>
             /\ server' = [server EXCEPT !.end = "closed"]
    <3>1. PICK x \in Model!Lines : x = Model!L("done") /\ x \notin Model!Tokens
      BY <1>3
    <3>2. PICK w : w = Model!Line(x) \o <<Model!NL>>
      OBVIOUS
    <3>3. wire' = wire \o w /\ IsLine(w, x) /\ Len(w) = 4
      BY <1>1, <2>1, <3>1, <3>2, Sent
    <3>4. /\ server'.end = "closed" /\ server'.sent = server.sent
          /\ server' \in [end : {"listening", "asked", "open", "closed", "reset"}, sent : Nat,
             other : Nat]
      BY <1>0, <2>1
    <3> QED
      BY <1>0, <2>0, <3>1, <3>3, <3>4, ServerActs
  <2>2. CASE server' = [server EXCEPT !.end = "closed"] /\ UNCHANGED wire
    <3>1. PICK x \in Model!Lines : x = Model!L("note") /\ x \notin Model!Tokens
        /\ x # Model!L("done")
      BY <1>3
    <3>2. PICK w : w = <<>> /\ IsBlank(w)
      BY <3>1, Sent
    <3>3. wire' = wire \o w
      BY <1>2, <2>2, <3>2
    <3>4. /\ server'.end = "closed" /\ server'.sent = server.sent
          /\ server' \in [end : {"listening", "asked", "open", "closed", "reset"}, sent : Nat,
             other : Nat]
      BY <1>0, <2>2
    <3> QED
      BY <1>0, <2>0, <3>1, <3>2, <3>3, <3>4, ServerActs
  <2>3. CASE /\ server.end = "open"
             /\ server.sent < MaxTokens
             /\ \E n \in {1, 2} :
                   /\ wire' = wire \o SubSeq(Model!Line(Model!T(server.sent + 1)), 1, n)
                   /\ server' = [server EXCEPT !.end = "closed", !.sent = @ + n - 1]
    <3>1. PICK n \in {1, 2} : /\ wire' = wire \o SubSeq(Model!Line(Model!T(server.sent + 1)), 1, n)
                              /\ server' = [server EXCEPT !.end = "closed", !.sent = @ + n - 1]
      BY <2>3
    <3>2. PICK x \in Model!Lines : x = Model!T(server.sent + 1) /\ x \in Model!Tokens
      <4>1. server.sent + 1 \in Nat /\ 1 <= server.sent + 1 /\ server.sent + 1 <= MaxTokens
        BY <1>0, <2>3
      <4> QED
        BY <4>1, TokensAre
    <3>3. PICK w : w = SubSeq(Model!Line(x), 1, n) /\ IsLine(w, x) /\ Len(w) = n
      BY Sent
    <3>4. wire' = wire \o w /\ x # Model!L("done")
      BY <3>1, <3>2, <3>3, TokensAre
    <3>5. /\ server'.end = "closed" /\ server'.sent = server.sent + n - 1
          /\ server' \in [end : {"listening", "asked", "open", "closed", "reset"}, sent : Nat,
             other : Nat]
      <4>1. server.sent + n - 1 \in Nat
        BY <1>0
      <4> QED
        BY <1>0, <3>1, <4>1
    <3>6. server'.sent <= MaxTokens
      BY <1>0, <2>3, <3>5
    <3>7. \/ server'.sent = server.sent /\ Len(w) = 1
          \/ server'.sent = server.sent + 1 /\ 2 <= Len(w)
      BY <1>0, <3>3, <3>5
    <3>8. x = Model!T(server'.sent) \/ Len(w) = 1
      BY <3>2, <3>7
    <3> QED
      BY <1>0, <2>0, <2>3, <3>2, <3>3, <3>4, <3>5, <3>6, <3>7, <3>8, ServerActs
  <2>4. CASE server' = [server EXCEPT !.end = "reset"] /\ wire' = <<>>
    BY <1>0, <2>0, <2>4, ServerResets
  <2> QED
    BY <1>7, <2>1, <2>2, <2>3, <2>4 DEF Model!ServerEnds
<1> QED
  BY <1>4, <1>5, <1>6, <1>7 DEF Model!Serve

\* The types of what a read leaves, whatever the call.
LEMMA ReadTypes ==
    ASSUME CallTypes
    PROVE  /\ \A x : Model!LineRead(x) => buf' \in Seq(Halves) /\ wire' \in Seq(Halves)
                                         /\ server' = server /\ kind' = kind
           /\ Model!Read => buf' \in Seq(Halves) /\ wire' \in Seq(Halves) /\ Stream' = Stream
<1>1. buf \in Seq(Halves) /\ wire \in Seq(Halves)
  BY DEF CallTypes
<1>2. ASSUME NEW Set, NEW s \in Seq(Set), NEW m \in Nat, NEW n \in Nat, n <= Len(s), 1 <= m
      PROVE  SubSeq(s, m, n) \in Seq(Set)
  <2>1. \A i \in m..n : s[i] \in Set
    <3>1. \A i \in m..n : i \in 1..Len(s)
      BY <1>2
    <3> QED
      BY <3>1
  <2>2. m \in Int /\ n \in Int
    OBVIOUS
  <2> QED
    BY <2>1, <2>2, SubSeqProperties
<1>3. ASSUME NEW x, Model!LineRead(x)
      PROVE  /\ buf' \in Seq(Halves) /\ wire' \in Seq(Halves) /\ server' = server /\ kind' = kind
  <2>1. CASE Model!HasLine
    <3>1. Model!NewLine \in 1..Len(buf)
      <4>0. DOMAIN buf = 1..Len(buf) /\ Len(buf) \in Nat
        BY <1>1
      <4>1. PICK Found \in SUBSET Nat : Found = {i \in DOMAIN buf : buf[i] = Model!NL}
        <5>1. \A i \in DOMAIN buf : i \in Nat
          BY <4>0
        <5>2. {i \in DOMAIN buf : buf[i] = Model!NL} \in SUBSET Nat
          BY <5>1
        <5> QED
          BY <5>2
      <4>2. Found # {}
        BY <2>1, <4>1 DEF Model!HasLine
      <4>3. PICK m \in Found : \A k \in Found : m <= k
        BY <4>2, LeastOfMany
      <4>4. m \in DOMAIN buf /\ buf[m] = Model!NL
        BY <4>1
      <4>5. ASSUME NEW j \in 1..(m - 1) PROVE buf[j] # Model!NL
        <5>1. j \in DOMAIN buf /\ j < m
          BY <4>0, <4>4
        <5> QED
          BY <4>1, <4>3, <5>1
      <4>6. \E i \in DOMAIN buf : buf[i] = Model!NL /\ \A j \in 1..(i - 1) : buf[j] # Model!NL
        BY <4>4, <4>5
      <4> QED
        BY <4>0, <4>6 DEF Model!NewLine
    <3>2. PICK n \in Nat : n = Model!NewLine + 1 /\ 1 <= n
      BY <1>1, <3>1
    <3>3. SubSeq(buf, n, Len(buf)) \in Seq(Halves)
      BY <1>1, <1>2, <3>2
    <3> QED
      BY <1>1, <1>3, <2>1, <3>2, <3>3 DEF Model!LineRead
  <2>2. CASE ~Model!HasLine
    BY <1>1, <1>3, <2>2 DEF Model!LineRead
  <2> QED
    BY <2>1, <2>2
<1>4. ASSUME Model!Read
      PROVE  /\ buf' \in Seq(Halves) /\ wire' \in Seq(Halves) /\ Stream' = Stream
  <2>1. PICK n \in 1..Len(wire) : /\ buf' = buf \o SubSeq(wire, 1, n)
                                  /\ wire' = SubSeq(wire, n + 1, Len(wire))
    BY <1>4 DEF Model!Read
  <2>2. PICK a, b : a = SubSeq(wire, 1, n) /\ b = SubSeq(wire, n + 1, Len(wire))
    OBVIOUS
  <2>3. n \in Nat /\ n <= Len(wire) /\ n + 1 \in Nat /\ 1 <= n + 1 /\ Len(wire) \in Nat /\ 1 \in Nat
    BY <1>1
  <2>4. a \in Seq(Halves) /\ b \in Seq(Halves)
    BY <1>1, <1>2, <2>2, <2>3
  <2>5. a \o b = wire
    <3>1. /\ 1 \in 1..(Len(wire) + 1) /\ n \in 1 - 1..Len(wire)
      BY <2>3
    <3>2. SubSeq(wire, 1, n) \o SubSeq(wire, n + 1, Len(wire)) = SubSeq(wire, 1, Len(wire))
      BY <1>1, <2>3, <3>1, ConcatAdjacentSubSeq
    <3>3. SubSeq(wire, 1, Len(wire)) = wire
      BY <1>1, SubSeqFull
    <3> QED
      BY <2>2, <3>2, <3>3
  <2>6. PICK c \in Seq(Halves) : c = buf
    BY <1>1
  <2>7. (c \o a) \o b = c \o (a \o b) /\ c \o a \in Seq(Halves)
    <3>1. PICK u \in Seq(Halves), v \in Seq(Halves) : u = a /\ v = b
      BY <2>4
    <3>2. (c \o u) \o v = c \o (u \o v)
      BY ConcatAssociative, SMTT(30)
    <3>3. c \o u \in Seq(Halves)
      BY ConcatProperties
    <3> QED
      BY <3>1, <3>2, <3>3
  <2> QED
    BY <2>1, <2>2, <2>4, <2>5, <2>6, <2>7 DEF Stream
<1> QED
  BY <1>3, <1>4

\* A line taken from a whole stream is the next token, the sentinel of a whole answer, or
\* neither; what is left is whole.
LEMMA LinesRead ==
    ASSUME CallTypes, NEW x, Model!LineRead(x), NEW p \in Nat, NEW m \in Nat,
           NEW at \in {"status", "headers", "body"}, NEW e, e = server.end,
           Whole(Stream, p, m, e, at), NEW r, r = Stream'
    PROVE  /\ x \in Model!Tokens => x = Model!T(p + 1) /\ Whole(r, p + 1, m, e, "body")
           /\ x \notin Model!Tokens => Whole(r, p, m, e, "body")
           /\ x = Model!L("done") => e = "closed" /\ m = p
           /\ at = "status" => HeadFirst(r, e, "headers")
           /\ at = "headers" => x = Model!L("blank")
<1>1. PICK s \in Seq(Halves) : s = Stream
  BY ConcatProperties DEF Stream, CallTypes
<1>2. /\ InLines(s) /\ HeadFirst(s, e, at) /\ p <= m /\ Counts(s, p, m, e)
      /\ e \in {"listening", "asked", "open"} /\ s # <<>> => s[Len(s)] = Model!NL
  BY <1>1 DEF Whole
<1>3. PICK n \in {1, 2, 3} :
          /\ Dropped(s, n, r) /\ (s[n] = Model!NL \/ n = Len(s))
          /\ \/ n = 1 /\ s[1] = Model!NL /\ x = Model!L("blank")
             \/ n = 1 /\ s[1].half = 1 /\ x \in {Model!L("junk"), Model!L("note")}
             \/ /\ 1 < n /\ s[1].half = 1 /\ s[2].half = 2 /\ x = s[2].l
                /\ 2 < n => s[3] = Model!NL
          /\ s[n] # Model!NL => e = "closed"
  BY <1>1, <1>2, ReadsFirst DEF CallTypes
<1>4. PICK k \in Nat, h \in Nat : /\ k = Len(s) /\ h = Len(r) /\ h = k - n /\ n <= k /\ 1 <= k
                                  /\ r \in Seq(Halves) /\ \A i \in 1..h : r[i] = s[i + n]
                                  /\ r = <<>> <=> h = 0
  <2>1. /\ r \in Seq(Halves) /\ n \in 0..Len(s) /\ Len(r) = Len(s) - n
        /\ \A i \in 1..Len(r) : r[i] = s[i + n]
    BY <1>3 DEF Dropped
  <2>2. PICK k \in Nat, h \in Nat : k = Len(s) /\ h = Len(r)
    BY <2>1
  <2>3. r = <<>> <=> h = 0
    BY <2>1, <2>2, EmptySeq
  <2>4. h = k - n /\ n <= k /\ 1 <= k
    <3>1. n = 1 \/ n = 2 \/ n = 3
      BY <1>3
    <3>2. n \in 0..k /\ h = k - n
      BY <2>1, <2>2
    <3> QED
      BY <3>1, <3>2
  <2> QED
    BY <2>1, <2>2, <2>3, <2>4
<1>5. Model!NL.half = 0 /\ s # <<>> /\ n \in Nat /\ 1 <= n
  <2>1. Model!NL.half = 0
    BY DEF Model!NL
  <2>2. s # <<>>
    BY <1>4, EmptySeq
  <2>3. n \in Nat /\ 1 <= n
    BY <1>3
  <2> QED
    BY <2>1, <2>2, <2>3
<1>6. InLines(r)
  BY <1>2, <1>3, <1>5, DropLines
<1>7. e \in {"listening", "asked", "open"} /\ r # <<>> => r[h] = Model!NL
  <2>1. r # <<>> => h \in 1..h /\ h + n = k
    BY <1>4, <1>5
  <2> QED
    BY <1>2, <1>4, <1>5, <2>1
<1>8. ASSUME x \in Model!Tokens
      PROVE  x = Model!T(p + 1) /\ p + 1 <= m /\ Counts(r, p + 1, m, e)
  <2>1. 1 < n /\ s[1].half = 1 /\ s[2].half = 2 /\ x = s[2].l /\ (2 < n => s[3] = Model!NL)
    BY <1>3, <1>8, TokensAre
  <2>2. Token(s, 2) /\ 2 <= k /\ 2 \in 1..k /\ 2 \in 1..n
    BY <1>4, <1>8, <2>1 DEF Token
  <2>3. x = Model!T(p + 1)
    BY <1>2, <1>4, <2>1, <2>2, FirstToken
  <2>4. x.k \in (p + 1)..m /\ x.k = p + 1
    <3>1. x.k = p + 1
      BY <2>3 DEF Model!T
    <3> QED
      BY <1>2, <1>4, <2>1, <2>2, <3>1 DEF Counts
  <2>5. \A i \in 1..n : Token(s, i) => i = 2
    <3>1. \A i \in 1..n : i = 1 \/ i = 2 \/ (i = 3 /\ 2 < n)
      OBVIOUS
    <3>2. ~Token(s, 1) /\ (2 < n => ~Token(s, 3))
      BY <1>5, <2>1 DEF Token
    <3> QED
      BY <3>1, <3>2
  <2>6. Counts(r, p + 1, m, e)
    <3>1. \E j \in 1..n : Token(s, j) /\ s[j].l.k = p + 1 /\ \A i \in 1..n : Token(s, i) => i = j
      BY <2>1, <2>2, <2>4, <2>5
    <3>2. PICK q \in Nat : q = p + 1
      OBVIOUS
    <3>3. Counts(r, q, m, e)
      BY <1>2, <1>3, <1>5, <3>1, <3>2, DropCounts
    <3> QED
      BY <3>2, <3>3
  <2>7. p + 1 <= m
    BY <2>4
  <2> QED
    BY <2>3, <2>6, <2>7
<1>9. ASSUME x \notin Model!Tokens PROVE Counts(r, p, m, e)
  <2>1. \A i \in 1..n : ~Token(s, i)
    <3>1. \A i \in 1..n : i = 1 \/ (i = 2 /\ 1 < n) \/ (i = 3 /\ 2 < n)
      OBVIOUS
    <3>2. ~Token(s, 1) /\ (1 < n => ~Token(s, 2)) /\ (2 < n => ~Token(s, 3))
      BY <1>3, <1>5, <1>9 DEF Token
    <3> QED
      BY <3>1, <3>2
  <2> QED
    BY <1>2, <1>3, <1>5, <2>1, DropCounts
<1>10. ASSUME x = Model!L("done") PROVE e = "closed" /\ m = p
  <2>1. 1 < n /\ s[1].half = 1 /\ s[2].half = 2 /\ x = s[2].l
    <3>1. x \notin {Model!L("blank"), Model!L("junk"), Model!L("note")}
      BY <1>10, TokensAre
    <3> QED
      BY <1>3, <3>1
  <2>2. Sentinel(s, 2) /\ 2 <= k
    BY <1>4, <1>10, <2>1 DEF Sentinel
  <2> QED
    BY <1>2, <1>4, <2>1, <2>2, FirstSentinel
<1>11. ASSUME at = "status" PROVE HeadFirst(r, e, "headers")
  <2>1. /\ \A i \in 1..k : /\ i = 1 => s[i].half = 1
                           /\ i \in {3, 4} => s[i] = Model!NL
        /\ e # "reset" => k >= 4
    BY <1>2, <1>4, <1>5, <1>11 DEF HeadFirst
  <2>2. n = 3
    <3>1. s[1].half = 1
      BY <1>4, <2>1
    <3>2. n # 3 => s[n] # Model!NL
      BY <1>3, <1>5, <3>1
    <3> QED
      BY <1>3, <1>4, <2>1, <3>2
  <2>3. CASE r = <<>>
    <3>1. k = 3
      BY <1>4, <2>2, <2>3
    <3> QED
      BY <2>1, <2>3, <3>1 DEF HeadFirst
  <2>4. CASE r # <<>>
    <3>1. 1 \in 1..h /\ 4 \in 1..k /\ 1 + n = 4
      BY <1>4, <2>2, <2>4
    <3>2. r[1] = Model!NL
      BY <1>4, <2>1, <3>1
    <3> QED
      BY <2>4, <3>2 DEF HeadFirst
  <2> QED
    BY <2>3, <2>4
<1>12. ASSUME at = "headers" PROVE x = Model!L("blank")
  <2>1. s[1] = Model!NL
    BY <1>2, <1>5, <1>12 DEF HeadFirst
  <2> QED
    BY <1>3, <1>5, <2>1
<1>13. HeadFirst(r, e, "body")
  BY DEF HeadFirst
<1>14. x \in Model!Tokens => Whole(r, p + 1, m, e, "body")
  BY <1>4, <1>6, <1>7, <1>8, <1>13 DEF Whole
<1>15. x \notin Model!Tokens => Whole(r, p, m, e, "body")
  BY <1>2, <1>4, <1>6, <1>7, <1>9, <1>13 DEF Whole
<1> QED
  BY <1>8, <1>10, <1>11, <1>12, <1>14, <1>15

\* What is given to the caller is a sequence of events, as long as it is not changed the same.
LEMMA GivenIs ==
    ASSUME CallTypes
    PROVE  /\ Given \in Seq(Model!Lines \cup {Model!L("error")}) /\ Len(Given) \in Nat
           /\ server.sent \in Nat
           /\ UNCHANGED <<chan, seen>> => Given' = Given
<1>1. Given \in Seq(Model!Lines \cup {Model!L("error")})
  BY ConcatProperties DEF Given, CallTypes
<1>2. PICK g : g = Given
  OBVIOUS
<1>3. Len(g) \in Nat
  BY <1>1, <1>2
<1>4. server.sent \in Nat
  BY DEF CallTypes
<1>5. UNCHANGED <<chan, seen>> => Given' = Given
  BY DEF Given
<1> QED
  BY <1>1, <1>2, <1>3, <1>4, <1>5

\* As long as the worker is not over, only tokens were given.
LEMMA OnlyTokensYet ==
    ASSUME NEW g, NEW w, NEW d, NEW m, NEW e, EventsInOrder(g, w, d, m, e), w.at # "over"
    PROVE  \A i \in 1..Len(g) : g[i] = Model!T(i) /\ g[i] \in Model!Tokens
BY DEF EventsInOrder

\* The worker has an error, or an event that ends the call, to hand over.
LEMMA EndsNext ==
    ASSUME CallTypes, StreamIsWhole, worker.at # "over", UNCHANGED <<server, chan, seen>>,
           NEW x, worker' = Model!Sending(x), x \notin Model!Tokens,
           x = Model!L("done") => server.end = "closed" /\ server.sent = Len(Given)
    PROVE  StreamIsWhole'
<1>1. PICK g : g = Given /\ Given' = g
  BY GivenIs
<1>2. worker'.at = "send" /\ worker'.event = x /\ Model!Terminal(x)
  BY DEF Model!Sending, Model!Terminal
<1>3. \A i \in 1..Len(g) : g[i] = Model!T(i) /\ g[i] \in Model!Tokens
  BY <1>1, OnlyTokensYet DEF StreamIsWhole
<1>4. EventsInOrder(g, worker', data', server.sent, server.end)
  BY <1>1, <1>2, <1>3 DEF EventsInOrder
<1>5. ~Live(worker', data')
  BY <1>2 DEF Live
<1> QED
  BY <1>1, <1>4, <1>5 DEF StreamIsWhole

\* The worker goes on with the stream: with p tokens passed on or pending.
LEMMA GoesOn ==
    ASSUME CallTypes, StreamIsWhole, worker.at # "over", UNCHANGED <<server, chan, seen>>,
           NEW p, p = Passed(Given, worker', data'),
           Live(worker', data') => Whole(Stream', p, server.sent, server.end, worker'.at),
           worker'.at = "send" =>
              worker'.event = Model!T(Len(Given) + 1) /\ worker'.event \in Model!Tokens
                  /\ data' = <<>>,
           worker'.at = "body" /\ Len(data') = 1 =>
              /\ data'[1] \in Model!Tokens => data'[1] = Model!T(Len(Given) + 1)
              /\ data'[1] = Model!L("done") => server.end = "closed" /\ server.sent = Len(Given),
           worker'.at # "over"
    PROVE  StreamIsWhole'
<1>1. PICK g : g = Given /\ Given' = g
  BY GivenIs
<1>3. \A i \in 1..Len(g) : g[i] = Model!T(i) /\ g[i] \in Model!Tokens
  BY <1>1, OnlyTokensYet DEF StreamIsWhole
<1>4. EventsInOrder(g, worker', data', server.sent, server.end)
  BY <1>1, <1>3 DEF EventsInOrder
<1> QED
  BY <1>1, <1>4 DEF StreamIsWhole

\* The names of lines.
LEMMA NamesAre ==
    /\ \A x \in Model!Lines : x.is \in {"2xx", "blank", "note", "role", "junk", "error"} =>
          x \notin Model!Tokens /\ x # Model!L("done")
    /\ Model!L("error") # Model!L("done") /\ Model!L("error") \notin Model!Tokens
    /\ Model!L("done") \notin Model!Tokens /\ Model!L("done") \in Model!Lines
    /\ Model!L("blank").is = "blank" /\ Model!L("none") \notin Model!Tokens
    /\ Model!L("blank") \in Model!Lines /\ \A x \in Model!Tokens : x \in Model!Lines
       /\ x.is = "token"
<1> USE DEF Model!Lines, Model!L, Model!Tokens, Model!T
<1>1. \A x \in Model!Tokens : x \in Model!Lines /\ x.is = "token"
  OBVIOUS
<1>2. \A name \in {"error", "done", "blank", "none"} :
          Model!L(name).is = name /\ Model!L(name) \notin Model!Tokens
  OBVIOUS
<1>3. Model!L("done") \in Model!Lines /\ Model!L("blank") \in Model!Lines
  OBVIOUS
<1> QED
  BY <1>1, <1>2, <1>3

\* Connecting and asking: nothing is under way yet.
LEMMA Connects ==
    ASSUME CallTypes, StreamIsWhole, Model!Connect
    PROVE  StreamIsWhole'
<1>1. worker.at = "connect" /\ data = <<>> /\ UNCHANGED <<wire, buf, data, chan, seen>>
  BY DEF Model!Connect, CallTypes, Model!Stay
<1>2. CASE worker' = Model!Sending(Model!L("error")) /\ UNCHANGED server
  BY <1>1, <1>2, EndsNext, NamesAre
<1>3. CASE /\ server.end = "listening" /\ worker' = Model!At("status")
           /\ server' = [server EXCEPT !.end = "asked"]
  <2>1. PICK g : g = Given /\ Given' = g
    BY <1>1, GivenIs
  <2>2. PICK s : s = Stream /\ Stream' = s
    BY <1>1 DEF Stream
  <2>3. worker'.at = "status" /\ server'.end = "asked" /\ server'.sent = server.sent
    BY <1>3 DEF Model!At, CallTypes
  <2>4. EventsInOrder(g, worker, data, server.sent, "asked")
    BY <1>3, <2>1, EventsWait DEF StreamIsWhole
  <2>5. EventsInOrder(g, worker', data, server.sent, "asked")
    BY <1>1, <2>3, <2>4 DEF EventsInOrder
  <2>6. PICK p : p = Passed(g, worker, data) /\ p = Passed(g, worker', data)
    BY <1>1, <2>3 DEF Passed, Pending
  <2>7. Whole(s, p, server.sent, "listening", "connect")
    BY <1>1, <1>3, <2>1, <2>2, <2>6 DEF StreamIsWhole, Live
  <2>8. s = <<>>
    BY <2>7 DEF Whole, HeadFirst
  <2>9. Counts(s, p, server.sent, "asked")
    <3>1. \A i \in 1..Len(s) : FALSE
      BY <2>8
    <3> QED
      BY <2>7, <3>1 DEF Whole, Counts
  <2>10. Whole(s, p, server.sent, "asked", "status")
    BY <2>7, <2>8, <2>9 DEF Whole, HeadFirst
  <2> QED
    BY <1>1, <2>1, <2>2, <2>3, <2>5, <2>6, <2>10 DEF StreamIsWhole
<1> QED
  BY <1>2, <1>3 DEF Model!Connect

\* What read_line takes while the worker can make something of it.
LEMMA ReadsLine ==
    ASSUME CallTypes, StreamIsWhole, NEW x, Model!LineRead(x), Live(worker, data),
           worker.at \in {"status", "headers", "body"}, UNCHANGED <<chan, seen>>,
           NEW p, p = Passed(Given, worker, data)
    PROVE  /\ p \in Nat /\ server' = server
           /\ x \in Model!Tokens =>
                 x = Model!T(p + 1) /\ Whole(Stream', p + 1, server.sent, server.end, "body")
           /\ x \notin Model!Tokens => Whole(Stream', p, server.sent, server.end, "body")
           /\ x = Model!L("done") => server.end = "closed" /\ server.sent = p
           /\ worker.at = "status" => HeadFirst(Stream', server.end, "headers")
           /\ worker.at = "headers" => x = Model!L("blank")
<1>1. p \in Nat /\ server.sent \in Nat
  BY GivenIs DEF Passed
<1>2. PICK e, m, at : e = server.end /\ m = server.sent /\ at = worker.at
  OBVIOUS
<1>3. Whole(Stream, p, m, e, at)
  BY <1>2 DEF StreamIsWhole
<1>4. PICK r : r = Stream'
  OBVIOUS
<1>5. /\ x \in Model!Tokens => x = Model!T(p + 1) /\ Whole(r, p + 1, m, e, "body")
      /\ x \notin Model!Tokens => Whole(r, p, m, e, "body")
      /\ x = Model!L("done") => e = "closed" /\ m = p
      /\ at = "status" => HeadFirst(r, e, "headers")
      /\ at = "headers" => x = Model!L("blank")
  BY <1>1, <1>2, <1>3, <1>4, LinesRead
<1>6. server' = server
  BY ReadTypes
<1> QED
  BY <1>1, <1>2, <1>4, <1>5, <1>6

\* The head of the answer is read, or refused.
LEMMA ReadsHead ==
    ASSUME CallTypes, StreamIsWhole, Model!ReadHead
    PROVE  StreamIsWhole'
<1>1. /\ worker.at \in {"status", "headers"} /\ data = <<>>
      /\ UNCHANGED <<data, chan, seen>>
  BY DEF Model!ReadHead, CallTypes, Model!Stay
<1>2. PICK x \in Model!Lines :
          /\ Model!LineRead(x)
          /\ worker' = CASE worker.at = "status" /\ x.is = "2xx" -> Model!At("headers")
                         [] worker.at = "status" /\ x.is # "2xx" -> Model!Sending(Model!L("error"))
                         [] worker.at = "headers" /\ x.is = "blank" -> Model!At("body")
                         [] OTHER -> worker
  BY DEF Model!ReadHead
<1>3. Live(worker, data)
  BY <1>1 DEF Live
<1>4. PICK p : p = Passed(Given, worker, data)
  OBVIOUS
<1>5. /\ p \in Nat /\ server' = server
      /\ x \notin Model!Tokens => Whole(Stream', p, server.sent, server.end, "body")
      /\ worker.at = "status" => HeadFirst(Stream', server.end, "headers")
      /\ worker.at = "headers" => x = Model!L("blank")
  BY <1>1, <1>2, <1>3, <1>4, ReadsLine
<1>6. CASE worker' = Model!Sending(Model!L("error"))
  BY <1>1, <1>5, <1>6, EndsNext, NamesAre
<1>7. CASE worker.at = "status" /\ x.is = "2xx" /\ worker' = Model!At("headers")
  <2>1. worker'.at = "headers" /\ x \notin Model!Tokens
    BY <1>2, <1>7, NamesAre DEF Model!At
  <2>2. p = Passed(Given, worker', data')
    BY <1>1, <1>4, <2>1 DEF Passed, Pending
  <2>3. Whole(Stream', p, server.sent, server.end, "headers")
    BY <1>5, <1>7, <2>1 DEF Whole
  <2> QED
    BY <1>1, <1>5, <1>7, <2>1, <2>2, <2>3, GoesOn
<1>8. CASE worker.at = "headers" /\ worker' = Model!At("body")
  <2>1. worker'.at = "body" /\ x \notin Model!Tokens
    BY <1>5, <1>8, TokensAre DEF Model!At
  <2>2. p = Passed(Given, worker', data') /\ Len(data') = 0
    BY <1>1, <1>4, <2>1 DEF Passed, Pending
  <2> QED
    BY <1>1, <1>5, <1>8, <2>1, <2>2, GoesOn
<1>9. worker.at = "headers" => x.is = "blank"
  BY <1>5, NamesAre
<1> QED
  BY <1>1, <1>2, <1>6, <1>7, <1>8, <1>9

\* map_sse_payload of what was collected: it goes on, or it ends.
LEMMA PayloadOf ==
    ASSUME CallTypes, StreamIsWhole, worker.at = "body", data # <<>>,
           worker' = Model!Payload(data), data' = <<>>, UNCHANGED <<server, chan, seen>>,
           Live(worker, data) =>
              Whole(Stream', Passed(Given, worker, data), server.sent, server.end, "body")
    PROVE  StreamIsWhole'
<1>1. CASE Len(data) # 1
  <2>1. worker' = Model!Sending(Model!L("error"))
    BY <1>1 DEF Model!Payload
  <2> QED
    BY <2>1, EndsNext, NamesAre
<1>2. CASE Len(data) = 1
  <2>1. PICK x \in Model!Lines : x = data[1]
    BY <1>2 DEF CallTypes
  <2>2. worker' = CASE x.is = "role" -> Model!At("body")
                    [] x.is = "junk" -> Model!Sending(Model!L("error"))
                    [] OTHER -> Model!Sending(x)
    BY <1>2, <2>1 DEF Model!Payload
  <2>3. /\ x \in Model!Tokens => x = Model!T(Len(Given) + 1)
        /\ x = Model!L("done") => server.end = "closed" /\ server.sent = Len(Given)
    BY <1>2, <2>1 DEF StreamIsWhole, EventsInOrder
  <2>4. PICK p : /\ p = Passed(Given, worker, data)
                 /\ Whole(Stream', p, server.sent, server.end, "body")
    BY <1>2 DEF Live
  <2>5. CASE x.is = "role"
    <3>1. worker'.at = "body" /\ x \notin Model!Tokens
      BY <2>2, <2>5, NamesAre DEF Model!At
    <3>2. p = Passed(Given, worker', data') /\ Len(data') = 0
      BY <2>1, <2>4, <3>1 DEF Passed, Pending
    <3> QED
      BY <2>4, <3>1, <3>2, GoesOn
  <2>6. CASE x.is = "junk"
    <3>1. worker' = Model!Sending(Model!L("error"))
      BY <2>2, <2>6
    <3> QED
      BY <3>1, EndsNext, NamesAre
  <2>7. CASE x.is \notin {"role", "junk"}
    <3>1. worker' = Model!Sending(x)
      BY <2>2, <2>7
    <3>2. CASE x \notin Model!Tokens
      BY <2>3, <3>1, <3>2, EndsNext
    <3>3. CASE x \in Model!Tokens
      <4>1. worker'.at = "send" /\ worker'.event = x
        BY <3>1 DEF Model!Sending
      <4>2. p = Passed(Given, worker', data')
        BY <2>1, <2>4, <3>3, <4>1 DEF Passed, Pending
      <4>3. Whole(Stream', p, server.sent, server.end, "send")
        BY <2>4 DEF Whole, HeadFirst
      <4> QED
        BY <2>3, <3>3, <4>1, <4>2, <4>3, GoesOn
    <3> QED
      BY <3>2, <3>3
  <2> QED
    BY <2>5, <2>6, <2>7
<1> QED
  BY <1>1, <1>2

\* A clean end of the body: every token has been passed on or is pending.
LEMMA EndsBody ==
    ASSUME CallTypes, StreamIsWhole, Model!EndOfBody
    PROVE  StreamIsWhole'
<1>1. /\ worker.at = "body" /\ server.end = "closed" /\ wire = <<>> /\ buf = <<>>
      /\ UNCHANGED <<kind, wire, server, buf, chan, seen>>
  BY DEF Model!EndOfBody, Model!EndRead, Model!Stay
<1>2. PICK s : s = Stream /\ Stream' = s
  BY <1>1 DEF Stream
<1>3. CASE data = <<>>
  <2>1. worker' = Model!Sending(Model!L("done"))
    BY <1>3 DEF Model!EndOfBody
  <2>2. Live(worker, data)
    BY <1>1, <1>3 DEF Live
  <2>3. PICK p \in Nat : p = Passed(Given, worker, data) /\ p = Len(Given)
    BY <1>1, <1>3, GivenIs DEF Passed, Pending
  <2>4. Whole(s, p, server.sent, "closed", "body")
    BY <1>1, <1>2, <2>2, <2>3 DEF StreamIsWhole
  <2>5. s = <<>>
    BY <1>1, <1>2 DEF Stream
  <2>6. \A k \in (p + 1)..server.sent : FALSE
    <3>1. \A i \in 1..Len(s) : FALSE
      BY <2>5
    <3> QED
      BY <2>4, <3>1 DEF Whole, Counts
  <2>7. server.sent = p
    <3>1. PICK m \in Nat : m = server.sent
      BY GivenIs
    <3>2. p <= m
      BY <2>4, <3>1 DEF Whole
    <3> QED
      BY <2>6, <3>1, <3>2
  <2> QED
    BY <1>1, <2>1, <2>3, <2>7, EndsNext, NamesAre
<1>4. CASE data # <<>>
  <2>1. worker' = Model!Payload(data) /\ data' = <<>>
    BY <1>4 DEF Model!EndOfBody
  <2>2. Live(worker, data) =>
            Whole(Stream', Passed(Given, worker, data), server.sent, server.end, "body")
    BY <1>1, <1>2 DEF StreamIsWhole
  <2> QED
    BY <1>1, <1>4, <2>1, <2>2, PayloadOf
<1> QED
  BY <1>3, <1>4

\* A line of an event is collected, and an event is made of what was collected.
LEMMA ReadsEvent ==
    ASSUME CallTypes, StreamIsWhole, Model!ReadEvent
    PROVE  StreamIsWhole'
<1>1. worker.at = "body" /\ UNCHANGED <<chan, seen>> /\ data \in Seq(Model!Lines)
  BY DEF Model!ReadEvent, CallTypes, Model!Stay
<1>2. PICK x \in Model!Lines :
          /\ Model!LineRead(x)
          /\ CASE x.is = "blank" /\ data = <<>> -> UNCHANGED <<worker, data>>
               [] x.is = "blank" /\ data # <<>> -> worker' = Model!Payload(data) /\ data' = <<>>
               [] x.is = "note" -> UNCHANGED <<worker, data>>
               [] OTHER -> data' = Append(data, x) /\ UNCHANGED worker
  BY DEF Model!ReadEvent
<1>3. PICK p : p = Passed(Given, worker, data)
  OBVIOUS
<1>4. server' = server
  BY <1>2, ReadTypes
<1>5. ASSUME Live(worker, data)
      PROVE  /\ p \in Nat
             /\ x \in Model!Tokens =>
                   x = Model!T(p + 1) /\ Whole(Stream', p + 1, server.sent, server.end, "body")
             /\ x \notin Model!Tokens => Whole(Stream', p, server.sent, server.end, "body")
             /\ x = Model!L("done") => server.end = "closed" /\ server.sent = p
  BY <1>1, <1>2, <1>3, <1>5, ReadsLine
<1>6. CASE x \notin Model!Tokens /\ UNCHANGED <<worker, data>>
  <2>1. p = Passed(Given, worker', data')
    BY <1>3, <1>6
  <2>2. worker'.at = "body" /\ Live(worker', data') = Live(worker, data)
    BY <1>1, <1>6
  <2>3. Len(data') = 1 =>
            /\ data'[1] \in Model!Tokens => data'[1] = Model!T(Len(Given) + 1)
            /\ data'[1] = Model!L("done") => server.end = "closed" /\ server.sent = Len(Given)
    BY <1>1, <1>6 DEF StreamIsWhole, EventsInOrder
  <2>4. Live(worker', data') => Whole(Stream', p, server.sent, server.end, worker'.at)
    BY <1>5, <1>6, <2>2
  <2> QED
    BY <1>1, <1>4, <2>1, <2>2, <2>3, <2>4, GoesOn
<1>7. CASE x.is = "blank" /\ data # <<>> /\ worker' = Model!Payload(data) /\ data' = <<>>
  <2>1. x \notin Model!Tokens
    BY <1>2, <1>7, NamesAre
  <2>2. Live(worker, data) =>
            Whole(Stream', Passed(Given, worker, data), server.sent, server.end, "body")
    BY <1>3, <1>5, <2>1
  <2> QED
    BY <1>1, <1>4, <1>7, <2>2, PayloadOf
<1>8. CASE data' = Append(data, x) /\ UNCHANGED worker
  <2>1. CASE data = <<>>
    <3>1. data' = <<x>> /\ Len(data') = 1 /\ data'[1] = x /\ data' # <<>>
      BY <1>8, <2>1
    <3>2. Live(worker, data) /\ p = Len(Given)
      BY <1>1, <1>3, <2>1 DEF Live, Passed, Pending
    <3>3. worker'.at = "body"
      BY <1>1, <1>8
    <3>4. CASE x \in Model!Tokens
      <4>1. p + 1 = Passed(Given, worker', data')
        BY <3>1, <3>2, <3>4 DEF Passed, Pending
      <4> QED
        BY <1>1, <1>4, <1>5, <3>1, <3>2, <3>3, <3>4, <4>1, GoesOn
    <3>5. CASE x \notin Model!Tokens
      <4>1. p = Passed(Given, worker', data')
        BY <3>1, <3>2, <3>3, <3>5 DEF Passed, Pending
      <4> QED
        BY <1>1, <1>4, <1>5, <3>1, <3>2, <3>3, <3>5, <4>1, GoesOn
    <3> QED
      BY <3>4, <3>5
  <2>2. CASE data # <<>>
    <3>1. worker'.at = "body" /\ Len(data') # 1 /\ ~(Len(data') <= 1)
      <4>1. Len(data) \in Nat /\ Len(data) # 0 /\ Len(data') = Len(data) + 1
        BY <1>1, <1>2, <1>8, <2>2, EmptySeq, AppendProperties
      <4> QED
        BY <1>1, <1>8, <4>1
    <3>2. ~Live(worker', data')
      BY <3>1 DEF Live
    <3> QED
      BY <1>1, <1>4, <3>1, <3>2, GoesOn
  <2> QED
    BY <2>1, <2>2
<1>9. x.is \in {"blank", "note"} => x \notin Model!Tokens
  BY <1>2, NamesAre
<1> QED
  BY <1>2, <1>6, <1>7, <1>8, <1>9

\* A progress report is a line of its own.
LEMMA ReadsProgress ==
    ASSUME CallTypes, StreamIsWhole, Model!ReadProgress
    PROVE  StreamIsWhole'
<1>1. worker.at = "body" /\ data = <<>> /\ UNCHANGED <<data, chan, seen>>
  BY DEF Model!ReadProgress, CallTypes, Model!Stay
<1>2. PICK x \in Model!Lines :
          /\ Model!LineRead(x)
          /\ worker' = CASE x.is = "blank" -> worker
                         [] x.is \in {"note", "junk"} -> Model!Sending(Model!L("error"))
                         [] OTHER -> Model!Sending(x)
  BY DEF Model!ReadProgress
<1>3. PICK p : p = Passed(Given, worker, data)
  OBVIOUS
<1>4. Live(worker, data) /\ p = Len(Given)
  BY <1>1, <1>3 DEF Live, Passed, Pending
<1>5. /\ p \in Nat /\ server' = server
      /\ x \in Model!Tokens =>
            x = Model!T(p + 1) /\ Whole(Stream', p + 1, server.sent, server.end, "body")
      /\ x \notin Model!Tokens => Whole(Stream', p, server.sent, server.end, "body")
      /\ x = Model!L("done") => server.end = "closed" /\ server.sent = p
  BY <1>1, <1>2, <1>3, <1>4, ReadsLine
<1>6. CASE x.is = "blank"
  <2>1. worker' = worker /\ x \notin Model!Tokens
    BY <1>2, <1>6, NamesAre
  <2>2. p = Passed(Given, worker', data') /\ worker'.at = "body" /\ Len(data') = 0
    BY <1>1, <1>3, <2>1
  <2> QED
    BY <1>1, <1>5, <2>1, <2>2, GoesOn
<1>7. CASE x.is \in {"note", "junk"}
  <2>1. worker' = Model!Sending(Model!L("error"))
    BY <1>2, <1>7
  <2> QED
    BY <1>1, <1>5, <2>1, EndsNext, NamesAre
<1>8. CASE x.is \notin {"blank", "note", "junk"}
  <2>1. worker' = Model!Sending(x)
    BY <1>2, <1>8
  <2>2. CASE x \notin Model!Tokens
    BY <1>1, <1>4, <1>5, <2>1, <2>2, EndsNext
  <2>3. CASE x \in Model!Tokens
    <3>1. worker'.at = "send" /\ worker'.event = x
      BY <2>1 DEF Model!Sending
    <3>2. p + 1 = Passed(Given, worker', data')
      BY <1>4, <2>3, <3>1 DEF Passed, Pending
    <3>3. Whole(Stream', p + 1, server.sent, server.end, "send")
      BY <1>5, <2>3 DEF Whole, HeadFirst
    <3> QED
      BY <1>1, <1>4, <1>5, <2>3, <3>1, <3>2, <3>3, GoesOn
  <2> QED
    BY <2>2, <2>3
<1> QED
  BY <1>6, <1>7, <1>8

\* Moving the first item of one part to the end of the part below changes nothing.
LEMMA MoveOne ==
    ASSUME NEW S, NEW s \in Seq(S), NEW t \in Seq(S), t # <<>>
    PROVE  Append(s, Head(t)) \o Tail(t) = s \o t
<1>1. /\ Head(t) \in S /\ Tail(t) \in Seq(S) /\ Len(Tail(t)) = Len(t) - 1
      /\ \A i \in 1 .. Len(Tail(t)) : Tail(t)[i] = t[i + 1]
    BY HeadTailProperties
<1>2. Head(t) = t[1] /\ Len(t) \in Nat \ {0} /\ Len(s) \in Nat
    BY EmptySeq, LenProperties
<1> DEFINE a == Append(s, Head(t))
<1>3. /\ a \in Seq(S) /\ Len(a) = Len(s) + 1
      /\ \A i \in 1 .. Len(s) : a[i] = s[i]
      /\ a[Len(s) + 1] = t[1]
    BY <1>1, <1>2, AppendProperties
<1> HIDE DEF a
<1>4. /\ a \o Tail(t) \in Seq(S)
      /\ Len(a \o Tail(t)) = Len(s) + Len(t)
      /\ \A i \in 1 .. Len(s) + Len(t) :
            (a \o Tail(t))[i] = IF i <= Len(a) THEN a[i] ELSE Tail(t)[i - Len(a)]
    <2>1. Len(a) + Len(Tail(t)) = Len(s) + Len(t)
        BY <1>1, <1>2, <1>3
    <2>2. /\ a \o Tail(t) \in Seq(S)
          /\ Len(a \o Tail(t)) = Len(a) + Len(Tail(t))
          /\ \A i \in 1 .. Len(a) + Len(Tail(t)) :
                (a \o Tail(t))[i] = IF i <= Len(a) THEN a[i] ELSE Tail(t)[i - Len(a)]
        BY <1>1, <1>3, ConcatProperties
    <2> QED BY <2>1, <2>2
<1>5. /\ s \o t \in Seq(S) /\ Len(s \o t) = Len(s) + Len(t)
      /\ \A i \in 1 .. Len(s) + Len(t) :
            (s \o t)[i] = IF i <= Len(s) THEN s[i] ELSE t[i - Len(s)]
    BY ConcatProperties
<1>6. ASSUME NEW i \in 1 .. Len(s) + Len(t)
      PROVE  (a \o Tail(t))[i] = (s \o t)[i]
    <2>1. CASE i <= Len(s)
        BY <1>2, <1>3, <1>4, <1>5, <2>1
    <2>2. CASE i = Len(s) + 1
        BY <1>2, <1>3, <1>4, <1>5, <2>2
    <2>3. CASE i > Len(s) + 1
        <3>1. i - (Len(s) + 1) \in 1 .. Len(Tail(t))
            BY <1>1, <1>2, <2>3
        <3>2. Tail(t)[i - (Len(s) + 1)] = t[(i - (Len(s) + 1)) + 1]
            BY <1>1, <3>1
        <3> QED BY <1>2, <1>4, <1>5, <2>3, <3>2
    <2>4. ASSUME NEW n \in Nat PROVE i <= n \/ i = n + 1 \/ i > n + 1
        OBVIOUS
    <2>5. i <= Len(s) \/ i = Len(s) + 1 \/ i > Len(s) + 1
        BY <1>2, <2>4
    <2> QED BY <2>1, <2>2, <2>3, <2>5
<1>7. a \o Tail(t) = s \o t
    BY <1>4, <1>5, <1>6, SeqEqual
<1> QED BY <1>7 DEF a

\* The channel takes one event at its end and gives the first one.
LEMMA ChannelKeeps ==
    ASSUME CallTypes
    PROVE  /\ \A x \in Model!Lines \cup {Model!L("error")} :
                 chan' = Append(chan, x) /\ seen' = seen =>
                    /\ Given' = Append(Given, x)
                    /\ chan' \in Seq(Model!Lines \cup {Model!L("error")})
           /\ chan # <<>> /\ seen' = Append(seen, Head(chan)) /\ chan' = Tail(chan) =>
                 /\ Given' = Given
                 /\ chan' \in Seq(Model!Lines \cup {Model!L("error")})
                 /\ seen' \in Seq(Model!Lines \cup {Model!L("error")})
<1>1. PICK Set : Set = Model!Lines \cup {Model!L("error")}
  OBVIOUS
<1>2. PICK s \in Seq(Set), c \in Seq(Set) : s = seen /\ c = chan
  BY <1>1 DEF CallTypes
<1>3. ASSUME NEW x \in Set, chan' = Append(chan, x), seen' = seen
      PROVE  Given' = Append(Given, x) /\ chan' \in Seq(Set)
  <2>1. s \o Append(c, x) = Append(s \o c, x)
    <3>1. <<x>> \in Seq(Set)
      OBVIOUS
    <3>2. PICK u \in Seq(Set) : u = <<x>>
      BY <3>1
    <3>3. (s \o c) \o u = s \o (c \o u)
      BY ConcatAssociative, SMTT(30)
    <3>4. s \o c \in Seq(Set)
      BY ConcatProperties
    <3>5. Append(c, x) = c \o <<x>> /\ Append(s \o c, x) = (s \o c) \o <<x>>
      BY <3>4, AppendIsConcat
    <3> QED
      BY <3>2, <3>3, <3>5
  <2>2. Append(c, x) \in Seq(Set)
    BY AppendProperties
  <2> QED
    BY <1>2, <1>3, <2>1, <2>2 DEF Given
<1>4. ASSUME chan # <<>>, seen' = Append(seen, Head(chan)), chan' = Tail(chan)
      PROVE  Given' = Given /\ chan' \in Seq(Set) /\ seen' \in Seq(Set)
  <2>1. c # <<>>
    BY <1>2, <1>4
  <2>2. Append(s, Head(c)) \o Tail(c) = s \o c
    BY <2>1, MoveOne
  <2>3. Head(c) \in Set /\ Tail(c) \in Seq(Set)
    BY <2>1, HeadTailProperties
  <2>4. Append(s, Head(c)) \in Seq(Set)
    BY <2>3, AppendProperties
  <2> QED
    BY <1>2, <1>4, <2>2, <2>3, <2>4 DEF Given
<1> QED
  BY <1>1, <1>3, <1>4

\* An event goes into the channel, or the caller is gone.
LEMMA Hands ==
    ASSUME CallTypes, StreamIsWhole, Model!Hand
    PROVE  StreamIsWhole'
<1>1. /\ worker.at = "send" /\ UNCHANGED <<wire, buf, server, data, seen>>
      /\ worker.event \in Model!Lines \cup {Model!L("error")}
  BY DEF Model!Hand, CallTypes
<1>2. PICK x \in Model!Lines \cup {Model!L("error")}, n \in Nat : x = worker.event /\ n = Len(Given)
  BY <1>1, GivenIs
<1>3. PICK g \in Seq(Model!Lines \cup {Model!L("error")}), m \in Nat :
          g = Given /\ m = server.sent
  BY GivenIs
<1>30. PICK e : e = server.end
  OBVIOUS
<1>4. \A i \in 1..n : g[i] = Model!T(i) /\ g[i] \in Model!Tokens
  BY <1>1, <1>2, <1>3, <1>30, OnlyTokensYet DEF StreamIsWhole
<1>5. \/ x = Model!T(n + 1) /\ x \in Model!Tokens /\ data = <<>>
      \/ /\ Model!Terminal(x)
         /\ x = Model!L("done") => e = "closed" /\ m = n
  BY <1>1, <1>2, <1>3, <1>30 DEF StreamIsWhole, EventsInOrder
<1>6. CASE caller = "dropped"
  <2>1. worker'.at = "over" /\ chan' = chan
    BY <1>6 DEF Model!Hand, Model!At
  <2>2. Given' = g
    BY <1>1, <1>3, <1>30, <2>1, GivenIs
  <2>3. EventsInOrder(g, worker', data', m, e)
    BY <1>2, <1>3, <1>30, <1>4, <2>1 DEF EventsInOrder
  <2>4. ~Live(worker', data')
    BY <2>1 DEF Live
  <2> QED
    BY <1>1, <1>3, <1>30, <2>2, <2>3, <2>4 DEF StreamIsWhole
<1>7. CASE caller # "dropped"
  <2>1. /\ chan' = Append(chan, x)
        /\ worker' = IF Model!Terminal(x) THEN Model!At("over") ELSE Model!At("body")
    BY <1>2, <1>7 DEF Model!Hand
  <2>2. PICK h : h = Append(g, x) /\ Given' = h
    BY <1>1, <1>3, <1>30, <2>1, ChannelKeeps
  <2>3. /\ Len(h) = n + 1 /\ h[n + 1] = x
        /\ \A i \in 1..(n + 1) : i \in 1..n \/ i = n + 1
        /\ \A i \in 1..n : h[i] = g[i]
    BY <1>2, <1>3, <1>30, <2>2, AppendProperties
  <2>4. worker'.at = IF Model!Terminal(x) THEN "over" ELSE "body"
    BY <2>1 DEF Model!At
  <2>5. CASE Model!Terminal(x)
    <3>1. worker'.at = "over" /\ (x = Model!L("done") => e = "closed" /\ m = (n + 1) - 1)
      BY <1>2, <1>3, <1>30, <1>5, <2>4, <2>5 DEF Model!Terminal
    <3>2. EventsInOrder(h, worker', data', m, e)
      BY <1>4, <2>3, <2>5, <3>1 DEF EventsInOrder
    <3>3. ~Live(worker', data')
      BY <3>1 DEF Live
    <3> QED
      BY <1>1, <1>3, <1>30, <2>2, <3>2, <3>3 DEF StreamIsWhole
  <2>6. CASE ~Model!Terminal(x)
    <3>1. worker'.at = "body" /\ x = Model!T(n + 1) /\ x \in Model!Tokens /\ data = <<>>
        /\ data' = <<>>
      BY <1>1, <1>5, <2>4, <2>6
    <3>2. EventsInOrder(h, worker', data', m, e)
      <4>1. Len(data') # 1
        BY <3>1
      <4> QED
        BY <1>4, <2>3, <3>1, <4>1 DEF EventsInOrder
    <3>3. Live(worker, data)
      BY <1>1, <1>2, <3>1 DEF Live
    <3>4. PICK p : p = Passed(g, worker, data) /\ p = n + 1 /\ p = Passed(h, worker', data')
      BY <1>1, <1>2, <1>3, <1>30, <2>3, <3>1 DEF Passed, Pending
    <3>5. Whole(Stream, p, m, e, "send")
      BY <1>1, <1>3, <1>30, <3>3, <3>4 DEF StreamIsWhole
    <3>6. Stream' = Stream
      BY <1>1 DEF Stream
    <3>7. Whole(Stream', p, m, e, "body")
      BY <3>5, <3>6 DEF Whole, HeadFirst
    <3> QED
      BY <1>1, <1>3, <1>30, <2>2, <3>1, <3>2, <3>4, <3>7 DEF StreamIsWhole
  <2> QED
    BY <2>5, <2>6
<1> QED
  BY <1>6, <1>7

\* Reads and timeouts move the stream and change nothing of it.
LEMMA ReadsMore ==
    ASSUME CallTypes, StreamIsWhole, Model!Read \/ Model!ReadTimesOut
    PROVE  StreamIsWhole'
<1>1. /\ UNCHANGED <<server, worker, data, chan, seen>> /\ Stream' = Stream
  BY ReadTypes DEF Model!Read, Model!ReadTimesOut, Model!AfterTimeout, Model!Stay, Stream
<1>2. Given' = Given
  BY <1>1, GivenIs
<1> QED
  BY <1>1, <1>2 DEF StreamIsWhole

\* Every step of the call keeps its types.
LEMMA CallKeepsTypes ==
    ASSUME CallTypes, Model!Next
    PROVE  CallTypes'
<1> DEFINE Workers == [at : {"connect", "status", "headers", "body", "send", "over"},
                       event : Model!Lines \cup {Model!L("none"), Model!L("error")}]
<1>1. /\ \A spot \in {"status", "headers", "body", "over"} :
             Model!At(spot) \in Workers /\ Model!At(spot).at = spot
      /\ \A x \in Model!Lines \cup {Model!L("error")} :
             /\ Model!Sending(x) \in Workers /\ Model!Sending(x).at = "send"
             /\ Model!Sending(x).event = x
  BY DEF Model!At, Model!Sending
<1>2. worker \in Workers /\ data \in Seq(Model!Lines)
  BY DEF CallTypes
<1> HIDE DEF Workers
\* What a step of the worker has to show.
<1>3. ASSUME server' \in [end : {"listening", "asked", "open", "closed", "reset"}, sent : Nat,
                         other : Nat],
             server'.sent = server.sent, kind' = kind, UNCHANGED <<chan, seen>>,
             buf' \in Seq(Halves), wire' \in Seq(Halves), worker' \in Workers,
             worker'.at = "send" => worker'.event \in Model!Lines \cup {Model!L("error")},
             data' \in Seq(Model!Lines),
             worker'.at \in {"connect", "status", "headers"} \/ kind # "generate" => data' = <<>>
      PROVE  CallTypes'
  BY <1>3 DEF CallTypes, Workers
<1>4. CASE Model!Connect
  <2>1. /\ UNCHANGED <<kind, wire, buf, data, chan, seen>> /\ data = <<>>
        /\ worker' = Model!At("status") \/ worker' = Model!Sending(Model!L("error"))
    BY <1>4 DEF Model!Connect, Model!Stay, CallTypes
  <2>2. server' \in [end : {"listening", "asked", "open", "closed", "reset"}, sent : Nat,
      other : Nat]
        /\ server'.sent = server.sent
    BY <1>4 DEF Model!Connect, CallTypes
  <2>3. worker' \in Workers /\ (worker'.at = "send"
      => worker'.event \in Model!Lines \cup {Model!L("error")})
    BY <1>1, <2>1
  <2>4. buf' \in Seq(Halves) /\ wire' \in Seq(Halves) /\ data' \in Seq(Model!Lines)
    BY <2>1 DEF CallTypes
  <2> QED
    BY <1>3, <2>1, <2>2, <2>3, <2>4
<1>5. CASE Model!Read \/ Model!ReadTimesOut \/ Model!ReadFails
  <2>1. /\ UNCHANGED <<kind, server, data, chan, seen>>
        /\ worker' = worker \/ (worker' = Model!Sending(Model!L("error")) /\ worker.at # "connect")
    BY <1>5 DEF Model!Read, Model!ReadTimesOut, Model!ReadFails, Model!Reading, Model!Stay
  <2>2. buf' \in Seq(Halves) /\ wire' \in Seq(Halves)
    BY <1>5, ReadTypes DEF Model!ReadTimesOut, Model!ReadFails, Model!AfterTimeout, CallTypes
  <2>3. worker' \in Workers /\ (worker'.at = "send"
      => worker'.event \in Model!Lines \cup {Model!L("error")})
    BY <1>1, <1>2, <2>1 DEF CallTypes
  <2>4. worker'.at \in {"connect", "status", "headers"} \/ kind # "generate" => data' = <<>>
    BY <1>1, <2>1 DEF CallTypes
  <2> QED
    BY <1>2, <1>3, <2>1, <2>2, <2>3, <2>4 DEF CallTypes
\* A line is read.
<1>6. ASSUME NEW x, Model!LineRead(x), UNCHANGED <<chan, seen>>, worker' \in Workers,
             worker'.at = "send" => worker'.event \in Model!Lines \cup {Model!L("error")},
             data' \in Seq(Model!Lines),
             worker'.at \in {"connect", "status", "headers"} \/ kind # "generate" => data' = <<>>
      PROVE  CallTypes'
  <2>1. buf' \in Seq(Halves) /\ wire' \in Seq(Halves) /\ server' = server /\ kind' = kind
    BY <1>6, ReadTypes
  <2>2. server \in [end : {"listening", "asked", "open", "closed", "reset"}, sent : Nat,
      other : Nat]
    BY DEF CallTypes
  <2> QED
    BY <1>3, <1>6, <2>1, <2>2
<1>7. CASE Model!ReadHead
  <2>1. PICK x \in Model!Lines :
            /\ Model!LineRead(x)
            /\ \/ worker' \in {Model!At("headers"), Model!Sending(Model!L("error")),
                  Model!At("body")}
               \/ worker' = worker
    BY <1>7 DEF Model!ReadHead
  <2>2. worker.at \in {"status", "headers"} /\ data = <<>> /\ UNCHANGED <<data, chan, seen>>
    BY <1>7 DEF Model!ReadHead, Model!Stay, CallTypes
  <2>3. worker' \in Workers /\ (worker'.at = "send"
      => worker'.event \in Model!Lines \cup {Model!L("error")})
    BY <1>1, <1>2, <2>1, <2>2
  <2> QED
    BY <1>2, <1>6, <2>1, <2>2, <2>3
\* What was collected becomes an event.
<1>8. ASSUME data # <<>>, worker' = Model!Payload(data)
      PROVE  /\ worker' \in Workers /\ worker'.at \in {"body", "send"}
             /\ worker'.at = "send" => worker'.event \in Model!Lines \cup {Model!L("error")}
  <2>1. data[1] \in Model!Lines
    <3>1. 1 \in 1..Len(data)
      BY <1>2, <1>8, EmptySeq
    <3> QED
      BY <1>2, <3>1
  <2>2. \/ worker' = Model!Sending(Model!L("error")) \/ worker' = Model!At("body")
        \/ worker' = Model!Sending(data[1])
    BY <1>8 DEF Model!Payload
  <2> QED
    BY <1>1, <2>1, <2>2
<1>9. CASE Model!EndOfBody
  <2>1. UNCHANGED <<kind, wire, server, buf, chan, seen>>
    BY <1>9 DEF Model!EndOfBody, Model!Stay
  <2>2. /\ worker' \in Workers /\ worker'.at \in {"body", "send"} /\ data' = <<>>
        /\ worker'.at = "send" => worker'.event \in Model!Lines \cup {Model!L("error")}
    <3>1. CASE data = <<>>
      <4>1. worker' = Model!Sending(Model!L("done")) /\ data' = <<>>
        BY <1>9, <3>1 DEF Model!EndOfBody
      <4> QED
        BY <1>1, <4>1, NamesAre
    <3>2. CASE data # <<>>
      <4>1. worker' = Model!Payload(data) /\ data' = <<>>
        BY <1>9, <3>2 DEF Model!EndOfBody
      <4> QED
        BY <1>8, <3>2, <4>1
    <3> QED
      BY <3>1, <3>2
  <2>3. data' \in Seq(Model!Lines)
    BY <2>2
  <2> QED
    BY <1>3, <2>1, <2>2, <2>3 DEF CallTypes
<1>10. CASE Model!ReadEvent
  <2>1. worker.at = "body" /\ kind = "generate" /\ UNCHANGED <<chan, seen>>
    BY <1>10 DEF Model!ReadEvent, Model!Stay
  <2>2. PICK x \in Model!Lines :
            /\ Model!LineRead(x)
            /\ \/ UNCHANGED <<worker, data>>
               \/ data # <<>> /\ worker' = Model!Payload(data) /\ data' = <<>>
               \/ data' = Append(data, x) /\ UNCHANGED worker
    BY <1>10 DEF Model!ReadEvent
  <2>3. /\ worker' \in Workers /\ worker'.at \in {"body", "send"} /\ data' \in Seq(Model!Lines)
        /\ worker'.at = "send" => worker'.event \in Model!Lines \cup {Model!L("error")}
    <3>1. CASE UNCHANGED <<worker, data>>
      BY <1>2, <2>1, <3>1
    <3>2. CASE data # <<>> /\ worker' = Model!Payload(data) /\ data' = <<>>
      BY <1>8, <3>2
    <3>3. CASE data' = Append(data, x) /\ UNCHANGED worker
      BY <1>2, <2>1, <2>2, <3>3, AppendProperties
    <3> QED
      BY <2>2, <3>1, <3>2, <3>3
  <2> QED
    BY <1>6, <2>1, <2>2, <2>3
<1>11. CASE Model!ReadProgress \/ Model!ReadToEnd
  <2>1. worker.at = "body" /\ kind # "generate" /\ data = <<>> /\ UNCHANGED <<data, chan, seen>>
    BY <1>11 DEF Model!ReadProgress, Model!ReadToEnd, Model!Stay, CallTypes
  <2>2. PICK x \in Model!Lines :
            /\ Model!LineRead(x)
            /\ \/ worker' = worker
               \/ worker' = Model!Sending(Model!L("error"))
               \/ worker' = Model!Sending(x)
    BY <1>11 DEF Model!ReadProgress, Model!ReadToEnd
  <2>3. worker' \in Workers /\ (worker'.at = "send"
      => worker'.event \in Model!Lines \cup {Model!L("error")})
    BY <1>1, <1>2, <2>1, <2>2
  <2> QED
    BY <1>2, <1>6, <2>1, <2>2, <2>3
<1>12. CASE Model!Hand
  <2>1. /\ worker.at = "send" /\ UNCHANGED <<kind, wire, server, buf, data, seen>>
        /\ worker' = Model!At("over") \/ worker' = Model!At("body")
        /\ chan' = chan \/ chan' = Append(chan, worker.event)
    BY <1>12 DEF Model!Hand
  <2>2. worker' \in Workers /\ worker'.at \in {"over", "body"}
    BY <1>1, <2>1
  <2>3. chan' \in Seq(Model!Lines \cup {Model!L("error")})
    BY <2>1, ChannelKeeps DEF CallTypes
  <2> QED
    BY <2>1, <2>2, <2>3 DEF CallTypes, Workers
<1>13. CASE Model!HandBack
  <2>1. /\ worker.at = "send" /\ UNCHANGED <<kind, wire, server, buf, data, chan>>
        /\ worker' = Model!At("over") /\ seen' = Append(seen, worker.event)
    BY <1>13 DEF Model!HandBack
  <2>2. worker' \in Workers /\ worker'.at = "over"
    BY <1>1, <2>1
  <2>3. seen' \in Seq(Model!Lines \cup {Model!L("error")})
    BY <2>1, AppendProperties DEF CallTypes
  <2> QED
    BY <2>1, <2>2, <2>3 DEF CallTypes, Workers
<1>14. CASE Model!Pull
  <2>1. /\ UNCHANGED <<kind, wire, server, buf, worker, data>>
        /\ chan # <<>> /\ seen' = Append(seen, Head(chan)) /\ chan' = Tail(chan)
    BY <1>14 DEF Model!Pull
  <2>2. /\ chan' \in Seq(Model!Lines \cup {Model!L("error")})
        /\ seen' \in Seq(Model!Lines \cup {Model!L("error")})
    BY <2>1, ChannelKeeps
  <2> QED
    BY <2>1, <2>2 DEF CallTypes
<1>15. CASE Model!Cancel \/ Model!Drop
  BY <1>15 DEF Model!Cancel, Model!Drop, CallTypes
<1>16. CASE Model!Serve
  BY <1>16, Serves
<1> QED
  BY <1>4, <1>5, <1>7, <1>9, <1>10, <1>11, <1>12, <1>13, <1>14, <1>15, <1>16
     DEF Model!Next, Model!Work

\* The call without a channel hands its body, or an error, back once.
LEMMA HandsBackOnce ==
    ASSUME CallTypes, kind = "call", HandedBackOnce, Model!Next
    PROVE  HandedBackOnce'
<1>1. /\ \A spot \in {"status", "headers", "body", "over"} : Model!At(spot).at = spot
      /\ \A x : Model!Sending(x).at = "send" /\ Model!Sending(x).event = x
  BY DEF Model!At, Model!Sending
<1>2. chan = <<>> /\ data = <<>>
  BY DEF HandedBackOnce
\* A step that gives the caller nothing, and leaves the worker an event of the call's.
<1>3. ASSUME UNCHANGED <<chan, data, seen>>, worker' = worker \/ worker.at # "over",
             \/ worker' = worker \/ worker'.at # "send"
             \/ worker'.event \in {Model!L("done"), Model!L("error")}
      PROVE  HandedBackOnce'
  BY <1>3 DEF HandedBackOnce
<1>4. CASE Model!Connect
  <2>1. /\ worker.at = "connect" /\ UNCHANGED <<chan, data, seen>>
        /\ worker' = Model!At("status") \/ worker' = Model!Sending(Model!L("error"))
    BY <1>4 DEF Model!Connect, Model!Stay
  <2> QED
    BY <1>1, <1>3, <2>1
<1>5. CASE Model!Read \/ Model!ReadTimesOut \/ Model!ReadFails
  <2>1. /\ worker.at # "over" /\ UNCHANGED <<chan, data, seen>>
        /\ worker' = worker \/ worker' = Model!Sending(Model!L("error"))
    BY <1>5 DEF Model!Read, Model!ReadTimesOut, Model!ReadFails, Model!Reading, Model!Stay
  <2> QED
    BY <1>1, <1>3, <2>1
<1>6. CASE Model!ReadHead
  <2>1. /\ worker.at # "over" /\ UNCHANGED <<chan, data, seen>>
        /\ \/ worker' = worker \/ worker' = Model!Sending(Model!L("error"))
           \/ worker' = Model!At("headers") \/ worker' = Model!At("body")
    BY <1>6 DEF Model!ReadHead, Model!Stay
  <2> QED
    BY <1>1, <1>3, <2>1
<1>7. CASE Model!EndOfBody
  <2>1. /\ worker.at # "over" /\ UNCHANGED <<chan, data, seen>>
        /\ worker' = Model!Sending(Model!L("done"))
    BY <1>2, <1>7 DEF Model!EndOfBody, Model!Stay
  <2> QED
    BY <1>1, <1>3, <2>1
<1>8. CASE Model!ReadToEnd
  BY <1>3, <1>8 DEF Model!ReadToEnd, Model!Stay
<1>9. CASE Model!HandBack
  <2>1. /\ worker.at = "send" /\ UNCHANGED <<chan, data>>
        /\ worker' = Model!At("over") /\ seen' = Append(seen, worker.event)
    BY <1>9 DEF Model!HandBack
  <2>2. seen = <<>> /\ worker.event \in {Model!L("done"), Model!L("error")}
    BY <2>1 DEF HandedBackOnce
  <2>3. seen' = <<worker.event>>
    BY <2>1, <2>2
  <2> QED
    BY <1>1, <1>2, <2>1, <2>2, <2>3 DEF HandedBackOnce
<1>10. CASE Model!Pull
  BY <1>2, <1>10 DEF Model!Pull
<1>11. CASE Model!Cancel \/ Model!Drop
  BY <1>11 DEF Model!Cancel, Model!Drop
<1>12. CASE Model!Serve
  <2>1. UNCHANGED <<worker, chan, data, seen>>
    BY <1>12 DEF Model!Serve, Model!ServerAnswers, Model!ServerSendsToken, Model!ServerSendsOther,
                 Model!ServerEnds
  <2> QED
    BY <1>3, <2>1
<1>13. ~Model!ReadEvent /\ ~Model!ReadProgress /\ ~Model!Hand
  BY DEF Model!ReadEvent, Model!ReadProgress, Model!Hand
<1> QED
  BY <1>4, <1>5, <1>6, <1>7, <1>8, <1>9, <1>10, <1>11, <1>12, <1>13 DEF Model!Next, Model!Work

\* Every step of a call that streams keeps the stream whole.
LEMMA CallStaysWhole ==
    ASSUME CallTypes, kind # "call", StreamIsWhole, Model!Next
    PROVE  StreamIsWhole'
<1>1. CASE Model!ReadFails
  <2>1. /\ worker.at # "over" /\ UNCHANGED <<server, chan, seen>>
        /\ worker' = Model!Sending(Model!L("error"))
    BY <1>1 DEF Model!ReadFails, Model!Reading, Model!Stay
  <2> QED
    BY <2>1, EndsNext, NamesAre
<1>2. CASE Model!Pull \/ Model!Cancel \/ Model!Drop
  <2>1. UNCHANGED <<server, worker, data>> /\ Given' = Given
    BY <1>2, ChannelKeeps, GivenIs DEF Model!Pull, Model!Cancel, Model!Drop
  <2>2. Stream' = Stream
    BY <1>2 DEF Model!Pull, Model!Cancel, Model!Drop, Stream
  <2> QED
    BY <2>1, <2>2 DEF StreamIsWhole
<1>3. ~Model!ReadToEnd /\ ~Model!HandBack
  BY DEF Model!ReadToEnd, Model!HandBack
<1> QED
  BY <1>1, <1>2, <1>3, Connects, ReadsMore, ReadsHead, EndsBody, ReadsEvent, ReadsProgress, Hands,
     Serves DEF Model!Next, Model!Work

\* The invariant holds before the call is made,
LEMMA CallInit == Model!Init => CallIInv
<1> SUFFICES ASSUME Model!Init PROVE CallIInv
  OBVIOUS
<1>1. /\ wire = <<>> /\ buf = <<>> /\ data = <<>> /\ chan = <<>> /\ seen = <<>>
      /\ server = [end |-> "listening", sent |-> 0, other |-> 0]
      /\ worker = Model!At("connect") /\ worker.at = "connect" /\ worker.event = Model!L("none")
  BY DEF Model!Init, Model!At
<1>2. CallTypes
  BY <1>1, PartsAssumption DEF CallTypes, Model!At, Model!CallAssumption
<1>3. HandedBackOnce
  BY <1>1 DEF HandedBackOnce
<1>4. Stream = <<>> /\ Given = <<>>
  BY <1>1 DEF Stream, Given
<1>5. StreamIsWhole
  <2>1. PICK s : s = <<>> /\ Len(s) = 0
    BY EmptySeq
  <2>2. \A i \in 1..Len(s) : FALSE
    BY <2>1
  <2>3. \A k \in (0 + 1)..0 : FALSE
    OBVIOUS
  <2>4. Counts(s, 0, 0, "listening") /\ InLines(s)
    BY <2>2, <2>3 DEF Counts, InLines
  <2>5. Whole(s, 0, 0, "listening", "connect")
    BY <2>1, <2>4 DEF Whole, HeadFirst
  <2>6. EventsInOrder(s, worker, data, 0, "listening")
    BY <1>1, <2>2 DEF EventsInOrder
  <2>7. Passed(s, worker, data) = 0
    BY <1>1, <2>1 DEF Passed, Pending
  <2> QED
    BY <1>1, <1>4, <2>1, <2>5, <2>6, <2>7 DEF StreamIsWhole
<1> QED
  BY <1>2, <1>3, <1>5 DEF CallIInv

\* and every step of the call keeps it.
LEMMA CallNext == CallIInv /\ [Model!Next]_modelVars => CallIInv'
<1> SUFFICES ASSUME CallIInv, [Model!Next]_modelVars PROVE CallIInv'
  OBVIOUS
<1>1. CASE Model!Next
  <2>1. CallTypes'
    BY <1>1, CallKeepsTypes DEF CallIInv
  <2>2. kind' = kind
    <3>1. \A x : Model!LineRead(x) => kind' = kind
      BY DEF Model!LineRead
    <3> QED
      BY <1>1, <3>1 DEF Model!Next, Model!Work, Model!Serve, Model!Connect, Model!Read,
          Model!ReadTimesOut,
         Model!ReadHead, Model!ReadFails, Model!EndOfBody, Model!ReadEvent, Model!ReadProgress,
         Model!ReadToEnd, Model!Hand, Model!HandBack, Model!ServerAnswers, Model!ServerSendsToken,
         Model!ServerSendsOther, Model!ServerEnds, Model!Pull, Model!Cancel, Model!Drop
  <2> QED
    BY <1>1, <2>1, <2>2, HandsBackOnce, CallStaysWhole DEF CallIInv
<1>2. CASE UNCHANGED modelVars
  <2>1. /\ UNCHANGED <<kind, wire, buf, server, worker, data, chan, seen>>
        /\ Stream' = Stream /\ Given' = Given
    BY <1>2 DEF modelVars, Stream, Given
  <2>2. CallTypes' /\ (HandedBackOnce => HandedBackOnce') /\ (StreamIsWhole => StreamIsWhole')
    BY <2>1 DEF CallIInv, CallTypes, HandedBackOnce, StreamIsWhole
  <2> QED
    BY <2>1, <2>2 DEF CallIInv
<1> QED
  BY <1>1, <1>2

\* What the invariant says of the caller.
LEMMA WholeIsSent == CallIInv => Model!SeenIsSent
<1> SUFFICES ASSUME CallIInv PROVE Model!SeenIsSent
  OBVIOUS
<1>1. CASE kind = "call"
  <2>1. seen = <<>> \/ seen = <<Model!L("done")>> \/ seen = <<Model!L("error")>>
    BY <1>1 DEF CallIInv, HandedBackOnce
  <2>2. \A i \in DOMAIN seen : Model!Terminal(seen[i]) /\ i = Len(seen)
    <3>1. \A i \in 1..1 : i = 1
      OBVIOUS
    <3>2. Model!Terminal(Model!L("done")) /\ Model!Terminal(Model!L("error"))
      BY NamesAre DEF Model!Terminal
    <3>3. ASSUME NEW x, seen = <<x>>, Model!Terminal(x)
          PROVE  \A i \in DOMAIN seen : Model!Terminal(seen[i]) /\ i = Len(seen)
      <4>1. DOMAIN <<x>> = 1..1 /\ <<x>>[1] = x /\ Len(<<x>>) = 1
        OBVIOUS
      <4> QED
        BY <3>1, <3>3, <4>1
    <3>4. ASSUME seen = <<>> PROVE \A i \in DOMAIN seen : FALSE
      BY <3>4
    <3> QED
      BY <2>1, <3>2, <3>3, <3>4
  <2> QED
    BY <1>1, <2>2 DEF Model!SeenIsSent
<1>2. CASE kind # "call"
  <2>1. PICK a \in Seq(Model!Lines \cup {Model!L("error")}),
      b \in Seq(Model!Lines \cup {Model!L("error")}) :
            a = seen /\ b = chan
    BY DEF CallIInv, CallTypes
  <2>2. PICK g : g = Given /\ g = a \o b
    BY <2>1 DEF Given
  <2>3. PICK n \in Nat, m \in Nat : n = Len(a) /\ m = Len(b)
    BY <2>1
  <2>4. Len(g) = n + m /\ \A i \in 1..n : i \in 1..Len(g) /\ g[i] = a[i]
    BY <2>2, <2>3, Joined
  <2>5. \A i \in 1..Len(g) :
            \/ g[i] = Model!T(i)
            \/ /\ Model!Terminal(g[i]) /\ i = Len(g)
               /\ g[i] = Model!L("done") => server.sent = i - 1
    BY <1>2, <2>2 DEF CallIInv, StreamIsWhole, EventsInOrder
  <2>6. ASSUME NEW i \in 1..n PROVE a[i] = Model!T(i) \/ (Model!Terminal(a[i]) /\ i = n)
    <3>1. i \in 1..Len(g) /\ g[i] = a[i]
      BY <2>4
    <3>2. i = Len(g) => i = n
      BY <2>3, <2>4
    <3> QED
      BY <2>5, <3>1, <3>2
  <2>7. DOMAIN a = 1..n
    BY <2>3
  <2>8. ASSUME a # <<>>, a[n] = Model!L("done") PROVE n - 1 = server.sent
    <3>1. n \in 1..n
      BY <2>3, <2>8, EmptySeq
    <3>2. n \in 1..Len(g) /\ g[n] = Model!L("done")
      BY <2>4, <2>8, <3>1
    <3>3. Model!L("done") # Model!T(n)
      BY DEF Model!L, Model!T
    <3> QED
      BY <2>5, <3>2, <3>3
  <2>9. Model!Last(a) = a[n]
    BY <2>3 DEF Model!Last
  <2> QED
    BY <2>1, <2>3, <2>6, <2>7, <2>8, <2>9 DEF Model!SeenIsSent
<1> QED
  BY <1>1, <1>2

\* The call of the model server gives its caller what was sent, whole and in order, for any
\* number of tokens and other lines and any capacity of the channel, however reads cut the
\* lines and whenever the server, the caller or a cancellation ends it.
THEOREM CallersSeeWhatWasSent == MCSpec => []SeenIsSent
<1>1. MCInit => CallIInv
  BY CallInit DEF MCInit
<1>2. CallIInv /\ [MCNext]_<<part, vars, modelVars>> => CallIInv'
  <2>1. [MCNext]_<<part, vars, modelVars>> => [Model!Next]_modelVars
    BY DEF MCNext, OfTurns, OfModel, modelVars
  <2> QED
    BY <2>1, CallNext
<1>3. CallIInv => SeenIsSent
  BY WholeIsSent DEF SeenIsSent
<1> QED
  BY <1>1, <1>2, <1>3, PTL DEF MCSpec
=============================================================================
