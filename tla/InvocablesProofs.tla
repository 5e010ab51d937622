-------------------------- MODULE InvocablesProofs -------------------------
(***************************************************************************)
(* The dispatcher's journal, for any number of concurrent calls and of     *)
(* threads.  The journal and the calls do not see each other: they are     *)
(* tied by the dispatch ids, which no two calls share (TicketsAreTheirOwn),*)
(* by where each call is when its records are there (RecordsFollowCalls),  *)
(* and by what its handler can be doing at each place (HandlersFollowCalls)*)
(* The second part is the registry, in the composition the runs check.     *)
(***************************************************************************)
EXTENDS MCInvocables, SequenceTheorems, TLAPS

TypeOK ==
    /\ place \in [Calls -> Places]
    /\ call \in [Calls -> Kinds]
    /\ seq \in Nat
    /\ ticket \in [Calls -> Nat]
    /\ journaled \in BOOLEAN
    /\ journal \in Seq([kind: {"Enter", "Settle"}, id: Nat])
    /\ handler \in [Calls -> {"none", "running", "returned", "panicked"}]
    /\ answer \in [Calls -> Answers]

\* The call has drawn its dispatch id.
Taken(c) == call[c].kind # "unknown" /\ place[c] # "resolving"

TicketsAreTheirOwn ==
    \A c \in Calls :
        /\ place[c] = "entering" => Taken(c)
        /\ Taken(c) =>
              /\ ticket[c] < seq
              /\ \A d \in Calls : Taken(d) /\ ticket[d] = ticket[c] => d = c

\* Where there is a journal, the record is in it.
Recorded(r) == journaled => \E i \in DOMAIN journal : journal[i] = r

\* A record is of a call that has come to the point of writing it; a call that
\* has gone on from its entry has the record of it.
RecordsFollowCalls ==
    /\ \A i \in DOMAIN journal : \E c \in Calls :
          /\ Taken(c) /\ journal[i].id = ticket[c]
          /\ place[c] # "entering"
          /\ journal[i].kind = "Settle" => place[c] = "done"
    /\ \A c \in Calls :
          place[c] \in {"binding", "running", "waiting", "settling", "panicked"} =>
              Taken(c) /\ Recorded(Record("Enter", ticket[c]))

\* Records are written once, an entry before its settlement.
RecordsPair ==
    \A i \in DOMAIN journal :
        /\ \A j \in DOMAIN journal : journal[i] = journal[j] => i = j
        /\ journal[i].kind = "Settle" =>
              \E j \in 1 .. i - 1 : journal[j] = Record("Enter", journal[i].id)

\* A handler has run for an entered call only, and what the caller has been
\* told by then is what its place allows.
HandlersFollowCalls ==
    \A c \in Calls :
        /\ place[c] = "running" => call[c].kind = "core"
        /\ place[c] = "waiting" => call[c].kind = "contribution"
        /\ place[c] \in {"resolving", "entering", "binding"} => handler[c] = "none"
        /\ place[c] \in {"resolving", "entering", "binding", "running", "waiting"} =>
              answer[c] = "none"
        /\ handler[c] # "none" =>
              /\ Taken(c) /\ Recorded(Record("Enter", ticket[c]))
              /\ answer[c] \notin {"unknown", "unrecorded", "rejected", "unattached"}
        /\ handler[c] = "running" /\ call[c].kind = "core" => place[c] = "running"
        /\ handler[c] = "running" /\ place[c] \in {"settling", "done"} =>
              answer[c] = "overran"

IInv ==
    /\ TypeOK
    /\ TicketsAreTheirOwn
    /\ RecordsFollowCalls
    /\ RecordsPair
    /\ HandlersFollowCalls

-----------------------------------------------------------------------------
\* What a record more makes of a journal: the old ones stay where they are.
LEMMA AfterAppend ==
    ASSUME NEW S, NEW s \in Seq(S), NEW r \in S
    PROVE  /\ Append(s, r) \in Seq(S)
           /\ DOMAIN Append(s, r) = DOMAIN s \cup {Len(s) + 1}
           /\ DOMAIN s = 1 .. Len(s)
           /\ Len(s) \in Nat
           /\ \A i \in DOMAIN s : Append(s, r)[i] = s[i]
           /\ Append(s, r)[Len(s) + 1] = r
  OBVIOUS

\* Nothing has been called, and the journal is empty.
LEMMA InitIInv == Init => IInv
BY DEF Init, IInv, TypeOK, Places, Answers, TicketsAreTheirOwn, Taken, RecordsFollowCalls,
    RecordsPair, HandlersFollowCalls

\* Types are kept by every step.
LEMMA NextType ==
    ASSUME TypeOK, [Next]_vars
    PROVE  TypeOK'
<1> USE DEF TypeOK, Step, Answered, Places, Answers
<1>0. ASSUME NEW c \in Calls, NEW kind \in {"Enter", "Settle"},
             Write(Record(kind, ticket[c])) \/ UNCHANGED journal
      PROVE  journal' \in Seq([kind: {"Enter", "Settle"}, id: Nat])
    <2>1. Record(kind, ticket[c]) \in [kind: {"Enter", "Settle"}, id: Nat]
        BY DEF Record
    <2>2. Append(journal, Record(kind, ticket[c])) \in Seq([kind: {"Enter", "Settle"}, id: Nat])
        BY ONLY TypeOK, <2>1, AfterAppend DEF TypeOK
    <2>3. \/ journal' = Append(journal, Record(kind, ticket[c]))
          \/ journal' = journal
        BY <1>0 DEF Write
    <2> QED BY <2>2, <2>3
<1>1. ASSUME NEW c \in Calls, ResolveUnknown(c) PROVE TypeOK'
    BY <1>1 DEF ResolveUnknown
<1>2. ASSUME NEW c \in Calls, Resolve(c) PROVE TypeOK'
    BY <1>2 DEF Resolve, NextDispatchId
<1>3. ASSUME NEW c \in Calls, Enter(c) PROVE TypeOK'
    <2>1. journal' \in Seq([kind: {"Enter", "Settle"}, id: Nat])
        BY <1>0, <1>3 DEF Enter
    <2> QED BY <1>3, <2>1 DEF Enter
<1>4. ASSUME NEW c \in Calls, EnterFails(c) PROVE TypeOK'
    BY <1>4 DEF EnterFails
<1>5. ASSUME NEW c \in Calls, Bind(c) PROVE TypeOK'
    BY <1>5 DEF Bind
<1>6. ASSUME NEW c \in Calls, RunCore(c) PROVE TypeOK'
    BY <1>6 DEF RunCore
<1>7. ASSUME NEW c \in Calls, RunContribution(c) PROVE TypeOK'
    BY <1>7 DEF RunContribution
<1>8. ASSUME NEW c \in Calls, SpawnPanics(c) PROVE TypeOK'
    BY <1>8 DEF SpawnPanics
<1>9. ASSUME NEW c \in Calls, HandlerEnds(c) PROVE TypeOK'
    BY <1>9, ZenonT(60) DEF HandlerEnds
<1>10. ASSUME NEW c \in Calls, Receive(c) PROVE TypeOK'
    BY <1>10 DEF Receive
<1>11. ASSUME NEW c \in Calls, TimeOut(c) PROVE TypeOK'
    BY <1>11 DEF TimeOut
<1>12. ASSUME NEW c \in Calls, Settle(c) PROVE TypeOK'
    <2>1. journal' \in Seq([kind: {"Enter", "Settle"}, id: Nat])
        BY <1>0, <1>12 DEF Settle
    <2> QED BY <1>12, <2>1 DEF Settle
<1>13. CASE UNCHANGED vars
    BY <1>13 DEF vars
<1> QED
    BY <1>1, <1>2, <1>3, <1>4, <1>5, <1>6, <1>7, <1>8, <1>9, <1>10, <1>11, <1>12, <1>13
    DEF Next, CallStep

\* A dispatch id is drawn once: only Resolve changes one, and takes a new one.
LEMMA NextTickets ==
    ASSUME IInv, [Next]_vars
    PROVE  TicketsAreTheirOwn'
<1> USE DEF IInv, TypeOK, TicketsAreTheirOwn, Taken, Step
<1>1. ASSUME NEW c \in Calls, Resolve(c) PROVE TicketsAreTheirOwn'
    BY <1>1 DEF Resolve, NextDispatchId
<1>2. ASSUME NEW c \in Calls, ResolveUnknown(c) PROVE TicketsAreTheirOwn'
    BY <1>2 DEF ResolveUnknown
<1>3. ASSUME UNCHANGED <<call, seq, ticket>>,
             \A d \in Calls : \/ place'[d] = place[d]
                             \/ /\ place[d] # "resolving"
                                /\ place'[d] \notin {"entering", "resolving"}
      PROVE  TicketsAreTheirOwn'
    BY <1>3
<1>4. ASSUME NEW c \in Calls,
             Enter(c) \/ EnterFails(c) \/ Bind(c) \/ RunCore(c) \/ RunContribution(c)
             \/ SpawnPanics(c) \/ Receive(c) \/ TimeOut(c) \/ Settle(c) \/ HandlerEnds(c)
      PROVE  TicketsAreTheirOwn'
    BY <1>3, <1>4 DEF Enter, EnterFails, Bind, RunCore, RunContribution, SpawnPanics, Receive,
        TimeOut, Settle, HandlerEnds
<1>5. CASE UNCHANGED vars
    BY <1>5 DEF vars
<1> QED
    BY <1>1, <1>2, <1>4, <1>5 DEF Next, CallStep

\* The journal is left as it was, and no call goes where it needs a record that
\* it lacks or must lack one that it has; without a journal none is needed.
LEMMA KeepingTheJournal ==
    ASSUME IInv, UNCHANGED <<journaled, journal>>,
           \A d \in Calls : Taken(d) =>
               Taken(d)' /\ ticket'[d] = ticket[d]
               /\ (place'[d] = place[d] \/ (place[d] # "done" /\ place'[d] # "entering")),
           \A d \in Calls :
               place'[d] \in {"binding", "running", "waiting", "settling", "panicked"} =>
               \/ place[d] \in {"binding", "running", "waiting", "settling", "panicked"}
               \/ ~journaled /\ Taken(d)
    PROVE  RecordsFollowCalls' /\ RecordsPair'
<1>1. RecordsPair'
    BY DEF IInv, RecordsPair
<1>2. ASSUME NEW i \in DOMAIN journal
      PROVE  \E c \in Calls :
                /\ Taken(c)' /\ journal[i].id = ticket'[c]
                /\ place'[c] # "entering"
                /\ journal[i].kind = "Settle" => place'[c] = "done"
    <2>1. PICK c \in Calls : /\ Taken(c) /\ journal[i].id = ticket[c]
                             /\ place[c] # "entering"
                             /\ journal[i].kind = "Settle" => place[c] = "done"
        BY DEF IInv, RecordsFollowCalls
    <2> QED BY <2>1
<1>3. ASSUME NEW c \in Calls,
             place'[c] \in {"binding", "running", "waiting", "settling", "panicked"}
      PROVE  (Taken(c) /\ Recorded(Record("Enter", ticket[c])))'
    BY <1>3 DEF IInv, RecordsFollowCalls, Recorded, Record
<1> QED BY <1>1, <1>2, <1>3 DEF RecordsFollowCalls

\* Without a journal a call goes on from its entry with nothing recorded.
LEMMA EnterUnrecorded ==
    ASSUME IInv, NEW c \in Calls, Enter(c), ~journaled
    PROVE  RecordsFollowCalls' /\ RecordsPair'
<1>1. /\ place[c] = "entering" /\ place' = [place EXCEPT ![c] = "binding"]
      /\ UNCHANGED <<call, journaled, journal, ticket>>
    BY DEF Enter, Step, Write
<1>2. Taken(c)
    BY <1>1 DEF IInv, TicketsAreTheirOwn
<1>3. \A d \in Calls : Taken(d) => Taken(d)'
    BY <1>1 DEF Taken, IInv, TypeOK
<1> QED BY <1>1, <1>2, <1>3, KeepingTheJournal DEF IInv, TypeOK

\* The entry is the first record with its dispatch id.
LEMMA EnterRecords ==
    ASSUME IInv, NEW c \in Calls, Enter(c), journaled
    PROVE  RecordsFollowCalls' /\ RecordsPair'
<1> DEFINE n == Len(journal) + 1
           r == Record("Enter", ticket[c])
<1>1. r \in [kind: {"Enter", "Settle"}, id: Nat]
    BY DEF IInv, TypeOK, Record
<1>2. /\ journal' = Append(journal, r)
      /\ DOMAIN journal' = DOMAIN journal \cup {n}
      /\ DOMAIN journal = 1 .. Len(journal)
      /\ Len(journal) \in Nat
      /\ \A i \in DOMAIN journal : journal'[i] = journal[i]
      /\ journal'[n] = r
    BY <1>1, AfterAppend DEF IInv, TypeOK, Enter, Write
<1>3. /\ place[c] = "entering" /\ place' = [place EXCEPT ![c] = "binding"]
      /\ UNCHANGED <<call, journaled, ticket>>
    BY DEF Enter, Step
<1>4. Taken(c)
    BY <1>3 DEF IInv, TicketsAreTheirOwn
<1>5. \A d \in Calls : (Taken(d) => Taken(d)') /\ (d # c => place'[d] = place[d])
    BY <1>3 DEF Taken, IInv, TypeOK
<1>6. place'[c] = "binding" /\ Taken(c)'
    BY <1>3, <1>4, <1>5 DEF IInv, TypeOK
<1>7. ASSUME NEW i \in DOMAIN journal PROVE journal[i].id # ticket[c]
    BY <1>3, <1>4, <1>7 DEF IInv, RecordsFollowCalls, TicketsAreTheirOwn
<1>8. RecordsPair'
    <2>1. r.id = ticket[c] /\ r.kind = "Enter"
        BY DEF Record
    <2>2. ASSUME NEW i \in DOMAIN journal', NEW j \in DOMAIN journal', journal'[i] = journal'[j]
          PROVE  i = j
        BY <1>2, <1>7, <2>1, <2>2 DEF IInv, RecordsPair
    <2>3. ASSUME NEW i \in DOMAIN journal', journal'[i].kind = "Settle"
          PROVE  \E j \in 1 .. i - 1 : journal'[j] = Record("Enter", journal'[i].id)
        <3>1. i \in DOMAIN journal
            BY <1>2, <2>1, <2>3
        <3>2. PICK j \in 1 .. i - 1 : journal[j] = Record("Enter", journal[i].id)
            BY <1>2, <2>3, <3>1 DEF IInv, RecordsPair
        <3>3. j \in DOMAIN journal
            BY <1>2, <3>1
        <3> QED BY <1>2, <3>1, <3>2, <3>3
    <2> QED BY <2>2, <2>3 DEF RecordsPair
<1>9. ASSUME NEW i \in DOMAIN journal'
      PROVE  \E d \in Calls :
                /\ Taken(d)' /\ journal'[i].id = ticket'[d]
                /\ place'[d] # "entering"
                /\ journal'[i].kind = "Settle" => place'[d] = "done"
    <2>1. CASE i = n
        BY <1>2, <1>3, <1>6, <2>1 DEF Record
    <2>2. CASE i \in DOMAIN journal
        <3>1. PICK d \in Calls : /\ Taken(d) /\ journal[i].id = ticket[d]
                                 /\ place[d] # "entering"
                                 /\ journal[i].kind = "Settle" => place[d] = "done"
            BY <2>2 DEF IInv, RecordsFollowCalls
        <3> QED BY <1>2, <1>3, <1>5, <2>2, <3>1
    <2> QED BY <1>2, <2>1, <2>2
<1>10. ASSUME NEW d \in Calls,
              place'[d] \in {"binding", "running", "waiting", "settling", "panicked"}
       PROVE  (Taken(d) /\ Recorded(Record("Enter", ticket[d])))'
    <2>1. CASE d = c
        BY <1>2, <1>3, <1>6, <2>1 DEF Recorded
    <2>2. CASE d # c
        <3>1. Taken(d) /\ Recorded(Record("Enter", ticket[d]))
            BY <1>5, <1>10, <2>2 DEF IInv, RecordsFollowCalls
        <3> QED BY <1>2, <1>3, <1>5, <3>1 DEF Recorded
    <2> QED BY <2>1, <2>2
<1> QED BY <1>8, <1>9, <1>10 DEF RecordsFollowCalls

\* The settlement is the only one of its call, after the entry.
LEMMA SettleRecords ==
    ASSUME IInv, NEW c \in Calls, Settle(c), journaled,
           journal' = Append(journal, Record("Settle", ticket[c]))
    PROVE  RecordsFollowCalls' /\ RecordsPair'
<1> DEFINE n == Len(journal) + 1
           r == Record("Settle", ticket[c])
<1>1. r \in [kind: {"Enter", "Settle"}, id: Nat]
    BY DEF IInv, TypeOK, Record
<1>2. /\ DOMAIN journal' = DOMAIN journal \cup {n}
      /\ DOMAIN journal = 1 .. Len(journal)
      /\ Len(journal) \in Nat
      /\ \A i \in DOMAIN journal : journal'[i] = journal[i]
      /\ journal'[n] = r
    BY <1>1, AfterAppend DEF IInv, TypeOK
<1>3. /\ place[c] = "settling" /\ place' = [place EXCEPT ![c] = "done"]
      /\ UNCHANGED <<call, journaled, ticket>>
    BY DEF Settle, Step
<1>4. Taken(c) /\ Recorded(Record("Enter", ticket[c]))
    BY <1>3 DEF IInv, RecordsFollowCalls
<1>5. \A d \in Calls : (Taken(d) => Taken(d)') /\ (d # c => place'[d] = place[d])
    BY <1>3 DEF Taken, IInv, TypeOK
<1>6. place'[c] = "done" /\ Taken(c)'
    BY <1>3, <1>4, <1>5 DEF IInv, TypeOK
<1>7. ASSUME NEW i \in DOMAIN journal PROVE ~(journal[i].kind = "Settle" /\ journal[i].id = ticket[c])
    BY <1>3, <1>4, <1>7 DEF IInv, RecordsFollowCalls, TicketsAreTheirOwn
<1>8. RecordsPair'
    <2>1. r.id = ticket[c] /\ r.kind = "Settle"
        BY DEF Record
    <2>2. ASSUME NEW i \in DOMAIN journal', NEW j \in DOMAIN journal', journal'[i] = journal'[j]
          PROVE  i = j
        BY <1>2, <1>7, <2>1, <2>2 DEF IInv, RecordsPair
    <2>3. ASSUME NEW i \in DOMAIN journal', journal'[i].kind = "Settle"
          PROVE  \E j \in 1 .. i - 1 : journal'[j] = Record("Enter", journal'[i].id)
        <3>1. CASE i = n
            <4>1. PICK j \in DOMAIN journal : journal[j] = Record("Enter", ticket[c])
                BY <1>4 DEF Recorded
            <4>2. j \in 1 .. i - 1
                BY <1>2, <3>1
            <4> QED BY <1>2, <2>1, <3>1, <4>1, <4>2
        <3>2. CASE i \in DOMAIN journal
            <4>1. PICK j \in 1 .. i - 1 : journal[j] = Record("Enter", journal[i].id)
                BY <1>2, <2>3, <3>2 DEF IInv, RecordsPair
            <4>2. j \in DOMAIN journal
                BY <1>2, <3>2
            <4> QED BY <1>2, <3>2, <4>1, <4>2
        <3> QED BY <1>2, <3>1, <3>2
    <2> QED BY <2>2, <2>3 DEF RecordsPair
<1>9. ASSUME NEW i \in DOMAIN journal'
      PROVE  \E d \in Calls :
                /\ Taken(d)' /\ journal'[i].id = ticket'[d]
                /\ place'[d] # "entering"
                /\ journal'[i].kind = "Settle" => place'[d] = "done"
    <2>1. CASE i = n
        BY <1>2, <1>3, <1>6, <2>1 DEF Record
    <2>2. CASE i \in DOMAIN journal
        <3>1. PICK d \in Calls : /\ Taken(d) /\ journal[i].id = ticket[d]
                                 /\ place[d] # "entering"
                                 /\ journal[i].kind = "Settle" => place[d] = "done"
            BY <2>2 DEF IInv, RecordsFollowCalls
        <3> QED BY <1>2, <1>3, <1>5, <1>6, <2>2, <3>1
    <2> QED BY <1>2, <2>1, <2>2
<1>10. ASSUME NEW d \in Calls,
              place'[d] \in {"binding", "running", "waiting", "settling", "panicked"}
       PROVE  (Taken(d) /\ Recorded(Record("Enter", ticket[d])))'
    <2>1. d # c
        BY <1>6, <1>10
    <2>2. Taken(d) /\ Recorded(Record("Enter", ticket[d]))
        BY <1>5, <1>10, <2>1 DEF IInv, RecordsFollowCalls
    <2> QED BY <1>2, <1>3, <1>5, <2>2 DEF Recorded
<1> QED BY <1>8, <1>9, <1>10 DEF RecordsFollowCalls

\* Records stay true and in pairs.
LEMMA NextRecords ==
    ASSUME IInv, [Next]_vars
    PROVE  RecordsFollowCalls' /\ RecordsPair'
<1> DEFINE Held == RecordsFollowCalls' /\ RecordsPair'
<1> USE DEF Step, Answered, IInv, TypeOK
<1>1. ASSUME NEW c \in Calls, ResolveUnknown(c) PROVE Held
    <2>1. ~Taken(c) /\ ~Taken(c)' /\ \A d \in Calls \ {c} : Taken(d) => Taken(d)'
        BY <1>1 DEF ResolveUnknown, Taken
    <2> QED BY <1>1, <2>1, KeepingTheJournal DEF ResolveUnknown
<1>2. ASSUME NEW c \in Calls, Resolve(c) PROVE Held
    <2>1. ~Taken(c) /\ \A d \in Calls : Taken(d) => Taken(d)'
        BY <1>2 DEF Resolve, Taken
    <2> QED BY <1>2, <2>1, KeepingTheJournal DEF Resolve, NextDispatchId
<1>3. ASSUME NEW c \in Calls, Enter(c) PROVE Held
    BY <1>3, EnterRecords, EnterUnrecorded
<1>4. ASSUME NEW c \in Calls, EnterFails(c) PROVE Held
    <2>1. \A d \in Calls : Taken(d) => Taken(d)'
        BY <1>4 DEF EnterFails, Taken
    <2> QED BY <1>4, <2>1, KeepingTheJournal DEF EnterFails
<1>5. ASSUME NEW c \in Calls,
             Bind(c) \/ RunCore(c) \/ RunContribution(c) \/ SpawnPanics(c) \/ Receive(c)
             \/ TimeOut(c) \/ HandlerEnds(c)
      PROVE  Held
    <2>1. /\ UNCHANGED <<journaled, journal, call, ticket>>
          /\ \/ place' = place
             \/ /\ place[c] \in {"binding", "waiting", "running"}
                /\ \E to \in {"settling", "running", "waiting", "panicked"} :
                      place' = [place EXCEPT ![c] = to]
        BY <1>5 DEF Bind, RunCore, RunContribution, SpawnPanics, Receive, TimeOut, HandlerEnds
    <2>2. \A d \in Calls : Taken(d) => Taken(d)'
        BY <2>1 DEF Taken
    <2> QED BY <2>1, <2>2, KeepingTheJournal
<1>6. ASSUME NEW c \in Calls, Settle(c) PROVE Held
    <2>1. \A d \in Calls : Taken(d) => Taken(d)'
        BY <1>6 DEF Settle, Taken
    <2>2. CASE UNCHANGED journal
        BY <1>6, <2>1, <2>2, KeepingTheJournal DEF Settle
    <2> QED BY <1>6, <2>2, SettleRecords DEF Settle, Write
<1>7. CASE UNCHANGED vars
    BY <1>7 DEF vars, RecordsFollowCalls, RecordsPair, Recorded, Taken
<1> QED
    BY <1>1, <1>2, <1>3, <1>4, <1>5, <1>6, <1>7 DEF Next, CallStep

\* A record that is written stays.
LEMMA RecordsStay ==
    ASSUME IInv, [Next]_vars, NEW r
    PROVE  Recorded(r) => Recorded(r)'
<1>0. UNCHANGED journaled
    BY DEF Next, CallStep, vars, ResolveUnknown, Resolve, Enter, EnterFails, Bind,
        RunCore, RunContribution, SpawnPanics, HandlerEnds, Receive, TimeOut, Settle
<1>1. ASSUME NEW c \in Calls, NEW kind \in {"Enter", "Settle"},
             journal' = Append(journal, Record(kind, ticket[c]))
      PROVE  Recorded(r) => Recorded(r)'
    <2>1. Record(kind, ticket[c]) \in [kind: {"Enter", "Settle"}, id: Nat]
        BY DEF IInv, TypeOK, Record
    <2> QED BY <1>0, <1>1, <2>1, AfterAppend DEF IInv, TypeOK, Recorded
<1>2. CASE UNCHANGED journal
    BY <1>0, <1>2 DEF Recorded
<1> QED
    BY <1>1, <1>2 DEF Write, Next, CallStep, vars, ResolveUnknown, Resolve, Enter, EnterFails, Bind,
        RunCore, RunContribution, SpawnPanics, HandlerEnds, Receive, TimeOut, Settle

\* A handler is started for an entered call, and the caller who goes on without
\* it is told so.
LEMMA NextHandlers ==
    ASSUME IInv, [Next]_vars
    PROVE  HandlersFollowCalls'
<1> USE DEF IInv, TypeOK, HandlersFollowCalls, Step, Answered, Taken, Runs, Places, Kinds
<1>0. \A r : Recorded(r) => Recorded(r)'
    BY RecordsStay
<1>1. ASSUME NEW c \in Calls, ResolveUnknown(c) PROVE HandlersFollowCalls'
    BY <1>0, <1>1 DEF ResolveUnknown
<1>2. ASSUME NEW c \in Calls, Resolve(c) PROVE HandlersFollowCalls'
    BY <1>0, <1>2 DEF Resolve, NextDispatchId
<1>3. ASSUME NEW c \in Calls, Enter(c) PROVE HandlersFollowCalls'
    BY <1>0, <1>3 DEF Enter
<1>4. ASSUME NEW c \in Calls, EnterFails(c) PROVE HandlersFollowCalls'
    BY <1>0, <1>4 DEF EnterFails
<1>5. ASSUME NEW c \in Calls, Bind(c) PROVE HandlersFollowCalls'
    BY <1>0, <1>5 DEF Bind
<1>6. ASSUME NEW c \in Calls, RunCore(c) PROVE HandlersFollowCalls'
    BY <1>0, <1>6 DEF RunCore, RecordsFollowCalls
<1>7. ASSUME NEW c \in Calls, RunContribution(c) PROVE HandlersFollowCalls'
    BY <1>0, <1>7 DEF RunContribution, RecordsFollowCalls
<1>8. ASSUME NEW c \in Calls, SpawnPanics(c) PROVE HandlersFollowCalls'
    BY <1>0, <1>8 DEF SpawnPanics
<1>9. ASSUME NEW c \in Calls, HandlerEnds(c) PROVE HandlersFollowCalls'
    BY <1>0, <1>9 DEF HandlerEnds
<1>10. ASSUME NEW c \in Calls, Receive(c) PROVE HandlersFollowCalls'
    BY <1>0, <1>10 DEF Receive
<1>11. ASSUME NEW c \in Calls, TimeOut(c) PROVE HandlersFollowCalls'
    BY <1>0, <1>11 DEF TimeOut
<1>12. ASSUME NEW c \in Calls, Settle(c) PROVE HandlersFollowCalls'
    BY <1>0, <1>12 DEF Settle
<1>13. CASE UNCHANGED vars
    BY <1>13 DEF vars, Recorded
<1> QED
    BY <1>1, <1>2, <1>3, <1>4, <1>5, <1>6, <1>7, <1>8, <1>9, <1>10, <1>11, <1>12, <1>13
    DEF Next, CallStep

-----------------------------------------------------------------------------
\* The dispatcher's inductive invariant: ids, records, places and handlers agree
\* after any sequence of steps of any calls.
THEOREM DispatchInvariant == Spec => []IInv
<1>1. Init => IInv
    BY InitIInv
<1>2. IInv /\ [Next]_vars => IInv'
    BY NextType, NextTickets, NextRecords, NextHandlers DEF IInv
<1> QED BY <1>1, <1>2, PTL DEF Spec

\* The journal tells of every run: no record is written twice, a settlement
\* follows its entry, no handler runs unrecorded, a refused caller's call did not
\* run, and one whose handler outlives the call was told that it overran.
THEOREM RunsRecorded == Spec => []RunsAreRecorded
<1>1. IInv => RunsAreRecorded
    BY DEF IInv, RecordsPair, HandlersFollowCalls, Recorded, RunsAreRecorded
<1> QED BY <1>1, DispatchInvariant, PTL

\* Every call and every record is well formed in every reachable state.
THEOREM DispatchTypes == Spec => []TypeOK
<1>1. IInv => TypeOK
    BY DEF IInv
<1> QED BY <1>1, DispatchInvariant, PTL

-----------------------------------------------------------------------------
(* The registry, for any identities, origins, names and handlers.          *)

\* Its variables, as far as the catalog is made of them.
CatalogTypes ==
    /\ byId \subseteq [id: Registry!Ids, by: Sources]
    /\ bare \in [Tails -> Seq(Registry!Ids)]
    /\ sources \in [Identities -> Sources \cup {None}]
    /\ handlers \in [Registry!Ids -> Behaviours \cup {None}]
    /\ attached \subseteq Registry!Ids \X Behaviours

\* The claimants of a tail are the registered ids that end in it, each once.
ClaimsAreRegistered ==
    \A t \in Tails :
        /\ Registry!Range(bare[t]) = {id \in Registry!Registered : id.tail = t}
        /\ Registry!IsInjective(bare[t])

\* An identity that has registered anything is its origin's, the core's from the start.
OriginsStay ==
    /\ sources[Core] = CoreSource
    /\ \A r \in byId : r.by = sources[r.id.qualifier]

\* What is attached was attached through a handle that is not spent.
HandlersHaveHandles ==
    \A id \in Registry!Ids : handlers[id] # None => <<id, handlers[id]>> \in attached

RegistryInv ==
    CatalogTypes /\ ClaimsAreRegistered /\ OriginsStay /\ HandlersHaveHandles

\* One claimant more.
LEMMA ClaimAdded ==
    ASSUME NEW S, NEW s \in Seq(S), NEW e \in S, e \notin Registry!Range(s),
           Registry!IsInjective(s)
    PROVE  /\ Append(s, e) \in Seq(S)
           /\ Registry!Range(Append(s, e)) = Registry!Range(s) \cup {e}
           /\ Registry!IsInjective(Append(s, e))
<1> DEFINE n == Len(s)
           a == Append(s, e)
<1>1. n \in Nat /\ DOMAIN s = 1 .. n
    BY LenProperties
<1>2. /\ a \in Seq(S) /\ DOMAIN a = 1 .. n + 1
      /\ \A i \in 1 .. n : a[i] = s[i]
      /\ a[n + 1] = e
    BY AppendProperties, LenProperties
<1> HIDE DEF n, a
<1>3. \A i \in 1 .. n + 1 : i \in 1 .. n \/ i = n + 1
    BY <1>1
<1>4. \A i \in 1 .. n : s[i] # e /\ i \in 1 .. n + 1
    BY <1>1 DEF Registry!Range
<1>5. n + 1 \in 1 .. n + 1
    BY <1>1
<1>6. Registry!Range(a) = Registry!Range(s) \cup {e}
    BY <1>1, <1>2, <1>3, <1>4, <1>5 DEF Registry!Range
<1>7. Registry!IsInjective(a)
    BY <1>1, <1>2, <1>3, <1>4 DEF Registry!IsInjective
<1> QED BY <1>2, <1>6, <1>7 DEF a

\* One claimant fewer.
LEMMA ClaimRemoved ==
    ASSUME NEW S, NEW s \in Seq(S), NEW e \in Registry!Range(s), Registry!IsInjective(s)
    PROVE  /\ Registry!RemoveFirst(s, e) \in Seq(S)
           /\ Registry!Range(Registry!RemoveFirst(s, e)) = Registry!Range(s) \ {e}
           /\ Registry!IsInjective(Registry!RemoveFirst(s, e))
<1> DEFINE n == Len(s)
           r == Registry!RemoveFirst(s, e)
<1>1. n \in Nat /\ DOMAIN s = 1 .. n /\ \A i \in 1 .. n : s[i] \in S
    BY LenProperties, ElementOfSeq
<1>2. PICK k \in 1 .. n : s[k] = e
    BY <1>1 DEF Registry!Range
<1>3. {i \in 1 .. Len(s) : s[i] = e} = {k}
    BY <1>1, <1>2 DEF Registry!IsInjective
<1>4. Registry!Min({k}) = k
    BY <1>2 DEF Registry!Min
<1>5. r = SubSeq(s, 1, k - 1) \o SubSeq(s, k + 1, n)
    BY <1>2, <1>3, <1>4
    DEF Registry!RemoveFirst, Registry!RemoveAt, Registry!SelectInSeq
<1> DEFINE a == SubSeq(s, 1, k - 1)
           b == SubSeq(s, k + 1, n)
<1> HIDE DEF n, r
<1>6. a \in Seq(S) /\ Len(a) = k - 1 /\ \A i \in 1 .. k - 1 : a[i] = s[i]
    <2>1. 1 \in Int /\ k - 1 \in Int /\ \A i \in 1 .. k - 1 : s[i] \in S
        BY <1>1, <1>2
    <2>2. /\ a \in Seq(S) /\ Len(a) = IF 1 <= k - 1 THEN (k - 1) - 1 + 1 ELSE 0
          /\ \A i \in 1 .. (k - 1) - 1 + 1 : a[i] = s[1 + i - 1]
        BY <2>1, SubSeqProperties
    <2> QED BY <1>2, <2>2
<1>7. b \in Seq(S) /\ Len(b) = n - k /\ \A i \in 1 .. n - k : b[i] = s[k + i]
    <2>1. k + 1 \in Int /\ n \in Int /\ \A i \in k + 1 .. n : s[i] \in S
        BY <1>1, <1>2
    <2>2. /\ b \in Seq(S) /\ Len(b) = IF k + 1 <= n THEN n - (k + 1) + 1 ELSE 0
          /\ \A i \in 1 .. n - (k + 1) + 1 : b[i] = s[(k + 1) + i - 1]
        BY <2>1, SubSeqProperties
    <2> QED BY <1>1, <1>2, <2>2
<1> HIDE DEF a, b
<1>8. /\ r \in Seq(S) /\ DOMAIN r = 1 .. n - 1
      /\ \A i \in 1 .. n - 1 : r[i] = IF i <= k - 1 THEN a[i] ELSE b[i - (k - 1)]
    <2>1. r = a \o b
        BY <1>5 DEF a, b
    <2>2. Len(a) + Len(b) = n - 1
        BY <1>1, <1>2, <1>6, <1>7
    <2>3. /\ a \o b \in Seq(S) /\ Len(a \o b) = Len(a) + Len(b)
          /\ \A i \in 1 .. Len(a) + Len(b) : (a \o b)[i] = IF i <= Len(a) THEN a[i] ELSE b[i - Len(a)]
        BY <1>6, <1>7, ConcatProperties
    <2>4. DOMAIN (a \o b) = 1 .. n - 1
        BY <2>2, <2>3, LenProperties
    <2> QED BY <1>6, <2>1, <2>2, <2>3, <2>4
<1>9. ASSUME NEW i \in 1 .. n - 1 PROVE r[i] = s[IF i < k THEN i ELSE i + 1]
    <2>1. CASE i < k
        <3>1. i <= k - 1 /\ i \in 1 .. k - 1
            BY <1>2, <2>1
        <3> QED BY <1>6, <1>8, <2>1, <3>1
    <2>2. CASE ~(i < k)
        <3>1. ~(i <= k - 1) /\ i - (k - 1) \in 1 .. n - k /\ k + (i - (k - 1)) = i + 1
            BY <1>1, <1>2, <2>2
        <3>2. r[i] = b[i - (k - 1)] /\ b[i - (k - 1)] = s[k + (i - (k - 1))]
            BY <1>7, <1>8, <3>1
        <3> QED BY <2>2, <3>1, <3>2
    <2> QED BY <2>1, <2>2
<1>10. Registry!IsInjective(r)
    <2> SUFFICES ASSUME NEW i \in 1 .. n - 1, NEW j \in 1 .. n - 1, r[i] = r[j] PROVE i = j
        BY <1>8 DEF Registry!IsInjective
    <2> DEFINE x == IF i < k THEN i ELSE i + 1
               y == IF j < k THEN j ELSE j + 1
    <2>1. x \in 1 .. n /\ y \in 1 .. n /\ (x = y => i = j)
        BY <1>1, <1>2
    <2>2. r[i] = s[x] /\ r[j] = s[y]
        BY <1>9
    <2> HIDE DEF x, y
    <2> QED BY <1>1, <2>1, <2>2 DEF Registry!IsInjective
<1>11. Registry!Range(r) = Registry!Range(s) \ {e}
    <2>1. ASSUME NEW i \in 1 .. n - 1 PROVE r[i] \in Registry!Range(s) \ {e}
        <3> DEFINE x == IF i < k THEN i ELSE i + 1
        <3>1. x \in 1 .. n /\ x # k
            BY <1>1, <1>2
        <3>2. r[i] = s[x]
            BY <1>9
        <3> HIDE DEF x
        <3> QED BY <1>1, <1>2, <3>1, <3>2 DEF Registry!Range, Registry!IsInjective
    <2>2. ASSUME NEW i \in 1 .. n, s[i] # e PROVE \E j \in 1 .. n - 1 : r[j] = s[i]
        <3>1. i < k \/ i > k
            BY <1>2, <2>2
        <3>2. CASE i < k
            <4>1. i \in 1 .. n - 1
                BY <1>1, <1>2, <3>2
            <4> QED BY <1>9, <3>2, <4>1
        <3>3. CASE i > k
            <4>1. i - 1 \in 1 .. n - 1 /\ ~(i - 1 < k) /\ (i - 1) + 1 = i
                BY <1>1, <1>2, <3>3
            <4> QED BY <1>9, <4>1
        <3> QED BY <3>1, <3>2, <3>3
    <2>3. Registry!Range(r) \subseteq Registry!Range(s) \ {e}
        BY <1>8, <2>1 DEF Registry!Range
    <2>4. ASSUME NEW x \in Registry!Range(s), x # e PROVE x \in Registry!Range(r)
        <3>1. PICK i \in 1 .. n : s[i] = x
            BY <1>1 DEF Registry!Range
        <3>2. PICK j \in 1 .. n - 1 : r[j] = x
            BY <2>2, <2>4, <3>1
        <3> QED BY <1>8, <3>2 DEF Registry!Range
    <2> QED BY <2>3, <2>4
<1> QED BY <1>8, <1>10, <1>11 DEF r

\* Nothing is registered, and the core's identity is claimed.
LEMMA InitRegistry == Registry!Init => RegistryInv
<1> SUFFICES ASSUME Registry!Init PROVE RegistryInv
    OBVIOUS
<1>1. Core \in Identities /\ CoreSource \in Sources
    BY PartsAssumption DEF Registry!RegistryAssumption
<1>2. CatalogTypes
    BY <1>1, EmptySeq DEF Registry!Init, CatalogTypes
<1>3. ClaimsAreRegistered
    <2>1. DOMAIN <<>> = {}
        OBVIOUS
    <2> QED BY <2>1 DEF Registry!Init, ClaimsAreRegistered, Registry!Registered, Registry!Range,
            Registry!IsInjective
<1> QED BY <1>1, <1>2, <1>3 DEF Registry!Init, RegistryInv, OriginsStay, HandlersHaveHandles

\* A registration, or its refusal.
LEMMA RegisterKeeps ==
    ASSUME RegistryInv, NEW identity \in Identities, NEW source \in Sources,
           NEW granted \in BOOLEAN, NEW valid \in BOOLEAN, NEW id \in Registry!Ids,
           Registry!Register(identity, source, granted, valid, id)
    PROVE  RegistryInv'
<1> DEFINE verdict == Registry!Verdict(identity, source, granted, valid, id)
<1>1. /\ sources' = Registry!Claimed(identity, source, verdict)
      /\ UNCHANGED <<handlers, attached>>
    BY DEF Registry!Register
<1>2. /\ verdict \in {"DuplicateId", "Ok"} => sources[identity] \in {None, source}
      /\ verdict = "Ok" => id \notin Registry!Registered /\ id.qualifier = identity
    BY DEF Registry!Verdict
<1>3. /\ None \notin Sources /\ CoreSource \in Sources /\ Core \in Identities
      /\ id.qualifier \in Identities /\ id.tail \in Tails
    BY PartsAssumption DEF Registry!RegistryAssumption, Registry!Ids
<1>4. /\ sources' = sources \/ sources' = [sources EXCEPT ![identity] = source]
      /\ sources' # sources => sources[identity] \in {None, source}
      /\ verdict = "Ok" => sources' = [sources EXCEPT ![identity] = source]
    BY <1>1, <1>2 DEF Registry!Claimed
<1>5. /\ sources' \in [Identities -> Sources \cup {None}]
      /\ \A i \in Identities : sources[i] \in Sources => sources'[i] = sources[i]
    BY <1>3, <1>4 DEF RegistryInv, CatalogTypes
<1>6. sources'[Core] = CoreSource /\ \A r \in byId : r.by = sources'[r.id.qualifier]
    BY <1>3, <1>5 DEF RegistryInv, CatalogTypes, OriginsStay, Registry!Ids
<1>7. HandlersHaveHandles'
    BY <1>1 DEF RegistryInv, HandlersHaveHandles, Registry!Ids
<1> HIDE DEF verdict
<1>8. CASE verdict # "Ok"
    <2>1. UNCHANGED <<byId, bare>>
        BY <1>8 DEF Registry!Register, verdict
    <2>2. CatalogTypes'
        BY <1>1, <1>5, <2>1 DEF RegistryInv, CatalogTypes, Registry!Ids
    <2>3. ClaimsAreRegistered'
        BY <2>1 DEF RegistryInv, ClaimsAreRegistered, Registry!Registered, Registry!Range,
                    Registry!IsInjective
    <2> QED BY <1>6, <1>7, <2>1, <2>2, <2>3 DEF RegistryInv, OriginsStay
<1>9. CASE verdict = "Ok"
    <2>1. /\ bare' = [bare EXCEPT ![id.tail] = Append(@, id)]
          /\ byId' = byId \cup {[id |-> id, by |-> source]}
        BY <1>9 DEF Registry!Register, verdict
    <2>2. sources'[id.qualifier] = source
        BY <1>2, <1>3, <1>4, <1>9 DEF RegistryInv, CatalogTypes
    <2>3. OriginsStay'
        BY <1>6, <2>1, <2>2 DEF OriginsStay
    <2> DEFINE new == [id |-> id, by |-> source]
    <2> new.id = id /\ new \in [id: Registry!Ids, by: Sources] /\ byId' = byId \cup {new}
        BY <2>1
    <2> HIDE DEF new
    <2>4. Registry!Registered' = Registry!Registered \cup {id}
        BY DEF Registry!Registered
    <2>5. bare[id.tail] \in Seq(Registry!Ids) /\ id \notin Registry!Range(bare[id.tail])
          /\ Registry!IsInjective(bare[id.tail])
        BY <1>2, <1>3, <1>9 DEF RegistryInv, CatalogTypes, ClaimsAreRegistered
    <2>6. /\ bare'[id.tail] \in Seq(Registry!Ids) /\ Registry!IsInjective(bare'[id.tail])
          /\ Registry!Range(bare'[id.tail]) = Registry!Range(bare[id.tail]) \cup {id}
          /\ \A t \in Tails : t # id.tail => bare'[t] = bare[t]
        <3>1. bare'[id.tail] = Append(bare[id.tail], id)
            BY <1>3, <2>1 DEF RegistryInv, CatalogTypes
        <3>2. \A t \in Tails : t # id.tail => bare'[t] = bare[t]
            BY <1>3, <2>1 DEF RegistryInv, CatalogTypes
        <3> QED BY <2>5, <3>1, <3>2, ClaimAdded
    <2>7. CatalogTypes'
        <3>1. bare' \in [Tails -> Seq(Registry!Ids)]
            BY <1>3, <2>1, <2>6 DEF RegistryInv, CatalogTypes
        <3>2. byId' \subseteq [id: Registry!Ids, by: Sources]
            BY DEF RegistryInv, CatalogTypes
        <3> QED BY <1>1, <1>5, <3>1, <3>2 DEF RegistryInv, CatalogTypes, Registry!Ids
    <2>8. ClaimsAreRegistered'
        <3> SUFFICES ASSUME NEW t \in Tails
                     PROVE  /\ Registry!Range(bare'[t]) = {i \in Registry!Registered' : i.tail = t}
                            /\ Registry!IsInjective(bare'[t])
            BY DEF ClaimsAreRegistered, Registry!Range, Registry!IsInjective
        <3>1. /\ Registry!Range(bare[t]) = {i \in Registry!Registered : i.tail = t}
              /\ Registry!IsInjective(bare[t])
            BY DEF RegistryInv, ClaimsAreRegistered
        <3>2. CASE t = id.tail
            BY <2>4, <2>6, <3>1, <3>2
        <3>3. CASE t # id.tail
            BY <2>4, <2>6, <3>1, <3>3
        <3> QED BY <3>2, <3>3
    <2> QED BY <1>7, <2>3, <2>7, <2>8 DEF RegistryInv
<1> QED BY <1>8, <1>9

\* A registration is taken back.
LEMMA DisposeKeeps ==
    ASSUME RegistryInv, NEW id \in Registry!Ids, Registry!DisposeRegistration(id)
    PROVE  RegistryInv'
<1>1. /\ id \in Registry!Registered /\ id.tail \in Tails
      /\ byId' = {r \in byId : r.id # id}
      /\ bare' = [bare EXCEPT ![id.tail] = Registry!RemoveFirst(@, id)]
      /\ UNCHANGED <<sources, handlers, attached>>
    BY DEF Registry!DisposeRegistration, Registry!Ids
<1>2. OriginsStay' /\ HandlersHaveHandles'
    BY <1>1 DEF RegistryInv, OriginsStay, HandlersHaveHandles, Registry!Ids
<1>3. Registry!Registered' = Registry!Registered \ {id}
    BY <1>1 DEF Registry!Registered
<1>4. /\ bare[id.tail] \in Seq(Registry!Ids) /\ id \in Registry!Range(bare[id.tail])
      /\ Registry!IsInjective(bare[id.tail])
    BY <1>1 DEF RegistryInv, CatalogTypes, ClaimsAreRegistered
<1>5. /\ bare'[id.tail] = Registry!RemoveFirst(bare[id.tail], id)
      /\ \A t \in Tails : t # id.tail => bare'[t] = bare[t]
    BY <1>1 DEF RegistryInv, CatalogTypes
<1>6. /\ bare'[id.tail] \in Seq(Registry!Ids) /\ Registry!IsInjective(bare'[id.tail])
      /\ Registry!Range(bare'[id.tail]) = Registry!Range(bare[id.tail]) \ {id}
    BY <1>4, <1>5, ClaimRemoved
<1>7. CatalogTypes'
    <2>1. bare' \in [Tails -> Seq(Registry!Ids)]
        BY <1>1, <1>5, <1>6 DEF RegistryInv, CatalogTypes
    <2> QED BY <1>1, <2>1 DEF RegistryInv, CatalogTypes, Registry!Ids
<1>8. ClaimsAreRegistered'
    <2> SUFFICES ASSUME NEW t \in Tails
                 PROVE  /\ Registry!Range(bare'[t]) = {i \in Registry!Registered' : i.tail = t}
                        /\ Registry!IsInjective(bare'[t])
        BY DEF ClaimsAreRegistered, Registry!Range, Registry!IsInjective
    <2>1. /\ Registry!Range(bare[t]) = {i \in Registry!Registered : i.tail = t}
          /\ Registry!IsInjective(bare[t])
        BY DEF RegistryInv, ClaimsAreRegistered
    <2>2. CASE t = id.tail
        BY <1>3, <1>6, <2>1, <2>2
    <2>3. CASE t # id.tail
        BY <1>3, <1>5, <2>1, <2>3
    <2> QED BY <2>2, <2>3
<1> QED BY <1>2, <1>7, <1>8 DEF RegistryInv

LEMMA NextRegistry ==
    ASSUME RegistryInv, [Registry!Next]_registryVars
    PROVE  RegistryInv'
<1>1. CASE \E identity \in Identities, source \in Sources, granted, valid \in BOOLEAN,
              id \in Registry!Ids : Registry!Register(identity, source, granted, valid, id)
    BY <1>1, RegisterKeeps
<1>2. CASE \E id \in Registry!Ids : Registry!DisposeRegistration(id)
    BY <1>2, DisposeKeeps
<1>3. ASSUME UNCHANGED <<byId, bare, sources>>,
             handlers' \in [Registry!Ids -> Behaviours \cup {None}],
             attached' \subseteq Registry!Ids \X Behaviours,
             \A id \in Registry!Ids : handlers'[id] # None => <<id, handlers'[id]>> \in attached'
      PROVE  RegistryInv'
    <2>1. CatalogTypes'
        BY <1>3 DEF RegistryInv, CatalogTypes, Registry!Ids
    <2>2. Registry!Registered' = Registry!Registered
        BY <1>3 DEF Registry!Registered
    <2>3. ClaimsAreRegistered'
        BY <1>3, <2>2 DEF RegistryInv, ClaimsAreRegistered, Registry!Range, Registry!IsInjective
    <2>4. OriginsStay' /\ HandlersHaveHandles'
        BY <1>3 DEF RegistryInv, OriginsStay, HandlersHaveHandles, Registry!Ids
    <2> QED BY <2>1, <2>3, <2>4 DEF RegistryInv
<1>4. CASE \E id \in Registry!Ids, behaviour \in Behaviours : Registry!Attach(id, behaviour)
    <2>1. PICK id \in Registry!Ids, behaviour \in Behaviours : Registry!Attach(id, behaviour)
        BY <1>4
    <2>2. /\ UNCHANGED <<byId, bare, sources>>
          /\ handlers' = [handlers EXCEPT ![id] = behaviour]
          /\ attached' = attached \cup {<<id, behaviour>>}
        BY <2>1 DEF Registry!Attach
    <2> QED BY <1>3, <2>2 DEF RegistryInv, CatalogTypes, HandlersHaveHandles
<1>5. CASE \E handle \in attached : Registry!DisposeHandler(handle)
    <2>1. PICK handle \in attached : Registry!DisposeHandler(handle)
        BY <1>5
    <2>2. /\ UNCHANGED <<byId, bare, sources>>
          /\ handlers' = [handlers EXCEPT ![handle[1]] = None]
          /\ attached' = attached \ {handle}
        BY <2>1 DEF Registry!DisposeHandler
    <2>3. PICK id \in Registry!Ids, b \in Behaviours : handle = <<id, b>>
        BY <2>1 DEF RegistryInv, CatalogTypes
    <2>4. handlers' = [handlers EXCEPT ![id] = None] /\ attached' = attached \ {<<id, b>>}
        BY <2>2, <2>3
    <2> QED BY <1>3, <2>2, <2>4 DEF RegistryInv, CatalogTypes, HandlersHaveHandles
<1>6. CASE UNCHANGED registryVars
    BY <1>3, <1>6 DEF registryVars, RegistryInv, CatalogTypes, HandlersHaveHandles
<1> QED BY <1>1, <1>2, <1>4, <1>5, <1>6 DEF Registry!Next

\* The registry's inductive invariant, in the composition the runs check.
THEOREM RegistryInvariant == MCSpec => []RegistryInv
<1>1. MCInit => RegistryInv
    BY InitRegistry DEF MCInit
<1>2. [MCNext]_<<part, vars, registryVars, maskVars>> => [Registry!Next]_registryVars
    BY DEF MCNext, OfDispatch, OfRegistry, OfMask
<1>3. RegistryInv /\ [Registry!Next]_registryVars => RegistryInv'
    BY NextRegistry
<1> QED BY <1>1, <1>2, <1>3, PTL DEF MCSpec

\* The catalog agrees with itself whatever order entries and handlers come and go in: the
\* claimants of a bare name are the registered ids that end in it, the core's wins, every
\* id was registered by the origin that owns its identity, and what answers has a handle.
THEOREM CatalogStaysWhole == MCSpec => []CatalogAgrees
<1>1. RegistryInv => CatalogAgrees
    <2> SUFFICES ASSUME RegistryInv PROVE CatalogAgrees
        OBVIOUS
    <2>1. ASSUME NEW id \in Registry!Registered, id.qualifier = Core
          PROVE  Registry!bare_winner(bare[id.tail]) = id
        <3> DEFINE s == bare[id.tail]
                   core == {i \in DOMAIN s : s[i].qualifier = Core}
        <3>1. id \in Registry!Ids /\ id.tail \in Tails /\ Registry!Registered \subseteq Registry!Ids
            BY DEF RegistryInv, CatalogTypes, Registry!Registered, Registry!Ids
        <3>2. Registry!Range(s) = {i \in Registry!Registered : i.tail = id.tail}
              /\ Registry!IsInjective(s) /\ s \in Seq(Registry!Ids)
            BY <3>1 DEF RegistryInv, CatalogTypes, ClaimsAreRegistered
        <3>3. PICK k \in DOMAIN s : s[k] = id
            BY <3>2 DEF Registry!Range
        <3> HIDE DEF s
        <3>4. ASSUME NEW i \in DOMAIN s, s[i].qualifier = Core PROVE s[i] = id
            <4>1. s[i] \in Registry!Ids /\ s[i].tail = id.tail
                BY <3>1, <3>2 DEF Registry!Range
            <4> QED BY <2>1, <3>1, <3>4, <4>1 DEF Registry!Ids
        <3>5. core = {k}
            BY <2>1, <3>2, <3>3, <3>4 DEF Registry!IsInjective
        <3>6. k \in Nat
            BY <3>2, LenProperties
        <3>7. Registry!Min({k}) = k
            BY <3>6 DEF Registry!Min
        <3> QED BY <3>3, <3>5, <3>7 DEF Registry!bare_winner, s
    <2>2. ASSUME NEW r \in byId
          PROVE  r.by = sources[r.id.qualifier] /\ (r.id.qualifier = Core => r.by = CoreSource)
        BY DEF RegistryInv, OriginsStay
    <2> QED BY <2>1, <2>2 DEF RegistryInv, ClaimsAreRegistered, HandlersHaveHandles,
            CatalogAgrees, Registry!CatalogAgrees
<1> QED BY <1>1, RegistryInvariant, PTL

\* A refused registration leaves no trace: the identity is claimed before the id is looked
\* up, but who is refused for a taken id is of the identity that has registered it.
THEOREM RefusedLeaveNoTrace == MCSpec => RefusalsLeaveNoTrace
<1> DEFINE Refusal == reply'.kind \notin {"none", "Ok", "disposed", "attached"}
           Traceless == UNCHANGED <<byId, bare, sources, seen, handlers, attached>>
<1>1. ASSUME RegistryInv, Registry!Next, Refusal PROVE Traceless
    <2>1. PICK identity \in Identities, source \in Sources, granted \in BOOLEAN,
               valid \in BOOLEAN, id \in Registry!Ids :
            Registry!Register(identity, source, granted, valid, id)
        <3>1. ASSUME NEW id, Registry!DisposeRegistration(id) PROVE FALSE
            BY <1>1, <3>1 DEF Registry!DisposeRegistration, Registry!Answer
        <3>2. ASSUME NEW id, NEW behaviour, Registry!Attach(id, behaviour) PROVE FALSE
            BY <1>1, <3>2 DEF Registry!Attach, Registry!Answer
        <3>3. ASSUME NEW handle, Registry!DisposeHandler(handle) PROVE FALSE
            BY <1>1, <3>3 DEF Registry!DisposeHandler, Registry!Answer
        <3> QED BY <1>1, <3>1, <3>2, <3>3, Zenon DEF Registry!Next
    <2> DEFINE verdict == Registry!Verdict(identity, source, granted, valid, id)
    <2>2. verdict # "Ok" /\ UNCHANGED <<byId, bare, seen, handlers, attached>>
        BY <1>1, <2>1 DEF Registry!Register, Registry!Answer
    <2>3. sources' = Registry!Claimed(identity, source, verdict)
        BY <2>1 DEF Registry!Register
    <2>4. CASE verdict = "DuplicateId"
        <3>1. /\ id \in Registry!Registered /\ id.qualifier = identity
              /\ sources[identity] \in {None, source}
            BY <2>4 DEF Registry!Verdict
        <3>2. PICK r \in byId : r.id = id
            BY <3>1 DEF Registry!Registered
        <3>3. r.by \in Sources /\ r.by = sources[identity] /\ None \notin Sources
            BY <1>1, <3>1, <3>2, PartsAssumption
            DEF RegistryInv, CatalogTypes, OriginsStay, Registry!RegistryAssumption
        <3>4. sources[identity] = source
            BY <3>1, <3>3
        <3>5. sources' = [sources EXCEPT ![identity] = source]
            BY <2>3, <2>4 DEF Registry!Claimed
        <3>6. sources' = sources
            BY <1>1, <3>4, <3>5 DEF RegistryInv, CatalogTypes
        <3> QED BY <2>2, <3>6
    <2>5. CASE verdict # "DuplicateId"
        BY <2>2, <2>3, <2>5 DEF Registry!Claimed
    <2> QED BY <2>4, <2>5
<1>2. RegistryInv /\ [Registry!Next]_registryVars => [Refusal => Traceless]_(Registry!vars)
    BY <1>1 DEF registryVars, Registry!vars
<1>3. [MCNext]_<<part, vars, registryVars, maskVars>> => [Registry!Next]_registryVars
    BY DEF MCNext, OfDispatch, OfRegistry, OfMask
<1> QED
    BY <1>2, <1>3, RegistryInvariant, PTL
    DEF MCSpec, RefusalsLeaveNoTrace, Registry!RefusalsLeaveNoTrace
=============================================================================
