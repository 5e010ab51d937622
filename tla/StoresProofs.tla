---------------------------- MODULE StoresProofs ----------------------------
(***************************************************************************)
(* What is kept on disk is kept right, for any number of turns, verbs,     *)
(* processes, cards, rows, tables, files and failures.                     *)
(*                                                                         *)
(* The stores share no file, so each has an invariant of its own, proved   *)
(* of the steps of that part alone; a step of MCNext is a step of one part *)
(* and leaves the other parts' variables as they are.                      *)
(*                                                                         *)
(*   journal     what the writer remembers is what the file ends with      *)
(*   board       a card that is being saved is at most one move ahead of   *)
(*               what the log has, what verbs have yet to log, and what    *)
(*               faults took from it                                       *)
(*   memory      every input a pass works on is a raw row, so the item it  *)
(*               cites is another row: a merge cannot drop that citation   *)
(*   schema      the stamp is where the one opener that changes the file   *)
(*               has brought it                                            *)
(*   catalogs    what is active was granted, in the store, in the staged   *)
(*               file and in every process's hands                         *)
(*   activation  what the steps done so far have made of what is registered*)
(*   backup      a call alone in its second has staged what it has copied  *)
(***************************************************************************)
EXTENDS MCStores, FiniteSetTheorems, SequenceTheorems, WellFoundedInduction, TLAPS

\* A nonempty set of numbers has a least one.
LEMMA LeastOfMany ==
    ASSUME NEW S \in SUBSET Nat, S # {}
    PROVE  \E m \in S : \A k \in S : m <= k
<1>1. PICK m \in S : \A k \in S : ~(<<k, m>> \in OpToRel(<, Nat))
  BY NatLessThanWellFounded, WFMin
<1>2. \A k \in S : ~(k < m)
  BY <1>1 DEF OpToRel
<1> QED
  BY <1>2

-----------------------------------------------------------------------------
(* The journal, of turns that come one after another.                       *)

Lines == [kind : {"user", "reply", "header", "damaged"}, id : Nat, parent : Nat,
          turn : Turns \cup {NoTurn}, stop : Stops \cup {"none", "interrupted"}]

Writing == {"mending", "closing", "asking", "generating"}

\* The lines of a journal: an entry's id is its place after the header, its parent the entry
\* before it, and there is a last entry if there is one at all.
IsLast(lines, i) == i \in Places(lines) /\ \A k \in Places(lines) : k <= i

IsJournal(lines) ==
    /\ lines \in Seq(Lines)
    /\ \A i \in Places(lines) : lines[i].id = i - 1
    /\ \A i \in Places(lines) : IsLinked(lines, i)
    /\ Places(lines) = {} \/ \E i \in Places(lines) : IsLast(lines, i)

\* What a writer remembers of the lines it has read and written.
Remembers(w, lines) ==
    /\ w.entries = Len(lines) - 1
    /\ \/ Places(lines) = {} /\ w.last = 0 /\ ~w.awaiting
       \/ \E i \in Places(lines) :
             /\ IsLast(lines, i)
             /\ w.last = lines[i].id
             /\ w.awaiting <=> lines[i].kind = "user"

\* What a writer remembers that has yet to make the file.
Waits(t) ==
    IF place[t] = "generating"
    THEN \E u \in Lines : /\ IsEntry(u) /\ u.kind = "user" /\ u.id = 1 /\ u.parent = 0
                          /\ writer[t].pending = <<u>>
                          /\ writer[t].entries = 1 /\ writer[t].last = 1 /\ writer[t].awaiting
    ELSE /\ writer[t].pending = <<>>
         /\ writer[t].entries = 0 /\ writer[t].last = 0 /\ ~writer[t].awaiting

Writers == [open : BOOLEAN, entries : Nat, last : Nat, awaiting : BOOLEAN, pending : Seq(Lines)]

JournalTypeOK ==
    /\ file \in [exists : BOOLEAN, lines : Seq(Lines), terminated : BOOLEAN]
    /\ ~file.exists => file = Missing
    /\ place \in [Turns -> {"idle", "reading", "opening", "creating", "mending", "closing",
                            "asking", "generating", "done", "over"}]
    /\ writer \in [Turns -> Writers]

TurnFollows(t) ==
    /\ place[t] \in {"idle", "reading", "opening", "creating"} => writer[t] = Fresh
    /\ place[t] \in Writing /\ writer[t].open =>
          /\ file.exists /\ file.lines # <<>>
          /\ place[t] # "mending" => file.terminated
          /\ Remembers(writer[t], file.lines)
    /\ place[t] \in Writing /\ ~writer[t].open =>
          /\ place[t] \in {"asking", "generating"}
          /\ ~file.exists
          /\ Waits(t)
    /\ place[t] = "asking" => ~writer[t].awaiting
    /\ place[t] = "generating" => writer[t].awaiting

JournalIInv ==
    /\ JournalTypeOK
    /\ \A t, u \in Turns : Running(t) /\ Running(u) => t = u
    /\ IsJournal(file.lines)
    /\ AckedEntriesAreKept
    /\ \A t \in Turns : TurnFollows(t)

\* A line that is no entry is appended.
LEMMA LineAppended ==
    ASSUME NEW lines, IsJournal(lines), NEW line \in Lines, ~IsEntry(line)
    PROVE  IsJournal(Append(lines, line)) /\ Places(Append(lines, line)) = Places(lines)
<1> DEFINE new == Append(lines, line)
           n == Len(lines)
<1>1. /\ lines \in Seq(Lines) /\ n \in Nat /\ DOMAIN lines = 1..n
      /\ new \in Seq(Lines) /\ DOMAIN new = 1..(n + 1) /\ new[n + 1] = line
      /\ \A i \in 1..n : new[i] = lines[i]
  BY DEF IsJournal
<1> HIDE DEF new, n
<1>2. Places(new) = Places(lines)
  BY <1>1 DEF Places
<1>3. \A i \in Places(lines) : i \in 1..n /\ new[i] = lines[i]
  BY <1>1 DEF Places
<1>4. \A i \in Places(new) : new[i].id = i - 1
  BY <1>2, <1>3 DEF IsJournal
<1>5. Places(new) = {} \/ \E i \in Places(new) : IsLast(new, i)
  BY <1>2 DEF IsJournal, IsLast
<1>6. ASSUME NEW j \in Places(lines) PROVE IsLinked(new, j)
  <2>1. IsLinked(lines, j)
    BY DEF IsJournal
  <2>2. \A i : IsBefore(lines, i, j) => IsBefore(new, i, j)
    BY <1>2 DEF IsBefore
  <2> QED
    BY <1>2, <1>3, <2>1, <2>2 DEF IsLinked
<1> QED
  BY <1>1, <1>2, <1>4, <1>5, <1>6 DEF IsJournal, new

\* An entry is appended that is numbered by its place and names the one before it.
LEMMA EntryAppended ==
    ASSUME NEW lines, IsJournal(lines), NEW line \in Lines, IsEntry(line),
           line.id = Len(lines),
           \/ Places(lines) = {} /\ line.parent = 0
           \/ \E i \in Places(lines) :
                 IsLast(lines, i) /\ line.parent = lines[i].id /\ line.kind # lines[i].kind
    PROVE  /\ IsJournal(Append(lines, line))
           /\ IsLast(Append(lines, line), Len(lines) + 1)
<1> DEFINE new == Append(lines, line)
           n == Len(lines)
<1>1. /\ lines \in Seq(Lines) /\ n \in Nat /\ DOMAIN lines = 1..n
      /\ new \in Seq(Lines) /\ DOMAIN new = 1..(n + 1) /\ new[n + 1] = line
      /\ \A i \in 1..n : new[i] = lines[i]
      /\ line.id = n
  BY DEF IsJournal
<1> HIDE DEF new, n
<1>2. Places(new) = Places(lines) \cup {n + 1}
  BY <1>1 DEF Places
<1>3. \A i \in Places(lines) : i \in 1..n /\ new[i] = lines[i]
  BY <1>1 DEF Places
<1>4. \A i \in Places(new) : new[i].id = i - 1
  BY <1>1, <1>2, <1>3 DEF IsJournal
<1>5. ASSUME NEW j \in Places(lines) PROVE IsLinked(new, j)
  <2>1. IsLinked(lines, j) /\ j \in 1..n /\ new[j] = lines[j]
    BY <1>3 DEF IsJournal
  <2>2. CASE lines[j].parent = 0 /\ \A k \in Places(lines) : k >= j
    BY <1>1, <1>2, <1>3, <2>1, <2>2 DEF IsLinked
  <2>3. ASSUME NEW i \in Places(lines), IsBefore(lines, i, j),
               lines[j].parent = lines[i].id, lines[j].kind # lines[i].kind
        PROVE  IsLinked(new, j)
    <3>1. IsBefore(new, i, j)
      BY <1>1, <1>2, <1>3, <2>1, <2>3 DEF IsBefore
    <3> QED
      BY <1>2, <1>3, <2>1, <2>3, <3>1 DEF IsLinked
  <2> QED
    BY <2>1, <2>2, <2>3 DEF IsLinked
<1>6. IsLinked(new, n + 1)
  <2>1. CASE Places(lines) = {} /\ line.parent = 0
    BY <1>1, <1>2, <2>1 DEF IsLinked
  <2>2. ASSUME NEW i \in Places(lines), IsLast(lines, i),
               line.parent = lines[i].id, line.kind # lines[i].kind
        PROVE  IsLinked(new, n + 1)
    <3>1. IsBefore(new, i, n + 1)
      BY <1>1, <1>2, <1>3, <2>2 DEF IsBefore, IsLast
    <3> QED
      BY <1>1, <1>2, <1>3, <2>2, <3>1 DEF IsLinked
  <2> QED
    BY <2>1, <2>2
<1>7. IsLast(new, n + 1)
  BY <1>1, <1>2, <1>3 DEF IsLast
<1> QED
  BY <1>1, <1>2, <1>4, <1>5, <1>6, <1>7 DEF IsJournal, new, n

\* One turn goes on, and the others stand still.
LEMMA TurnMoves ==
    ASSUME JournalIInv, NEW t \in Turns, NEW where, NEW w \in Writers,
           Running(t) \/ \A u \in Turns : ~Running(u),
           place' = [place EXCEPT ![t] = where], writer' = [writer EXCEPT ![t] = w],
           JournalTypeOK', IsJournal(file'.lines), AckedEntriesAreKept', TurnFollows(t)'
    PROVE  JournalIInv'
<1>1. ASSUME NEW u \in Turns, u # t
      PROVE  ~Running(u) /\ place'[u] = place[u] /\ writer'[u] = writer[u]
  BY <1>1 DEF JournalIInv, JournalTypeOK
<1>2. \A u, v \in Turns : Running(u)' /\ Running(v)' => u = v
  BY <1>1 DEF Running
<1>3. ASSUME NEW u \in Turns, u # t PROVE TurnFollows(u)'
  <2>1. place[u] \in {"idle", "done", "over"} /\ TurnFollows(u)
    BY <1>1, <1>3 DEF Running, JournalIInv
  <2> QED
    BY <1>1, <1>3, <2>1 DEF TurnFollows, Writing
<1> QED
  BY <1>2, <1>3 DEF JournalIInv

\* Before the first turn there is no journal.
LEMMA JournalInit == Init => JournalIInv
<1> SUFFICES ASSUME Init PROVE JournalIInv
  OBVIOUS
<1>1. IsJournal(<<>>)
  BY DEF IsJournal, Places
<1>2. Fresh \in Writers /\ Missing \in [exists : BOOLEAN, lines : Seq(Lines), terminated : BOOLEAN]
  BY DEF Fresh, Writers, Missing
<1>3. JournalTypeOK
  BY <1>2 DEF Init, JournalTypeOK
<1>4. \A t \in Turns : place[t] = "idle" /\ writer[t] = Fresh
  BY DEF Init
<1> QED
  BY <1>1, <1>3, <1>4
  DEF Init, JournalIInv, Running, TurnFollows, Writing, AckedEntriesAreKept, Missing

\* A writer that has opened the file remembers what is in it.
LEMMA OpenRemembers ==
    ASSUME IsJournal(file.lines), file.lines # <<>>
    PROVE  Opened(file) \in Writers /\ Opened(file).open /\ Remembers(Opened(file), file.lines)
<1> DEFINE places == Places(file.lines)
           newest == file.lines[Max(places)]
           n == Len(file.lines)
<1>0. n \in Nat \ {0} /\ file.lines \in Seq(Lines) /\ DOMAIN file.lines = 1..n
  BY DEF IsJournal
<1>1. /\ Opened(file) =
            [open |-> TRUE, entries |-> n - 1, last |-> IF places = {} THEN 0 ELSE newest.id,
             awaiting |-> places # {} /\ newest.kind = "user", pending |-> <<>>]
  BY DEF Opened
<1>2. CASE places = {}
  <2>1. Opened(file) = [open |-> TRUE, entries |-> n - 1, last |-> 0, awaiting |-> FALSE,
                        pending |-> <<>>]
    BY <1>1, <1>2
  <2> QED
    BY <1>0, <1>2, <2>1 DEF Writers, Remembers
<1>3. CASE places # {}
  <2>1. PICK i \in places : IsLast(file.lines, i)
    BY <1>3 DEF IsJournal
  <2>2. \A j \in places : j \in Nat
    BY <1>0 DEF Places
  <2>3. Max(places) \in places /\ \A k \in places : k <= Max(places)
    BY <2>1, <2>2 DEF Max, IsLast
  <2>4. PICK m \in places : m = Max(places) /\ \A k \in places : k <= m
    BY <2>3
  <2>4a. /\ newest = file.lines[m] /\ IsLast(file.lines, m) /\ m \in Places(file.lines)
         /\ m \in DOMAIN file.lines
    BY <2>4 DEF IsLast, Places
  <2>4b. newest \in Lines
    BY <1>0, <2>4a
  <2>5. newest.id \in Nat
    BY <2>4b DEF Lines
  <2> DEFINE b == newest.kind = "user"
  <2>6. Opened(file) = [open |-> TRUE, entries |-> n - 1, last |-> newest.id,
                        awaiting |-> b, pending |-> <<>>]
    BY <1>1, <1>3
  <2>7. Opened(file) \in Writers
    BY <1>0, <2>5, <2>6 DEF Writers
  <2>8. b \in BOOLEAN /\ (b <=> file.lines[m].kind = "user")
    BY <2>4a
  <2> HIDE DEF newest, places, b
  <2>9. /\ Opened(file).open = TRUE /\ Opened(file).entries = n - 1
        /\ Opened(file).last = file.lines[m].id
        /\ Opened(file).awaiting = b
    BY <2>4a, <2>6
  <2> QED
    BY <2>4a, <2>7, <2>8, <2>9 DEF Remembers
<1> QED
  BY <1>2, <1>3

\* The steps of a turn up to its first append, and its death.
LEMMA TurnBegins ==
    ASSUME JournalIInv, OneAtATime, NEW t \in Turns,
           Begin(t) \/ ReadJournal(t) \/ Create(t) \/ Open(t) \/ Mend(t) \/ Die(t)
    PROVE  JournalIInv'
<1> USE DEF Goto
<1>0. /\ place[t] \in {"idle", "reading", "opening", "creating", "mending", "closing",
                       "asking", "generating", "done", "over"}
      /\ writer[t] \in Writers /\ TurnFollows(t) /\ IsJournal(file.lines)
      /\ DOMAIN place = Turns /\ DOMAIN writer = Turns
      /\ writer = [writer EXCEPT ![t] = writer[t]]
  BY DEF JournalIInv, JournalTypeOK
<1>1. ASSUME Begin(t) PROVE JournalIInv'
  <2>1. writer' = [writer EXCEPT ![t] = writer[t]] /\ place'[t] = "reading"
    BY <1>0, <1>1 DEF Begin
  <2>2. JournalTypeOK' /\ AckedEntriesAreKept' /\ TurnFollows(t)'
    BY <1>0, <1>1, <2>1 DEF Begin, JournalIInv, JournalTypeOK, AckedEntriesAreKept, TurnFollows,
        Writing
  <2> QED
    BY <1>0, <1>1, <2>1, <2>2, TurnMoves DEF Begin
<1>2. ASSUME ReadJournal(t) PROVE JournalIInv'
  <2>1. writer' = [writer EXCEPT ![t] = writer[t]] /\ place'[t] \in {"opening", "creating"}
    BY <1>0, <1>2 DEF ReadJournal
  <2>2. JournalTypeOK' /\ AckedEntriesAreKept' /\ TurnFollows(t)'
    BY <1>0, <1>2, <2>1
    DEF ReadJournal, JournalIInv, JournalTypeOK, AckedEntriesAreKept, TurnFollows, Writing
  <2> QED
    BY <1>0, <1>2, <2>1, <2>2, TurnMoves DEF ReadJournal, Running
<1>3. ASSUME Create(t) PROVE JournalIInv'
  <2>1. /\ writer' = [writer EXCEPT ![t] = writer[t]]
        /\ place'[t] = IF file.exists THEN "over" ELSE "asking"
        /\ writer'[t] = Fresh /\ file' = file
    BY <1>0, <1>3 DEF Create, TurnFollows
  <2>2. JournalTypeOK' /\ AckedEntriesAreKept'
    BY <1>0, <1>3, <2>1 DEF Create, JournalIInv, JournalTypeOK, AckedEntriesAreKept
  <2>3. TurnFollows(t)'
    BY <2>1 DEF TurnFollows, Writing, Waits, Fresh
  <2> QED
    BY <1>0, <1>3, <2>1, <2>2, <2>3, TurnMoves DEF Create, Running
<1>4. ASSUME Open(t) PROVE JournalIInv'
  <2>1. CASE HasHeader(file)
    <3> DEFINE w == Opened(file)
               where == IF file.terminated THEN "closing" ELSE "mending"
    <3>1. /\ place[t] = "opening" /\ file' = file /\ acked' = acked
          /\ writer' = [writer EXCEPT ![t] = w]
          /\ place' = [place EXCEPT ![t] = where]
          /\ file.lines # <<>>
      BY <1>4, <2>1 DEF Open, HasHeader
    <3>2. w \in Writers /\ w.open /\ Remembers(w, file.lines)
      BY <1>0, <3>1, OpenRemembers
    <3>3. file.exists
      BY <3>1 DEF JournalIInv, JournalTypeOK, Missing
    <3>4. where \in {"closing", "mending"} /\ (where # "mending" => file.terminated)
      OBVIOUS
    <3> HIDE DEF w, where
    <3>5. writer'[t] = w /\ place'[t] = where
      BY <1>0, <3>1
    <3>6. JournalTypeOK' /\ AckedEntriesAreKept'
      BY <3>1, <3>2, <3>4 DEF JournalIInv, JournalTypeOK, AckedEntriesAreKept
    <3>7. TurnFollows(t)'
      BY <3>1, <3>2, <3>3, <3>4, <3>5 DEF TurnFollows
    <3> QED
      BY <1>0, <3>1, <3>2, <3>6, <3>7, TurnMoves DEF Running
  <2>2. CASE ~HasHeader(file)
    <3>1. writer' = [writer EXCEPT ![t] = writer[t]] /\ place'[t] = "over"
      BY <1>0, <1>4, <2>2 DEF Open
    <3>2. JournalTypeOK' /\ AckedEntriesAreKept' /\ TurnFollows(t)'
      BY <1>0, <1>4, <2>2, <3>1
      DEF Open, JournalIInv, JournalTypeOK, AckedEntriesAreKept, TurnFollows, Writing
    <3> QED
      BY <1>0, <1>4, <2>2, <3>1, <3>2, TurnMoves DEF Open, Running
  <2> QED
    BY <2>1, <2>2
<1>5. ASSUME Mend(t) PROVE JournalIInv'
  <2>1. CASE file' = [file EXCEPT !.terminated = TRUE] /\ place' = [place EXCEPT ![t] = "closing"]
    <3>0. /\ file \in [exists : BOOLEAN, lines : Seq(Lines), terminated : BOOLEAN]
          /\ place[t] = "mending" /\ acked' = acked
      BY <1>5 DEF Mend, JournalIInv, JournalTypeOK
    <3>1. /\ writer' = [writer EXCEPT ![t] = writer[t]] /\ place'[t] = "closing"
          /\ writer'[t] = writer[t]
      BY <1>0, <1>5, <2>1 DEF Mend
    <3>2. /\ writer[t].open /\ file.exists /\ file.lines # <<>> /\ Remembers(writer[t], file.lines)
      BY <1>0, <3>0 DEF TurnFollows, Writing
    <3>3. file'.lines = file.lines /\ file'.exists /\ file'.terminated
      BY <2>1, <3>0, <3>2
    <3>4. JournalTypeOK'
      BY <2>1, <3>0, <3>1, <3>3, <1>5 DEF Mend, JournalIInv, JournalTypeOK
    <3>5. AckedEntriesAreKept'
      BY <3>0, <3>3 DEF JournalIInv, AckedEntriesAreKept
    <3>6. TurnFollows(t)'
      BY <3>1, <3>2, <3>3 DEF TurnFollows
    <3> QED
      BY <1>0, <1>5, <2>1, <3>0, <3>1, <3>3, <3>4, <3>5, <3>6, TurnMoves DEF Running
  <2>2. CASE file' = file /\ place' = [place EXCEPT ![t] = "over"]
    <3>1. writer' = [writer EXCEPT ![t] = writer[t]] /\ place'[t] = "over"
      BY <1>0, <1>5, <2>2 DEF Mend
    <3>2. JournalTypeOK' /\ AckedEntriesAreKept' /\ TurnFollows(t)'
      BY <1>0, <1>5, <2>2, <3>1
      DEF Mend, JournalIInv, JournalTypeOK, AckedEntriesAreKept, TurnFollows, Writing
    <3> QED
      BY <1>0, <1>5, <2>2, <3>1, <3>2, TurnMoves DEF Mend, Running
  <2> QED
    BY <1>5, <2>1, <2>2 DEF Mend
<1>6. ASSUME Die(t) PROVE JournalIInv'
  <2>1. writer' = [writer EXCEPT ![t] = writer[t]] /\ place'[t] = "over"
    BY <1>0, <1>6 DEF Die
  <2>2. JournalTypeOK' /\ AckedEntriesAreKept' /\ TurnFollows(t)'
    BY <1>0, <1>6, <2>1
    DEF Die, JournalIInv, JournalTypeOK, AckedEntriesAreKept, TurnFollows, Writing
  <2> QED
    BY <1>0, <1>6, <2>1, <2>2, TurnMoves DEF Die
<1> QED
  BY <1>1, <1>2, <1>3, <1>4, <1>5, <1>6

\* The two lines that are no entries.
LEMMA HeaderAndDamage ==
    Header \in Lines /\ Damaged \in Lines /\ ~IsEntry(Header) /\ ~IsEntry(Damaged)
BY DEF Header, Damaged, Line, Lines, IsEntry

\* A line at the end of others, and a header alone.
LEMMA LineJoins ==
    ASSUME NEW s \in Seq(Lines), NEW line \in Lines
    PROVE  /\ Append(s, line) \in Seq(Lines) /\ s \o <<line>> = Append(s, line)
           /\ Append(s, line) # <<>>
           /\ Len(Append(s, line)) = Len(s) + 1 /\ Append(s, line)[Len(s) + 1] = line
           /\ \A i \in 1..Len(s) : Append(s, line)[i] = s[i]
BY AppendProperties

\* What a write leaves that was cut short, one by one.
LEMMA CutShortWithin ==
    ASSUME NEW f, NEW lines, NEW S, Joined(f, lines, TRUE) \in S,
           \A k \in 0 .. Len(lines) - 1 :
              /\ Joined(f, SubSeq(lines, 1, k), TRUE) \in S
              /\ Joined(f, SubSeq(lines, 1, k) \o <<Damaged>>, FALSE) \in S
              /\ Joined(f, SubSeq(lines, 1, k + 1), FALSE) \in S
    PROVE  CutShort(f, lines) \subseteq S
<1> DEFINE Cut(k) == {Joined(f, SubSeq(lines, 1, k), TRUE),
                      Joined(f, SubSeq(lines, 1, k) \o <<Damaged>>, FALSE),
                      Joined(f, SubSeq(lines, 1, k + 1), FALSE)}
           all == {Joined(f, lines, TRUE)}
<1>1. CutShort(f, lines) = all \cup UNION {Cut(k) : k \in 0 .. Len(lines) - 1}
  BY DEF CutShort
<1>2. \A k \in 0 .. Len(lines) - 1 : Cut(k) \subseteq S
  BY Zenon
<1>3. all \subseteq S
  OBVIOUS
<1> HIDE DEF Cut, all
<1> QED
  BY <1>1, <1>2, <1>3

\* A file that was cut short within its header, or right behind it.
LEMMA HeaderAlone ==
    /\ IsJournal(<<Header>>) /\ <<Header>> \in Seq(Lines)
    /\ Places(<<Header>>) = {} /\ Len(<<Header>>) = 1
<1>1. IsJournal(<<>>) /\ Places(<<>>) = {}
  BY DEF IsJournal, Places
<1>2. Append(<<>>, Header) = <<Header>> /\ Len(<<Header>>) = 1
  OBVIOUS
<1>3. IsJournal(<<Header>>) /\ Places(<<Header>>) = {}
  BY <1>1, <1>2, LineAppended, HeaderAndDamage
<1>4. <<Header>> \in Seq(Lines)
  BY HeaderAndDamage
<1> QED
  BY <1>2, <1>3, <1>4

\* What joining one line to a terminated file makes, also when it is cut short.
LEMMA OneLineJoined ==
    ASSUME file \in [exists : BOOLEAN, lines : Seq(Lines), terminated : BOOLEAN],
           file.terminated, NEW line \in Lines
    PROVE  /\ \A b \in BOOLEAN : Joined(file, <<line>>, b) =
                 [exists |-> TRUE, terminated |-> b, lines |-> Append(file.lines, line)]
           /\ \A f \in CutShort(file, <<line>>) :
                 /\ f \in [exists : {TRUE}, lines : Seq(Lines), terminated : BOOLEAN]
                 /\ f.lines \in {file.lines, Append(file.lines, line), Append(file.lines, Damaged)}
<1>1. ASSUME NEW l \in Lines, NEW b \in BOOLEAN
      PROVE  Joined(file, <<l>>, b) =
                [exists |-> TRUE, terminated |-> b, lines |-> Append(file.lines, l)]
  <2>1. file.lines \o <<l>> = Append(file.lines, l) /\ <<l>> # <<>>
    BY LineJoins
  <2> QED
    BY <2>1 DEF Joined
<1> DEFINE Fine == {g \in [exists : {TRUE}, lines : Seq(Lines), terminated : BOOLEAN] :
                       g.lines \in {file.lines, Append(file.lines, line),
                                   Append(file.lines, Damaged)}}
<1>2. ASSUME NEW l \in {line, Damaged}, NEW b \in BOOLEAN PROVE Joined(file, <<l>>, b) \in Fine
  <2>1. l \in Lines /\ Append(file.lines, l) \in Seq(Lines)
    BY HeaderAndDamage, LineJoins
  <2>2. Joined(file, <<l>>, b) =
           [exists |-> TRUE, terminated |-> b, lines |-> Append(file.lines, l)]
    BY <1>1, <2>1
  <2>3. Joined(file, <<l>>, b).lines = Append(file.lines, l)
    BY <2>2
  <2> DEFINE app == Append(file.lines, l)
  <2>4. app \in {file.lines, Append(file.lines, line), Append(file.lines, Damaged)}
    OBVIOUS
  <2>5. app \in Seq(Lines) /\ Joined(file, <<l>>, b) = [exists |-> TRUE, terminated |-> b,
      lines |-> app]
        /\ Joined(file, <<l>>, b).lines = app
    BY <2>1, <2>2, <2>3
  <2> HIDE DEF app
  <2>6. [exists |-> TRUE, terminated |-> b, lines |-> app] \in
           [exists : {TRUE}, lines : Seq(Lines), terminated : BOOLEAN]
    BY <2>5
  <2>7. /\ Joined(file, <<l>>, b) \in [exists : {TRUE}, lines : Seq(Lines), terminated : BOOLEAN]
        /\ Joined(file, <<l>>, b).lines \in {file.lines, Append(file.lines, line),
                                              Append(file.lines, Damaged)}
    BY <2>4, <2>5, <2>6, Zenon
  <2> QED
    BY <2>7, Zenon
<1>3. ASSUME NEW b PROVE Joined(file, <<>>, b) \in Fine
  <2>1. Joined(file, <<>>, b) = [file EXCEPT !.exists = TRUE]
    BY DEF Joined
  <2>2. [file EXCEPT !.exists = TRUE].lines = file.lines
    OBVIOUS
  <2> QED
    BY <2>1, <2>2
<1>4. ASSUME NEW one, one = <<line>>, NEW k \in 0 .. Len(one) - 1
      PROVE  SubSeq(one, 1, k) = <<>> /\ SubSeq(one, 1, k + 1) = one
  <2>1. one \in Seq(Lines) /\ Len(one) = 1 /\ k = 0
    BY <1>4
  <2>2. SubSeq(one, 1, 1) = one
    BY <2>1, SubSeqFull
  <2> QED
    BY <2>1, <2>2, SubSeqEmpty
<1>5. ASSUME NEW f \in CutShort(file, <<line>>) PROVE f \in Fine
  <2> DEFINE one == <<line>>
  <2>1. \A b \in BOOLEAN : Joined(file, one, b) \in Fine /\ Joined(file, <<Damaged>>, b) \in Fine
    BY <1>2
  <2>2. \A k \in 0 .. Len(one) - 1 : SubSeq(one, 1, k) = <<>> /\ SubSeq(one, 1, k + 1) = one
    BY <1>4
  <2>3. <<>> \o <<Damaged>> = <<Damaged>>
    OBVIOUS
  <2>4. f \in CutShort(file, one)
    BY <1>5
  <2> HIDE DEF one, Fine
  <2>5. ASSUME NEW k \in 0 .. Len(one) - 1
        PROVE  /\ Joined(file, SubSeq(one, 1, k), TRUE) \in Fine
               /\ Joined(file, SubSeq(one, 1, k) \o <<Damaged>>, FALSE) \in Fine
               /\ Joined(file, SubSeq(one, 1, k + 1), FALSE) \in Fine
    <3>1. SubSeq(one, 1, k) = <<>> /\ SubSeq(one, 1, k + 1) = one
      BY <2>2
    <3> QED
      BY <1>3, <2>1, <2>3, <3>1
  <2>6. CutShort(file, one) \subseteq Fine
    BY <2>1, <2>5, CutShortWithin
  <2> QED
    BY <2>4, <2>6
<1> QED
  BY <1>1, <1>5

\* What making the file of a header, a question and a reply makes, also when it is cut short.
LEMMA JournalMade ==
    ASSUME file = Missing, NEW u \in Lines, NEW r \in Lines,
           IsEntry(u), u.id = 1, u.parent = 0, u.kind = "user",
           IsEntry(r), r.id = 2, r.parent = 1, r.kind = "reply",
           NEW s1 \in Seq(Lines), IsJournal(s1), Places(s1) = {}, Len(s1) = 1,
           NEW s2, s2 = Append(s1, u), NEW s3, s3 = Append(s2, r)
    PROVE  /\ Joined(file, s3, TRUE) = [exists |-> TRUE, terminated |-> TRUE, lines |-> s3]
           /\ IsJournal(s3) /\ IsLast(s3, 3)
           /\ Len(s3) = 3 /\ s3[1] = s1[1] /\ s3[2] = u /\ s3[3] = r
           /\ \A f \in CutShort(file, s3) :
                 /\ f \in [exists : {TRUE}, lines : Seq(Lines), terminated : BOOLEAN]
                 /\ IsJournal(f.lines)
<1>1. IsJournal(<<>>)
  BY DEF IsJournal, Places
<1>3. IsJournal(s2) /\ IsLast(s2, 2) /\ Len(s2) = 2 /\ s2[1] = s1[1] /\ s2[2] = u
  <2>0. Len(s1) + 1 = 2 /\ 1 \in 1..Len(s1)
    OBVIOUS
  <2>1. Len(s2) = 2 /\ s2[1] = s1[1] /\ s2[2] = u
    <3>1. /\ Len(Append(s1, u)) = Len(s1) + 1 /\ Append(s1, u)[Len(s1) + 1] = u
          /\ Append(s1, u)[1] = s1[1]
      BY <2>0, LineJoins
    <3> QED
      BY <2>0, <3>1
  <2>2. IsJournal(s2) /\ IsLast(s2, Len(s1) + 1)
    BY EntryAppended
  <2> QED
    BY <2>1, <2>2
<1>u. s2 \in Seq(Lines)
  BY <1>3 DEF IsJournal
<1>4. IsJournal(s3) /\ IsLast(s3, 3) /\ Len(s3) = 3 /\ s3[1] = s1[1] /\ s3[2] = u /\ s3[3] = r
  <2>0. Len(s2) + 1 = 3 /\ 1 \in 1..Len(s2) /\ 2 \in 1..Len(s2)
    BY <1>3
  <2>1. Len(s3) = 3 /\ s3[1] = s1[1] /\ s3[2] = u /\ s3[3] = r
    BY <1>3, <1>u, <2>0, LineJoins
  <2>2. r.parent = s2[2].id /\ r.kind # s2[2].kind /\ 2 \in Places(s2)
    BY <1>3 DEF IsLast
  <2>3. IsJournal(s3) /\ IsLast(s3, Len(s2) + 1)
    BY <1>3, <2>2, EntryAppended
  <2> QED
    BY <1>3, <2>1, <2>3
<1>5. ASSUME NEW s \in Seq(Lines), NEW b \in BOOLEAN, s # <<>>
      PROVE  Joined(file, s, b) = [exists |-> TRUE, terminated |-> b, lines |-> s]
  <2>1. <<>> \o s = s
    OBVIOUS
  <2> QED
    BY <1>5, <2>1 DEF Joined, Missing
<1>7. /\ s1 \in Seq(Lines) /\ s2 \in Seq(Lines) /\ s3 \in Seq(Lines)
      /\ s1 # <<>> /\ s2 # <<>> /\ s3 # <<>>
  BY <1>3, <1>4 DEF IsJournal
<1>9. /\ 0 .. Len(s3) - 1 = {0, 1, 2}
      /\ SubSeq(s3, 1, 0) = <<>> /\ SubSeq(s3, 1, 1) = s1
      /\ SubSeq(s3, 1, 2) = s2 /\ SubSeq(s3, 1, 3) = s3
  <2>1. /\ Len(s3) = 3 /\ s3[1] = s1[1] /\ s3[2] = u /\ s3[3] = r
        /\ Len(s2) = 2 /\ s2[1] = s1[1] /\ s2[2] = u
    BY <1>3, <1>4
  <2>2. ASSUME NEW s \in Seq(Lines), NEW m \in {1, 2, 3}, Len(s) = m, \A n \in 1..m : s[n] = s3[n]
        PROVE  SubSeq(s3, 1, m) = s
    <3>1. \A n \in 1..m : s3[n] \in Lines
      BY <1>7, <2>1
    <3>2. /\ SubSeq(s3, 1, m) \in Seq(Lines) /\ Len(SubSeq(s3, 1, m)) = m
          /\ \A n \in 1..m : SubSeq(s3, 1, m)[n] = s3[n]
      <4>2. 1 \in Int /\ m \in Int /\ 1 <= m /\ m - 1 + 1 = m
        OBVIOUS
      <4>3. /\ SubSeq(s3, 1, m) \in Seq(Lines) /\ Len(SubSeq(s3, 1, m)) = m
            /\ \A n \in 1..m : SubSeq(s3, 1, m)[n] = s3[1 + n - 1]
        BY <3>1, <4>2, SubSeqProperties
      <4>4. \A n \in 1..m : 1 + n - 1 = n
        BY <4>2
      <4> QED
        BY <4>3, <4>4
    <3> HIDE DEF Lines
    <3> QED
      BY <2>2, <3>2, SeqEqual
  <2>3. SubSeq(s3, 1, 0) = <<>>
    BY SubSeqEmpty
  <2>4. SubSeq(s3, 1, 1) = s1
    BY <1>7, <2>1, <2>2
  <2>5. SubSeq(s3, 1, 2) = s2
    BY <1>7, <2>1, <2>2
  <2>6. SubSeq(s3, 1, 3) = s3
    BY <1>7, <2>1, <2>2
  <2>7. 0 .. Len(s3) - 1 = {0, 1, 2}
    BY <2>1
  <2> QED
    BY <2>3, <2>4, <2>5, <2>6, <2>7
<1>a. <<>> \in Seq(Lines)
  OBVIOUS
<1>10. ASSUME NEW s \in {<<>>, s1, s2}
       PROVE  /\ s \o <<Damaged>> \in Seq(Lines)
              /\ s \o <<Damaged>> # <<>> /\ IsJournal(s \o <<Damaged>>)
  <2>1. s \in Seq(Lines) /\ IsJournal(s)
    BY <1>1, <1>3, <1>7, <1>a
  <2>2. /\ s \o <<Damaged>> = Append(s, Damaged) /\ Append(s, Damaged) \in Seq(Lines)
        /\ Append(s, Damaged) # <<>>
    BY <2>1, HeaderAndDamage
  <2> QED
    BY <2>1, <2>2, LineAppended, HeaderAndDamage
<1>11. ASSUME NEW f \in CutShort(file, s3)
       PROVE  /\ f \in [exists : {TRUE}, lines : Seq(Lines), terminated : BOOLEAN]
              /\ IsJournal(f.lines)
  <2> DEFINE Fine == {g \in [exists : {TRUE}, lines : Seq(Lines), terminated : BOOLEAN] :
                         IsJournal(g.lines)}
  <2>1. ASSUME NEW s \in Seq(Lines), NEW b \in BOOLEAN, s # <<>>, IsJournal(s)
        PROVE  Joined(file, s, b) \in Fine
    <3>1. Joined(file, s, b) = [exists |-> TRUE, terminated |-> b, lines |-> s]
      BY <1>5, <2>1
    <3>2. Joined(file, s, b).lines = s
      BY <3>1
    <3> QED
      BY <2>1, <3>1, <3>2
  <2>2. Joined(file, <<>>, TRUE) \in Fine
    <3>1. Joined(file, <<>>, TRUE) = [file EXCEPT !.exists = TRUE]
      BY DEF Joined
    <3>2. [file EXCEPT !.exists = TRUE] \in Fine
      <4>1. file \in [exists : BOOLEAN, lines : Seq(Lines), terminated : BOOLEAN]
          /\ file.lines = <<>>
        BY <1>a DEF Missing
      <4>2. [file EXCEPT !.exists = TRUE].lines = file.lines
        BY <4>1
      <4> QED
        BY <1>1, <4>1, <4>2
    <3> QED
      BY <3>1, <3>2
  <2>3. ASSUME NEW b \in BOOLEAN
        PROVE  Joined(file, s1, b) \in Fine /\ Joined(file, s2, b) \in Fine /\ Joined(file, s3,
            b) \in Fine
    BY <1>3, <1>4, <1>7, <2>1
  <2>4. ASSUME NEW s \in {<<>>, s1, s2} PROVE Joined(file, s \o <<Damaged>>, FALSE) \in Fine
    BY <1>10, <2>1
  <2> HIDE DEF Fine
  <2>5. ASSUME NEW k \in {0, 1, 2}
        PROVE  /\ Joined(file, SubSeq(s3, 1, k), TRUE) \in Fine
               /\ Joined(file, SubSeq(s3, 1, k) \o <<Damaged>>, FALSE) \in Fine
               /\ Joined(file, SubSeq(s3, 1, k + 1), FALSE) \in Fine
    <3>1. CASE k = 0
      <4>1. SubSeq(s3, 1, k) = <<>> /\ SubSeq(s3, 1, k + 1) = s1
        BY <1>9, <3>1
      <4> QED
        BY <2>2, <2>3, <2>4, <4>1
    <3>2. CASE k = 1
      <4>1. SubSeq(s3, 1, k) = s1 /\ SubSeq(s3, 1, k + 1) = s2
        BY <1>9, <3>2
      <4> QED
        BY <2>3, <2>4, <4>1
    <3>3. CASE k = 2
      <4>1. SubSeq(s3, 1, k) = s2 /\ SubSeq(s3, 1, k + 1) = s3
        BY <1>9, <3>3
      <4> QED
        BY <2>3, <2>4, <4>1
    <3> QED
      BY <3>1, <3>2, <3>3
  <2>6. Joined(file, s3, TRUE) \in Fine
    BY <2>3
  <2>7. CutShort(file, s3) \subseteq Fine
    <3>1. ASSUME NEW k \in 0 .. Len(s3) - 1
          PROVE  /\ Joined(file, SubSeq(s3, 1, k), TRUE) \in Fine
                 /\ Joined(file, SubSeq(s3, 1, k) \o <<Damaged>>, FALSE) \in Fine
                 /\ Joined(file, SubSeq(s3, 1, k + 1), FALSE) \in Fine
      <4>1. k \in {0, 1, 2}
        BY <1>9
      <4> QED
        BY <2>5, <4>1, Zenon
    <3> QED
      BY <2>6, <3>1, CutShortWithin
  <2>8. f \in Fine
    BY <1>11, <2>7
  <2> QED
    BY <2>8 DEF Fine
<1>12. Joined(file, s3, TRUE) = [exists |-> TRUE, terminated |-> TRUE, lines |-> s3]
  BY <1>5, <1>7
<1> QED
  BY <1>4, <1>11, <1>12

\* A writer that has the file open, or holds back what it is given.
LEMMA WriterSet ==
    ASSUME NEW a \in Writers, NEW line \in Lines
    PROVE  /\ [a EXCEPT !.open = TRUE, !.pending = <<>>] \in Writers
           /\ [a EXCEPT !.open = TRUE, !.pending = <<>>].open
           /\ [a EXCEPT !.open = TRUE, !.pending = <<>>].entries = a.entries
           /\ [a EXCEPT !.open = TRUE, !.pending = <<>>].last = a.last
           /\ [a EXCEPT !.open = TRUE, !.pending = <<>>].awaiting = a.awaiting
           /\ [a EXCEPT !.pending = <<line>>] \in Writers
           /\ [a EXCEPT !.pending = <<line>>].pending = <<line>>
           /\ [a EXCEPT !.pending = <<line>>].open = a.open
           /\ [a EXCEPT !.pending = <<line>>].entries = a.entries
           /\ [a EXCEPT !.pending = <<line>>].last = a.last
           /\ [a EXCEPT !.pending = <<line>>].awaiting = a.awaiting
<1>1. <<line>> \in Seq(Lines) /\ <<>> \in Seq(Lines)
  OBVIOUS
<1> HIDE DEF Lines
<1>2. [a EXCEPT !.open = TRUE, !.pending = <<>>] \in Writers
  BY <1>1 DEF Writers
<1>3. [a EXCEPT !.pending = <<line>>] \in Writers
  BY <1>1 DEF Writers
<1>4. [a EXCEPT !.pending = <<line>>].pending = <<line>>
  BY DEF Writers
<1> QED
  BY <1>2, <1>3, <1>4 DEF Writers

\* The file, a turn's place and its writer are what they may be.
LEMMA TypeKept ==
    ASSUME JournalTypeOK, NEW t \in Turns, NEW w \in Writers,
           NEW where \in {"asking", "generating", "done", "over"},
           place' = [place EXCEPT ![t] = where], writer' = [writer EXCEPT ![t] = w],
           file' \in [exists : {TRUE}, lines : Seq(Lines), terminated : BOOLEAN] \/ file' = file
    PROVE  JournalTypeOK'
<1>1. /\ file' \in [exists : BOOLEAN, lines : Seq(Lines), terminated : BOOLEAN]
      /\ ~file'.exists => file' = Missing
  BY DEF JournalTypeOK
<1>2. /\ place' \in [Turns -> {"idle", "reading", "opening", "creating", "mending", "closing",
                               "asking", "generating", "done", "over"}]
      /\ writer' \in [Turns -> Writers]
  BY DEF JournalTypeOK
<1> QED
  BY <1>1, <1>2 DEF JournalTypeOK

\* The entry that a turn appends follows what its writer remembers.
LEMMA NextEntryFollows ==
    ASSUME NEW lines, IsJournal(lines), lines # <<>>, NEW w, Remembers(w, lines),
           NEW entry \in Lines, IsEntry(entry), entry.id = w.entries + 1, entry.parent = w.last,
           entry.kind = "user" <=> ~w.awaiting
    PROVE  /\ IsJournal(Append(lines, entry))
           /\ IsLast(Append(lines, entry), Len(lines) + 1)
           /\ Len(Append(lines, entry)) = Len(lines) + 1
           /\ Append(lines, entry)[Len(lines) + 1] = entry
<1>1. lines \in Seq(Lines) /\ Len(lines) \in Nat \ {0}
  BY DEF IsJournal
<1>2. entry.id = Len(lines)
  BY <1>1 DEF Remembers
<1>3. \A i \in Places(lines) : lines[i].kind \in {"user", "reply"}
  BY DEF Places, IsEntry
<1>4. \/ Places(lines) = {} /\ entry.parent = 0
      \/ \E i \in Places(lines) :
            IsLast(lines, i) /\ entry.parent = lines[i].id /\ entry.kind # lines[i].kind
  BY <1>3 DEF Remembers, IsEntry
<1> QED
  BY <1>1, <1>2, <1>4, EntryAppended, LineJoins

\* A turn appends: to the file, or to what waits, or it is cut short.
LEMMA Appended ==
    ASSUME JournalIInv, NEW t \in Turns, NEW kind \in {"user", "reply"},
           NEW stop \in Stops \cup {"none", "interrupted"}, NEW next,
           Append_(t, NextEntry(t, kind, stop), next),
           \/ kind = "reply" /\ place[t] = "closing" /\ writer[t].awaiting /\ next = "asking"
           \/ kind = "user" /\ place[t] = "asking" /\ next = "generating"
           \/ kind = "reply" /\ place[t] = "generating" /\ next = "done"
    PROVE  JournalIInv'
<1> DEFINE w == writer[t]
           entry == NextEntry(t, kind, stop)
           after == Counted(w, entry)
<1>1. /\ w \in Writers /\ TurnFollows(t) /\ IsJournal(file.lines) /\ Running(t)
      /\ file \in [exists : BOOLEAN, lines : Seq(Lines), terminated : BOOLEAN]
      /\ writer = [writer EXCEPT ![t] = w] /\ DOMAIN writer = Turns /\ DOMAIN place = Turns
  BY DEF JournalIInv, JournalTypeOK, Running
<1>2. /\ entry \in Lines /\ IsEntry(entry) /\ entry.kind = kind
      /\ entry.id = w.entries + 1 /\ entry.parent = w.last
  BY <1>1 DEF NextEntry, Line, Lines, IsEntry, Writers
<1>3. kind = "user" <=> ~w.awaiting
  BY <1>1 DEF TurnFollows
<1>4. next \in {"asking", "generating", "done"} /\ place[t] \in Writing \ {"mending"}
  BY DEF Writing
<1> HIDE DEF entry
<1>5. /\ after \in Writers /\ after.entries = w.entries + 1 /\ after.last = entry.id
      /\ (after.awaiting <=> kind = "user") /\ after.open = w.open /\ after.pending = w.pending
  <2>1. (entry.kind = "user") \in BOOLEAN /\ entry.id \in Nat /\ w.entries + 1 \in Nat
    BY <1>1, <1>2 DEF Lines, Writers
  <2> QED
    BY <1>1, <1>2, <2>1 DEF Counted, Writers
<1> HIDE DEF after
<1>6. ASSUME place' = [place EXCEPT ![t] = "over"], writer' = writer, acked' = acked,
             file' \in [exists : BOOLEAN, lines : Seq(Lines), terminated : BOOLEAN],
             ~file'.exists => file' = Missing,
             IsJournal(file'.lines), Range(file.lines) \subseteq Range(file'.lines)
      PROVE  JournalIInv'
  <2>1. JournalTypeOK' /\ AckedEntriesAreKept'
    BY <1>6 DEF JournalIInv, JournalTypeOK, AckedEntriesAreKept
  <2>2. TurnFollows(t)'
    BY <1>1, <1>6 DEF TurnFollows, Writing
  <2> QED
    BY <1>1, <1>6, <2>1, <2>2, TurnMoves
<1>7. CASE w.open
  <2>1. /\ file.exists /\ file.lines # <<>> /\ file.terminated /\ Remembers(w, file.lines)
    BY <1>1, <1>4, <1>7 DEF TurnFollows
  <2> DEFINE n == Len(file.lines)
             new == Append(file.lines, entry)
  <2>2. /\ IsJournal(new) /\ IsLast(new, n + 1) /\ Len(new) = n + 1 /\ new[n + 1] = entry
        /\ n \in Nat \ {0} /\ new \in Seq(Lines) /\ new # <<>>
    BY <1>1, <1>2, <1>3, <2>1, NextEntryFollows, LineJoins
  <2>3. ASSUME NEW l \in Lines
        PROVE  Range(file.lines) \subseteq Range(Append(file.lines, l))
            /\ l \in Range(Append(file.lines, l))
    BY <1>1, SMTT(30) DEF Range
  <2>4. \/ /\ file' = Joined(file, <<entry>>, TRUE)
           /\ writer' = [writer EXCEPT ![t] = [after EXCEPT !.open = TRUE, !.pending = <<>>]]
           /\ acked' = acked \cup {l \in Range(<<entry>>) : IsEntry(l)}
           /\ place' = [place EXCEPT ![t] = next]
        \/ /\ file' \in CutShort(file, <<entry>>)
           /\ place' = [place EXCEPT ![t] = "over"]
           /\ writer' = writer /\ acked' = acked
    BY <1>7 DEF Append_, Goto, entry, after, w
  <2>5. CASE /\ file' = Joined(file, <<entry>>, TRUE)
             /\ writer' = [writer EXCEPT ![t] = [after EXCEPT !.open = TRUE, !.pending = <<>>]]
             /\ acked' = acked \cup {l \in Range(<<entry>>) : IsEntry(l)}
             /\ place' = [place EXCEPT ![t] = next]
    <3> DEFINE to == [after EXCEPT !.open = TRUE, !.pending = <<>>]
    <3>1. file' = [exists |-> TRUE, terminated |-> TRUE, lines |-> new]
      BY <1>1, <1>2, <2>1, <2>5, OneLineJoined
    <3>2. /\ to \in Writers /\ to.open /\ to.entries = w.entries + 1 /\ to.last = entry.id
          /\ to.awaiting = after.awaiting
      BY <1>2, <1>5, WriterSet
    <3>3. Remembers(to, new)
      <4>1. to.entries = Len(new) - 1 /\ to.last = new[n + 1].id
        BY <2>1, <2>2, <3>2, <1>1 DEF Remembers, Writers
      <4>2. to.awaiting <=> new[n + 1].kind = "user"
        BY <1>2, <1>5, <2>2, <3>2
      <4>3. n + 1 \in Places(new) /\ IsLast(new, n + 1)
        BY <2>2 DEF IsLast
      <4> HIDE DEF to, new, n
      <4> QED
        BY <4>1, <4>2, <4>3 DEF Remembers
    <3>4. writer' = [writer EXCEPT ![t] = to] /\ writer'[t] = to /\ place'[t] = next
      BY <1>1, <2>5
    <3>5. to.awaiting <=> kind = "user"
      BY <1>5, <3>2
    <3> HIDE DEF to, new, n
    <3>6. file'.exists /\ file'.terminated /\ file'.lines = new
      BY <3>1
    <3>7. JournalTypeOK'
      <4>1. file' \in [exists : {TRUE}, lines : Seq(Lines), terminated : BOOLEAN]
        BY <2>2, <3>1
      <4> QED
        BY <1>4, <2>5, <3>2, <3>4, <4>1, TypeKept, ZenonT(60) DEF JournalIInv
    <3>8. AckedEntriesAreKept'
      <4>1. Range(<<entry>>) = {entry}
        BY DEF Range
      <4>2. Range(file.lines) \subseteq Range(new) /\ entry \in Range(new)
        BY <1>2, <2>3 DEF new
      <4> QED
        BY <2>5, <3>6, <4>1, <4>2 DEF JournalIInv, AckedEntriesAreKept
    <3>9. TurnFollows(t)'
      BY <1>4, <2>2, <3>2, <3>3, <3>4, <3>5, <3>6 DEF TurnFollows
    <3> QED
      <4>1. IsJournal(file'.lines) /\ place' = [place EXCEPT ![t] = next]
        BY <2>2, <2>5, <3>6
      <4> QED
        BY <1>1, <3>2, <3>4, <3>7, <3>8, <3>9, <4>1, TurnMoves
  <2>6. CASE /\ file' \in CutShort(file, <<entry>>)
             /\ place' = [place EXCEPT ![t] = "over"]
             /\ writer' = writer /\ acked' = acked
    <3>1. /\ file' \in [exists : {TRUE}, lines : Seq(Lines), terminated : BOOLEAN]
          /\ file'.lines \in {file.lines, Append(file.lines, entry), Append(file.lines, Damaged)}
      BY <1>1, <1>2, <2>1, <2>6, OneLineJoined
    <3>2. IsJournal(Append(file.lines, Damaged))
      BY <1>1, HeaderAndDamage, LineAppended
    <3>3. IsJournal(file'.lines) /\ Range(file.lines) \subseteq Range(file'.lines)
      BY <1>1, <1>2, <2>2, <2>3, <3>1, <3>2, HeaderAndDamage
    <3>4. /\ file' \in [exists : BOOLEAN, lines : Seq(Lines), terminated : BOOLEAN]
          /\ file'.exists
      BY <3>1
    <3> QED
      BY <1>6, <2>6, <3>3, <3>4
  <2> QED
    BY <2>4, <2>5, <2>6
<1>8. CASE ~w.open
  <2>1. /\ place[t] \in {"asking", "generating"} /\ ~file.exists /\ Waits(t) /\ file = Missing
    BY <1>1, <1>4, <1>8 DEF TurnFollows, JournalIInv, JournalTypeOK
  <2>2. CASE kind = "user"
    <3> DEFINE to == [after EXCEPT !.pending = <<entry>>]
    <3>1. /\ w.pending = <<>> /\ w.entries = 0 /\ w.last = 0
      BY <2>1, <2>2 DEF Waits
    <3>2. /\ writer' = [writer EXCEPT ![t] = to]
          /\ place' = [place EXCEPT ![t] = next] /\ file' = file /\ acked' = acked
      <4>1. Append(<<>>, entry) = <<entry>>
        OBVIOUS
      <4>2. /\ writer' = [writer EXCEPT ![t] = [after EXCEPT !.pending = Append(after.pending,
               entry)]]
            /\ place' = [place EXCEPT ![t] = next] /\ file' = file /\ acked' = acked
        BY <1>2, <1>8, <2>2 DEF Append_, Goto, entry, after, w
      <4> QED
        BY <1>5, <3>1, <4>1, <4>2
    <3>3. /\ to \in Writers /\ to.entries = 1 /\ to.last = 1 /\ to.awaiting
          /\ to.pending = <<entry>> /\ to.open = w.open
      <4>1. after \in Writers /\ entry \in Lines
        BY <1>2, <1>5
      <4>2. /\ after.entries = w.entries + 1 /\ after.last = entry.id
            /\ after.open = w.open /\ entry.id = w.entries + 1
            /\ after.awaiting
        BY <1>2, <1>5, <2>2
      <4> HIDE DEF after, entry
      <4>3. /\ to \in Writers /\ to.entries = after.entries /\ to.last = after.last
            /\ to.awaiting = after.awaiting /\ to.pending = <<entry>> /\ to.open = after.open
        BY <4>1, WriterSet
      <4> HIDE DEF to
      <4>4. w.entries + 1 = 1
        BY <3>1
      <4> QED
        BY <4>2, <4>3, <4>4
    <3> HIDE DEF to
    <3>4. writer'[t] = to /\ place'[t] = "generating"
      BY <1>1, <2>2, <3>2
    <3>5. JournalTypeOK' /\ AckedEntriesAreKept'
      BY <1>4, <3>2, <3>3 DEF JournalIInv, JournalTypeOK, AckedEntriesAreKept
    <3>6. Waits(t)'
      <4>1. entry \in Lines /\ IsEntry(entry) /\ entry.kind = "user" /\ entry.id = 1
          /\ entry.parent = 0
        BY <1>2, <2>2, <3>1
      <4> QED
        BY <3>3, <3>4, <4>1 DEF Waits
    <3>7. TurnFollows(t)'
      BY <1>8, <2>1, <3>2, <3>3, <3>4, <3>6 DEF TurnFollows
    <3> QED
      BY <1>1, <3>2, <3>3, <3>5, <3>7, TurnMoves
  <2>3. CASE kind = "reply"
    <3>1. PICK u \in Lines : /\ IsEntry(u) /\ u.kind = "user" /\ u.id = 1 /\ u.parent = 0
                             /\ w.pending = <<u>> /\ w.entries = 1 /\ w.last = 1
      BY <1>8, <2>1, <2>3 DEF Waits
    <3> DEFINE s1 == <<Header>>
               s2 == Append(s1, u)
               s3 == Append(s2, entry)
    <3>2. <<Header>> \o w.pending \o <<entry>> = s3
      <4>1. s1 \in Seq(Lines) /\ s1 \o <<u>> = s2 /\ s2 \in Seq(Lines) /\ s2 \o <<entry>> = s3
        BY <1>2, HeaderAlone, LineJoins
      <4> QED
        BY <3>1, <4>1
    <3>3. /\ Joined(file, s3, TRUE) = [exists |-> TRUE, terminated |-> TRUE, lines |-> s3]
          /\ IsJournal(s3)
          /\ Len(s3) = 3 /\ s3[1] = Header /\ s3[2] = u /\ s3[3] = entry
          /\ \A f \in CutShort(file, s3) :
                /\ f \in [exists : {TRUE}, lines : Seq(Lines), terminated : BOOLEAN]
                /\ IsJournal(f.lines)
      <4>1. s1 \in Seq(Lines) /\ IsJournal(s1) /\ Places(s1) = {} /\ Len(s1) = 1 /\ s1[1] = Header
        BY HeaderAlone
      <4>2. entry.id = 2 /\ entry.parent = 1 /\ entry.kind = "reply"
        BY <1>2, <2>3, <3>1
      <4>3. s2 = Append(s1, u) /\ s3 = Append(s2, entry)
        OBVIOUS
      <4>4. entry \in Lines /\ IsEntry(entry)
        BY <1>2
      <4>5. file = Missing
        BY <2>1
      <4> HIDE DEF s1, s2, s3, entry
      <4> QED
        <5>1. IsJournal(s3)
          BY <3>1, <4>1, <4>2, <4>3, <4>4, <4>5, JournalMade
        <5>2. Len(s3) = 3 /\ s3[1] = Header /\ s3[2] = u /\ s3[3] = entry
          <6>1. s2 \in Seq(Lines) /\ Len(s2) = 2 /\ s2[1] = Header /\ s2[2] = u
            <7>1. Len(s1) + 1 = 2 /\ 1 \in 1..Len(s1)
              BY <4>1
            <7> HIDE DEF Header
            <7> QED
              BY <3>1, <4>1, <4>3, <7>1, LineJoins, ZenonT(60)
          <6>2. Len(s2) + 1 = 3 /\ 1 \in 1..Len(s2) /\ 2 \in 1..Len(s2)
            BY <6>1
          <6> HIDE DEF Header
          <6> QED
            BY <4>3, <4>4, <6>1, <6>2, LineJoins
        <5>3. Joined(file, s3, TRUE) = [exists |-> TRUE, terminated |-> TRUE, lines |-> s3]
          <6>1. ASSUME NEW b \in BOOLEAN
                PROVE  Joined(file, s3, b) = [exists |-> TRUE, terminated |-> b, lines |-> s3]
            <7>1. s3 \in Seq(Lines) /\ s3 # <<>>
              BY <5>1, <5>2 DEF IsJournal
            <7>2. <<>> \o s3 = s3
              BY <7>1
            <7> QED
              BY <4>5, <7>1, <7>2 DEF Joined, Missing
          <6> QED
            BY <6>1
        <5>4. ASSUME NEW f \in CutShort(file, s3)
              PROVE  /\ f \in [exists : {TRUE}, lines : Seq(Lines), terminated : BOOLEAN]
                     /\ IsJournal(f.lines)
          BY <3>1, <4>1, <4>2, <4>3, <4>4, <4>5, JournalMade
        <5> QED
          BY <5>1, <5>2, <5>3, <5>4
    <3> HIDE DEF s1, s2, s3
    <3>4. \/ /\ file' = Joined(file, s3, TRUE)
             /\ writer' = [writer EXCEPT ![t] = [after EXCEPT !.open = TRUE, !.pending = <<>>]]
             /\ acked' = acked \cup {l \in Range(s3) : IsEntry(l)}
             /\ place' = [place EXCEPT ![t] = next]
          \/ /\ file' \in CutShort(file, s3)
             /\ place' = [place EXCEPT ![t] = "over"]
             /\ writer' = writer /\ acked' = acked
      <4>1. entry.kind = "reply"
        BY <1>2, <2>3
      <4> QED
        BY <1>8, <2>1, <3>2, <4>1 DEF Append_, Goto, entry, after, w
    <3>5. CASE /\ file' = Joined(file, s3, TRUE)
               /\ writer' = [writer EXCEPT ![t] = [after EXCEPT !.open = TRUE, !.pending = <<>>]]
               /\ acked' = acked \cup {l \in Range(s3) : IsEntry(l)}
               /\ place' = [place EXCEPT ![t] = next]
      <4> DEFINE to == [after EXCEPT !.open = TRUE, !.pending = <<>>]
      <4>1. file' = [exists |-> TRUE, terminated |-> TRUE, lines |-> s3]
        BY <3>3, <3>5
      <4>2. to \in Writers
        BY <1>2, <1>5, WriterSet
      <4>3. next = "done"
        BY <2>1, <2>3
      <4>4. place'[t] = "done" /\ writer' = [writer EXCEPT ![t] = to]
        BY <1>1, <3>5, <4>3
      <4> HIDE DEF to
      <4>5. file'.exists /\ file'.lines = s3
        BY <4>1
      <4>6. s3 \in Seq(Lines)
        BY <3>3 DEF IsJournal
      <4>7. JournalTypeOK'
        <5>1. file' \in [exists : {TRUE}, lines : Seq(Lines), terminated : BOOLEAN]
          BY <4>1, <4>6
        <5> QED
          BY <1>4, <3>5, <4>2, <4>4, <5>1, TypeKept DEF JournalIInv
      <4>8. AckedEntriesAreKept'
        <5>1. acked = {}
          BY <2>1 DEF JournalIInv, AckedEntriesAreKept, Missing, Range
        <5> QED
          BY <3>5, <4>5, <5>1 DEF AckedEntriesAreKept
      <4>9. TurnFollows(t)'
        BY <4>4 DEF TurnFollows, Writing
      <4> QED
        BY <1>1, <3>3, <3>5, <4>2, <4>4, <4>5, <4>7, <4>8, <4>9, TurnMoves, ZenonT(60)
    <3>6. CASE /\ file' \in CutShort(file, s3)
               /\ place' = [place EXCEPT ![t] = "over"]
               /\ writer' = writer /\ acked' = acked
      <4>1. /\ file' \in [exists : {TRUE}, lines : Seq(Lines), terminated : BOOLEAN]
            /\ IsJournal(file'.lines)
        BY <3>3, <3>6
      <4>2. Range(file.lines) = {}
        BY <2>1 DEF Missing, Range
      <4>3. /\ file' \in [exists : BOOLEAN, lines : Seq(Lines), terminated : BOOLEAN]
            /\ file'.exists
        BY <4>1
      <4> QED
        BY <1>6, <3>6, <4>1, <4>2, <4>3
    <3> QED
      BY <3>4, <3>5, <3>6
  <2> QED
    BY <2>2, <2>3
<1> QED
  BY <1>7, <1>8

\* Every step of a turn keeps the invariant, if turns come one after another.
LEMMA JournalNext ==
    ASSUME JournalIInv, OneAtATime, [Next]_vars
    PROVE  JournalIInv'
<1>1. ASSUME NEW t \in Turns, CloseInterruptedTurn(t) PROVE JournalIInv'
  <2>1. CASE writer[t].awaiting /\ Append_(t, NextEntry(t, "reply", "interrupted"), "asking")
    BY <1>1, <2>1, Appended DEF CloseInterruptedTurn
  <2>2. CASE ~writer[t].awaiting /\ Goto(t, "asking") /\ UNCHANGED <<file, writer, acked>>
    <3>1. /\ writer[t] \in Writers /\ TurnFollows(t) /\ IsJournal(file.lines)
          /\ writer' = [writer EXCEPT ![t] = writer[t]] /\ place'[t] = "asking"
          /\ place[t] = "closing" /\ writer'[t] = writer[t] /\ file' = file
      BY <1>1, <2>2 DEF CloseInterruptedTurn, Goto, JournalIInv, JournalTypeOK
    <3>2. JournalTypeOK' /\ AckedEntriesAreKept'
      BY <2>2, <3>1 DEF Goto, JournalIInv, JournalTypeOK, AckedEntriesAreKept
    <3>3. TurnFollows(t)'
      BY <2>2, <3>1 DEF TurnFollows, Writing
    <3> QED
      BY <2>2, <3>1, <3>2, <3>3, TurnMoves DEF Goto, Running
  <2> QED
    BY <1>1, <2>1, <2>2 DEF CloseInterruptedTurn
<1>2. ASSUME NEW t \in Turns, Ask(t) PROVE JournalIInv'
  BY <1>2, Appended DEF Ask
<1>3. ASSUME NEW t \in Turns, Reply(t) PROVE JournalIInv'
  BY <1>3, Appended DEF Reply
<1>4. CASE UNCHANGED vars
  BY <1>4 DEF vars, JournalIInv, JournalTypeOK, Running, AckedEntriesAreKept, TurnFollows, Waits
<1> QED
  BY <1>1, <1>2, <1>3, <1>4, TurnBegins DEF Next

\* What the invariant says of the journal.
LEMMA JournalHeld == JournalIInv => JournalHolds
<1> SUFFICES ASSUME JournalIInv PROVE JournalHolds
  OBVIOUS
<1>1. \A i \in Places(file.lines) : i \in Int /\ file.lines[i].id = i - 1
  BY DEF JournalIInv, IsJournal, Places
<1>2. IdsAreUnique
  BY <1>1 DEF IdsAreUnique
<1> QED
  BY <1>2 DEF JournalIInv, IsJournal, JournalHolds, EntriesFormAChain

-----------------------------------------------------------------------------
(* The board.                                                               *)

Records == [from : Board!States, to : Board!States, by : Actors]
BoardCards == [is : {"card"}, ref : Nat, state : Board!States, history : Seq(Records)]
BoardFiles == {Board!NoFile, Board!Empty} \cup BoardCards

OpeningVerbs == [step : {"open"}, id : CardIds, card : BoardCards, moved : BOOLEAN]
FillingVerbs == [step : {"fill"}, id : CardIds, card : BoardCards, moved : BOOLEAN,
                 file : {"cards", "archive", "gone"}]
LoggingVerbs == [step : {"log"}, id : CardIds, card : BoardCards]
ArchivingVerbs == [step : {"archive"}, todo : SUBSET CardIds]
BoardVerbs == {Board!Idle} \cup OpeningVerbs \cup FillingVerbs \cup LoggingVerbs \cup ArchivingVerbs

BoardTypeOK ==
    /\ cards \in [CardIds -> BoardFiles] /\ archive \in [CardIds -> BoardFiles]
    /\ events \in [CardIds -> [Board!States -> Nat]]
    /\ verb \in [BoardCalls -> BoardVerbs]
    /\ born \in Nat /\ moves \in Nat /\ faults \in Nat

\* How often a history enters a state, and which verbs have yet to log that a card did.
Entered(h, s) == {i \in 1..Len(h) : h[i].to = s}
Unlogged(id, s) == {v \in BoardCalls : verb[v].step = "log" /\ verb[v].id = id /\ verb[v].card.state = s}

\* What the event log has of a card, with what it may have missed.
Accounted(id, s) == events[id][s] + faults + Cardinality(Unlogged(id, s))

\* A card that no bracketed actor has moved has a legal history with none of their names.
Sound(c) ==
    \/ c.ref \in garbled
    \/ Board!LegalChain(c) /\ \A i \in 1..Len(c.history) : c.history[i].by \notin Bracketed

Fits(id, c) == Sound(c) /\ \A s \in Board!States : Cardinality(Entered(c.history,
    s)) <= Accounted(id, s)

\* A card being saved is one move ahead of the log.
FitsOnceLogged(id, c, moved) ==
    /\ Sound(c)
    /\ \A s \in Board!States :
          Cardinality(Entered(c.history, s))
             <= Accounted(id, s) + (IF moved /\ c.state = s THEN 1 ELSE 0)

BoardIInv ==
    /\ BoardTypeOK
    /\ \A id \in CardIds : /\ cards[id] \in BoardCards => Fits(id, cards[id])
                           /\ archive[id] \in BoardCards => Fits(id, archive[id])
    /\ \A v \in BoardCalls : verb[v].step \in {"open", "fill"} =>
          FitsOnceLogged(verb[v].id, verb[v].card, verb[v].moved)

\* A history enters a state finitely often.
LEMMA EnteredIsFinite ==
    ASSUME NEW h \in Seq(Records), NEW s
    PROVE  IsFiniteSet(Entered(h, s)) /\ Cardinality(Entered(h, s)) \in Nat
<1>1. IsFiniteSet(1..Len(h))
  <2>1. Len(h) \in Int /\ 1 \in Int
    OBVIOUS
  <2> QED
    BY <2>1, FS_Interval
<1>2. Entered(h, s) \subseteq 1..Len(h)
  BY DEF Entered
<1> QED
  BY <1>1, <1>2, FS_Subset, FS_CardinalityType

\* A history that grows by a move enters one state once more.
LEMMA EnteredOnce ==
    ASSUME NEW h \in Seq(Records), NEW r \in Records, NEW s
    PROVE  Cardinality(Entered(Append(h, r), s))
              = Cardinality(Entered(h, s)) + (IF r.to = s THEN 1 ELSE 0)
<1> DEFINE g == Append(h, r)
           n == Len(h)
<1>1. /\ g \in Seq(Records) /\ Len(g) = n + 1 /\ g[n + 1] = r /\ n \in Nat
      /\ \A i \in 1..n : g[i] = h[i]
  BY AppendProperties, LenProperties
<1> HIDE DEF g, n
<1>2. IsFiniteSet(Entered(h, s)) /\ Cardinality(Entered(h, s)) \in Nat
  BY EnteredIsFinite
<1>3. \A i : i \in 1..n + 1 <=> i \in 1..n \/ i = n + 1
  BY <1>1
<1>4. CASE r.to = s
  <2>1. Entered(g, s) = Entered(h, s) \cup {n + 1} /\ n + 1 \notin Entered(h, s)
    BY <1>1, <1>3, <1>4 DEF Entered, n
  <2> QED
    BY <1>2, <1>4, <2>1, FS_AddElement DEF g
<1>5. CASE r.to # s
  <2>1. Entered(g, s) = Entered(h, s)
    BY <1>1, <1>3, <1>5 DEF Entered, n
  <2> QED
    BY <1>2, <1>5, <2>1 DEF g
<1> QED
  BY <1>4, <1>5

\* What from_json reads back of a history: all of it, or what comes before the first
\* bracketed name.
LEMMA ReadBack ==
    ASSUME NEW h \in Seq(Records)
    PROVE  /\ Board!ReadHistory(h) \in Seq(Records)
           /\ \A s : Cardinality(Entered(Board!ReadHistory(h), s)) <= Cardinality(Entered(h, s))
           /\ (\A i \in 1..Len(h) : h[i].by \notin Bracketed) => Board!ReadHistory(h) = h
<1> DEFINE n == Len(h)
<1>0. n \in Nat /\ DOMAIN h = 1..n
  OBVIOUS
<1>1. CASE \A i \in 1..n : h[i].by \notin Bracketed
  <2>1. Board!ReadHistory(h) = h
    BY <1>0, <1>1 DEF Board!ReadHistory
  <2>2. \A s : Cardinality(Entered(h, s)) \in Nat
    BY EnteredIsFinite
  <2> QED
    BY <2>1, <2>2
<1>2. CASE \E i \in 1..n : h[i].by \in Bracketed
  <2> DEFINE First(i) == h[i].by \in Bracketed /\ \A j \in 1..(i - 1) : h[j].by \notin Bracketed
             f == CHOOSE i \in DOMAIN h : First(i)
  <2>1. \E i \in 1..n : First(i)
    <3> DEFINE S == {i \in 1..n : h[i].by \in Bracketed}
    <3>0. S \in SUBSET Nat /\ S # {}
      BY <1>0, <1>2
    <3>1. PICK m \in S : \A k \in S : m <= k
      <4> HIDE DEF S
      <4> QED
        BY <3>0, LeastOfMany
    <3>2. \A j \in 1..(m - 1) : j \in 1..n /\ ~(m <= j)
      BY <1>0
    <3>3. First(m)
      BY <3>1, <3>2
    <3> QED
      BY <3>3
  <2>2. f \in 1..n
    BY <1>0, <2>1
  <2>3. Board!ReadHistory(h) = SubSeq(h, 1, f - 1)
    BY <1>0, <1>2 DEF Board!ReadHistory
  <2> DEFINE k == f - 1
             g == SubSeq(h, 1, k)
  <2> HIDE DEF f
  <2>4. k \in Nat /\ k <= n
    BY <1>0, <2>2
  <2> HIDE DEF k
  <2>5. \A i \in 1..k : i \in 1..n /\ h[i] \in Records
    BY <1>0, <2>4
  <2>6. g \in Seq(Records) /\ Len(g) = k /\ \A i \in 1..k : g[i] = h[i]
    BY <2>4, <2>5, SubSeqProperties
  <2>7. ASSUME NEW s
        PROVE  Cardinality(Entered(g, s)) <= Cardinality(Entered(h, s))
    <3> HIDE DEF g
    <3>1. Entered(g, s) \subseteq Entered(h, s)
      BY <2>5, <2>6 DEF Entered
    <3>2. IsFiniteSet(Entered(h, s)) /\ IsFiniteSet(Entered(g, s))
      BY <2>6, EnteredIsFinite
    <3> QED
      BY <3>1, <3>2, FS_Subset
  <2>8. Board!ReadHistory(h) = g
    BY <2>3 DEF k
  <2> QED
    BY <1>2, <2>6, <2>7, <2>8
<1> QED
  BY <1>1, <1>2

\* The set of verbs with a line to log, and what is accounted for.
LEMMA AccountedIsNatural ==
    ASSUME BoardTypeOK, NEW id \in CardIds, NEW s \in Board!States
    PROVE  /\ Accounted(id, s) \in Nat /\ events[id][s] \in Nat /\ faults \in Nat
           /\ IsFiniteSet(Unlogged(id, s)) /\ Cardinality(Unlogged(id, s)) \in Nat
<1>1. IsFiniteSet(BoardCalls)
  BY PartsAssumption DEF Board!BoardAssumption, Board!IsFiniteSet, IsFiniteSet
<1>2. Unlogged(id, s) \subseteq BoardCalls
  BY DEF Unlogged
<1>3. IsFiniteSet(Unlogged(id, s)) /\ Cardinality(Unlogged(id, s)) \in Nat
  BY <1>1, <1>2, FS_Subset, FS_CardinalityType
<1>4. events[id][s] \in Nat /\ faults \in Nat
  BY DEF BoardTypeOK
<1> QED
  BY <1>3, <1>4 DEF Accounted

\* Nothing that was accounted for is lost as long as no verb forgets what it has to log.
LEMMA AccountedStays ==
    ASSUME BoardTypeOK, BoardTypeOK', NEW id \in CardIds, NEW s \in Board!States,
           events'[id][s] >= events[id][s], faults' >= faults,
           Unlogged(id, s) \subseteq Unlogged(id, s)'
    PROVE  Accounted(id, s) <= Accounted(id, s)'
<1>1. IsFiniteSet(BoardCalls)
  BY PartsAssumption DEF Board!BoardAssumption, Board!IsFiniteSet, IsFiniteSet
<1>2. IsFiniteSet(Unlogged(id, s)')
  <2>1. Unlogged(id, s)' \subseteq BoardCalls
    BY DEF Unlogged
  <2> QED
    BY <1>1, <2>1, FS_Subset
<1>3. /\ Cardinality(Unlogged(id, s)) <= Cardinality(Unlogged(id, s)')
      /\ Cardinality(Unlogged(id, s)) \in Nat /\ Cardinality(Unlogged(id, s)') \in Nat
  BY <1>2, FS_Subset, FS_CardinalityType
<1>4. /\ events[id][s] \in Nat /\ faults \in Nat /\ events'[id][s] \in Nat /\ faults' \in Nat
  BY DEF BoardTypeOK
<1>5. Accounted(id, s)' = events'[id][s] + faults' + Cardinality(Unlogged(id, s)')
  BY DEF Accounted
<1> QED
  BY <1>3, <1>4, <1>5 DEF Accounted

\* A verb that logs, or ends, makes up for the line it had to log.
LEMMA AccountedMadeUp ==
    ASSUME BoardTypeOK, BoardTypeOK', NEW v \in BoardCalls, NEW id \in CardIds, NEW s \in Board!States,
           Unlogged(id, s)' = Unlogged(id, s) \ {v},
           events'[id][s] >= events[id][s], faults' >= faults,
           v \in Unlogged(id, s) =>
              events'[id][s] + faults' = events[id][s] + faults + 1
    PROVE  Accounted(id, s) <= Accounted(id, s)'
<1>1. /\ IsFiniteSet(Unlogged(id, s)) /\ Cardinality(Unlogged(id, s)) \in Nat
  BY AccountedIsNatural
<1>2. CASE v \in Unlogged(id, s)
  <2>1. Cardinality(Unlogged(id, s)') = Cardinality(Unlogged(id, s)) - 1
    BY <1>1, <1>2, FS_RemoveElement
  <2>2. /\ events[id][s] \in Nat /\ faults \in Nat /\ events'[id][s] \in Nat /\ faults' \in Nat
    BY DEF BoardTypeOK
  <2>3. Accounted(id, s)' = events'[id][s] + faults' + Cardinality(Unlogged(id, s)')
    BY DEF Accounted
  <2> QED
    BY <1>1, <1>2, <2>1, <2>2, <2>3 DEF Accounted
<1>3. CASE v \notin Unlogged(id, s)
  <2>1. Unlogged(id, s)' = Unlogged(id, s)
    BY <1>3
  <2> QED
    BY <2>1, AccountedStays
<1> QED
  BY <1>2, <1>3

\* What fits goes on to fit.
LEMMA StillFits ==
    ASSUME BoardTypeOK, BoardTypeOK', garbled \subseteq garbled',
           \A id \in CardIds, s \in Board!States : Accounted(id, s) <= Accounted(id, s)'
               /\ Accounted(id, s)' \in Nat,
           NEW id \in CardIds, NEW c \in BoardCards
    PROVE  /\ Fits(id, c) => Fits(id, c)'
           /\ \A moved \in BOOLEAN : FitsOnceLogged(id, c, moved) => FitsOnceLogged(id, c, moved)'
<1>1. Sound(c) => Sound(c)'
  BY DEF Sound, Board!LegalChain
<1>2. c.history \in Seq(Records)
  BY DEF BoardCards
<1>3. \A s \in Board!States : Cardinality(Entered(c.history, s)) \in Nat /\ Accounted(id, s) \in Nat
  BY <1>2, EnteredIsFinite, AccountedIsNatural
<1>4. \A s : Entered(c.history, s)' = Entered(c.history, s)
  BY DEF Entered
<1>5. ASSUME NEW s \in Board!States
      PROVE  /\ Cardinality(Entered(c.history, s)) \in Nat
             /\ Accounted(id, s) \in Nat /\ Accounted(id, s)' \in Nat
             /\ Accounted(id, s) <= Accounted(id, s)'
  BY <1>3
<1>6. Fits(id, c) => Fits(id, c)'
  <2> SUFFICES ASSUME Fits(id, c), NEW s \in Board!States
               PROVE  Cardinality(Entered(c.history, s)) <= Accounted(id, s)'
    BY <1>1, <1>4 DEF Fits
  <2> QED
    BY <1>5 DEF Fits
<1>7. ASSUME NEW moved \in BOOLEAN, FitsOnceLogged(id, c, moved)
      PROVE  FitsOnceLogged(id, c, moved)'
  <2> SUFFICES ASSUME NEW s \in Board!States
               PROVE  Cardinality(Entered(c.history, s))
                        <= Accounted(id, s)' + (IF moved /\ c.state = s THEN 1 ELSE 0)
    BY <1>1, <1>4, <1>7 DEF FitsOnceLogged
  <2> DEFINE one == IF moved /\ c.state = s THEN 1 ELSE 0
  <2>1. Cardinality(Entered(c.history, s)) <= Accounted(id, s) + one /\ one \in Nat
    BY <1>7 DEF FitsOnceLogged
  <2> HIDE DEF one
  <2>2. Cardinality(Entered(c.history, s)) <= Accounted(id, s)' + one
    BY <1>5, <2>1
  <2> QED
    BY <2>2 DEF one
<1> QED
  BY <1>6, <1>7

\* What a step has to leave: files that were there or fit, and verbs whose cards do.
LEMMA BoardStep ==
    ASSUME BoardIInv, BoardTypeOK', garbled \subseteq garbled',
           \A id \in CardIds, s \in Board!States : Accounted(id, s) <= Accounted(id, s)',
           \A id \in CardIds : \A x \in BoardCards :
              x = cards'[id] \/ x = archive'[id]
                 => x = cards[id] \/ x = archive[id] \/ Fits(id, x)',
           \A v \in BoardCalls : \A x \in BoardVerbs :
              x = verb'[v] /\ x.step \in {"open", "fill"}
                 => \/ \E y \in BoardVerbs : /\ y = verb[v] /\ y.step \in {"open", "fill"}
                                             /\ y.id = x.id /\ y.card = x.card /\ y.moved = x.moved
                    \/ FitsOnceLogged(x.id, x.card, x.moved)'
    PROVE  BoardIInv'
<1>0. BoardTypeOK
  BY DEF BoardIInv
<1>1. \A id \in CardIds, s \in Board!States : Accounted(id, s)' \in Nat
  <2> SUFFICES ASSUME NEW id \in CardIds, NEW s \in Board!States PROVE Accounted(id, s)' \in Nat
    OBVIOUS
  <2>1. IsFiniteSet(BoardCalls)
    BY PartsAssumption DEF Board!BoardAssumption, Board!IsFiniteSet, IsFiniteSet
  <2>2. Unlogged(id, s)' \subseteq BoardCalls
    BY DEF Unlogged
  <2>3. Cardinality(Unlogged(id, s)') \in Nat
    BY <2>1, <2>2, FS_Subset, FS_CardinalityType
  <2>4. events'[id][s] \in Nat /\ faults' \in Nat
    BY DEF BoardTypeOK
  <2>5. Accounted(id, s)' = events'[id][s] + faults' + Cardinality(Unlogged(id, s)')
    BY DEF Accounted
  <2> QED
    BY <2>3, <2>4, <2>5
<1>2. ASSUME NEW id \in CardIds, NEW x \in BoardCards, x = cards'[id] \/ x = archive'[id]
      PROVE  Fits(id, x)'
  <2>1. CASE x = cards[id] \/ x = archive[id]
    <3>1. Fits(id, x)
      BY <2>1 DEF BoardIInv
    <3> QED
      BY <1>0, <1>1, <3>1, StillFits
  <2> QED
    BY <1>2, <2>1
<1>3. ASSUME NEW id \in CardIds
      PROVE  /\ cards'[id] \in BoardCards => Fits(id, cards[id])'
             /\ archive'[id] \in BoardCards => Fits(id, archive[id])'
  <2>1. ASSUME cards'[id] \in BoardCards PROVE Fits(id, cards[id])'
    <3>1. PICK x \in BoardCards : x = cards'[id]
      BY <2>1
    <3>2. Fits(id, x)'
      BY <1>2, <3>1
    <3> QED
      BY <3>1, <3>2 DEF Fits, Sound, Board!LegalChain, Entered, Accounted
  <2>2. ASSUME archive'[id] \in BoardCards PROVE Fits(id, archive[id])'
    <3>1. PICK x \in BoardCards : x = archive'[id]
      BY <2>2
    <3>2. Fits(id, x)'
      BY <1>2, <3>1
    <3> QED
      BY <3>1, <3>2 DEF Fits, Sound, Board!LegalChain, Entered, Accounted
  <2> QED
    BY <2>1, <2>2
<1>4. ASSUME NEW v \in BoardCalls, NEW x \in BoardVerbs, x = verb'[v], x.step \in {"open", "fill"}
      PROVE  FitsOnceLogged(x.id, x.card, x.moved)'
  <2>1. ASSUME NEW y \in BoardVerbs, y = verb[v], y.step \in {"open", "fill"},
               y.id = x.id, y.card = x.card, y.moved = x.moved
        PROVE  FitsOnceLogged(x.id, x.card, x.moved)'
    <3>1. FitsOnceLogged(x.id, x.card, x.moved)
      BY <2>1 DEF BoardIInv
    <3>2. x.id \in CardIds /\ x.card \in BoardCards /\ x.moved \in BOOLEAN
      BY <1>4 DEF BoardVerbs, OpeningVerbs, FillingVerbs, LoggingVerbs, ArchivingVerbs, Board!Idle
    <3> QED
      BY <1>0, <1>1, <3>1, <3>2, StillFits
  <2> QED
    BY <1>4, <2>1
<1>5. ASSUME NEW v \in BoardCalls, verb'[v].step \in {"open", "fill"}
      PROVE  FitsOnceLogged(verb[v].id, verb[v].card, verb[v].moved)'
  <2>1. PICK x \in BoardVerbs : x = verb'[v]
    BY DEF BoardTypeOK
  <2>2. FitsOnceLogged(x.id, x.card, x.moved)'
    BY <1>4, <1>5, <2>1
  <2> QED
    BY <2>1, <2>2, ZenonT(60) DEF FitsOnceLogged, Sound, Board!LegalChain, Entered, Accounted
<1> QED
  BY <1>3, <1>5 DEF BoardIInv

\* What a verb holds at each of its steps.
LEMMA VerbSteps ==
    ASSUME NEW x \in BoardVerbs
    PROVE  /\ x.step \in {"idle", "open", "fill", "log", "archive"}
           /\ x.step = "idle" => x = Board!Idle
           /\ x.step = "open" => x \in OpeningVerbs
           /\ x.step = "fill" => x \in FillingVerbs
           /\ x.step = "log" => x \in LoggingVerbs
           /\ x.step = "archive" => x \in ArchivingVerbs
BY DEF BoardVerbs, OpeningVerbs, FillingVerbs, LoggingVerbs, ArchivingVerbs, Board!Idle

\* Verbs that neither begin nor end to log leave the account as it is.
LEMMA SameUnlogged ==
    ASSUME BoardTypeOK, BoardTypeOK', events' = events, faults' = faults,
           \A v \in BoardCalls : verb[v].step = "log" => verb'[v] = verb[v]
    PROVE  \A id \in CardIds, s \in Board!States : Accounted(id, s) <= Accounted(id, s)'
<1> SUFFICES ASSUME NEW id \in CardIds, NEW s \in Board!States
             PROVE  Accounted(id, s) <= Accounted(id, s)'
  OBVIOUS
<1>1. Unlogged(id, s) \subseteq Unlogged(id, s)'
  BY DEF Unlogged
<1>2. events'[id][s] >= events[id][s] /\ faults' >= faults
  BY DEF BoardTypeOK
<1> QED
  BY <1>1, <1>2, AccountedStays

\* A verb begins to save a card that will fit.
LEMMA SavingBegins ==
    ASSUME BoardIInv, NEW v \in BoardCalls, verb[v] = Board!Idle, NEW id \in CardIds, NEW c \in BoardCards,
           NEW moved \in BOOLEAN, verb' = [verb EXCEPT ![v] = Board!Saving(id, c, moved)],
           UNCHANGED <<cards, archive, events, faults>>, born' \in Nat, moves' \in Nat,
           garbled \subseteq garbled', FitsOnceLogged(id, c, moved)'
    PROVE  BoardIInv'
<1> DEFINE new == Board!Saving(id, c, moved)
<1>0. BoardTypeOK
  BY DEF BoardIInv
<1>1. new \in BoardVerbs /\ new.step = "open" /\ new.id = id /\ new.card = c /\ new.moved = moved
  BY DEF Board!Saving, BoardVerbs, OpeningVerbs
<1> HIDE DEF new
<1>2. verb' \in [BoardCalls -> BoardVerbs] /\ verb'[v] = new /\ \A w \in BoardCalls : w # v
    => verb'[w] = verb[w]
  BY <1>0, <1>1 DEF BoardTypeOK, new
<1>3. BoardTypeOK'
  BY <1>0, <1>2 DEF BoardTypeOK
<1>4. \A w \in BoardCalls : verb[w].step = "log" => verb'[w] = verb[w]
  BY <1>2 DEF Board!Idle
<1>5. \A i \in CardIds, s \in Board!States : Accounted(i, s) <= Accounted(i, s)'
  BY <1>0, <1>3, <1>4, SameUnlogged
<1>6. ASSUME NEW w \in BoardCalls, NEW x \in BoardVerbs, x = verb'[w], x.step \in {"open", "fill"}
      PROVE  \/ \E y \in BoardVerbs : /\ y = verb[w] /\ y.step \in {"open", "fill"}
                                      /\ y.id = x.id /\ y.card = x.card /\ y.moved = x.moved
             \/ FitsOnceLogged(x.id, x.card, x.moved)'
  <2>1. CASE w = v
    BY <1>1, <1>2, <1>6, <2>1
  <2>2. CASE w # v
    BY <1>2, <1>6, <2>2
  <2> QED
    BY <2>1, <2>2
<1> QED
  BY <1>3, <1>5, <1>6, BoardStep

\* add_card: a new card has no history.
LEMMA CardIsAdded ==
    ASSUME BoardIInv, NEW v \in BoardCalls, NEW id \in CardIds, Board!AddCard(v, id)
    PROVE  BoardIInv'
<1> DEFINE c == Board!Card(born + 1, "triage", <<>>)
<1>0. BoardTypeOK /\ born \in Nat /\ moves \in Nat
  BY DEF BoardIInv, BoardTypeOK
<1>1. /\ verb[v] = Board!Idle /\ born' = born + 1 /\ FALSE \in BOOLEAN
      /\ verb' = [verb EXCEPT ![v] = Board!Saving(id, c, FALSE)]
      /\ UNCHANGED <<cards, archive, events, moves, garbled, faults>>
  BY DEF Board!AddCard
<1>2. c \in BoardCards /\ c.history = <<>> /\ c.state = "triage"
  BY <1>0 DEF Board!Card, BoardCards, Board!States
<1> HIDE DEF c
<1>3. PICK x \in BoardCards : x = c
  BY <1>2
<1>4. PICK moved \in BOOLEAN : moved = FALSE
  OBVIOUS
<1>5. FitsOnceLogged(id, x, moved)'
  <2>1. Sound(x)'
    BY <1>2, <1>3 DEF Sound, Board!LegalChain
  <2>2. \A s : Entered(x.history, s) = {} /\ Entered(x.history, s)' = {}
    BY <1>2, <1>3 DEF Entered
  <2>3. \A s \in Board!States : Accounted(id, s) \in Nat /\ Accounted(id, s)' = Accounted(id, s)
    <3>1. ASSUME NEW s PROVE Unlogged(id, s)' = Unlogged(id, s)
      <4>1. \A w \in BoardCalls : w # v => verb'[w] = verb[w]
        BY <1>0, <1>1 DEF BoardTypeOK
      <4>2. verb[v].step # "log" /\ verb'[v].step # "log"
        BY <1>0, <1>1 DEF BoardTypeOK, Board!Idle, Board!Saving
      <4> QED
        BY <4>1, <4>2 DEF Unlogged
    <3> QED
      BY <1>0, <1>1, <3>1, AccountedIsNatural DEF Accounted
  <2>4. \A s : Cardinality(Entered(x.history, s))' = 0
    BY <2>2, FS_EmptySet
  <2>5. \A s \in Board!States : Accounted(id, s)' \in Nat
    BY <2>3
  <2>6. ~moved
    BY <1>4
  <2> QED
    BY <2>1, <2>4, <2>5, <2>6 DEF FitsOnceLogged
<1>6. verb' = [verb EXCEPT ![v] = Board!Saving(id, x, moved)]
  BY <1>1, <1>3, <1>4 DEF Board!Saving
<1>7. born' \in Nat /\ moves' \in Nat
  BY <1>0, <1>1
<1>8. verb[v] = Board!Idle /\ garbled \subseteq garbled' /\ UNCHANGED <<cards, archive, events,
    faults>>
  BY <1>1
<1> QED
  BY <1>5, <1>6, <1>7, <1>8, SavingBegins

\* A legal move makes a legal history longer by one.
LEMMA ChainGrows ==
    ASSUME NEW c \in BoardCards, Board!LegalChain(c), NEW to \in Board!States, NEW actor \in Actors,
           <<c.state, to>> \in Board!CanTransition, NEW m, m = Board!Moved(c, to, actor)
    PROVE  Board!LegalChain(m)
<1> DEFINE h == c.history
           n == Len(h)
           r == [from |-> c.state, to |-> to, by |-> actor]
           g == Append(h, r)
<1>1. h \in Seq(Records) /\ r \in Records /\ c.state \in Board!States
  BY DEF BoardCards, Records
<1>2. m.state = to /\ m.history = g
  BY DEF Board!Moved, Board!Card
<1>3. r.from = c.state /\ r.to = to
  OBVIOUS
<1>4. /\ \A i \in 1..n : <<h[i].from, h[i].to>> \in Board!CanTransition
      /\ \A i \in 1..n : h[i].from = IF i = 1 THEN "triage" ELSE h[i - 1].to
      /\ c.state = IF h = <<>> THEN "triage" ELSE h[n].to
  <2>1. DOMAIN h = 1..n /\ Board!Last(h) = h[n]
    BY <1>1 DEF Board!Last
  <2> QED
    BY <2>1 DEF Board!LegalChain
<1> HIDE DEF h, r
<1>5. /\ g \in Seq(Records) /\ Len(g) = n + 1 /\ g[n + 1] = r /\ n \in Nat /\ g # <<>>
      /\ \A i \in 1..n : g[i] = h[i]
      /\ h = <<>> <=> n = 0
  BY <1>1, AppendProperties, LenProperties, EmptySeq
<1> HIDE DEF g, n
<1>6. DOMAIN g = 1..(n + 1) /\ Board!Last(g) = r
  BY <1>5 DEF Board!Last
<1>7. ASSUME NEW i \in 1..(n + 1)
      PROVE  /\ <<g[i].from, g[i].to>> \in Board!CanTransition
             /\ g[i].from = IF i = 1 THEN "triage" ELSE g[i - 1].to
  <2>1. CASE i \in 1..n
    <3>1. i # 1 => i - 1 \in 1..n
      BY <1>5, <2>1
    <3> QED
      BY <1>4, <1>5, <2>1, <3>1
  <2>2. CASE i = n + 1
    <3>1. g[i] = r
      BY <1>5, <2>2
    <3>2. CASE n = 0
      BY <1>3, <1>4, <1>5, <2>2, <3>1, <3>2
    <3>3. CASE n # 0
      <4>1. i # 1 /\ i - 1 = n /\ n \in 1..n
        BY <1>5, <2>2, <3>3
      <4> QED
        BY <1>3, <1>4, <1>5, <3>1, <3>3, <4>1
    <3> QED
      BY <3>2, <3>3
  <2> QED
    BY <1>5, <2>1, <2>2
<1> QED
  BY <1>2, <1>3, <1>5, <1>6, <1>7 DEF Board!LegalChain

\* move_card: the card that was read, as it was read back, with one more move.
LEMMA CardIsMoved ==
    ASSUME BoardIInv, NEW v \in BoardCalls, NEW id \in CardIds, NEW to \in Board!States,
        NEW actor \in Actors,
           Board!MoveCard(v, id, to, actor)
    PROVE  BoardIInv'
<1>0. BoardTypeOK /\ moves \in Nat /\ born \in Nat
  BY DEF BoardIInv, BoardTypeOK
<1>1. PICK c \in BoardCards : c = cards[id] /\ Fits(id, c) /\ <<c.state,
    to>> \in Board!CanTransition
  <2>1. cards[id] \in BoardFiles /\ cards[id].is = "card" /\ <<cards[id].state,
      to>> \in Board!CanTransition
    BY <1>0 DEF BoardTypeOK, Board!MoveCard, Board!Readable
  <2>2. cards[id] \in BoardCards
    BY <2>1 DEF BoardFiles, Board!NoFile, Board!Empty
  <2> QED
    BY <2>1, <2>2 DEF BoardIInv
<1>2. PICK l : l = Board!Loaded(c)
  OBVIOUS
<1>3. PICK m : m = Board!Moved(l, to, actor)
  OBVIOUS
<1>4. PICK moved \in BOOLEAN : moved = TRUE
  OBVIOUS
<1>5. /\ verb[v] = Board!Idle /\ moves' = moves + 1 /\ born' = born
      /\ garbled' = IF actor \in Bracketed THEN garbled \cup {c.ref} ELSE garbled
      /\ UNCHANGED <<cards, archive, events, faults>>
  BY <1>1 DEF Board!MoveCard
<1>6. verb' = [verb EXCEPT ![v] = Board!Saving(id, m, moved)]
  BY <1>1, <1>2, <1>3, <1>4 DEF Board!MoveCard, Board!Saving
<1> DEFINE h == c.history
           k == Board!ReadHistory(h)
           r == [from |-> c.state, to |-> to, by |-> actor]
<1>7. h \in Seq(Records) /\ r \in Records /\ r.to = to /\ r.by = actor
  BY DEF BoardCards, Records
<1>8. /\ k \in Seq(Records)
      /\ \A s : Cardinality(Entered(k, s)) <= Cardinality(Entered(h, s))
      /\ (\A i \in 1..Len(h) : h[i].by \notin Bracketed) => k = h
  BY <1>7, ReadBack
<1>9. l \in BoardCards /\ l.history = k /\ l.ref = c.ref /\ l.state = c.state
  BY <1>2, <1>8 DEF Board!Loaded, BoardCards
<1>10. m \in BoardCards /\ m.history = Append(k, r) /\ m.ref = c.ref /\ m.state = to
  <2>1. Append(k, r) \in Seq(Records)
    BY <1>7, <1>8, AppendProperties
  <2>2. m = [is |-> "card", ref |-> c.ref, state |-> to, history |-> Append(k, r)] /\ c.ref \in Nat
    BY <1>3, <1>9 DEF Board!Moved, Board!Card, BoardCards
  <2> QED
    BY <2>1, <2>2 DEF BoardCards
<1> HIDE DEF k, r
<1>11. Sound(m)'
  <2>1. CASE c.ref \in garbled \/ actor \in Bracketed
    BY <1>5, <1>10, <2>1 DEF Sound
  <2>2. CASE c.ref \notin garbled /\ actor \notin Bracketed
    <3>1. Board!LegalChain(c) /\ \A i \in 1..Len(h) : h[i].by \notin Bracketed
      BY <1>1, <2>2 DEF Fits, Sound
    <3>2. k = h /\ l = c
      <4>1. k = h
        BY <1>8, <3>1
      <4>2. c = [c EXCEPT !.history = c.history]
        BY DEF BoardCards
      <4> QED
        BY <1>2, <4>1, <4>2 DEF Board!Loaded, k
    <3>3. Board!LegalChain(m)
      BY <1>1, <1>3, <3>1, <3>2, ChainGrows
    <3>4. \A i \in 1..Len(m.history) : m.history[i].by \notin Bracketed
      <4> DEFINE g == Append(h, r)
                 n == Len(h)
      <4>1. Len(g) = n + 1 /\ n \in Nat /\ g[n + 1] = r /\ \A i \in 1..n : g[i] = h[i]
        BY <1>7, AppendProperties, LenProperties
      <4>2. m.history = g
        BY <1>10, <3>2
      <4> HIDE DEF g, n
      <4>3. \A i \in 1..(n + 1) : i \in 1..n \/ i = n + 1
        BY <4>1
      <4> QED
        BY <1>7, <2>2, <3>1, <4>1, <4>2, <4>3 DEF n
    <3> QED
      BY <3>3, <3>4 DEF Sound, Board!LegalChain
  <2> QED
    BY <2>1, <2>2
<1>12. ASSUME NEW s \in Board!States
       PROVE  Cardinality(Entered(m.history, s)) <= Accounted(id,
           s)' + (IF m.state = s THEN 1 ELSE 0)
  <2>1. Accounted(id, s)' = Accounted(id, s) /\ Accounted(id, s) \in Nat
    <3>1. Unlogged(id, s)' = Unlogged(id, s)
      <4>1. \A w \in BoardCalls : w # v => verb'[w] = verb[w]
        BY <1>0, <1>6 DEF BoardTypeOK
      <4>2. verb[v].step # "log" /\ verb'[v].step # "log"
        BY <1>0, <1>5, <1>6 DEF BoardTypeOK, Board!Idle, Board!Saving
      <4> QED
        BY <4>1, <4>2 DEF Unlogged
    <3> QED
      BY <1>0, <1>5, <3>1, AccountedIsNatural DEF Accounted
  <2>2. Cardinality(Entered(m.history, s)) = Cardinality(Entered(k, s)) + (IF to = s THEN 1 ELSE 0)
    BY <1>7, <1>8, <1>10, EnteredOnce
  <2>3. /\ Cardinality(Entered(k, s)) <= Cardinality(Entered(h, s))
        /\ Cardinality(Entered(h, s)) <= Accounted(id, s)
        /\ Cardinality(Entered(k, s)) \in Nat /\ Cardinality(Entered(h, s)) \in Nat
    BY <1>1, <1>7, <1>8, EnteredIsFinite DEF Fits
  <2> QED
    BY <1>10, <2>1, <2>2, <2>3
<1>13. FitsOnceLogged(id, m, moved)'
  <2>1. \A s : Entered(m.history, s)' = Entered(m.history, s)
    BY DEF Entered
  <2> QED
    BY <1>4, <1>11, <1>12, <2>1 DEF FitsOnceLogged
<1>14. verb[v] = Board!Idle /\ moves' \in Nat /\ born' \in Nat /\ garbled \subseteq garbled'
  BY <1>0, <1>5
<1> QED
  BY <1>5, <1>6, <1>10, <1>13, <1>14, SavingBegins

\* save_card empties the file ...
LEMMA CardIsOpened ==
    ASSUME BoardIInv, NEW v \in BoardCalls, Board!OpenCard(v)
    PROVE  BoardIInv'
<1>0. BoardTypeOK
  BY DEF BoardIInv
<1>1. PICK y \in OpeningVerbs : y = verb[v]
  BY <1>0, VerbSteps DEF BoardTypeOK, Board!OpenCard
<1>2. y.step = "open" /\ y.id \in CardIds /\ y.card \in BoardCards /\ y.moved \in BOOLEAN
  BY DEF OpeningVerbs
<1>3. PICK new : new = [step |-> "fill", id |-> y.id, card |-> y.card, moved |-> y.moved,
                        file |-> "cards"]
  OBVIOUS
<1>4. /\ new \in BoardVerbs /\ new.step = "fill" /\ new.id = y.id /\ new.card = y.card
      /\ new.moved = y.moved
  BY <1>2, <1>3 DEF BoardVerbs, FillingVerbs
<1>5. /\ cards' = [cards EXCEPT ![y.id] = Board!Empty]
      /\ verb' = [verb EXCEPT ![v] = new]
      /\ UNCHANGED <<archive, events, born, moves, garbled, faults>>
  BY <1>0, <1>1, <1>3 DEF Board!OpenCard, BoardTypeOK
<1>6. /\ verb' \in [BoardCalls -> BoardVerbs] /\ verb'[v] = new
      /\ \A w \in BoardCalls : w # v => verb'[w] = verb[w]
  BY <1>0, <1>4, <1>5 DEF BoardTypeOK
<1>7. BoardTypeOK'
  BY <1>0, <1>2, <1>5, <1>6 DEF BoardTypeOK, BoardFiles
<1>8. \A i \in CardIds, s \in Board!States : Accounted(i, s) <= Accounted(i, s)'
  BY <1>0, <1>1, <1>2, <1>5, <1>6, <1>7, SameUnlogged
<1>9. ASSUME NEW w \in BoardCalls, NEW x \in BoardVerbs, x = verb'[w], x.step \in {"open", "fill"}
      PROVE  \E z \in BoardVerbs : /\ z = verb[w] /\ z.step \in {"open", "fill"}
                                   /\ z.id = x.id /\ z.card = x.card /\ z.moved = x.moved
  <2>1. CASE w = v
    <3>1. y \in BoardVerbs
      BY DEF BoardVerbs
    <3> QED
      BY <1>1, <1>2, <1>4, <1>6, <1>9, <2>1, <3>1
  <2>2. CASE w # v
    BY <1>6, <1>9, <2>2
  <2> QED
    BY <2>1, <2>2
<1>10. ASSUME NEW i \in CardIds, NEW x \in BoardCards, x = cards'[i] \/ x = archive'[i]
       PROVE  x = cards[i] \/ x = archive[i]
  <2>1. i = y.id => cards'[i] = Board!Empty
    BY <1>0, <1>5 DEF BoardTypeOK
  <2>2. Board!Empty \notin BoardCards
    BY DEF Board!Empty, BoardCards
  <2>3. i # y.id => cards'[i] = cards[i]
    BY <1>0, <1>5 DEF BoardTypeOK
  <2> QED
    BY <1>5, <1>10, <2>1, <2>2, <2>3
<1>11. garbled \subseteq garbled'
  BY <1>5
<1> QED
  BY <1>7, <1>8, <1>9, <1>10, <1>11, BoardStep

\* ... and fills it: the card is in the file from now on, and the verb that moved it has
\* the line for the log to write.
LEMMA CardIsFilled ==
    ASSUME BoardIInv, NEW v \in BoardCalls, Board!FillCard(v)
    PROVE  BoardIInv'
<1>0. BoardTypeOK
  BY DEF BoardIInv
<1>1. PICK y \in FillingVerbs : y = verb[v]
  BY <1>0, VerbSteps DEF BoardTypeOK, Board!FillCard
<1>2. y.step = "fill" /\ y.id \in CardIds /\ y.card \in BoardCards /\ y.moved \in BOOLEAN
  BY DEF FillingVerbs
<1>3. PICK c \in BoardCards : c = y.card
  BY <1>2
<1>4. PICK new : new = IF y.moved THEN [step |-> "log", id |-> y.id, card |-> c] ELSE Board!Idle
  OBVIOUS
<1>5. new \in BoardVerbs /\ new.step \in {"log", "idle"}
  BY <1>2, <1>4 DEF BoardVerbs, LoggingVerbs, Board!Idle
<1>6. /\ cards' = IF y.file = "cards" THEN [cards EXCEPT ![y.id] = c] ELSE cards
      /\ archive' = IF y.file = "archive" THEN [archive EXCEPT ![y.id] = c] ELSE archive
      /\ verb' = [verb EXCEPT ![v] = new]
      /\ UNCHANGED <<events, born, moves, garbled, faults>>
  BY <1>1, <1>3, <1>4 DEF Board!FillCard, Board!AfterFill
<1>7. /\ verb' \in [BoardCalls -> BoardVerbs] /\ verb'[v] = new
      /\ \A w \in BoardCalls : w # v => verb'[w] = verb[w]
  BY <1>0, <1>5, <1>6 DEF BoardTypeOK
<1>8. c \in BoardFiles
  BY DEF BoardFiles
<1>9. BoardTypeOK'
  <2>1. cards' \in [CardIds -> BoardFiles] /\ archive' \in [CardIds -> BoardFiles]
    BY <1>0, <1>2, <1>6, <1>8 DEF BoardTypeOK
  <2> QED
    BY <1>0, <1>6, <1>7, <2>1 DEF BoardTypeOK
<1>10. \A w \in BoardCalls : verb[w].step = "log" => verb'[w] = verb[w]
  BY <1>1, <1>2, <1>7
<1>11. \A i \in CardIds, s \in Board!States : Accounted(i, s) <= Accounted(i, s)'
  BY <1>0, <1>6, <1>9, <1>10, SameUnlogged
<1>12. Fits(y.id, c)'
  <2>1. FitsOnceLogged(y.id, c, y.moved)
    BY <1>1, <1>2, <1>3 DEF BoardIInv
  <2>2. Sound(c)'
    BY <1>6, <2>1 DEF FitsOnceLogged, Sound, Board!LegalChain
  <2>3. ASSUME NEW s \in Board!States
        PROVE  Cardinality(Entered(c.history, s)) <= Accounted(y.id, s)'
    <3> DEFINE seen == Cardinality(Entered(c.history, s))
    <3>0. seen \in Nat /\ Accounted(y.id, s) \in Nat /\ Accounted(y.id, s) <= Accounted(y.id, s)'
      <4>1. c.history \in Seq(Records)
        BY DEF BoardCards
      <4> QED
        BY <1>0, <1>2, <1>11, <4>1, EnteredIsFinite, AccountedIsNatural
    <3>1. seen <= Accounted(y.id, s) + (IF y.moved /\ c.state = s THEN 1 ELSE 0)
      BY <2>1 DEF FitsOnceLogged
    <3> HIDE DEF seen
    <3>2. CASE y.moved /\ c.state = s
      <4>1. new.step = "log" /\ new.id = y.id /\ new.card = c
        BY <1>4, <3>2
      <4>2. Unlogged(y.id, s)' = Unlogged(y.id, s) \cup {v} /\ v \notin Unlogged(y.id, s)
        BY <1>1, <1>2, <1>7, <3>2, <4>1 DEF Unlogged
      <4>3. /\ IsFiniteSet(Unlogged(y.id, s)) /\ Cardinality(Unlogged(y.id, s)) \in Nat
            /\ events[y.id][s] \in Nat /\ faults \in Nat
        BY <1>0, <1>2, AccountedIsNatural
      <4>4. Cardinality(Unlogged(y.id, s)') = Cardinality(Unlogged(y.id, s)) + 1
        BY <4>2, <4>3, FS_AddElement
      <4>5. Accounted(y.id, s)' = events[y.id][s] + faults + Cardinality(Unlogged(y.id, s)')
        BY <1>6 DEF Accounted
      <4>6. Accounted(y.id, s)' = Accounted(y.id, s) + 1
        BY <4>3, <4>4, <4>5 DEF Accounted
      <4>7. seen <= Accounted(y.id, s) + 1
        BY <3>1, <3>2
      <4> QED
        BY <4>6, <4>7 DEF seen
    <3>3. CASE ~(y.moved /\ c.state = s)
      <4>1. seen <= Accounted(y.id, s) + 0
        BY <3>1, <3>3
      <4>2. Accounted(y.id, s)' \in Nat
        <5>1. /\ IsFiniteSet(BoardCalls) /\ Unlogged(y.id, s)' \subseteq BoardCalls
          BY PartsAssumption
             DEF Board!BoardAssumption, Board!IsFiniteSet, IsFiniteSet, Unlogged
        <5>2. Cardinality(Unlogged(y.id, s)') \in Nat
          BY <5>1, FS_Subset, FS_CardinalityType
        <5>3. Accounted(y.id, s)' = events'[y.id][s] + faults' + Cardinality(Unlogged(y.id, s)')
          BY DEF Accounted
        <5>4. events'[y.id][s] \in Nat /\ faults' \in Nat
          BY <1>2, <1>9 DEF BoardTypeOK
        <5> QED
          BY <5>2, <5>3, <5>4
      <4>3. seen <= Accounted(y.id, s)'
        BY <3>0, <4>1, <4>2
      <4> QED
        BY <4>3 DEF seen
    <3> QED
      BY <3>2, <3>3
  <2>4. \A s : Entered(c.history, s)' = Entered(c.history, s)
    BY DEF Entered
  <2> QED
    BY <2>2, <2>3, <2>4 DEF Fits
<1>13. ASSUME NEW i \in CardIds, NEW x \in BoardCards, x = cards'[i] \/ x = archive'[i]
       PROVE  x = cards[i] \/ x = archive[i] \/ Fits(i, x)'
  <2>1. CASE i = y.id
    <3>1. x = c \/ x = cards[i] \/ x = archive[i]
      BY <1>0, <1>2, <1>6, <1>13, <2>1 DEF BoardTypeOK
    <3>2. x = c => Fits(i, x)'
      BY <1>12, <2>1
    <3> QED
      BY <3>1, <3>2
  <2>2. CASE i # y.id
    BY <1>0, <1>6, <1>13, <2>2 DEF BoardTypeOK
  <2> QED
    BY <2>1, <2>2
<1>14. ASSUME NEW w \in BoardCalls, NEW x \in BoardVerbs, x = verb'[w], x.step \in {"open", "fill"}
       PROVE  \E z \in BoardVerbs : /\ z = verb[w] /\ z.step \in {"open", "fill"}
                                    /\ z.id = x.id /\ z.card = x.card /\ z.moved = x.moved
  <2>1. w # v
    BY <1>5, <1>7, <1>14
  <2> QED
    BY <1>7, <1>14, <2>1
<1>15. garbled \subseteq garbled'
  BY <1>6
<1> QED
  BY <1>9, <1>11, <1>13, <1>14, <1>15, BoardStep

\* A verb ends, and no file and no other verb changes.
LEMMA VerbEnds ==
    ASSUME BoardIInv, NEW v \in BoardCalls, verb' = [verb EXCEPT ![v] = Board!Idle],
           UNCHANGED <<cards, archive, born, moves, garbled>>,
           events' \in [CardIds -> [Board!States -> Nat]], faults' \in Nat, faults' >= faults,
           \A id \in CardIds, s \in Board!States :
              /\ events'[id][s] >= events[id][s]
              /\ v \in Unlogged(id, s) => events'[id][s] + faults' = events[id][s] + faults + 1
    PROVE  BoardIInv'
<1>0. BoardTypeOK
  BY DEF BoardIInv
<1>1. Board!Idle \in BoardVerbs /\ Board!Idle.step = "idle"
  BY DEF BoardVerbs, Board!Idle
<1>2. /\ verb' \in [BoardCalls -> BoardVerbs] /\ verb'[v] = Board!Idle
      /\ \A w \in BoardCalls : w # v => verb'[w] = verb[w]
  BY <1>0, <1>1 DEF BoardTypeOK
<1>3. BoardTypeOK'
  BY <1>0, <1>2 DEF BoardTypeOK
<1>4. ASSUME NEW id \in CardIds, NEW s \in Board!States
      PROVE  Accounted(id, s) <= Accounted(id, s)'
  <2>1. Unlogged(id, s)' = Unlogged(id, s) \ {v}
    BY <1>1, <1>2 DEF Unlogged
  <2> QED
    BY <1>0, <1>3, <2>1, AccountedMadeUp
<1>5. ASSUME NEW w \in BoardCalls, NEW x \in BoardVerbs, x = verb'[w], x.step \in {"open", "fill"}
      PROVE  \E z \in BoardVerbs : /\ z = verb[w] /\ z.step \in {"open", "fill"}
                                   /\ z.id = x.id /\ z.card = x.card /\ z.moved = x.moved
  <2>1. w # v
    BY <1>1, <1>2, <1>5
  <2> QED
    BY <1>2, <1>5, <2>1
<1> QED
  BY <1>3, <1>4, <1>5, BoardStep

\* append_event
LEMMA EventIsAppended ==
    ASSUME BoardIInv, NEW v \in BoardCalls, Board!AppendEvent(v)
    PROVE  BoardIInv'
<1>0. BoardTypeOK
  BY DEF BoardIInv
<1>1. PICK y \in LoggingVerbs : y = verb[v]
  BY <1>0, VerbSteps DEF BoardTypeOK, Board!AppendEvent
<1>2. PICK s0 \in Board!States : s0 = y.card.state /\ y.id \in CardIds
  BY DEF LoggingVerbs, BoardCards
<1>3. PICK i0 \in CardIds : i0 = y.id
  BY <1>2
<1>4. /\ verb' = [verb EXCEPT ![v] = Board!Idle] /\ faults' = faults
      /\ UNCHANGED <<cards, archive, born, moves, garbled>>
  BY DEF Board!AppendEvent
<1>5. events' = [events EXCEPT ![i0][s0] = events[i0][s0] + 1]
  BY <1>0, <1>1, <1>2, <1>3 DEF Board!AppendEvent, BoardTypeOK
<1>6. events \in [CardIds -> [Board!States -> Nat]] /\ faults \in Nat
  BY <1>0 DEF BoardTypeOK
<1>7. events' \in [CardIds -> [Board!States -> Nat]]
  BY <1>5, <1>6
<1>8. ASSUME NEW id \in CardIds, NEW s \in Board!States
      PROVE  /\ events'[id][s] >= events[id][s]
             /\ v \in Unlogged(id, s) => events'[id][s] + faults' = events[id][s] + faults + 1
  <2>1. events'[id][s] = IF id = i0 /\ s = s0 THEN events[id][s] + 1 ELSE events[id][s]
    BY <1>5, <1>6
  <2>2. v \in Unlogged(id, s) => id = i0 /\ s = s0
    BY <1>1, <1>2, <1>3 DEF Unlogged
  <2>3. events[id][s] \in Nat
    BY <1>6
  <2> QED
    BY <1>4, <1>6, <2>1, <2>2, <2>3, SMTT(30)
<1>9. faults' \in Nat /\ faults' >= faults
  BY <1>4, <1>6
<1> QED
  BY <1>4, <1>7, <1>8, <1>9, VerbEnds

\* A verb that dies, or fails, half way: the fault stands for the line it did not log.
LEMMA VerbIsAbandoned ==
    ASSUME BoardIInv, NEW v \in BoardCalls, Board!Abandon(v)
    PROVE  BoardIInv'
<1>1. /\ verb' = [verb EXCEPT ![v] = Board!Idle] /\ faults' = faults + 1 /\ events' = events
      /\ UNCHANGED <<cards, archive, born, moves, garbled>>
  BY DEF Board!Abandon
<1>2. events \in [CardIds -> [Board!States -> Nat]] /\ faults \in Nat
  BY DEF BoardIInv, BoardTypeOK
<1>3. ASSUME NEW id \in CardIds, NEW s \in Board!States
      PROVE  /\ events'[id][s] >= events[id][s]
             /\ v \in Unlogged(id, s) => events'[id][s] + faults' = events[id][s] + faults + 1
  <2>1. events[id][s] \in Nat
    BY <1>2
  <2> QED
    BY <1>1, <1>2, <2>1
<1>4. events' \in [CardIds -> [Board!States -> Nat]] /\ faults' \in Nat /\ faults' >= faults
  BY <1>1, <1>2
<1> QED
  BY <1>1, <1>3, <1>4, VerbEnds

\* archive_done_cards lists what it will move.
LEMMA DoneIsListed ==
    ASSUME BoardIInv, NEW v \in BoardCalls, Board!ListDone(v)
    PROVE  BoardIInv'
<1>0. BoardTypeOK
  BY DEF BoardIInv
<1>1. PICK todo \in SUBSET CardIds :
          /\ verb[v] = Board!Idle /\ verb' = [verb EXCEPT ![v] = [step |-> "archive",
             todo |-> todo]]
          /\ UNCHANGED <<cards, archive, events, born, moves, garbled, faults>>
  BY DEF Board!ListDone
<1>2. PICK new \in BoardVerbs : new = [step |-> "archive", todo |-> todo]
  BY DEF BoardVerbs, ArchivingVerbs
<1>3. /\ verb' \in [BoardCalls -> BoardVerbs] /\ verb'[v] = new
      /\ \A w \in BoardCalls : w # v => verb'[w] = verb[w]
  BY <1>0, <1>1, <1>2 DEF BoardTypeOK
<1>4. BoardTypeOK'
  BY <1>0, <1>1, <1>3 DEF BoardTypeOK
<1>5. \A w \in BoardCalls : verb[w].step = "log" => verb'[w] = verb[w]
  BY <1>1, <1>3 DEF Board!Idle
<1>6. \A i \in CardIds, s \in Board!States : Accounted(i, s) <= Accounted(i, s)'
  BY <1>0, <1>1, <1>4, <1>5, SameUnlogged
<1>7. ASSUME NEW w \in BoardCalls, NEW x \in BoardVerbs, x = verb'[w], x.step \in {"open", "fill"}
      PROVE  \E z \in BoardVerbs : /\ z = verb[w] /\ z.step \in {"open", "fill"}
                                   /\ z.id = x.id /\ z.card = x.card /\ z.moved = x.moved
  <2>1. w # v
    BY <1>2, <1>3, <1>7
  <2> QED
    BY <1>3, <1>7, <2>1
<1> QED
  BY <1>1, <1>4, <1>6, <1>7, BoardStep

\* One rename of archive_done_cards: a card that fits changes its place, and a verb that is
\* writing into the file goes on writing the same card.
LEMMA CardIsArchived ==
    ASSUME BoardIInv, NEW v \in BoardCalls, verb[v].step = "archive", Board!RenameOne(v),
           UNCHANGED <<events, born, moves, garbled, faults>>
    PROVE  BoardIInv'
<1>0. BoardTypeOK
  BY DEF BoardIInv
<1>1. verb[v] \in ArchivingVerbs
  BY <1>0, VerbSteps DEF BoardTypeOK
<1>2. PICK id \in verb[v].todo :
          LET rest == verb[v].todo \ {id}
          IN  /\ archive' = [archive EXCEPT ![id] = cards[id]]
              /\ cards' = [cards EXCEPT ![id] = Board!NoFile]
              /\ verb' = [w \in BoardCalls |->
                             IF w # v THEN Board!FileMoves(verb[w], id)
                             ELSE IF rest = {} THEN Board!Idle ELSE [verb[v] EXCEPT !.todo = rest]]
  BY DEF Board!RenameOne
<1>3. id \in CardIds /\ verb[v].todo \ {id} \in SUBSET CardIds
  BY <1>1 DEF ArchivingVerbs
<1>4. verb'[v] \in BoardVerbs /\ verb'[v].step \in {"idle", "archive"}
  <2>1. verb'[v] = Board!Idle \/ verb'[v] = [verb[v] EXCEPT !.todo = verb[v].todo \ {id}]
    BY <1>2
  <2>2. [verb[v] EXCEPT !.todo = verb[v].todo \ {id}] \in ArchivingVerbs
    BY <1>1, <1>3 DEF ArchivingVerbs
  <2> QED
    BY <2>1, <2>2 DEF BoardVerbs, ArchivingVerbs, Board!Idle
<1>5. ASSUME NEW w \in BoardCalls, w # v
      PROVE  /\ verb'[w] \in BoardVerbs
             /\ verb[w].step # "fill" => verb'[w] = verb[w]
             /\ verb'[w].step = verb[w].step
             /\ verb[w].step = "fill" =>
                   /\ verb'[w].id = verb[w].id /\ verb'[w].card = verb[w].card
                   /\ verb'[w].moved = verb[w].moved
  <2>1. verb'[w] = Board!FileMoves(verb[w], id) /\ verb[w] \in BoardVerbs
    BY <1>0, <1>2, <1>5 DEF BoardTypeOK
  <2>2. CASE verb[w].step # "fill"
    BY <2>1, <2>2 DEF Board!FileMoves
  <2>3. CASE verb[w].step = "fill"
    <3>1. PICK x \in FillingVerbs : x = verb[w]
      BY <2>1, <2>3, VerbSteps
    <3>2. Board!FileMoves(x, id) \in FillingVerbs
      BY <3>1 DEF Board!FileMoves, FillingVerbs
    <3>3. /\ Board!FileMoves(x, id).id = x.id /\ Board!FileMoves(x, id).card = x.card
          /\ Board!FileMoves(x, id).moved = x.moved /\ Board!FileMoves(x, id).step = x.step
      BY <3>1 DEF Board!FileMoves, FillingVerbs
    <3>4. verb'[w] \in BoardVerbs
      BY <2>1, <3>1, <3>2 DEF BoardVerbs
    <3> QED
      BY <2>1, <2>3, <3>1, <3>3, <3>4
  <2> QED
    BY <2>2, <2>3
<1>6. verb' \in [BoardCalls -> BoardVerbs]
  <2>1. \A w \in BoardCalls : verb'[w] \in BoardVerbs
    BY <1>4, <1>5
  <2>2. PICK f : verb' = [w \in BoardCalls |-> f[w]]
    <3> DEFINE g == [w \in BoardCalls |-> verb'[w]]
    <3>1. verb' = g
      BY <1>2
    <3>2. g = [w \in BoardCalls |-> g[w]]
      OBVIOUS
    <3> QED
      BY <3>1, <3>2
  <2>3. \A w \in BoardCalls : verb'[w] = f[w]
    BY <2>2
  <2> QED
    BY <2>1, <2>2, <2>3
<1>7. cards' \in [CardIds -> BoardFiles] /\ archive' \in [CardIds -> BoardFiles]
  <2>1. cards[id] \in BoardFiles /\ Board!NoFile \in BoardFiles
    BY <1>0, <1>3 DEF BoardTypeOK, BoardFiles
  <2> QED
    BY <1>0, <1>2, <1>3, <2>1 DEF BoardTypeOK
<1>8. BoardTypeOK'
  BY <1>0, <1>6, <1>7 DEF BoardTypeOK
<1>9. \A w \in BoardCalls : verb[w].step = "log" => verb'[w] = verb[w]
  BY <1>5
<1>10. \A i \in CardIds, s \in Board!States : Accounted(i, s) <= Accounted(i, s)'
  BY <1>0, <1>8, <1>9, SameUnlogged
<1>11. ASSUME NEW i \in CardIds, NEW x \in BoardCards, x = cards'[i] \/ x = archive'[i]
       PROVE  x = cards[i] \/ x = archive[i]
  <2>1. Board!NoFile \notin BoardCards
    BY DEF Board!NoFile, BoardCards
  <2>2. CASE i = id
    <3>1. cards'[i] = Board!NoFile /\ archive'[i] = cards[i]
      BY <1>0, <1>2, <2>2 DEF BoardTypeOK
    <3> QED
      BY <1>11, <2>1, <3>1
  <2>3. CASE i # id
    <3>1. cards'[i] = cards[i] /\ archive'[i] = archive[i]
      BY <1>0, <1>2, <2>3 DEF BoardTypeOK
    <3> QED
      BY <1>11, <3>1
  <2> QED
    BY <2>2, <2>3
<1>12. ASSUME NEW w \in BoardCalls, NEW x \in BoardVerbs, x = verb'[w], x.step \in {"open", "fill"}
       PROVE  \E z \in BoardVerbs : /\ z = verb[w] /\ z.step \in {"open", "fill"}
                                    /\ z.id = x.id /\ z.card = x.card /\ z.moved = x.moved
  <2>1. w # v /\ verb[w] \in BoardVerbs
    BY <1>0, <1>4, <1>12 DEF BoardTypeOK
  <2> QED
    BY <1>5, <1>12, <2>1
<1> QED
  BY <1>8, <1>10, <1>11, <1>12, BoardStep

\* A rename that fails ends the verb, which had no line to log.
LEMMA ArchivingFails ==
    ASSUME BoardIInv, NEW v \in BoardCalls, verb[v].step = "archive", Board!RenameFails(v),
           UNCHANGED <<events, born, moves, garbled, faults>>
    PROVE  BoardIInv'
<1>1. /\ verb' = [verb EXCEPT ![v] = Board!Idle]
      /\ UNCHANGED <<cards, archive, born, moves, garbled>>
  BY DEF Board!RenameFails
<1>2. events \in [CardIds -> [Board!States -> Nat]] /\ faults \in Nat
  BY DEF BoardIInv, BoardTypeOK
<1>3. ASSUME NEW id \in CardIds, NEW s \in Board!States
      PROVE  /\ events'[id][s] >= events[id][s]
             /\ v \in Unlogged(id, s) => events'[id][s] + faults' = events[id][s] + faults + 1
  <2>1. events[id][s] \in Nat /\ v \notin Unlogged(id, s)
    BY <1>2 DEF Unlogged
  <2> QED
    BY <2>1
<1>4. events' \in [CardIds -> [Board!States -> Nat]] /\ faults' \in Nat /\ faults' >= faults
  BY <1>2
<1> QED
  BY <1>1, <1>3, <1>4, VerbEnds

\* An empty board.
LEMMA BoardInit == Board!Init => BoardIInv
<1> SUFFICES ASSUME Board!Init PROVE BoardIInv
  OBVIOUS
<1>1. BoardTypeOK
  BY DEF Board!Init, BoardTypeOK, BoardFiles, BoardVerbs
<1>2. \A id \in CardIds : cards[id] \notin BoardCards /\ archive[id] \notin BoardCards
  BY DEF Board!Init, Board!NoFile, BoardCards
<1>3. \A v \in BoardCalls : verb[v].step = "idle"
  BY DEF Board!Init, Board!Idle
<1> QED
  BY <1>1, <1>2, <1>3 DEF BoardIInv

\* Every verb of the board, at every step of another.
LEMMA BoardNext ==
    ASSUME BoardIInv, [Board!Next]_boardVars
    PROVE  BoardIInv'
<1>1. CASE Board!Next
  <2>1. PICK v \in BoardCalls :
            \/ \E id \in CardIds : Board!AddCard(v, id)
            \/ \E id \in CardIds, to \in Board!States, actor \in Actors :
                  Board!MoveCard(v, id, to, actor)
            \/ Board!OpenCard(v)
            \/ Board!FillCard(v)
            \/ Board!AppendEvent(v)
            \/ Board!ListDone(v)
            \/ Board!ArchiveOne(v)
            \/ Board!Abandon(v)
    BY <1>1 DEF Board!Next
  <2>2. CASE Board!ArchiveOne(v)
    BY <2>2, CardIsArchived, ArchivingFails DEF Board!ArchiveOne
  <2> QED
    BY <2>1, <2>2, CardIsAdded, CardIsMoved, CardIsOpened, CardIsFilled, EventIsAppended,
       DoneIsListed, VerbIsAbandoned
<1>2. CASE UNCHANGED boardVars
  <2>1. UNCHANGED <<cards, archive, events, verb, born, moves, garbled, faults>>
    BY <1>2 DEF boardVars
  <2>2. BoardTypeOK /\ BoardTypeOK'
    BY <2>1 DEF BoardIInv, BoardTypeOK
  <2>3. \A id \in CardIds, s \in Board!States : Accounted(id, s) <= Accounted(id, s)'
    BY <2>1, <2>2, SameUnlogged
  <2> QED
    BY <2>1, <2>2, <2>3, BoardStep
<1> QED
  BY <1>1, <1>2

\* What the invariant says of the cards that can be read is what the run checks.
LEMMA BoardHolds == BoardIInv => Board!HistoriesAreLegalAndLogged
<1> SUFFICES ASSUME BoardIInv PROVE Board!HistoriesAreLegalAndLogged
  OBVIOUS
<1>0. \A S : Board!Cardinality(S) = Cardinality(S)
  BY DEF Board!Cardinality, Cardinality
<1> DEFINE Goal(id, card) ==
        /\ card.ref \in garbled \/ Board!LegalChain(card)
        /\ \A s \in Board!States :
              Board!Cardinality({i \in DOMAIN card.history : card.history[i].to = s})
                <= events[id][s] + faults
                   + Board!Cardinality({v \in BoardCalls : verb[v].step = "log" /\ verb[v].id = id
                                                       /\ verb[v].card.state = s})
<1>1. ASSUME NEW id \in CardIds, NEW card \in Board!Stored(id)
      PROVE  Goal(id, card)
  <2>1. (card = cards[id] \/ card = archive[id]) /\ card.is = "card"
    BY DEF Board!Stored, Board!Readable
  <2>2. card \in BoardCards
    BY <2>1 DEF BoardIInv, BoardTypeOK, BoardFiles, Board!NoFile, Board!Empty
  <2>3. Fits(id, card)
    BY <2>1, <2>2 DEF BoardIInv
  <2>4. DOMAIN card.history = 1..Len(card.history)
    BY <2>2 DEF BoardCards
  <2>5. ASSUME NEW s \in Board!States
        PROVE  Board!Cardinality({i \in DOMAIN card.history : card.history[i].to = s})
                 <= events[id][s] + faults
                    + Board!Cardinality({v \in BoardCalls : verb[v].step = "log" /\ verb[v].id = id
                                                        /\ verb[v].card.state = s})
    <3>1. Cardinality(Entered(card.history, s))
            <= events[id][s] + faults + Cardinality(Unlogged(id, s))
      BY <2>3 DEF Fits, Accounted
    <3>2. {i \in DOMAIN card.history : card.history[i].to = s} = Entered(card.history, s)
      BY <2>4 DEF Entered
    <3>3. {v \in BoardCalls : verb[v].step = "log" /\ verb[v].id = id /\ verb[v].card.state = s}
            = Unlogged(id, s)
      BY DEF Unlogged
    <3> QED
      BY <1>0, <3>1, <3>2, <3>3
  <2>6. card.ref \in garbled \/ Board!LegalChain(card)
    BY <2>3 DEF Fits, Sound
  <2> QED
    BY <2>5, <2>6
<1>2. \A id \in CardIds : \A card \in Board!Stored(id) : Goal(id, card)
  BY <1>1
<1> HIDE DEF Goal
<1>3. Board!HistoriesAreLegalAndLogged <=>
        \A id \in CardIds : \A card \in Board!Stored(id) : Goal(id, card)
  BY Zenon DEF Board!HistoriesAreLegalAndLogged, Goal
<1> QED
  BY <1>2, <1>3

-----------------------------------------------------------------------------
(* The memory store.                                                        *)

Texts == Bodies \cup {Memory!Summary}
Workspaces == InWorkspace \cup {FALSE}
Rows == [body : Texts, depth : Depths \cup {"consolidated"}, at : Nat, ws : Workspaces,
         life : {"Active", "Archived"}, superseded : {"no", "corrected", "inherited"}]
Inputs == [id : Nat, body : Texts, at : Nat, ws : Workspaces,
           life : {"Active", "Archived"}, superseded : {"no", "corrected", "inherited"}]
Predicates == {"derived-from", "cross-ref", "supersedes", "summarizes"}
Links == Nat \X Nat \X Predicates
JobStages == {"idle", "find", "insert", "cite", "attach", "trust", "record", "refer", "mark"}
PassJobs == [kind : {"none", "pass", "capture", "refine"}, stage : JobStages,
             todo : Seq(Inputs), max : Nat, item : Nat, related : SUBSET Nat]

MemoryTypeOK ==
    /\ made \in Nat
    /\ rows \in [DOMAIN rows -> Rows] /\ DOMAIN rows \subseteq 1..made
    /\ edges \subseteq Links /\ \A e \in edges : e[1] \in 1..made /\ e[2] \in 1..made
    /\ pairs \subseteq Nat \X Nat /\ \A p \in pairs : p[1] \in 1..made
    /\ clock \in Nat /\ watermark \in Nat
    /\ job \in [Jobs -> PassJobs]

\* What may be consolidated is a row that is not consolidated itself.
RawInput(i) == i \in 1..made /\ (i \in DOMAIN rows => rows[i].depth # "consolidated")

\* A row is cited by another one.
Cited(i) == \E e \in edges : e[2] = i /\ e[1] # i /\ e[3] = "derived-from"

\* Its citations outlive a step, unless the row itself is merged.
StaysCited ==
    /\ merged \subseteq merged'
    /\ \A i : Cited(i) /\ i \notin merged' => Cited(i)'

\* A job has an input before it as long as it works on one; those of a pass are raw rows,
\* that of a capture is none, that of a refinement any row or none; the item found or
\* created for a raw row is not that row; and the row is cited once its link is written.
JobFollows(b) ==
    /\ b.stage # "idle" => b.kind \in {"pass", "capture", "refine"}
    /\ b.stage \in {"find", "insert", "cite", "attach", "trust", "record"} => b.todo # <<>>
    /\ b.related \subseteq 1..made
    /\ b.related # {} \/ b.stage = "refer" => b.kind = "capture"
    /\ b.kind \in {"capture", "refine"} => \A n \in 1..Len(b.todo) : b.todo[n].id \in 0..made
    /\ b.kind = "pass" => \A n \in 1..Len(b.todo) : RawInput(b.todo[n].id)
    /\ b.stage \in {"cite", "attach", "trust", "record", "refer"} => b.item \in 1..made
    /\ b.kind = "pass" /\ b.stage \in {"cite", "attach"} => b.item # Head(b.todo).id
    /\ b.kind = "pass" /\ b.stage \in {"trust", "record"} =>
          Head(b.todo).id \in merged \/ Cited(Head(b.todo).id)

\* No row corrects itself.
NoneOfItself == \A e \in edges : e[3] = "supersedes" => e[1] # e[2]

CommittedIsCited == \A i \in committed \ merged : Cited(i)

Corrections(i) == {e \in edges : e[2] = i /\ e[3] = "supersedes"}
CorrectedOnce(i) ==
    /\ rows[i].superseded = "corrected" => \E e \in edges : Corrections(i) = {e}
    /\ rows[i].superseded # "corrected" => Corrections(i) = {}

MemoryIInv ==
    /\ MemoryTypeOK
    /\ \A p \in pairs : p[1] # p[2]
    /\ \A j \in Jobs : JobFollows(job[j])
    /\ NoneOfItself
    /\ CommittedIsCited
    /\ \A i \in DOMAIN rows \ merged : CorrectedOnce(i)


\* Cardinality, as the memory store means it.
LEMMA MemorySize ==
    ASSUME NEW S
    PROVE  Memory!Cardinality(S) = Cardinality(S)
BY DEF Memory!Cardinality, Cardinality

\* An end of a link, once the row it named has been merged.
LEMMA EndMoved ==
    ASSUME NEW a, NEW b, NEW c, NEW k
    PROVE  /\ [<<a, b, c>> EXCEPT ![1] = k] = <<k, b, c>>
           /\ [<<a, b, c>> EXCEPT ![2] = k] = <<a, k, c>>
OBVIOUS

\* Every job goes on as it was when no row it may use changes its depth.
LEMMA JobsStay ==
    ASSUME MemoryTypeOK, StaysCited, made' \in Nat, made <= made', NEW b, JobFollows(b),
           \A i \in 1..made : i \in DOMAIN rows' => i \in DOMAIN rows
               /\ rows'[i].depth = rows[i].depth
    PROVE  JobFollows(b)'
<1>1. \A i : RawInput(i) => RawInput(i)'
  BY DEF RawInput, MemoryTypeOK
<1>2. 1..made \subseteq 1..made' /\ 0..made \subseteq 0..made'
  BY DEF MemoryTypeOK
<1>3. \A i : i \in merged \/ Cited(i) => i \in merged' \/ Cited(i)'
  BY DEF StaysCited
<1> QED
  BY <1>1, <1>2, <1>3 DEF JobFollows

\* What a step that neither corrects nor merges has to leave.
LEMMA MemoryGrows ==
    ASSUME MemoryIInv, MemoryTypeOK', \A p \in pairs' : p[1] # p[2],
           \A j \in Jobs : JobFollows(job[j])', CommittedIsCited', merged' = merged,
           edges \subseteq edges',
           \A e \in edges' \ edges : e[3] # "supersedes",
           \A i \in DOMAIN rows' :
              \/ i \in DOMAIN rows /\ rows'[i].superseded = rows[i].superseded
              \/ i = made + 1 /\ rows'[i].superseded # "corrected"
    PROVE  MemoryIInv'
<1>1. NoneOfItself'
  BY DEF MemoryIInv, NoneOfItself
<1>2. ASSUME NEW i \in DOMAIN rows' \ merged'
      PROVE  CorrectedOnce(i)'
  <2>1. Corrections(i)' = Corrections(i)
    BY DEF Corrections
  <2>2. CASE i \in DOMAIN rows /\ rows'[i].superseded = rows[i].superseded
    BY <2>1, <2>2 DEF MemoryIInv, CorrectedOnce
  <2>3. CASE i = made + 1 /\ rows'[i].superseded # "corrected"
    <3>1. Corrections(i) = {}
      BY <2>3 DEF MemoryIInv, MemoryTypeOK, Corrections
    <3> QED
      BY <2>1, <2>3, <3>1 DEF CorrectedOnce
  <2> QED
    BY <2>2, <2>3
<1> QED
  BY <1>1, <1>2 DEF MemoryIInv

\* Nothing is forgotten of what is cited while links are only added.
LEMMA StillCited ==
    ASSUME MemoryIInv, edges \subseteq edges', committed' = committed, merged' = merged
    PROVE  StaysCited /\ CommittedIsCited'
BY DEF MemoryIInv, CommittedIsCited, StaysCited, Cited

\* insert: a row of its own under a fresh id.
LEMMA RowAdded ==
    ASSUME MemoryTypeOK, NEW r \in Rows, Memory!Insert(r)
    PROVE  /\ made' = made + 1 /\ made' \in Nat /\ made <= made'
           /\ rows' \in [DOMAIN rows' -> Rows] /\ DOMAIN rows' = DOMAIN rows \cup {made + 1}
           /\ rows'[made + 1] = r /\ made + 1 \notin DOMAIN rows
           /\ \A i \in DOMAIN rows : rows'[i] = rows[i]
           /\ DOMAIN rows' \subseteq 1..made'
BY DEF MemoryTypeOK, Memory!Insert, Memory!With, Memory!Ids

\* A row is replaced by a row.
LEMMA RowIsRow ==
    ASSUME NEW b \in Texts, NEW d \in Depths \cup {"consolidated"}, NEW a \in Nat,
           NEW w \in Workspaces
    PROVE  Memory!Row(b, d, a, w) \in Rows /\ Memory!Row(b, d, a, w).superseded = "no"
BY DEF Memory!Row, Rows

\* An empty store.
LEMMA MemoryInit ==
    Memory!Init => MemoryIInv
<1> SUFFICES ASSUME Memory!Init PROVE MemoryIInv
  OBVIOUS
<1>1. rows = <<>> /\ DOMAIN rows = {} /\ rows \in [DOMAIN rows -> Rows]
  BY DEF Memory!Init
<1>2. Memory!Idle \in PassJobs /\ JobFollows(Memory!Idle)
  BY DEF Memory!Idle, PassJobs, JobFollows, JobStages, Memory!NoItem
<1>3. MemoryTypeOK
  BY <1>1, <1>2 DEF MemoryTypeOK, Memory!Init
<1> QED
  BY <1>1, <1>2, <1>3 DEF Memory!Init, MemoryIInv, NoneOfItself, CommittedIsCited

\* One job takes a step of its own.
LEMMA OneJobMoves ==
    ASSUME MemoryIInv, StaysCited, made' \in Nat, made <= made', NEW j \in Jobs,
           NEW b \in PassJobs,
           \A i \in 1..made : i \in DOMAIN rows' => i \in DOMAIN rows
               /\ rows'[i].depth = rows[i].depth,
           job' = [job EXCEPT ![j] = b], JobFollows(b)'
    PROVE  job' \in [Jobs -> PassJobs] /\ \A k \in Jobs : JobFollows(job[k])'
<1>1. job' \in [Jobs -> PassJobs]
  BY DEF MemoryIInv, MemoryTypeOK
<1>2. ASSUME NEW k \in Jobs
      PROVE  JobFollows(job[k])'
  <2>1. ASSUME NEW c, c = job'[k], JobFollows(c)'
        PROVE  JobFollows(job[k])'
    BY <2>1 DEF JobFollows, RawInput, Cited
  <2>2. CASE k = j
    BY <2>1, <2>2 DEF MemoryIInv, MemoryTypeOK
  <2>3. CASE k # j
    <3>1. job'[k] = job[k] /\ MemoryTypeOK
      BY <2>3 DEF MemoryIInv, MemoryTypeOK
    <3>2. PICK x : x = job[k]
      OBVIOUS
    <3>3. JobFollows(x) /\ x = job'[k]
      BY <3>1, <3>2 DEF MemoryIInv
    <3>4. JobFollows(x)'
      BY <3>1, <3>3, JobsStay
    <3> QED
      BY <2>1, <3>3, <3>4
  <2> QED
    BY <2>2, <2>3
<1> QED
  BY <1>1, <1>2

\* All the jobs stand still.
LEMMA NoJobMoves ==
    ASSUME MemoryIInv, StaysCited, made' \in Nat, made <= made', job' = job,
           \A i \in 1..made : i \in DOMAIN rows' => i \in DOMAIN rows
               /\ rows'[i].depth = rows[i].depth
    PROVE  job' \in [Jobs -> PassJobs] /\ \A k \in Jobs : JobFollows(job[k])'
<1>1. ASSUME NEW k \in Jobs
      PROVE  JobFollows(job[k])'
  <2>1. PICK x : x = job[k]
    OBVIOUS
  <2>2. JobFollows(x) /\ MemoryTypeOK /\ x = job'[k]
    BY <2>1 DEF MemoryIInv
  <2>3. JobFollows(x)'
    BY <2>2, JobsStay
  <2> QED
    BY <2>2, <2>3 DEF JobFollows, RawInput, Cited
<1> QED
  BY <1>1 DEF MemoryIInv, MemoryTypeOK

\* A job that is done with its input goes on to the next, or ends.
LEMMA JobGoesOn ==
    ASSUME NEW b \in PassJobs, JobFollows(b), b.kind # "pass" \/ b.todo # <<>>
    PROVE  Memory!After(b) \in PassJobs /\ JobFollows(Memory!After(b))
<1>1. Memory!Idle \in PassJobs /\ JobFollows(Memory!Idle)
  BY DEF Memory!Idle, PassJobs, JobFollows, JobStages, Memory!NoItem
<1>2. CASE b.kind # "pass"
  BY <1>1, <1>2 DEF Memory!After
<1>3. CASE b.kind = "pass"
  <2> DEFINE t == Tail(b.todo)
             s == IF Len(b.todo) = 1 THEN "mark" ELSE "find"
  <2>1. b.todo \in Seq(Inputs) /\ b.todo # <<>> /\ b.related = {}
    BY <1>3 DEF PassJobs, JobFollows
  <2>2. /\ t \in Seq(Inputs) /\ Len(t) = Len(b.todo) - 1 /\ Len(b.todo) \in Nat \ {0}
        /\ \A n \in 1..Len(t) : t[n] = b.todo[n + 1]
    BY <2>1, HeadTailProperties, EmptySeq, LenProperties
  <2>3. /\ \A n \in 1..Len(t) : RawInput(t[n].id)
        /\ s = "find" => t # <<>>
    <3>1. \A n \in 1..Len(t) : n + 1 \in 1..Len(b.todo)
      BY <2>2
    <3>2. \A n \in 1..Len(b.todo) : RawInput(b.todo[n].id)
      BY <1>3 DEF JobFollows
    <3>3. s = "find" => Len(t) # 0
      BY <2>2
    <3> HIDE DEF t, s
    <3>4. t # <<>> \/ Len(t) = 0
      BY EmptySeq
    <3>5. \A n \in 1..Len(t) : RawInput(t[n].id)
      BY <2>2, <3>1, <3>2
    <3> QED
      BY <3>3, <3>4, <3>5
  <2>4. Memory!After(b) = [b EXCEPT !.todo = t, !.item = Memory!NoItem, !.stage = s]
    BY <1>3 DEF Memory!After
  <2>5. s \in {"mark", "find"} /\ Memory!NoItem \in Nat
    BY DEF Memory!NoItem
  <2> HIDE DEF t, s
  <2> DEFINE a == [b EXCEPT !.todo = t, !.item = Memory!NoItem, !.stage = s]
  <2>6. /\ a \in PassJobs /\ a.todo = t /\ a.stage = s /\ a.kind = "pass"
        /\ a.related = {}
    BY <1>3, <2>1, <2>2, <2>5 DEF PassJobs, JobStages, JobFollows
  <2> HIDE DEF a
  <2>7. JobFollows(a)
    BY <2>3, <2>5, <2>6 DEF JobFollows
  <2> QED
    BY <2>4, <2>6, <2>7 DEF a
<1> QED
  BY <1>2, <1>3

\* A row is added, or rows are changed or deleted, and nothing else.
LEMMA MemoryRowsStep ==
    ASSUME MemoryIInv,
           \/ \E d \in Depths, b \in Bodies, w \in InWorkspace : Memory!Add(d, b, w)
           \/ \E i \in Memory!Ids :
                 Memory!Delete(i) \/ Memory!Archive(i) \/ Memory!Touch(i)
           \/ Memory!FindPairs \/ Memory!Tick
    PROVE  MemoryIInv'
<1>0. MemoryTypeOK
  BY DEF MemoryIInv
<1>1. /\ made' \in Nat /\ made <= made' /\ rows' \in [DOMAIN rows' -> Rows]
      /\ DOMAIN rows' \subseteq 1..made'
      /\ \A i \in 1..made : i \in DOMAIN rows' => i \in DOMAIN rows
         /\ rows'[i].depth = rows[i].depth
      /\ \A i \in DOMAIN rows' :
            \/ i \in DOMAIN rows /\ rows'[i].superseded = rows[i].superseded
            \/ i = made + 1 /\ rows'[i].superseded # "corrected"
  <2>1. CASE \E d \in Depths, b \in Bodies, w \in InWorkspace : Memory!Add(d, b, w)
    <3>1. PICK d \in Depths, b \in Bodies, w \in InWorkspace : Memory!Add(d, b, w)
      BY <2>1
    <3> DEFINE r == Memory!Row(b, d, clock, w)
    <3>2. r \in Rows /\ r.superseded = "no"
      BY <1>0, RowIsRow DEF MemoryTypeOK, Texts, Workspaces
    <3>3. Memory!Insert(r)
      BY <3>1 DEF Memory!Add
    <3> HIDE DEF r
    <3>4. /\ made' = made + 1 /\ made' \in Nat /\ made <= made'
          /\ rows' \in [DOMAIN rows' -> Rows] /\ DOMAIN rows' = DOMAIN rows \cup {made + 1}
          /\ rows'[made + 1] = r /\ made + 1 \notin DOMAIN rows
          /\ \A i \in DOMAIN rows : rows'[i] = rows[i]
          /\ DOMAIN rows' \subseteq 1..made'
      BY <1>0, <3>2, <3>3, RowAdded
    <3>5. \A i \in 1..made : i # made + 1
      BY <1>0 DEF MemoryTypeOK
    <3> QED
      BY <3>2, <3>4, <3>5
  <2>2. CASE \E i \in Memory!Ids : Memory!Delete(i)
    BY <1>0, <2>2 DEF Memory!Delete, Memory!Without, Memory!Ids, MemoryTypeOK
  <2>3. CASE \E i \in Memory!Ids : Memory!Archive(i) \/ Memory!Touch(i)
    <3>1. PICK i \in DOMAIN rows : Memory!SetLife(i, "Archived") \/ Memory!SetLife(i, "Active")
      BY <2>3 DEF Memory!Ids, Memory!Archive, Memory!Touch
    <3>2. PICK r : /\ rows' = [rows EXCEPT ![i] = r]
                   /\ \/ r = [rows[i] EXCEPT !.life = "Archived"]
                      \/ r = [rows[i] EXCEPT !.life = "Active"]
      BY <3>1 DEF Memory!SetLife
    <3>3. r \in Rows /\ r.depth = rows[i].depth /\ r.superseded = rows[i].superseded
      BY <1>0, <3>2 DEF MemoryTypeOK, Rows
    <3>4. made' = made
      BY <2>3 DEF Memory!Archive, Memory!Touch
    <3> QED
      BY <1>0, <3>2, <3>3, <3>4 DEF MemoryTypeOK
  <2>4. CASE Memory!FindPairs \/ Memory!Tick
    BY <1>0, <2>4 DEF Memory!FindPairs, Memory!Tick, MemoryTypeOK
  <2> QED
    BY <2>1, <2>2, <2>3, <2>4
<1>2. UNCHANGED <<edges, job, committed, merged, watermark>> /\ clock' \in Nat
  BY <1>0 DEF Memory!Add, Memory!Delete, Memory!Archive, Memory!Touch,
     Memory!FindPairs, Memory!Tick, MemoryTypeOK
<1>3. pairs' \subseteq Nat \X Nat /\ \A p \in pairs' : p[1] # p[2] /\ p[1] \in 1..made'
  <2>1. CASE Memory!FindPairs
    <3> DEFINE D == DOMAIN rows
    <3>1. D \subseteq Nat /\ D \subseteq 1..made'
      BY <1>0, <1>1 DEF MemoryTypeOK
    <3>2. \A p \in pairs' : p \in D \X D /\ p[1] # p[2]
      BY <2>1 DEF Memory!FindPairs, Memory!Ids
    <3> HIDE DEF D
    <3>3. \A p \in D \X D : p \in Nat \X Nat /\ p[1] \in 1..made'
      BY <3>1
    <3> QED
      BY <3>2, <3>3
  <2>2. CASE pairs' = pairs
    BY <1>1, <2>2 DEF MemoryIInv, MemoryTypeOK
  <2> QED
    BY <2>1, <2>2 DEF Memory!Add, Memory!Delete, Memory!Archive, Memory!Touch,
       Memory!Tick
<1>4. job' \in [Jobs -> PassJobs] /\ \A k \in Jobs : JobFollows(job[k])'
  BY <1>1, <1>2, StillCited, NoJobMoves
<1>5. MemoryTypeOK'
  <2>1. /\ \A e \in edges : e[1] \in 1..made' /\ e[2] \in 1..made'
        /\ \A p \in pairs : p[1] \in 1..made'
    BY <1>0, <1>1 DEF MemoryTypeOK
  <2> QED
    BY <1>0, <1>1, <1>2, <1>3, <1>4, <2>1 DEF MemoryTypeOK
<1>6. CommittedIsCited'
  BY <1>2, StillCited
<1> QED
  BY <1>1, <1>2, <1>3, <1>4, <1>5, <1>6, MemoryGrows

\* A job takes a step that writes no row and no link.
LEMMA JobAlone ==
    ASSUME MemoryIInv, NEW j \in Jobs, NEW b \in PassJobs, JobFollows(b),
           job' = [job EXCEPT ![j] = b], watermark' \in Nat,
           UNCHANGED <<rows, made, edges, pairs, committed, merged, clock>>
    PROVE  MemoryIInv'
<1>0. MemoryTypeOK
  BY DEF MemoryIInv
<1>1. /\ made' \in Nat /\ made <= made'
      /\ \A i \in 1..made : i \in DOMAIN rows' => i \in DOMAIN rows
         /\ rows'[i].depth = rows[i].depth
  BY <1>0 DEF MemoryTypeOK
<1>2. JobFollows(b)'
  BY <1>0, <1>1, StillCited, JobsStay
<1>3. job' \in [Jobs -> PassJobs] /\ \A k \in Jobs : JobFollows(job[k])'
  BY <1>1, <1>2, StillCited, OneJobMoves
<1>4. MemoryTypeOK'
  BY <1>0, <1>1, <1>3 DEF MemoryTypeOK
<1>5. CommittedIsCited' /\ \A p \in pairs' : p[1] # p[2]
  BY StillCited DEF MemoryIInv
<1>6. \A i \in DOMAIN rows' : i \in DOMAIN rows /\ rows'[i].superseded = rows[i].superseded
  OBVIOUS
<1> QED
  BY <1>3, <1>4, <1>5, <1>6, MemoryGrows

\* A pass starts with a copy of the rows that are due, a capture with an input of its own.
LEMMA JobStarts ==
    ASSUME MemoryIInv, NEW j \in Jobs,
           \/ Memory!StartPass(j)
           \/ \E b \in Bodies : \E r \in {{}} \cup {{i} : i \in Memory!Ids} :
                  Memory!StartCapture(j, b, r)
    PROVE  MemoryIInv'
<1>0. MemoryTypeOK
  BY DEF MemoryIInv
<1>1. CASE Memory!StartPass(j)
  <2> DEFINE n == Memory!Cardinality(Memory!Due)
  <2>1. PICK s \in Memory!Candidates :
           job' = [job EXCEPT ![j] =
                      [kind |-> "pass", stage |-> IF Memory!Due = {} THEN "mark" ELSE "find",
                       todo |-> [m \in 1..n |-> Memory!Copy(s[m])],
                       max |-> watermark, item |-> Memory!NoItem, related |-> {}]]
    BY <1>1 DEF Memory!StartPass
  <2>2. IsFiniteSet(Memory!Due) /\ n \in Nat /\ (Memory!Due = {} <=> n = 0)
    <3>1. IsFiniteSet(1..made)
      <4>1. made \in Int /\ 1 \in Int
        BY <1>0 DEF MemoryTypeOK
      <4> QED
        BY <4>1, FS_Interval
    <3>2. Memory!Due \subseteq 1..made
      BY <1>0 DEF Memory!Due, Memory!Ids, MemoryTypeOK
    <3>3. IsFiniteSet(Memory!Due)
      BY <3>1, <3>2, FS_Subset
    <3> QED
      BY <3>3, FS_CardinalityType, FS_EmptySet, MemorySize
  <2> DEFINE st == IF Memory!Due = {} THEN "mark" ELSE "find"
             todo == [m \in 1..n |-> Memory!Copy(s[m])]
             b == [kind |-> "pass", stage |-> st, todo |-> todo, max |-> watermark,
                   item |-> Memory!NoItem, related |-> {}]
  <2>3. s \in [1..n -> Memory!Due]
    BY DEF Memory!Candidates
  <2>4. \A i \in Memory!Due : Memory!Copy(i) \in Inputs /\ Memory!Copy(i).id = i /\ RawInput(i)
    BY <1>0 DEF Memory!Due, Memory!Ids, Memory!Copy, Inputs, Rows, MemoryTypeOK, RawInput
  <2>5. job' = [job EXCEPT ![j] = b]
    BY <2>1
  <2> HIDE DEF n
  <2>6. /\ todo \in Seq(Inputs) /\ Len(todo) = n
        /\ \A m \in 1..n : RawInput(todo[m].id)
    <3>1. \A m \in 1..n : Memory!Copy(s[m]) \in Inputs /\ Memory!Copy(s[m]).id = s[m]
        /\ RawInput(s[m])
      BY <2>3, <2>4
    <3>2. todo \in [1..n -> Inputs]
      BY <3>1
    <3>3. todo \in Seq(Inputs) /\ Len(todo) = n
      BY <2>2, <3>2
    <3> QED
      BY <3>1, <3>3
  <2>7. st \in {"mark", "find"} /\ (st = "find" => todo # <<>>)
    BY <2>2, <2>6
  <2> HIDE DEF st, todo
  <2>8. b \in PassJobs
    BY <1>0, <2>6, <2>7 DEF PassJobs, JobStages, MemoryTypeOK, Memory!NoItem
  <2>9. JobFollows(b)
    BY <2>6, <2>7 DEF JobFollows
  <2>10. UNCHANGED <<rows, made, edges, pairs, committed, merged, clock, watermark>>
    BY <1>1 DEF Memory!StartPass
  <2> HIDE DEF b
  <2> QED
    BY <1>0, <2>5, <2>8, <2>9, <2>10, JobAlone DEF MemoryTypeOK
<1>2. ASSUME NEW body \in Bodies, NEW r \in {{}} \cup {{i} : i \in Memory!Ids},
             Memory!StartCapture(j, body, r)
      PROVE  MemoryIInv'
  <2> DEFINE input == [id |-> Memory!NoItem, body |-> body, at |-> clock, ws |-> FALSE,
                       life |-> "Active", superseded |-> "no"]
             todo == <<input>>
             b == [kind |-> "capture", stage |-> "find", todo |-> todo,
                   max |-> 0, item |-> Memory!NoItem, related |-> r]
  <2>1. job' = [job EXCEPT ![j] = b]
    BY <1>2 DEF Memory!StartCapture
  <2>2. input \in Inputs /\ input.id = Memory!NoItem /\ r \subseteq 1..made /\ r \in SUBSET Nat
    BY <1>0 DEF Inputs, Memory!NoItem, Memory!Ids, MemoryTypeOK, Texts, Workspaces
  <2> HIDE DEF input
  <2>3. todo \in Seq(Inputs) /\ todo # <<>> /\ Len(todo) = 1 /\ todo[1] = input
    BY <2>2
  <2> HIDE DEF todo
  <2>4. b \in PassJobs
    BY <2>2, <2>3 DEF PassJobs, JobStages, Memory!NoItem
  <2>5. JobFollows(b)
    <3>1. \A n \in 1..Len(todo) : todo[n].id \in 0..made
      BY <1>0, <2>2, <2>3 DEF Memory!NoItem, MemoryTypeOK
    <3> QED
      BY <2>2, <2>3, <3>1 DEF JobFollows
  <2>6. UNCHANGED <<rows, made, edges, pairs, committed, merged, clock, watermark>>
    BY <1>2 DEF Memory!StartCapture
  <2> HIDE DEF b
  <2> QED
    BY <1>0, <2>1, <2>4, <2>5, <2>6, JobAlone DEF MemoryTypeOK
<1> QED
  BY <1>1, <1>2

\* The input a job works on.
LEMMA TheInput ==
    ASSUME NEW b \in PassJobs, JobFollows(b), made \in Nat,
           b.stage \in {"find", "insert", "cite", "attach", "trust", "record"}
    PROVE  /\ Head(b.todo) \in Inputs /\ b.todo # <<>> /\ b.stage # "idle"
           /\ Head(b.todo).id \in 0..made /\ b.kind \in {"pass", "capture", "refine"}
           /\ b.kind = "pass" => RawInput(Head(b.todo).id)
<1>1. /\ b.todo \in Seq(Inputs) /\ b.todo # <<>> /\ b.stage # "idle"
      /\ b.kind \in {"pass", "capture", "refine"}
  BY DEF PassJobs, JobFollows
<1>2. Head(b.todo) = b.todo[1] /\ 1 \in 1..Len(b.todo) /\ Head(b.todo) \in Inputs
  BY <1>1
<1>3. CASE b.kind = "pass"
  BY <1>1, <1>2, <1>3 DEF JobFollows, RawInput
<1>4. CASE b.kind \in {"capture", "refine"}
  BY <1>1, <1>2, <1>4 DEF JobFollows
<1> QED
  BY <1>1, <1>3, <1>4

\* A job looks for an item, gives up, or marks what it has done.
LEMMA JobLooksOrStops ==
    ASSUME MemoryIInv, NEW j \in Jobs,
           Memory!Find(j) \/ Memory!StatementFails(j) \/ Memory!Mark(j) \/ Memory!GiveUp(j)
    PROVE  MemoryIInv'
<1> DEFINE b == job[j]
<1>0. MemoryTypeOK /\ b \in PassJobs /\ JobFollows(b) /\ watermark \in Nat /\ made \in Nat
  BY DEF MemoryIInv, MemoryTypeOK
<1>1. UNCHANGED <<rows, made, edges, pairs, merged, clock>> /\ committed' = committed
  BY DEF Memory!Find, Memory!StatementFails, Memory!Failed, Memory!Mark, Memory!GiveUp
<1>2. Memory!Idle \in PassJobs /\ JobFollows(Memory!Idle)
  BY DEF Memory!Idle, PassJobs, JobFollows, JobStages, Memory!NoItem
<1>3. CASE Memory!Find(j)
  <2> DEFINE same == Memory!SameAbstraction(Head(b.todo).body)
             st == IF same = {} THEN "insert" ELSE "attach"
             it == IF same = {} THEN Memory!NoItem ELSE Memory!Min(same)
             c == [b EXCEPT !.stage = st, !.item = it]
  <2>1. b.stage = "find" /\ job' = [job EXCEPT ![j] = c] /\ watermark' = watermark
    BY <1>0, <1>3 DEF Memory!Find, MemoryTypeOK
  <2>2. /\ Head(b.todo) \in Inputs /\ b.todo # <<>>
        /\ b.kind = "pass" => RawInput(Head(b.todo).id)
        /\ b.kind \in {"pass", "capture", "refine"}
    BY <1>0, <2>1, TheInput
  <2>3. \A i \in same : i \in 1..made /\ i \in DOMAIN rows /\ rows[i].depth = "consolidated"
    BY <1>0 DEF Memory!SameAbstraction, Memory!Ids, MemoryTypeOK
  <2>4. b.kind = "pass" => \A i \in same : i # Head(b.todo).id
    BY <1>0, <2>2, <2>3 DEF RawInput
  <2> HIDE DEF same
  <2>5. it \in Nat /\ (st = "attach" => it \in same)
    <3>1. CASE same = {}
      BY <3>1 DEF Memory!NoItem
    <3>2. CASE same # {}
      <4>1. same \in SUBSET Nat
        BY <2>3
      <4>2. \E m \in same : \A k \in same : m <= k
        BY <3>2, <4>1, LeastOfMany
      <4>3. Memory!Min(same) \in same
        BY <4>2 DEF Memory!Min
      <4> QED
        BY <3>2, <4>1, <4>3
    <3> QED
      BY <3>1, <3>2
  <2>6. st \in {"insert", "attach"}
    OBVIOUS
  <2> HIDE DEF st, it
  <2>7. /\ c \in PassJobs /\ c.stage = st /\ c.item = it /\ c.kind = b.kind /\ c.todo = b.todo
        /\ c.related = b.related
    BY <1>0, <2>5, <2>6 DEF PassJobs, JobStages
  <2> HIDE DEF c
  <2>8. JobFollows(c)
    BY <1>0, <2>1, <2>2, <2>3, <2>4, <2>5, <2>6, <2>7 DEF JobFollows
  <2> QED
    BY <1>0, <1>1, <2>1, <2>7, <2>8, JobAlone
<1>4. CASE Memory!StatementFails(j)
  <2>1. /\ b.stage \in JobStages \ {"idle", "mark"} /\ watermark' = watermark
        /\ job' = [job EXCEPT ![j] = Memory!After(b)]
    BY <1>4 DEF Memory!StatementFails, Memory!Failed, JobStages
  <2>2. b.kind # "pass" \/ b.todo # <<>>
    BY <1>0, <2>1 DEF JobFollows, JobStages
  <2>3. Memory!After(b) \in PassJobs /\ JobFollows(Memory!After(b))
    BY <1>0, <2>2, JobGoesOn
  <2> QED
    BY <1>0, <1>1, <2>1, <2>3, JobAlone
<1>5. CASE Memory!Mark(j) \/ Memory!GiveUp(j)
  <2>1. job' = [job EXCEPT ![j] = Memory!Idle] /\ watermark' \in Nat
    BY <1>0, <1>5 DEF Memory!Mark, Memory!GiveUp, PassJobs
  <2> QED
    BY <1>1, <1>2, <2>1, JobAlone
<1> QED
  BY <1>3, <1>4, <1>5

\* A job creates an item, or a cluster is summarized: a row of its own, and its links.
LEMMA JobCreates ==
    ASSUME MemoryIInv, NEW j \in Jobs, Memory!Create(j)
    PROVE  MemoryIInv'
<1> DEFINE b == job[j]
           h == Head(b.todo)
           r == Memory!Consolidated(h)
           c == [b EXCEPT !.stage = "cite", !.item = made + 1]
<1>0. MemoryTypeOK /\ b \in PassJobs /\ JobFollows(b) /\ made \in Nat
  BY DEF MemoryIInv, MemoryTypeOK
<1>1. /\ b.stage = "insert" /\ Memory!Insert(r) /\ job' = [job EXCEPT ![j] = c]
      /\ UNCHANGED <<edges, pairs, committed, merged, clock, watermark>>
  BY <1>0 DEF Memory!Create, MemoryTypeOK
<1>2. /\ h \in Inputs /\ b.todo # <<>>
      /\ h.id \in 0..made /\ b.kind \in {"pass", "capture", "refine"}
  BY <1>0, <1>1, TheInput
<1>3. r \in Rows /\ r.superseded # "corrected"
  <2>1. /\ h.body \in Texts /\ h.at \in Nat /\ h.ws \in Workspaces
        /\ h.life \in {"Active", "Archived"}
    BY <1>2 DEF Inputs
  <2> HIDE DEF h
  <2> QED
    BY <2>1 DEF Memory!Consolidated, Memory!Row, Rows
<1>4. /\ c \in PassJobs /\ c.stage = "cite" /\ c.item = made + 1 /\ c.kind = b.kind
      /\ c.todo = b.todo /\ c.related = b.related
  <2>1. made + 1 \in Nat
    BY <1>0
  <2> HIDE DEF b
  <2> QED
    BY <1>0, <2>1 DEF PassJobs, JobStages
<1> HIDE DEF r, c
<1>5. /\ made' = made + 1 /\ made' \in Nat /\ made <= made'
      /\ rows' \in [DOMAIN rows' -> Rows] /\ DOMAIN rows' = DOMAIN rows \cup {made + 1}
      /\ rows'[made + 1] = r /\ made + 1 \notin DOMAIN rows
      /\ \A i \in DOMAIN rows : rows'[i] = rows[i]
      /\ DOMAIN rows' \subseteq 1..made'
  BY <1>0, <1>1, <1>3, RowAdded
<1>6. \A i \in 1..made : i \in DOMAIN rows' => i \in DOMAIN rows /\ rows'[i].depth = rows[i].depth
  BY <1>0, <1>5
<1>7. PICK y : y = c
  OBVIOUS
<1>8. job' \in [Jobs -> PassJobs] /\ \A k \in Jobs : JobFollows(job[k])'
  <2>1. PICK x : x = b
    OBVIOUS
  <2>2. JobFollows(x)
    BY <1>0, <2>1
  <2>3. JobFollows(x)'
    BY <1>0, <1>1, <1>5, <1>6, <2>2, StillCited, JobsStay
  <2>4. made + 1 \in 1..made' /\ made + 1 # h.id
    BY <1>0, <1>2, <1>5
  <2>5. /\ y.stage = "cite" /\ y.kind = x.kind /\ y.todo = x.todo /\ y.related = x.related
        /\ y.item \in 1..made' /\ y.item # Head(y.todo).id /\ y.todo # <<>>
        /\ x.kind \in {"pass", "capture", "refine"}
    BY <1>2, <1>4, <1>7, <2>1, <2>4
  <2>6. JobFollows(y)'
    BY <2>3, <2>5 DEF JobFollows
  <2>7. y \in PassJobs /\ job' = [job EXCEPT ![j] = y]
    BY <1>1, <1>4, <1>7
  <2> QED
    BY <1>1, <1>5, <1>6, <2>6, <2>7, StillCited, OneJobMoves
<1>9. MemoryTypeOK'
  <2>1. /\ \A e \in edges : e[1] \in 1..made' /\ e[2] \in 1..made'
        /\ \A p \in pairs : p[1] \in 1..made'
    BY <1>0, <1>5 DEF MemoryTypeOK
  <2> QED
    BY <1>0, <1>1, <1>5, <1>8, <2>1 DEF MemoryTypeOK
<1>10. CommittedIsCited' /\ \A p \in pairs' : p[1] # p[2]
  BY <1>1, StillCited DEF MemoryIInv
<1>11. \A i \in DOMAIN rows' :
          \/ i \in DOMAIN rows /\ rows'[i].superseded = rows[i].superseded
          \/ i = made + 1 /\ rows'[i].superseded # "corrected"
  BY <1>3, <1>5
<1> QED
  BY <1>1, <1>8, <1>9, <1>10, <1>11, MemoryGrows

\* What a step of a job leaves when it only adds links: no row changes, and no mark.
LEMMA LinksAdded ==
    ASSUME MemoryIInv, NEW j \in Jobs, NEW b \in PassJobs, job' = [job EXCEPT ![j] = b],
           JobFollows(b)', CommittedIsCited', NEW new \in SUBSET Links, edges' = edges \cup new,
           \A e \in new : e[1] \in 1..made /\ e[2] \in 1..made /\ e[3] # "supersedes",
           UNCHANGED <<rows, made, pairs, merged, clock, watermark>>
    PROVE  MemoryIInv'
<1>0. MemoryTypeOK /\ made \in Nat
  BY DEF MemoryIInv, MemoryTypeOK
<1>1. StaysCited
  BY DEF StaysCited, Cited
<1>2. /\ made' \in Nat /\ made <= made'
      /\ \A i \in 1..made : i \in DOMAIN rows' => i \in DOMAIN rows
         /\ rows'[i].depth = rows[i].depth
  BY <1>0
<1>3. job' \in [Jobs -> PassJobs] /\ \A k \in Jobs : JobFollows(job[k])'
  BY <1>1, <1>2, OneJobMoves
<1>4. MemoryTypeOK'
  BY <1>0, <1>2, <1>3 DEF MemoryTypeOK
<1>5. \A p \in pairs' : p[1] # p[2]
  BY DEF MemoryIInv
<1> QED
  BY <1>3, <1>4, <1>5, MemoryGrows

\* A job links its item to the source it was given: of a pass, the input is cited from then on.
LEMMA JobCites ==
    ASSUME MemoryIInv, NEW j \in Jobs, Memory!Cite(j)
    PROVE  MemoryIInv'
<1> DEFINE b == job[j]
           h == Head(b.todo)
           new == Memory!Citations(b)
           st == IF b.stage = "attach" THEN "trust" ELSE "record"
           c == [b EXCEPT !.stage = st]
<1>0. MemoryTypeOK /\ b \in PassJobs /\ JobFollows(b) /\ made \in Nat
  BY DEF MemoryIInv, MemoryTypeOK
<1>1. /\ b.stage \in {"cite", "attach"} /\ edges' = edges \cup new
      /\ job' = [job EXCEPT ![j] = c] /\ committed' = committed
      /\ UNCHANGED <<rows, made, pairs, merged, clock, watermark>>
  BY <1>0 DEF Memory!Cite, MemoryTypeOK
<1>2. /\ h \in Inputs /\ b.todo # <<>> /\ h.id \in 0..made
      /\ b.kind \in {"pass", "capture", "refine"}
      /\ b.kind = "pass" => RawInput(h.id)
  BY <1>0, <1>1, TheInput
<1>3. b.item \in 1..made /\ (b.kind = "pass" => b.item # h.id)
  BY <1>0, <1>1 DEF JobFollows
<1>4. /\ new \subseteq Links
      /\ \A e \in new : e[1] \in 1..made /\ e[2] \in 1..made /\ e[3] # "supersedes"
      /\ b.kind = "pass" => <<b.item, h.id, "derived-from">> \in new
  <2>1. new = {<<b.item, s, "derived-from">> : s \in {h.id} \ {0}}
    BY DEF Memory!Citations, Memory!NoItem
  <2>2. b.kind = "pass" => h.id # 0
    BY <1>0, <1>2 DEF RawInput
  <2> HIDE DEF new, h, b
  <2>3. \A s \in {h.id} \ {0} : s \in 1..made
    BY <1>0, <1>2
  <2>4. ASSUME NEW e \in new
        PROVE  e \in Links /\ e[1] \in 1..made /\ e[2] \in 1..made /\ e[3] # "supersedes"
    <3>1. PICK s \in 1..made : e = <<b.item, s, "derived-from">>
      BY <2>1, <2>3
    <3> QED
      BY <1>0, <1>3, <3>1 DEF Links, Predicates
  <2> QED
    BY <2>1, <2>2, <2>4
<1>5. /\ c \in PassJobs /\ c.stage = st /\ c.item = b.item /\ c.kind = b.kind
      /\ c.todo = b.todo /\ c.related = b.related /\ st \in {"trust", "record"}
  <2>1. st \in {"trust", "record"}
    OBVIOUS
  <2> HIDE DEF st, b
  <2> QED
    BY <1>0, <2>1 DEF PassJobs, JobStages
<1>6. PICK n, x, y, new1 : n = h.id /\ x = b /\ y = c /\ new1 = new
  OBVIOUS
<1>7. b.kind = "pass" => Cited(n)'
  <2> DEFINE e == <<b.item, n, "derived-from">>
  <2>1. e[1] = b.item /\ e[2] = n /\ e[3] = "derived-from"
    OBVIOUS
  <2>2. b.kind = "pass" => e \in edges' /\ e[1] # n
    BY <1>1, <1>3, <1>4, <1>6
  <2> HIDE DEF e
  <2> QED
    BY <2>1, <2>2 DEF Cited
<1>8. StaysCited /\ CommittedIsCited'
  BY <1>1, StillCited
<1>9. JobFollows(y)'
  <2>1. JobFollows(x)'
    BY <1>0, <1>1, <1>6, <1>8, JobsStay
  <2>2. /\ y.stage \in {"trust", "record"} /\ y.item = x.item /\ y.kind = x.kind
        /\ y.todo = x.todo /\ y.todo # <<>> /\ y.related = x.related
        /\ x.stage \in {"cite", "attach"} /\ n = Head(x.todo).id
        /\ x.kind \in {"pass", "capture", "refine"}
    BY <1>1, <1>2, <1>5, <1>6
  <2>3. x.kind = "pass" => Cited(n)'
    BY <1>6, <1>7
  <2>4. y.kind = "pass" => Head(y.todo).id \in merged' \/ Cited(Head(y.todo).id)'
    BY <2>2, <2>3
  <2> QED
    BY <2>1, <2>2, <2>4 DEF JobFollows
<1> HIDE DEF new, c
<1> QED
  BY <1>1, <1>4, <1>5, <1>6, <1>8, <1>9, LinksAdded

\* A write is complete, or found that its item is gone; the input of a pass that is counted
\* then is cited.
LEMMA JobRecords ==
    ASSUME MemoryIInv, NEW j \in Jobs, Memory!Trust(j) \/ Memory!Record(j)
    PROVE  MemoryIInv'
<1> DEFINE b == job[j]
           h == Head(b.todo)
<1>0. MemoryTypeOK /\ b \in PassJobs /\ JobFollows(b) /\ made \in Nat
  BY DEF MemoryIInv, MemoryTypeOK
<1>1. /\ b.stage \in {"trust", "record"}
      /\ UNCHANGED <<rows, made, edges, pairs, merged, clock, watermark>>
  BY DEF Memory!Trust, Memory!Record
<1>2. /\ h \in Inputs /\ b.todo # <<>> /\ h.id \in 0..made
      /\ b.kind \in {"pass", "capture", "refine"}
  BY <1>0, <1>1, TheInput
<1>3. PICK c \in PassJobs : JobFollows(c) /\ job' = [job EXCEPT ![j] = c]
  <2>1. CASE Memory!Trust(j) /\ Memory!Stored(b.item)
    <3> DEFINE c == [b EXCEPT !.stage = "record"]
    <3>1. b.stage = "trust" /\ job' = [job EXCEPT ![j] = c]
      BY <1>0, <2>1 DEF Memory!Trust, MemoryTypeOK
    <3>2. /\ c \in PassJobs /\ c.stage = "record" /\ c.item = b.item /\ c.kind = b.kind
          /\ c.todo = b.todo /\ c.related = b.related
      <4> HIDE DEF b
      <4> QED
        BY <1>0 DEF PassJobs, JobStages
    <3> HIDE DEF c
    <3>3. JobFollows(c)
      BY <1>0, <3>1, <3>2 DEF JobFollows
    <3> QED
      BY <3>1, <3>2, <3>3
  <2>2. CASE Memory!Failed(j)
    <3>1. Memory!After(b) \in PassJobs /\ JobFollows(Memory!After(b))
      BY <1>0, <1>2, JobGoesOn
    <3>2. job' = [job EXCEPT ![j] = Memory!After(b)]
      BY <2>2 DEF Memory!Failed
    <3> QED
      BY <3>1, <3>2
  <2>3. CASE Memory!Done(j) /\ b.related # {}
    <3> DEFINE c == [b EXCEPT !.stage = "refer"]
    <3>1. job' = [job EXCEPT ![j] = c]
      BY <2>3 DEF Memory!Done
    <3>2. /\ c \in PassJobs /\ c.stage = "refer" /\ c.item = b.item /\ c.kind = b.kind
          /\ c.todo = b.todo /\ c.related = b.related
      <4> HIDE DEF b
      <4> QED
        BY <1>0 DEF PassJobs, JobStages
    <3> HIDE DEF c
    <3>3. JobFollows(c)
      BY <1>0, <1>1, <2>3, <3>2 DEF JobFollows
    <3> QED
      BY <3>1, <3>2, <3>3
  <2>4. CASE Memory!Done(j) /\ b.related = {}
    <3> DEFINE m == Memory!Max({b.max, h.at})
               a == [b EXCEPT !.max = m]
    <3>1. b.max \in Nat /\ h.at \in Nat
      BY <1>0, <1>2 DEF PassJobs, Inputs
    <3>2. m \in Nat
      <4>1. \A x, y \in Nat : \E z \in {x, y} : \A u \in {x, y} : z >= u
        OBVIOUS
      <4>2. m \in {b.max, h.at}
        BY <3>1, <4>1 DEF Memory!Max
      <4> QED
        BY <3>1, <4>2
    <3>3. job' = [job EXCEPT ![j] = Memory!After(a)]
      BY <2>4 DEF Memory!Done
    <3> HIDE DEF m
    <3>4. /\ a \in PassJobs /\ a.todo = b.todo /\ a.stage = b.stage /\ a.kind = b.kind
          /\ a.item = b.item /\ a.related = b.related
      <4> HIDE DEF b
      <4> QED
        BY <1>0, <3>2 DEF PassJobs
    <3> HIDE DEF a
    <3>5. JobFollows(a)
      BY <1>0, <3>4 DEF JobFollows
    <3>6. Memory!After(a) \in PassJobs /\ JobFollows(Memory!After(a))
      BY <1>2, <3>4, <3>5, JobGoesOn
    <3> QED
      BY <3>3, <3>6
  <2> QED
    BY <2>1, <2>2, <2>3, <2>4 DEF Memory!Trust, Memory!Record
<1>4. StaysCited
  BY <1>1 DEF StaysCited, Cited
<1>5. CommittedIsCited'
  <2>1. committed' \subseteq committed \cup Memory!Input(b)
    BY DEF Memory!Trust, Memory!Record, Memory!Failed, Memory!Done
  <2>2. \A i \in Memory!Input(b) : i \in merged \/ Cited(i)
    BY <1>0, <1>1 DEF Memory!Input, JobFollows
  <2>3. \A i \in committed' \ merged : Cited(i)
    BY <2>1, <2>2 DEF MemoryIInv, CommittedIsCited
  <2> QED
    BY <1>1, <2>3 DEF CommittedIsCited, Cited
<1>6. JobFollows(c)'
  BY <1>0, <1>1, <1>3, <1>4, JobsStay
<1> QED
  <2>1. edges' = edges \cup {} /\ {} \in SUBSET Links
    BY <1>1
  <2> QED
    BY <1>1, <1>3, <1>5, <1>6, <2>1, LinksAdded

\* A capture refers to a row it was told of.
LEMMA JobRefers ==
    ASSUME MemoryIInv, NEW j \in Jobs, Memory!Refer(j)
    PROVE  MemoryIInv'
<1> DEFINE b == job[j]
<1>0. MemoryTypeOK /\ b \in PassJobs /\ JobFollows(b) /\ made \in Nat
  BY DEF MemoryIInv, MemoryTypeOK
<1>1. PICK r \in b.related :
         /\ edges' = edges \cup {<<b.item, r, "cross-ref">>}
         /\ job' = [job EXCEPT ![j] = IF b.related = {r} THEN Memory!Idle
                                      ELSE [b EXCEPT !.related = b.related \ {r}]]
  BY DEF Memory!Refer
<1>2. /\ b.stage = "refer" /\ committed' = committed
      /\ UNCHANGED <<rows, made, pairs, merged, clock, watermark>>
  BY DEF Memory!Refer
<1>3. b.kind = "capture" /\ b.item \in 1..made /\ r \in 1..made /\ b.related \in SUBSET Nat
  BY <1>0, <1>2 DEF JobFollows, PassJobs
<1>4. Memory!Idle \in PassJobs /\ JobFollows(Memory!Idle)
  BY DEF Memory!Idle, PassJobs, JobFollows, JobStages, Memory!NoItem
<1>5. PICK c \in PassJobs : JobFollows(c) /\ job' = [job EXCEPT ![j] = c]
  <2>1. CASE b.related = {r}
    BY <1>1, <1>4, <2>1
  <2>2. CASE b.related # {r}
    <3> DEFINE c == [b EXCEPT !.related = b.related \ {r}]
    <3>1. /\ c \in PassJobs /\ c.stage = b.stage /\ c.item = b.item /\ c.kind = b.kind
          /\ c.todo = b.todo /\ c.related \subseteq b.related
      <4> HIDE DEF b
      <4> QED
        BY <1>0, <1>3 DEF PassJobs
    <3>2. job' = [job EXCEPT ![j] = c]
      BY <1>1, <2>2
    <3> HIDE DEF c
    <3>3. JobFollows(c)
      BY <1>0, <1>3, <3>1 DEF JobFollows
    <3> QED
      BY <3>1, <3>2, <3>3
  <2> QED
    BY <2>1, <2>2
<1> DEFINE e == <<b.item, r, "cross-ref">>
<1>6. e \in Links /\ e[1] \in 1..made /\ e[2] \in 1..made /\ e[3] # "supersedes"
  <2> HIDE DEF b
  <2> QED
    BY <1>0, <1>3 DEF Links, Predicates
<1> HIDE DEF e
<1>7. PICK new : new = {e} /\ edges' = edges \cup new
  BY <1>1 DEF e
<1>8. StaysCited /\ CommittedIsCited'
  BY <1>2, <1>7, StillCited
<1>9. JobFollows(c)'
  BY <1>0, <1>2, <1>5, <1>8, JobsStay
<1> QED
  <2>1. /\ new \in SUBSET Links
        /\ \A f \in new : f[1] \in 1..made /\ f[2] \in 1..made /\ f[3] # "supersedes"
    BY <1>6, <1>7
  <2> QED
    BY <1>2, <1>5, <1>7, <1>8, <1>9, <2>1, LinksAdded

\* A row's text is refined, and the link to its source is still to come.
LEMMA RowIsRefined ==
    ASSUME MemoryIInv, NEW j \in Jobs, NEW i \in Memory!Ids, NEW body \in Bodies,
           NEW src \in Memory!Ids \cup {Memory!NoItem}, Memory!Refine(j, i, body, src)
    PROVE  MemoryIInv'
<1> DEFINE input == [Memory!Copy(i) EXCEPT !.id = src]
           todo == <<input>>
           b == [kind |-> "refine", stage |-> "cite", todo |-> todo,
                 max |-> 0, item |-> i, related |-> {}]
           r == [rows[i] EXCEPT !.body = body]
<1>0. /\ MemoryTypeOK /\ made \in Nat /\ i \in DOMAIN rows /\ i \in 1..made
      /\ src \in 0..made /\ rows[i] \in Rows
  BY DEF MemoryIInv, MemoryTypeOK, Memory!Ids, Memory!NoItem
<1>1. /\ rows' = [rows EXCEPT ![i] = r] /\ job' = [job EXCEPT ![j] = b]
      /\ UNCHANGED <<made, edges, pairs, committed, merged, clock, watermark>>
  BY DEF Memory!Refine
<1>2. input \in Inputs /\ input.id \in 0..made
  BY <1>0 DEF Memory!Copy, Inputs, Rows
<1>3. r \in Rows /\ r.depth = rows[i].depth /\ r.superseded = rows[i].superseded
  BY <1>0 DEF Rows, Texts
<1> HIDE DEF input, r
<1>4. todo \in Seq(Inputs) /\ todo # <<>> /\ Len(todo) = 1 /\ todo[1] = input
  BY <1>2
<1> HIDE DEF todo
<1>5. b \in PassJobs
  BY <1>0, <1>4 DEF PassJobs, JobStages
<1>6. JobFollows(b)
  <2>1. \A n \in 1..Len(todo) : todo[n].id \in 0..made
    BY <1>2, <1>4
  <2> QED
    BY <1>0, <1>4, <2>1 DEF JobFollows
<1> HIDE DEF b
<1>7. /\ made' \in Nat /\ made <= made' /\ DOMAIN rows' = DOMAIN rows
      /\ rows' \in [DOMAIN rows' -> Rows]
      /\ \A k \in DOMAIN rows : /\ rows'[k].depth = rows[k].depth
                               /\ rows'[k].superseded = rows[k].superseded
  BY <1>0, <1>1, <1>3 DEF MemoryTypeOK
<1>8. StaysCited /\ CommittedIsCited' /\ \A p \in pairs' : p[1] # p[2]
  BY <1>1, StillCited DEF MemoryIInv
<1>9. PICK y : y = b
  OBVIOUS
<1>10. job' \in [Jobs -> PassJobs] /\ \A k \in Jobs : JobFollows(job[k])'
  <2>1. \A k \in 1..made : k \in DOMAIN rows' => k \in DOMAIN rows
           /\ rows'[k].depth = rows[k].depth
    BY <1>7
  <2>2. y \in PassJobs /\ JobFollows(y) /\ job' = [job EXCEPT ![j] = y]
    BY <1>1, <1>5, <1>6, <1>9
  <2>3. JobFollows(y)'
    BY <1>0, <1>7, <1>8, <2>1, <2>2, JobsStay
  <2> QED
    BY <1>7, <1>8, <2>1, <2>2, <2>3, OneJobMoves
<1>11. MemoryTypeOK'
  BY <1>0, <1>1, <1>7, <1>10 DEF MemoryTypeOK
<1> QED
  BY <1>1, <1>7, <1>8, <1>10, <1>11, MemoryGrows

\* A cluster is summarized by a row that is linked to all of it.
LEMMA ClusterIsSummarized ==
    ASSUME MemoryIInv, NEW c \in Memory!Clusters, Memory!Synthesize(c)
    PROVE  MemoryIInv'
<1> DEFINE r == Memory!Row(Memory!Summary, "consolidated", clock, FALSE)
           new == {<<made + 1, m, "summarizes">> : m \in c}
<1>0. MemoryTypeOK /\ made \in Nat /\ clock \in Nat
  BY DEF MemoryIInv, MemoryTypeOK
<1>1. /\ Memory!Insert(r) /\ edges' = edges \cup new
      /\ UNCHANGED <<job, pairs, committed, merged, clock, watermark>>
  BY DEF Memory!Synthesize
<1>2. c \subseteq 1..made
  BY <1>0 DEF Memory!Clusters, MemoryTypeOK
<1>3. r \in Rows /\ r.superseded = "no"
  BY <1>0, RowIsRow DEF Texts, Workspaces
<1> HIDE DEF r
<1>4. /\ made' = made + 1 /\ made' \in Nat /\ made <= made'
      /\ rows' \in [DOMAIN rows' -> Rows] /\ DOMAIN rows' = DOMAIN rows \cup {made + 1}
      /\ rows'[made + 1] = r /\ made + 1 \notin DOMAIN rows
      /\ \A i \in DOMAIN rows : rows'[i] = rows[i]
      /\ DOMAIN rows' \subseteq 1..made'
  BY <1>0, <1>1, <1>3, RowAdded
<1>5. \A i \in 1..made : i \in DOMAIN rows' => i \in DOMAIN rows /\ rows'[i].depth = rows[i].depth
  BY <1>0, <1>4
<1>6. /\ new \subseteq Links
      /\ \A e \in new : e[1] \in 1..made' /\ e[2] \in 1..made' /\ e[3] = "summarizes"
  BY <1>0, <1>2, <1>4 DEF Links, Predicates
<1> HIDE DEF new
<1>7. job' \in [Jobs -> PassJobs] /\ \A k \in Jobs : JobFollows(job[k])'
  BY <1>1, <1>4, <1>5, StillCited, NoJobMoves
<1>8. MemoryTypeOK'
  <2>1. /\ \A e \in edges : e[1] \in 1..made' /\ e[2] \in 1..made'
        /\ \A p \in pairs : p[1] \in 1..made'
    BY <1>0, <1>4 DEF MemoryTypeOK
  <2> QED
    BY <1>0, <1>1, <1>4, <1>6, <1>7, <2>1 DEF MemoryTypeOK
<1>9. CommittedIsCited' /\ \A p \in pairs' : p[1] # p[2]
  BY <1>1, StillCited DEF MemoryIInv
<1>10. \A i \in DOMAIN rows' :
          \/ i \in DOMAIN rows /\ rows'[i].superseded = rows[i].superseded
          \/ i = made + 1 /\ rows'[i].superseded # "corrected"
  BY <1>3, <1>4
<1> QED
  BY <1>1, <1>6, <1>7, <1>8, <1>9, <1>10, MemoryGrows

\* A correction comes with the mark on the row it corrects.
LEMMA RowIsCorrected ==
    ASSUME MemoryIInv, NEW i \in Memory!Ids, NEW body \in Bodies, Memory!Correct(i, body)
    PROVE  MemoryIInv'
<1> DEFINE r == Memory!Row(body, "consolidated", clock, FALSE)
           n == made + 1
           link == <<n, i, "supersedes">>
<1>0. MemoryTypeOK /\ made \in Nat /\ clock \in Nat /\ i \in DOMAIN rows /\ i \in 1..made
  BY DEF MemoryIInv, MemoryTypeOK, Memory!Ids
<1>1. /\ rows[i].superseded = "no" /\ made' = n /\ edges' = edges \cup {link}
      /\ rows' = [k \in DOMAIN rows \cup {n} |->
                     IF k = n THEN r
                     ELSE [rows[k] EXCEPT
                              !.superseded = IF k = i THEN "corrected" ELSE rows[k].superseded]]
      /\ UNCHANGED <<job, pairs, committed, merged, clock, watermark>>
  BY DEF Memory!Correct, Memory!Correctable, Memory!Ids
<1>2. r \in Rows /\ r.superseded = "no"
  BY <1>0, RowIsRow DEF Texts, Workspaces
<1>3. n \in Nat /\ n \notin DOMAIN rows /\ n \notin 1..made /\ 1..made \subseteq 1..n /\ n \in 1..n
  BY <1>0 DEF MemoryTypeOK
<1> HIDE DEF r, n
<1>4. ASSUME NEW k \in DOMAIN rows
      PROVE  /\ rows'[k] \in Rows /\ rows'[k].depth = rows[k].depth
             /\ rows'[k].superseded = IF k = i THEN "corrected" ELSE rows[k].superseded
  <2> DEFINE x == IF k = i THEN "corrected" ELSE rows[k].superseded
  <2>1. rows[k] \in Rows /\ rows'[k] = [rows[k] EXCEPT !.superseded = x]
    BY <1>0, <1>1, <1>3 DEF MemoryTypeOK
  <2>2. x \in {"no", "corrected", "inherited"}
    BY <2>1 DEF Rows
  <2> HIDE DEF x
  <2>3. rows'[k] \in Rows /\ rows'[k].depth = rows[k].depth /\ rows'[k].superseded = x
    BY <2>1, <2>2 DEF Rows, x
  <2> QED
    BY <2>3 DEF x
<1>5. /\ DOMAIN rows' = DOMAIN rows \cup {n} /\ rows'[n] = r
      /\ rows' \in [DOMAIN rows' -> Rows] /\ DOMAIN rows' \subseteq 1..made' /\ made' \in Nat
      /\ made <= made'
  <2>1. DOMAIN rows' = DOMAIN rows \cup {n} /\ rows'[n] = r
    BY <1>1
  <2>2. \A k \in DOMAIN rows' : rows'[k] \in Rows
    BY <1>2, <1>4, <2>1
  <2>3. rows' = [k \in DOMAIN rows' |-> rows'[k]]
    BY <1>1
  <2>4. DOMAIN rows' \subseteq 1..made' /\ made' \in Nat /\ made <= made'
    BY <1>0, <1>1, <1>3, <2>1 DEF MemoryTypeOK, n
  <2> QED
    BY <2>1, <2>2, <2>3, <2>4
<1>6. \A k \in 1..made : k \in DOMAIN rows' => k \in DOMAIN rows /\ rows'[k].depth = rows[k].depth
  BY <1>3, <1>4, <1>5
<1>7. job' \in [Jobs -> PassJobs] /\ \A k \in Jobs : JobFollows(job[k])'
  BY <1>1, <1>5, <1>6, StillCited, NoJobMoves
<1>8. link \in Links /\ link[1] = n /\ link[2] = i /\ link[3] = "supersedes"
  BY <1>0, <1>3 DEF Links, Predicates
<1> HIDE DEF link
<1>9. MemoryTypeOK'
  <2>1. edges' \subseteq Links /\ \A e \in edges' : e[1] \in 1..made' /\ e[2] \in 1..made'
    BY <1>0, <1>1, <1>3, <1>8 DEF MemoryTypeOK
  <2>2. \A p \in pairs' : p[1] \in 1..made'
    BY <1>0, <1>1, <1>3 DEF MemoryTypeOK
  <2> QED
    BY <1>0, <1>1, <1>5, <1>7, <2>1, <2>2 DEF MemoryTypeOK
<1>10. CommittedIsCited' /\ \A p \in pairs' : p[1] # p[2]
  BY <1>1, StillCited DEF MemoryIInv
<1>11. NoneOfItself'
  BY <1>0, <1>1, <1>3, <1>8 DEF MemoryIInv, NoneOfItself
<1>12. ASSUME NEW k \in DOMAIN rows' \ merged'
       PROVE  CorrectedOnce(k)'
  <2>1. CASE k = n
    <3>1. Corrections(k)' = {}
      BY <1>0, <1>1, <1>3, <1>8, <2>1 DEF Corrections, MemoryTypeOK
    <3> QED
      BY <1>2, <1>5, <2>1, <3>1 DEF CorrectedOnce
  <2>2. CASE k = i
    <3>1. Corrections(i) = {}
      BY <1>0, <1>1, <2>2 DEF MemoryIInv, CorrectedOnce
    <3>2. Corrections(i)' = {link}
      BY <1>1, <1>8, <3>1 DEF Corrections
    <3> QED
      BY <1>0, <1>1, <1>4, <2>2, <3>2 DEF CorrectedOnce
  <2>3. CASE k # n /\ k # i
    <3>1. Corrections(k)' = Corrections(k)
      BY <1>1, <1>8, <2>3 DEF Corrections
    <3>2. k \in DOMAIN rows \ merged /\ rows'[k].superseded = rows[k].superseded
      BY <1>1, <1>4, <1>5, <2>3
    <3> QED
      BY <1>1, <3>1, <3>2 DEF MemoryIInv, CorrectedOnce
  <2> QED
    BY <2>1, <2>2, <2>3
<1> QED
  BY <1>7, <1>9, <1>10, <1>11, <1>12 DEF MemoryIInv

-----------------------------------------------------------------------------
SourcesOf(t, k, d) == Memory!Repointed(t, 1, k, d, TRUE)
TargetsOf(t, k, d) == Memory!Repointed(t, 2, k, d, TRUE)

\* The first ends of all links are moved ...
LEMMA SourcesMoved ==
    ASSUME NEW t \in SUBSET Links, NEW k \in Nat, NEW d \in Nat, k # d, NEW u, u = SourcesOf(t,
        k, d)
    PROVE  /\ u \subseteq Links
           /\ \A e \in u : \/ e \in t
                           \/ e[1] = k /\ \E o \in t : o[1] = d /\ o[2] = e[2] /\ o[3] = e[3]
           /\ \A e \in t : e[1] # d => e \in u
           /\ \A e \in t : e[1] = d => <<k, e[2], e[3]>> \in u
<1> DEFINE To(e) == [e EXCEPT ![1] = k]
           hit == {e \in t : e[1] = d /\ ~(To(e) \in t)}
<1>1. u = (t \ hit) \cup {To(e) : e \in hit}
  BY DEF Memory!Repointed, SourcesOf
<1>2. \A e \in Links : To(e) = <<k, e[2], e[3]>> /\ To(e) \in Links
  BY DEF Links
<1> HIDE DEF To
<1>3. \A e \in t : To(e) = <<k, e[2], e[3]>> /\ To(e) \in Links
  BY <1>2
<1>4. \A e \in t : To(e)[1] = k /\ To(e)[2] = e[2] /\ To(e)[3] = e[3]
  BY <1>3
<1> QED
  BY <1>1, <1>3, <1>4

\* ... and then the second ones.
LEMMA TargetsMoved ==
    ASSUME NEW t \in SUBSET Links, NEW k \in Nat, NEW d \in Nat, k # d, NEW u, u = TargetsOf(t,
        k, d)
    PROVE  /\ u \subseteq Links
           /\ \A e \in u : \/ e \in t
                           \/ e[2] = k /\ \E o \in t : o[2] = d /\ o[1] = e[1] /\ o[3] = e[3]
           /\ \A e \in t : e[2] # d => e \in u
           /\ \A e \in t : e[2] = d => <<e[1], k, e[3]>> \in u
<1> DEFINE To(e) == [e EXCEPT ![2] = k]
           hit == {e \in t : e[2] = d /\ ~(To(e) \in t)}
<1>1. u = (t \ hit) \cup {To(e) : e \in hit}
  BY DEF Memory!Repointed, TargetsOf
<1>2. \A e \in Links : To(e) = <<e[1], k, e[3]>> /\ To(e) \in Links
  BY DEF Links
<1> HIDE DEF To
<1>3. \A e \in t : To(e) = <<e[1], k, e[3]>> /\ To(e) \in Links
  BY <1>2
<1>4. \A e \in t : To(e)[2] = k /\ To(e)[1] = e[1] /\ To(e)[3] = e[3]
  BY <1>3
<1> QED
  BY <1>1, <1>3, <1>4

\* What the links are after a merge: every link is an old one whose ends were moved, and
\* every old one is there with its ends moved, but for those that would lead back.
LEMMA LinksMerged ==
    ASSUME MemoryTypeOK, NEW k \in Nat, NEW d \in Nat, k # d, NEW m, m = Memory!MergedEdges(k, d)
    PROVE  /\ m \subseteq Links
           /\ \A e \in m : /\ e[1] # d /\ e[2] # d /\ e[1] # e[2]
                           /\ \E o \in edges : /\ o[3] = e[3]
                                               /\ o[1] = e[1] \/ (o[1] = d /\ e[1] = k)
                                               /\ o[2] = e[2] \/ (o[2] = d /\ e[2] = k)
           /\ \A o \in edges : o[1] # d /\ o[2] # d /\ o[1] # o[2] => o \in m
           /\ \A o \in edges : o[1] = d /\ o[2] \notin {k, d} => <<k, o[2], o[3]>> \in m
           /\ \A o \in edges : o[2] = d /\ o[1] \notin {k, d} => <<o[1], k, o[3]>> \in m
<1> DEFINE t == edges
           u == SourcesOf(t, k, d)
           v == TargetsOf(u, k, d)
<1>1. m = {e \in v : e[1] # e[2] /\ e[1] # d /\ e[2] # d}
  BY DEF Memory!MergedEdges, SourcesOf, TargetsOf
<1>2. t \in SUBSET Links
  BY DEF MemoryTypeOK
<1> HIDE DEF t
<1>3. /\ u \in SUBSET Links
      /\ \A e \in u : \/ e \in t
                      \/ e[1] = k /\ \E o \in t : o[1] = d /\ o[2] = e[2] /\ o[3] = e[3]
      /\ \A e \in t : e[1] # d => e \in u
      /\ \A e \in t : e[1] = d => <<k, e[2], e[3]>> \in u
  BY <1>2, SourcesMoved
<1> HIDE DEF u
<1>4. /\ v \subseteq Links
      /\ \A e \in v : \/ e \in u
                      \/ e[2] = k /\ \E o \in u : o[2] = d /\ o[1] = e[1] /\ o[3] = e[3]
      /\ \A e \in u : e[2] # d => e \in v
      /\ \A e \in u : e[2] = d => <<e[1], k, e[3]>> \in v
  BY <1>3, TargetsMoved
<1> HIDE DEF v
<1>5. ASSUME NEW e \in m
      PROVE  \E o \in t : /\ o[3] = e[3]
                          /\ o[1] = e[1] \/ (o[1] = d /\ e[1] = k)
                          /\ o[2] = e[2] \/ (o[2] = d /\ e[2] = k)
  <2>1. PICK f \in u : f[3] = e[3] /\ f[1] = e[1] /\ (f[2] = e[2] \/ (f[2] = d /\ e[2] = k))
    BY <1>1, <1>4
  <2>2. PICK o \in t : o[3] = f[3] /\ o[2] = f[2] /\ (o[1] = f[1] \/ (o[1] = d /\ f[1] = k))
    BY <1>3
  <2> QED
    BY <2>1, <2>2
<1>6. \A o \in t : o[1] # d /\ o[2] # d /\ o[1] # o[2] => o \in m
  BY <1>1, <1>3, <1>4
<1>7. ASSUME NEW o \in t, o[1] = d, o[2] \notin {k, d}
      PROVE  <<k, o[2], o[3]>> \in m
  <2> DEFINE f == <<k, o[2], o[3]>>
  <2>1. f \in u /\ f[1] = k /\ f[2] = o[2]
    BY <1>3, <1>7
  <2> HIDE DEF f
  <2>2. f \in m
    BY <1>1, <1>4, <1>7, <2>1
  <2> QED
    BY <2>2 DEF f
<1>8. ASSUME NEW o \in t, o[2] = d, o[1] \notin {k, d}
      PROVE  <<o[1], k, o[3]>> \in m
  <2> DEFINE f == <<o[1], k, o[3]>>
  <2>1. o \in u
    BY <1>3, <1>8
  <2>2. f \in v /\ f[1] = o[1] /\ f[2] = k
    BY <1>4, <1>8, <2>1
  <2> HIDE DEF f
  <2>3. f \in m
    BY <1>1, <1>8, <2>2
  <2> QED
    BY <2>3 DEF f
<1> QED
  BY <1>1, <1>4, <1>5, <1>6, <1>7, <1>8 DEF t

\* merge_pair: the links of the row that goes are moved, and then it goes.
LEMMA PairIsMerged ==
    ASSUME MemoryIInv, NEW p \in pairs, Memory!MergePair(p[1], p[2])
    PROVE  MemoryIInv'
<1> DEFINE k == p[1]
           d == p[2]
           m == Memory!MergedEdges(k, d)
<1>0. MemoryTypeOK /\ k \in Nat /\ d \in Nat /\ k # d /\ made \in Nat
  BY DEF MemoryIInv, MemoryTypeOK
<1>1. /\ pairs' \subseteq pairs
      /\ UNCHANGED <<made, watermark, job, clock, committed>>
      /\ \/ UNCHANGED <<rows, edges, merged>>
         \/ /\ edges' = m /\ rows' = [i \in DOMAIN rows \ {d} |-> rows[i]]
            /\ merged' = merged \cup {k, d}
  BY DEF Memory!MergePair, Memory!Without, Memory!Ids
<1> HIDE DEF m
<1>2. \A i \in DOMAIN rows' : i \in DOMAIN rows /\ rows'[i] = rows[i]
  BY <1>1
<1>3. /\ made' \in Nat /\ made <= made'
      /\ \A i \in 1..made : i \in DOMAIN rows' => i \in DOMAIN rows
         /\ rows'[i].depth = rows[i].depth
  BY <1>0, <1>1, <1>2
<1>4. StaysCited => job' \in [Jobs -> PassJobs] /\ \A j \in Jobs : JobFollows(job[j])'
  BY <1>1, <1>3, NoJobMoves
<1>5. pairs' \subseteq Nat \X Nat /\ \A q \in pairs' : q[1] # q[2]
  BY <1>1 DEF MemoryIInv, MemoryTypeOK
<1>6. CASE UNCHANGED <<rows, edges, merged>>
  <2>2. StaysCited /\ CommittedIsCited'
    BY <1>1, <1>6, StillCited
  <2>1. MemoryTypeOK'
    BY <1>0, <1>1, <1>3, <1>4, <1>5, <1>6, <2>2 DEF MemoryTypeOK
  <2>3. \A i \in DOMAIN rows' : i \in DOMAIN rows /\ rows'[i].superseded = rows[i].superseded
    BY <1>6
  <2> QED
    BY <1>4, <1>5, <1>6, <2>1, <2>2, <2>3, MemoryGrows
<1>7. CASE /\ edges' = m /\ rows' = [i \in DOMAIN rows \ {d} |-> rows[i]]
           /\ merged' = merged \cup {k, d}
  <2>1. /\ m \subseteq Links
        /\ \A e \in m : /\ e[1] # d /\ e[2] # d /\ e[1] # e[2]
                        /\ \E o \in edges : /\ o[3] = e[3]
                                            /\ o[1] = e[1] \/ (o[1] = d /\ e[1] = k)
                                            /\ o[2] = e[2] \/ (o[2] = d /\ e[2] = k)
        /\ \A o \in edges : o[1] # d /\ o[2] # d /\ o[1] # o[2] => o \in m
        /\ \A o \in edges : o[1] = d /\ o[2] \notin {k, d} => <<k, o[2], o[3]>> \in m
        /\ \A o \in edges : o[2] = d /\ o[1] \notin {k, d} => <<o[1], k, o[3]>> \in m
    <3>1. m = Memory!MergedEdges(k, d)
      BY DEF m
    <3> HIDE DEF k, d
    <3> QED
      BY <1>0, <3>1, LinksMerged
  <2>2. k \in 1..made
    BY DEF MemoryIInv, MemoryTypeOK
  <2> HIDE DEF k, d
  <2>5. StaysCited
    <3> SUFFICES ASSUME NEW i, Cited(i), i \notin merged'
                 PROVE  \E e \in m : e[2] = i /\ e[1] # i /\ e[3] = "derived-from"
      BY <1>7 DEF StaysCited, Cited
    <3>1. i \notin {k, d}
      BY <1>7
    <3>2. PICK o \in edges : o[2] = i /\ o[3] = "derived-from" /\ o[1] # i
      BY DEF Cited
    <3>3. CASE o[1] = d
      <4> DEFINE e == <<k, o[2], o[3]>>
      <4>1. e \in m /\ e[1] = k /\ e[2] = i /\ e[3] = "derived-from"
        BY <2>1, <3>1, <3>2, <3>3
      <4> HIDE DEF e
      <4> QED
        BY <3>1, <4>1
    <3>4. CASE o[1] # d
      BY <2>1, <3>1, <3>2, <3>4
    <3> QED
      BY <3>3, <3>4
  <2>3. MemoryTypeOK'
    <3>1. ASSUME NEW e \in m PROVE e[1] \in 1..made /\ e[2] \in 1..made
      BY <1>0, <2>1, <2>2 DEF MemoryTypeOK
    <3>2. rows' \in [DOMAIN rows' -> Rows] /\ DOMAIN rows' \subseteq 1..made
      BY <1>0, <1>7 DEF MemoryTypeOK
    <3>3. \A q \in pairs' : q[1] \in 1..made
      BY <1>0, <1>1 DEF MemoryTypeOK
    <3> QED
      BY <1>0, <1>1, <1>3, <1>4, <1>5, <1>7, <2>1, <2>5, <3>1, <3>2, <3>3 DEF MemoryTypeOK
  <2>4. NoneOfItself'
    BY <1>7, <2>1 DEF NoneOfItself
  <2>8. CommittedIsCited'
    BY <1>1, <1>7, <2>5 DEF MemoryIInv, CommittedIsCited, StaysCited
  <2>6. ASSUME NEW i \in DOMAIN rows' \ merged'
        PROVE  CorrectedOnce(i)'
    <3>1. i \in DOMAIN rows \ merged /\ i \notin {k, d} /\ rows'[i] = rows[i] /\ CorrectedOnce(i)
      BY <1>2, <1>7 DEF MemoryIInv
    <3>2. Corrections(i)' = {e \in m : e[2] = i /\ e[3] = "supersedes"}
      BY <1>7 DEF Corrections
    <3>3. CASE rows[i].superseded # "corrected"
      <4>1. Corrections(i) = {}
        BY <3>1, <3>3 DEF CorrectedOnce
      <4>2. Corrections(i)' = {}
        BY <2>1, <3>1, <3>2, <4>1 DEF Corrections
      <4> QED
        BY <3>1, <3>3, <4>2 DEF CorrectedOnce
    <3>4. CASE rows[i].superseded = "corrected"
      <4>1. PICK o \in edges : Corrections(i) = {o}
        BY <3>1, <3>4 DEF CorrectedOnce
      <4>2. o[2] = i /\ o[3] = "supersedes" /\ o[1] # o[2] /\ o = <<o[1], o[2], o[3]>>
        BY <1>0, <4>1 DEF Corrections, MemoryIInv, NoneOfItself, MemoryTypeOK, Links
      <4>3. ASSUME NEW e \in Corrections(i)'
            PROVE  /\ e = <<e[1], i, "supersedes">> /\ e[1] # d
                   /\ o[1] = e[1] \/ (o[1] = d /\ e[1] = k)
        <5>1. e \in m /\ e[2] = i /\ e[3] = "supersedes"
          BY <3>2
        <5>2. e = <<e[1], e[2], e[3]>>
          BY <2>1, <5>1 DEF Links
        <5>3. PICK q \in edges : /\ q[3] = e[3] /\ (q[1] = e[1] \/ (q[1] = d /\ e[1] = k))
                                 /\ (q[2] = e[2] \/ (q[2] = d /\ e[2] = k))
          BY <2>1, <5>1
        <5>4. q = o
          BY <3>1, <4>1, <5>1, <5>3 DEF Corrections
        <5> QED
          BY <2>1, <5>1, <5>2, <5>3, <5>4
      <4>4. CASE o[1] = d
        <5>1. <<k, i, "supersedes">> \in m
          BY <2>1, <3>1, <4>2, <4>4
        <5>2. <<k, i, "supersedes">> \in Corrections(i)'
          BY <3>2, <5>1
        <5>3. Corrections(i)' = {<<k, i, "supersedes">>}
          BY <4>3, <4>4, <5>2
        <5> QED
          BY <1>7, <3>1, <3>4, <5>1, <5>3 DEF CorrectedOnce
      <4>5. CASE o[1] # d
        <5>1. o \in m
          BY <2>1, <3>1, <4>2, <4>5
        <5>2. o \in Corrections(i)'
          BY <3>2, <4>2, <5>1
        <5>3. \A e \in Corrections(i)' : e = o
          BY <4>2, <4>3, <4>5
        <5>4. Corrections(i)' = {o}
          BY <5>2, <5>3
        <5> QED
          BY <1>7, <3>1, <3>4, <5>1, <5>4 DEF CorrectedOnce
      <4> QED
        BY <4>4, <4>5
    <3> QED
      BY <3>3, <3>4
  <2> QED
    BY <1>4, <1>5, <2>3, <2>4, <2>5, <2>6, <2>8 DEF MemoryIInv
<1> QED
  BY <1>1, <1>6, <1>7

\* Every operation on the store, and every step of a job, keeps the invariant.
LEMMA MemoryNext ==
    ASSUME MemoryIInv, [Memory!Next]_memoryVars
    PROVE  MemoryIInv'
<1>1. CASE UNCHANGED memoryVars
  <2>1. MemoryTypeOK'
    BY <1>1 DEF memoryVars, MemoryIInv, MemoryTypeOK
  <2>2. \A j \in Jobs : JobFollows(job[j])'
    BY <1>1 DEF memoryVars, MemoryIInv, JobFollows, RawInput, Cited
  <2>3. \A i \in DOMAIN rows \ merged : CorrectedOnce(i)'
    BY <1>1 DEF memoryVars, MemoryIInv, CorrectedOnce, Corrections
  <2> QED
    BY <1>1, <2>1, <2>2, <2>3 DEF memoryVars, MemoryIInv, NoneOfItself, CommittedIsCited, Cited
<1>2. CASE Memory!Next
  <2>1. ASSUME NEW j \in Jobs,
               \/ Memory!StartPass(j) \/ Memory!Find(j) \/ Memory!Create(j) \/ Memory!Cite(j)
               \/ Memory!Trust(j) \/ Memory!Record(j) \/ Memory!Refer(j)
               \/ Memory!StatementFails(j) \/ Memory!Mark(j) \/ Memory!GiveUp(j)
               \/ \E b \in Bodies : \E r \in {{}} \cup {{i} : i \in Memory!Ids} :
                     Memory!StartCapture(j, b, r)
               \/ \E i \in Memory!Ids, b \in Bodies, src \in Memory!Ids \cup {Memory!NoItem} :
                     Memory!Refine(j, i, b, src)
        PROVE  MemoryIInv'
    BY <2>1, JobStarts, JobLooksOrStops, JobCreates, JobCites, JobRecords, JobRefers,
       RowIsRefined
  <2>2. CASE \E i \in Memory!Ids : \E b \in Bodies : Memory!Correct(i, b)
    BY <2>2, RowIsCorrected
  <2>3. CASE \E p \in pairs : Memory!MergePair(p[1], p[2])
    BY <2>3, PairIsMerged
  <2>4. CASE \E c \in Memory!Clusters : Memory!Synthesize(c)
    BY <2>4, ClusterIsSummarized
  <2>5. CASE \/ \E d \in Depths, b \in Bodies, w \in InWorkspace : Memory!Add(d, b, w)
             \/ \E i \in Memory!Ids :
                   Memory!Delete(i) \/ Memory!Archive(i) \/ Memory!Touch(i)
             \/ Memory!FindPairs \/ Memory!Tick
    BY <2>5, MemoryRowsStep
  <2> QED
    BY <1>2, <2>1, <2>2, <2>3, <2>4, <2>5 DEF Memory!Next
<1> QED
  BY <1>1, <1>2

\* What is counted as one correction is one.
LEMMA MemoryHolds == MemoryIInv => Memory!ProvenanceHolds
<1> SUFFICES ASSUME MemoryIInv PROVE Memory!ProvenanceHolds
  OBVIOUS
<1>1. ASSUME NEW i \in DOMAIN rows \ merged
      PROVE  Memory!Cardinality(Corrections(i)) =
                 IF rows[i].superseded = "corrected" THEN 1 ELSE 0
  <2>1. CorrectedOnce(i)
    BY DEF MemoryIInv
  <2>2. CASE rows[i].superseded # "corrected"
    BY <2>1, <2>2, FS_EmptySet, MemorySize DEF CorrectedOnce
  <2>3. CASE rows[i].superseded = "corrected"
    <3>1. PICK e \in edges : Corrections(i) = {e}
      BY <2>1, <2>3 DEF CorrectedOnce
    <3> QED
      BY <2>3, <3>1, FS_Singleton, MemorySize
  <2> QED
    BY <2>2, <2>3
<1> QED
  BY <1>1 DEF MemoryIInv, CommittedIsCited, Cited, Memory!ProvenanceHolds, Memory!Ids, Corrections

\* A step that ends one of the pairs read and one of its rows is the merge of that pair.
LEMMA MergeMovesLinks ==
    ASSUME MemoryIInv, [Memory!Next]_memoryVars,
           NEW k \in merged', NEW d \in merged' \ Memory!Ids',
           d \in Memory!Ids, <<k, d>> \in pairs \ pairs'
    PROVE  /\ \A e \in edges :
                 /\ e[1] = d /\ e[2] \notin {k, d} => <<k, e[2], e[3]>> \in edges'
                 /\ e[2] = d /\ e[1] \notin {k, d} => <<e[1], k, e[3]>> \in edges'
           /\ \A e \in edges' : d \notin {e[1], e[2]}
<1>0. MemoryTypeOK /\ k \in Nat /\ d \in Nat /\ k # d
  BY DEF MemoryIInv, MemoryTypeOK
<1>1. \E p \in pairs : Memory!MergePair(p[1], p[2])
  <2>1. pairs' # pairs /\ rows' # rows
    BY DEF Memory!Ids
  <2> QED
    BY <2>1 DEF memoryVars, Memory!Next, Memory!Add, Memory!StartPass, Memory!Find, Memory!Create,
       Memory!Cite, Memory!Trust, Memory!Record, Memory!Refer, Memory!StatementFails, Memory!Mark, Memory!GiveUp, Memory!StartCapture,
       Memory!Delete, Memory!Archive, Memory!Touch, Memory!Refine, Memory!Correct,
       Memory!FindPairs, Memory!Synthesize, Memory!Tick
<1>2. PICK p \in pairs : Memory!MergePair(p[1], p[2])
  BY <1>1
<1>3. p[1] = k /\ p[2] = d
  <2>1. pairs' = pairs \ {<<p[1], p[2]>>}
    BY <1>2 DEF Memory!MergePair
  <2>2. <<k, d>> = <<p[1], p[2]>>
    BY <2>1
  <2> QED
    BY <2>2
<1>4. edges' = Memory!MergedEdges(k, d)
  <2>1. rows' # rows
    BY DEF Memory!Ids
  <2> QED
    BY <1>2, <1>3, <2>1 DEF Memory!MergePair
<1> QED
  BY <1>0, <1>4, LinksMerged

-----------------------------------------------------------------------------
(* The schema of a database file.                                           *)

OpenSteps == {"copy", "migrate", "baseline", "stamp"}
Opens == [step : OpenSteps, build : Schema!Builds, found : 0..Newest, next : Nat]

SchemaTypeOK ==
    /\ stamp \in 0..Newest
    /\ tables \in [1..NTables -> [made : 0..Newest, changed : [Schema!Builds -> 0..2]]]
    /\ copies \subseteq [named : Schema!Builds, holds : Schema!Builds]
    /\ raced \in BOOLEAN /\ adopted \in BOOLEAN
    /\ open \in [Openers -> {Schema!Idle} \cup Opens]

\* An opener is somewhere on the path from the version it found to the version it knows.
OnItsWay(o) ==
    /\ o.step = "baseline" => o.next \in 1..NTables
    /\ o.step \in {"copy", "migrate"} => o.next \in 1..o.build /\ o.found \in 1..(o.next - 1)
    /\ o.step = "copy" => o.next = o.found + 1
    /\ o.found <= o.build
    /\ o.found > 0 => stamp > 0
OpenersAreOnTheirWay == \A p \in Openers : open[p] # Schema!Idle => OnItsWay(open[p])

\* Those that have the file open together may.
OpenersShare ==
    \A p, q \in Openers :
        open[p] # Schema!Idle /\ open[q] # Schema!Idle /\ p # q =>
            Schema!MayShare(open[p], open[q])

\* The stamp is where an opener that changes the file has brought it, or is yet to bring it.
StampIsHis(o) ==
    /\ o.found = 0 => o.step \in {"baseline", "stamp"} /\ stamp \in {0, o.build}
    /\ o.found \in 1..(o.build - 1) =>
          stamp = IF o.step = "copy" THEN o.found
                  ELSE IF o.step = "migrate" THEN o.next - 1 ELSE o.build
    /\ o.step = "migrate" => \E c \in copies : c.holds <= o.found
StampsAreTheirs == \A p \in Openers : open[p] # Schema!Idle => StampIsHis(open[p])

\* What there is of a file that is not stamped yet was made by whoever has it open.
UnstampedTables ==
    stamp = 0 => \A i \in 1..NTables :
        /\ tables[i].changed = [v \in Schema!Builds |-> 0]
        /\ \A p \in Openers : open[p] # Schema!Idle => tables[i].made \in {0, open[p].build}

\* An opener has made the tables up to where it is.
BaselinesAreMade ==
    \A p \in Openers, i \in 1..NTables :
        \/ open[p].step = "stamp"
        \/ open[p].step = "baseline" /\ i < open[p].next
        => tables[i].made # 0

Orderly == ~raced /\ ~adopted
SchemaIInv ==
    /\ SchemaTypeOK
    /\ OpenersAreOnTheirWay
    /\ BaselinesAreMade
    /\ ~raced => OpenersShare
    /\ Orderly => StampsAreTheirs /\ UnstampedTables
    /\ Schema!StampsTellTheShape

\* A table that is new.
LEMMA SchemaMade ==
    ASSUME NEW b \in 0..Newest
    PROVE  /\ Schema!Made(b) \in [made : 0..Newest, changed : [Schema!Builds -> 0..2]]
           /\ Schema!Made(b).made = b /\ Schema!Made(b).changed = [v \in Schema!Builds |-> 0]
<1> DEFINE none == [v \in Schema!Builds |-> 0]
<1>1. none \in [Schema!Builds -> 0..2]
    OBVIOUS
<1>2. Schema!Absent = [made |-> 0, changed |-> none]
    BY DEF Schema!Absent
<1> HIDE DEF none
<1>3. Schema!Made(b) = [made |-> b, changed |-> none]
    BY <1>2 DEF Schema!Made
<1> QED BY <1>1, <1>3 DEF none

\* A new file, one of some build, and one from before versions.
LEMMA SchemaInit == Schema!Init => SchemaIInv
<1> SUFFICES ASSUME Schema!Init PROVE SchemaIInv
    OBVIOUS
<1> USE PartsAssumption DEF Schema!Init, Schema!SchemaAssumption, Schema!Builds
<1>1. /\ Newest \in Nat \ {0} /\ NTables \in Nat \ {0}
      /\ open = [p \in Openers |-> Schema!Idle] /\ copies = {} /\ stamp \in 0..Newest
      /\ \A p \in Openers : open[p] = Schema!Idle
    OBVIOUS
<1>2. \A b \in 0..Newest :
          /\ Schema!Made(b) \in [made : 0..Newest, changed : [Schema!Builds -> 0..2]]
          /\ Schema!Made(b).made = b /\ Schema!Made(b).changed = [v \in Schema!Builds |-> 0]
    BY <1>1, SchemaMade
<1>3. /\ Schema!Absent \in [made : 0..Newest, changed : [Schema!Builds -> 0..2]]
      /\ Schema!Absent.changed = [v \in Schema!Builds |-> 0]
    BY DEF Schema!Absent
<1>4. /\ tables \in [1..NTables -> [made : 0..Newest, changed : [Schema!Builds -> 0..2]]]
      /\ \A i \in 1..NTables : tables[i].changed = [v \in Schema!Builds |-> 0]
      /\ stamp > 0 => \A i \in 1..NTables : tables[i].made = stamp
    BY <1>1, <1>2, <1>3
<1>5. SchemaTypeOK
    BY <1>1, <1>4 DEF SchemaTypeOK
<1>6. OpenersAreOnTheirWay /\ BaselinesAreMade /\ OpenersShare /\ StampsAreTheirs
    BY <1>1
    DEF OpenersAreOnTheirWay, BaselinesAreMade, OpenersShare, StampsAreTheirs, Schema!Idle
<1>7. UnstampedTables
    BY <1>1, <1>4 DEF UnstampedTables
<1>8. Schema!StampsTellTheShape
    BY <1>1, <1>4 DEF Schema!StampsTellTheShape, Schema!IsOf
<1> QED BY <1>5, <1>6, <1>7, <1>8 DEF SchemaIInv

\* The one process whose place changes.
LEMMA SchemaPlace ==
    ASSUME SchemaTypeOK, NEW p \in Openers, NEW o, Schema!To(p, o)
    PROVE  /\ open'[p] = o /\ \A q \in Openers \ {p} : open'[q] = open[q]
           /\ o \in {Schema!Idle} \cup Opens => open' \in [Openers -> {Schema!Idle} \cup Opens]
BY DEF SchemaTypeOK, Schema!To

\* An opener is not idle, and what is not idle is an opener's.
LEMMA SchemaOpeners ==
    ASSUME SchemaTypeOK, NEW p \in Openers
    PROVE  /\ open[p].step # "idle" => open[p] # Schema!Idle
           /\ open[p] # Schema!Idle =>
                 /\ open[p] \in Opens /\ open[p].step \in OpenSteps /\ open[p].step # "idle"
                 /\ open[p].build \in Schema!Builds
                 /\ open[p].found \in 0..Newest /\ open[p].next \in Nat
           /\ Schema!Idle.step = "idle" /\ Schema!Idle \notin Opens
BY DEF SchemaTypeOK, Schema!Idle, Opens, OpenSteps

\* An opening, with the version that was found.
LEMMA SchemaOpenStep ==
    ASSUME SchemaIInv, NEW p \in Openers, NEW build \in Schema!Builds, Schema!Open(p, build)
    PROVE  SchemaIInv'
<1> USE PartsAssumption DEF Schema!SchemaAssumption, Schema!Builds
<1> DEFINE o == IF stamp \in 1..(build - 1) THEN Schema!At("copy", build, stamp, stamp + 1)
                ELSE Schema!At("baseline", build, stamp, 1)
<1>1. /\ SchemaTypeOK /\ open[p] = Schema!Idle /\ stamp \in 0..Newest /\ stamp <= build
      /\ UNCHANGED <<stamp, tables, copies>> /\ Schema!To(p, o)
    BY DEF SchemaIInv, SchemaTypeOK, Schema!Open
<1>2. /\ o \in Opens /\ o # Schema!Idle /\ o.build = build /\ o.found = stamp
      /\ o.step = IF stamp \in 1..(build - 1) THEN "copy" ELSE "baseline"
      /\ o.next = IF stamp \in 1..(build - 1) THEN stamp + 1 ELSE 1
    BY <1>1 DEF Opens, OpenSteps, Schema!At, Schema!Idle
<1> HIDE DEF o
<1>3. /\ open'[p] = o /\ \A q \in Openers \ {p} : open'[q] = open[q]
      /\ open' \in [Openers -> {Schema!Idle} \cup Opens]
    BY <1>1, <1>2, SchemaPlace
<1>4. /\ adopted' = (adopted \/ (stamp = 0 /\ \E i \in 1..NTables : tables[i].made \notin {0,
         build}))
      /\ raced' = (raced \/ \E q \in Openers : open[q] # Schema!Idle
         /\ ~Schema!MayShare(open[q], o))
    BY <1>3 DEF Schema!Open
<1>5. SchemaTypeOK'
    BY <1>1, <1>3, <1>4 DEF SchemaTypeOK
<1>6. OpenersAreOnTheirWay'
    BY <1>1, <1>2, <1>3 DEF SchemaIInv, OpenersAreOnTheirWay, OnItsWay
<1>7. BaselinesAreMade'
    BY <1>1, <1>2, <1>3 DEF SchemaIInv, BaselinesAreMade
<1>8. ~raced' => OpenersShare'
    <2> SUFFICES ASSUME ~raced', NEW q \in Openers, NEW r \in Openers, q # r,
                        open'[q] # Schema!Idle, open'[r] # Schema!Idle
                 PROVE  Schema!MayShare(open'[q], open'[r])
        BY DEF OpenersShare, Schema!MayShare
    <2>1. OpenersShare /\ \A u \in Openers : open[u] # Schema!Idle => Schema!MayShare(open[u], o)
        BY <1>4 DEF SchemaIInv
    <2>2. CASE q # p /\ r # p
        BY <1>3, <2>1, <2>2 DEF OpenersShare
    <2>3. CASE q = p
        BY <1>3, <2>1, <2>3 DEF Schema!MayShare
    <2>4. CASE r = p
        BY <1>3, <2>1, <2>4
    <2> QED BY <2>2, <2>3, <2>4
<1>9. ASSUME Orderly' PROVE StampsAreTheirs' /\ UnstampedTables'
    <2>1. Orderly /\ StampsAreTheirs /\ UnstampedTables
        BY <1>4, <1>9 DEF SchemaIInv, Orderly
    <2>2. StampsAreTheirs'
        BY <1>1, <1>2, <1>3, <2>1 DEF StampsAreTheirs, StampIsHis
    <2>3. UnstampedTables'
        <3>1. stamp = 0 => \A i \in 1..NTables : tables[i].made \in {0, build}
            BY <1>4, <1>9 DEF Orderly
        <3>2. stamp' = stamp /\ tables' = tables
            BY <1>1
        <3>3. \A q \in Openers : open'[q] = open[q] \/ open'[q].build = build
            BY <1>2, <1>3
        <3> QED BY <2>1, <3>1, <3>2, <3>3 DEF UnstampedTables
    <2> QED BY <2>2, <2>3
<1>10. Schema!StampsTellTheShape'
    BY <1>1, <1>4 DEF SchemaIInv, Schema!StampsTellTheShape, Schema!IsOf
<1> QED BY <1>5, <1>6, <1>7, <1>8, <1>9, <1>10 DEF SchemaIInv

\* A step that leaves one process's version and what it found as they are, or lets it go.
LEMMA SchemaShared ==
    ASSUME SchemaIInv, NEW p \in Openers, UNCHANGED raced,
           \A q \in Openers \ {p} : open'[q] = open[q],
           \/ open'[p] = Schema!Idle
           \/ /\ open[p] # Schema!Idle
              /\ open'[p].build = open[p].build /\ open'[p].found = open[p].found
    PROVE  ~raced' => OpenersShare'
<1> SUFFICES ASSUME ~raced', NEW q \in Openers, NEW r \in Openers, q # r,
                    open'[q] # Schema!Idle, open'[r] # Schema!Idle
             PROVE  Schema!MayShare(open'[q], open'[r])
    BY DEF OpenersShare, Schema!MayShare
<1>1. Schema!MayShare(open[q], open[r])
    BY DEF SchemaIInv, OpenersShare
<1> QED BY <1>1 DEF Schema!MayShare

\* The safety copy.
LEMMA SchemaCopyStep ==
    ASSUME SchemaIInv, NEW p \in Openers, Schema!Copy(p)
    PROVE  SchemaIInv'
<1> USE PartsAssumption DEF Schema!SchemaAssumption, Schema!Builds
<1> DEFINE o == [open[p] EXCEPT !.step = "migrate"]
<1>1. /\ SchemaTypeOK /\ OpenersAreOnTheirWay /\ open[p].step = "copy"
      /\ copies' = copies \union {[named |-> open[p].found, holds |-> stamp]}
      /\ Schema!To(p, o) /\ UNCHANGED <<stamp, tables, raced, adopted>>
    BY DEF SchemaIInv, Schema!Copy
<1>2. /\ open[p] # Schema!Idle /\ open[p] \in Opens /\ OnItsWay(open[p])
      /\ open[p].found \in 1..(open[p].build - 1) /\ open[p].next = open[p].found + 1
      /\ open[p].build \in 1..Newest /\ open[p].next \in 1..open[p].build /\ stamp \in 1..Newest
    BY <1>1, SchemaOpeners DEF OpenersAreOnTheirWay, OnItsWay, SchemaTypeOK
<1>3. /\ o \in Opens /\ o # Schema!Idle /\ o.step = "migrate" /\ o.build = open[p].build
      /\ o.found = open[p].found /\ o.next = open[p].next
    BY <1>2 DEF Opens, OpenSteps, Schema!Idle
<1> HIDE DEF o
<1>4. /\ open'[p] = o /\ \A q \in Openers \ {p} : open'[q] = open[q]
      /\ open' \in [Openers -> {Schema!Idle} \cup Opens]
    BY <1>1, <1>3, SchemaPlace
<1>5. SchemaTypeOK'
    BY <1>1, <1>2, <1>4 DEF SchemaTypeOK
<1>6. OpenersAreOnTheirWay'
    <2>1. OnItsWay(open[p])'
        BY <1>1, <1>2, <1>3, <1>4 DEF OnItsWay
    <2>2. \A q \in Openers \ {p} : open[q] # Schema!Idle => OnItsWay(open[q])'
        BY <1>1, <1>2, <1>4 DEF OpenersAreOnTheirWay, OnItsWay
    <2> QED BY <1>4, <2>1, <2>2 DEF OpenersAreOnTheirWay
<1>7. BaselinesAreMade'
    BY <1>1, <1>3, <1>4 DEF SchemaIInv, BaselinesAreMade
<1>8. ~raced' => OpenersShare'
    BY <1>1, <1>2, <1>3, <1>4, SchemaShared
<1>9. ASSUME Orderly' PROVE StampsAreTheirs' /\ UnstampedTables' /\ stamp = open[p].found
    <2>1. StampsAreTheirs /\ UnstampedTables
        BY <1>1, <1>9 DEF SchemaIInv, Orderly
    <2>2. stamp = open[p].found
        BY <1>1, <1>2, <2>1 DEF StampsAreTheirs, StampIsHis
    <2>3. \E c \in copies' : c.holds <= open[p].found
        <3> DEFINE new == [named |-> open[p].found, holds |-> stamp]
        <3>1. new \in copies' /\ new.holds <= open[p].found
            BY <1>1, <1>2, <2>2
        <3> QED BY <3>1
    <2>4. copies \subseteq copies'
        BY <1>1
    <2>5. StampIsHis(open[p])'
        BY <1>1, <1>2, <1>3, <1>4, <2>2, <2>3 DEF StampIsHis
    <2>6. \A q \in Openers \ {p} : open[q] # Schema!Idle => StampIsHis(open[q])'
        BY <1>1, <1>4, <2>1, <2>4 DEF StampsAreTheirs, StampIsHis
    <2>7. StampsAreTheirs'
        BY <1>4, <2>5, <2>6 DEF StampsAreTheirs
    <2>8. UnstampedTables'
        BY <1>1, <1>2 DEF UnstampedTables
    <2> QED BY <2>2, <2>7, <2>8
<1>10. Schema!StampsTellTheShape'
    <2> SUFFICES ASSUME Orderly'
                 PROVE  /\ stamp' > 0 => \A i \in 1..NTables : Schema!IsOf(tables[i], stamp)'
                        /\ \A c \in copies' : c.named = c.holds
                        /\ \A i \in 1..NTables, v \in Schema!Builds :
                              tables'[i].changed[v] > 0 => \E c \in copies' : c.holds < v
        BY DEF Schema!StampsTellTheShape, Orderly
    <2>1. /\ stamp > 0 => \A i \in 1..NTables : Schema!IsOf(tables[i], stamp)
          /\ \A c \in copies : c.named = c.holds
          /\ \A i \in 1..NTables, v \in Schema!Builds :
                              tables[i].changed[v] > 0 => \E c \in copies : c.holds < v
        BY <1>1 DEF SchemaIInv, Schema!StampsTellTheShape, Orderly
    <2>2. stamp' > 0 => \A i \in 1..NTables : Schema!IsOf(tables[i], stamp)'
        BY <1>1, <2>1 DEF Schema!IsOf
    <2>3. \A c \in copies' : c.named = c.holds
        BY <1>1, <1>9, <2>1
    <2>4. \A i \in 1..NTables, v \in Schema!Builds :
                              tables'[i].changed[v] > 0 => \E c \in copies' : c.holds < v
        BY <1>1, <2>1
    <2> QED BY <2>2, <2>3, <2>4
<1> QED BY <1>5, <1>6, <1>7, <1>8, <1>9, <1>10 DEF SchemaIInv

\* One step forward, with its stamp.
LEMMA SchemaMigrateStep ==
    ASSUME SchemaIInv, NEW p \in Openers, Schema!Migrate(p)
    PROVE  SchemaIInv'
<1> USE PartsAssumption DEF Schema!SchemaAssumption, Schema!Builds
<1> DEFINE n == open[p].next  o == Schema!AfterStep(open[p])
<1>1. /\ SchemaTypeOK /\ OpenersAreOnTheirWay /\ open[p].step = "migrate"
      /\ \A i \in 1..NTables : tables[i].made # 0
      /\ tables' = [i \in 1..NTables |-> Schema!Changed(tables[i], n)]
      /\ stamp' = n
      /\ Schema!To(p, o) /\ UNCHANGED <<copies, raced, adopted>>
    BY DEF SchemaIInv, Schema!Migrate
<1>2. /\ open[p] # Schema!Idle /\ open[p] \in Opens /\ OnItsWay(open[p])
      /\ open[p].found \in 1..(n - 1) /\ n \in 1..open[p].build /\ n \in Nat
      /\ open[p].build \in 1..Newest /\ stamp \in 1..Newest
    BY <1>1, SchemaOpeners DEF OpenersAreOnTheirWay, OnItsWay, SchemaTypeOK
<1>3. /\ o \in Opens /\ o # Schema!Idle /\ o.build = open[p].build /\ o.found = open[p].found
      /\ o.step = IF n = open[p].build THEN "baseline" ELSE "migrate"
      /\ o.next = IF n = open[p].build THEN 1 ELSE n + 1
    <2>1. open[p].step = "migrate"
        BY <1>1
    <2>2. CASE n = open[p].build
        BY <1>2, <2>1, <2>2 DEF Opens, OpenSteps, Schema!Idle, Schema!AfterStep
    <2>3. CASE n # open[p].build
        BY <1>2, <2>1, <2>3 DEF Opens, OpenSteps, Schema!Idle, Schema!AfterStep
    <2> QED BY <2>2, <2>3
<1> HIDE DEF o
<1>4. /\ open'[p] = o /\ \A q \in Openers \ {p} : open'[q] = open[q]
      /\ open' \in [Openers -> {Schema!Idle} \cup Opens]
    BY <1>1, <1>3, SchemaPlace
<1> HIDE DEF n
<1>5. ASSUME NEW i \in 1..NTables
      PROVE  /\ tables'[i] \in [made : 0..Newest, changed : [Schema!Builds -> 0..2]]
             /\ tables'[i].made = tables[i].made
             /\ \A v \in Schema!Builds : v # n => tables'[i].changed[v] = tables[i].changed[v]
             /\ tables[i].changed[n] = 0 => tables'[i].changed[n] = 1
    <2>1. tables[i] \in [made : 0..Newest, changed : [Schema!Builds -> 0..2]]
        BY <1>1 DEF SchemaTypeOK
    <2>2. tables'[i] = [tables[i] EXCEPT !.changed[n] = IF @ < 2 THEN @ + 1 ELSE @]
        BY <1>1 DEF Schema!Changed
    <2> DEFINE c == tables[i].changed  d == [c EXCEPT ![n] = IF @ < 2 THEN @ + 1 ELSE @]
    <2>3. c \in [Schema!Builds -> 0..2] /\ n \in Schema!Builds
        BY <1>2, <2>1
    <2>4. /\ d \in [Schema!Builds -> 0..2] /\ \A v \in Schema!Builds : v # n => d[v] = c[v]
          /\ c[n] = 0 => d[n] = 1
        BY <2>3
    <2>5. tables'[i] = [made |-> tables[i].made, changed |-> d]
        BY <2>1, <2>2
    <2> HIDE DEF c, d
    <2>6. tables'[i].made = tables[i].made /\ tables'[i].changed = d
        BY <2>5
    <2>7. tables'[i] \in [made : 0..Newest, changed : [Schema!Builds -> 0..2]]
        BY <2>1, <2>4, <2>5
    <2> QED BY <2>4, <2>6, <2>7 DEF c
<1>6. SchemaTypeOK'
    <2>1. tables' \in [1..NTables -> [made : 0..Newest, changed : [Schema!Builds -> 0..2]]]
        BY <1>1, <1>5
    <2> QED BY <1>1, <1>2, <1>4, <2>1 DEF SchemaTypeOK
<1>7. OpenersAreOnTheirWay'
    <2>1. OnItsWay(open[p])'
        BY <1>1, <1>2, <1>3, <1>4, SMTT(30) DEF OnItsWay
    <2>2. \A q \in Openers \ {p} : open[q] # Schema!Idle => OnItsWay(open[q])'
        BY <1>1, <1>2, <1>4 DEF OpenersAreOnTheirWay, OnItsWay
    <2> QED BY <1>4, <2>1, <2>2 DEF OpenersAreOnTheirWay
<1>8. BaselinesAreMade'
    BY <1>1, <1>5 DEF BaselinesAreMade
<1>9. ~raced' => OpenersShare'
    BY <1>1, <1>2, <1>3, <1>4, SchemaShared
<1>10. ASSUME Orderly'
       PROVE  /\ StampsAreTheirs' /\ UnstampedTables' /\ stamp = n - 1
              /\ \E c \in copies : c.holds <= open[p].found
    <2>1. StampsAreTheirs /\ OpenersShare
        BY <1>1, <1>10 DEF SchemaIInv, Orderly
    <2>2. stamp = n - 1 /\ \E c \in copies : c.holds <= open[p].found
        BY <1>1, <1>2, <2>1 DEF StampsAreTheirs, StampIsHis, n
    <2>3. StampIsHis(open[p])'
        BY <1>1, <1>2, <1>3, <1>4, <2>2 DEF StampIsHis
    <2>4. ASSUME NEW q \in Openers \ {p}, open[q] # Schema!Idle PROVE StampIsHis(open[q])'
        <3>1. Schema!MayShare(open[p], open[q]) /\ OnItsWay(open[q])
            BY <1>1, <1>2, <2>1, <2>4 DEF OpenersShare, OpenersAreOnTheirWay
        <3>2. /\ open[q].build \in 1..Newest /\ open[q].found \in 0..Newest
              /\ open[q].next \in Nat
            BY <1>1, <2>4, SchemaOpeners
        <3>3. open[q].found = open[q].build /\ open[q].step # "migrate"
            BY <1>2, <3>1, <3>2 DEF Schema!MayShare, OnItsWay
        <3> QED BY <1>4, <2>4, <3>2, <3>3 DEF StampIsHis
    <2>5. StampsAreTheirs'
        BY <1>4, <2>3, <2>4 DEF StampsAreTheirs
    <2>6. UnstampedTables'
        BY <1>1, <1>2 DEF UnstampedTables
    <2> QED BY <2>2, <2>5, <2>6
<1>11. Schema!StampsTellTheShape'
    <2> SUFFICES ASSUME Orderly'
                 PROVE  /\ \A i \in 1..NTables : Schema!IsOf(tables'[i], n)
                        /\ \A c \in copies' : c.named = c.holds
                        /\ \A i \in 1..NTables, v \in Schema!Builds :
                              tables'[i].changed[v] > 0 => \E c \in copies' : c.holds < v
        BY <1>1, <1>2 DEF Schema!StampsTellTheShape, Schema!IsOf, Orderly
    <2>1. /\ \A i \in 1..NTables : Schema!IsOf(tables[i], n - 1)
          /\ \A c \in copies : c.named = c.holds
          /\ \A i \in 1..NTables, v \in Schema!Builds :
                              tables[i].changed[v] > 0 => \E c \in copies : c.holds < v
        BY <1>1, <1>2, <1>10 DEF SchemaIInv, Schema!StampsTellTheShape, Orderly
    <2>2. ASSUME NEW i \in 1..NTables PROVE Schema!IsOf(tables'[i], n)
        <3>1. tables[i].made \in 1..(n - 1) /\ tables[i].changed[n] = 0
            BY <1>2, <2>1 DEF Schema!IsOf
        <3>2. tables'[i].made \in 1..n
            BY <1>2, <1>5, <3>1
        <3>3. ASSUME NEW w \in Schema!Builds
              PROVE  tables'[i].changed[w] = IF w \in (tables'[i].made + 1)..n THEN 1 ELSE 0
            <4>1. CASE w = n
                BY <1>2, <1>5, <3>1, <4>1
            <4>2. CASE w # n
                <5>1. tables[i].changed[w] = IF w \in (tables[i].made + 1)..(n - 1) THEN 1 ELSE 0
                    BY <2>1 DEF Schema!IsOf
                <5> QED BY <1>2, <1>5, <3>1, <4>2, <5>1
            <4> QED BY <4>1, <4>2
        <3> QED BY <3>2, <3>3 DEF Schema!IsOf
    <2>3. ASSUME NEW i \in 1..NTables, NEW v \in Schema!Builds, tables'[i].changed[v] > 0
          PROVE  \E c \in copies : c.holds < v
        <3>1. CASE v = n
            BY <1>1, <1>2, <1>10, <3>1 DEF SchemaTypeOK
        <3>2. CASE v # n
            BY <1>5, <2>1, <2>3, <3>2
        <3> QED BY <3>1, <3>2
    <2> QED BY <1>1, <2>1, <2>2, <2>3
<1> QED BY <1>6, <1>7, <1>8, <1>9, <1>10, <1>11 DEF SchemaIInv

\* One table of the baseline.
LEMMA SchemaBaselineStep ==
    ASSUME SchemaIInv, NEW p \in Openers, Schema!Baseline(p)
    PROVE  SchemaIInv'
<1> USE PartsAssumption DEF Schema!SchemaAssumption, Schema!Builds
<1> DEFINE n == open[p].next
           o == IF n = NTables THEN [open[p] EXCEPT !.step = "stamp"]
                ELSE [open[p] EXCEPT !.next = n + 1]
<1>1. /\ SchemaTypeOK /\ OpenersAreOnTheirWay /\ open[p].step = "baseline"
      /\ tables' = IF tables[n].made # 0 THEN tables
                   ELSE [tables EXCEPT ![n] = Schema!Made(open[p].build)]
      /\ Schema!To(p, o) /\ UNCHANGED <<stamp, copies, raced, adopted>>
    BY DEF SchemaIInv, Schema!Baseline
<1>2. /\ open[p] # Schema!Idle /\ open[p] \in Opens /\ OnItsWay(open[p])
      /\ n \in 1..NTables /\ n \in Nat
      /\ open[p].build \in 1..Newest /\ stamp \in 0..Newest
    BY <1>1, SchemaOpeners DEF OpenersAreOnTheirWay, OnItsWay, SchemaTypeOK
<1>3. /\ o \in Opens /\ o # Schema!Idle /\ o.build = open[p].build /\ o.found = open[p].found
      /\ o.step = IF n = NTables THEN "stamp" ELSE "baseline"
      /\ o.next = IF n = NTables THEN n ELSE n + 1
    <2>1. open[p].step = "baseline"
        BY <1>1
    <2>2. CASE n = NTables
        BY <1>2, <2>1, <2>2 DEF Opens, OpenSteps, Schema!Idle
    <2>3. CASE n # NTables
        BY <1>2, <2>1, <2>3 DEF Opens, OpenSteps, Schema!Idle
    <2> QED BY <2>2, <2>3
<1> HIDE DEF o
<1>4. /\ open'[p] = o /\ \A q \in Openers \ {p} : open'[q] = open[q]
      /\ open' \in [Openers -> {Schema!Idle} \cup Opens]
    BY <1>1, <1>3, SchemaPlace
<1> HIDE DEF n
<1> DEFINE new == Schema!Made(open[p].build)
<1>5. /\ new \in [made : 0..Newest, changed : [Schema!Builds -> 0..2]]
      /\ new.made = open[p].build /\ new.changed = [v \in Schema!Builds |-> 0]
    BY <1>2, SchemaMade
<1>6. /\ tables' = IF tables[n].made # 0 THEN tables ELSE [tables EXCEPT ![n] = new]
      /\ tables \in [1..NTables -> [made : 0..Newest, changed : [Schema!Builds -> 0..2]]]
    BY <1>1 DEF SchemaTypeOK
<1> HIDE DEF new
<1>7. /\ \A i \in 1..NTables : i # n => tables'[i] = tables[i]
      /\ tables'[n] = IF tables[n].made # 0 THEN tables[n] ELSE new
      /\ tables' \in [1..NTables -> [made : 0..Newest, changed : [Schema!Builds -> 0..2]]]
    BY <1>2, <1>5, <1>6
<1>8. tables'[n].made # 0 /\ \A i \in 1..NTables : tables[i].made # 0 => tables'[i] = tables[i]
    BY <1>2, <1>5, <1>7
<1>9. SchemaTypeOK'
    BY <1>1, <1>4, <1>7 DEF SchemaTypeOK
<1>10. OpenersAreOnTheirWay'
    <2>1. OnItsWay(open[p])'
        BY <1>1, <1>2, <1>3, <1>4 DEF OnItsWay
    <2>2. \A q \in Openers \ {p} : open[q] # Schema!Idle => OnItsWay(open[q])'
        BY <1>1, <1>2, <1>4 DEF OpenersAreOnTheirWay, OnItsWay
    <2> QED BY <1>4, <2>1, <2>2 DEF OpenersAreOnTheirWay
<1>11. BaselinesAreMade'
    <2> SUFFICES ASSUME NEW q \in Openers, NEW i \in 1..NTables,
                        \/ open'[q].step = "stamp"
                        \/ open'[q].step = "baseline" /\ i < open'[q].next
                 PROVE  tables'[i].made # 0
        BY DEF BaselinesAreMade
    <2>1. CASE q # p
        <3>1. tables[i].made # 0
            BY <1>4, <2>1 DEF SchemaIInv, BaselinesAreMade
        <3> QED BY <1>8, <3>1
    <2>2. CASE q = p
        <3>1. i <= n
            BY <1>2, <1>3, <1>4, <2>2
        <3>2. i < n => tables[i].made # 0
            BY <1>1, <2>2 DEF SchemaIInv, BaselinesAreMade, n
        <3>3. i = n \/ i < n
            BY <1>2, <3>1
        <3> QED BY <1>8, <3>2, <3>3
    <2> QED BY <2>1, <2>2
<1>12. ~raced' => OpenersShare'
    BY <1>1, <1>2, <1>3, <1>4, SchemaShared
<1>13. ASSUME Orderly' PROVE StampsAreTheirs' /\ UnstampedTables'
    <2>1. StampsAreTheirs /\ UnstampedTables /\ OpenersShare
        BY <1>1, <1>13 DEF SchemaIInv, Orderly
    <2>2. StampIsHis(open[p])'
        <3>1. StampIsHis(open[p])
            BY <1>2, <2>1 DEF StampsAreTheirs
        <3> QED BY <1>1, <1>2, <1>3, <1>4, <3>1 DEF StampIsHis
    <2>3. \A q \in Openers \ {p} : open[q] # Schema!Idle => StampIsHis(open[q])'
        BY <1>1, <1>4, <2>1 DEF StampsAreTheirs, StampIsHis
    <2>4. StampsAreTheirs'
        BY <1>4, <2>2, <2>3 DEF StampsAreTheirs
    <2>5. ASSUME stamp = 0, NEW q \in Openers, open'[q] # Schema!Idle
          PROVE  open'[q].build = open[p].build
        <3>1. CASE q = p
            BY <1>3, <1>4, <3>1
        <3>2. CASE q # p
            <4>1. Schema!MayShare(open[p], open[q]) /\ OnItsWay(open[q])
                BY <1>1, <1>2, <1>4, <2>1, <2>5, <3>2 DEF OpenersShare, OpenersAreOnTheirWay
            <4>2. open[q].build \in 1..Newest /\ open[q].found \in 0..Newest
                /\ open[p].found \in 0..Newest
                BY <1>1, <1>2, <1>4, <2>5, <3>2, SchemaOpeners
            <4> QED BY <1>2, <1>4, <2>5, <3>2, <4>1, <4>2 DEF Schema!MayShare, OnItsWay
        <3> QED BY <3>1, <3>2
    <2>6. ASSUME stamp = 0, NEW i \in 1..NTables
          PROVE  /\ tables'[i].changed = [v \in Schema!Builds |-> 0]
                 /\ tables'[i].made \in {0, open[p].build}
        <3>1. /\ tables[i].changed = [v \in Schema!Builds |-> 0]
              /\ tables[i].made \in {0, open[p].build}
            BY <1>2, <2>1, <2>6 DEF UnstampedTables
        <3> QED BY <1>5, <1>7, <3>1
    <2>7. UnstampedTables'
        BY <1>1, <2>5, <2>6 DEF UnstampedTables
    <2> QED BY <2>4, <2>7
<1>14. Schema!StampsTellTheShape'
    <2> SUFFICES ASSUME Orderly'
                 PROVE  /\ stamp > 0 => \A i \in 1..NTables : Schema!IsOf(tables'[i], stamp)
                        /\ \A c \in copies' : c.named = c.holds
                        /\ \A i \in 1..NTables, v \in Schema!Builds :
                              tables'[i].changed[v] > 0 => \E c \in copies' : c.holds < v
        BY <1>1 DEF Schema!StampsTellTheShape, Schema!IsOf, Orderly
    <2>1. /\ stamp > 0 => \A i \in 1..NTables : Schema!IsOf(tables[i], stamp)
          /\ \A c \in copies : c.named = c.holds
          /\ \A i \in 1..NTables, v \in Schema!Builds :
                              tables[i].changed[v] > 0 => \E c \in copies : c.holds < v
        BY <1>1 DEF SchemaIInv, Schema!StampsTellTheShape, Orderly
    <2>2. ASSUME stamp > 0, NEW i \in 1..NTables PROVE Schema!IsOf(tables'[i], stamp)
        <3>1. Schema!IsOf(tables[i], stamp) /\ tables[i].made # 0
            BY <1>2, <2>1, <2>2 DEF Schema!IsOf
        <3> QED BY <1>8, <3>1
    <2>3. ASSUME NEW i \in 1..NTables, NEW v \in Schema!Builds, tables'[i].changed[v] > 0
          PROVE  \E c \in copies : c.holds < v
        <3>1. tables'[i] = tables[i] \/ tables'[i] = new
            BY <1>7
        <3>2. new.changed[v] = 0
            BY <1>5
        <3> QED BY <2>1, <2>3, <3>1, <3>2
    <2> QED BY <1>1, <2>1, <2>2, <2>3
<1> QED BY <1>9, <1>10, <1>11, <1>12, <1>13, <1>14 DEF SchemaIInv

\* The stamp at the end.
LEMMA SchemaStampStep ==
    ASSUME SchemaIInv, NEW p \in Openers, Schema!Stamp(p)
    PROVE  SchemaIInv'
<1> USE PartsAssumption DEF Schema!SchemaAssumption, Schema!Builds
<1>1. /\ SchemaTypeOK /\ OpenersAreOnTheirWay /\ open[p].step = "stamp"
      /\ stamp' = IF open[p].found # open[p].build THEN open[p].build ELSE stamp
      /\ Schema!To(p, Schema!Idle) /\ UNCHANGED <<tables, copies, raced, adopted>>
    BY DEF SchemaIInv, Schema!Stamp
<1>2. /\ open[p] # Schema!Idle /\ OnItsWay(open[p])
      /\ open[p].build \in 1..Newest /\ open[p].found \in 0..Newest /\ stamp \in 0..Newest
    BY <1>1, SchemaOpeners DEF OpenersAreOnTheirWay, SchemaTypeOK
<1>3. /\ open'[p] = Schema!Idle /\ \A q \in Openers \ {p} : open'[q] = open[q]
      /\ open' \in [Openers -> {Schema!Idle} \cup Opens]
    BY <1>1, SchemaPlace
<1>4. SchemaTypeOK'
    BY <1>1, <1>2, <1>3 DEF SchemaTypeOK
<1>5. OpenersAreOnTheirWay'
    BY <1>1, <1>2, <1>3 DEF OpenersAreOnTheirWay, OnItsWay
<1>6. BaselinesAreMade'
    BY <1>1, <1>3, SchemaOpeners DEF SchemaIInv, BaselinesAreMade
<1>7. ~raced' => OpenersShare'
    BY <1>1, <1>3, SchemaShared
<1>8. ASSUME Orderly
      PROVE  stamp' = stamp \/ (stamp = 0 /\ stamp' = open[p].build)
    <2>1. StampIsHis(open[p])
        BY <1>2, <1>8 DEF SchemaIInv, StampsAreTheirs
    <2>2. CASE open[p].found = 0
        BY <1>1, <1>2, <2>1, <2>2 DEF StampIsHis
    <2>3. CASE open[p].found \in 1..(open[p].build - 1)
        BY <1>1, <1>2, <2>1, <2>3 DEF StampIsHis
    <2>4. CASE open[p].found = open[p].build
        BY <1>1, <2>4
    <2> QED BY <1>2, <2>2, <2>3, <2>4 DEF OnItsWay
<1>9. ASSUME Orderly, stamp = 0, NEW q \in Openers, open[q] # Schema!Idle
      PROVE  open[q].build = open[p].build /\ open[q].found = 0
    <2>1. CASE q = p
        BY <1>2, <1>9, <2>1 DEF OnItsWay
    <2>2. CASE q # p
        <3>1. Schema!MayShare(open[p], open[q]) /\ OnItsWay(open[q])
            BY <1>1, <1>2, <1>9, <2>2 DEF SchemaIInv, Orderly, OpenersShare, OpenersAreOnTheirWay
        <3>2. open[q].build \in 1..Newest /\ open[q].found \in 0..Newest
            BY <1>1, <1>9, SchemaOpeners
        <3> QED BY <1>2, <1>9, <3>1, <3>2 DEF Schema!MayShare, OnItsWay
    <2> QED BY <2>1, <2>2
<1>10. ASSUME Orderly' PROVE StampsAreTheirs' /\ UnstampedTables'
    <2>1. Orderly /\ StampsAreTheirs /\ UnstampedTables
        BY <1>1, <1>10 DEF SchemaIInv, Orderly
    <2>2. ASSUME NEW q \in Openers \ {p}, open[q] # Schema!Idle PROVE StampIsHis(open[q])'
        <3>1. StampIsHis(open[q])
            BY <2>1, <2>2 DEF StampsAreTheirs
        <3>2. CASE stamp' = stamp
            BY <1>1, <1>3, <3>1, <3>2 DEF StampIsHis
        <3>3. CASE stamp = 0 /\ stamp' = open[p].build
            <4>1. open[q].build = open[p].build /\ open[q].found = 0
                BY <1>9, <2>1, <2>2, <3>3
            <4> QED BY <1>1, <1>3, <3>1, <3>3, <4>1 DEF StampIsHis
        <3> QED BY <1>8, <2>1, <3>2, <3>3
    <2>3. StampsAreTheirs'
        BY <1>3, <2>2 DEF StampsAreTheirs
    <2>4. UnstampedTables'
        <3>1. stamp' = 0 => stamp = 0
            BY <1>2, <1>8, <2>1
        <3> QED BY <1>1, <1>3, <2>1, <3>1 DEF UnstampedTables
    <2> QED BY <2>3, <2>4
<1>11. Schema!StampsTellTheShape'
    <2> SUFFICES ASSUME Orderly
                 PROVE  /\ stamp' > 0 => \A i \in 1..NTables : Schema!IsOf(tables[i], stamp')
                        /\ \A c \in copies : c.named = c.holds
                        /\ \A i \in 1..NTables, v \in Schema!Builds :
                              tables[i].changed[v] > 0 => \E c \in copies : c.holds < v
        BY <1>1 DEF Schema!StampsTellTheShape, Schema!IsOf, Orderly
    <2>1. /\ stamp > 0 => \A i \in 1..NTables : Schema!IsOf(tables[i], stamp)
          /\ \A c \in copies : c.named = c.holds
          /\ \A i \in 1..NTables, v \in Schema!Builds :
                              tables[i].changed[v] > 0 => \E c \in copies : c.holds < v
        BY <1>1 DEF SchemaIInv, Schema!StampsTellTheShape, Orderly
    <2>2. ASSUME NEW i \in 1..NTables, stamp = 0, stamp' = open[p].build
          PROVE  Schema!IsOf(tables[i], stamp')
        <3>1. tables[i].made # 0
            BY <1>1 DEF SchemaIInv, BaselinesAreMade
        <3>2. /\ tables[i].changed = [v \in Schema!Builds |-> 0]
              /\ tables[i].made = open[p].build
            BY <1>2, <2>2, <3>1 DEF SchemaIInv, UnstampedTables
        <3> QED BY <1>2, <2>2, <3>2 DEF Schema!IsOf
    <2> QED BY <1>8, <2>1, <2>2
<1> QED BY <1>4, <1>5, <1>6, <1>7, <1>10, <1>11 DEF SchemaIInv

\* A process that is let go leaves everything else as it is.
LEMMA SchemaFailStep ==
    ASSUME SchemaIInv, NEW p \in Openers, Schema!Fail(p)
    PROVE  SchemaIInv'
<1>1. /\ SchemaTypeOK /\ Schema!To(p, Schema!Idle)
      /\ UNCHANGED <<stamp, tables, copies, raced, adopted>>
    BY DEF SchemaIInv, Schema!Fail
<1>2. /\ open'[p] = Schema!Idle /\ \A q \in Openers \ {p} : open'[q] = open[q]
      /\ open' \in [Openers -> {Schema!Idle} \cup Opens]
    BY <1>1, SchemaPlace
<1>3. SchemaTypeOK'
    BY <1>1, <1>2 DEF SchemaTypeOK, Schema!Builds
<1>4. OpenersAreOnTheirWay'
    BY <1>1, <1>2 DEF SchemaIInv, OpenersAreOnTheirWay, OnItsWay
<1>5. BaselinesAreMade'
    BY <1>1, <1>2, SchemaOpeners DEF SchemaIInv, BaselinesAreMade
<1>6. ~raced' => OpenersShare'
    BY <1>1, <1>2, SchemaShared
<1>7. Orderly' => StampsAreTheirs' /\ UnstampedTables'
    BY <1>1, <1>2
    DEF SchemaIInv, Orderly, StampsAreTheirs, StampIsHis, UnstampedTables, Schema!Builds
<1>8. Schema!StampsTellTheShape'
    BY <1>1 DEF SchemaIInv, Schema!StampsTellTheShape, Schema!IsOf, Schema!Builds
<1> QED BY <1>3, <1>4, <1>5, <1>6, <1>7, <1>8 DEF SchemaIInv

\* Whatever happens to the file.
LEMMA SchemaNext == SchemaIInv /\ [Schema!Next]_(Schema!vars) => SchemaIInv'
<1>1. ASSUME SchemaIInv, Schema!Next PROVE SchemaIInv'
    BY <1>1, SchemaOpenStep, SchemaCopyStep, SchemaMigrateStep, SchemaBaselineStep,
       SchemaStampStep, SchemaFailStep DEF Schema!Next
<1>2. ASSUME SchemaIInv, UNCHANGED Schema!vars PROVE SchemaIInv'
    BY <1>2
    DEF Schema!vars, SchemaIInv, SchemaTypeOK, OpenersAreOnTheirWay, OnItsWay, OpenersShare,
        Schema!MayShare, StampsAreTheirs, StampIsHis, UnstampedTables, BaselinesAreMade,
        Orderly, Schema!StampsTellTheShape, Schema!IsOf, Schema!Builds
<1> QED BY <1>1, <1>2

-----------------------------------------------------------------------------
(* The catalogs.                                                            *)

Reasons == {"add", "activate", "deactivate"}
Overlays == [Catalog!Names -> {"none"} \cup Catalog!Shipped \cup Catalog!Own]

OpenVerbs == [step : {"open"}, content : Catalog!Registries, ext : Exts, for : Reasons]
FillVerbs == [step : {"fill"}, content : Catalog!Registries, ext : Exts, for : Reasons,
              file : {"staged", "store", "gone"}]
RenameVerbs == [step : {"rename"}, ext : Exts, for : Reasons]
AgreedVerbs == [step : {"agreed"}, ext : Exts]
AgentVerbs == [step : {"openAgents", "fillAgents"}, content : Overlays,
               made : SUBSET Catalog!Names]

CatalogVerbs ==
    {Catalog!Idle} \cup OpenVerbs \cup FillVerbs \cup RenameVerbs \cup AgreedVerbs \cup AgentVerbs

CatalogTypeOK ==
    /\ alone \in BOOLEAN
    /\ store \in Catalog!Files(Catalog!Registries) /\ staged \in Catalog!Files(Catalog!Registries)
    /\ agents \in Catalog!Files(Overlays)
    /\ change \in [Carriers -> CatalogVerbs]

\* What a registry shows as active was granted under the manifest it shows.
GrantedIn(registry) ==
    \A e \in Exts : registry[e].state = "active" => <<e, registry[e].version>> \in granted

\* Whoever writes it and wherever it is: in the store, staged, or in a process's hands.
GrantedEverywhere ==
    /\ store.is = "whole" => GrantedIn(store.content)
    /\ staged.is = "whole" => GrantedIn(staged.content)
    /\ \A p \in Carriers : change[p].step \in {"open", "fill"} => GrantedIn(change[p].content)

\* Verbs that come one after another.
OneCarries ==
    alone => \A p, q \in Carriers :
                change[p] # Catalog!Idle /\ change[q] # Catalog!Idle => p = q

\* What was answered as registered, and what the verb is about to answer, is in there.
KeptIn(registry, as) ==
    /\ \A e \in added : registry[e] # Catalog!NoEntry
    /\ as.for = "add" => registry[as.ext] # Catalog!NoEntry

Registering ==
    alone => \A p \in Carriers :
        /\ change[p].step \in {"open", "fill"} => KeptIn(change[p].content, change[p])
        /\ change[p].step = "fill" => change[p].file = "staged" /\ staged = Catalog!Torn
        /\ change[p].step = "rename" => staged.is = "whole" /\ KeptIn(staged.content, change[p])

\* The same of the agent definitions.
Creating ==
    alone => \A p \in Carriers :
        /\ change[p].step \in {"openAgents", "fillAgents"} =>
              \A n \in created \cup change[p].made : change[p].content[n] \in Catalog!Own
        /\ change[p].step = "fillAgents" => agents = Catalog!Torn

CatalogIInv ==
    /\ CatalogTypeOK
    /\ added \subseteq Exts /\ created \subseteq Catalog!Names
    /\ GrantedEverywhere
    /\ OneCarries
    /\ Registering
    /\ Creating
    /\ Catalog!RegisteredIsKept
    /\ Catalog!CreatedIsKept

\* The entries of a registry.
LEMMA RegistryEntries ==
    ASSUME NEW registry \in Catalog!Registries, NEW e \in Exts
    PROVE  \/ registry[e] = Catalog!NoEntry /\ registry[e].state = "none"
           \/ /\ registry[e] \in [state : Catalog!ExtStates, version : Versions]
              /\ registry[e] # Catalog!NoEntry
<1>1. \/ registry[e] = Catalog!NoEntry
      \/ \E v \in Versions, s \in Catalog!ExtStates : registry[e] = Catalog!Entry(v, s)
  BY DEF Catalog!Registries
<1>2. CASE registry[e] = Catalog!NoEntry
  BY <1>2 DEF Catalog!NoEntry
<1>3. ASSUME NEW v \in Versions, NEW s \in Catalog!ExtStates, registry[e] = Catalog!Entry(v, s)
      PROVE  /\ registry[e] \in [state : Catalog!ExtStates, version : Versions]
             /\ registry[e] # Catalog!NoEntry
  BY <1>3 DEF Catalog!Entry, Catalog!NoEntry, Catalog!ExtStates
<1> QED
  BY <1>1, <1>2, <1>3

\* A registry one of whose entries is replaced.
LEMMA RegistryChanged ==
    ASSUME NEW registry \in Catalog!Registries, NEW e \in Exts, NEW v \in Versions,
           NEW s \in Catalog!ExtStates
    PROVE  /\ [registry EXCEPT ![e] = Catalog!Entry(v, s)] \in Catalog!Registries
           /\ [registry EXCEPT ![e] = Catalog!Entry(v, s)][e].state = s
           /\ [registry EXCEPT ![e] = Catalog!Entry(v, s)][e].version = v
           /\ [registry EXCEPT ![e] = Catalog!Entry(v, s)][e] # Catalog!NoEntry
           /\ \A f \in Exts \ {e} : [registry EXCEPT ![e] = Catalog!Entry(v, s)][f] = registry[f]
<1>1. DOMAIN registry = Exts
  BY DEF Catalog!Registries
<1>2. [registry EXCEPT ![e] = Catalog!Entry(v, s)] \in Catalog!Registries
  BY DEF Catalog!Registries
<1>3. [registry EXCEPT ![e] = Catalog!Entry(v, s)][e] = Catalog!Entry(v, s)
  BY <1>1
<1>4. /\ Catalog!Entry(v, s).state = s /\ Catalog!Entry(v, s).version = v
      /\ Catalog!Entry(v, s) # Catalog!NoEntry
  BY DEF Catalog!Entry, Catalog!NoEntry, Catalog!ExtStates
<1> QED
  BY <1>1, <1>2, <1>3, <1>4

\* What is loaded from a file of the registry.
LEMMA ExtensionsLoaded ==
    ASSUME CatalogIInv, Catalog!Loadable(store)
    PROVE  /\ Catalog!Extensions(store) \in Catalog!Registries
           /\ GrantedIn(Catalog!Extensions(store))
           /\ alone => \A e \in added : Catalog!Extensions(store)[e] # Catalog!NoEntry
<1>1. CASE store.is = "whole"
  BY <1>1 DEF CatalogIInv, CatalogTypeOK, GrantedEverywhere, Catalog!Files, Catalog!Whole,
     Catalog!NoFile, Catalog!Torn, Catalog!Extensions, Catalog!RegisteredIsKept
<1>2. CASE store.is # "whole"
  <2>1. Catalog!NoExtensions \in Catalog!Registries
    BY DEF Catalog!NoExtensions, Catalog!Registries
  <2>2. GrantedIn(Catalog!NoExtensions)
    BY DEF GrantedIn, Catalog!NoExtensions, Catalog!NoEntry
  <2> QED
    BY <1>2, <2>1, <2>2 DEF Catalog!Extensions, CatalogIInv, Catalog!RegisteredIsKept
<1> QED
  BY <1>1, <1>2

\* What is loaded from a file of the agent definitions.
LEMMA DefinitionsLoaded ==
    ASSUME CatalogIInv
    PROVE  Catalog!Definitions(agents) \in Overlays
<1>1. Catalog!Seed \in Overlays
  BY DEF Catalog!Seed, Overlays, Catalog!Shipped
<1>2. CASE agents.is = "whole"
  <2>1. agents.content \in Overlays
    BY <1>2 DEF CatalogIInv, CatalogTypeOK, Catalog!Files, Catalog!Whole, Catalog!NoFile,
        Catalog!Torn
  <2> QED
    BY <1>1, <1>2, <2>1 DEF Catalog!Definitions, Overlays
<1> QED
  BY <1>1, <1>2 DEF Catalog!Definitions

\* Before the first verb there is no file.
LEMMA CatalogInit == Catalog!Init => CatalogIInv
<1> SUFFICES ASSUME Catalog!Init PROVE CatalogIInv
  OBVIOUS
<1>1. CatalogTypeOK
  BY DEF Catalog!Init, CatalogTypeOK, Catalog!Files, CatalogVerbs
<1>2. \A p \in Carriers : change[p] = Catalog!Idle
  BY DEF Catalog!Init
<1> QED
  BY <1>1, <1>2 DEF Catalog!Init, CatalogIInv, GrantedEverywhere, OneCarries, Registering, Creating,
     Catalog!RegisteredIsKept, Catalog!CreatedIsKept, Catalog!NoFile, Catalog!Idle, Catalog!Loadable

\* A process goes on with its verb, or begins one.
LEMMA VerbMoves ==
    ASSUME CatalogIInv, NEW p \in Carriers, NEW new \in CatalogVerbs,
           change' = [change EXCEPT ![p] = new], alone' = alone,
           change[p] # Catalog!Idle \/ (alone => \A q \in Carriers : change[q] = Catalog!Idle)
    PROVE  /\ change' \in [Carriers -> CatalogVerbs]
           /\ change'[p] = new
           /\ \A q \in Carriers \ {p} : change'[q] = change[q]
           /\ alone => \A q \in Carriers \ {p} : change[q].step = "idle"
           /\ OneCarries'
<1>1. /\ change' \in [Carriers -> CatalogVerbs]
      /\ change'[p] = new
      /\ \A q \in Carriers \ {p} : change'[q] = change[q]
  BY DEF CatalogIInv, CatalogTypeOK
<1>2. alone => \A q \in Carriers \ {p} : change[q] = Catalog!Idle
  BY DEF CatalogIInv, OneCarries
<1>3. OneCarries'
  BY <1>1, <1>2 DEF OneCarries
<1> QED
  BY <1>1, <1>2, <1>3 DEF Catalog!Idle

\* The verbs of the registry that load it, and hold what they will write.
LEMMA VerbLoads ==
    ASSUME CatalogIInv, NEW p \in Carriers, NEW e \in Exts, NEW v \in Versions,
           NEW s \in Catalog!ExtStates, NEW for \in Reasons,
           Catalog!Loadable(store),
           change[p].step = "agreed" \/ (alone => \A q \in Carriers : change[q] = Catalog!Idle),
           change' = [change EXCEPT ![p] = Catalog!Saving(
                         [Catalog!Extensions(store) EXCEPT ![e] = Catalog!Entry(v, s)], e, for)],
           UNCHANGED <<alone, store, staged, agents, added, created>>,
           granted \subseteq granted',
           s = "active" => <<e, v>> \in granted'
    PROVE  CatalogIInv'
<1> DEFINE registry == [Catalog!Extensions(store) EXCEPT ![e] = Catalog!Entry(v, s)]
           new == Catalog!Saving(registry, e, for)
<1>1. /\ registry \in Catalog!Registries
      /\ registry[e].state = s /\ registry[e].version = v
      /\ registry[e] # Catalog!NoEntry
      /\ \A f \in Exts \ {e} : registry[f] = Catalog!Extensions(store)[f]
  BY ExtensionsLoaded, RegistryChanged
<1>2. \A f \in Exts : registry[f].state = "active" => <<f, registry[f].version>> \in granted'
  BY <1>1, ExtensionsLoaded DEF GrantedIn
<1>3. alone => \A f \in added : registry[f] # Catalog!NoEntry
  BY <1>1, ExtensionsLoaded DEF CatalogIInv
<1> HIDE DEF registry
<1>4. /\ new \in CatalogVerbs /\ new.step = "open" /\ new.content = registry
      /\ new.ext = e /\ new.for = for
  BY <1>1 DEF Catalog!Saving, CatalogVerbs, OpenVerbs
<1>5. change[p] # Catalog!Idle \/ (alone => \A q \in Carriers : change[q] = Catalog!Idle)
  BY DEF Catalog!Idle
<1>6. change' = [change EXCEPT ![p] = new]
  BY DEF new, registry
<1> HIDE DEF new
<1>7. /\ change' \in [Carriers -> CatalogVerbs]
      /\ change'[p] = new
      /\ \A q \in Carriers \ {p} : change'[q] = change[q]
      /\ alone => \A q \in Carriers \ {p} : change[q].step = "idle"
      /\ OneCarries'
  BY <1>4, <1>5, <1>6, VerbMoves
<1>8. alone => change[p].step # "fillAgents"
  BY DEF Catalog!Idle
<1>a. CatalogTypeOK'
  BY <1>7 DEF CatalogIInv, CatalogTypeOK
<1>b. GrantedEverywhere'
  BY <1>2, <1>4, <1>7, ZenonT(60) DEF CatalogIInv, GrantedEverywhere, GrantedIn
<1>c. Registering'
  <2> SUFFICES ASSUME alone, NEW q \in Carriers
               PROVE  /\ change'[q].step \in {"open", "fill"} =>
                            KeptIn(change[q].content, change[q])'
                      /\ change'[q].step \notin {"fill", "rename"}
    BY DEF Registering
  <2>1. CASE q = p
    <3>1. change'[q] = new
      BY <2>1, <1>7
    <3> QED
      BY <3>1, <1>1, <1>3, <1>4 DEF KeptIn
  <2>2. CASE q # p
    BY <2>2, <1>7
  <2> QED
    BY <2>1, <2>2
<1>d. Creating'
  BY <1>4, <1>7 DEF CatalogIInv, Creating
<1>e. Catalog!RegisteredIsKept'
  BY DEF CatalogIInv, Catalog!RegisteredIsKept
<1>f. Catalog!CreatedIsKept'
  BY <1>4, <1>7, <1>8 DEF CatalogIInv, Catalog!CreatedIsKept
<1> QED
  BY <1>7, <1>a, <1>b, <1>c, <1>d, <1>e, <1>f DEF CatalogIInv

\* The verbs that only begin or end, with the files as they are.
LEMMA VerbOnly ==
    ASSUME CatalogIInv, NEW p \in Carriers, NEW new \in {Catalog!Idle} \cup AgreedVerbs,
           change' = [change EXCEPT ![p] = new],
           change[p] # Catalog!Idle \/ (alone => \A q \in Carriers : change[q] = Catalog!Idle),
           UNCHANGED <<alone, store, staged, agents, granted, added>>,
           created' = IF change[p].step = "fillAgents" THEN {} ELSE created
    PROVE  CatalogIInv'
<1>1. new \in CatalogVerbs /\ new.step \in {"idle", "agreed"}
  BY DEF CatalogVerbs, AgreedVerbs, Catalog!Idle
<1>2. /\ change' \in [Carriers -> CatalogVerbs]
      /\ change'[p] = new
      /\ \A q \in Carriers \ {p} : change'[q] = change[q]
      /\ alone => \A q \in Carriers \ {p} : change[q].step = "idle"
      /\ OneCarries'
  BY <1>1, VerbMoves
<1>3. /\ created' \subseteq created
      /\ created' # {} => change[p].step # "fillAgents"
  OBVIOUS
<1>a. CatalogTypeOK'
  BY <1>2 DEF CatalogIInv, CatalogTypeOK
<1>b. GrantedEverywhere'
  BY <1>1, <1>2 DEF CatalogIInv, GrantedEverywhere, GrantedIn
<1>c. Registering'
  BY <1>1, <1>2 DEF CatalogIInv, Registering, KeptIn
<1>d. Creating'
  BY <1>1, <1>2, <1>3 DEF CatalogIInv, Creating
<1>e. Catalog!RegisteredIsKept'
  BY DEF CatalogIInv, Catalog!RegisteredIsKept
<1>f. Catalog!CreatedIsKept'
  BY <1>1, <1>2, <1>3 DEF CatalogIInv, Catalog!CreatedIsKept
<1> QED
  BY <1>2, <1>3, <1>a, <1>b, <1>c, <1>d, <1>e, <1>f DEF CatalogIInv

\* The agent definitions as a verb changes and writes them.
LEMMA VerbWrites ==
    ASSUME CatalogIInv, NEW p \in Carriers, NEW n \in Catalog!Names,
           NEW to \in Catalog!Shipped \cup Catalog!Own, NEW by \in SUBSET {n},
           n \in by \/ Catalog!Definitions(agents)[n] \in Catalog!Own => to \in Catalog!Own,
           Catalog!May(p, "agents"),
           change' = [change EXCEPT ![p] = Catalog!Writing(
                         [Catalog!Definitions(agents) EXCEPT ![n] = to], by)],
           UNCHANGED <<alone, store, staged, agents, granted, added, created>>
    PROVE  CatalogIInv'
<1> DEFINE defs == [Catalog!Definitions(agents) EXCEPT ![n] = to]
           new == Catalog!Writing(defs, by)
<1>1. /\ defs \in Overlays /\ defs[n] = to
      /\ \A m \in Catalog!Names \ {n} : defs[m] = Catalog!Definitions(agents)[m]
  BY DefinitionsLoaded DEF Overlays
<1> HIDE DEF defs
<1>2. /\ Catalog!Overlay(defs) \in Overlays
      /\ \A m \in Catalog!Names : defs[m] \in Catalog!Own =>
            Catalog!Overlay(defs)[m] \in Catalog!Own
  BY <1>1 DEF Catalog!Overlay, Overlays, Catalog!Own
<1>3. /\ new \in CatalogVerbs /\ new.step = "openAgents"
      /\ new.content = Catalog!Overlay(defs) /\ new.made = by
  BY <1>2 DEF Catalog!Writing, CatalogVerbs, AgentVerbs
<1>4. /\ alone => \A q \in Carriers : change[q] = Catalog!Idle
      /\ change[p].step = "idle"
  BY DEF Catalog!May, Catalog!Idle
<1>5. change' = [change EXCEPT ![p] = new]
  BY DEF new, defs
<1> HIDE DEF new
<1>6. /\ change' \in [Carriers -> CatalogVerbs]
      /\ change'[p] = new
      /\ \A q \in Carriers \ {p} : change'[q] = change[q]
      /\ alone => \A q \in Carriers \ {p} : change[q].step = "idle"
      /\ OneCarries'
  BY <1>3, <1>4, <1>5, VerbMoves
<1>7. alone => \A m \in created : Catalog!Definitions(agents)[m] \in Catalog!Own
  <2>1. alone => \A q \in Carriers : change[q].step # "fillAgents"
    BY <1>4 DEF Catalog!Idle
  <2> QED
    BY <2>1 DEF CatalogIInv, Catalog!CreatedIsKept
<1>8. alone => \A m \in created \cup by : new.content[m] \in Catalog!Own
  BY <1>1, <1>2, <1>3, <1>7 DEF CatalogIInv
<1>a. CatalogTypeOK'
  BY <1>6 DEF CatalogIInv, CatalogTypeOK
<1>b. GrantedEverywhere'
  BY <1>3, <1>6 DEF CatalogIInv, GrantedEverywhere, GrantedIn
<1>c. Registering'
  BY <1>3, <1>6 DEF CatalogIInv, Registering, KeptIn
<1>d. Creating'
  BY <1>3, <1>6, <1>8, ZenonT(60) DEF CatalogIInv, Creating
<1>e. Catalog!RegisteredIsKept'
  BY DEF CatalogIInv, Catalog!RegisteredIsKept
<1>f. Catalog!CreatedIsKept'
  BY <1>3, <1>4, <1>6 DEF CatalogIInv, Catalog!CreatedIsKept
<1> QED
  BY <1>6, <1>a, <1>b, <1>c, <1>d, <1>e, <1>f DEF CatalogIInv

\* Saving the registry, first half: the staged file is emptied.
LEMMA StagedOpened ==
    ASSUME CatalogIInv, NEW p \in Carriers, Catalog!OpenStaged(p)
    PROVE  CatalogIInv'
<1> DEFINE new == [step |-> "fill", content |-> change[p].content, ext |-> change[p].ext,
                   for |-> change[p].for, file |-> "staged"]
<1>0. change[p] \in CatalogVerbs /\ change[p].step = "open"
  BY DEF CatalogIInv, CatalogTypeOK, Catalog!OpenStaged
<1>1. change[p] \in OpenVerbs
  BY <1>0 DEF CatalogVerbs, FillVerbs, RenameVerbs, AgreedVerbs, AgentVerbs, Catalog!Idle
<1>2. /\ new \in CatalogVerbs /\ new.step = "fill" /\ new.file = "staged"
      /\ new.content = change[p].content /\ new.ext = change[p].ext /\ new.for = change[p].for
  BY <1>1 DEF OpenVerbs, FillVerbs, CatalogVerbs
<1>3. change' = [change EXCEPT ![p] = new] /\ staged' = Catalog!Torn
      /\ UNCHANGED <<alone, store, agents, granted, added, created>>
  BY DEF Catalog!OpenStaged, CatalogIInv, CatalogTypeOK
<1> HIDE DEF new
<1>4. change[p] # Catalog!Idle
  BY <1>0 DEF Catalog!Idle
<1>5. /\ change' \in [Carriers -> CatalogVerbs]
      /\ change'[p] = new
      /\ \A q \in Carriers \ {p} : change'[q] = change[q]
      /\ alone => \A q \in Carriers \ {p} : change[q].step = "idle"
      /\ OneCarries'
  BY <1>2, <1>3, <1>4, VerbMoves
<1>a. CatalogTypeOK'
  BY <1>3, <1>5 DEF CatalogIInv, CatalogTypeOK, Catalog!Files
<1>b. GrantedEverywhere'
  BY <1>0, <1>2, <1>3, <1>5 DEF CatalogIInv, GrantedEverywhere, GrantedIn, Catalog!Torn
<1>c. Registering'
  <2>1. alone => KeptIn(change[p].content, change[p])
    BY <1>0 DEF CatalogIInv, Registering
  <2> QED
    BY <1>0, <1>2, <1>3, <1>5, <2>1 DEF Registering, KeptIn
<1>d. Creating'
  BY <1>2, <1>3, <1>5 DEF CatalogIInv, Creating
<1>e. Catalog!RegisteredIsKept'
  BY <1>3 DEF CatalogIInv, Catalog!RegisteredIsKept
<1>f. Catalog!CreatedIsKept'
  BY <1>0, <1>3, <1>5 DEF CatalogIInv, Catalog!CreatedIsKept
<1> QED
  BY <1>3, <1>5, <1>a, <1>b, <1>c, <1>d, <1>e, <1>f DEF CatalogIInv

\* ... and second half: it is filled, wherever it is by now.
LEMMA StagedFilled ==
    ASSUME CatalogIInv, NEW p \in Carriers, Catalog!FillStaged(p)
    PROVE  CatalogIInv'
<1> DEFINE content == change[p].content
           new == [step |-> "rename", ext |-> change[p].ext, for |-> change[p].for]
<1>0. change[p] \in CatalogVerbs /\ change[p].step = "fill"
  BY DEF CatalogIInv, CatalogTypeOK, Catalog!FillStaged
<1>1. change[p] \in FillVerbs
  BY <1>0 DEF CatalogVerbs, OpenVerbs, RenameVerbs, AgreedVerbs, AgentVerbs, Catalog!Idle
<1>2. /\ new \in CatalogVerbs /\ new.step = "rename"
      /\ new.ext = change[p].ext /\ new.for = change[p].for
      /\ content \in Catalog!Registries
  BY <1>1 DEF FillVerbs, RenameVerbs, CatalogVerbs
<1>3. /\ change' = [change EXCEPT ![p] = new]
      /\ staged' \in {staged, Catalog!Whole(content), Catalog!Torn}
      /\ store' \in {store, Catalog!Whole(content), Catalog!Torn}
      /\ change[p].file = "staged" => store' = store /\ staged' \in Catalog!Filled(staged, content)
      /\ UNCHANGED <<alone, agents, granted, added, created>>
  BY DEF Catalog!FillStaged, Catalog!Filled, CatalogIInv, CatalogTypeOK
<1>4. GrantedIn(content) /\ (alone => KeptIn(content, change[p]))
  BY <1>0 DEF CatalogIInv, GrantedEverywhere, Registering
<1>6. alone => store' = store /\ staged' = Catalog!Whole(content)
  <2> SUFFICES ASSUME alone PROVE store' = store /\ staged' = Catalog!Whole(content)
    OBVIOUS
  <2>1. change[p].file = "staged" /\ staged = Catalog!Torn
    BY <1>0 DEF CatalogIInv, Registering
  <2> QED
    BY <1>3, <2>1 DEF Catalog!Filled, Catalog!Torn
<1>7. Catalog!Whole(content).is = "whole" /\ Catalog!Whole(content).content = content
  BY DEF Catalog!Whole
<1>4a. change[p] # Catalog!Idle
  BY <1>0 DEF Catalog!Idle
<1> HIDE DEF new, content
<1>5. /\ change' \in [Carriers -> CatalogVerbs]
      /\ change'[p] = new
      /\ \A q \in Carriers \ {p} : change'[q] = change[q]
      /\ alone => \A q \in Carriers \ {p} : change[q].step = "idle"
      /\ OneCarries'
  BY <1>2, <1>3, <1>4a, VerbMoves
<1>a. CatalogTypeOK'
  BY <1>2, <1>3, <1>5 DEF CatalogIInv, CatalogTypeOK, Catalog!Files
<1>b. GrantedEverywhere'
  <2>1. /\ store'.is = "whole" => GrantedIn(store'.content)
        /\ staged'.is = "whole" => GrantedIn(staged'.content)
    BY <1>3, <1>4, <1>7 DEF CatalogIInv, GrantedEverywhere, Catalog!Torn
  <2>2. \A q \in Carriers : change'[q].step \in {"open", "fill"} => GrantedIn(change'[q].content)
    BY <1>2, <1>5 DEF CatalogIInv, GrantedEverywhere
  <2> QED
    BY <2>1, <2>2, <1>3 DEF GrantedEverywhere, GrantedIn
<1>c. Registering'
  BY <1>2, <1>3, <1>4, <1>5, <1>6, <1>7 DEF Registering, KeptIn
<1>d. Creating'
  BY <1>2, <1>3, <1>5 DEF CatalogIInv, Creating
<1>e. Catalog!RegisteredIsKept'
  BY <1>3, <1>6 DEF CatalogIInv, Catalog!RegisteredIsKept
<1>f. Catalog!CreatedIsKept'
  BY <1>0, <1>3, <1>5 DEF CatalogIInv, Catalog!CreatedIsKept
<1> QED
  BY <1>3, <1>5, <1>a, <1>b, <1>c, <1>d, <1>e, <1>f DEF CatalogIInv

\* The rename, which takes the staged file from under whoever else has it open.
LEMMA StagedRenamed ==
    ASSUME CatalogIInv, NEW p \in Carriers, Catalog!Rename(p)
    PROVE  CatalogIInv'
<1>0. change[p].step = "rename" /\ change[p] # Catalog!Idle /\ change[p] \in CatalogVerbs
  BY DEF Catalog!Rename, Catalog!Idle, CatalogIInv, CatalogTypeOK
<1>1. CASE staged = Catalog!NoFile
  <2>1. /\ change' = [change EXCEPT ![p] = Catalog!Idle]
        /\ UNCHANGED <<alone, store, staged, agents, granted, added>>
        /\ created' = IF change[p].step = "fillAgents" THEN {} ELSE created
    BY <1>0, <1>1 DEF Catalog!Rename, CatalogIInv, CatalogTypeOK
  <2> QED
    BY <1>0, <2>1, VerbOnly
<1>2. CASE staged # Catalog!NoFile
  <2>1. /\ store' = staged /\ staged' = Catalog!NoFile
        /\ change' = [q \in Carriers |-> IF q = p THEN Catalog!Idle ELSE Catalog!Follows(change[q])]
        /\ added' = IF change[p].for = "add" THEN added \cup {change[p].ext} ELSE added
        /\ UNCHANGED <<alone, agents, granted, created>>
    BY <1>2 DEF Catalog!Rename
  <2>2. ASSUME NEW q \in Carriers
        PROVE  /\ Catalog!Follows(change[q]) \in CatalogVerbs
               /\ Catalog!Follows(change[q]).step = change[q].step
               /\ change[q].step # "fill" => Catalog!Follows(change[q]) = change[q]
               /\ change[q].step = "fill" => Catalog!Follows(change[q]).content = change[q].content
    <3>1. change[q] \in CatalogVerbs
      BY DEF CatalogIInv, CatalogTypeOK
    <3>2. CASE change[q].step # "fill"
      BY <3>1, <3>2 DEF Catalog!Follows
    <3>3. CASE change[q].step = "fill"
      <4>1. change[q] \in FillVerbs
        BY <3>1, <3>3 DEF CatalogVerbs, OpenVerbs, RenameVerbs, AgreedVerbs, AgentVerbs,
            Catalog!Idle
      <4>2. Catalog!Follows(change[q]) =
               [change[q] EXCEPT !.file = IF change[q].file = "staged" THEN "store" ELSE "gone"]
        BY <3>3 DEF Catalog!Follows
      <4>3. Catalog!Follows(change[q]) \in FillVerbs
        BY <4>1, <4>2 DEF FillVerbs
      <4> QED
        BY <3>3, <4>1, <4>2, <4>3 DEF FillVerbs, CatalogVerbs
    <3> QED
      BY <3>2, <3>3
  <2>3. change'[p] = Catalog!Idle
      /\ \A q \in Carriers \ {p} : change'[q] = Catalog!Follows(change[q])
    BY <2>1
  <2>4. alone => \A q \in Carriers : change'[q] = Catalog!Idle
    <3> SUFFICES ASSUME alone, NEW q \in Carriers PROVE change'[q] = Catalog!Idle
      OBVIOUS
    <3>1. CASE q # p
      <4>1. change[q] = Catalog!Idle
        BY <1>0, <3>1 DEF CatalogIInv, OneCarries
      <4> QED
        BY <3>1, <4>1, <2>3 DEF Catalog!Follows, Catalog!Idle
    <3> QED
      BY <3>1, <2>3
  <2>5. alone => staged.is = "whole" /\ KeptIn(staged.content, change[p])
    BY <1>0 DEF CatalogIInv, Registering
  <2>6. change[p].ext \in Exts
    BY <1>0 DEF CatalogVerbs, OpenVerbs, FillVerbs, RenameVerbs, AgreedVerbs, AgentVerbs,
        Catalog!Idle
  <2>a. CatalogTypeOK'
    <3>1. change' \in [Carriers -> CatalogVerbs]
      BY <2>1, <2>2 DEF CatalogVerbs
    <3> QED
      BY <2>1, <3>1 DEF CatalogIInv, CatalogTypeOK, Catalog!Files
  <2>b. GrantedEverywhere'
    <3>1. \A q \in Carriers : change'[q].step \in {"open", "fill"} => GrantedIn(change'[q].content)
      BY <2>2, <2>3 DEF CatalogIInv, GrantedEverywhere, Catalog!Idle
    <3>2. store'.is = "whole" => GrantedIn(store'.content)
      BY <2>1 DEF CatalogIInv, GrantedEverywhere
    <3> QED
      BY <2>1, <3>1, <3>2 DEF GrantedEverywhere, GrantedIn, Catalog!NoFile
  <2>c. OneCarries' /\ Registering' /\ Creating'
    BY <2>1, <2>4 DEF OneCarries, Registering, Creating, Catalog!Idle
  <2>e. Catalog!RegisteredIsKept'
    BY <2>1, <2>5 DEF Catalog!RegisteredIsKept, KeptIn, Catalog!Loadable, Catalog!Extensions
  <2>f. Catalog!CreatedIsKept'
    <3>1. \A q \in Carriers : change'[q].step # "fillAgents" => change[q].step # "fillAgents"
      BY <2>2, <2>3, <1>0
    <3> QED
      BY <2>1, <3>1 DEF CatalogIInv, Catalog!CreatedIsKept
  <2> QED
    BY <2>1, <2>6, <2>a, <2>b, <2>c, <2>e, <2>f DEF CatalogIInv
<1> QED
  BY <1>1, <1>2

\* Writing the agent definitions in place: emptied, then filled.
LEMMA AgentsOpened ==
    ASSUME CatalogIInv, NEW p \in Carriers, Catalog!OpenAgents(p)
    PROVE  CatalogIInv'
<1> DEFINE new == [change[p] EXCEPT !.step = "fillAgents"]
<1>0. change[p] \in CatalogVerbs /\ change[p].step = "openAgents"
  BY DEF CatalogIInv, CatalogTypeOK, Catalog!OpenAgents
<1>1. change[p] \in AgentVerbs
  BY <1>0 DEF CatalogVerbs, OpenVerbs, FillVerbs, RenameVerbs, AgreedVerbs, Catalog!Idle
<1>2. /\ new \in CatalogVerbs /\ new.step = "fillAgents"
      /\ new.content = change[p].content /\ new.made = change[p].made
  BY <1>1 DEF AgentVerbs, CatalogVerbs
<1>3. /\ change' = [change EXCEPT ![p] = new] /\ agents' = Catalog!Torn
      /\ UNCHANGED <<alone, store, staged, granted, added, created>>
  BY DEF Catalog!OpenAgents
<1> HIDE DEF new
<1>4. change[p] # Catalog!Idle
  BY <1>0 DEF Catalog!Idle
<1>5. /\ change' \in [Carriers -> CatalogVerbs]
      /\ change'[p] = new
      /\ \A q \in Carriers \ {p} : change'[q] = change[q]
      /\ alone => \A q \in Carriers \ {p} : change[q].step = "idle"
      /\ OneCarries'
  BY <1>2, <1>3, <1>4, VerbMoves
<1>a. CatalogTypeOK'
  BY <1>3, <1>5 DEF CatalogIInv, CatalogTypeOK, Catalog!Files
<1>b. GrantedEverywhere'
  BY <1>2, <1>3, <1>5 DEF CatalogIInv, GrantedEverywhere, GrantedIn
<1>c. Registering'
  BY <1>2, <1>3, <1>5 DEF CatalogIInv, Registering, KeptIn
<1>d. Creating'
  <2>1. alone => \A n \in created \cup change[p].made : change[p].content[n] \in Catalog!Own
    BY <1>0 DEF CatalogIInv, Creating
  <2> QED
    BY <1>2, <1>3, <1>5, <2>1 DEF Creating
<1>e. Catalog!RegisteredIsKept'
  BY <1>3 DEF CatalogIInv, Catalog!RegisteredIsKept
<1>f. Catalog!CreatedIsKept'
  BY <1>2, <1>5 DEF Catalog!CreatedIsKept
<1> QED
  BY <1>3, <1>5, <1>a, <1>b, <1>c, <1>d, <1>e, <1>f DEF CatalogIInv

\* ... and the file is whole again, with what the verb had in hand.
LEMMA AgentsFilled ==
    ASSUME CatalogIInv, NEW p \in Carriers, Catalog!FillAgents(p)
    PROVE  CatalogIInv'
<1> DEFINE content == change[p].content
<1>0. change[p] \in CatalogVerbs /\ change[p].step = "fillAgents"
  BY DEF CatalogIInv, CatalogTypeOK, Catalog!FillAgents
<1>1. change[p] \in AgentVerbs
  BY <1>0 DEF CatalogVerbs, OpenVerbs, FillVerbs, RenameVerbs, AgreedVerbs, Catalog!Idle
<1>2. content \in Overlays /\ change[p].made \subseteq Catalog!Names
  BY <1>1 DEF AgentVerbs
<1>3. /\ change' = [change EXCEPT ![p] = Catalog!Idle]
      /\ agents' \in Catalog!Filled(agents, content)
      /\ created' = created \cup change[p].made
      /\ UNCHANGED <<alone, store, staged, granted, added>>
  BY DEF Catalog!FillAgents
<1>4. change[p] # Catalog!Idle /\ Catalog!Idle \in CatalogVerbs /\ Catalog!Idle.step = "idle"
  BY <1>0 DEF Catalog!Idle, CatalogVerbs
<1>5. /\ change' \in [Carriers -> CatalogVerbs]
      /\ change'[p] = Catalog!Idle
      /\ \A q \in Carriers \ {p} : change'[q] = change[q]
      /\ alone => \A q \in Carriers \ {p} : change[q].step = "idle"
      /\ OneCarries'
  BY <1>3, <1>4, VerbMoves
<1>6. alone => agents' = Catalog!Whole(content)
  <2>1. alone => agents = Catalog!Torn
    BY <1>0 DEF CatalogIInv, Creating
  <2> QED
    BY <1>3, <2>1 DEF Catalog!Filled, Catalog!Torn
<1>7. alone => \A n \in created \cup change[p].made : content[n] \in Catalog!Own
  BY <1>0 DEF CatalogIInv, Creating
<1>8. Catalog!Whole(content).is = "whole" /\ Catalog!Whole(content).content = content
  BY DEF Catalog!Whole
<1> HIDE DEF content
<1>9. ASSUME NEW n \in Catalog!Names, content[n] \in Catalog!Own
      PROVE  Catalog!Definitions(Catalog!Whole(content))[n] \in Catalog!Own
  BY <1>9, <1>8 DEF Catalog!Definitions, Catalog!Own
<1>a. CatalogTypeOK'
  BY <1>2, <1>3, <1>5 DEF CatalogIInv, CatalogTypeOK, Catalog!Files, Catalog!Filled
<1>b. GrantedEverywhere'
  BY <1>3, <1>4, <1>5 DEF CatalogIInv, GrantedEverywhere, GrantedIn
<1>c. Registering'
  BY <1>3, <1>4, <1>5 DEF CatalogIInv, Registering, KeptIn
<1>d. Creating'
  BY <1>3, <1>4, <1>5 DEF CatalogIInv, Creating
<1>e. Catalog!RegisteredIsKept'
  BY <1>3 DEF CatalogIInv, Catalog!RegisteredIsKept
<1>f. Catalog!CreatedIsKept'
  <2>1. created \cup change[p].made \subseteq Catalog!Names
    BY <1>2 DEF CatalogIInv
  <2> QED
    BY <1>3, <1>6, <1>7, <1>9, <2>1 DEF Catalog!CreatedIsKept
<1> QED
  BY <1>2, <1>3, <1>5, <1>a, <1>b, <1>c, <1>d, <1>e, <1>f DEF CatalogIInv

\* Every step of a verb, and every death, keeps the invariant.
LEMMA CatalogNext ==
    ASSUME CatalogIInv, [Catalog!Next]_catalogVars
    PROVE  CatalogIInv'
<1>1. ASSUME NEW p \in Carriers, NEW e \in Exts, NEW version \in Versions,
             Catalog!Add(p, e, version)
      PROVE  CatalogIInv'
  BY <1>1, VerbLoads DEF Catalog!Add, Catalog!May, Catalog!Registered, Catalog!ExtStates, Reasons
<1>2. ASSUME NEW p \in Carriers, NEW e \in Exts, Catalog!Disclose(p, e) PROVE CatalogIInv'
  <2>1. [step |-> "agreed", ext |-> e] \in {Catalog!Idle} \cup AgreedVerbs
    BY DEF AgreedVerbs
  <2>2. created' = IF change[p].step = "fillAgents" THEN {} ELSE created
    BY <1>2 DEF Catalog!Disclose, Catalog!May, Catalog!Idle, CatalogIInv, CatalogTypeOK
  <2> QED
    BY <1>2, <2>1, <2>2, VerbOnly DEF Catalog!Disclose, Catalog!May
<1>3. ASSUME NEW p \in Carriers, NEW e \in Exts, Catalog!Deactivate(p, e) PROVE CatalogIInv'
  <2> DEFINE registry == Catalog!Extensions(store)
  <2>1. /\ registry \in Catalog!Registries /\ registry[e] # Catalog!NoEntry
        /\ "inactive" \in Catalog!ExtStates
    BY <1>3, ExtensionsLoaded
    DEF Catalog!Deactivate, Catalog!CanDeactivate, Catalog!NoEntry, Catalog!ExtStates
  <2>2. /\ registry[e].version \in Versions
        /\ [registry EXCEPT ![e].state = "inactive"] =
              [registry EXCEPT ![e] = Catalog!Entry(registry[e].version, "inactive")]
    <3>1. registry[e] \in [state : Catalog!ExtStates, version : Versions]
      BY <2>1, RegistryEntries
    <3>2. [registry[e] EXCEPT !.state = "inactive"] = Catalog!Entry(registry[e].version, "inactive")
      BY <3>1 DEF Catalog!Entry
    <3> HIDE DEF registry
    <3> QED
      BY <3>1, <3>2
  <2>3. /\ change' = [change EXCEPT ![p] = Catalog!Saving(
                        [Catalog!Extensions(store) EXCEPT
                            ![e] = Catalog!Entry(registry[e].version, "inactive")], e,
                                "deactivate")]
        /\ Catalog!Loadable(store)
        /\ alone => \A q \in Carriers : change[q] = Catalog!Idle
        /\ UNCHANGED <<alone, store, staged, agents, granted, added, created>>
    BY <1>3, <2>2 DEF Catalog!Deactivate, Catalog!May
  <2>4. /\ "deactivate" \in Reasons /\ granted \subseteq granted'
        /\ "inactive" = "active" => <<e, registry[e].version>> \in granted'
    BY <2>3 DEF Reasons
  <2> HIDE DEF registry
  <2> QED
    BY <2>1, <2>2, <2>3, <2>4, VerbLoads
<1>4. ASSUME NEW p \in Carriers, NEW n \in Catalog!Names, Catalog!Create(p, n) PROVE CatalogIInv'
  BY <1>4, VerbWrites DEF Catalog!Create, Catalog!Own
<1>5. ASSUME NEW p \in Carriers, NEW n \in Catalog!Names, NEW enabled \in BOOLEAN,
             Catalog!SetEnabled(p, n, enabled)
      PROVE  CatalogIInv'
  <2> DEFINE def == Catalog!Definitions(agents)[n]
             to == Catalog!Switched(def, enabled)
  <2>1. {} \in SUBSET {n}
    OBVIOUS
  <2>2. /\ to \in Catalog!Shipped \cup Catalog!Own
        /\ def \in Catalog!Own => to \in Catalog!Own
    BY DEF Catalog!Switched, Catalog!Shipped, Catalog!Own
  <2> QED
    BY <1>5, <2>1, <2>2, VerbWrites DEF Catalog!SetEnabled
<1>6. ASSUME NEW p \in Carriers, Catalog!Activate(p) PROVE CatalogIInv'
  <2> DEFINE e == change[p].ext
             registry == Catalog!Extensions(store)
  <2>0. change[p].step = "agreed" /\ change[p] \in CatalogVerbs /\ change[p] # Catalog!Idle
    BY <1>6 DEF Catalog!Activate, CatalogIInv, CatalogTypeOK, Catalog!Idle
  <2>1. e \in Exts
    BY <2>0 DEF CatalogVerbs, OpenVerbs, FillVerbs, RenameVerbs, AgreedVerbs, AgentVerbs,
        Catalog!Idle
  <2>2. CASE Catalog!Loadable(store) /\ Catalog!CanActivate(registry, e)
    <3>1. /\ registry \in Catalog!Registries /\ registry[e] # Catalog!NoEntry
          /\ "active" \in Catalog!ExtStates
      BY <2>2, ExtensionsLoaded DEF Catalog!CanActivate, Catalog!NoEntry, Catalog!ExtStates
    <3>2. /\ registry[e].version \in Versions
          /\ [registry EXCEPT ![e].state = "active"] =
                [registry EXCEPT ![e] = Catalog!Entry(registry[e].version, "active")]
      <4>1. registry[e] \in [state : Catalog!ExtStates, version : Versions]
        BY <2>1, <3>1, RegistryEntries
      <4>2. [registry[e] EXCEPT !.state = "active"] = Catalog!Entry(registry[e].version, "active")
        BY <4>1 DEF Catalog!Entry
      <4> HIDE DEF registry, e
      <4> QED
        BY <4>1, <4>2
    <3>3. /\ change' = [change EXCEPT ![p] = Catalog!Saving(
                          [Catalog!Extensions(store) EXCEPT
                              ![e] = Catalog!Entry(registry[e].version, "active")], e, "activate")]
          /\ granted' = granted \cup {<<e, registry[e].version>>}
          /\ UNCHANGED <<alone, store, staged, agents, added, created>>
      BY <1>6, <2>2, <3>2 DEF Catalog!Activate
    <3>4. /\ "activate" \in Reasons /\ granted \subseteq granted'
          /\ <<e, registry[e].version>> \in granted'
      BY <3>3 DEF Reasons
    <3> HIDE DEF registry, e
    <3> QED
      BY <2>0, <2>1, <2>2, <3>1, <3>2, <3>3, <3>4, VerbLoads
  <2>3. CASE ~(Catalog!Loadable(store) /\ Catalog!CanActivate(registry, e))
    <3>1. /\ change' = [change EXCEPT ![p] = Catalog!Idle]
          /\ UNCHANGED <<alone, store, staged, agents, granted, added>>
          /\ created' = IF change[p].step = "fillAgents" THEN {} ELSE created
      BY <1>6, <2>0, <2>3 DEF Catalog!Activate, CatalogIInv, CatalogTypeOK
    <3> QED
      BY <2>0, <3>1, VerbOnly
  <2> QED
    BY <2>2, <2>3
<1>7. ASSUME NEW p \in Carriers, Catalog!Die(p) PROVE CatalogIInv'
  BY <1>7, VerbOnly DEF Catalog!Die
<1>8. CASE UNCHANGED catalogVars
  BY <1>8 DEF catalogVars, CatalogIInv, CatalogTypeOK, GrantedEverywhere, GrantedIn, OneCarries,
     Registering, KeptIn, Creating, Catalog!RegisteredIsKept, Catalog!CreatedIsKept
<1> QED
  BY <1>1, <1>2, <1>3, <1>4, <1>5, <1>6, <1>7, <1>8, StagedOpened, StagedFilled, StagedRenamed,
     AgentsOpened, AgentsFilled
  DEF Catalog!Next

\* What the invariant says of the catalogs.
LEMMA CatalogHolds == CatalogIInv => Catalog!CatalogsHold
<1> SUFFICES ASSUME CatalogIInv PROVE Catalog!CatalogsHold
  OBVIOUS
<1>1. Catalog!GrantsAreOfTheManifest
  <2>1. GrantedIn(Catalog!Extensions(store))
    BY DEF CatalogIInv, GrantedEverywhere, GrantedIn, Catalog!Extensions, Catalog!NoExtensions,
       Catalog!NoEntry
  <2> QED
    BY <2>1 DEF Catalog!GrantsAreOfTheManifest, GrantedIn
<1> QED
  BY <1>1 DEF CatalogIInv, Catalog!CatalogsHold

-----------------------------------------------------------------------------
(* Activation.                                                              *)

ActivationSteps ==
    {"idle", "may", "look", "remove", "removeSystem", "absent", "register", "write",
     "writeSystem", "enableUnit", "linger", "verify"}

ActivationTypeOK ==
    /\ host \in {"systemd", "logind", "bare"} /\ linger \in BOOLEAN
    /\ login \in Activating!Entries /\ system \in Activating!Entries
    /\ transition \in Activating!Verbs
    /\ step \in ActivationSteps

\* Units are enabled where systemd is, and users linger where logind is.
SystemdKeepsUnits ==
    /\ host # "systemd" => system # "enabled"
    /\ host = "bare" => ~linger

\* What the steps done so far have made of what is registered.
DoneSoFar ==
    /\ step \in {"removeSystem", "absent"} => login = "none"
    /\ step = "absent" => system = "none"
    /\ step \in {"look", "register", "write", "writeSystem", "enableUnit", "linger", "verify"} =>
          transition.do = "enable"
    /\ step = "linger" => login = "enabled" /\ transition.mode = "system"
    /\ step = "verify" /\ transition.mode = "login" => login = "enabled"
    /\ step = "verify" /\ transition.mode = "system" =>
          system = "enabled" \/ (login = "enabled" /\ linger)

\* The login mode is registered beside a system unit only by a verb that could not look.
NothingWider ==
    /\ step \in {"register", "write", "enableUnit", "verify"} /\ transition.mode = "login" =>
          system = "none" \/ trouble # {}
    /\ step \in {"writeSystem", "linger"} => transition.mode = "system"

ActivationIInv ==
    /\ ActivationTypeOK
    /\ SystemdKeepsUnits
    /\ DoneSoFar
    /\ NothingWider
    /\ step # "idle" => answer = "none"
    /\ Activating!ActivationAnswersHold

\* What the verbs are.
LEMMA ActivationVerbs ==
    ASSUME NEW v \in Activating!Verbs
    PROVE  /\ v.do \in {"enable", "disable"} /\ v.by \in {"cli", "surface"}
           /\ v.do = "enable" => v.mode \in {"login", "system"}
           /\ v.do = "disable" => v.mode = "none"
BY DEF Activating!Verbs, Activating!Enable, Activating!Disable, Activating!Modes

\* What an observation shows of what is registered.
LEMMA WhatIsSeen ==
    ASSUME ActivationIInv, NEW seen \in Activating!Looks
    PROVE  /\ seen = Activating!Unknown => Activating!Noted(seen) # {}
           /\ Activating!Noted(seen) = {} => trouble = {}
           /\ seen = Activating!Inactive => host # "bare" /\ login = "none" /\ system = "none"
           /\ Activating!IsOf(seen, "system") <=>
                 /\ seen # Activating!Unknown
                 /\ \/ host = "systemd" /\ system # "none"
                    \/ host # "bare" /\ system = "none" /\ login # "none" /\ linger
           /\ Activating!IsOf(seen, "login") <=>
                 /\ seen # Activating!Unknown
                 /\ system = "none" /\ host # "bare" /\ login # "none" /\ ~linger
           /\ Activating!IsOfAnother(seen, "login") <=> Activating!IsOf(seen, "system")
           /\ Activating!IsOfAnother(seen, "system") <=> Activating!IsOf(seen, "login")
           /\ seen \in {Activating!Unknown, Activating!Inactive}
                 \/ Activating!IsOf(seen, "login") \/ Activating!IsOf(seen, "system")
           /\ seen.is = "active" /\ system # "none" => system = "enabled"
           /\ seen.is = "active" /\ system = "none" /\ ~linger => login = "enabled"
<1>1. seen \in {Activating!Observed, Activating!Unknown}
  BY DEF Activating!Looks
<1>2. CASE seen = Activating!Unknown
  BY <1>2 DEF Activating!Noted, Activating!Unknown, Activating!Inactive, Activating!IsOf,
     Activating!IsOfAnother
<1>3. CASE seen = Activating!Observed
  BY <1>3 DEF ActivationIInv, ActivationTypeOK, SystemdKeepsUnits, Activating!Entries,
     Activating!Systemd, Activating!Logind,
     Activating!Observed, Activating!ModeState, Activating!Noted, Activating!Unknown,
     Activating!Inactive, Activating!Active, Activating!RequiresApproval, Activating!IsOf,
     Activating!IsOfAnother
<1> QED
  BY <1>1, <1>2, <1>3

\* Before the first verb nothing is registered and nothing answered.
LEMMA ActivationInit ==
    PartsAssumption /\ Activating!Init => ActivationIInv
BY DEF PartsAssumption, Activating!ActivationAssumption, Activating!Init, ActivationIInv,
   ActivationTypeOK, SystemdKeepsUnits, DoneSoFar, NothingWider, ActivationSteps,
   Activating!Entries, Activating!Verbs, Activating!Disable, Activating!Enable,
   Activating!ActivationAnswersHold, Activating!SuccessIsReal, Activating!FailuresAreOfToday,
   Activating!Logind

\* Every step of a transition keeps the invariant.
LEMMA ActivationNext ==
    ASSUME ActivationIInv, [Activating!Next]_activationVars
    PROVE  ActivationIInv'
<1> DEFINE v == transition
<1>1. /\ v \in Activating!Verbs
      /\ v.do \in {"enable", "disable"} /\ v.by \in {"cli", "surface"}
      /\ v.do = "enable" => v.mode \in {"login", "system"}
      /\ v.do = "disable" => v.mode = "none"
  BY ActivationVerbs DEF ActivationIInv, ActivationTypeOK
<1> HIDE DEF v
<1> USE DEF ActivationIInv, ActivationTypeOK, SystemdKeepsUnits, DoneSoFar, NothingWider,
        ActivationSteps, Activating!Entries, Activating!registered, Activating!To,
        Activating!Ends, Activating!ActivationAnswersHold, Activating!SuccessIsReal,
        Activating!FailuresAreOfToday, Activating!StartsAtLogin, Activating!StartsAtBoot,
        Activating!Systemd, Activating!Logind
<1>a. ASSUME NEW w \in Activating!Verbs, Activating!Ask(w) PROVE ActivationIInv'
  BY <1>a, ActivationVerbs DEF Activating!Ask
<1>b. ASSUME Activating!MayDisable PROVE ActivationIInv'
  BY <1>b DEF Activating!MayDisable
<1>c. ASSUME Activating!Look PROVE ActivationIInv'
  <2>1. PICK seen \in Activating!Looks :
           /\ trouble' = Activating!Noted(seen)
           /\ Activating!To(IF Activating!IsOfAnother(seen, transition.mode)
                            THEN "remove" ELSE "register")
    BY <1>c DEF Activating!Look
  <2> QED
    BY <1>c, <1>1, <2>1, WhatIsSeen DEF Activating!Look, v
<1>d. ASSUME Activating!RemoveLogin PROVE ActivationIInv'
  BY <1>d DEF Activating!RemoveLogin
<1>e. ASSUME Activating!RemoveSystem PROVE ActivationIInv'
  BY <1>e DEF Activating!RemoveSystem
<1>f. ASSUME Activating!SeeAbsent PROVE ActivationIInv'
  <2>1. PICK seen \in Activating!Looks :
           /\ trouble' = Activating!Noted(seen)
           /\ IF seen # Activating!Inactive THEN Activating!Ends("failed")
              ELSE IF transition.do = "disable" THEN Activating!Ends("deactivated")
              ELSE Activating!To("register")
    BY <1>f DEF Activating!SeeAbsent
  <2> QED
    BY <1>f, <1>1, <2>1, WhatIsSeen DEF Activating!SeeAbsent, v
<1>g. ASSUME Activating!Register PROVE ActivationIInv'
  BY <1>g, <1>1 DEF Activating!Register, v
<1>h. ASSUME Activating!WriteSystemUnit PROVE ActivationIInv'
  BY <1>h DEF Activating!WriteSystemUnit, Activating!Written
<1>i. ASSUME Activating!WriteLogin PROVE ActivationIInv'
  BY <1>i, <1>1 DEF Activating!WriteLogin, Activating!Written, Activating!AfterLogin, v
<1>j. ASSUME Activating!EnableUnit PROVE ActivationIInv'
  BY <1>j, <1>1 DEF Activating!EnableUnit, Activating!AfterLogin, v
<1>k. ASSUME Activating!EnableLinger PROVE ActivationIInv'
  <2>1. /\ step = "linger"
        /\ UNCHANGED <<host, login, system, transition, before>>
        /\ \/ host # "bare" /\ linger' = TRUE /\ step' = "verify" /\ answer' = "none"
              /\ trouble' = trouble
           \/ /\ step' = "idle" /\ answer' = "failed" /\ linger' = linger
              /\ trouble' = trouble \cup {"elevation"}
    BY <1>k DEF Activating!EnableLinger
  <2>2. CASE /\ host # "bare" /\ linger' = TRUE /\ step' = "verify" /\ answer' = "none"
             /\ trouble' = trouble
    <3>1. linger'
      BY <2>2
    <3> QED
      BY <2>1, <2>2, <3>1
  <2>3. CASE /\ step' = "idle" /\ answer' = "failed" /\ linger' = linger
             /\ trouble' = trouble \cup {"elevation"}
    BY <2>1, <2>3
  <2> QED
    BY <2>1, <2>2, <2>3
<1>l. ASSUME Activating!Verify PROVE ActivationIInv'
  <2>1. PICK seen \in Activating!Looks :
           trouble' = Activating!Noted(seen) /\ Activating!Ends(Activating!Verified(seen))
    BY <1>l DEF Activating!Verify
  <2> QED
    BY <1>l, <1>1, <2>1, WhatIsSeen DEF Activating!Verify, Activating!Verified, v
<1>m. ASSUME Activating!Stop PROVE ActivationIInv'
  BY <1>m DEF Activating!Stop
<1>n. ASSUME UNCHANGED activationVars PROVE ActivationIInv'
  BY <1>n DEF activationVars
<1> QED
  BY <1>a, <1>b, <1>c, <1>d, <1>e, <1>f, <1>g, <1>h, <1>i, <1>j, <1>k, <1>l, <1>m, <1>n
  DEF Activating!Next

-----------------------------------------------------------------------------
(* Backups.                                                                 *)

CreateSteps == {"idle", "copy", "clear", "again", "made", "failed"}

BackupTypeOK ==
    /\ second \in Backups!Seconds
    /\ create \in [Creators -> [step : CreateSteps, second : 0..MaxSeconds, left : SUBSET TierFiles]]
    /\ DOMAIN live = TierFiles
    /\ DOMAIN staging = Backups!Seconds /\ DOMAIN listed = Backups!Seconds
    /\ DOMAIN since = Backups!Seconds
    /\ \A t \in Backups!Seconds : DOMAIN since[t] = TierFiles
    /\ \/ restore = Backups!NoRestore
       \/ restore \in [step : {"copy", "done"}, second : Backups!Seconds, left : SUBSET TierFiles,
                       touched : SUBSET TierFiles]
    /\ \A t \in Backups!Seconds :
          listed[t] # Backups!NoDir => DOMAIN listed[t].has \subseteq TierFiles
    /\ \A t \in Backups!Seconds :
          staging[t] # Backups!NoDir => DOMAIN staging[t].has \subseteq TierFiles

\* Who has begun has begun in some second, and a second in which nobody has is untouched.
CreatorsBegan == \A c \in Creators : create[c].step = "idle" <=> create[c].second = 0
Untouched(t) ==
    Backups!BegunIn(t) = {} =>
        staging[t] = Backups!NoDir /\ listed[t] = Backups!NoDir /\ t \notin answered

\* From the beginning of a backup on, what a file is, is noted as what it has been since.
LiveIsNoted(t) ==
    Backups!BegunIn(t) # {} => \A f \in TierFiles : live[f] \in since[t][f]

\* A call that has its second to itself: the files it has copied are staged, and only what
\* it has made is listed.
AloneInItsSecond(c) ==
    LET t == create[c].second
    IN  create[c].step # "idle" /\ Backups!OneBegan(t) =>
        /\ create[c].step \in {"copy", "made", "failed"}
        /\ create[c].step = "copy" =>
              /\ staging[t] # Backups!NoDir
              /\ DOMAIN staging[t].has = TierFiles \ create[c].left
              /\ \A f \in TierFiles \ create[c].left : staging[t].has[f] \in since[t][f]
        /\ create[c].step # "made" => listed[t] = Backups!NoDir /\ t \notin answered
        /\ create[c].step = "made" => listed[t] # Backups!NoDir /\ Backups!IsWhole(t)

\* A restore of what such a call made: the files it has copied back are as they were listed,
\* but for those written meanwhile.
RestoreFollows ==
    restore # Backups!NoRestore =>
        /\ restore.step = "done" => restore.left = {}
        /\ Backups!OneBegan(restore.second) =>
              /\ listed[restore.second] # Backups!NoDir
              /\ \A f \in TierFiles \ (restore.left \cup restore.touched) :
                    live[f] = listed[restore.second].has[f]

BackupIInv ==
    /\ BackupTypeOK
    /\ CreatorsBegan
    /\ \A t \in Backups!Seconds : Untouched(t) /\ LiveIsNoted(t)
    /\ \A c \in Creators : AloneInItsSecond(c)
    /\ RestoreFollows

\* Nothing has begun.
LEMMA BackupInit == Backups!Init => BackupIInv
<1> SUFFICES ASSUME Backups!Init PROVE BackupIInv
    OBVIOUS
<1> USE PartsAssumption DEF Backups!Init, Backups!BackupAssumption, Backups!Seconds
<1>1. MaxSeconds \in Nat \ {0}
    OBVIOUS
<1>2. \A c \in Creators : create[c].step = "idle" /\ create[c].second = 0
    BY DEF Backups!At
<1>3. create \in [Creators -> [step : CreateSteps, second : 0..MaxSeconds, left : SUBSET TierFiles]]
    BY <1>1 DEF Backups!At, CreateSteps
<1>4. BackupTypeOK
    BY <1>1, <1>3 DEF BackupTypeOK
<1>5. CreatorsBegan
    BY <1>2 DEF CreatorsBegan
<1>6. \A t \in Backups!Seconds : Backups!BegunIn(t) = {}
    BY <1>1, <1>2 DEF Backups!BegunIn
<1>7. \A t \in Backups!Seconds : Untouched(t) /\ LiveIsNoted(t)
    BY <1>6 DEF Untouched, LiveIsNoted
<1>8. \A c \in Creators : AloneInItsSecond(c)
    BY <1>2 DEF AloneInItsSecond
<1>9. RestoreFollows
    BY DEF RestoreFollows
<1> QED BY <1>4, <1>5, <1>7, <1>8, <1>9 DEF BackupIInv

\* What a call does within its second: everything that is said of other seconds stays, and
\* what it has not made yet nobody restores.
LEMMA BackupOwnStep ==
    ASSUME BackupIInv, BackupTypeOK', NEW c \in Creators,
           create[c].step \notin {"idle", "made"}, create'[c].step # "idle",
           create'[c].second = create[c].second,
           \A d \in Creators \ {c} : create'[d] = create[d],
           \A u \in Backups!Seconds \ {create[c].second} :
               /\ staging'[u] = staging[u] /\ listed'[u] = listed[u]
               /\ u \in answered' <=> u \in answered,
           UNCHANGED <<second, live, since, restore>>,
           AloneInItsSecond(c)'
    PROVE  BackupIInv'
<1> DEFINE t == create[c].second
<1>1. t \in Backups!Seconds /\ c \in Backups!BegunIn(t) /\ t # 0
    BY PartsAssumption
    DEF BackupIInv, BackupTypeOK, CreatorsBegan, Backups!BegunIn, Backups!Seconds,
        Backups!BackupAssumption
<1>2. \A u : Backups!BegunIn(u)' = Backups!BegunIn(u)
    BY DEF Backups!BegunIn
<1>3. \A u : Backups!OneBegan(u)' <=> Backups!OneBegan(u)
    BY <1>2 DEF Backups!OneBegan
<1> HIDE DEF t
<1>4. CreatorsBegan'
    BY <1>1 DEF BackupIInv, CreatorsBegan, t
<1>5. ASSUME NEW u \in Backups!Seconds PROVE Untouched(u)' /\ LiveIsNoted(u)'
    <2>1. Untouched(u) /\ LiveIsNoted(u)
        BY DEF BackupIInv
    <2>2. LiveIsNoted(u)'
        BY <1>2, <2>1 DEF LiveIsNoted
    <2>3. Untouched(u)'
        BY <1>1, <1>2, <2>1 DEF Untouched, t
    <2> QED BY <2>2, <2>3
<1>6. ASSUME NEW d \in Creators PROVE AloneInItsSecond(d)'
    <2>1. CASE d = c
        BY <2>1
    <2>2. CASE d # c /\ create[d].second = t
        <3>1. ~Backups!OneBegan(t)
            BY <1>1, <2>2 DEF Backups!OneBegan, Backups!BegunIn
        <3> QED BY <1>3, <2>2, <3>1 DEF AloneInItsSecond
    <2>3. CASE d # c /\ create[d].second # t
        <3> DEFINE u == create[d].second
        <3>1. AloneInItsSecond(d) /\ create'[d] = create[d]
            BY <2>3 DEF BackupIInv
        <3>2. create[d].step # "idle" => u \in Backups!Seconds \ {t}
            BY <2>3, PartsAssumption
            DEF BackupIInv, BackupTypeOK, CreatorsBegan, Backups!Seconds, Backups!BackupAssumption
        <3>3. create[d].step # "idle" =>
                 staging'[u] = staging[u] /\ listed'[u] = listed[u]
                     /\ (u \in answered' <=> u \in answered)
            BY <3>2 DEF t
        <3> QED BY <1>3, <3>1, <3>3 DEF AloneInItsSecond, Backups!IsWhole
    <2> QED BY <2>1, <2>2, <2>3
<1>7. RestoreFollows'
    <2> SUFFICES ASSUME restore # Backups!NoRestore
                 PROVE  RestoreFollows'
        BY DEF RestoreFollows
    <2>1. RestoreFollows /\ restore.second \in Backups!Seconds
        BY DEF BackupIInv, BackupTypeOK
    <2>2. CASE restore.second # t
        BY <1>3, <2>1, <2>2 DEF RestoreFollows, t
    <2>3. CASE restore.second = t
        <3>1. Backups!OneBegan(t) => listed[t] = Backups!NoDir
            BY DEF BackupIInv, AloneInItsSecond, t
        <3> QED BY <1>3, <2>1, <2>3, <3>1 DEF RestoreFollows
    <2> QED BY <2>2, <2>3
<1> QED BY <1>4, <1>5, <1>6, <1>7 DEF BackupIInv

\* Directories.
LEMMA BackupDirs ==
    /\ \A has : Backups!Dir(has).has = has /\ Backups!Dir(has) # Backups!NoDir
    /\ Backups!EmptyDir # Backups!NoDir /\ DOMAIN Backups!EmptyDir.has = {}
<1>1. \A has : Backups!Dir(has).has = has
    BY DEF Backups!Dir
<1>2. \A has : Backups!Dir(has).is # Backups!NoDir.is
    BY DEF Backups!Dir, Backups!NoDir
<1> QED BY <1>1, <1>2 DEF Backups!EmptyDir

\* A call goes on to another of its steps.
LEMMA BackupStepOn ==
    ASSUME BackupIInv, NEW c \in Creators, create[c].step # "idle",
           NEW s \in CreateSteps, Backups!Step(c, s)
    PROVE  /\ create' \in [Creators -> [step : CreateSteps, second : 0..MaxSeconds,
              left : SUBSET TierFiles]]
           /\ create'[c].step = s /\ create'[c].second = create[c].second
           /\ create'[c].left = create[c].left
           /\ \A d \in Creators \ {c} : create'[d] = create[d]
           /\ create[c].second \in Backups!Seconds
<1>1. create \in [Creators -> [step : CreateSteps, second : 0..MaxSeconds, left : SUBSET TierFiles]]
    BY DEF BackupIInv, BackupTypeOK
<1>2. create' = [create EXCEPT ![c].step = s]
    BY DEF Backups!Step
<1>3. create[c].second \in Backups!Seconds
    BY <1>1, PartsAssumption DEF BackupIInv, CreatorsBegan, Backups!Seconds,
        Backups!BackupAssumption
<1> QED BY <1>1, <1>2, <1>3

\* A file is copied into the staging directory.
LEMMA BackupCopyFileStep ==
    ASSUME BackupIInv, NEW c \in Creators, NEW f \in TierFiles, Backups!CopyFile(c, f)
    PROVE  BackupIInv'
<1> DEFINE t == create[c].second
           more == [g \in DOMAIN staging[t].has \union {f} |->
                        IF g = f THEN live[f] ELSE staging[t].has[g]]
<1>1. /\ create[c].step = "copy" /\ f \in create[c].left /\ staging[t] # Backups!NoDir
      /\ staging' = [staging EXCEPT ![t] = Backups!Dir(more)]
      /\ create' = [create EXCEPT ![c].left = @ \ {f}]
      /\ UNCHANGED <<second, live, listed, since, answered, restore>>
    BY DEF Backups!CopyFile, Backups!With
<1>2. create \in [Creators -> [step : CreateSteps, second : 0..MaxSeconds, left : SUBSET TierFiles]]
    BY DEF BackupIInv, BackupTypeOK
<1>3. t \in Backups!Seconds /\ c \in Backups!BegunIn(t)
    BY <1>1, <1>2, PartsAssumption
    DEF BackupIInv, CreatorsBegan, Backups!Seconds, Backups!BackupAssumption, Backups!BegunIn
<1>4. /\ create' \in [Creators -> [step : CreateSteps, second : 0..MaxSeconds, left : SUBSET TierFiles]]
      /\ create'[c].step = "copy" /\ create'[c].second = t /\ create'[c].left = create[c].left \ {f}
      /\ \A d \in Creators \ {c} : create'[d] = create[d]
    BY <1>1, <1>2
<1>5. DOMAIN staging = Backups!Seconds
    BY DEF BackupIInv, BackupTypeOK
<1>6. staging'[t] = Backups!Dir(more) /\ \A u \in Backups!Seconds \ {t} : staging'[u] = staging[u]
    BY <1>1, <1>3, <1>5
<1>7. DOMAIN more = DOMAIN staging[t].has \union {f}
    OBVIOUS
<1>8. /\ staging'[t].has = more /\ staging'[t] # Backups!NoDir
    BY <1>6, BackupDirs
<1>9. more[f] = live[f] /\ \A g \in DOMAIN staging[t].has : g # f => more[g] = staging[t].has[g]
    OBVIOUS
<1> HIDE DEF more, t
<1>10. BackupTypeOK'
    <2>1. DOMAIN staging[t].has \subseteq TierFiles
        BY <1>1, <1>3 DEF BackupIInv, BackupTypeOK
    <2>2. \A u \in Backups!Seconds :
             staging'[u] # Backups!NoDir => DOMAIN staging'[u].has \subseteq TierFiles
        BY <1>6, <1>7, <1>8, <2>1 DEF BackupIInv, BackupTypeOK
    <2>3. DOMAIN staging' = Backups!Seconds
        BY <1>1, <1>5
    <2> QED BY <1>1, <1>4, <2>2, <2>3 DEF BackupIInv, BackupTypeOK, Backups!Seconds
<1>11. AloneInItsSecond(c)'
    <2> SUFFICES ASSUME Backups!OneBegan(t)'
                 PROVE  /\ DOMAIN staging'[t].has = TierFiles \ create'[c].left
                        /\ \A g \in TierFiles \ create'[c].left : staging'[t].has[g] \in since'[t][g]
                        /\ listed'[t] = Backups!NoDir /\ t \notin answered'
        BY <1>4, <1>8 DEF AloneInItsSecond, t
    <2>1. Backups!OneBegan(t)
        BY <1>4 DEF Backups!OneBegan, Backups!BegunIn, t
    <2>2. /\ DOMAIN staging[t].has = TierFiles \ create[c].left
          /\ \A g \in TierFiles \ create[c].left : staging[t].has[g] \in since[t][g]
          /\ listed[t] = Backups!NoDir /\ t \notin answered
        BY <1>1, <2>1 DEF BackupIInv, AloneInItsSecond, t
    <2>3. live[f] \in since[t][f]
        BY <1>3 DEF BackupIInv, LiveIsNoted
    <2> QED BY <1>1, <1>4, <1>7, <1>8, <1>9, <2>2, <2>3
<1> QED BY <1>1, <1>4, <1>6, <1>10, <1>11, BackupOwnStep DEF t

\* The call fails, by an error or with its process.
LEMMA BackupFailStep ==
    ASSUME BackupIInv, NEW c \in Creators, Backups!CopyFails(c) \/ Backups!Die(c)
    PROVE  BackupIInv'
<1> DEFINE t == create[c].second
<1>1. /\ create[c].step \in {"copy", "clear", "again"} /\ Backups!Step(c, "failed")
      /\ staging' = [staging EXCEPT ![t] = Backups!NoDir] \/ staging' = staging
      /\ UNCHANGED <<second, live, listed, since, answered, restore>>
    BY DEF Backups!CopyFails, Backups!Die
<1>2. /\ create' \in [Creators -> [step : CreateSteps, second : 0..MaxSeconds, left : SUBSET TierFiles]]
      /\ create'[c].step = "failed" /\ create'[c].second = t
      /\ \A d \in Creators \ {c} : create'[d] = create[d]
      /\ t \in Backups!Seconds
    BY <1>1, BackupStepOn DEF CreateSteps
<1>3. DOMAIN staging = Backups!Seconds
    BY DEF BackupIInv, BackupTypeOK
<1>4. /\ staging'[t] \in {staging[t], Backups!NoDir}
      /\ \A u \in Backups!Seconds \ {t} : staging'[u] = staging[u]
      /\ DOMAIN staging' = Backups!Seconds
    BY <1>1, <1>2, <1>3
<1>5. BackupTypeOK'
    <2>1. \A u \in Backups!Seconds :
             staging'[u] # Backups!NoDir => DOMAIN staging'[u].has \subseteq TierFiles
        BY <1>4 DEF BackupIInv, BackupTypeOK
    <2> QED BY <1>1, <1>2, <1>4, <2>1 DEF BackupIInv, BackupTypeOK, Backups!Seconds
<1> HIDE DEF t
<1>6. AloneInItsSecond(c)'
    <2> SUFFICES ASSUME Backups!OneBegan(t)' PROVE listed'[t] = Backups!NoDir /\ t \notin answered'
        BY <1>2 DEF AloneInItsSecond, t
    <2>1. Backups!OneBegan(t)
        BY <1>2 DEF Backups!OneBegan, Backups!BegunIn, t
    <2> QED BY <1>1, <2>1 DEF BackupIInv, AloneInItsSecond, t
<1> QED BY <1>1, <1>2, <1>4, <1>5, <1>6, BackupOwnStep DEF t

\* The rename into place: a call that has its second to itself has staged every file.
LEMMA BackupRenameStep ==
    ASSUME BackupIInv, NEW c \in Creators, Backups!Rename(c) \/ Backups!RenameAgain(c)
    PROVE  BackupIInv'
<1> DEFINE t == create[c].second
<1>1. /\ create[c].step \in {"copy", "again"}
      /\ create[c].step = "copy" => create[c].left = {}
      /\ UNCHANGED <<second, live, since, restore>>
      /\ \/ Backups!CanRename(t) /\ Backups!Renamed(c)
         \/ /\ ~Backups!CanRename(t) /\ UNCHANGED <<staging, listed, answered>>
            /\ \E s \in {"clear", "failed"} :
                  /\ Backups!Step(c, s)
                  /\ s = "clear" => listed[t] # Backups!NoDir
    BY DEF Backups!Rename, Backups!RenameAgain, Backups!Copied
<1>2. t \in Backups!Seconds
    BY <1>1, PartsAssumption
    DEF BackupIInv, BackupTypeOK, CreatorsBegan, Backups!Seconds, Backups!BackupAssumption
<1>3. DOMAIN staging = Backups!Seconds /\ DOMAIN listed = Backups!Seconds
    BY DEF BackupIInv, BackupTypeOK
<1>4. CASE Backups!CanRename(t) /\ Backups!Renamed(c)
    <2>1. /\ listed' = [listed EXCEPT ![t] = staging[t]]
             /\ staging' = [staging EXCEPT ![t] = Backups!NoDir]
          /\ Backups!Step(c, "made") /\ answered' = answered \union {t}
             /\ staging[t] # Backups!NoDir
        BY <1>4 DEF Backups!Renamed, Backups!CanRename
    <2>2. /\ create' \in [Creators -> [step : CreateSteps, second : 0..MaxSeconds,
             left : SUBSET TierFiles]]
          /\ create'[c].step = "made" /\ create'[c].second = t
          /\ \A d \in Creators \ {c} : create'[d] = create[d]
        BY <1>1, <2>1, BackupStepOn DEF CreateSteps
    <2>3. /\ listed'[t] = staging[t] /\ staging'[t] = Backups!NoDir
          /\ \A u \in Backups!Seconds \ {t} :
                staging'[u] = staging[u] /\ listed'[u] = listed[u]
                    /\ (u \in answered' <=> u \in answered)
          /\ DOMAIN staging' = Backups!Seconds /\ DOMAIN listed' = Backups!Seconds
        BY <1>2, <1>3, <2>1
    <2> HIDE DEF t
    <2>4. BackupTypeOK'
        <3>1. \A u \in Backups!Seconds :
                /\ staging'[u] # Backups!NoDir => DOMAIN staging'[u].has \subseteq TierFiles
                /\ listed'[u] # Backups!NoDir => DOMAIN listed'[u].has \subseteq TierFiles
            BY <1>2, <2>3 DEF BackupIInv, BackupTypeOK
        <3> QED BY <1>1, <2>2, <2>3, <3>1 DEF BackupIInv, BackupTypeOK, Backups!Seconds
    <2>5. AloneInItsSecond(c)'
        <3> SUFFICES ASSUME Backups!OneBegan(t)'
                     PROVE  listed'[t] # Backups!NoDir /\ Backups!IsWhole(t)'
            BY <2>2 DEF AloneInItsSecond, Backups!IsWhole, t
        <3>1. Backups!OneBegan(t)
            BY <2>2 DEF Backups!OneBegan, Backups!BegunIn, t
        <3>2. /\ DOMAIN staging[t].has = TierFiles
              /\ \A f \in TierFiles : staging[t].has[f] \in since[t][f]
            BY <1>1, <3>1 DEF BackupIInv, AloneInItsSecond, t
        <3>3. t' = t
            BY <2>2 DEF t
        <3> QED BY <1>1, <2>1, <2>3, <3>2, <3>3 DEF Backups!IsWhole
    <2> QED BY <1>1, <2>2, <2>3, <2>4, <2>5, BackupOwnStep DEF t
<1>5. CASE ~Backups!CanRename(t) /\ UNCHANGED <<staging, listed, answered>>
           /\ \E s \in {"clear", "failed"} :
                 Backups!Step(c, s) /\ (s = "clear" => listed[t] # Backups!NoDir)
    <2>1. PICK s \in {"clear", "failed"} :
                Backups!Step(c, s) /\ (s = "clear" => listed[t] # Backups!NoDir)
        BY <1>5
    <2>2. /\ create' \in [Creators -> [step : CreateSteps, second : 0..MaxSeconds,
             left : SUBSET TierFiles]]
          /\ create'[c].step = s /\ create'[c].second = t
          /\ \A d \in Creators \ {c} : create'[d] = create[d]
        BY <1>1, <2>1, BackupStepOn DEF CreateSteps
    <2> HIDE DEF t
    <2>3. BackupTypeOK'
        BY <1>1, <1>5, <2>2 DEF BackupIInv, BackupTypeOK, Backups!Seconds
    <2>4. AloneInItsSecond(c)'
        <3> SUFFICES ASSUME Backups!OneBegan(t)'
                     PROVE  s = "failed" /\ listed'[t] = Backups!NoDir /\ t \notin answered'
            BY <2>2 DEF AloneInItsSecond, t
        <3>1. Backups!OneBegan(t)
            BY <2>2 DEF Backups!OneBegan, Backups!BegunIn, t
        <3>2. listed[t] = Backups!NoDir /\ t \notin answered
            BY <1>1, <3>1 DEF BackupIInv, AloneInItsSecond, t
        <3> QED BY <1>5, <2>1, <3>2
    <2> QED BY <1>1, <1>5, <2>2, <2>3, <2>4, BackupOwnStep DEF t
<1> QED BY <1>1, <1>4, <1>5

\* What is cleared away is another's of the same second.
LEMMA BackupClearStep ==
    ASSUME BackupIInv, NEW c \in Creators, Backups!Clear(c)
    PROVE  BackupIInv'
<1> DEFINE t == create[c].second
<1>1. /\ create[c].step = "clear" /\ Backups!Step(c, "again")
      /\ listed' = [listed EXCEPT ![t] = Backups!NoDir]
      /\ UNCHANGED <<second, live, staging, since, answered, restore>>
    BY DEF Backups!Clear
<1>2. /\ create' \in [Creators -> [step : CreateSteps, second : 0..MaxSeconds, left : SUBSET TierFiles]]
      /\ create'[c].step = "again" /\ create'[c].second = t
      /\ \A d \in Creators \ {c} : create'[d] = create[d]
      /\ t \in Backups!Seconds
    BY <1>1, BackupStepOn DEF CreateSteps
<1>3. DOMAIN listed = Backups!Seconds
    BY DEF BackupIInv, BackupTypeOK
<1>4. /\ listed'[t] = Backups!NoDir /\ DOMAIN listed' = Backups!Seconds
      /\ \A u \in Backups!Seconds \ {t} : listed'[u] = listed[u]
    BY <1>1, <1>2, <1>3
<1>5. BackupTypeOK'
    <2>1. \A u \in Backups!Seconds :
             listed'[u] # Backups!NoDir => DOMAIN listed'[u].has \subseteq TierFiles
        BY <1>4 DEF BackupIInv, BackupTypeOK
    <2> QED BY <1>1, <1>2, <1>4, <2>1 DEF BackupIInv, BackupTypeOK, Backups!Seconds
<1> HIDE DEF t
<1>6. AloneInItsSecond(c)'
    <2> SUFFICES ASSUME Backups!OneBegan(t)' PROVE FALSE
        BY <1>2 DEF AloneInItsSecond, t
    <2>1. Backups!OneBegan(t)
        BY <1>2 DEF Backups!OneBegan, Backups!BegunIn, t
    <2> QED BY <1>1, <2>1 DEF BackupIInv, AloneInItsSecond, t
<1> QED BY <1>1, <1>2, <1>4, <1>5, <1>6, BackupOwnStep DEF t

\* A call begins.
LEMMA BackupBeginStep ==
    ASSUME BackupIInv, NEW c \in Creators, Backups!Begin(c)
    PROVE  BackupIInv'
<1> DEFINE t == second
<1>1. /\ create[c].step = "idle"
      /\ create' = [create EXCEPT ![c] = Backups!At("copy", t)]
      /\ staging' = [staging EXCEPT ![t] = Backups!EmptyDir]
      /\ since' = [since EXCEPT ![t] = [f \in TierFiles |-> @[f] \union {live[f]}]]
      /\ UNCHANGED <<second, live, listed, answered, restore>>
    BY DEF Backups!Begin
<1>2. /\ create \in [Creators -> [step : CreateSteps, second : 0..MaxSeconds, left : SUBSET TierFiles]]
      /\ t \in Backups!Seconds /\ t \in 1..MaxSeconds /\ DOMAIN since = Backups!Seconds
      /\ \A u \in Backups!Seconds : DOMAIN since[u] = TierFiles
      /\ DOMAIN staging = Backups!Seconds
    BY DEF BackupIInv, BackupTypeOK, Backups!Seconds
<1>3. /\ create' \in [Creators -> [step : CreateSteps, second : 0..MaxSeconds, left : SUBSET TierFiles]]
      /\ create'[c].step = "copy" /\ create'[c].second = t /\ create'[c].left = TierFiles
      /\ \A d \in Creators \ {c} : create'[d] = create[d]
    BY <1>1, <1>2, PartsAssumption DEF Backups!At, CreateSteps, Backups!BackupAssumption
<1>4. /\ staging'[t] = Backups!EmptyDir /\ DOMAIN staging' = Backups!Seconds
      /\ \A u \in Backups!Seconds \ {t} : staging'[u] = staging[u]
    BY <1>1, <1>2
<1>5. /\ DOMAIN since' = Backups!Seconds /\ \A u \in Backups!Seconds : DOMAIN since'[u] = TierFiles
      /\ \A u \in Backups!Seconds \ {t} : since'[u] = since[u]
      /\ \A f \in TierFiles : since'[t][f] = since[t][f] \union {live[f]}
    BY <1>1, <1>2
<1>6. create[c].second = 0 /\ c \notin Backups!BegunIn(t)
    BY <1>1, <1>2 DEF BackupIInv, CreatorsBegan, Backups!BegunIn
<1>7. /\ \A u \in Backups!Seconds \ {t} : Backups!BegunIn(u)' = Backups!BegunIn(u)
      /\ Backups!BegunIn(t)' = Backups!BegunIn(t) \cup {c}
    <2>1. \A u \in Backups!Seconds : u # 0
        BY PartsAssumption DEF Backups!Seconds, Backups!BackupAssumption
    <2>2. ASSUME NEW u \in Backups!Seconds \ {t} PROVE Backups!BegunIn(u)' = Backups!BegunIn(u)
        BY <1>3, <1>6, <2>1 DEF Backups!BegunIn
    <2>3. Backups!BegunIn(t)' = Backups!BegunIn(t) \cup {c}
        BY <1>1, <1>3 DEF Backups!BegunIn
    <2> QED BY <2>2, <2>3
<1> HIDE DEF t
<1>8. BackupTypeOK'
    <2>1. \A u \in Backups!Seconds :
             staging'[u] # Backups!NoDir => DOMAIN staging'[u].has \subseteq TierFiles
        BY <1>4, BackupDirs DEF BackupIInv, BackupTypeOK
    <2> QED BY <1>1, <1>3, <1>4, <1>5, <2>1 DEF BackupIInv, BackupTypeOK, Backups!Seconds
<1>9. CreatorsBegan'
    BY <1>2, <1>3 DEF BackupIInv, CreatorsBegan
<1>10. ASSUME NEW u \in Backups!Seconds PROVE Untouched(u)' /\ LiveIsNoted(u)'
    <2>1. CASE u = t
        <3>1. Backups!BegunIn(u)' # {}
            BY <1>1, <1>7, <2>1 DEF t
        <3> QED BY <1>1, <1>5, <2>1, <3>1 DEF Untouched, LiveIsNoted
    <2>2. CASE u # t
        BY <1>1, <1>4, <1>5, <1>7, <2>2 DEF BackupIInv, Untouched, LiveIsNoted
    <2> QED BY <2>1, <2>2
<1>11. ASSUME NEW d \in Creators PROVE AloneInItsSecond(d)'
    <2>1. CASE d = c
        <3>1. Backups!OneBegan(t)' => Backups!BegunIn(t) = {}
            BY <1>6, <1>7 DEF Backups!OneBegan
        <3>2. Backups!OneBegan(t)' => listed[t] = Backups!NoDir /\ t \notin answered
            BY <1>2, <3>1 DEF BackupIInv, Untouched
        <3>3. DOMAIN staging'[t].has = {} /\ staging'[t] # Backups!NoDir
            BY <1>4, BackupDirs
        <3>4. t' = t
            BY <1>1 DEF t
        <3> QED BY <1>1, <1>3, <2>1, <3>2, <3>3, <3>4 DEF AloneInItsSecond
    <2>2. CASE d # c /\ create[d].second = t
        <3>1. ~Backups!OneBegan(t)'
            BY <1>6, <1>7, <2>2 DEF Backups!OneBegan, Backups!BegunIn
        <3>2. create'[d].second = t /\ t' = t
            BY <1>1, <1>3, <2>2 DEF t
        <3> QED BY <3>1, <3>2 DEF AloneInItsSecond
    <2>3. CASE d # c /\ create[d].second # t
        <3> DEFINE u == create[d].second
        <3>1. AloneInItsSecond(d) /\ create'[d] = create[d]
            BY <1>3, <2>3 DEF BackupIInv
        <3>2. create[d].step # "idle" => u \in Backups!Seconds \ {t}
            BY <1>2, <2>3, PartsAssumption
            DEF BackupIInv, CreatorsBegan, Backups!Seconds, Backups!BackupAssumption
        <3>3. create[d].step # "idle" =>
                 /\ staging'[u] = staging[u] /\ listed'[u] = listed[u] /\ since'[u] = since[u]
                 /\ Backups!OneBegan(u)' => Backups!OneBegan(u)
            <4>1. u' = u
                BY <1>3, <2>3
            <4> HIDE DEF u
            <4> QED BY <1>1, <1>4, <1>5, <1>7, <3>2, <4>1 DEF Backups!OneBegan
        <3>4. u' = u
            BY <3>1
        <3> QED BY <1>1, <3>1, <3>3, <3>4 DEF AloneInItsSecond, Backups!IsWhole
    <2> QED BY <2>1, <2>2, <2>3
<1>12. RestoreFollows'
    <2>1. RestoreFollows
        BY DEF BackupIInv
    <2>2. ASSUME restore # Backups!NoRestore, Backups!OneBegan(restore.second)'
          PROVE  Backups!OneBegan(restore.second)
        <3> DEFINE u == restore.second
        <3>1. u \in Backups!Seconds /\ u' = u
            BY <1>1, <2>2 DEF BackupIInv, BackupTypeOK
        <3> HIDE DEF u
        <3>2. Backups!OneBegan(u)' => Backups!OneBegan(u)
            <4>1. Backups!BegunIn(u) \subseteq Backups!BegunIn(u)'
                <5>1. CASE u = t
                    BY <1>1, <1>7, <3>1, <5>1 DEF t
                <5>2. CASE u # t
                    BY <1>7, <3>1, <5>2
                <5> QED BY <5>1, <5>2
            <4> QED BY <4>1 DEF Backups!OneBegan
        <3> QED BY <2>2, <3>2 DEF u
    <2> QED BY <1>1, <2>1, <2>2 DEF RestoreFollows
<1> QED BY <1>8, <1>9, <1>10, <1>11, <1>12 DEF BackupIInv

\* A file takes a version, from the program or from a restore.
LEMMA BackupTakes ==
    ASSUME BackupIInv, NEW f \in TierFiles, NEW v, Backups!Takes(f, v),
           UNCHANGED <<second, staging, listed, create, answered>>,
           \/ restore' = Backups!NoRestore
           \/ restore' \in [step : {"copy", "done"}, second : Backups!Seconds, left : SUBSET TierFiles,
                            touched : SUBSET TierFiles],
           RestoreFollows'
    PROVE  BackupIInv'
<1>1. /\ live' = [live EXCEPT ![f] = v]
      /\ since' = [t \in Backups!Seconds |->
                    IF Backups!BegunIn(t) = {} THEN since[t]
                    ELSE [since[t] EXCEPT ![f] = @ \union {v}]]
    BY DEF Backups!Takes
<1>2. /\ DOMAIN live = TierFiles /\ DOMAIN since = Backups!Seconds
      /\ \A t \in Backups!Seconds : DOMAIN since[t] = TierFiles
    BY DEF BackupIInv, BackupTypeOK
<1>3. /\ \A t \in Backups!Seconds : DOMAIN since'[t] = TierFiles
      /\ \A t \in Backups!Seconds, g \in TierFiles : since[t][g] \subseteq since'[t][g]
      /\ \A t \in Backups!Seconds : Backups!BegunIn(t) # {} => v \in since'[t][f]
      /\ live'[f] = v /\ \A g \in TierFiles : g # f => live'[g] = live[g]
      /\ DOMAIN live' = TierFiles /\ DOMAIN since' = Backups!Seconds
    BY <1>1, <1>2
<1>4. \A t : /\ Backups!BegunIn(t)' = Backups!BegunIn(t)
             /\ Backups!OneBegan(t)' <=> Backups!OneBegan(t)
    BY DEF Backups!BegunIn, Backups!OneBegan
<1>5. BackupTypeOK'
    BY <1>3 DEF BackupIInv, BackupTypeOK, Backups!Seconds
<1>6. CreatorsBegan'
    BY DEF BackupIInv, CreatorsBegan
<1>7. ASSUME NEW t \in Backups!Seconds PROVE Untouched(t)' /\ LiveIsNoted(t)'
    <2>1. Untouched(t) /\ LiveIsNoted(t)
        BY DEF BackupIInv
    <2> QED BY <1>3, <1>4, <2>1 DEF Untouched, LiveIsNoted
<1>8. ASSUME NEW c \in Creators PROVE AloneInItsSecond(c)'
    <2>1. AloneInItsSecond(c)
        BY DEF BackupIInv
    <2>2. create[c].step # "idle" => create[c].second \in Backups!Seconds
        BY PartsAssumption
        DEF BackupIInv, BackupTypeOK, CreatorsBegan, Backups!Seconds, Backups!BackupAssumption
    <2> QED BY <1>3, <1>4, <2>1, <2>2 DEF AloneInItsSecond, Backups!IsWhole
<1> QED BY <1>5, <1>6, <1>7, <1>8 DEF BackupIInv

\* The program writes one of its files.
LEMMA BackupWriteStep ==
    ASSUME BackupIInv, NEW f \in TierFiles, Backups!Write(f)
    PROVE  BackupIInv'
<1>1. /\ Backups!Takes(f, live[f] + 1) /\ UNCHANGED <<second, staging, listed, create, answered>>
      /\ restore' = IF restore = Backups!NoRestore THEN restore
                    ELSE [restore EXCEPT !.touched = @ \union {f}]
    BY DEF Backups!Write
<1>2. CASE restore = Backups!NoRestore
    BY <1>1, <1>2, BackupTakes DEF RestoreFollows
<1>3. CASE restore # Backups!NoRestore
    <2>1. restore \in [step : {"copy", "done"}, second : Backups!Seconds, left : SUBSET TierFiles,
                       touched : SUBSET TierFiles]
        BY <1>3 DEF BackupIInv, BackupTypeOK
    <2>2. /\ restore' \in [step : {"copy", "done"}, second : Backups!Seconds, left : SUBSET TierFiles,
                           touched : SUBSET TierFiles]
          /\ restore'.step = restore.step /\ restore'.second = restore.second
          /\ restore'.left = restore.left /\ restore'.touched = restore.touched \cup {f}
        BY <1>1, <1>3, <2>1
    <2>3. \A t : Backups!OneBegan(t)' <=> Backups!OneBegan(t)
        BY <1>1 DEF Backups!BegunIn, Backups!OneBegan
    <2>4. \A g \in TierFiles : g # f => live'[g] = live[g]
        BY <1>1 DEF Backups!Takes, BackupIInv, BackupTypeOK
    <2>5. RestoreFollows'
        BY <1>1, <1>3, <2>2, <2>3, <2>4 DEF BackupIInv, RestoreFollows
    <2> QED BY <1>1, <2>2, <2>5, BackupTakes
<1> QED BY <1>2, <1>3

\* A restore copies one file back.
LEMMA BackupRestoreFileStep ==
    ASSUME BackupIInv, NEW f \in TierFiles, Backups!RestoreFile(f)
    PROVE  BackupIInv'
<1> DEFINE v == listed[restore.second].has[f]
<1>1. /\ Backups!Takes(f, v) /\ UNCHANGED <<second, staging, listed, create, answered>>
      /\ restore # Backups!NoRestore /\ restore.step = "copy" /\ f \in restore.left
      /\ restore' = [restore EXCEPT !.left = @ \ {f}]
    BY DEF Backups!RestoreFile
<1> HIDE DEF v
<1>2. restore \in [step : {"copy", "done"}, second : Backups!Seconds, left : SUBSET TierFiles,
                   touched : SUBSET TierFiles]
    BY <1>1 DEF BackupIInv, BackupTypeOK
<1>3. /\ restore' \in [step : {"copy", "done"}, second : Backups!Seconds, left : SUBSET TierFiles,
                       touched : SUBSET TierFiles]
      /\ restore'.step = "copy" /\ restore'.second = restore.second
      /\ restore'.left = restore.left \ {f} /\ restore'.touched = restore.touched
    BY <1>1, <1>2
<1>4. \A t : Backups!OneBegan(t)' <=> Backups!OneBegan(t)
    BY <1>1 DEF Backups!BegunIn, Backups!OneBegan
<1>5. live'[f] = v /\ \A g \in TierFiles : g # f => live'[g] = live[g]
    BY <1>1 DEF Backups!Takes, BackupIInv, BackupTypeOK
<1>6. RestoreFollows'
    BY <1>1, <1>3, <1>4, <1>5 DEF BackupIInv, RestoreFollows, v
<1> QED BY <1>1, <1>3, <1>6, BackupTakes

\* The beginning and the end of a restore, and the clock.
LEMMA BackupOtherSteps ==
    ASSUME BackupIInv,
           Backups!Tick \/ Backups!EndRestore \/ \E t \in Backups!Seconds : Backups!BeginRestore(t)
    PROVE  BackupIInv'
<1>1. UNCHANGED <<live, staging, listed, create, since, answered>>
    BY DEF Backups!Tick, Backups!EndRestore, Backups!BeginRestore
<1>2. \A t : /\ Backups!BegunIn(t)' = Backups!BegunIn(t)
             /\ Backups!OneBegan(t)' <=> Backups!OneBegan(t)
    BY <1>1 DEF Backups!BegunIn, Backups!OneBegan
<1>3. /\ CreatorsBegan' /\ \A t \in Backups!Seconds : Untouched(t)' /\ LiveIsNoted(t)'
    BY <1>1, <1>2 DEF BackupIInv, CreatorsBegan, Untouched, LiveIsNoted
<1>4. \A c \in Creators : AloneInItsSecond(c)'
    BY <1>1, <1>2 DEF BackupIInv, AloneInItsSecond, Backups!IsWhole
<1>5. CASE Backups!Tick
    <2>1. BackupTypeOK'
        BY <1>1, <1>5, PartsAssumption
        DEF BackupIInv, BackupTypeOK, Backups!Tick, Backups!Seconds, Backups!BackupAssumption
    <2>2. RestoreFollows'
        BY <1>1, <1>2, <1>5 DEF BackupIInv, RestoreFollows, Backups!Tick
    <2> QED BY <1>3, <1>4, <2>1, <2>2 DEF BackupIInv, Backups!Seconds
<1>6. CASE Backups!EndRestore
    <2>1. restore \in [step : {"copy", "done"}, second : Backups!Seconds, left : SUBSET TierFiles,
                       touched : SUBSET TierFiles]
        BY <1>6 DEF BackupIInv, BackupTypeOK, Backups!EndRestore
    <2>2. \/ restore' = Backups!NoRestore
          \/ /\ restore' \in [step : {"copy", "done"}, second : Backups!Seconds,
                left : SUBSET TierFiles,
                              touched : SUBSET TierFiles]
             /\ restore'.second = restore.second /\ restore'.touched = restore.touched
             /\ restore'.left = {} /\ restore.left = {}
        BY <1>6, <2>1 DEF Backups!EndRestore
    <2>3. BackupTypeOK'
        BY <1>1, <1>6, <2>2 DEF BackupIInv, BackupTypeOK, Backups!EndRestore, Backups!Seconds
    <2>4. RestoreFollows'
        BY <1>1, <1>2, <1>6, <2>2 DEF BackupIInv, RestoreFollows, Backups!EndRestore
    <2> QED BY <1>3, <1>4, <2>3, <2>4 DEF BackupIInv, Backups!Seconds
<1>7. ASSUME NEW t \in Backups!Seconds, Backups!BeginRestore(t) PROVE BackupIInv'
    <2>1. /\ listed[t] # Backups!NoDir /\ UNCHANGED second
          /\ restore' = [step |-> "copy", second |-> t, left |-> DOMAIN listed[t].has,
             touched |-> {}]
        BY <1>7 DEF Backups!BeginRestore
    <2>2. DOMAIN listed[t].has \subseteq TierFiles
        BY <2>1 DEF BackupIInv, BackupTypeOK
    <2>3. restore' \in [step : {"copy", "done"}, second : Backups!Seconds, left : SUBSET TierFiles,
                        touched : SUBSET TierFiles]
        BY <2>1, <2>2
    <2>4. BackupTypeOK'
        BY <1>1, <2>1, <2>3 DEF BackupIInv, BackupTypeOK, Backups!Seconds
    <2>5. Backups!OneBegan(t) => DOMAIN listed[t].has = TierFiles
        <3> SUFFICES ASSUME Backups!OneBegan(t) PROVE DOMAIN listed[t].has = TierFiles
            OBVIOUS
        <3>1. PICK c \in Creators : create[c].second = t
            BY <2>1 DEF BackupIInv, Untouched, Backups!BegunIn
        <3>2. create[c].step # "idle"
            BY <3>1, PartsAssumption
            DEF BackupIInv, CreatorsBegan, Backups!Seconds, Backups!BackupAssumption
        <3> QED BY <2>1, <3>1, <3>2 DEF BackupIInv, AloneInItsSecond, Backups!IsWhole
    <2>6. RestoreFollows'
        BY <1>1, <1>2, <2>1, <2>5 DEF RestoreFollows
    <2> QED BY <1>3, <1>4, <2>4, <2>6 DEF BackupIInv, Backups!Seconds
<1> QED BY <1>5, <1>6, <1>7

\* Every step of a backup, of a restore and of the program keeps the invariant.
LEMMA BackupNext == BackupIInv /\ [Backups!Next]_(Backups!vars) => BackupIInv'
<1>1. ASSUME BackupIInv, Backups!Next PROVE BackupIInv'
    BY <1>1, BackupOtherSteps, BackupWriteStep, BackupRestoreFileStep, BackupBeginStep,
       BackupFailStep, BackupRenameStep, BackupClearStep, BackupCopyFileStep DEF Backups!Next
<1>2. ASSUME BackupIInv, UNCHANGED Backups!vars PROVE BackupIInv'
    BY <1>2
    DEF Backups!vars, BackupIInv, BackupTypeOK, CreatorsBegan, Untouched, LiveIsNoted,
        AloneInItsSecond, RestoreFollows, Backups!BegunIn, Backups!OneBegan, Backups!IsWhole,
        Backups!Seconds
<1> QED BY <1>1, <1>2

\* What the invariant says of the backups.
LEMMA BackupHolds == BackupIInv => Backups!BackupsAreWhole
<1> SUFFICES ASSUME BackupIInv, NEW t \in Backups!Seconds, Backups!OneBegan(t)
             PROVE  /\ listed[t] # Backups!NoDir => Backups!IsWhole(t)
                    /\ t \in answered => listed[t] # Backups!NoDir
                    /\ restore # Backups!NoRestore /\ restore.step = "done" /\ restore.second = t =>
                          \A f \in TierFiles \ restore.touched : live[f] = listed[t].has[f]
    BY DEF Backups!BackupsAreWhole
<1>1. CASE Backups!BegunIn(t) = {}
    <2>1. listed[t] = Backups!NoDir /\ t \notin answered
        BY <1>1 DEF BackupIInv, Untouched
    <2> QED BY <2>1 DEF BackupIInv, RestoreFollows
<1>2. ASSUME NEW c \in Creators, create[c].second = t
      PROVE  /\ listed[t] # Backups!NoDir => Backups!IsWhole(t)
             /\ t \in answered => listed[t] # Backups!NoDir
    <2>1. create[c].step # "idle"
        BY <1>2, PartsAssumption
        DEF BackupIInv, CreatorsBegan, Backups!Seconds, Backups!BackupAssumption
    <2> QED BY <1>2, <2>1 DEF BackupIInv, AloneInItsSecond
<1>3. restore # Backups!NoRestore /\ restore.step = "done" /\ restore.second = t =>
          \A f \in TierFiles \ restore.touched : live[f] = listed[t].has[f]
    BY DEF BackupIInv, RestoreFollows
<1> QED BY <1>1, <1>2, <1>3 DEF Backups!BegunIn

-----------------------------------------------------------------------------
(* The parts together.                                                      *)

\* A step of the composition is a step of one part, and none of the others.
LEMMA PartsStep ==
    ASSUME [MCNext]_<<part, vars, boardVars, memoryVars, catalogVars, activationVars, backupVars,
                      schemaVars>>
    PROVE  /\ [Next]_vars /\ [Board!Next]_boardVars /\ [Memory!Next]_memoryVars
           /\ [Catalog!Next]_catalogVars /\ [Activating!Next]_activationVars
           /\ [Backups!Next]_(Backups!vars) /\ [Schema!Next]_(Schema!vars)
<1>1. Backups!vars = backupVars /\ Schema!vars = schemaVars
  BY DEF Backups!vars, Schema!vars, backupVars, schemaVars
<1> QED
  BY <1>1 DEF MCNext, Backups!vars, Schema!vars, backupVars, schemaVars

\* If the turns of a session come one after another, its entries form one chain and those
\* that were acknowledged are kept, wherever the program dies.  (Of turns that overlap that
\* is false: the SessionJournalIds run shows how their ids collide.)
THEOREM JournalIsKept ==
    ASSUME OneAtATime
    PROVE  MCSpec => []JournalHolds
<1>1. MCInit => JournalIInv
  BY JournalInit DEF MCInit
<1>2. JournalIInv /\ [MCNext]_<<part, vars, boardVars, memoryVars, catalogVars, activationVars,
                                backupVars, schemaVars>> => JournalIInv'
  BY PartsStep, JournalNext
<1>3. JournalIInv => JournalHolds
  BY JournalHeld
<1> QED
  BY <1>1, <1>2, <1>3, PTL DEF MCSpec

\* The history of a card is a path of legal moves, and the event log misses none of them but
\* those that are about to be logged or whose verb failed: for any verbs that overlap.
THEOREM BoardIsLegalAndLogged == MCSpec => []HistoriesAreLegalAndLogged
<1>1. MCInit => BoardIInv
  BY BoardInit DEF MCInit
<1>2. BoardIInv /\ [MCNext]_<<part, vars, boardVars, memoryVars, catalogVars, activationVars,
                              backupVars, schemaVars>> => BoardIInv'
  BY PartsStep, BoardNext
<1>3. BoardIInv => HistoriesAreLegalAndLogged
  BY BoardHolds DEF HistoriesAreLegalAndLogged
<1> QED
  BY <1>1, <1>2, <1>3, PTL DEF MCSpec

\* What was consolidated is cited and what was corrected has its one correction; and a
\* database file has the shape its stamp tells, whichever builds opened it.
THEOREM DatabasesAreSound == MCSpec => []DatabasesHold
<1>1. MCInit => MemoryIInv /\ SchemaIInv
  BY MemoryInit, SchemaInit DEF MCInit
<1>2. MemoryIInv /\ SchemaIInv
      /\ [MCNext]_<<part, vars, boardVars, memoryVars, catalogVars, activationVars, backupVars,
                    schemaVars>> => MemoryIInv' /\ SchemaIInv'
  BY PartsStep, MemoryNext, SchemaNext
<1>3. MemoryIInv /\ SchemaIInv => DatabasesHold
  BY MemoryHolds DEF DatabasesHold, SchemaIInv
<1> QED
  BY <1>1, <1>2, <1>3, PTL DEF MCSpec

\* merge_pair moves every link of the row that goes, whatever else is linked with it.
THEOREM MergesMoveEveryLink == MCSpec => MergesLoseNoLink
<1> DEFINE Moves ==
        \A k \in merged' , d \in merged' \ Memory!Ids' :
          (d \in Memory!Ids /\ <<k, d>> \in pairs \ pairs') =>
             /\ \A e \in edges :
                   /\ e[1] = d /\ e[2] \notin {k, d} => <<k, e[2], e[3]>> \in edges'
                   /\ e[2] = d /\ e[1] \notin {k, d} => <<e[1], k, e[3]>> \in edges'
             /\ \A e \in edges' : d \notin {e[1], e[2]}
<1>1. MCInit => MemoryIInv
  BY MemoryInit DEF MCInit
<1>2. MemoryIInv /\ [MCNext]_<<part, vars, boardVars, memoryVars, catalogVars, activationVars,
                               backupVars, schemaVars>> => MemoryIInv'
  BY PartsStep, MemoryNext
<1>3. ASSUME MemoryIInv, [MCNext]_<<part, vars, boardVars, memoryVars, catalogVars,
                                    activationVars, backupVars, schemaVars>>
      PROVE  [Moves]_(Memory!vars)
  <2>1. [Memory!Next]_memoryVars
    BY <1>3, PartsStep
  <2> SUFFICES ASSUME NEW k \in merged', NEW d \in merged' \ Memory!Ids',
                      d \in Memory!Ids, <<k, d>> \in pairs \ pairs'
               PROVE  /\ \A e \in edges :
                            /\ e[1] = d /\ e[2] \notin {k, d} => <<k, e[2], e[3]>> \in edges'
                            /\ e[2] = d /\ e[1] \notin {k, d} => <<e[1], k, e[3]>> \in edges'
                      /\ \A e \in edges' : d \notin {e[1], e[2]}
    OBVIOUS
  <2> QED
    BY <1>3, <2>1, MergeMovesLinks
<1> QED
  BY <1>1, <1>2, <1>3, PTL DEF MCSpec, MergesLoseNoLink, Memory!MergesLoseNoLink

\* An extension that is active was granted under the manifest it shows; and when verbs come
\* one after another, what was answered as registered or created is there.
THEOREM CatalogsAreKept == MCSpec => []CatalogsHold
<1>1. MCInit => CatalogIInv
  BY CatalogInit DEF MCInit
<1>2. CatalogIInv /\ [MCNext]_<<part, vars, boardVars, memoryVars, catalogVars, activationVars,
                                backupVars, schemaVars>> => CatalogIInv'
  BY PartsStep, CatalogNext
<1>3. CatalogIInv => CatalogsHold
  BY CatalogHolds DEF CatalogsHold
<1> QED
  BY <1>1, <1>2, <1>3, PTL DEF MCSpec

\* What a transition answers about the registration with the operating system is so.
THEOREM ActivationAnswersAreTrue == MCSpec => []ActivationAnswersHold
<1>1. MCInit => ActivationIInv
  BY ActivationInit, PartsAssumption DEF MCInit
<1>2. ActivationIInv /\ [MCNext]_<<part, vars, boardVars, memoryVars, catalogVars, activationVars,
                                   backupVars, schemaVars>> => ActivationIInv'
  BY PartsStep, ActivationNext
<1>3. ActivationIInv => ActivationAnswersHold
  BY DEF ActivationIInv, ActivationAnswersHold
<1> QED
  BY <1>1, <1>2, <1>3, PTL DEF MCSpec

\* A backup that is listed has every file of the installation as it was at some time since
\* the backup began, and a restore puts it back, unless two were begun in one second.
THEOREM ListedBackupsAreWhole == MCSpec => []BackupsAreWhole
<1>1. MCInit => BackupIInv
  BY BackupInit DEF MCInit
<1>2. BackupIInv /\ [MCNext]_<<part, vars, boardVars, memoryVars, catalogVars, activationVars,
                               backupVars, schemaVars>> => BackupIInv'
  BY PartsStep, BackupNext
<1>3. BackupIInv => BackupsAreWhole
  BY BackupHolds DEF BackupsAreWhole
<1> QED
  BY <1>1, <1>2, <1>3, PTL DEF MCSpec
=============================================================================
