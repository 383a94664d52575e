------------------------- MODULE AuditExport_proofs -------------------------
(***************************************************************************)
(* AuditExport delivers at least once, for any number of nodes and rows, any   *)
(* batch size and any number of failures: Spec implements Delivery.  IInv is   *)
(* the inductive invariant.                                                  *)
(***************************************************************************)
EXTENDS AuditExport, TLAPS

\* A cursor at m is right: it is behind the clock s, and what it has passed is
\* among the rows g that have reached the sink.
Passed(m, s, g) == m <= s /\ \A k \in Row : k <= m => k \in g

\* No row appears behind the clock.
SettledRows == \A k \in Row : k <= settled => row[k] = "in"

CursorIsRight == sink # None => Passed(sink.cursor, settled, got)

\* What a drain d carries from one await to the next stays right, whoever
\* moves the sink's own cursor meanwhile.
DrainIsRight(d, s, g) ==
  /\ d.settled <= s
  /\ Passed(d.cursor, s, g)
  /\ d.pc \in {"send", "failed", "save"} => d.last <= d.settled
  /\ d.pc = "save" => Passed(d.last, s, g)

DrainsAreRight == \A n \in Node : DrainIsRight(drain[n], settled, got)

IInv == TypeOK /\ SettledRows /\ CursorIsRight /\ DrainsAreRight

Sinks == [enabled : BOOLEAN, cursor : 0 .. MaxRows, waits : BOOLEAN]
Drains == [pc : Places, settled : 0 .. MaxRows, cursor : 0 .. MaxRows,
           last : 0 .. MaxRows, round : 0 .. Rounds - 1]

USE AuditAssumption DEF AuditAssumption, Places

-----------------------------------------------------------------------------
LEMMA NoDrainIsDrain == NoDrain \in Drains
BY DEF NoDrain, Drains

LEMMA InitIInv == Init => IInv
<1> SUFFICES ASSUME Init PROVE IInv
  OBVIOUS
<1>1. row \in [Row -> {"none", "stamped", "in"}]
  BY DEF Init
<1>2. sink \in Sinks
  BY DEF Init, Sinks
<1>3. drain \in [Node -> Drains]
  BY NoDrainIsDrain DEF Init
<1>4. TypeOK
  <2>1. settled \in 0 .. MaxRows /\ trouble \in 0 .. MaxTrouble
    BY DEF Init
  <2> QED
    BY <1>1, <1>2, <1>3, <2>1 DEF Init, TypeOK, Sinks, Drains
<1>5. Passed(0, settled, got) /\ settled = 0
  BY DEF Init, Passed, Row
<1>6. SettledRows /\ CursorIsRight /\ DrainsAreRight
  BY <1>5 DEF Init, SettledRows, CursorIsRight, DrainsAreRight, DrainIsRight, NoDrain, Row
<1> QED
  BY <1>4, <1>6 DEF IInv

\* What has been passed stays passed, as rows only arrive and time goes on.
LEMMA PassedStays ==
  ASSUME NEW m \in Nat, NEW s \in Nat, NEW t \in Nat, s <= t, NEW g, NEW h, g \subseteq h,
         Passed(m, s, g)
  PROVE  Passed(m, t, h)
BY DEF Passed, Row

LEMMA DrainStays ==
  ASSUME NEW d \in Drains, NEW s \in Nat, NEW t \in Nat, s <= t, NEW g, NEW h, g \subseteq h,
         DrainIsRight(d, s, g)
  PROVE  DrainIsRight(d, t, h)
<1>1. d.cursor \in Nat /\ d.last \in Nat /\ d.settled \in Nat
  BY DEF Drains
<1> QED
  BY <1>1, PassedStays DEF DrainIsRight

\* An idle drain has passed nothing.
LEMMA NoDrainIsRight ==
  ASSUME NEW s \in Nat, NEW g
  PROVE  DrainIsRight(NoDrain, s, g)
BY DEF DrainIsRight, NoDrain, Passed, Row

-----------------------------------------------------------------------------
\* Rows are stamped and inserted, the clock goes on: drains and cursors stay.
LEMMA RowSteps ==
  ASSUME IInv, (\E k \in Row : Stamp(k) \/ Insert(k)) \/ Settle
  PROVE  IInv'
<1>1. row' \in [Row -> {"none", "stamped", "in"}] /\ settled' \in 0 .. MaxRows
  BY DEF IInv, TypeOK, Stamp, Insert, Settle, Row
<1>2. TypeOK'
  BY <1>1 DEF IInv, TypeOK, Stamp, Insert, Settle
<1>3. settled <= settled' /\ settled \in Nat /\ settled' \in Nat
  BY DEF IInv, TypeOK, Stamp, Insert, Settle
<1>4. SettledRows'
  BY DEF IInv, TypeOK, SettledRows, Stamp, Insert, Settle, Row
<1>5. got' = got /\ sink' = sink /\ drain' = drain
  BY DEF Stamp, Insert, Settle
<1>6. CursorIsRight'
  <2>1. sink # None => sink.cursor \in Nat
    BY DEF IInv, TypeOK
  <2> QED
    BY <1>3, <1>5, <2>1, PassedStays DEF IInv, CursorIsRight
<1>7. DrainsAreRight'
  BY <1>3, <1>5, DrainStays DEF IInv, TypeOK, DrainsAreRight, Drains
<1> QED
  BY <1>2, <1>4, <1>6, <1>7 DEF IInv

\* A step of one node's drain: rows and clock stay, and its own record and the
\* sink's cursor are right afterwards.
LEMMA DrainSteps ==
  ASSUME IInv, NEW n \in Node, NEW d \in Drains,
         row' = row, settled' = settled, got \subseteq got', got' \in SUBSET Row,
         holder' \in Node \cup {None}, trouble' \in 0 .. MaxTrouble, resent' \in BOOLEAN,
         \/ sink' = sink
         \/ sink' = None
         \/ sink' \in Sinks /\ Passed(sink'.cursor, settled, got'),
         drain' = [drain EXCEPT ![n] = d],
         DrainIsRight(d, settled, got')
  PROVE  IInv'
<1>1. settled \in Nat /\ drain \in [Node -> Drains]
  BY DEF IInv, TypeOK, Drains
<1>2. drain' \in [Node -> Drains]
  BY <1>1
<1>3. sink' \in Sinks \cup {None}
  BY DEF IInv, TypeOK, Sinks
<1>4. TypeOK'
  BY <1>2, <1>3 DEF IInv, TypeOK, Drains, Sinks
<1>5. SettledRows'
  BY DEF IInv, SettledRows
<1>6. CursorIsRight'
  <2>1. CASE sink' = sink
    <3>1. sink # None => sink.cursor \in Nat
      BY DEF IInv, TypeOK
    <3> QED
      BY <1>1, <2>1, <3>1, PassedStays DEF IInv, CursorIsRight
  <2>2. CASE sink' = None
    BY <2>2 DEF CursorIsRight
  <2>3. CASE sink' \in Sinks /\ Passed(sink'.cursor, settled, got')
    BY <2>3 DEF CursorIsRight
  <2> QED
    BY <2>1, <2>2, <2>3
<1>7. DrainsAreRight'
  <2> SUFFICES ASSUME NEW m \in Node PROVE DrainIsRight(drain'[m], settled, got')
    BY DEF DrainsAreRight
  <2>1. CASE m = n
    BY <1>1, <2>1
  <2>2. CASE m # n
    <3>1. drain'[m] = drain[m] /\ drain[m] \in Drains
      BY <1>1, <2>2
    <3> QED
      BY <1>1, <3>1, DrainStays DEF IInv, DrainsAreRight
  <2> QED
    BY <2>1, <2>2
<1> QED
  BY <1>4, <1>5, <1>6, <1>7 DEF IInv

-----------------------------------------------------------------------------
\* What a drain's record becomes is again a record of its type.
LEMMA DrainFacts ==
  ASSUME IInv, NEW n \in Node
  PROVE  /\ drain[n] \in Drains
         /\ DrainIsRight(drain[n], settled, got)
         /\ settled \in Nat /\ got \in SUBSET Row
         /\ holder \in Node \cup {None} /\ trouble \in 0 .. MaxTrouble /\ resent \in BOOLEAN
         /\ sink \in Sinks \cup {None}
BY DEF IInv, TypeOK, DrainsAreRight, Drains, Sinks

\* goto() changes the place only.
LEMMA GotoFacts ==
  ASSUME IInv, NEW n \in Node, NEW pc \in Places, goto(n, pc)
  PROVE  \E d \in Drains :
           /\ drain' = [drain EXCEPT ![n] = d]
           /\ d.pc = pc /\ d.settled = drain[n].settled /\ d.cursor = drain[n].cursor
           /\ d.last = drain[n].last
<1> DEFINE d == [drain[n] EXCEPT !.pc = pc]
<1>1. drain[n] \in Drains
  BY DrainFacts
<1>2. /\ d \in Drains
      /\ d.pc = pc /\ d.settled = drain[n].settled /\ d.cursor = drain[n].cursor
      /\ d.last = drain[n].last
  BY <1>1 DEF Drains
<1>3. drain' = [drain EXCEPT ![n] = d]
  BY DEF goto
<1> QED
  BY <1>2, <1>3

\* A drain that stops, whatever made it stop.
LEMMA StopSteps ==
  ASSUME IInv, NEW n \in Node, stop(n), row' = row, settled' = settled, got' = got,
         holder' \in Node \cup {None}, trouble' \in 0 .. MaxTrouble, resent' \in BOOLEAN,
         \/ sink' = sink
         \/ sink' = None
         \/ sink' \in Sinks /\ Passed(sink'.cursor, settled, got)
  PROVE  IInv'
<1>1. NoDrain \in Drains /\ DrainIsRight(NoDrain, settled, got')
  BY DrainFacts, NoDrainIsDrain, NoDrainIsRight
<1>2. drain' = [drain EXCEPT ![n] = NoDrain] /\ got \subseteq got' /\ got' \in SUBSET Row
  BY DrainFacts DEF stop
<1> QED
  BY <1>1, <1>2, DrainSteps

-----------------------------------------------------------------------------
LEMMA TickReadsIInv == ASSUME IInv, NEW n \in Node, TickReads(n) PROVE IInv'
<1> DEFINE d == [NoDrain EXCEPT !.pc = "lease", !.settled = settled, !.cursor = sink.cursor]
<1>1. sink \in Sinks /\ Passed(sink.cursor, settled, got) /\ settled \in 0 .. MaxRows
  BY DrainFacts DEF IInv, TypeOK, CursorIsRight, TickReads
<1>2. d \in Drains /\ d.pc = "lease" /\ d.settled = settled /\ d.cursor = sink.cursor
  BY <1>1, NoDrainIsDrain DEF Drains, Sinks
<1>3. DrainIsRight(d, settled, got)
  BY <1>1, <1>2 DEF DrainIsRight
<1>4. /\ drain' = [drain EXCEPT ![n] = d]
      /\ row' = row /\ settled' = settled /\ got' = got /\ sink' = sink
      /\ holder' = holder /\ trouble' = trouble /\ resent' = resent
  BY DEF TickReads
<1> HIDE DEF d
<1> QED
  BY <1>2, <1>3, <1>4, DrainFacts, DrainSteps

LEMMA LeaseIInv == ASSUME IInv, NEW n \in Node, Lease(n) PROVE IInv'
<1>1. CASE goto(n, "select") /\ holder' = n
  <2>1. PICK d \in Drains :
          /\ drain' = [drain EXCEPT ![n] = d]
          /\ d.pc = "select" /\ d.settled = drain[n].settled /\ d.cursor = drain[n].cursor
    BY <1>1, GotoFacts
  <2>2. DrainIsRight(d, settled, got)
    BY <2>1, DrainFacts DEF DrainIsRight
  <2> QED
    BY <1>1, <2>1, <2>2, DrainFacts, DrainSteps DEF Lease
<1>2. CASE stop(n) /\ holder' = holder
  BY <1>2, DrainFacts, StopSteps DEF Lease
<1> QED
  BY <1>1, <1>2 DEF Lease

LEMMA SelectIInv == ASSUME IInv, NEW n \in Node, Select(n) PROVE IInv'
<1>1. CASE stop(n)
  BY <1>1, DrainFacts, StopSteps DEF Select, SelectFrom
<1>2. ASSUME NEW last \in between(drain[n].cursor, drain[n].settled),
             drain' = [drain EXCEPT ![n].pc = "send", ![n].last = last]
      PROVE  IInv'
  <2> DEFINE d == [drain[n] EXCEPT !.pc = "send", !.last = last]
  <2>1. last \in 0 .. MaxRows /\ last <= drain[n].settled
    BY DEF between, Row
  <2>2. /\ d \in Drains /\ d.pc = "send" /\ d.settled = drain[n].settled
        /\ d.cursor = drain[n].cursor /\ d.last = last
    BY <2>1, DrainFacts DEF Drains
  <2>3. DrainIsRight(d, settled, got)
    BY <2>1, <2>2, DrainFacts DEF DrainIsRight
  <2>4. drain' = [drain EXCEPT ![n] = d]
    BY <1>2
  <2> HIDE DEF d
  <2> QED
    BY <2>2, <2>3, <2>4, DrainFacts, DrainSteps DEF Select, SelectFrom
<1> QED
  BY <1>1, <1>2 DEF Select, SelectFrom

\* The batch is all there is between the drain's cursor and its last row, for
\* no row appears behind the clock.
LEMMA BatchCloses ==
  ASSUME IInv, NEW n \in Node, drain[n].pc = "send"
  PROVE  Passed(drain[n].last, settled, got \cup batch(n))
<1>1. drain[n].last <= settled
  BY DrainFacts DEF DrainIsRight, Drains
<1>2. ASSUME NEW k \in Row, k <= drain[n].last PROVE k \in got \cup batch(n)
  <2>1. CASE k <= drain[n].cursor
    BY <2>1, DrainFacts DEF DrainIsRight, Passed
  <2>2. CASE ~(k <= drain[n].cursor)
    <3>1. row[k] = "in" /\ drain[n].cursor < k
      BY <1>1, <1>2, <2>2, DrainFacts DEF IInv, SettledRows, Drains, Row
    <3> QED
      BY <1>2, <3>1 DEF batch, between
  <2> QED
    BY <2>1, <2>2
<1> QED
  BY <1>1, <1>2 DEF Passed

LEMMA SendIInv == ASSUME IInv, NEW n \in Node, Send(n) PROVE IInv'
<1>1. PICK d \in Drains :
        /\ drain' = [drain EXCEPT ![n] = d]
        /\ d.pc = "save" /\ d.settled = drain[n].settled /\ d.cursor = drain[n].cursor
        /\ d.last = drain[n].last
  BY GotoFacts DEF Send
<1>2. Passed(drain[n].last, settled, got') /\ drain[n].pc = "send" /\ got \subseteq got'
  BY BatchCloses DEF Send, at
<1>3. Passed(drain[n].cursor, settled, got')
  BY <1>2, DrainFacts, PassedStays DEF DrainIsRight, Drains
<1>4. DrainIsRight(d, settled, got')
  BY <1>1, <1>2, <1>3, DrainFacts DEF DrainIsRight
<1>5. got' \in SUBSET Row
  BY DrainFacts DEF Send, batch, between
<1> QED
  BY <1>1, <1>2, <1>4, <1>5, DrainFacts, DrainSteps DEF Send

LEMMA SendFailsIInv == ASSUME IInv, NEW n \in Node, SendFails(n) PROVE IInv'
<1>1. PICK d \in Drains :
        /\ drain' = [drain EXCEPT ![n] = d]
        /\ d.pc = "failed" /\ d.settled = drain[n].settled /\ d.cursor = drain[n].cursor
        /\ d.last = drain[n].last
  BY GotoFacts DEF SendFails
<1>2. got \subseteq got' /\ got' \in SUBSET Row /\ drain[n].pc = "send"
  BY DrainFacts DEF SendFails, batch, between, at
<1>3. Passed(drain[n].cursor, settled, got')
  BY <1>2, DrainFacts, PassedStays DEF DrainIsRight, Drains
<1>4. DrainIsRight(d, settled, got')
  BY <1>1, <1>2, <1>3, DrainFacts DEF DrainIsRight
<1> QED
  BY <1>1, <1>2, <1>4, DrainFacts, DrainSteps DEF SendFails

LEMMA BackOffIInv == ASSUME IInv, NEW n \in Node, BackOff(n) PROVE IInv'
<1>1. sink # None => Passed(sink.cursor, settled, got)
  BY DEF IInv, CursorIsRight
<1>2. sink' = None \/ (sink' \in Sinks /\ Passed(sink'.cursor, settled, got))
  BY <1>1, DrainFacts DEF BackOff, Sinks
<1> QED
  BY <1>2, DrainFacts, StopSteps DEF BackOff

LEMMA SaveIInv == ASSUME IInv, NEW n \in Node, Save(n) PROVE IInv'
<1>1. Passed(drain[n].last, settled, got) /\ drain[n].last \in 0 .. MaxRows
  BY DrainFacts DEF Save, at, DrainIsRight, Drains
<1>2. sink' = None \/ (sink' \in Sinks /\ Passed(sink'.cursor, settled, got))
  BY <1>1, DrainFacts DEF Save, Sinks
<1>3. CASE stop(n)
  BY <1>2, <1>3, DrainFacts, StopSteps DEF Save
<1>4. CASE /\ drain[n].round + 1 # Rounds
           /\ drain' = [drain EXCEPT ![n].pc = "select", ![n].cursor = drain[n].last, ![n].round = @ + 1]
  <2> DEFINE d == [drain[n] EXCEPT !.pc = "select", !.cursor = drain[n].last, !.round = @ + 1]
  <2>1. drain[n].round + 1 \in 0 .. Rounds - 1
    BY <1>4, DrainFacts DEF Drains
  <2>2. /\ d \in Drains /\ d.pc = "select" /\ d.settled = drain[n].settled
        /\ d.cursor = drain[n].last
    BY <1>1, <2>1, DrainFacts DEF Drains
  <2>3. DrainIsRight(d, settled, got)
    BY <1>1, <2>2, DrainFacts DEF DrainIsRight
  <2>4. drain' = [drain EXCEPT ![n] = d]
    BY <1>4
  <2> HIDE DEF d
  <2> QED
    BY <1>2, <2>2, <2>3, <2>4, DrainFacts, DrainSteps DEF Save
<1> QED
  BY <1>3, <1>4 DEF Save

LEMMA GoesWrongFacts ==
  ASSUME IInv, goesWrong
  PROVE  trouble' \in 0 .. MaxTrouble /\ resent' \in BOOLEAN
<1>1. trouble' \in 0 .. MaxTrouble
  BY DEF IInv, TypeOK, goesWrong
<1>2. resent' = TRUE
  BY DEF goesWrong
<1> QED
  BY <1>1, <1>2

LEMMA StopsIInv == ASSUME IInv, NEW n \in Node, SaveFails(n) \/ Crash(n) PROVE IInv'
<1>1. goesWrong
  BY DEF SaveFails, Crash
<1> QED
  BY <1>1, GoesWrongFacts, DrainFacts, StopSteps DEF SaveFails, Crash

\* The sink is edited or removed, its wait ends, its lease runs out: nothing
\* but a cursor of a sink that is gone is lost.
LEMMA SinkSteps ==
  ASSUME IInv, \/ LeaseExpires \/ BackoffEnds \/ Remove
               \/ \E e \in BOOLEAN : Update(e)
  PROVE  IInv'
<1>1. row' = row /\ settled' = settled /\ got' = got /\ drain' = drain
  BY DEF LeaseExpires, BackoffEnds, Remove, Update
<1>2. holder' \in Node \cup {None} /\ trouble' \in 0 .. MaxTrouble /\ resent' \in BOOLEAN
  <2>1. CASE LeaseExpires
    BY <2>1, GoesWrongFacts DEF LeaseExpires
  <2>2. CASE holder' = holder /\ trouble' = trouble /\ resent' = resent
    BY <2>2 DEF IInv, TypeOK
  <2> QED
    BY <2>1, <2>2 DEF BackoffEnds, Remove, Update
<1>3. /\ sink' \in Sinks \cup {None}
      /\ sink' # None => sink # None /\ sink'.cursor = sink.cursor
  BY DEF IInv, TypeOK, Sinks, LeaseExpires, BackoffEnds, Remove, Update
<1>4. TypeOK'
  BY <1>1, <1>2, <1>3 DEF IInv, TypeOK, Sinks
<1>5. SettledRows' /\ CursorIsRight' /\ DrainsAreRight'
  BY <1>1, <1>3 DEF IInv, SettledRows, CursorIsRight, DrainsAreRight
<1> QED
  BY <1>4, <1>5 DEF IInv

LEMMA NextIInv == IInv /\ [Next]_vars => IInv'
<1> SUFFICES ASSUME IInv, [Next]_vars PROVE IInv'
  OBVIOUS
<1>1. CASE UNCHANGED vars
  BY <1>1 DEF vars, IInv, TypeOK, SettledRows, CursorIsRight, DrainsAreRight
<1>2. CASE (\E k \in Row : Stamp(k) \/ Insert(k)) \/ Settle
  BY <1>2, RowSteps
<1>3. ASSUME NEW n \in Node, TickReads(n) PROVE IInv'
  BY <1>3, TickReadsIInv
<1>4. ASSUME NEW n \in Node, Lease(n) \/ Select(n) \/ BackOff(n) \/ Save(n) PROVE IInv'
  BY <1>4, LeaseIInv, SelectIInv, BackOffIInv, SaveIInv
<1>5. ASSUME NEW n \in Node, Send(n) \/ SendFails(n) PROVE IInv'
  BY <1>5, SendIInv, SendFailsIInv
<1>6. ASSUME NEW n \in Node, SaveFails(n) \/ Crash(n) PROVE IInv'
  BY <1>6, StopsIInv
<1>7. CASE LeaseExpires \/ BackoffEnds \/ Remove \/ \E e \in BOOLEAN : Update(e)
  BY <1>7, SinkSteps
<1> QED
  BY <1>1, <1>2, <1>3, <1>4, <1>5, <1>6, <1>7 DEF Next, DrainStep

LEMMA SpecIInv == Spec => []IInv
BY InitIInv, NextIInv, PTL DEF Spec

\* Every variable keeps its type.
THEOREM TypeCorrect == Spec => []TypeOK
<1>1. IInv => TypeOK
  BY DEF IInv
<1> QED
  BY <1>1, SpecIInv, PTL

-----------------------------------------------------------------------------
\* Every step is one of Delivery, or none.
LEMMA StepExports == IInv /\ [Next]_vars => [D!Next]_(D!deliveryVars)
<1> SUFFICES ASSUME IInv, [Next]_vars PROVE [D!Next]_(D!deliveryVars)
  OBVIOUS
<1> DEFINE in == {k \in Row : row[k] = "in"}
           cursor == IF sink = None THEN 0 ELSE sink.cursor
           still == in' = in /\ got' = got /\ cursor' \in {cursor, 0}
<1>1. still => [D!Next]_(D!deliveryVars)
  <2>1. CASE in' = in /\ got' = got /\ cursor' = cursor
    BY <2>1 DEF D!deliveryVars
  <2>2. CASE in' = in /\ got' = got /\ cursor' = 0
    <3>1. D!Mark(0)
      BY <2>2 DEF D!Mark, Row
    <3> QED
      BY <3>1 DEF D!Next
  <2> QED
    BY <2>1, <2>2
<1>s. row' = row /\ got' = got /\ sink' = sink => still
  OBVIOUS
<1>2. CASE UNCHANGED vars
  BY <1>1, <1>2 DEF vars
<1>3. ASSUME NEW k \in Row, Stamp(k) PROVE still
  BY <1>3 DEF IInv, TypeOK, Stamp
<1>4. ASSUME NEW k \in Row, Insert(k) PROVE D!Produce(k)
  <2>1. ~(k <= settled)
    BY <1>4 DEF IInv, SettledRows, Insert
  <2>2. k > cursor
    BY <2>1 DEF IInv, TypeOK, CursorIsRight, Passed, Row
  <2>3. in' = in \cup {k}
    BY <1>4 DEF IInv, TypeOK, Insert
  <2> QED
    BY <1>4, <2>2, <2>3 DEF D!Produce, Insert
<1>5. Settle => still
  BY <1>s DEF Settle
<1>6. ASSUME NEW n \in Node, TickReads(n) \/ Lease(n) \/ Select(n) PROVE still
  BY <1>6 DEF TickReads, Lease, Select, SelectFrom
<1>7. ASSUME NEW n \in Node, BackOff(n) PROVE still
  <2>1. cursor' \in {cursor, 0}
    BY <1>7, DrainFacts DEF BackOff, Sinks
  <2> QED
    BY <1>7, <2>1 DEF BackOff
<1>8. ASSUME NEW n \in Node, Send(n) \/ SendFails(n)
      PROVE  \E some \in SUBSET Row : D!Arrive(some)
  <2>1. batch(n) \subseteq in
    BY DEF batch, between
  <2>2. \E some \in {{}, batch(n)} : got' = got \cup some
    BY <1>8 DEF Send, SendFails
  <2>3. in' = in /\ cursor' = cursor
    BY <1>8 DEF Send, SendFails
  <2> QED
    BY <2>1, <2>2, <2>3 DEF D!Arrive
<1>9. ASSUME NEW n \in Node, Save(n)
      PROVE  still \/ \E m \in Row \cup {0} : D!Mark(m)
  <2>1. Passed(drain[n].last, settled, got) /\ drain[n].last \in Row \cup {0}
    BY <1>9, DrainFacts DEF Save, at, DrainIsRight, Drains, Row
  <2>2. in' = in /\ got' = got
    BY <1>9 DEF Save
  <2>3. CASE sink = None
    BY <1>9, <2>2, <2>3 DEF Save
  <2>4. CASE sink # None
    <3>1. sink'.cursor = drain[n].last
      BY <1>9, <2>4, DrainFacts DEF Save, Sinks
    <3>2. CASE sink' # None
      BY <2>1, <2>2, <3>1, <3>2 DEF D!Mark, Passed
    <3>3. CASE sink' = None
      BY <2>2, <3>3
    <3> QED
      BY <3>2, <3>3
  <2> QED
    BY <2>3, <2>4
<1>10. ASSUME NEW n \in Node, SaveFails(n) \/ Crash(n) PROVE still
  BY <1>10 DEF SaveFails, Crash
<1>11. LeaseExpires => still
  BY <1>s DEF LeaseExpires
<1>12. ASSUME BackoffEnds \/ \E e \in BOOLEAN : Update(e) PROVE still
  <2>1. sink \in Sinks
    BY <1>12 DEF BackoffEnds, Update, IInv, TypeOK, Sinks
  <2>2. sink' # None => sink'.cursor = sink.cursor
    BY <1>12, <2>1 DEF BackoffEnds, Update, Sinks
  <2> QED
    BY <1>12, <2>2 DEF BackoffEnds, Update
<1>13. Remove => still
  BY DEF Remove
<1> HIDE DEF still
<1> QED
  BY <1>1, <1>2, <1>3, <1>4, <1>5, <1>6, <1>7, <1>8, <1>9, <1>10, <1>11, <1>12, <1>13
     DEF Next, DrainStep, D!Next

\* AuditExportService implements Delivery: nothing the cursor of a sink has
\* passed is missing at its other end, whatever fails.
THEOREM ImplementsDelivery == Spec => Exports
<1>1. Init => D!Init
  BY DEF Init, D!Init, Row
<1> QED
  BY <1>1, StepExports, SpecIInv, PTL DEF Spec, Exports, D!AtLeastOnce

-----------------------------------------------------------------------------
\* As long as nothing has gone wrong only the lease's holder drains, and what
\* reached the sink is behind the cursor of whoever may drain next.
Owned == \A n \in Node : drain[n].pc \notin {"idle", "lease"} => holder = n
Unowned == holder = None => got = {}

SentByDrain(d, g) == \A k \in g : k <= d.cursor \/ (d.pc = "save" /\ k <= d.last)
DrainsKnow == \A n \in Node : drain[n].pc # "idle" /\ holder \in {None, n} => SentByDrain(drain[n], got)
SinkKnows ==
  sink # None => \A k \in got : \/ k <= sink.cursor
                                \/ \E n \in Node : drain[n].pc = "save" /\ k <= drain[n].last

BatchAhead ==
  \A n \in Node : /\ drain[n].pc \in {"send", "save"} => drain[n].cursor < drain[n].last
                  /\ drain[n].pc # "failed"

Untroubled == Owned /\ Unowned /\ DrainsKnow /\ SinkKnows /\ BatchAhead
OInv == ~resent => Untroubled

LEMMA InitOInv == Init => OInv
BY DEF Init, OInv, Untroubled, Owned, Unowned, DrainsKnow, SentByDrain, SinkKnows, BatchAhead, NoDrain

\* A node's step that is not a failure: it has the lease if it drains, all
\* others are as they were.
LEMMA OwnStep ==
  ASSUME IInv, Untroubled, NEW n \in Node, NEW d \in Drains,
         drain' = [drain EXCEPT ![n] = d],
         holder' = holder \/ (holder = None /\ holder' = n),
         d.pc \notin {"idle", "lease"} => holder' = n,
         holder' = n \/ got' = got,
         d.pc \in {"send", "save"} => d.cursor < d.last, d.pc # "failed",
         d.pc # "idle" /\ holder' \in {None, n} => SentByDrain(d, got'),
         sink' # None => \A k \in got' : \/ k <= sink'.cursor
                                         \/ \E m \in Node : drain'[m].pc = "save" /\ k <= drain'[m].last
  PROVE  Untroubled'
<1>1. drain \in [Node -> Drains] /\ None \notin Node
  BY DEF IInv, TypeOK, Drains
<1>2. drain'[n] = d /\ \A m \in Node \ {n} : drain'[m] = drain[m]
  BY <1>1
<1>3. Owned'
  BY <1>1, <1>2 DEF Untroubled, Owned
<1>4. Unowned'
  BY <1>1 DEF Untroubled, Unowned
<1>5. DrainsKnow'
  <2> SUFFICES ASSUME NEW m \in Node, drain'[m].pc # "idle", holder' \in {None, m}
               PROVE  SentByDrain(drain'[m], got')
    BY DEF DrainsKnow
  <2>1. CASE m = n
    BY <1>2, <2>1
  <2>2. CASE m # n
    BY <1>1, <1>2, <2>2 DEF Untroubled, DrainsKnow
  <2> QED
    BY <2>1, <2>2
<1>6. SinkKnows'
  BY DEF SinkKnows
<1>7. BatchAhead'
  BY <1>2 DEF Untroubled, BatchAhead
<1> QED
  BY <1>3, <1>4, <1>5, <1>6, <1>7 DEF Untroubled

\* The holder is the only one at "save", so nobody else vouches for the sink.
LEMMA SinkWithoutOthers ==
  ASSUME IInv, Untroubled, NEW n \in Node, holder \in {None, n}, drain[n].pc # "save", sink # None,
         NEW k \in got
  PROVE  k <= sink.cursor
BY DEF IInv, TypeOK, Untroubled, Owned, SinkKnows

\* A step that leaves alone whoever is at "save" leaves the sink's knowledge.
LEMMA SinkStays ==
  ASSUME IInv, Untroubled, NEW n \in Node, NEW d \in Drains, drain' = [drain EXCEPT ![n] = d],
         drain[n].pc # "save", sink' = sink, got' = got
  PROVE  sink' # None => \A k \in got' : \/ k <= sink'.cursor
                                         \/ \E m \in Node : drain'[m].pc = "save" /\ k <= drain'[m].last
<1>1. \A m \in Node : drain[m].pc = "save" => drain'[m] = drain[m]
  BY DEF IInv, TypeOK, Drains
<1> QED
  BY <1>1 DEF Untroubled, SinkKnows

LEMMA TickReadsOnce == ASSUME IInv, Untroubled, NEW n \in Node, TickReads(n) PROVE Untroubled'
<1> DEFINE d == [NoDrain EXCEPT !.pc = "lease", !.settled = settled, !.cursor = sink.cursor]
<1>1. sink \in Sinks /\ sink # None /\ settled \in 0 .. MaxRows /\ drain[n].pc = "idle"
  BY DrainFacts DEF IInv, TypeOK, TickReads, at
<1>2. d \in Drains /\ d.pc = "lease" /\ d.cursor = sink.cursor
  BY <1>1, NoDrainIsDrain DEF Drains, Sinks
<1>3. drain' = [drain EXCEPT ![n] = d] /\ holder' = holder /\ got' = got /\ sink' = sink
  BY DEF TickReads
<1> HIDE DEF d
<1>4. holder \in {None, n} => SentByDrain(d, got)
  BY <1>1, <1>2, SinkWithoutOthers DEF SentByDrain
<1>5. sink' # None => \A k \in got' : \/ k <= sink'.cursor
                                      \/ \E m \in Node : drain'[m].pc = "save" /\ k <= drain'[m].last
  BY <1>1, <1>2, <1>3, SinkStays
<1> QED
  BY <1>2, <1>3, <1>4, <1>5, OwnStep

LEMMA StopOnce ==
  ASSUME IInv, Untroubled, NEW n \in Node, stop(n), drain[n].pc # "save",
         sink' = sink, got' = got, holder' = holder
  PROVE  Untroubled'
<1>1. drain' = [drain EXCEPT ![n] = NoDrain] /\ NoDrain \in Drains /\ NoDrain.pc = "idle"
  BY NoDrainIsDrain DEF stop, NoDrain
<1>2. sink' # None => \A k \in got' : \/ k <= sink'.cursor
                                      \/ \E m \in Node : drain'[m].pc = "save" /\ k <= drain'[m].last
  BY <1>1, SinkStays
<1> QED
  BY <1>1, <1>2, OwnStep

LEMMA LeaseOnce == ASSUME IInv, Untroubled, NEW n \in Node, Lease(n) PROVE Untroubled'
<1>1. drain[n].pc = "lease" /\ sink' = sink /\ got' = got
  BY DEF Lease, at
<1>2. CASE holder \in {None, n} /\ holder' = n /\ goto(n, "select")
  <2>1. PICK d \in Drains :
          /\ drain' = [drain EXCEPT ![n] = d]
          /\ d.pc = "select" /\ d.cursor = drain[n].cursor
    BY <1>2, GotoFacts
  <2>2. SentByDrain(d, got)
    BY <1>1, <1>2, <2>1 DEF Untroubled, DrainsKnow, SentByDrain
  <2>3. sink' # None => \A k \in got' : \/ k <= sink'.cursor
                                        \/ \E m \in Node : drain'[m].pc = "save" /\ k <= drain'[m].last
    BY <1>1, <2>1, SinkStays
  <2> QED
    BY <1>1, <1>2, <2>1, <2>2, <2>3, OwnStep
<1>3. CASE stop(n) /\ holder' = holder
  BY <1>1, <1>3, StopOnce
<1> QED
  BY <1>2, <1>3 DEF Lease

LEMMA SelectOnce == ASSUME IInv, Untroubled, NEW n \in Node, Select(n) PROVE Untroubled'
<1>1. drain[n].pc = "select" /\ holder = n /\ sink' = sink /\ got' = got /\ holder' = holder
  BY DEF Select, SelectFrom, at, Untroubled, Owned
<1>2. CASE stop(n)
  BY <1>1, <1>2, StopOnce
<1>3. ASSUME NEW last \in between(drain[n].cursor, drain[n].settled),
             drain' = [drain EXCEPT ![n].pc = "send", ![n].last = last]
      PROVE  Untroubled'
  <2> DEFINE d == [drain[n] EXCEPT !.pc = "send", !.last = last]
  <2>1. last \in 0 .. MaxRows /\ drain[n].cursor < last
    BY DEF between, Row
  <2>2. d \in Drains /\ d.pc = "send" /\ d.cursor = drain[n].cursor /\ d.last = last
    BY <2>1, DrainFacts DEF Drains
  <2>3. drain' = [drain EXCEPT ![n] = d]
    BY <1>3
  <2> HIDE DEF d
  <2>4. SentByDrain(d, got)
    BY <1>1, <2>2 DEF Untroubled, DrainsKnow, SentByDrain
  <2>5. sink' # None => \A k \in got' : \/ k <= sink'.cursor
                                        \/ \E m \in Node : drain'[m].pc = "save" /\ k <= drain'[m].last
    BY <1>1, <2>2, <2>3, SinkStays
  <2> QED
    BY <1>1, <2>1, <2>2, <2>3, <2>4, <2>5, OwnStep
<1> QED
  BY <1>2, <1>3 DEF Select, SelectFrom

LEMMA SendOnce == ASSUME IInv, Untroubled, NEW n \in Node, Send(n) PROVE Untroubled'
<1>1. /\ drain[n].pc = "send" /\ holder = n /\ sink' = sink /\ holder' = holder
      /\ got' = got \cup batch(n) /\ drain[n].cursor < drain[n].last
  BY DEF Send, at, Untroubled, Owned, BatchAhead
<1>2. PICK d \in Drains :
        /\ drain' = [drain EXCEPT ![n] = d]
        /\ d.pc = "save" /\ d.cursor = drain[n].cursor /\ d.last = drain[n].last
  BY GotoFacts DEF Send
<1>3. SentByDrain(d, got')
  BY <1>1, <1>2 DEF Untroubled, DrainsKnow, SentByDrain, batch, between
<1>4. drain'[n] = d
  BY <1>2 DEF IInv, TypeOK
<1>5. sink' # None => \A k \in got' : \/ k <= sink'.cursor
                                      \/ \E m \in Node : drain'[m].pc = "save" /\ k <= drain'[m].last
  <2> SUFFICES ASSUME sink # None, NEW k \in got' PROVE k <= sink.cursor \/ k <= d.last
    BY <1>1, <1>2, <1>4
  <2>1. CASE k \in got
    BY <1>1, <2>1, SinkWithoutOthers
  <2>2. CASE k \in batch(n)
    BY <1>2, <2>2 DEF batch, between
  <2> QED
    BY <1>1, <2>1, <2>2
<1> QED
  BY <1>1, <1>2, <1>3, <1>5, OwnStep

LEMMA SaveOnce == ASSUME IInv, Untroubled, NEW n \in Node, Save(n) PROVE Untroubled'
<1>1. /\ drain[n].pc = "save" /\ holder = n /\ holder' = holder /\ got' = got
      /\ drain[n].cursor < drain[n].last /\ SentByDrain(drain[n], got)
  BY DEF Save, at, Untroubled, Owned, BatchAhead, DrainsKnow
<1>2. drain[n] \in Drains /\ got \in SUBSET Row
  BY DrainFacts
<1>3. \A k \in got : k <= drain[n].last
  BY <1>1, <1>2 DEF SentByDrain, Drains, Row
<1>4. sink' # None => sink'.cursor = drain[n].last
  BY <1>2, DrainFacts DEF Save, Sinks
<1>5. sink' # None => \A k \in got' : k <= sink'.cursor
  BY <1>1, <1>3, <1>4
<1>6. CASE stop(n)
  <2>1. drain' = [drain EXCEPT ![n] = NoDrain] /\ NoDrain \in Drains /\ NoDrain.pc = "idle"
    BY <1>6, NoDrainIsDrain DEF stop, NoDrain
  <2> QED
    BY <1>1, <1>5, <2>1, OwnStep
<1>7. CASE /\ drain[n].round + 1 # Rounds
           /\ drain' = [drain EXCEPT ![n].pc = "select", ![n].cursor = drain[n].last, ![n].round = @ + 1]
  <2> DEFINE d == [drain[n] EXCEPT !.pc = "select", !.cursor = drain[n].last, !.round = @ + 1]
  <2>1. drain[n].round + 1 \in 0 .. Rounds - 1
    BY <1>2, <1>7 DEF Drains
  <2>2. d \in Drains /\ d.pc = "select" /\ d.cursor = drain[n].last
    BY <1>2, <2>1 DEF Drains
  <2>3. drain' = [drain EXCEPT ![n] = d]
    BY <1>7
  <2> HIDE DEF d
  <2>4. SentByDrain(d, got)
    BY <1>3, <2>2 DEF SentByDrain
  <2> QED
    BY <1>1, <1>5, <2>2, <2>3, <2>4, OwnStep
<1> QED
  BY <1>6, <1>7 DEF Save

LEMMA NextOInv == IInv /\ OInv /\ [Next]_vars => OInv'
<1> SUFFICES ASSUME IInv, Untroubled, [Next]_vars, ~resent' PROVE Untroubled'
  <2>1. [Next]_vars /\ resent => resent'
    BY DEF Next, DrainStep, Stamp, Insert, Settle, TickReads, Lease, Select, SelectFrom, BackOff, Save,
           Send, SendFails, SaveFails, Crash, LeaseExpires, BackoffEnds, Update, Remove, goesWrong, vars
  <2> QED
    BY <2>1 DEF OInv
<1>1. CASE holder' = holder /\ drain' = drain /\ got' = got
           /\ (sink' # None => sink # None /\ sink'.cursor = sink.cursor)
  BY <1>1 DEF Untroubled, Owned, Unowned, DrainsKnow, SinkKnows, BatchAhead
<1>2. CASE UNCHANGED vars \/ (\E k \in Row : Stamp(k) \/ Insert(k)) \/ Settle
  BY <1>1, <1>2 DEF vars, Stamp, Insert, Settle
<1>3. CASE BackoffEnds \/ Remove \/ \E e \in BOOLEAN : Update(e)
  <2>1. sink' # None => sink # None /\ sink'.cursor = sink.cursor
    BY <1>3 DEF IInv, TypeOK, BackoffEnds, Remove, Update
  <2> QED
    BY <1>1, <1>3, <2>1 DEF BackoffEnds, Remove, Update
<1>4. ASSUME NEW n \in Node, TickReads(n) \/ Lease(n) \/ Select(n) \/ Send(n) \/ Save(n) PROVE Untroubled'
  BY <1>4, TickReadsOnce, LeaseOnce, SelectOnce, SendOnce, SaveOnce
<1>5. ASSUME NEW n \in Node, BackOff(n) PROVE Untroubled'
  BY <1>5 DEF BackOff, at, Untroubled, BatchAhead
<1>6. ASSUME NEW n \in Node, SendFails(n) \/ SaveFails(n) \/ Crash(n) \/ LeaseExpires PROVE Untroubled'
  BY <1>6 DEF SendFails, SaveFails, Crash, LeaseExpires, goesWrong
<1>7. ~LeaseExpires
  BY DEF LeaseExpires, goesWrong
<1> QED
  BY <1>2, <1>3, <1>4, <1>5, <1>6, <1>7 DEF Next, DrainStep

LEMMA StepOnce ==
  IInv /\ OInv /\ [Next]_vars =>
    [\A n \in Node : at(n, "send") /\ drain'[n].pc = "save" /\ batch(n) \cap got # {} => resent]_vars
<1> SUFFICES ASSUME IInv, Untroubled, NEW n \in Node, at(n, "send") PROVE batch(n) \cap got = {}
  BY DEF OInv
<1>1. holder = n /\ drain[n].pc = "send"
  BY DEF at, Untroubled, Owned
<1>2. \A k \in got : k <= drain[n].cursor
  BY <1>1 DEF Untroubled, DrainsKnow, SentByDrain
<1> QED
  BY <1>2, DrainFacts DEF batch, between, Drains, Row

\* Without a failure, a crash or a lost lease no row is sent twice: tick() asks
\* for the lease after it has read the cursor, and yet never resends.
THEOREM SentOnce == Spec => OnceUnlessTroubled
<1>1. Spec => []OInv
  BY InitOInv, NextOInv, SpecIInv, PTL DEF Spec
<1> QED
  BY <1>1, StepOnce, SpecIInv, PTL DEF Spec, OnceUnlessTroubled
=============================================================================
