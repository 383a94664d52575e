------------------------ MODULE ClusterEngine_proofs ------------------------
(***************************************************************************)
(* Safety of ClusterLease and ClusterEngine for every set of nodes, calls   *)
(* and worlds and every length of leases and heartbeats.                   *)
(*                                                                         *)
(* IInv, of ClusterLease alone, keeps the row of a prompt holder from being   *)
(* taken; HoldersHave adds that a node that counts on the key has the row      *)
(* unless it has slipped; OpenersHold that engines rest on a key that is       *)
(* counted on, unless a lease was given up early.  The circumstances are       *)
(* part of the state: nodes evict, stop, die and fail as they like.            *)
(***************************************************************************)
EXTENDS ClusterEngine, TLAPS

\* What the theorems ask of a cluster: a heartbeat fits into a lease
\* (cluster.heartbeat_seconds, cluster.lease_seconds), and a process has its
\* node id for itself (cluster.node_id is not set).
Configured == BeatTime <= LeaseTime /\ ~SameId

-----------------------------------------------------------------------------
(* ClusterLease.                                                            *)

\* Whoever has, or had, the row has been started.
HoldersStarted ==
  /\ lease # None => up[lease.node] # "off"
  /\ \A c \in Call : call[c].holder # None => up[call[c].holder] # "off"

\* A call that has to register first is one of a node that is stopping.
RegistersWhenStopping == \A c \in Call : call[c].pc = "register" => up[call[c].node] # "on"

\* A prompt node's row of cluster_nodes is a heartbeat old at most, and what a
\* heartbeat or a call has read from the clock is the time.
BeatsAreFresh ==
  \A n \in Node : up[n] = "on" => /\ beat[n] # None
                                  /\ beat[n] <= now /\ now <= beat[n] + BeatTime
                                  /\ hb[n].pc # "idle" => hb[n].at = now /\ beat[n] = now
ClocksAreRead ==
  /\ \A n \in Node : hb[n].at <= now
  /\ \A c \in Call : call[c].pc # "idle" => call[c].at = now

\* The row of a node that counts on it lasts until its next heartbeat renews it.
RowLasts ==
  \A n \in Node : up[n] = "on" /\ n \in held /\ Mine(n) =>
    /\ lease.expires >= now
    /\ hb[n].pc # "renew" => lease.expires >= beat[n] + LeaseTime

\* What a call finds to be its node's row was written at this time.
ReadsAreFresh ==
  \A c \in Call : call[c].pc = "read" /\ up[call[c].node] = "on" /\ Mine(call[c].node) =>
    lease.expires >= now + LeaseTime

TakesFromTheDead == \A c \in Call : call[c].pc = "take" => up[call[c].holder] # "on"

Prompt == BeatsAreFresh /\ ClocksAreRead /\ RowLasts /\ ReadsAreFresh /\ TakesFromTheDead

IInv == TypeOK /\ HoldersStarted /\ RegistersWhenStopping /\ (world.prompt => Prompt)

-----------------------------------------------------------------------------
(* Who counts on the lease, and what rests on it.                           *)

\* A running node that counts on the key has its row.
HoldersHave == \A n \in held : up[n] = "on" => Mine(n)

HInv == IInv /\ (world.prompt /\ ~slipped => HoldersHave)

\* A node whose engine, or whose call, rests on the lease.
Relies(n) == engine[n] # "none" \/ \E c \in Call : call[c].node = n /\ call[c].pc = "self"

OpenersHold == \A n \in Node : up[n] = "on" /\ Relies(n) => n \in held

EngineTypes ==
  /\ engine \in [Node -> {"none", "opening", "open"}]
  /\ \A n \in Node : ~Running(n) => engine[n] = "none"

EInv == HInv /\ EngineTypes /\ (world.prompt /\ ~slipped /\ ~early => OpenersHold)

-----------------------------------------------------------------------------
(* The type invariant.                                                      *)

CallRecord == [node : Node \cup {None}, pc : CallPlaces, at : 0 .. MaxTime, holder : Node \cup {None}]
BeatRecord == [pc : HbPlaces, at : 0 .. MaxTime]

LEMMA TypeFacts ==
  ASSUME TypeOK
  PROVE  /\ world \in World /\ world.until \in 0 .. MaxTime
         /\ now \in 0 .. MaxTime /\ MaxTime \in Nat
         /\ call \in [Call -> CallRecord] /\ hb \in [Node -> BeatRecord]
<1>1. world \in World
  BY WorldAssumption DEF TypeOK
<1> QED
  BY <1>1, TimeAssumption DEF TypeOK, World, CallRecord, BeatRecord

LEMMA TypeInit == Init => TypeOK
<1> SUFFICES ASSUME Init PROVE TypeOK
  OBVIOUS
<1>1. 0 \in 0 .. MaxTime
  BY TimeAssumption
<1>2. /\ beat \in [Node -> 0 .. MaxTime \cup {None}]
      /\ up \in [Node -> {"off", "on", "stopping", "leaving", "gone"}]
  BY DEF Init
<1>3. hb \in [Node -> BeatRecord] /\ call \in [Call -> CallRecord]
  BY <1>1 DEF Init, NoBeat, NoCall, BeatRecord, CallRecord, HbPlaces, CallPlaces
<1>4. /\ \A n \in Node : ~Running(n) => n \notin held /\ hb[n].pc = "idle"
      /\ \A c \in Call : call[c].pc = "idle"
  BY DEF Init, NoBeat, NoCall
<1> QED
  BY <1>1, <1>2, <1>3, <1>4 DEF Init, TypeOK, BeatRecord, CallRecord

\* What has slipped stays so.
LEMMA SlippedStays ==
  ASSUME TypeOK, [Next]_vars PROVE slipped' \in BOOLEAN /\ (slipped => slipped')
<1>0. slipped \in BOOLEAN
  BY DEF TypeOK
<1>1. ASSUME NEW c \in Call, CallStep(c) \/ Return(c) \/ \E n \in Node : Acquire(c, n)
      PROVE  slipped' \in BOOLEAN /\ (slipped => slipped')
  <2>1. CASE ReadMine(c)
    BY <1>0, <2>1, Zenon DEF ReadMine
  <2>2. CASE Peek(c)
    BY <1>0, <2>2, Zenon DEF Peek
  <2>3. CASE ~ReadMine(c) /\ ~Peek(c)
    <3>1. slipped' = slipped
      BY <1>1, <2>3 DEF CallStep, Return, Acquire, Register, Upsert, ReadOther, Take, AcquireFails
    <3> QED
      BY <1>0, <3>1
  <2> QED
    BY <2>1, <2>2, <2>3
<1>2. ASSUME NEW n \in Node, NodeStep(n) \/ BeatStep(n) \/ Release(n) \/ RunWrite(n) \/ LoseWrite(n)
      PROVE  slipped' \in BOOLEAN /\ (slipped => slipped')
  <2>1. CASE RunWrite(n)
    BY <1>0, <2>1, Zenon DEF RunWrite
  <2>2. CASE Lost(n)
    BY <1>0, <2>2, Zenon DEF Lost
  <2>3. CASE ~RunWrite(n) /\ ~Lost(n)
    <3>1. slipped' = slipped
      BY <1>2, <2>3 DEF NodeStep, Start, Stop, StopLeases, StopNode, Crash, BeatStep, Beat, Renew, Check,
            Forget, BeatFails, Release, LoseWrite
    <3> QED
      BY <1>0, <3>1
  <2> QED
    BY <2>1, <2>2, <2>3
<1>3. CASE Tick \/ UNCHANGED vars
  <2>1. slipped' = slipped
    BY <1>3 DEF Tick, vars
  <2> QED
    BY <1>0, <2>1
<1> QED
  BY <1>1, <1>2, <1>3 DEF Next

\* Every step of a call leaves the others alone.
CallFits(r) ==
  /\ r.pc # "idle" => r.node \in Node /\ Running(r.node)
  /\ r.pc \in {"peek", "take", "remote"} => r.holder \in Node \ {r.node}

LEMMA TypeCall ==
  ASSUME TypeOK, NEW c \in Call, NEW r \in CallRecord, call' = [call EXCEPT ![c] = r], CallFits(r),
         UNCHANGED <<world, now, up, hb>>,
         lease' \in Row \cup {None}, writes' \in SUBSET Node,
         beat' \in [Node -> 0 .. MaxTime \cup {None}],
         held' \in SUBSET Node, \A n \in held' : n \in held \/ Running(n), slipped' \in BOOLEAN
  PROVE  TypeOK'
<1>1. call' \in [Call -> CallRecord]
  BY TypeFacts
<1>2. \A d \in Call : call'[d] = IF d = c THEN r ELSE call[d]
  BY TypeFacts
<1>3. \A d \in Call : CallFits(call'[d])
  BY <1>2 DEF TypeOK, CallFits
<1>4. \A n \in Node : Running(n)' <=> Running(n)
  BY DEF Running
<1>5. \A d \in Call : /\ (call[d].pc # "idle" => call[d].node \in Node /\ Running(call[d].node))'
                      /\ call'[d].pc \in {"peek", "take", "remote"} => call'[d].holder \in Node \ {call'[d].node}
  BY <1>3, <1>4 DEF CallFits
<1>6. \A n \in Node : ~Running(n)' => n \notin held' /\ hb'[n].pc = "idle"
  BY <1>4 DEF TypeOK
<1>7. /\ world' \in Worlds /\ now' \in 0 .. MaxTime /\ hb' \in [Node -> BeatRecord]
      /\ up' \in [Node -> {"off", "on", "stopping", "leaving", "gone"}]
  BY TypeFacts DEF TypeOK
<1> QED
  BY <1>1, <1>5, <1>6, <1>7 DEF TypeOK, CallRecord, BeatRecord

LEMMA TypeCallStep ==
  ASSUME TypeOK, NEW c \in Call, CallStep(c) \/ Return(c) \/ \E n \in Node : Acquire(c, n)
  PROVE  TypeOK'
<1> DEFINE r == call'[c]
<1>1. call[c] \in CallRecord /\ CallFits(call[c]) /\ lease \in Row \cup {None}
  BY TypeFacts DEF TypeOK, CallFits
<1>2. now \in 0 .. MaxTime
  BY DEF TypeOK
<1>3. /\ UNCHANGED <<world, now, up, hb, writes>>
      /\ UNCHANGED beat \/ beat' = [beat EXCEPT ![call[c].node] = now]
      /\ UNCHANGED lease \/ lease' = taken(call[c].node, call[c].at)
      /\ \/ UNCHANGED held \/ held' = held \ {call[c].node}
         \/ held' = held \cup {call[c].node} /\ call[c].pc # "idle"
  BY DEF CallStep, Return, Acquire, Register, Upsert, ReadMine, ReadOther, Peek, Take, AcquireFails, goto, tables
<1>4. /\ writes' \in SUBSET Node
      /\ beat' \in [Node -> 0 .. MaxTime \cup {None}]
  BY <1>2, <1>3 DEF TypeOK
<1>5. lease' \in Row \cup {None}
  <2>1. call[c].pc # "idle" => taken(call[c].node, call[c].at) \in Row
    BY <1>1, TimeAssumption DEF CallFits, CallRecord, taken, Row
  <2>2. call[c].pc = "idle" => UNCHANGED lease
    BY DEF CallStep, Return, Acquire, Register, Upsert, ReadMine, ReadOther, Peek, Take, AcquireFails, tables
  <2> QED
    BY <1>1, <1>3, <2>1, <2>2
<1>6. held' \in SUBSET Node /\ \A n \in held' : n \in held \/ Running(n)
  BY <1>1, <1>3 DEF CallFits, TypeOK
<1>7. \E s \in CallRecord : CallFits(s) /\ call' = [call EXCEPT ![c] = s]
  <2>1. CASE Return(c) \/ AcquireFails(c)
    <3>1. NoCall \in CallRecord /\ CallFits(NoCall)
      BY TimeAssumption DEF NoCall, CallRecord, CallPlaces, CallFits
    <3> QED
      BY <2>1, <3>1 DEF Return, AcquireFails
  <2>2. ASSUME NEW n \in Node, Running(n)
        PROVE  ask(n) \in CallRecord /\ CallFits(ask(n))
    BY <1>2, <2>2 DEF ask, CallRecord, CallPlaces, CallFits
  <2>3. ASSUME NEW n \in Node, Acquire(c, n)
        PROVE  \E s \in CallRecord : CallFits(s) /\ call' = [call EXCEPT ![c] = s]
    BY <2>2, <2>3 DEF Acquire
  <2>4. CASE Register(c)
    <3> DEFINE s == [call[c] EXCEPT !.pc = "upsert", !.at = now]
    <3>1. s \in CallRecord /\ CallFits(s)
      BY <1>1, <1>2, <2>4 DEF CallRecord, CallPlaces, CallFits, Register
    <3>2. call' = [call EXCEPT ![c] = s]
      BY <2>4 DEF Register
    <3> QED
      BY <3>1, <3>2
  <2>5. ASSUME NEW p \in CallPlaces \ {"idle"}, goto(c, p), call[c].pc # "idle",
               p \in {"peek", "take", "remote"} => call[c].pc \in {"peek", "take", "remote"}
        PROVE  \E s \in CallRecord : CallFits(s) /\ call' = [call EXCEPT ![c] = s]
    <3> DEFINE s == [call[c] EXCEPT !.pc = p]
    <3>1. s \in CallRecord /\ CallFits(s)
      BY <1>1, <2>5 DEF CallRecord, CallPlaces, CallFits
    <3>2. call' = [call EXCEPT ![c] = s]
      BY <2>5 DEF goto
    <3> QED
      BY <3>1, <3>2
  <2>6. CASE Upsert(c) \/ ReadMine(c) \/ Peek(c)
    BY <2>5, <2>6 DEF Upsert, ReadMine, Peek, CallPlaces
  <2>7. CASE ReadOther(c)
    <3> DEFINE s == [call[c] EXCEPT !.pc = "peek", !.holder = lease.node]
    <3>1. lease.node \in Node \ {call[c].node}
      BY <1>1, <2>7 DEF ReadOther, Mine, Row
    <3>2. s \in CallRecord /\ CallFits(s)
      BY <1>1, <2>7, <3>1 DEF CallRecord, CallPlaces, CallFits, ReadOther
    <3>3. call' = [call EXCEPT ![c] = s]
      BY <2>7 DEF ReadOther
    <3> QED
      BY <3>2, <3>3
  <2>8. CASE Take(c)
    BY <1>1, <2>2, <2>5, <2>8 DEF Take, CallFits, CallPlaces
  <2> QED
    BY <2>1, <2>3, <2>4, <2>6, <2>7, <2>8 DEF CallStep
<1>8. slipped' \in BOOLEAN
  BY SlippedStays DEF Next
<1> QED
  BY <1>3, <1>4, <1>5, <1>6, <1>7, <1>8, TypeCall

LEMMA TypeNodeStep ==
  ASSUME TypeOK, NEW n \in Node, NodeStep(n) PROVE TypeOK'
<1>1. now \in 0 .. MaxTime
  BY DEF TypeOK
<1>2. CASE Start(n)
  <2>1. /\ up' \in [Node -> {"off", "on", "stopping", "leaving", "gone"}]
        /\ beat' \in [Node -> 0 .. MaxTime \cup {None}]
        /\ \A m \in Node : Running(m) => Running(m)'
    BY <1>1, <1>2 DEF TypeOK, Start, Running
  <2> QED
    BY <1>2, <2>1 DEF TypeOK, Start
<1>3. CASE Stop(n) \/ StopLeases(n)
  <2>1. /\ up' \in [Node -> {"off", "on", "stopping", "leaving", "gone"}]
        /\ \A m \in Node : Running(m)' <=> Running(m)
    BY <1>3 DEF TypeOK, Stop, StopLeases, Running
  <2>2. lease' \in Row \cup {None}
    BY <1>3 DEF TypeOK, Stop, StopLeases
  <2> QED
    BY <1>3, <2>1, <2>2 DEF TypeOK, Stop, StopLeases
<1>4. CASE StopNode(n) \/ Crash(n)
  <2>1. exit(n) /\ UNCHANGED <<world, now, lease, writes, slipped>> /\ beat' \in [Node -> 0 .. MaxTime \cup {None}]
    BY <1>4 DEF TypeOK, StopNode, Crash, tables
  <2>2. up' \in [Node -> {"off", "on", "stopping", "leaving", "gone"}]
    BY <2>1 DEF TypeOK, exit
  <2>3. \A m \in Node : Running(m)' <=> Running(m) /\ m # n
    BY <1>4, <2>1 DEF TypeOK, exit, Running
  <2>4. NoBeat \in BeatRecord /\ NoCall \in CallRecord
    BY TimeAssumption DEF NoBeat, NoCall, BeatRecord, CallRecord, HbPlaces, CallPlaces
  <2>5. hb' \in [Node -> BeatRecord] /\ call' \in [Call -> CallRecord]
    BY <2>1, <2>4, TypeFacts DEF exit
  <2>6. /\ held' \in SUBSET Node
        /\ \A m \in Node : ~Running(m)' => m \notin held' /\ hb'[m].pc = "idle"
    BY <2>1, <2>3, TypeFacts DEF TypeOK, exit, NoBeat
  <2>7. \A c \in Call : call'[c] = NoCall \/ (call'[c] = call[c] /\ call[c].node # n)
    BY <2>1 DEF exit
  <2>8. NoCall.pc = "idle"
    BY DEF NoCall
  <2>9. \A c \in Call :
          /\ (call[c].pc # "idle" => call[c].node \in Node /\ Running(call[c].node))'
          /\ call'[c].pc \in {"peek", "take", "remote"} => call'[c].holder \in Node \ {call'[c].node}
    BY <2>3, <2>7, <2>8 DEF TypeOK
  <2> QED
    BY <2>1, <2>2, <2>5, <2>6, <2>9 DEF TypeOK, BeatRecord, CallRecord
<1> QED
  BY <1>2, <1>3, <1>4 DEF NodeStep

LEMMA TypeBeatStep ==
  ASSUME TypeOK, NEW n \in Node, BeatStep(n) PROVE TypeOK'
<1>1. /\ UNCHANGED <<world, now, writes, up, call>>
      /\ held' \in SUBSET Node /\ held' \subseteq held
  BY DEF BeatStep, Beat, Renew, Check, Lost, Forget, BeatFails, tables, TypeOK
<1>2. hb[n] \in BeatRecord /\ now \in 0 .. MaxTime /\ hb \in [Node -> BeatRecord]
  BY TypeFacts
<1>3. \E s \in BeatRecord : hb' = [hb EXCEPT ![n] = s] /\ (s.pc = "idle" \/ Running(n))
  <2>1. CASE Beat(n)
    <3> DEFINE s == [pc |-> IF n \in held THEN "renew" ELSE "forget", at |-> now]
    <3>1. s \in BeatRecord /\ Running(n)
      BY <1>2, <2>1 DEF BeatRecord, HbPlaces, Beat, Running
    <3> QED
      BY <2>1, <3>1 DEF Beat
  <2>2. CASE Forget(n) \/ BeatFails(n)
    <3>1. NoBeat \in BeatRecord /\ NoBeat.pc = "idle"
      BY TimeAssumption DEF NoBeat, BeatRecord, HbPlaces
    <3> QED
      BY <2>2, <3>1 DEF Forget, BeatFails
  <2>3. ASSUME NEW p \in HbPlaces, hb' = [hb EXCEPT ![n].pc = p], hb[n].pc # "idle"
        PROVE  \E s \in BeatRecord : hb' = [hb EXCEPT ![n] = s] /\ (s.pc = "idle" \/ Running(n))
    <3> DEFINE s == [hb[n] EXCEPT !.pc = p]
    <3>1. s \in BeatRecord /\ Running(n)
      BY <1>2, <2>3 DEF BeatRecord, TypeOK
    <3>2. hb' = [hb EXCEPT ![n] = s]
      BY <2>3
    <3> QED
      BY <3>1, <3>2
  <2>4. CASE Renew(n) \/ Check(n) \/ Lost(n)
    BY <2>3, <2>4 DEF Renew, Check, Lost, HbPlaces
  <2> QED
    BY <2>1, <2>2, <2>4 DEF BeatStep
<1>4. hb' \in [Node -> BeatRecord] /\ \A m \in Node : hb'[m].pc = "idle" \/ hb'[m] = hb[m] \/ Running(m)
  BY <1>2, <1>3
<1>5. lease' \in Row \cup {None}
  <2>1. ASSUME lease \in Row, NEW t \in Nat PROVE [lease EXCEPT !.expires = t] \in Row
    BY <2>1 DEF Row
  <2>2. hb[n].at + LeaseTime \in Nat
    BY <1>2, TimeAssumption DEF BeatRecord
  <2>3. CASE Renew(n)
    <3>1. Mine(n) => lease \in Row
      BY DEF TypeOK, Mine
    <3>2. lease' = IF Mine(n) THEN [lease EXCEPT !.expires = hb[n].at + LeaseTime] ELSE lease
      BY <2>3 DEF Renew
    <3> QED
      BY <2>1, <2>2, <3>1, <3>2 DEF TypeOK
  <2>4. CASE ~Renew(n)
    BY <2>4 DEF BeatStep, Beat, Check, Lost, Forget, BeatFails, tables, TypeOK
  <2> QED
    BY <2>3, <2>4
<1>6. beat' \in [Node -> 0 .. MaxTime \cup {None}]
  <2>1. CASE Beat(n)
    BY <1>2, <2>1 DEF Beat, TypeOK
  <2>2. CASE Forget(n)
    BY <2>2 DEF Forget, forgotten, TypeOK
  <2>3. CASE ~Beat(n) /\ ~Forget(n)
    BY <2>3 DEF BeatStep, Renew, Check, Lost, BeatFails, tables, TypeOK
  <2> QED
    BY <2>1, <2>2, <2>3
<1>7. \A m \in Node : Running(m)' <=> Running(m)
  BY <1>1 DEF Running
<1>8. slipped' \in BOOLEAN
  BY SlippedStays DEF Next
<1> QED
  BY <1>1, <1>4, <1>5, <1>6, <1>7, <1>8 DEF TypeOK, BeatRecord

LEMMA TypeNext == TypeOK /\ [Next]_vars => TypeOK'
<1> SUFFICES ASSUME TypeOK, [Next]_vars PROVE TypeOK'
  OBVIOUS
<1>1. CASE Tick
  <2>1. now' \in 0 .. MaxTime /\ world.until \in 0 .. MaxTime
    BY <1>1, TypeFacts DEF Tick
  <2> QED
    BY <1>1, <2>1 DEF Tick, TypeOK, Running
<1>2. ASSUME NEW n \in Node, Release(n) \/ RunWrite(n) \/ LoseWrite(n) PROVE TypeOK'
  <2>1. /\ UNCHANGED <<world, now, beat, up, hb, call>>
        /\ held' \in SUBSET Node /\ held' \subseteq held
        /\ writes' \in SUBSET Node /\ lease' \in Row \cup {None}
    BY <1>2 DEF Release, RunWrite, LoseWrite, TypeOK
  <2> QED
    BY <2>1, SlippedStays DEF TypeOK, Running
<1>3. CASE UNCHANGED vars
  BY <1>3 DEF vars, TypeOK, Running
<1> QED
  BY <1>1, <1>2, <1>3, TypeCallStep, TypeNodeStep, TypeBeatStep DEF Next

\* Every variable keeps its type, in every world and whatever the times.
THEOREM TypeCorrect == Spec => []TypeOK
BY TypeInit, TypeNext, PTL DEF Spec

-----------------------------------------------------------------------------
(* The lease of a prompt holder.                                            *)

LEMMA Numbers ==
  ASSUME TypeOK
  PROVE  /\ LeaseTime \in Nat /\ BeatTime \in Nat /\ ForgetTime \in Nat /\ ForgetTime >= LeaseTime
         /\ now \in Nat
         /\ \A n \in Node : hb[n].at \in Nat /\ (beat[n] # None => beat[n] \in Nat)
         /\ \A c \in Call : call[c].at \in Nat
         /\ lease # None => lease \in Row /\ lease.node \in Node /\ lease.expires \in Nat
<1>1. 0 .. MaxTime \subseteq Nat
  BY TimeAssumption
<1>2. /\ now \in Nat
      /\ \A n \in Node : beat[n] # None => beat[n] \in Nat
      /\ lease # None => lease \in Row /\ lease.node \in Node /\ lease.expires \in Nat
  BY <1>1 DEF TypeOK, Row
<1>3. (\A n \in Node : hb[n].at \in Nat) /\ \A c \in Call : call[c].at \in Nat
  BY <1>1, TypeFacts DEF BeatRecord, CallRecord
<1> QED
  BY <1>2, <1>3, TimeAssumption

\* A row that has just been taken.
LEMMA Taken ==
  ASSUME NEW n \in Node, NEW t \in Nat
  PROVE  /\ taken(n, t) # None /\ taken(n, t).node = n /\ taken(n, t).expires = t + LeaseTime
<1>1. taken(n, t) \in [node : Node, expires : Nat]
  BY TimeAssumption DEF taken
<1> QED
  BY <1>1, NoneAssumption DEF taken

\* The upsert and the takeover write a fresh row of the call's node, a
\* heartbeat renews its own, and nothing else but a deletion changes the row.
LEMMA LeaseMoves ==
  ASSUME TypeOK, [Next]_vars, lease' # lease
  PROVE  \/ lease' = None
         \/ \E c \in Call : /\ Upsert(c) \/ Take(c)
                            /\ lease' = taken(call[c].node, call[c].at)
                            /\ call[c].node \in Node /\ Running(call[c].node)
                            /\ Upsert(c) => \/ lease = None \/ Mine(call[c].node)
                                            \/ lease.expires < call[c].at
                            /\ Take(c) => Mine(call[c].holder) /\ call[c].pc = "take"
         \/ \E n \in Node : /\ Renew(n) /\ Mine(n) /\ Mine(n)'
                            /\ lease'.expires = hb[n].at + LeaseTime
<1>1. ASSUME NEW c \in Call, Upsert(c) \/ Take(c)
      PROVE  /\ lease' = taken(call[c].node, call[c].at)
             /\ call[c].node \in Node /\ Running(call[c].node)
             /\ Upsert(c) => \/ lease = None \/ Mine(call[c].node)
                             \/ lease.expires < call[c].at
             /\ Take(c) => Mine(call[c].holder) /\ call[c].pc = "take"
  <2>1. call[c].pc # "idle"
    BY <1>1 DEF Upsert, Take
  <2>2. call[c].node \in Node /\ Running(call[c].node)
    BY <2>1 DEF TypeOK
  <2> QED
    BY <1>1, <2>2 DEF Upsert, Take
<1>2. ASSUME NEW n \in Node, Renew(n)
      PROVE  Mine(n) /\ Mine(n)' /\ lease'.expires = hb[n].at + LeaseTime
  <2>1. Mine(n) /\ lease' = [lease EXCEPT !.expires = hb[n].at + LeaseTime]
    BY <1>2 DEF Renew
  <2>2. lease \in Row /\ hb[n].at + LeaseTime \in Nat
    BY <2>1, Numbers DEF Mine
  <2>3. lease' \in Row /\ lease'.node = lease.node /\ lease'.expires = hb[n].at + LeaseTime
    BY <2>1, <2>2 DEF Row
  <2>4. lease' # None
    BY <2>3, NoneAssumption DEF Row
  <2> QED
    BY <2>1, <2>3, <2>4 DEF Mine
<1>3. ASSUME NEW n \in Node, NodeStep(n) \/ Release(n) \/ RunWrite(n) \/ LoseWrite(n) PROVE lease' = None
  BY <1>3 DEF NodeStep, Start, Stop, StopLeases, StopNode, Crash, tables, Release, RunWrite, LoseWrite
<1>4. ASSUME NEW n \in Node, BeatStep(n) PROVE Renew(n)
  BY <1>4 DEF BeatStep, Beat, Check, Lost, Forget, BeatFails, tables
<1>5. ASSUME NEW c \in Call, CallStep(c) PROVE Upsert(c) \/ Take(c)
  BY <1>5 DEF CallStep, Register, ReadMine, ReadOther, Peek, AcquireFails, tables
<1>6. ASSUME NEW c \in Call PROVE ~Return(c) /\ \A n \in Node : ~Acquire(c, n)
  BY DEF Return, Acquire, tables
<1>7. ~Tick /\ ~UNCHANGED vars
  BY DEF Tick, vars
<1> QED
  BY <1>1, <1>2, <1>3, <1>4, <1>5, <1>6, <1>7 DEF Next

\* How a node's life goes on, when its id does not come back.
LEMMA UpMoves ==
  ASSUME TypeOK, ~SameId, [Next]_vars, NEW n \in Node
  PROVE  /\ up[n] # "off" => up'[n] # "off"
         /\ up'[n] = "on" => up[n] = "on" \/ Start(n)
<1>1. ASSUME NEW m \in Node, NodeStep(m)
      PROVE  /\ up[n] # "off" => up'[n] # "off"
             /\ up'[n] = "on" => up[n] = "on" \/ Start(n)
  BY <1>1 DEF NodeStep, Start, Stop, StopLeases, StopNode, Crash, exit, TypeOK
<1>2. ASSUME NEW m \in Node, BeatStep(m) \/ Release(m) \/ RunWrite(m) \/ LoseWrite(m) PROVE UNCHANGED up
  BY <1>2 DEF BeatStep, Beat, Renew, Check, Lost, Forget, BeatFails, Release, RunWrite, LoseWrite
<1>3. ASSUME NEW c \in Call, CallStep(c) \/ Return(c) \/ \E m \in Node : Acquire(c, m) PROVE UNCHANGED up
  BY <1>3 DEF CallStep, Return, Acquire, Register, Upsert, ReadMine, ReadOther, Peek, Take, AcquireFails
<1>4. Tick \/ UNCHANGED vars => UNCHANGED up
  BY DEF Tick, vars
<1> QED
  BY <1>1, <1>2, <1>3, <1>4 DEF Next

\* A call goes to another place, and remembers the rest.
Goes(c, p) ==
  /\ call'[c].pc = p
  /\ call'[c].node = call[c].node /\ call'[c].at = call[c].at /\ call'[c].holder = call[c].holder

\* It begins, or begins again.
Asks(c, n) ==
  /\ call'[c].pc = IF up[n] = "on" THEN "upsert" ELSE "register"
  /\ call'[c].node = n /\ call'[c].at = now /\ call'[c].holder = None

\* It finds another node's row.
Sees(c) ==
  /\ call'[c].pc = "peek"
  /\ call'[c].node = call[c].node /\ call'[c].at = call[c].at /\ call'[c].holder = lease.node

Registers(c) ==
  /\ call'[c].pc = "upsert"
  /\ call'[c].node = call[c].node /\ call'[c].at = now /\ call'[c].holder = call[c].holder

Ends(c) ==
  /\ call'[c].pc = "idle" /\ call'[c].node = None /\ call'[c].holder = None
  /\ Return(c) \/ AcquireFails(c) \/ \E n \in Node : call[c].node = n /\ (StopNode(n) \/ Crash(n))

Moves(c) ==
  \/ call'[c] = call[c]
  \/ Ends(c)
  \/ \E n \in Node : Acquire(c, n) /\ Running(n) /\ Asks(c, n)
  \/ Take(c) /\ ~Mine(call[c].holder) /\ Running(call[c].node) /\ call[c].node \in Node /\ Asks(c, call[c].node)
  \/ Register(c) /\ Registers(c)
  \/ Upsert(c) /\ Goes(c, "read")
  \/ ReadMine(c) /\ Goes(c, "self")
  \/ Take(c) /\ Mine(call[c].holder) /\ Goes(c, "self")
  \/ ReadOther(c) /\ Sees(c)
  \/ Peek(c) /\ Silent(call[c].holder, call[c].at) /\ Goes(c, "take")
  \/ Peek(c) /\ ~Silent(call[c].holder, call[c].at) /\ Goes(c, "remote")

\* What a step makes of a call.
LEMMA CallMoves == ASSUME TypeOK, [Next]_vars, NEW c \in Call PROVE Moves(c)
<1>0. call \in [Call -> CallRecord] /\ \A d \in Call : call[d] \in CallRecord
  BY TypeFacts
<1>a. ASSUME NEW d \in Call, NEW r, call' = [call EXCEPT ![d] = r]
      PROVE  call'[c] = IF c = d THEN r ELSE call[c]
  BY <1>0, <1>a
<1>b. ASSUME NEW d \in Call, NEW p, goto(d, p)
      PROVE  d # c => call'[c] = call[c]
  BY <1>0, <1>b DEF goto
<1>c. ASSUME NEW p, goto(c, p) PROVE Goes(c, p)
  <2>1. call'[c] = [call[c] EXCEPT !.pc = p] /\ call[c] \in CallRecord
    BY <1>0, <1>c DEF goto
  <2> QED
    BY <2>1 DEF Goes, CallRecord
<1>d. ASSUME NEW n \in Node, call'[c] = ask(n) PROVE Asks(c, n)
  BY <1>d DEF ask, Asks
<1>e. NoCall.pc = "idle" /\ NoCall.node = None /\ NoCall.holder = None
  BY DEF NoCall
<1>3. ASSUME NEW d \in Call, NEW n \in Node, Acquire(d, n) PROVE Moves(c)
  <2>1. d = c => call'[c] = ask(n)
    BY <1>a, <1>3 DEF Acquire
  <2>2. d # c => call'[c] = call[c]
    BY <1>a, <1>3 DEF Acquire
  <2> QED
    BY <1>d, <1>3, <2>1, <2>2 DEF Acquire, Moves
<1>4. ASSUME NEW d \in Call, Return(d) \/ AcquireFails(d) PROVE Moves(c)
  <2>1. IF d = c THEN call'[c] = NoCall ELSE call'[c] = call[c]
    BY <1>a, <1>4 DEF Return, AcquireFails
  <2> QED
    BY <1>4, <1>e, <2>1 DEF Moves, Ends
<1>5. ASSUME NEW d \in Call, Register(d) PROVE Moves(c)
  <2>1. call' = [call EXCEPT ![d] = [call[d] EXCEPT !.pc = "upsert", !.at = now]]
    BY <1>0, <1>5 DEF Register
  <2>2. d # c => call'[c] = call[c]
    BY <1>a, <2>1
  <2>3. d = c => Registers(c)
    <3>1. d = c => call'[c] = [call[c] EXCEPT !.pc = "upsert", !.at = now] /\ call[c] \in CallRecord
      BY <1>0, <1>a, <2>1
    <3> QED
      BY <3>1 DEF CallRecord, Registers
  <2> QED
    BY <1>5, <2>2, <2>3 DEF Moves
<1>6. ASSUME NEW d \in Call, Upsert(d) PROVE Moves(c)
  BY <1>b, <1>c, <1>6 DEF Upsert, Moves
<1>7. ASSUME NEW d \in Call, ReadMine(d) PROVE Moves(c)
  BY <1>b, <1>c, <1>7 DEF ReadMine, Moves
<1>8. ASSUME NEW d \in Call, ReadOther(d) PROVE Moves(c)
  <2>1. call' = [call EXCEPT ![d] = [call[d] EXCEPT !.pc = "peek", !.holder = lease.node]]
    BY <1>0, <1>8 DEF ReadOther
  <2>2. d # c => call'[c] = call[c]
    BY <1>a, <2>1
  <2>3. d = c => Sees(c)
    <3>1. d = c => call'[c] = [call[c] EXCEPT !.pc = "peek", !.holder = lease.node] /\ call[c] \in CallRecord
      BY <1>0, <1>a, <2>1
    <3> QED
      BY <3>1 DEF CallRecord, Sees
  <2> QED
    BY <1>8, <2>2, <2>3 DEF Moves
<1>9. ASSUME NEW d \in Call, Peek(d) PROVE Moves(c)
  <2>1. CASE Silent(call[d].holder, call[d].at)
    BY <1>b, <1>c, <1>9, <2>1 DEF Peek, Moves
  <2>2. CASE ~Silent(call[d].holder, call[d].at)
    BY <1>b, <1>c, <1>9, <2>2 DEF Peek, Moves
  <2> QED
    BY <2>1, <2>2
<1>10. ASSUME NEW d \in Call, Take(d) PROVE Moves(c)
  <2>1. Running(call[d].node) /\ call[d].node \in Node
    BY <1>10 DEF Take, TypeOK
  <2>2. CASE Mine(call[d].holder)
    BY <1>b, <1>c, <1>10, <2>2 DEF Take, Moves
  <2>3. CASE ~Mine(call[d].holder)
    <3>1. call' = [call EXCEPT ![d] = ask(call[d].node)]
      BY <1>10, <2>3 DEF Take
    <3>2. d = c => call'[c] = ask(call[c].node)
      BY <1>a, <3>1
    <3>3. d # c => call'[c] = call[c]
      BY <1>a, <3>1
    <3> QED
      BY <1>d, <1>10, <2>1, <2>3, <3>2, <3>3 DEF Moves
  <2> QED
    BY <2>2, <2>3
<1>11. ASSUME NEW n \in Node, NodeStep(n) PROVE Moves(c)
  <2>1. \/ call'[c] = call[c]
        \/ call'[c] = NoCall /\ call[c].node = n /\ (StopNode(n) \/ Crash(n))
    BY <1>11 DEF NodeStep, Start, Stop, StopLeases, StopNode, Crash, exit
  <2> QED
    BY <1>e, <2>1 DEF Moves, Ends
<1>12. ASSUME NEW n \in Node, BeatStep(n) \/ Release(n) \/ RunWrite(n) \/ LoseWrite(n) PROVE Moves(c)
  BY <1>12 DEF BeatStep, Beat, Renew, Check, Lost, Forget, BeatFails, Release, RunWrite, LoseWrite, Moves
<1>13. CASE Tick \/ UNCHANGED vars
  BY <1>13 DEF Tick, vars, Moves
<1> QED
  BY <1>3, <1>4, <1>5, <1>6, <1>7, <1>8, <1>9, <1>10, <1>11, <1>12, <1>13 DEF Next, CallStep

\* A heartbeat goes to another place, and remembers the time it read.
BeatGoes(n, p) == hb'[n].pc = p /\ hb'[n].at = hb[n].at

BeatMovesTo(n) ==
  \/ hb'[n] = hb[n] /\ ~Renew(n)
  \/ hb'[n].pc = "idle" /\ hb'[n].at = 0 /\ ~Renew(n)
  \/ Beat(n) /\ hb'[n].pc = (IF n \in held THEN "renew" ELSE "forget") /\ hb'[n].at = now
  \/ Renew(n) /\ BeatGoes(n, "check")
  \/ Check(n) /\ BeatGoes(n, IF Mine(n) THEN "forget" ELSE "lost")
  \/ Lost(n) /\ BeatGoes(n, "forget")

\* What a step makes of a heartbeat.
LEMMA BeatMoves == ASSUME TypeOK, [Next]_vars, NEW n \in Node PROVE BeatMovesTo(n)
<1>0. hb \in [Node -> BeatRecord] /\ hb[n] \in BeatRecord
  BY TypeFacts
<1>a. ASSUME NEW p, hb' = [hb EXCEPT ![n].pc = p] PROVE BeatGoes(n, p)
  <2>1. hb'[n] = [hb[n] EXCEPT !.pc = p]
    BY <1>0, <1>a
  <2> QED
    BY <1>0, <2>1 DEF BeatGoes, BeatRecord
<1>b. Renew(n) => hb'[n].pc = "check" /\ hb[n].pc = "renew"
  BY <1>a DEF Renew, BeatGoes
<1>c. hb'[n] = hb[n] \/ hb'[n] = NoBeat => BeatMovesTo(n)
  BY <1>b DEF BeatMovesTo, NoBeat
<1>1. ~UNCHANGED hb => \E m \in Node : BeatStep(m) \/ StopNode(m) \/ Crash(m)
  BY DEF Next, NodeStep, Start, Stop, StopLeases, Tick, Release, RunWrite, LoseWrite, vars,
         CallStep, Return, Acquire, Register, Upsert, ReadMine, ReadOther, Peek, Take, AcquireFails
<1>3. ASSUME NEW m \in Node, StopNode(m) \/ Crash(m) PROVE BeatMovesTo(n)
  <2>1. hb' = [hb EXCEPT ![m] = NoBeat]
    BY <1>3 DEF StopNode, Crash, exit
  <2> QED
    BY <1>0, <1>c, <2>1
<1>4. ASSUME NEW m \in Node, m # n, BeatStep(m) PROVE BeatMovesTo(n)
  <2>1. hb'[n] = hb[n]
    BY <1>0, <1>4 DEF BeatStep, Beat, Renew, Check, Lost, Forget, BeatFails
  <2> QED
    BY <1>c, <2>1
<1>5. ASSUME BeatStep(n) PROVE BeatMovesTo(n)
  <2>1. CASE Beat(n)
    <3>1. hb'[n] = [pc |-> IF n \in held THEN "renew" ELSE "forget", at |-> now]
      BY <1>0, <2>1 DEF Beat
    <3> QED
      BY <2>1, <3>1 DEF BeatMovesTo
  <2>2. CASE Forget(n) \/ BeatFails(n)
    BY <1>0, <1>c, <2>2 DEF Forget, BeatFails
  <2>3. CASE Renew(n) \/ Lost(n)
    BY <1>a, <2>3 DEF Renew, Lost, BeatMovesTo
  <2>4. CASE Check(n)
    BY <1>a, <2>4 DEF Check, BeatMovesTo
  <2> QED
    BY <1>5, <2>1, <2>2, <2>3, <2>4 DEF BeatStep
<1> QED
  BY <1>1, <1>3, <1>4, <1>5, <1>c

LEMMA NowMoves == ASSUME [Next]_vars PROVE Tick \/ now' = now
BY DEF Next, NodeStep, Start, Stop, StopLeases, StopNode, Crash, BeatStep, Beat, Renew, Check, Lost, Forget,
       BeatFails, Release, RunWrite, LoseWrite, CallStep, Return, Acquire, Register, Upsert, ReadMine,
       ReadOther, Peek, Take, AcquireFails, vars

LEMMA WorldStays == ASSUME [Next]_vars PROVE UNCHANGED world
BY DEF Next, NodeStep, Start, Stop, StopLeases, StopNode, Crash, BeatStep, Beat, Renew, Check, Lost, Forget,
       BeatFails, Release, RunWrite, LoseWrite, CallStep, Return, Acquire, Register, Upsert, ReadMine,
       ReadOther, Peek, Take, AcquireFails, Tick, vars

LEMMA HoldersStep ==
  ASSUME IInv, ~SameId, [Next]_vars PROVE HoldersStarted' /\ RegistersWhenStopping'
<1> USE DEF IInv
<1>0. TypeOK /\ TypeOK'
  BY TypeNext
<1>1. lease' # None => up'[lease'.node] # "off"
  <2>1. CASE lease' = lease
    BY <2>1, <1>0, UpMoves, Numbers DEF HoldersStarted
  <2>2. ASSUME NEW n \in Node, Running(n), lease' = taken(n, 0) \/ lease'.node = n PROVE up'[n] # "off"
    BY <1>0, <2>2, UpMoves DEF Running
  <2>3. ASSUME NEW c \in Call, lease' = taken(call[c].node, call[c].at), call[c].node \in Node, Running(call[c].node)
        PROVE  up'[lease'.node] # "off"
    BY <1>0, <2>2, <2>3, Taken, Numbers
  <2>4. ASSUME NEW n \in Node, Mine(n), Mine(n)' PROVE up'[lease'.node] # "off"
    BY <1>0, <2>4, UpMoves DEF Mine, HoldersStarted
  <2> QED
    BY <1>0, <2>1, <2>3, <2>4, LeaseMoves
<1>2. ASSUME NEW c \in Call, call'[c].holder # None PROVE up'[call'[c].holder] # "off"
  <2>0. call[c] \in CallRecord
    BY <1>0, TypeFacts
  <2>1. call'[c].holder = call[c].holder \/ (ReadOther(c) /\ call'[c].holder = lease.node)
    BY <1>0, <1>2, CallMoves DEF Moves, Goes, Asks, Sees, Registers, Ends
  <2>2. CASE call'[c].holder = call[c].holder
    BY <1>0, <1>2, <2>0, <2>2, UpMoves DEF HoldersStarted, CallRecord
  <2>3. CASE ReadOther(c) /\ call'[c].holder = lease.node
    BY <1>0, <2>3, UpMoves, Numbers DEF HoldersStarted, ReadOther
  <2> QED
    BY <2>1, <2>2, <2>3
<1>3. ASSUME NEW c \in Call, call'[c].pc = "register" PROVE up'[call'[c].node] # "on"
  <2>0. call[c] \in CallRecord
    BY <1>0, TypeFacts
  <2>1. ASSUME NEW n \in Node, up[n] # "on", Running(n) PROVE up'[n] # "on"
    BY <1>0, <2>1, UpMoves DEF Running, Start
  <2>2. CASE call'[c] = call[c]
    BY <1>0, <1>3, <2>1, <2>2 DEF RegistersWhenStopping, TypeOK
  <2>3. ASSUME NEW n \in Node, Running(n), Asks(c, n) PROVE up'[call'[c].node] # "on"
    BY <1>3, <2>1, <2>3 DEF Asks
  <2> QED
    BY <1>0, <1>3, <2>2, <2>3, CallMoves DEF Moves, Goes, Sees, Registers, Ends
<1> QED
  BY <1>1, <1>2, <1>3 DEF HoldersStarted, RegistersWhenStopping

\* Only its own heartbeat changes the row of a prompt node that is on.
LEMMA BeatStays ==
  ASSUME IInv, Configured, world.prompt, [Next]_vars, NEW n \in Node, up[n] = "on", up'[n] = "on", ~Beat(n)
  PROVE  beat'[n] = beat[n]
<1> USE DEF IInv, Prompt
<1>0. /\ LeaseTime \in Nat /\ BeatTime \in Nat /\ ForgetTime \in Nat
      /\ ForgetTime >= LeaseTime /\ BeatTime <= LeaseTime /\ now \in Nat
      /\ \A m \in Node : hb[m].at \in Nat
      /\ beat[n] \in Nat /\ beat[n] <= now /\ now <= beat[n] + BeatTime
  BY Numbers DEF Configured, BeatsAreFresh
<1>1. ASSUME NEW m \in Node, NodeStep(m) PROVE beat'[n] = beat[n]
  <2>1. CASE StopNode(m)
    <3>1. m # n
      BY <2>1 DEF StopNode
    <3> QED
      BY <2>1, <3>1 DEF StopNode, TypeOK
  <2>2. CASE Start(m)
    <3>1. m # n
      BY <2>2 DEF Start
    <3> QED
      BY <2>2, <3>1 DEF Start, TypeOK
  <2> QED
    BY <1>1, <2>1, <2>2 DEF NodeStep, Stop, StopLeases, Crash, tables
<1>2. ASSUME NEW m \in Node, BeatStep(m) PROVE beat'[n] = beat[n]
  <2>1. CASE Beat(m)
    <3>1. m # n
      BY <2>1
    <3> QED
      BY <2>1, <3>1 DEF Beat, TypeOK
  <2>2. CASE Forget(m)
    <3>1. hb[m].at <= now
      BY DEF ClocksAreRead
    <3>2. ~(beat[n] + ForgetTime < hb[m].at)
      BY <1>0, <3>1
    <3> QED
      BY <2>2, <3>2 DEF Forget, forgotten
  <2> QED
    BY <1>2, <2>1, <2>2 DEF BeatStep, Renew, Check, Lost, BeatFails, tables
<1>3. ASSUME NEW c \in Call, CallStep(c) \/ Return(c) \/ \E m \in Node : Acquire(c, m)
      PROVE  beat'[n] = beat[n]
  <2>1. CASE Register(c)
    <3>1. call[c].node # n /\ call[c].node \in Node
      BY <2>1 DEF Register, RegistersWhenStopping, TypeOK
    <3> QED
      BY <2>1, <3>1 DEF Register, TypeOK
  <2> QED
    BY <1>3, <2>1 DEF CallStep, Return, Acquire, Upsert, ReadMine, ReadOther, Peek, Take, AcquireFails, tables
<1>4. ASSUME NEW m \in Node, Release(m) \/ RunWrite(m) \/ LoseWrite(m) PROVE beat'[n] = beat[n]
  BY <1>4 DEF Release, RunWrite, LoseWrite
<1>5. Tick \/ UNCHANGED vars => beat'[n] = beat[n]
  BY DEF Tick, vars
<1> QED
  BY <1>1, <1>2, <1>3, <1>4, <1>5 DEF Next

\* A prompt heartbeat that has begun to renew goes on to ask what is left.
LEMMA BeatEnds ==
  ASSUME TypeOK, world.prompt, [Next]_vars, NEW n \in Node, up'[n] = "on", hb'[n].pc = "idle"
  PROVE  hb[n].pc # "renew"
<1> SUFFICES ASSUME hb[n].pc = "renew" PROVE FALSE
  OBVIOUS
<1>0. hb \in [Node -> BeatRecord]
  BY TypeFacts
<1>1. hb'[n] # hb[n]
  OBVIOUS
<1>2. \E m \in Node : BeatStep(m) \/ StopNode(m) \/ Crash(m)
  BY <1>1 DEF Next, NodeStep, Start, Stop, StopLeases, Tick, Release, RunWrite, LoseWrite, vars,
         CallStep, Return, Acquire, Register, Upsert, ReadMine, ReadOther, Peek, Take, AcquireFails
<1>3. ASSUME NEW m \in Node, StopNode(m) \/ Crash(m) PROVE FALSE
  <2>1. m # n
    BY <1>3 DEF StopNode, Crash, exit, TypeOK
  <2> QED
    BY <1>0, <1>1, <1>3, <2>1 DEF StopNode, Crash, exit
<1>4. ASSUME NEW m \in Node, BeatStep(m), m # n PROVE FALSE
  BY <1>0, <1>1, <1>4 DEF BeatStep, Beat, Renew, Check, Lost, Forget, BeatFails
<1>5. ~Renew(n)
  BY BeatMoves DEF BeatMovesTo, BeatGoes
<1>6. ~BeatStep(n)
  BY <1>5 DEF BeatStep, Beat, Check, Lost, Forget, BeatFails
<1> QED
  BY <1>2, <1>3, <1>4, <1>6

LEMMA BeatsStep ==
  ASSUME IInv, Configured, world.prompt, [Next]_vars PROVE BeatsAreFresh'
<1> USE DEF IInv, Prompt
<1> SUFFICES ASSUME NEW n \in Node, up'[n] = "on"
             PROVE  /\ beat'[n] # None
                    /\ beat'[n] <= now' /\ now' <= beat'[n] + BeatTime
                    /\ hb'[n].pc # "idle" => hb'[n].at = now' /\ beat'[n] = now'
  BY DEF BeatsAreFresh
<1>0. /\ LeaseTime \in Nat /\ BeatTime \in Nat /\ now \in Nat
      /\ \A m \in Node : hb[m].at \in Nat /\ (beat[m] # None => beat[m] \in Nat)
      /\ None \notin Nat
  BY Numbers, NoneAssumption
<1>1. CASE Start(n)
  <2>1. beat'[n] = now /\ now' = now /\ hb'[n] = hb[n]
    BY <1>1 DEF Start, TypeOK
  <2>2. hb[n].pc = "idle"
    BY <1>1 DEF Start, TypeOK, Running
  <2> QED
    BY <1>0, <2>1, <2>2
<1>2. CASE ~Start(n)
  <2>0. up[n] = "on"
    BY <1>2, UpMoves DEF Configured
  <2>1. /\ beat[n] \in Nat /\ beat[n] <= now /\ now <= beat[n] + BeatTime
        /\ hb[n].pc # "idle" => hb[n].at = now /\ beat[n] = now
    BY <1>0, <2>0 DEF BeatsAreFresh
  <2>2. CASE Tick
    <3>1. now < beat[n] + BeatTime /\ hb[n].pc = "idle" /\ now' = now + 1 /\ UNCHANGED <<beat, hb>>
      BY <2>0, <2>2 DEF Tick, OnTime
    <3> QED
      BY <1>0, <2>1, <3>1
  <2>3. CASE Beat(n)
    <3>1. beat'[n] = now /\ now' = now /\ hb'[n].at = now
      BY <1>0, <2>1, <2>3 DEF Beat, TypeOK
    <3> QED
      BY <1>0, <3>1
  <2>4. CASE ~Tick /\ ~Beat(n)
    <3>1. beat'[n] = beat[n]
      BY <2>0, <2>4, BeatStays
    <3>2. now' = now
      BY <2>4, NowMoves
    <3>3. hb'[n].pc # "idle" => hb[n].pc # "idle" /\ hb'[n].at = hb[n].at
      BY <2>4, BeatMoves DEF BeatMovesTo, BeatGoes, Renew, Check, Lost
    <3> QED
      BY <1>0, <2>1, <3>1, <3>2, <3>3
  <2> QED
    BY <2>2, <2>3, <2>4
<1> QED
  BY <1>1, <1>2

LEMMA ClocksStep ==
  ASSUME IInv, world.prompt, [Next]_vars PROVE ClocksAreRead'
<1> USE DEF IInv, Prompt
<1>0. now \in Nat /\ now' \in Nat /\ now <= now'
  <2>1. now' = now \/ now' = now + 1
    BY NowMoves DEF Tick
  <2> QED
    BY <2>1, Numbers
<1>1. ASSUME NEW n \in Node PROVE hb'[n].at <= now'
  <2>1. hb[n].at <= now /\ hb[n].at \in Nat /\ hb[n] \in BeatRecord
    BY Numbers, TypeFacts DEF ClocksAreRead
  <2>2. hb'[n].at \in {hb[n].at, 0, now}
    BY <2>1, BeatMoves DEF BeatMovesTo, BeatGoes
  <2> QED
    BY <1>0, <2>1, <2>2
<1>2. ASSUME NEW c \in Call, call'[c].pc # "idle" PROVE call'[c].at = now'
  <2>2. CASE Tick
    BY <1>2, <2>2 DEF Tick
  <2>3. CASE ~Tick
    <3>1. now' = now
      BY <2>3, NowMoves
    <3>2. call[c].pc # "idle" => call[c].at = now
      BY DEF ClocksAreRead
    <3> QED
      BY <1>2, <3>1, <3>2, CallMoves
         DEF Moves, Goes, Asks, Sees, Registers, Ends, Upsert, ReadMine, Take, ReadOther, Peek
  <2> QED
    BY <2>2, <2>3
<1> QED
  BY <1>1, <1>2 DEF ClocksAreRead

\* Only the two answers of acquire() that say { self } make a node count on the row.
LEMMA HeldMoves ==
  ASSUME TypeOK, [Next]_vars, NEW n \in Node, n \in held'
  PROVE  n \in held \/ \E c \in Call : call[c].node = n /\ (ReadMine(c) \/ (Take(c) /\ Mine(call[c].holder)))
<1>1. ASSUME NEW c \in Call, CallStep(c) \/ Return(c) \/ \E m \in Node : Acquire(c, m), n \notin held
      PROVE  call[c].node = n /\ (ReadMine(c) \/ (Take(c) /\ Mine(call[c].holder)))
  BY <1>1 DEF CallStep, Return, Acquire, Register, Upsert, ReadMine, ReadOther, Peek, Take, AcquireFails
<1>2. ASSUME NEW m \in Node, NodeStep(m) \/ BeatStep(m) \/ Release(m) \/ RunWrite(m) \/ LoseWrite(m)
      PROVE  n \in held
  BY <1>2 DEF NodeStep, Start, Stop, StopLeases, StopNode, Crash, exit, BeatStep, Beat, Renew, Check, Lost,
              Forget, BeatFails, Release, RunWrite, LoseWrite
<1>3. Tick \/ UNCHANGED vars => n \in held
  BY DEF Tick, vars
<1> QED
  BY <1>1, <1>2, <1>3 DEF Next

\* What is written to the row of a node that is on is written at this time.
LEMMA WritesAreFresh ==
  ASSUME IInv, Configured, world.prompt, [Next]_vars, NEW n \in Node, up'[n] = "on", Mine(n)', lease' # lease
  PROVE  lease'.expires = now + LeaseTime /\ ~Tick
<1> USE DEF IInv, Prompt
<1>1. lease' # None /\ lease'.node = n
  BY DEF Mine
<1>2. ~Tick
  BY DEF Tick
<1>3. ASSUME NEW c \in Call, lease' = taken(call[c].node, call[c].at), call[c].node \in Node,
             call[c].pc # "idle"
      PROVE  lease'.expires = now + LeaseTime
  BY <1>3, Taken, Numbers DEF ClocksAreRead
<1>4. ASSUME NEW m \in Node, Renew(m), Mine(m)', lease'.expires = hb[m].at + LeaseTime
      PROVE  lease'.expires = now + LeaseTime
  <2>1. m = n
    BY <1>4 DEF Mine
  <2>2. up[n] = "on"
    BY <1>4 DEF Renew
  <2>3. hb[n].at = now
    BY <1>4, <2>1, <2>2 DEF Renew, BeatsAreFresh
  <2> QED
    BY <1>4, <2>1, <2>3
<1>5. \A c \in Call : Upsert(c) \/ Take(c) => call[c].pc # "idle"
  BY DEF Upsert, Take
<1> QED
  BY <1>1, <1>2, <1>3, <1>4, <1>5, LeaseMoves

LEMMA RowStep ==
  ASSUME IInv, Configured, world.prompt, [Next]_vars PROVE RowLasts'
<1> USE DEF IInv, Prompt
<1> SUFFICES ASSUME NEW n \in Node, up'[n] = "on", n \in held', Mine(n)'
             PROVE  /\ lease'.expires >= now'
                    /\ hb'[n].pc # "renew" => lease'.expires >= beat'[n] + LeaseTime
  BY DEF RowLasts, Mine
<1>0. /\ TypeOK' /\ LeaseTime \in Nat /\ BeatTime \in Nat /\ BeatTime <= LeaseTime
      /\ now \in Nat /\ now' \in Nat /\ lease'.expires \in Nat
      /\ lease # None => lease.expires \in Nat
  BY Numbers, TypeNext DEF Configured, TypeOK, Mine, Row
<1>1. beat'[n] # None /\ beat'[n] <= now' /\ beat'[n] \in Nat
  <2>1. beat'[n] # None /\ beat'[n] <= now'
    BY BeatsStep DEF BeatsAreFresh
  <2> QED
    BY <1>0, <2>1 DEF TypeOK
<1>2. CASE lease' # lease
  <2>1. lease'.expires = now + LeaseTime /\ ~Tick
    BY <1>2, WritesAreFresh
  <2>2. now' = now
    BY <2>1, NowMoves
  <2> QED
    BY <1>0, <1>1, <2>1, <2>2
<1>3. CASE lease' = lease
  <2>1. Mine(n)
    BY <1>3 DEF Mine
  <2>2. CASE n \notin held
    <3>1. PICK c \in Call : call[c].node = n /\ (ReadMine(c) \/ (Take(c) /\ Mine(call[c].holder)))
      BY <2>2, HeldMoves
    <3>2. call[c].pc = "read" \/ call[c].pc = "take"
      BY <3>1 DEF ReadMine, Take
    <3>3. ReadMine(c)
      <4>1. call[c].pc = "take" => call[c].holder # call[c].node
        BY DEF TypeOK
      <4> QED
        BY <2>1, <3>1, <3>2, <4>1 DEF Mine, Take
    <3>4. UNCHANGED <<up, now, beat>>
      BY <3>3 DEF ReadMine, tables
    <3>5. lease.expires >= now + LeaseTime
      BY <2>1, <3>1, <3>3, <3>4 DEF ReadMine, ReadsAreFresh
    <3> QED
      BY <1>0, <1>1, <1>3, <3>4, <3>5
  <2>3. CASE n \in held
    <3>0. up[n] = "on"
      <4>1. ~Start(n)
        BY <2>3 DEF Start, TypeOK, Running
      <4> QED
        BY <4>1, UpMoves DEF Configured
    <3>1. lease.expires >= now /\ (hb[n].pc # "renew" => lease.expires >= beat[n] + LeaseTime)
      BY <2>1, <2>3, <3>0 DEF RowLasts
    <3>2. beat[n] \in Nat /\ beat[n] <= now /\ now <= beat[n] + BeatTime
      BY <3>0, Numbers DEF BeatsAreFresh
    <3>3. CASE Tick
      <4>1. now < beat[n] + BeatTime /\ hb[n].pc = "idle" /\ now' = now + 1 /\ UNCHANGED <<beat, hb>>
        BY <3>0, <3>3 DEF Tick, OnTime
      <4> QED
        BY <1>0, <1>3, <3>1, <3>2, <4>1
    <3>4. CASE ~Tick
      <4>0. now' = now
        BY <3>4, NowMoves
      <4>1. CASE Beat(n)
        <5>1. hb'[n].pc = "renew"
          BY <2>3, <4>1, Numbers, TypeFacts DEF Beat
        <5> QED
          BY <1>3, <3>1, <4>0, <5>1
      <4>2. CASE ~Beat(n)
        <5>1. beat'[n] = beat[n]
          BY <3>0, <3>4, <4>2, BeatStays
        <5>2. Renew(n) => lease'.expires = now + LeaseTime
          <6>1. Renew(n) => lease' = [lease EXCEPT !.expires = hb[n].at + LeaseTime]
            BY <2>1 DEF Renew
          <6>2. Renew(n) => hb[n].at = now
            BY <3>0 DEF Renew, BeatsAreFresh
          <6>3. lease \in Row
            BY <2>1, Numbers DEF Mine
          <6> QED
            BY <6>1, <6>2, <6>3 DEF Row
        <5>3. hb'[n].pc # "renew" => hb[n].pc # "renew" \/ Renew(n)
          <6>1. hb'[n].pc = "idle" => hb[n].pc # "renew"
            BY <3>0, <3>4, BeatEnds, <1>1
          <6> QED
            BY <4>2, <6>1, BeatMoves DEF BeatMovesTo, BeatGoes, Check, Lost
        <5> QED
          BY <1>0, <1>1, <1>3, <3>1, <3>2, <4>0, <5>1, <5>2, <5>3
      <4> QED
        BY <4>1, <4>2
    <3> QED
      BY <3>3, <3>4
  <2> QED
    BY <2>2, <2>3
<1> QED
  BY <1>2, <1>3

LEMMA ReadsStep ==
  ASSUME IInv, Configured, world.prompt, [Next]_vars PROVE ReadsAreFresh'
<1> USE DEF IInv, Prompt
<1> SUFFICES ASSUME NEW c \in Call, call'[c].pc = "read", up'[call'[c].node] = "on", Mine(call[c].node)'
             PROVE  lease'.expires >= now' + LeaseTime
  BY DEF ReadsAreFresh, Mine
<1> DEFINE n == call'[c].node
<1>0. n \in Node /\ LeaseTime \in Nat /\ now \in Nat
  <2>1. TypeOK'
    BY TypeNext
  <2> QED
    BY <2>1, Numbers DEF TypeOK
<1>1. now' = now
  <2>1. Tick => call'[c].pc = "idle"
    BY DEF Tick
  <2> QED
    BY <2>1, NowMoves
<1>2. CASE lease' # lease
  BY <1>0, <1>1, <1>2, WritesAreFresh
<1>3. CASE lease' = lease
  <2>1. CASE Upsert(c) /\ Goes(c, "read")
    <3>1. Mine(call[c].node) /\ call[c].node = n
      BY <1>3, <2>1 DEF Mine, Goes
    <3>2. lease' = taken(n, call[c].at)
      BY <2>1, <3>1 DEF Upsert
    <3>3. call[c].at = now
      BY <2>1 DEF Upsert, ClocksAreRead
    <3> QED
      BY <1>0, <1>1, <3>2, <3>3, Taken
  <2>2. CASE call'[c] = call[c]
    <3>1. up[n] = "on"
      <4>1. ~Start(n)
        BY <2>2 DEF Start, TypeOK, Running
      <4> QED
        BY <1>0, <4>1, UpMoves DEF Configured
    <3>2. Mine(n) /\ call[c].pc = "read" /\ call[c].node = n
      BY <1>3, <2>2 DEF Mine
    <3>3. lease.expires >= now + LeaseTime
      BY <3>1, <3>2 DEF ReadsAreFresh
    <3> QED
      BY <1>1, <1>3, <3>3
  <2> QED
    BY <2>1, <2>2, CallMoves DEF Moves, Goes, Asks, Sees, Registers, Ends
<1> QED
  BY <1>2, <1>3

LEMMA TakesStep ==
  ASSUME IInv, Configured, world.prompt, [Next]_vars PROVE TakesFromTheDead'
<1> USE DEF IInv, Prompt
<1> SUFFICES ASSUME NEW c \in Call, call'[c].pc = "take", up'[call'[c].holder] = "on"
             PROVE  FALSE
  BY DEF TakesFromTheDead
<1>1. CASE call'[c] = call[c]
  <2>1. call[c].holder \in Node /\ call[c].holder # None
    BY <1>1, NoneAssumption DEF TypeOK
  <2>2. up[call[c].holder] # "on" /\ up[call[c].holder] # "off"
    BY <1>1, <2>1 DEF TakesFromTheDead, HoldersStarted
  <2> QED
    BY <1>1, <2>1, <2>2, UpMoves DEF Configured, Start
<1>2. CASE Peek(c) /\ Silent(call[c].holder, call[c].at) /\ Goes(c, "take")
  <2>1. call[c].holder \in Node /\ call[c].at = now /\ up[call[c].holder] = "on"
    BY <1>2 DEF TypeOK, Peek, ClocksAreRead, Goes
  <2>2. /\ beat[call[c].holder] # None /\ now <= beat[call[c].holder] + BeatTime
        /\ beat[call[c].holder] \in Nat /\ BeatTime \in Nat /\ LeaseTime \in Nat /\ now \in Nat
        /\ BeatTime <= LeaseTime
    BY <2>1, Numbers DEF BeatsAreFresh, Configured
  <2>3. beat[call[c].holder] + LeaseTime < now
    BY <1>2, <2>1, <2>2 DEF Silent
  <2> QED
    BY <2>2, <2>3
<1> QED
  BY <1>1, <1>2, CallMoves DEF Moves, Goes, Asks, Sees, Registers, Ends

LEMMA InitIInv == Init => IInv
<1> SUFFICES ASSUME Init PROVE IInv
  OBVIOUS
<1>1. TypeOK /\ now \in Nat
  BY TypeInit, Numbers
<1>2. HoldersStarted /\ RegistersWhenStopping
  BY DEF Init, HoldersStarted, RegistersWhenStopping, NoCall
<1>3. BeatsAreFresh /\ ClocksAreRead /\ RowLasts /\ ReadsAreFresh /\ TakesFromTheDead
  BY <1>1 DEF Init, NoCall, NoBeat, BeatsAreFresh, ClocksAreRead, RowLasts, ReadsAreFresh, TakesFromTheDead
<1> QED
  BY <1>1, <1>2, <1>3 DEF IInv, Prompt

LEMMA NextIInv == IInv /\ Configured /\ [Next]_vars => IInv'
<1> SUFFICES ASSUME IInv, Configured, [Next]_vars PROVE IInv'
  OBVIOUS
<1>1. TypeOK' /\ HoldersStarted' /\ RegistersWhenStopping'
  BY TypeNext, HoldersStep DEF IInv, Configured
<1>2. world' = world
  BY WorldStays
<1>3. ASSUME world.prompt PROVE Prompt'
  BY <1>3, BeatsStep, ClocksStep, RowStep, ReadsStep, TakesStep DEF IInv, Prompt
<1> QED
  BY <1>1, <1>2, <1>3 DEF IInv

LEMMA SpecIInv == ASSUME Configured PROVE Spec => []IInv
BY InitIInv, NextIInv, PTL DEF Spec

-----------------------------------------------------------------------------
\* The row of a prompt node that runs and has it unexpired stays, but for a
\* deletion: the upsert asks for an expired row, the takeover for a silent node.
LEMMA RowIsSafe ==
  ASSUME IInv, Configured, world.prompt, [Next]_vars,
         NEW n \in Node, up[n] = "on", Mine(n), lease.expires >= now, lease' # None
  PROVE  Mine(n)'
<1> USE DEF IInv, Prompt
<1>0. lease # None /\ lease.node = n /\ now \in Nat /\ lease.expires \in Nat
  BY Numbers DEF Mine
<1>1. CASE lease' = lease
  BY <1>1 DEF Mine
<1>2. ASSUME NEW c \in Call, Upsert(c), lease' = taken(call[c].node, call[c].at), call[c].node \in Node,
             lease = None \/ Mine(call[c].node) \/ lease.expires < call[c].at
      PROVE  Mine(n)'
  <2>1. call[c].at = now
    BY <1>2 DEF Upsert, ClocksAreRead
  <2>2. call[c].node = n
    BY <1>0, <1>2, <2>1 DEF Mine
  <2> QED
    BY <1>2, <2>1, <2>2, Taken, Numbers DEF Mine
<1>3. ASSUME NEW c \in Call, Mine(call[c].holder), call[c].pc = "take" PROVE FALSE
  BY <1>0, <1>3 DEF Mine, TakesFromTheDead
<1>4. ASSUME NEW m \in Node, Mine(m), Mine(m)' PROVE Mine(n)'
  BY <1>4 DEF Mine
<1> QED
  BY <1>1, <1>2, <1>3, <1>4, LeaseMoves

\* Only a release and a shutdown delete the row, and only their node's.
LEMMA RowGoes ==
  ASSUME TypeOK, [Next]_vars, lease # None, lease' = None
  PROVE  \E m \in Node : Mine(m) /\ ((RunWrite(m) /\ m \in writes \ writes') \/ StopLeases(m))
<1>1. ASSUME NEW m \in Node, RunWrite(m) PROVE Mine(m) /\ m \in writes \ writes'
  BY <1>1 DEF RunWrite
<1>2. ASSUME NEW m \in Node, StopLeases(m) PROVE Mine(m)
  BY <1>2 DEF StopLeases
<1>3. ASSUME NEW m \in Node, NodeStep(m), ~StopLeases(m) PROVE FALSE
  BY <1>3 DEF NodeStep, Start, Stop, StopNode, Crash, tables
<1>4. ASSUME NEW m \in Node, BeatStep(m) PROVE FALSE
  <2>1. Renew(m) => lease' = [lease EXCEPT !.expires = hb[m].at + LeaseTime] /\ lease \in Row /\ hb[m].at + LeaseTime \in Nat
    BY <1>4, Numbers DEF Renew
  <2>2. Renew(m) => lease' \in Row
    BY <2>1 DEF Row
  <2>3. Renew(m) => lease' # None
    BY <2>2, NoneAssumption DEF Row
  <2> QED
    BY <1>4, <2>3 DEF BeatStep, Beat, Check, Lost, Forget, BeatFails, tables
<1>5. ASSUME NEW c \in Call, CallStep(c) PROVE FALSE
  <2>1. CASE Upsert(c) \/ Take(c)
    <3>1. call[c].node \in Node /\ call[c].at \in Nat
      BY <2>1, Numbers DEF Upsert, Take, TypeOK
    <3> QED
      BY <2>1, <3>1, Taken DEF Upsert, Take
  <2> QED
    BY <1>5, <2>1 DEF CallStep, Register, ReadMine, ReadOther, Peek, AcquireFails, tables
<1>6. ASSUME NEW c \in Call, Return(c) \/ \E m \in Node : Acquire(c, m) PROVE FALSE
  BY <1>6 DEF Return, Acquire, tables
<1>7. ASSUME NEW m \in Node, Release(m) \/ LoseWrite(m) PROVE FALSE
  BY <1>7 DEF Release, LoseWrite
<1>8. ~Tick /\ ~UNCHANGED vars
  BY DEF Tick, vars
<1> QED
  BY <1>1, <1>2, <1>3, <1>4, <1>5, <1>6, <1>7, <1>8 DEF Next

\* In a prompt cluster nobody takes the row of a node that counts on it,
\* whatever statements fail and however the nodes release, stop and die: the
\* upsert's and the takeover's tests (cluster.ts) do not fire for a live holder.
THEOREM LeasesAreNotStolen == ASSUME Configured PROVE Spec => NotStolen
<1>1. IInv /\ [Next]_vars =>
        [\A n \in Node : world.prompt /\ Mine(n) /\ n \in held /\ up[n] = "on" /\ ~Mine(n)'
           => n \in writes \ writes']_vars
  <2> SUFFICES ASSUME IInv, [Next]_vars, NEW n \in Node,
                      world.prompt, Mine(n), n \in held, up[n] = "on", ~Mine(n)'
               PROVE  n \in writes \ writes'
    OBVIOUS
  <2>1. lease.expires >= now
    BY DEF IInv, Prompt, RowLasts
  <2>2. lease' = None
    BY <2>1, RowIsSafe
  <2>3. PICK m \in Node : Mine(m) /\ ((RunWrite(m) /\ m \in writes \ writes') \/ StopLeases(m))
    BY <2>2, RowGoes DEF IInv, Mine
  <2> QED
    BY <2>3 DEF Mine, StopLeases
<1> QED
  BY <1>1, SpecIInv, PTL DEF Spec, NotStolen

-----------------------------------------------------------------------------
(* Nodes that count on the lease.                                           *)

LEMMA HoldersKeep ==
  ASSUME HInv, Configured, world.prompt, ~slipped', [Next]_vars PROVE HoldersHave'
<1> USE DEF HInv
<1> SUFFICES ASSUME NEW n \in held', up'[n] = "on" PROVE Mine(n)'
  BY DEF HoldersHave, Mine
<1>0. TypeOK /\ TypeOK' /\ n \in Node /\ ~slipped /\ HoldersHave
  BY TypeNext, SlippedStays DEF IInv, TypeOK
<1>1. CASE n \in held
  <2>1. up[n] = "on"
    <3>1. ~Start(n)
      BY <1>0, <1>1 DEF Start, TypeOK, Running
    <3> QED
      BY <1>0, <3>1, UpMoves DEF Configured
  <2>2. Mine(n) /\ lease # None
    BY <1>0, <1>1, <2>1 DEF HoldersHave, Mine
  <2>3. lease.expires >= now
    BY <1>0, <1>1, <2>1, <2>2 DEF IInv, Prompt, RowLasts
  <2>4. lease' # None
    <3>1. SUFFICES ASSUME lease' = None PROVE FALSE
      OBVIOUS
    <3>2. PICK m \in Node : Mine(m) /\ ((RunWrite(m) /\ m \in writes \ writes') \/ StopLeases(m))
      BY <1>0, <2>2, <3>1, RowGoes
    <3>3. m = n /\ ~StopLeases(n)
      BY <2>1, <2>2, <3>2 DEF Mine, StopLeases
    <3>4. RunWrite(n)
      BY <3>2, <3>3
    <3> QED
      BY <1>1, <2>2, <3>4, Zenon DEF RunWrite
  <2> QED
    BY <1>0, <2>1, <2>2, <2>3, <2>4, RowIsSafe
<1>2. ASSUME NEW c \in Call, call[c].node = n, ReadMine(c) PROVE Mine(n)'
  <2>1. lease # None
    BY <1>2, Zenon DEF ReadMine
  <2> QED
    BY <1>2, <2>1 DEF ReadMine, Mine, tables
<1>3. ASSUME NEW c \in Call, call[c].node = n, Take(c), Mine(call[c].holder) PROVE Mine(n)'
  BY <1>0, <1>3, Taken, Numbers DEF Take, Mine
<1> QED
  BY <1>0, <1>1, <1>2, <1>3, HeldMoves

LEMMA InitHInv == Init => HInv
BY InitIInv DEF Init, HInv, HoldersHave

LEMMA NextHInv == HInv /\ Configured /\ [Next]_vars => HInv'
<1> SUFFICES ASSUME HInv, Configured, [Next]_vars PROVE HInv'
  OBVIOUS
<1>1. IInv' /\ world' = world
  BY NextIInv, WorldStays DEF HInv
<1> QED
  BY <1>1, HoldersKeep DEF HInv

\* "A key is held by one node until it expires" (cluster.ts): in a prompt cluster
\* two running nodes come to count on it only after a SELECT that found no row, a
\* release that ran too late, or a loss acted on when the row was back, however
\* its nodes evict, stop, die and fail.
THEOREM OneNodeCountsOnTheLease == ASSUME Configured PROVE Spec => []OneBeliever
<1>1. HInv => OneBeliever
  BY DEF HInv, HoldersHave, OneBeliever, HeldByOne, Mine
<1> QED
  BY <1>1, InitHInv, NextHInv, PTL DEF Spec

-----------------------------------------------------------------------------
(* Engines on the file.                                                     *)

\* An eviction releases or does nothing to the lease, LostKey is Lost, opening
\* and sharing are Return.
LEMMA StepUsesLease == [EngineNext]_allVars => [Next]_vars
<1> SUFFICES ASSUME [EngineNext]_allVars PROVE [Next]_vars
  OBVIOUS
<1>1. CASE LeaseOnly
  BY <1>1 DEF LeaseOnly, Next, NodeStep, BeatStep
<1>2. ASSUME NEW n \in Node, EngineStep(n) \/ CloseAll(n) PROVE [Next]_vars
  BY <1>2 DEF EngineStep, Opened, OpenFails, Evict, evict, CloseAll, Drained, Next
<1>3. ASSUME NEW n \in Node, LostKey(n) \/ Shutdown(n) \/ Exit(n) PROVE [Next]_vars
  BY <1>3 DEF LostKey, Shutdown, Exit, Next, NodeStep, BeatStep
<1>4. ASSUME NEW c \in Call, OpenLocal(c) \/ ShareLocal(c) \/ OpenRemote(c) PROVE [Next]_vars
  BY <1>4 DEF OpenLocal, ShareLocal, OpenRemote, Next
<1>5. CASE UNCHANGED allVars
  BY <1>5 DEF allVars
<1> QED
  BY <1>1, <1>2, <1>3, <1>4, <1>5 DEF EngineNext

LEMMA EarlyStays == ASSUME [EngineNext]_allVars, early PROVE early'
<1>1. ASSUME NEW n \in Node, evict(n) PROVE early'
  BY <1>1, Zenon DEF evict
<1>2. CASE \E n \in Node : Evict(n) \/ CloseAll(n)
  BY <1>1, <1>2 DEF Evict, CloseAll
<1>3. CASE \A n \in Node : ~Evict(n) /\ ~CloseAll(n)
  BY <1>3 DEF EngineNext, allVars, engineVars, EngineStep, Opened, OpenFails, Drained, LostKey, Shutdown, Exit,
              OpenLocal, ShareLocal, OpenRemote
<1> QED
  BY <1>2, <1>3

\* What a step makes of an engine.
EngineGoes ==
  /\ engine' \in [Node -> {"none", "opening", "open"}]
  /\ \A n \in Node : engine'[n] # "none" => \/ engine[n] # "none"
                                            \/ \E c \in Call : OpenLocal(c) /\ call[c].node = n

LEMMA EngineMoves == ASSUME EngineTypes, [EngineNext]_allVars PROVE EngineGoes
<1>1. ASSUME NEW m \in Node, OpenFails(m) \/ Evict(m) \/ CloseAll(m) \/ LostKey(m) \/ Exit(m) PROVE EngineGoes
  BY <1>1 DEF OpenFails, Evict, CloseAll, evict, LostKey, Exit, close, EngineTypes, EngineGoes
<1>2. ASSUME NEW m \in Node, Opened(m) PROVE EngineGoes
  BY <1>2 DEF Opened, EngineTypes, EngineGoes
<1>3. ASSUME NEW c \in Call, OpenLocal(c) PROVE EngineGoes
  BY <1>3 DEF OpenLocal, EngineTypes, EngineGoes
<1>4. UNCHANGED engine => EngineGoes
  BY DEF EngineTypes, EngineGoes
<1>5. ASSUME NEW m \in Node, Drained(m) \/ Shutdown(m) PROVE UNCHANGED engine
  BY <1>5 DEF Drained, Shutdown, engineVars
<1>6. (\E c \in Call : ShareLocal(c) \/ OpenRemote(c)) \/ UNCHANGED engineVars \/ UNCHANGED allVars => UNCHANGED engine
  BY DEF ShareLocal, OpenRemote, engineVars, allVars
<1> QED
  BY <1>1, <1>2, <1>3, <1>4, <1>5, <1>6 DEF EngineNext, EngineStep

\* A process that is gone has no engine.
LEMMA EngineTypesStep == ASSUME TypeOK, EngineTypes, [EngineNext]_allVars PROVE EngineTypes'
<1> SUFFICES ASSUME NEW n \in Node, ~Running(n)' PROVE engine'[n] = "none"
  <2>1. engine' \in [Node -> {"none", "opening", "open"}]
    BY EngineMoves DEF EngineGoes
  <2> QED
    BY <2>1 DEF EngineTypes
<1>1. CASE ~Running(n)
  <2>1. \A c \in Call : OpenLocal(c) => call[c].node # n
    BY <1>1 DEF OpenLocal, TypeOK
  <2> QED
    BY <1>1, <2>1, EngineMoves DEF EngineTypes, EngineGoes
<1>2. CASE Running(n)
  <2>1. ASSUME NEW m \in Node, Exit(m) PROVE engine'[n] = "none"
    <3>1. m = n
      BY <1>2, <2>1 DEF Exit, Crash, StopNode, exit, Running, TypeOK
    <3> QED
      BY <2>1, <3>1 DEF Exit, EngineTypes
  <2>2. up'[n] # up[n]
    BY <1>2 DEF Running
  <2>3. ASSUME NEW m \in Node, Start(m) \/ StopLeases(m) \/ Stop(m) PROVE FALSE
    BY <1>2, <2>2, <2>3 DEF Start, StopLeases, Stop, Running, TypeOK
  <2>4. CASE LeaseOnly
    BY <2>2, <2>3, <2>4 DEF LeaseOnly, Tick, Beat, Renew, Check, Forget, BeatFails, CallStep, Acquire, Register,
          Upsert, ReadMine, ReadOther, Peek, Take, AcquireFails, RunWrite, LoseWrite
  <2>5. ASSUME NEW m \in Node, EngineStep(m) \/ LostKey(m) \/ CloseAll(m) PROVE FALSE
    BY <2>2, <2>5 DEF EngineStep, Opened, OpenFails, Evict, evict, Drained, LostKey, Lost, CloseAll, Release, vars
  <2>6. ASSUME NEW m \in Node, Shutdown(m) PROVE FALSE
    BY <2>3, <2>6 DEF Shutdown
  <2>7. ASSUME NEW c \in Call, OpenLocal(c) \/ ShareLocal(c) \/ OpenRemote(c) PROVE FALSE
    BY <2>2, <2>7 DEF OpenLocal, ShareLocal, OpenRemote, Return
  <2>8. ~UNCHANGED allVars
    BY <2>2 DEF allVars, vars
  <2> QED
    BY <2>1, <2>4, <2>5, <2>6, <2>7, <2>8 DEF EngineNext
<1> QED
  BY <1>1, <1>2

\* A node that goes on stops counting on the key by a loss, by another node's
\* row, or by an eviction.
LEMMA HeldDrops ==
  ASSUME TypeOK, [EngineNext]_allVars, NEW n \in Node, n \in held, n \notin held', up'[n] = "on"
  PROVE  Lost(n) \/ (\E c \in Call : Peek(c) /\ call[c].node = n) \/ (evict(n) /\ Release(n))
<1>1. ASSUME NEW c \in Call, CallStep(c) PROVE Peek(c) /\ call[c].node = n
  BY <1>1 DEF CallStep, Register, Upsert, ReadMine, ReadOther, Peek, Take, AcquireFails
<1>2. CASE LeaseOnly
  BY <1>1, <1>2 DEF LeaseOnly, Tick, Start, StopLeases, Beat, Renew, Check, Forget, BeatFails, Acquire, RunWrite, LoseWrite
<1>3. ASSUME NEW m \in Node, evict(m) PROVE m = n /\ evict(n) /\ Release(n)
  BY <1>3 DEF evict, Release, vars
<1>4. ASSUME NEW m \in Node, Evict(m) \/ CloseAll(m) PROVE evict(n) /\ Release(n)
  BY <1>3, <1>4 DEF Evict, CloseAll, vars
<1>5. ASSUME NEW m \in Node, LostKey(m) PROVE Lost(n)
  BY <1>5 DEF LostKey, Lost
<1>6. ASSUME NEW m \in Node, Exit(m) PROVE FALSE
  <2>1. exit(m) /\ m = n
    BY <1>6 DEF Exit, Crash, StopNode, exit
  <2> QED
    BY <2>1 DEF exit, TypeOK
<1>7. ASSUME NEW m \in Node, Opened(m) \/ OpenFails(m) \/ Drained(m) \/ Shutdown(m) PROVE FALSE
  BY <1>7 DEF Opened, OpenFails, Drained, Shutdown, Stop, vars
<1>8. ASSUME NEW c \in Call, OpenLocal(c) \/ ShareLocal(c) \/ OpenRemote(c) PROVE FALSE
  BY <1>8 DEF OpenLocal, ShareLocal, OpenRemote, Return
<1>9. ~UNCHANGED allVars
  BY DEF allVars, vars
<1> QED
  BY <1>2, <1>4, <1>5, <1>6, <1>7, <1>8, <1>9 DEF EngineNext, EngineStep

LEMMA OpenersKeep ==
  ASSUME EInv, Configured, world.prompt, ~slipped', ~early', [EngineNext]_allVars PROVE OpenersHold'
<1> USE DEF EInv, HInv
<1> SUFFICES ASSUME NEW n \in Node, up'[n] = "on", Relies(n)', n \notin held' PROVE FALSE
  BY DEF OpenersHold, Relies
<1>0. [Next]_vars /\ TypeOK
  BY StepUsesLease DEF IInv
<1>1. ~slipped /\ ~early /\ HoldersHave /\ OpenersHold
  BY <1>0, SlippedStays, EarlyStays
<1>2. ASSUME NEW c \in Call, call'[c].pc = "self", call'[c].node = n
      PROVE  call[c].pc = "self" /\ call[c].node = n
  <2>1. ASSUME ReadMine(c) \/ (Take(c) /\ Mine(call[c].holder)), call[c].node = n PROVE n \in held'
    BY <2>1 DEF ReadMine, Take
  <2> QED
    BY <1>0, <1>2, <2>1, CallMoves DEF Moves, Goes, Asks, Sees, Registers, Ends
<1>3. Relies(n)
  <2>1. \A c \in Call : OpenLocal(c) => call[c].pc = "self"
    BY DEF OpenLocal
  <2> QED
    BY <1>2, <2>1, EngineMoves DEF Relies, EngineGoes
<1>4. up[n] = "on" /\ n \in held
  <2>1. Running(n)
    BY <1>0, <1>3 DEF Relies, EngineTypes, TypeOK
  <2>2. ~Start(n)
    BY <2>1 DEF Start, Running
  <2> QED
    BY <1>0, <1>1, <1>3, <2>2, UpMoves DEF OpenersHold, Configured
<1>5. Mine(n)
  BY <1>1, <1>4 DEF HoldersHave
<1>6. ~Lost(n)
  <2>1. Lost(n) => slipped'
    BY <1>4, <1>5, Zenon DEF Lost
  <2> QED
    BY <2>1
<1>7. ASSUME NEW c \in Call, Peek(c), call[c].node = n PROVE FALSE
  BY <1>4, <1>5, <1>7, Zenon DEF Peek
<1>8. ASSUME evict(n), Release(n) PROVE FALSE
  <2>1. engine'[n] = "none" /\ call' = call
    BY <1>8 DEF evict, close, Release, EngineTypes
  <2>2. PICK c \in Call : call'[c].node = n /\ call'[c].pc = "self"
    BY <2>1 DEF Relies
  <2>3. call[c].node = n /\ call[c].pc = "self"
    BY <2>1, <2>2
  <2> QED
    BY <1>8, <2>3, Zenon DEF evict
<1> QED
  BY <1>0, <1>4, <1>6, <1>7, <1>8, HeldDrops

LEMMA InitEInv == EngineInit => EInv
<1> SUFFICES ASSUME EngineInit PROVE EInv
  OBVIOUS
<1>1. HInv
  BY InitHInv DEF EngineInit
<1>2. EngineTypes /\ OpenersHold
  BY DEF EngineInit, Init, EngineTypes, OpenersHold, Relies
<1> QED
  BY <1>1, <1>2 DEF EInv

LEMMA NextEInv == EInv /\ Configured /\ [EngineNext]_allVars => EInv'
<1> SUFFICES ASSUME EInv, Configured, [EngineNext]_allVars PROVE EInv'
  OBVIOUS
<1>1. [Next]_vars /\ TypeOK
  BY StepUsesLease DEF EInv, HInv, IInv
<1>2. HInv' /\ world' = world /\ EngineTypes'
  BY <1>1, NextHInv, WorldStays, EngineTypesStep DEF EInv
<1> QED
  BY <1>2, OpenersKeep DEF EInv

\* "So two nodes never both open a DuckDB file" (cluster.ts): in a prompt cluster
\* two running nodes have an engine that opens or is open only after one has
\* slipped, or has given its lease up between acquire() and the open it was for.
THEOREM OneNodeOpensTheFile == ASSUME Configured PROVE EngineSpec => []OneNodeOpens
<1>1. EInv => OneNodeOpens
  <2> SUFFICES ASSUME EInv, world.prompt, ~slipped, ~early, NEW m \in Node, NEW n \in Node, Opens(m), Opens(n)
               PROVE  m = n
    BY DEF OneNodeOpens
  <2>1. Mine(m) /\ Mine(n)
    BY DEF EInv, HInv, OpenersHold, Relies, Opens, HoldersHave
  <2> QED
    BY <2>1 DEF Mine
<1> QED
  BY <1>1, InitEInv, NextEInv, PTL DEF EngineSpec
=============================================================================
