--------------------------- MODULE Streams_proofs ---------------------------
(***************************************************************************)
(* Safety of Streams for every set of nodes, any number of events, consumers,  *)
(* edits and troubles, and whichever writes fail, and that it implements        *)
(* Delivery.                                                                *)
(***************************************************************************)
EXTENDS Streams, TLAPS

OpRecord ==
  [pc : {"idle", "stop", "wait", "look", "called", "handover", "back", "after", "acquire", "begin"},
   why : {"none", "start", "update", "remove", "shutdown", "serve"},
   row : [enabled : BOOLEAN] \cup {None}, peer : Node \cup {None}]
ConsumerRecord ==
  [node : Node \cup {None}, pc : {"off", "fetch", "write", "mark"}, live : BOOLEAN,
   pos : 0 .. MaxEvents, batch : SUBSET Event, upto : 0 .. MaxEvents]

-----------------------------------------------------------------------------
(* What the consumers, the changes and the lease have to do with each other.   *)

\* A change has stopped the node's runner, and a stopped consumer is no runner.
Locked == \A n \in Node : op[n].pc \notin {"idle", "stop"} => runner[n] = 0
LiveRun == \A c \in Consumer : consumer[c].live => /\ consumer[c].node \in Node
                                                   /\ runner[consumer[c].node] = c

\* While no lease is lost, whoever counts on it has it, and a node with a
\* consumer, or about to begin one, counts on it.
HeldIsHad == \A n \in held : holder = n
RunnersHold == \A n \in Node : runner[n] # 0 \/ op[n].pc = "begin" => n \in held

\* A Kafka consumer that is told to stop has its node wait for it.
StoppedWaits ==
  kind = "kafka" => \A c \in Consumer : consumer[c].node # None /\ ~consumer[c].live =>
                      op[consumer[c].node].pc = "wait" /\ consumer[c].node \in held

Lease == ~stolen => HeldIsHad /\ RunnersHold /\ StoppedWaits

IInv == /\ TypeOK /\ produced + budget.events <= MaxEvents
        /\ Locked /\ LiveRun /\ Lease /\ OneConsumer

-----------------------------------------------------------------------------
(* What has been written of what a consumer has fetched.                       *)
InFeed(r, p) == r.pos <= p /\ r.upto <= p /\ r.batch \subseteq 1 .. p

\* Nothing behind a consumer is missing in what is accounted for, except its batch.
Behind(r, tab) ==
  /\ r.pc = "fetch" => 1 .. r.pos \subseteq tab
  /\ r.pc = "write" => /\ 1 .. r.upto \subseteq tab \cup r.batch
                       /\ IF kind = "kafka" THEN 1 .. r.pos \subseteq tab ELSE r.pos <= r.upto
  /\ r.pc = "mark" => 1 .. r.upto \subseteq tab

Known == mark <= produced /\ \A c \in Consumer : InFeed(consumer[c], produced)
Written == 1 .. mark \subseteq accounted /\ \A c \in Consumer : Behind(consumer[c], accounted)

DInv == IInv /\ Known /\ (stream # None => Written)

-----------------------------------------------------------------------------
LEMMA Facts ==
  ASSUME TypeOK
  PROVE  /\ MaxEvents \in Nat /\ MaxConsumers \in Nat /\ 0 \notin Consumer /\ None \notin Node
         /\ op \in [Node -> OpRecord] /\ consumer \in [Consumer -> ConsumerRecord]
         /\ \A n \in Node : op[n] \in OpRecord
         /\ \A c \in Consumer : consumer[c] \in ConsumerRecord
         /\ \A n \in Node : runner[n] # 0 => runner[n] \in Consumer
BY StreamsAssumption DEF TypeOK, OpRecord, ConsumerRecord, Consumer

LEMMA Blanks ==
  /\ NoOp \in OpRecord /\ NoOp.pc = "idle" /\ NoOp.why = "none"
  /\ Off \in ConsumerRecord /\ Off.node = None /\ ~Off.live /\ Off.pc = "off"
  /\ Off.pos = 0 /\ Off.upto = 0 /\ Off.batch = {}
BY StreamsAssumption DEF NoOp, OpRecord, Off, ConsumerRecord

LEMMA Spends ==
  ASSUME budget \in Budget, NEW what \in {"events", "edits", "trouble"}, spend(what)
  PROVE  /\ budget' \in Budget
         /\ IF what = "events" THEN budget.events > 0 /\ budget'.events = budget.events - 1
                               ELSE budget'.events = budget.events
<1>1. MaxEvents \in Nat
  BY StreamsAssumption
<1>2. CASE what = "events"
  <2>1. budget.events > 0 /\ budget' = [budget EXCEPT !.events = @ - 1]
    BY <1>2 DEF spend
  <2> QED
    BY <1>1, <1>2, <2>1 DEF Budget
<1>3. CASE what = "edits"
  <2>1. budget.edits > 0 /\ budget' = [budget EXCEPT !.edits = @ - 1]
    BY <1>3 DEF spend
  <2> QED
    BY <1>1, <1>3, <2>1 DEF Budget
<1>4. CASE what = "trouble"
  <2>1. budget.trouble > 0 /\ budget' = [budget EXCEPT !.trouble = @ - 1]
    BY <1>4 DEF spend
  <2> QED
    BY <1>1, <1>4, <2>1 DEF Budget
<1> QED
  BY <1>2, <1>3, <1>4

-----------------------------------------------------------------------------
(* What the steps do to the consumers.                                        *)
Same(c) == \A d \in Consumer : d # c => consumer'[d] = consumer[d]
Goes(c, pc) ==
  /\ consumer'[c].pc = pc
  /\ consumer'[c].node = consumer[c].node /\ consumer'[c].live = consumer[c].live

LEMMA ToMoves ==
  ASSUME TypeOK, NEW c \in Consumer, NEW pc \in {"fetch", "write", "mark"}, to(c, pc)
  PROVE  /\ consumer' \in [Consumer -> ConsumerRecord] /\ Same(c) /\ Goes(c, pc)
         /\ consumer'[c].pos = consumer[c].pos /\ consumer'[c].batch = consumer[c].batch
         /\ consumer'[c].upto = consumer[c].upto
<1> DEFINE r == [consumer[c] EXCEPT !.pc = pc]
<1>1. /\ r \in ConsumerRecord /\ r.pc = pc /\ r.node = consumer[c].node /\ r.live = consumer[c].live
      /\ r.pos = consumer[c].pos /\ r.batch = consumer[c].batch /\ r.upto = consumer[c].upto
  BY Facts DEF ConsumerRecord
<1>2. consumer' = [consumer EXCEPT ![c] = r]
  BY DEF to
<1> HIDE DEF r
<1> QED
  BY <1>1, <1>2, Facts DEF Same, Goes

LEMMA NextMoves ==
  ASSUME TypeOK, NEW c \in Consumer, NEW pos \in 0 .. MaxEvents, next(c, pos)
  PROVE  /\ consumer' \in [Consumer -> ConsumerRecord] /\ Same(c)
         /\ \/ consumer[c].live /\ Goes(c, "fetch") /\ consumer'[c].pos = pos
               /\ consumer'[c].batch = {} /\ consumer'[c].upto = 0
            \/ ~consumer[c].live /\ consumer'[c] = Off
<1> DEFINE r == IF consumer[c].live
                THEN [consumer[c] EXCEPT !.pc = "fetch", !.pos = pos, !.batch = {}, !.upto = 0] ELSE Off
<1>1. /\ r \in ConsumerRecord
      /\ consumer[c].live => /\ r.pc = "fetch" /\ r.node = consumer[c].node /\ r.live = consumer[c].live
                             /\ r.pos = pos /\ r.batch = {} /\ r.upto = 0
      /\ ~consumer[c].live => r = Off
  BY Facts, Blanks DEF ConsumerRecord
<1>2. consumer' = [consumer EXCEPT ![c] = r]
  BY DEF next
<1> HIDE DEF r
<1> QED
  BY <1>1, <1>2, Facts DEF Same, Goes

LEMMA TakeMoves ==
  ASSUME TypeOK, NEW c \in Consumer, take(c)
  PROVE  /\ consumer' \in [Consumer -> ConsumerRecord] /\ Same(c)
         /\ consumer[c].pc = "fetch" /\ Goes(c, "write")
         /\ \E upto \in consumer[c].pos + 1 .. produced :
              /\ consumer'[c].upto = upto /\ consumer'[c].batch = consumer[c].pos + 1 .. upto
              /\ consumer'[c].pos = IF kind = "kafka" THEN consumer[c].pos ELSE upto
<1>1. PICK upto \in consumer[c].pos + 1 .. produced :
        consumer' = [consumer EXCEPT ![c].pc = "write", ![c].upto = upto,
                       ![c].batch = consumer[c].pos + 1 .. upto,
                       ![c].pos = IF kind = "kafka" THEN @ ELSE upto]
  BY DEF take
<1>2. consumer[c] \in ConsumerRecord /\ consumer[c].pos \in 0 .. MaxEvents /\ upto \in 1 .. MaxEvents
  <2>1. consumer[c] \in ConsumerRecord /\ consumer[c].pos \in 0 .. MaxEvents
    BY Facts DEF ConsumerRecord
  <2> QED
    BY <2>1, Facts DEF TypeOK
<1>3. PICK b \in SUBSET Event : b = consumer[c].pos + 1 .. upto
  BY <1>2, Facts DEF Event
<1>4. PICK p \in 0 .. MaxEvents : p = IF kind = "kafka" THEN consumer[c].pos ELSE upto
  BY <1>2, Facts
<1> DEFINE r == [consumer[c] EXCEPT !.pc = "write", !.upto = upto, !.batch = b, !.pos = p]
<1>5. /\ r \in ConsumerRecord /\ r.pc = "write" /\ r.node = consumer[c].node /\ r.live = consumer[c].live
      /\ r.upto = upto /\ r.batch = b /\ r.pos = p
  <2>1. upto \in 0 .. MaxEvents
    BY <1>2, Facts
  <2> QED
    BY <1>2, <2>1 DEF ConsumerRecord
<1>6. consumer' = [consumer EXCEPT ![c] = r]
  BY <1>1, <1>3, <1>4, Facts
<1> HIDE DEF r
<1>7. /\ consumer' \in [Consumer -> ConsumerRecord] /\ Same(c) /\ Goes(c, "write")
      /\ consumer'[c].upto = upto /\ consumer'[c].batch = b /\ consumer'[c].pos = p
  BY <1>5, <1>6, Facts DEF Same, Goes
<1> QED
  BY <1>3, <1>4, <1>7 DEF take

\* A runner that is stopped is gone, or ends its batch.
LEMMA StopMoves ==
  ASSUME TypeOK, NEW n \in Node, stopRunner(n)
  PROVE  /\ runner' \in [Node -> Consumer \cup {0}] /\ consumer' \in [Consumer -> ConsumerRecord]
         /\ runner'[n] = 0 /\ \A m \in Node \ {n} : runner'[m] = runner[m]
         /\ Same(runner[n])
         /\ runner[n] # 0 =>
              LET c == runner[n] IN
              /\ c \in Consumer /\ consumer[c].node = n /\ ~consumer'[c].live
              /\ \/ consumer'[c] = Off
                 \/ /\ consumer'[c].node = n /\ consumer'[c].pc = consumer[c].pc
                    /\ consumer'[c].pos = consumer[c].pos /\ consumer'[c].batch = consumer[c].batch
                    /\ consumer'[c].upto = consumer[c].upto
<1>1. /\ runner' \in [Node -> Consumer \cup {0}]
      /\ runner'[n] = 0 /\ \A m \in Node \ {n} : runner'[m] = runner[m]
  BY DEF stopRunner, TypeOK
<1>2. CASE runner[n] = 0
  BY <1>1, <1>2, Facts DEF stopRunner, Same
<1>3. CASE runner[n] # 0
  <2> DEFINE c == runner[n]
             r == stopped(c)
  <2>1. c \in Consumer /\ consumer[c].node = n /\ consumer[c] \in ConsumerRecord
    BY <1>3, Facts DEF TypeOK
  <2>2. /\ r \in ConsumerRecord /\ ~r.live
        /\ \/ r = Off
           \/ /\ r.node = n /\ r.pc = consumer[c].pc /\ r.pos = consumer[c].pos
              /\ r.batch = consumer[c].batch /\ r.upto = consumer[c].upto
    BY <2>1, Blanks DEF stopped, ConsumerRecord
  <2>3. consumer' = [consumer EXCEPT ![c] = r]
    BY <1>3 DEF stopRunner
  <2> HIDE DEF r
  <2> QED
    BY <1>1, <2>1, <2>2, <2>3, Facts DEF Same
<1> QED
  BY <1>2, <1>3

-----------------------------------------------------------------------------
(* The invariant of the consumers, the changes and the lease, in two parts:     *)
(* what is only a matter of types, and the machine of runners and changes.      *)
Base ==
  /\ kind \in Kinds
  /\ produced \in 0 .. MaxEvents /\ mark \in 0 .. MaxEvents /\ table \in SUBSET Event /\ dropped \in SUBSET Event
  /\ stream \in [enabled : BOOLEAN] \cup {None}
  /\ holder \in Node \cup {None} /\ held \subseteq Node /\ wants \subseteq Node
  /\ asked \subseteq Node \X Node
  /\ budget \in Budget /\ stolen \in BOOLEAN
  /\ produced + budget.events <= MaxEvents

Machine ==
  /\ op \in [Node -> OpRecord] /\ consumer \in [Consumer -> ConsumerRecord]
  /\ runner \in [Node -> Consumer \cup {0}]
  /\ \A n \in Node : runner[n] # 0 => consumer[runner[n]].node = n /\ consumer[runner[n]].live
  /\ Locked /\ LiveRun /\ Lease /\ OneConsumer

LEMMA Parts == /\ IInv <=> Base /\ Machine
               /\ IInv' <=> Base' /\ Machine'
BY DEF IInv, TypeOK, Base, Machine, OpRecord, ConsumerRecord

LEMMA InitIInv == Init => IInv
<1> SUFFICES ASSUME Init PROVE Base /\ Machine
  BY Parts
<1>1. MaxEvents \in Nat /\ MaxConsumers \in Nat /\ Budgets \subseteq Budget /\ None \notin Node
  BY StreamsAssumption
<1>2. Base
  <2>1. budget \in Budget /\ budget.events \in 0 .. MaxEvents
    BY <1>1 DEF Init, Budget
  <2>2. stream \in [enabled : BOOLEAN] /\ kind \in Kinds
    BY DEF Init
  <2>3. /\ produced \in 0 .. MaxEvents /\ mark \in 0 .. MaxEvents
        /\ produced + budget.events <= MaxEvents
    BY <1>1, <2>1 DEF Init
  <2>4. /\ table \in SUBSET Event /\ dropped \in SUBSET Event /\ holder \in Node \cup {None} /\ held \subseteq Node /\ wants \subseteq Node
        /\ asked \subseteq Node \X Node /\ stolen \in BOOLEAN
    BY DEF Init
  <2> QED
    BY <2>1, <2>2, <2>3, <2>4 DEF Base
<1>3. Machine
  BY <1>1, Blanks DEF Init, Machine, Locked, LiveRun, Lease, HeldIsHad, RunnersHold, StoppedWaits, OneConsumer
<1> QED
  BY <1>2, <1>3

\* What a consumer does by itself: it goes on, or is gone once it was stopped.
LEMMA ConsumerKeeps ==
  ASSUME IInv, NEW c \in Consumer, consumer' \in [Consumer -> ConsumerRecord], Same(c),
         \/ consumer'[c].node = consumer[c].node /\ consumer'[c].live = consumer[c].live
         \/ ~consumer[c].live /\ consumer'[c] = Off,
         UNCHANGED <<kind, leaseVars, op, runner, stolen>>
  PROVE  Machine'
<1>1. \A d \in Consumer : \/ consumer'[d].node = consumer[d].node /\ consumer'[d].live = consumer[d].live
                          \/ ~consumer[d].live /\ consumer'[d].node = None /\ ~consumer'[d].live
  BY Blanks DEF Same
<1>2. op' \in [Node -> OpRecord] /\ runner' \in [Node -> Consumer \cup {0}]
  BY Parts DEF Machine
<1>3. \A n \in Node : runner[n] # 0 => runner[n] \in Consumer /\ consumer[runner[n]].node = n /\ consumer[runner[n]].live
  BY Parts DEF Machine
<1>4. \A n \in Node : runner'[n] # 0 => consumer'[runner'[n]].node = n /\ consumer'[runner'[n]].live
  BY <1>1, <1>3
<1>5. Locked' /\ LiveRun'
  BY <1>1 DEF IInv, Locked, LiveRun
<1>6. Lease'
  BY <1>1 DEF IInv, Lease, HeldIsHad, RunnersHold, StoppedWaits, leaseVars
<1>7. OneConsumer'
  BY <1>1 DEF IInv, OneConsumer
<1> QED
  BY <1>2, <1>4, <1>5, <1>6, <1>7 DEF Machine

LEMMA ConsumerStep ==
  ASSUME IInv, NEW c \in Consumer, Fetch(c) \/ Write(c) \/ WriteFails(c) \/ Mark(c) \/ Acknowledge(c)
  PROVE  IInv'
<1>0. /\ TypeOK /\ Base /\ Machine /\ consumer[c] \in ConsumerRecord
      /\ consumer[c].pos \in 0 .. MaxEvents /\ consumer[c].upto \in 0 .. MaxEvents /\ consumer[c].batch \subseteq Event
  BY Parts, Facts DEF IInv, ConsumerRecord
<1>1. Base'
  BY <1>0 DEF Fetch, Write, WriteFails, Mark, Acknowledge, Base, leaseVars, opVars, feedVars
<1>2. UNCHANGED <<kind, leaseVars, op, runner, stolen>>
  BY DEF Fetch, Write, WriteFails, Mark, Acknowledge, opVars
<1>3. CASE Fetch(c)
  <2>1. take(c)
    BY <1>3 DEF Fetch
  <2>2. consumer' \in [Consumer -> ConsumerRecord] /\ Same(c) /\ Goes(c, "write")
    BY <1>0, <2>1, TakeMoves
  <2> QED
    BY <1>1, <1>2, <2>2, ConsumerKeeps, Parts DEF Goes
<1>4. CASE Write(c)
  <2>1. to(c, "mark")
    BY <1>4 DEF Write
  <2>2. consumer' \in [Consumer -> ConsumerRecord] /\ Same(c) /\ Goes(c, "mark")
    BY <1>0, <2>1, ToMoves
  <2> QED
    BY <1>1, <1>2, <2>2, ConsumerKeeps, Parts DEF Goes
<1>5. CASE WriteFails(c) \/ Mark(c)
  <2>1. \E pos \in 0 .. MaxEvents : next(c, pos)
    BY <1>0, <1>5 DEF WriteFails, Mark
  <2>2. /\ consumer' \in [Consumer -> ConsumerRecord] /\ Same(c)
        /\ (consumer[c].live /\ Goes(c, "fetch")) \/ (~consumer[c].live /\ consumer'[c] = Off)
    BY <1>0, <2>1, NextMoves
  <2> QED
    BY <1>1, <1>2, <2>2, ConsumerKeeps, Parts DEF Goes
<1>6. CASE Acknowledge(c)
  <2>1. UNCHANGED consumer
    BY <1>6 DEF Acknowledge
  <2> QED
    BY <1>0, <1>1, <1>2, <2>1, ConsumerKeeps, Parts DEF Same, Machine
<1> QED
  BY <1>3, <1>4, <1>5, <1>6

\* One part of a change that stops and begins nothing: the node counts on the
\* lease where it must, and leaves a place where it waits only when it may.
LEMMA ChangeKeeps ==
  ASSUME IInv, NEW n \in Node, NEW o \in OpRecord, op' = [op EXCEPT ![n] = o],
         UNCHANGED <<kind, runner, consumer, stolen>>,
         o.pc \notin {"idle", "stop"} => runner[n] = 0,
         op[n].pc = "wait" => Ended(n),
         ~stolen => /\ \A m \in held' : holder' = m
                    /\ \A m \in Node \ {n} : m \in held => m \in held'
                    /\ runner[n] # 0 \/ o.pc = "begin" => n \in held'
  PROVE  Machine'
<1>0. Machine /\ TypeOK
  BY Parts DEF IInv
<1>1. op' \in [Node -> OpRecord] /\ op'[n] = o /\ \A m \in Node \ {n} : op'[m] = op[m]
  BY <1>0, Facts
<1>2. /\ consumer' \in [Consumer -> ConsumerRecord] /\ runner' \in [Node -> Consumer \cup {0}]
      /\ \A m \in Node : runner'[m] # 0 => consumer'[runner'[m]].node = m /\ consumer'[runner'[m]].live
      /\ LiveRun' /\ OneConsumer'
  BY <1>0 DEF Machine, LiveRun, OneConsumer
<1>3. Locked'
  BY <1>0, <1>1 DEF Machine, Locked
<1>4. ASSUME ~stolen PROVE HeldIsHad' /\ RunnersHold' /\ StoppedWaits'
  <2>1. HeldIsHad' /\ RunnersHold'
    BY <1>0, <1>1, <1>4 DEF Machine, Lease, HeldIsHad, RunnersHold
  <2>2. ASSUME kind = "kafka", NEW c \in Consumer, consumer[c].node # None, ~consumer[c].live
        PROVE  op'[consumer[c].node].pc = "wait" /\ consumer[c].node \in held'
    <3>1. /\ op[consumer[c].node].pc = "wait" /\ consumer[c].node \in held
          /\ consumer[c].node \in Node
      BY <1>0, <1>4, <2>2 DEF Machine, Lease, StoppedWaits, ConsumerRecord
    <3>2. consumer[c].node # n
      BY <2>2, <3>1 DEF Ended
    <3> QED
      BY <1>1, <1>4, <3>1, <3>2
  <2> QED
    BY <2>1, <2>2 DEF StoppedWaits
<1> QED
  BY <1>1, <1>2, <1>3, <1>4 DEF Machine, Lease

\* Who has the row after an acquire or a release.
LEMMA AcquireKeeps ==
  ASSUME IInv, ~stolen, NEW n \in Node, acquire(n)
  PROVE  /\ \A m \in held' : holder' = m
         /\ \A m \in Node \ {n} : m \in held => m \in held'
         /\ holder \in {None, n} => n \in held'
<1>1. \A m \in held : holder = m /\ m \in Node
  BY DEF IInv, Lease, HeldIsHad, TypeOK
<1> QED
  BY <1>1, StreamsAssumption DEF acquire

LEMMA ReleaseKeeps ==
  ASSUME IInv, ~stolen, NEW n \in Node, release(n)
  PROVE  /\ \A m \in held' : holder' = m
         /\ \A m \in Node \ {n} : m \in held => m \in held'
<1>1. \A m \in held : holder = m
  BY DEF IInv, Lease, HeldIsHad
<1> QED
  BY <1>1 DEF release

LEMMA BaseLease ==
  ASSUME Base, NEW n \in Node, acquire(n) \/ release(n) PROVE holder' \in Node \cup {None} /\ held' \subseteq Node
BY DEF Base, acquire, release

\* A locked change that begins.
LEMMA StartKeeps ==
  ASSUME IInv, NEW n \in Node, NEW o \in OpRecord, start(n, o), o.pc \in {"acquire", "stop"},
         o.pc = "acquire" => runner[n] = 0, UNCHANGED <<kind, leaseVars, runner, consumer, stolen>>
  PROVE  Machine'
<1>1. op' = [op EXCEPT ![n] = o] /\ op[n].pc = "idle"
  BY DEF start, at
<1>2. ~stolen => HeldIsHad /\ RunnersHold
  BY DEF IInv, Lease
<1>3. ~stolen => /\ \A m \in held' : holder' = m
                 /\ \A m \in Node \ {n} : m \in held => m \in held'
                 /\ runner[n] # 0 \/ o.pc = "begin" => n \in held'
  BY <1>2 DEF leaseVars, HeldIsHad, RunnersHold
<1> QED
  BY <1>1, <1>3, ChangeKeeps

LEMMA Starts ==
  /\ [NoOp EXCEPT !.pc = "acquire", !.why = "start"] \in OpRecord
  /\ [NoOp EXCEPT !.pc = "acquire", !.why = "start"].pc = "acquire"
  /\ \A w \in {"remove", "shutdown"} : /\ [NoOp EXCEPT !.pc = "stop", !.why = w] \in OpRecord
                                       /\ [NoOp EXCEPT !.pc = "stop", !.why = w].pc = "stop"
  /\ \A r \in [enabled : BOOLEAN] \cup {None} :
       /\ [NoOp EXCEPT !.pc = "stop", !.why = "update", !.row = r] \in OpRecord
       /\ [NoOp EXCEPT !.pc = "stop", !.why = "update", !.row = r].pc = "stop"
  /\ \A m \in Node : /\ [NoOp EXCEPT !.pc = "stop", !.why = "serve", !.peer = m] \in OpRecord
                     /\ [NoOp EXCEPT !.pc = "stop", !.why = "serve", !.peer = m].pc = "stop"
BY DEF NoOp, OpRecord

LEMMA StartStep ==
  ASSUME IInv, NEW n \in Node,
         TakeOver(n) \/ UpdateReads(n) \/ Remove(n) \/ Shutdown(n) \/ Serve(n)
  PROVE  IInv'
<1>0. Base /\ Machine
  BY Parts
<1>1. CASE TakeOver(n)
  <2>1. Base'
    BY <1>0, <1>1 DEF TakeOver, Base, leaseVars, feedVars
  <2>2. Machine'
    BY <1>1, Starts, StartKeeps DEF TakeOver
  <2> QED
    BY <2>1, <2>2, Parts
<1>2. CASE UpdateReads(n)
  <2>1. Base'
    BY <1>0, <1>2 DEF UpdateReads, Base, leaseVars, feedVars
  <2>2. stream \in [enabled : BOOLEAN] \cup {None}
    BY <1>0 DEF Base
  <2>3. Machine'
    BY <1>2, <2>2, Starts, StartKeeps DEF UpdateReads
  <2> QED
    BY <2>1, <2>3, Parts
<1>3. CASE Remove(n) \/ Shutdown(n)
  <2>1. budget' \in Budget /\ budget'.events = budget.events
    BY <1>0, <1>3, Spends DEF Remove, Shutdown, Base
  <2>2. Base'
    BY <1>0, <1>3, <2>1 DEF Remove, Shutdown, Base, leaseVars, feedVars
  <2>3. Machine'
    BY <1>3, Starts, StartKeeps DEF Remove, Shutdown
  <2> QED
    BY <2>2, <2>3, Parts
<1>4. CASE Serve(n)
  <2>1. Base'
    BY <1>0, <1>4 DEF Serve, Base, leaseVars, feedVars
  <2>2. Machine'
    BY <1>4, Starts, StartKeeps DEF Serve
  <2> QED
    BY <2>1, <2>2, Parts
<1> QED
  BY <1>1, <1>2, <1>3, <1>4

\* A change goes on to another place.
LEMMA GotoIs ==
  ASSUME TypeOK, NEW n \in Node, NEW pc \in {"look", "called", "wait", "handover", "back", "after", "acquire", "begin"},
         goto(n, pc)
  PROVE  \E o \in OpRecord : op' = [op EXCEPT ![n] = o] /\ o.pc = pc /\ o.why = op[n].why
<1> DEFINE o == [op[n] EXCEPT !.pc = pc]
<1>1. o \in OpRecord /\ o.pc = pc /\ o.why = op[n].why
  BY Facts DEF OpRecord
<1>2. op' = [op EXCEPT ![n] = o]
  BY DEF goto
<1> HIDE DEF o
<1> QED
  BY <1>1, <1>2

LEMMA DoneIs ==
  ASSUME NEW n \in Node, done(n) PROVE \E o \in OpRecord : op' = [op EXCEPT ![n] = o] /\ o.pc = "idle"
BY Blanks DEF done

\* The node of a change that has stopped its runner goes on, with the lease as
\* it was, or as an acquire or a release makes it.
LEMMA LaterKeeps ==
  ASSUME IInv, NEW n \in Node, op[n].pc \notin {"idle", "stop"}, op[n].pc = "wait" => Ended(n),
         NEW o \in OpRecord, op' = [op EXCEPT ![n] = o],
         UNCHANGED leaseVars \/ acquire(n) \/ release(n),
         o.pc # "begin" \/ (acquire(n) /\ holder \in {None, n}),
         UNCHANGED <<kind, runner, consumer, stolen>>
  PROVE  Machine'
<1>1. runner[n] = 0
  BY DEF IInv, Locked
<1>2. ~stolen => HeldIsHad
  BY DEF IInv, Lease
<1>3. ASSUME ~stolen
      PROVE  /\ \A m \in held' : holder' = m
             /\ \A m \in Node \ {n} : m \in held => m \in held'
             /\ o.pc = "begin" => n \in held'
  <2>1. CASE UNCHANGED leaseVars /\ o.pc # "begin"
    BY <1>2, <1>3, <2>1 DEF leaseVars, HeldIsHad
  <2>2. CASE acquire(n)
    BY <1>3, <2>2, AcquireKeeps
  <2>3. CASE release(n) /\ o.pc # "begin"
    BY <1>3, <2>3, ReleaseKeeps
  <2> QED
    BY <2>1, <2>2, <2>3
<1> QED
  BY <1>1, <1>3, ChangeKeeps

LEMMA ChangeStep ==
  ASSUME IInv, NEW n \in Node,
         \/ Waited(n) \/ Look(n) \/ Handover(n) \/ Answered(n) \/ GiveUp(n)
         \/ TakeBack(n) \/ After(n) \/ Acquire(n)
  PROVE  IInv'
<1>0. Base /\ Machine /\ TypeOK /\ op[n] \in OpRecord
  BY Parts, Facts DEF IInv
<1>1. CASE Waited(n)
  <2>1. Base'
    BY <1>0, <1>1 DEF Waited, Base, leaseVars, feedVars
  <2>2. \E o \in OpRecord : op' = [op EXCEPT ![n] = o] /\ o.pc # "begin"
    BY <1>0, <1>1, GotoIs DEF Waited
  <2>3. Machine'
    BY <1>1, <2>2, LaterKeeps DEF Waited, at
  <2> QED
    BY <2>1, <2>3, Parts
<1>2. CASE Look(n)
  <2>1. Base'
    BY <1>0, <1>2 DEF Look, Base, leaseVars, feedVars
  <2>2. \E o \in OpRecord : op' = [op EXCEPT ![n] = o] /\ o.pc # "begin"
    <3>1. CASE holder \in Node \ {n}
      <4> DEFINE o == [op[n] EXCEPT !.pc = "called", !.peer = holder]
      <4>1. o \in OpRecord /\ o.pc = "called"
        BY <1>0, <3>1 DEF OpRecord
      <4>2. op' = [op EXCEPT ![n] = o]
        BY <1>0, <1>2, <3>1, Facts DEF Look
      <4> HIDE DEF o
      <4> QED
        BY <4>1, <4>2
    <3>2. CASE holder \notin Node \ {n}
      BY <1>0, <1>2, <3>2, GotoIs DEF Look
    <3> QED
      BY <3>1, <3>2
  <2>3. Machine'
    BY <1>2, <2>2, LaterKeeps DEF Look, at
  <2> QED
    BY <2>1, <2>3, Parts
<1>3. CASE Handover(n)
  <2>1. op[n].peer \in Node \cup {None}
    BY <1>0 DEF OpRecord
  <2>2. Base'
    BY <1>0, <1>3, <2>1 DEF Handover, Base, feedVars
  <2>3. \E o \in OpRecord : op' = [op EXCEPT ![n] = o] /\ o.pc = "idle"
    BY <1>3, DoneIs DEF Handover
  <2>4. runner[n] = 0 /\ op[n].pc = "handover"
    BY <1>0, <1>3 DEF Handover, at, Machine, Locked
  <2>5. ~stolen => /\ \A m \in held' : holder' = m
                   /\ \A m \in Node \ {n} : m \in held => m \in held'
    BY <1>0, <1>3 DEF Handover, Machine, Lease, HeldIsHad
  <2>6. Machine'
    BY <1>3, <2>3, <2>4, <2>5, ChangeKeeps DEF Handover
  <2> QED
    BY <2>2, <2>6, Parts
<1>4. CASE Answered(n) \/ GiveUp(n)
  <2>1. budget' \in Budget /\ budget'.events = budget.events
    BY <1>0, <1>4, Spends DEF Answered, GiveUp, Base
  <2>2. Base'
    BY <1>0, <1>4, <2>1 DEF Answered, GiveUp, Base, leaseVars, feedVars
  <2>3. \E o \in OpRecord : op' = [op EXCEPT ![n] = o] /\ o.pc # "begin"
    BY <1>0, <1>4, GotoIs DEF Answered, GiveUp
  <2>4. Machine'
    BY <1>4, <2>3, LaterKeeps DEF Answered, GiveUp, at
  <2> QED
    BY <2>2, <2>4, Parts
<1>5. CASE TakeBack(n)
  <2>1. Base'
    BY <1>0, <1>5, BaseLease DEF TakeBack, Base, feedVars
  <2>2. \E o \in OpRecord : op' = [op EXCEPT ![n] = o] /\ o.pc # "begin"
    BY <1>0, <1>5, GotoIs DEF TakeBack
  <2>3. Machine'
    BY <1>5, <2>2, LaterKeeps DEF TakeBack, at
  <2> QED
    BY <2>1, <2>3, Parts
<1>6. CASE After(n)
  <2>1. UNCHANGED leaseVars \/ release(n)
    BY <1>6 DEF After
  <2>2. Base'
    BY <1>0, <1>6, <2>1, BaseLease DEF After, Base, leaseVars, feedVars
  <2>3. \E o \in OpRecord : op' = [op EXCEPT ![n] = o] /\ o.pc # "begin"
    <3>1. goto(n, "acquire") \/ done(n)
      BY <1>6 DEF After
    <3> QED
      BY <1>0, <3>1, GotoIs, DoneIs
  <2>4. op[n].pc = "after" /\ UNCHANGED <<kind, runner, consumer, stolen>>
    BY <1>6 DEF After, at
  <2>5. Machine'
    BY <2>1, <2>3, <2>4, LaterKeeps
  <2> QED
    BY <2>2, <2>5, Parts
<1>7. CASE Acquire(n)
  <2>1. Base'
    BY <1>0, <1>7, BaseLease DEF Acquire, Base, feedVars
  <2>2. \E o \in OpRecord : op' = [op EXCEPT ![n] = o] /\ (o.pc # "begin" \/ holder \in {None, n})
    <3>1. (goto(n, "begin") /\ holder \in {None, n}) \/ done(n)
      BY <1>7 DEF Acquire
    <3> QED
      BY <1>0, <3>1, GotoIs, DoneIs
  <2>3. Machine'
    BY <1>7, <2>2, LaterKeeps DEF Acquire, at
  <2> QED
    BY <2>1, <2>3, Parts
<1> QED
  BY <1>1, <1>2, <1>3, <1>4, <1>5, <1>6, <1>7

\* What stays of the machine when a runner is stopped.
LEMMA StoppedKeeps ==
  ASSUME IInv, NEW n \in Node, stopRunner(n), kind' = kind, stolen' = stolen
  PROVE  /\ consumer' \in [Consumer -> ConsumerRecord] /\ runner' \in [Node -> Consumer \cup {0}]
         /\ \A m \in Node : runner'[m] # 0 => consumer'[runner'[m]].node = m /\ consumer'[runner'[m]].live
         /\ LiveRun' /\ OneConsumer'
<1>0. Machine /\ TypeOK
  BY Parts DEF IInv
<1>1. /\ consumer' \in [Consumer -> ConsumerRecord] /\ runner' \in [Node -> Consumer \cup {0}]
      /\ runner'[n] = 0 /\ \A m \in Node \ {n} : runner'[m] = runner[m]
      /\ Same(runner[n])
  BY <1>0, StopMoves
<1>2. runner[n] # 0 => /\ runner[n] \in Consumer /\ consumer[runner[n]].node = n
                       /\ ~consumer'[runner[n]].live /\ consumer'[runner[n]].node \in {n, None}
  BY <1>0, StopMoves, Blanks
<1>3. \A m \in Node : runner[m] # 0 => runner[m] \in Consumer /\ consumer[runner[m]].node = m /\ consumer[runner[m]].live
  BY <1>0 DEF Machine
<1>4. \A m \in Node : runner'[m] # 0 => consumer'[runner'[m]].node = m /\ consumer'[runner'[m]].live
  BY <1>1, <1>2, <1>3 DEF Same
<1>5. \A c \in Consumer : /\ consumer'[c].live => consumer[c].live /\ consumer'[c] = consumer[c] /\ c # runner[n]
                          /\ consumer'[c].node # None => consumer'[c].node = consumer[c].node
  BY <1>0, <1>1, <1>2, Facts DEF Same
<1>6. LiveRun'
  BY <1>0, <1>1, <1>5 DEF Machine, LiveRun
<1>7. OneConsumer'
  BY <1>0, <1>5 DEF Machine, OneConsumer
<1> QED
  BY <1>1, <1>4, <1>6, <1>7

LEMMA StopStep == ASSUME IInv, NEW n \in Node, Stop(n) PROVE IInv'
<1>0. Base /\ Machine /\ TypeOK /\ op[n].pc = "stop" /\ stopRunner(n)
  BY Parts DEF IInv, Stop, at
<1>1. UNCHANGED leaseVars \/ release(n)
  BY DEF Stop
<1>2. Base'
  BY <1>0, <1>1, BaseLease DEF Stop, Base, leaseVars, feedVars
<1>3. PICK o \in OpRecord : op' = [op EXCEPT ![n] = o] /\ o.pc \in {"look", "wait"}
  <2>1. goto(n, "look") \/ goto(n, "wait")
    BY DEF Stop
  <2> QED
    BY <1>0, <2>1, GotoIs
<1>4. CASE runner[n] = 0
  <2>1. UNCHANGED <<runner, consumer>>
    BY <1>0, <1>4 DEF stopRunner, TypeOK
  <2>2. ~stolen => HeldIsHad
    BY DEF IInv, Lease
  <2>3. ~stolen => /\ \A m \in held' : holder' = m
                   /\ \A m \in Node \ {n} : m \in held => m \in held'
    BY <1>1, <2>2, ReleaseKeeps DEF leaseVars, HeldIsHad
  <2>4. Machine'
    BY <1>0, <1>3, <1>4, <2>1, <2>3, ChangeKeeps DEF Stop
  <2> QED
    BY <1>2, <2>4, Parts
<1>5. CASE runner[n] # 0
  <2>1. UNCHANGED <<leaseVars, kind, stolen>> /\ goto(n, "wait")
    BY <1>5 DEF Stop
  <2>2. op' \in [Node -> OpRecord] /\ op'[n].pc = "wait" /\ \A m \in Node \ {n} : op'[m] = op[m]
    <3>1. \E w \in OpRecord : op' = [op EXCEPT ![n] = w] /\ w.pc = "wait"
      BY <1>0, <2>1, GotoIs
    <3> QED
      BY <1>0, <3>1, Facts
  <2>3. /\ runner' \in [Node -> Consumer \cup {0}]
        /\ runner'[n] = 0 /\ \A m \in Node \ {n} : runner'[m] = runner[m]
        /\ Same(runner[n]) /\ runner[n] \in Consumer
        /\ consumer'[runner[n]].node \in {n, None}
    BY <1>0, <1>5, StopMoves, Blanks
  <2>4. Locked'
    BY <1>0, <2>2, <2>3 DEF Machine, Locked
  <2>5. ASSUME ~stolen PROVE HeldIsHad' /\ RunnersHold' /\ StoppedWaits'
    <3>1. HeldIsHad /\ RunnersHold /\ StoppedWaits
      BY <2>5 DEF IInv, Lease
    <3>2. n \in held
      BY <1>5, <3>1 DEF RunnersHold
    <3>3. HeldIsHad' /\ RunnersHold'
      BY <2>1, <2>2, <2>3, <3>1 DEF HeldIsHad, RunnersHold, leaseVars
    <3>4. ASSUME kind = "kafka", NEW c \in Consumer, consumer'[c].node # None, ~consumer'[c].live
          PROVE  op'[consumer'[c].node].pc = "wait" /\ consumer'[c].node \in held
      <4>1. CASE c = runner[n]
        BY <2>2, <2>3, <3>2, <3>4, <4>1
      <4>2. CASE c # runner[n]
        <5>1. consumer'[c] = consumer[c] /\ consumer[c].node \in Node
          BY <1>0, <2>3, <3>4, <4>2 DEF Same, Machine, ConsumerRecord
        <5>2. op[consumer[c].node].pc = "wait" /\ consumer[c].node \in held
          BY <3>1, <3>4, <5>1 DEF StoppedWaits
        <5> QED
          BY <1>0, <2>2, <5>1, <5>2
      <4> QED
        BY <4>1, <4>2
    <3> QED
      BY <2>1, <3>3, <3>4 DEF StoppedWaits, leaseVars
  <2>6. Machine'
    BY <1>0, <2>1, <2>2, <2>4, <2>5, StoppedKeeps DEF Machine, Lease
  <2> QED
    BY <1>2, <2>6, Parts
<1> QED
  BY <1>4, <1>5

\* The new consumer of a node that has stopped the one before.
LEMMA BeginMoves ==
  ASSUME TypeOK, NEW n \in Node, Begin(n)
  PROVE  /\ op[n].pc = "begin" /\ op' = [op EXCEPT ![n] = NoOp]
         /\ consumer' \in [Consumer -> ConsumerRecord]
         /\ \E c \in Consumer :
              /\ consumer[c] = Off /\ Same(c) /\ runner' = [runner EXCEPT ![n] = c]
              /\ consumer'[c].node = n /\ consumer'[c].live /\ consumer'[c].pc = "fetch"
              /\ consumer'[c].pos = mark /\ consumer'[c].upto = 0 /\ consumer'[c].batch = {}
<1>1. op[n].pc = "begin" /\ op' = [op EXCEPT ![n] = NoOp]
  BY DEF Begin, beginAt, at, done
<1> DEFINE r == [Off EXCEPT !.node = n, !.pc = "fetch", !.live = TRUE, !.pos = mark]
<1>2. PICK c \in free : runner' = [runner EXCEPT ![n] = c] /\ consumer' = [consumer EXCEPT ![c] = r]
  BY DEF Begin, beginAt
<1>3. c \in Consumer /\ consumer[c] = Off
  BY DEF free
<1>4. /\ r \in ConsumerRecord /\ r.node = n /\ r.live /\ r.pc = "fetch" /\ r.pos = mark
      /\ r.upto = 0 /\ r.batch = {}
  <2>1. mark \in 0 .. MaxEvents /\ 0 \in 0 .. MaxEvents
    BY StreamsAssumption DEF TypeOK
  <2> QED
    BY <2>1 DEF ConsumerRecord, Off
<1> HIDE DEF r
<1> QED
  BY <1>1, <1>2, <1>3, <1>4, Facts DEF Same

LEMMA BeginStep == ASSUME IInv, NEW n \in Node, Begin(n) PROVE IInv'
<1>0. Base /\ Machine /\ TypeOK
  BY Parts DEF IInv
<1>1. Base'
  BY <1>0 DEF Begin, beginAt, Base, leaseVars, feedVars
<1>2. PICK c \in Consumer :
        /\ consumer[c] = Off /\ Same(c) /\ runner' = [runner EXCEPT ![n] = c]
        /\ consumer'[c].node = n /\ consumer'[c].live
  BY <1>0, BeginMoves
<1>3. op[n].pc = "begin" /\ op' = [op EXCEPT ![n] = NoOp] /\ consumer' \in [Consumer -> ConsumerRecord]
  BY <1>0, BeginMoves
<1>4. UNCHANGED <<kind, leaseVars, stolen>> /\ runner[n] = 0
  BY <1>0, <1>3 DEF Begin, beginAt, Machine, Locked
<1>5. /\ runner' \in [Node -> Consumer \cup {0}] /\ runner'[n] = c
      /\ \A m \in Node \ {n} : runner'[m] = runner[m]
      /\ op' \in [Node -> OpRecord] /\ op'[n] = NoOp /\ \A m \in Node \ {n} : op'[m] = op[m]
  BY <1>0, <1>2, <1>3, Blanks DEF Machine
<1>6. ~consumer[c].live /\ consumer[c].node = None
  BY <1>2, Blanks
<1>7. \A m \in Node : runner'[m] # 0 => consumer'[runner'[m]].node = m /\ consumer'[runner'[m]].live
  BY <1>0, <1>2, <1>5, <1>6 DEF Machine, Same
<1>8. Locked' /\ LiveRun'
  <2>1. Locked'
    BY <1>0, <1>5, Blanks DEF Machine, Locked
  <2>2. ASSUME NEW d \in Consumer, consumer'[d].live, d # c
        PROVE  consumer'[d].node \in Node /\ runner'[consumer'[d].node] = d
    <3>1. consumer'[d] = consumer[d] /\ consumer[d].node \in Node /\ runner[consumer[d].node] = d
      BY <1>0, <1>2, <2>2 DEF Same, Machine, LiveRun
    <3>2. d # 0
      BY <1>0, Facts
    <3> QED
      BY <1>4, <1>5, <3>1, <3>2
  <2> QED
    BY <1>2, <1>5, <2>1, <2>2 DEF LiveRun
<1>9. ASSUME ~stolen PROVE HeldIsHad' /\ RunnersHold' /\ StoppedWaits' /\ OneConsumer'
  <2>1. HeldIsHad /\ RunnersHold /\ StoppedWaits /\ n \in held /\ holder = n
    BY <1>3, <1>9 DEF IInv, Lease, HeldIsHad, RunnersHold
  <2>2. HeldIsHad' /\ RunnersHold'
    BY <1>4, <1>5, <2>1, Blanks DEF HeldIsHad, RunnersHold, leaseVars
\* There is no other one that is not stopped, and of Kafka none at all.
  <2>3. ASSUME NEW d \in Consumer, d # c
        PROVE  ~consumer[d].live /\ (kind = "kafka" => consumer[d].node = None)
    <3>1. ASSUME consumer[d].live PROVE FALSE
      <4>1. consumer[d].node \in Node /\ runner[consumer[d].node] = d /\ d # 0
        BY <1>0, <3>1, Facts DEF Machine, LiveRun
      <4>2. consumer[d].node = n
        BY <2>1, <4>1 DEF HeldIsHad, RunnersHold
      <4> QED
        BY <1>4, <4>1, <4>2
    <3>2. ASSUME kind = "kafka", consumer[d].node # None PROVE FALSE
      <4>1. op[consumer[d].node].pc = "wait" /\ consumer[d].node \in held
        BY <2>1, <3>1, <3>2 DEF StoppedWaits
      <4> QED
        BY <1>3, <2>1, <4>1 DEF HeldIsHad
    <3> QED
      BY <3>1, <3>2
  <2>4. \A d \in Consumer : d # c => ~consumer'[d].live /\ (kind = "kafka" => consumer'[d].node = None)
    BY <1>2, <2>3 DEF Same
  <2>5. StoppedWaits' /\ OneConsumer'
    BY <1>2, <1>4, <2>4 DEF StoppedWaits, OneConsumer
  <2> QED
    BY <2>2, <2>5
<1>10. Lease' /\ OneConsumer'
  BY <1>4, <1>9 DEF Lease, OneConsumer
<1>11. Machine'
  BY <1>3, <1>5, <1>7, <1>8, <1>10 DEF Machine
<1> QED
  BY <1>1, <1>11, Parts

\* A heartbeat stops a runner only once a lease was lost.
LEMMA HeartbeatStep == ASSUME IInv, NEW n \in Node, Heartbeat(n) PROVE IInv'
<1>0. Base /\ Machine /\ TypeOK
  BY Parts DEF IInv
<1>1. stolen /\ stolen' /\ kind' = kind /\ UNCHANGED op
  BY DEF Heartbeat, IInv, Lease, HeldIsHad, opVars, TypeOK
<1>2. Base'
  BY <1>0 DEF Heartbeat, Base, feedVars, opVars
<1>3. CASE stopRunner(n)
  <2>1. runner'[n] = 0 /\ \A m \in Node \ {n} : runner'[m] = runner[m]
    BY <1>0, <1>3, StopMoves
  <2>2. Locked'
    BY <1>0, <1>1, <2>1 DEF Machine, Locked
  <2>3. Machine'
    BY <1>0, <1>1, <1>3, <2>2, StoppedKeeps DEF Machine, Lease
  <2> QED
    BY <1>2, <2>3, Parts
<1>4. CASE UNCHANGED <<runner, consumer>>
  <2>1. Machine'
    BY <1>0, <1>1, <1>4 DEF Machine, Lease, Locked, LiveRun, OneConsumer
  <2> QED
    BY <1>2, <2>1, Parts
<1> QED
  BY <1>3, <1>4 DEF Heartbeat

\* A lease that lapses is nobody's any more.
LEMMA LapseStep == ASSUME IInv, Lapse PROVE IInv'
<1>0. Base /\ Machine
  BY Parts
<1>1. Base'
  BY <1>0 DEF Lapse, Base, feedVars, opVars
<1>2. UNCHANGED <<kind, op, runner, consumer, held, stolen>>
  BY DEF Lapse, opVars
<1>3. ~stolen => held = {}
  BY DEF Lapse, IInv, Lease, HeldIsHad
<1>4. Lease'
  BY <1>0, <1>2, <1>3 DEF Machine, Lease, HeldIsHad, RunnersHold, StoppedWaits
<1>5. Machine'
  BY <1>0, <1>2, <1>4 DEF Machine, Locked, LiveRun, OneConsumer
<1> QED
  BY <1>1, <1>5, Parts

LEMMA PauseStep == ASSUME IInv, Pause PROVE IInv'
<1>0. Base /\ Machine
  BY Parts
<1>1. budget' \in Budget /\ budget'.events = budget.events
  BY <1>0, Spends DEF Pause, Base
<1>2. Base'
  BY <1>0, <1>1 DEF Pause, Base, feedVars, opVars
<1>3. stolen' /\ UNCHANGED <<kind, op, runner, consumer>>
  BY DEF Pause, opVars
<1>4. Machine'
  BY <1>0, <1>3 DEF Machine, Lease, Locked, LiveRun, OneConsumer
<1> QED
  BY <1>2, <1>4, Parts

\* A node that dies takes its consumers with it; its row stays.
LEMMA CrashMoves ==
  ASSUME TypeOK, NEW n \in Node, Crash(n)
  PROVE  /\ consumer' \in [Consumer -> ConsumerRecord] /\ op' = [op EXCEPT ![n] = NoOp]
         /\ \A c \in Consumer : IF consumer[c].node = n THEN consumer'[c] = Off ELSE consumer'[c] = consumer[c]
BY Facts, Blanks DEF Crash, done

LEMMA CrashStep == ASSUME IInv, NEW n \in Node, Crash(n) PROVE IInv'
<1>0. Base /\ Machine /\ TypeOK
  BY Parts DEF IInv
<1>1. budget' \in Budget /\ budget'.events = budget.events
  BY <1>0, Spends DEF Crash, Base
<1>2. Base'
  BY <1>0, <1>1 DEF Crash, Base, feedVars
<1>3. /\ consumer' \in [Consumer -> ConsumerRecord]
      /\ \A c \in Consumer : \/ consumer'[c] = consumer[c] /\ consumer[c].node # n
                             \/ consumer'[c].node = None /\ ~consumer'[c].live
      /\ \A c \in Consumer : consumer[c].node # n => consumer'[c] = consumer[c]
  BY <1>0, CrashMoves, Blanks
<1>4. /\ UNCHANGED <<kind, holder, stolen>> /\ held' = held \ {n}
      /\ runner' \in [Node -> Consumer \cup {0}] /\ runner'[n] = 0
      /\ \A m \in Node \ {n} : runner'[m] = runner[m]
      /\ op' \in [Node -> OpRecord] /\ op'[n].pc = "idle" /\ \A m \in Node \ {n} : op'[m] = op[m]
  <2>1. op' = [op EXCEPT ![n] = NoOp]
    BY <1>0, CrashMoves
  <2>2. op' \in [Node -> OpRecord] /\ op'[n].pc = "idle" /\ \A m \in Node \ {n} : op'[m] = op[m]
    BY <1>0, <2>1, Blanks DEF Machine
  <2> QED
    BY <1>0, <2>2 DEF Machine, Crash
<1>5. \A m \in Node : runner'[m] # 0 => consumer'[runner'[m]].node = m /\ consumer'[runner'[m]].live
  <2>1. ASSUME NEW m \in Node, m # n, runner[m] # 0 PROVE runner[m] \in Consumer /\ consumer'[runner[m]] = consumer[runner[m]]
    BY <1>0, <1>3, <2>1 DEF Machine
  <2> QED
    BY <1>0, <1>4, <2>1 DEF Machine
<1>6. Locked' /\ LiveRun'
  BY <1>0, <1>3, <1>4 DEF Machine, Locked, LiveRun
<1>7. OneConsumer'
  BY <1>0, <1>3, <1>4 DEF Machine, OneConsumer
<1>8. ASSUME ~stolen PROVE HeldIsHad' /\ RunnersHold' /\ StoppedWaits'
  <2>1. HeldIsHad /\ RunnersHold /\ StoppedWaits
    BY <1>8 DEF IInv, Lease
  <2>2. HeldIsHad' /\ RunnersHold'
    BY <1>4, <2>1 DEF HeldIsHad, RunnersHold
  <2>3. ASSUME kind = "kafka", NEW c \in Consumer, consumer'[c].node # None, ~consumer'[c].live
        PROVE  op'[consumer'[c].node].pc = "wait" /\ consumer'[c].node \in held'
    <3>1. consumer'[c] = consumer[c] /\ consumer[c].node # n /\ consumer[c].node \in Node
      BY <1>0, <1>3, <2>3 DEF Machine, ConsumerRecord
    <3>2. op[consumer[c].node].pc = "wait" /\ consumer[c].node \in held
      BY <2>1, <2>3, <3>1 DEF StoppedWaits
    <3> QED
      BY <1>4, <3>1, <3>2
  <2> QED
    BY <1>4, <2>2, <2>3 DEF StoppedWaits
<1>9. Machine'
  BY <1>3, <1>4, <1>5, <1>6, <1>7, <1>8 DEF Machine, Lease
<1> QED
  BY <1>2, <1>9, Parts

LEMMA FeedStep ==
  ASSUME IInv, Produce \/ (\E n \in Node, e \in BOOLEAN : Update(n, e)) \/ UNCHANGED vars PROVE IInv'
<1>0. Base /\ Machine
  BY Parts
<1>1. UNCHANGED <<kind, op, runner, consumer, leaseVars, stolen>>
  BY DEF Produce, Update, vars, opVars
<1>2. Machine'
  BY <1>0, <1>1 DEF Machine, Lease, HeldIsHad, RunnersHold, StoppedWaits, Locked, LiveRun, OneConsumer, leaseVars
<1>3. CASE Produce
  <2>1. budget' \in Budget /\ budget.events > 0 /\ budget'.events = budget.events - 1
    BY <1>0, <1>3, Spends DEF Produce, Base
  <2>2. budget.events \in Nat /\ MaxEvents \in Nat
    BY <1>0, StreamsAssumption DEF Base, Budget
  <2>3. produced' \in 0 .. MaxEvents /\ produced' + budget'.events <= MaxEvents
    BY <1>0, <1>3, <2>1, <2>2 DEF Produce, Base
  <2>4. Base'
    BY <1>0, <1>3, <2>1, <2>3 DEF Produce, Base, leaseVars, opVars
  <2> QED
    BY <1>2, <2>4, Parts
<1>4. ASSUME NEW n \in Node, NEW e \in BOOLEAN, Update(n, e) PROVE IInv'
  <2>1. budget' \in Budget /\ budget'.events = budget.events
    BY <1>0, <1>4, Spends DEF Update, Base
  <2>2. Base'
    BY <1>0, <1>4, <2>1 DEF Update, Base, leaseVars, feedVars
  <2> QED
    BY <1>2, <2>2, Parts
<1>5. CASE UNCHANGED vars
  <2>1. Base'
    BY <1>0, <1>5 DEF vars, Base, leaseVars, feedVars, opVars
  <2> QED
    BY <1>2, <2>1, Parts
<1> QED
  BY <1>3, <1>4, <1>5

LEMMA NextIInv == IInv /\ [Next]_vars => IInv'
<1> SUFFICES ASSUME IInv, [Next]_vars PROVE IInv'
  OBVIOUS
<1>1. ASSUME NEW n \in Node, Change(n) PROVE IInv'
  BY <1>1, ChangeStep, StopStep, BeginStep DEF Change
<1>2. ASSUME NEW n \in Node, TakeOver(n) \/ UpdateReads(n) \/ Serve(n) \/ Remove(n) \/ Shutdown(n) PROVE IInv'
  BY <1>2, StartStep
<1> QED
  BY <1>1, <1>2, ConsumerStep, HeartbeatStep, CrashStep, LapseStep, PauseStep, FeedStep DEF Next

LEMMA SpecIInv == Spec => []IInv
BY InitIInv, NextIInv, PTL DEF Spec

\* Every variable of the streams keeps its type, and a node's runner is its own
\* and is not stopped.
THEOREM TypeCorrect == Spec => []TypeOK
<1>1. IInv => TypeOK
  BY DEF IInv
<1> QED
  BY <1>1, SpecIInv, PTL

\* Whatever is edited, removed, shut down, handed over or given up, and whoever
\* dies: without a lease lost by a paused node, one consumer at most is not
\* stopped, and a Kafka consumer has ended its batch before another one begins.
THEOREM OneAtATime == Spec => []OneConsumer
<1>1. IInv => OneConsumer
  BY DEF IInv
<1> QED
  BY <1>1, SpecIInv, PTL

-----------------------------------------------------------------------------
(* What is written.                                                         *)

\* What a step makes of a consumer's place in the feed.
SamePlace(c) ==
  /\ consumer'[c].pc = consumer[c].pc /\ consumer'[c].pos = consumer[c].pos
  /\ consumer'[c].batch = consumer[c].batch /\ consumer'[c].upto = consumer[c].upto

Fresh(c, pos) ==
  /\ consumer'[c].pc = "fetch" /\ consumer'[c].pos = pos
  /\ consumer'[c].batch = {} /\ consumer'[c].upto = 0

Takes(c) ==
  /\ consumer[c].pc = "fetch" /\ consumer'[c].pc = "write"
  /\ \E upto \in consumer[c].pos + 1 .. produced :
       /\ consumer'[c].upto = upto /\ consumer'[c].batch = consumer[c].pos + 1 .. upto
       /\ consumer'[c].pos = IF kind = "kafka" THEN consumer[c].pos ELSE upto

Writes(c) ==
  /\ consumer'[c].pc = "mark" /\ consumer'[c].pos = consumer[c].pos
  /\ consumer'[c].batch = consumer[c].batch /\ consumer'[c].upto = consumer[c].upto

Moves(c) ==
  \/ SamePlace(c)
  \/ consumer'[c] = Off
  \/ Fetch(c) /\ Takes(c)
  \/ Write(c) /\ Writes(c)
  \/ WriteFails(c) /\ Fresh(c, consumer[c].pos)
  \/ Mark(c) /\ Fresh(c, consumer[c].upto)
  \/ Fresh(c, mark)

LEMMA ConsumerMoves == ASSUME TypeOK, [Next]_vars, NEW c \in Consumer PROVE Moves(c)
<1>0. \A d \in Consumer : consumer[d].pos \in 0 .. MaxEvents /\ consumer[d].upto \in 0 .. MaxEvents
  BY Facts DEF ConsumerRecord
<1>a. ASSUME NEW d \in Consumer, d # c, Same(d) PROVE SamePlace(c)
  BY <1>a DEF Same, SamePlace
<1>1. ASSUME NEW d \in Consumer, Fetch(d) PROVE Moves(c)
  <2>1. Same(d) /\ (d = c => Takes(c))
    BY <1>1, TakeMoves DEF Fetch, Goes, Takes
  <2> QED
    BY <1>a, <1>1, <2>1 DEF Moves
<1>2. ASSUME NEW d \in Consumer, Write(d) PROVE Moves(c)
  <2>1. Same(d) /\ (d = c => Writes(c))
    BY <1>2, ToMoves DEF Write, Goes, Writes
  <2> QED
    BY <1>a, <1>2, <2>1 DEF Moves
<1>3. ASSUME NEW d \in Consumer, NEW pos \in 0 .. MaxEvents, next(d, pos)
      PROVE  Same(d) /\ (d = c => Fresh(c, pos) \/ consumer'[c] = Off)
  BY <1>3, NextMoves DEF Goes, Fresh
<1>4. ASSUME NEW d \in Consumer, WriteFails(d) PROVE Moves(c)
  <2>1. Same(d) /\ (d = c => Fresh(c, consumer[d].pos) \/ consumer'[c] = Off)
    BY <1>0, <1>3, <1>4 DEF WriteFails
  <2> QED
    BY <1>a, <1>4, <2>1 DEF Moves
<1>5. ASSUME NEW d \in Consumer, Mark(d) PROVE Moves(c)
  <2>1. Same(d) /\ (d = c => Fresh(c, consumer[d].upto) \/ consumer'[c] = Off)
    BY <1>0, <1>3, <1>5 DEF Mark
  <2> QED
    BY <1>a, <1>5, <2>1 DEF Moves
<1>6. ASSUME NEW n \in Node, stopRunner(n) PROVE Moves(c)
  <2>1. CASE c = runner[n]
    <3>1. runner[n] # 0
      BY <2>1, Facts
    <3> QED
      BY <1>6, <2>1, <3>1, StopMoves DEF Moves, SamePlace
  <2>2. CASE c # runner[n]
    BY <1>6, <2>2, StopMoves DEF Moves, SamePlace, Same
  <2> QED
    BY <2>1, <2>2
<1>7. ASSUME NEW n \in Node, Begin(n) PROVE Moves(c)
  <2>1. PICK d \in Consumer : Same(d) /\ Fresh(d, mark)
    BY <1>7, BeginMoves DEF Fresh
  <2> QED
    BY <1>a, <2>1 DEF Moves
<1>8. ASSUME NEW n \in Node, Crash(n) PROVE Moves(c)
  BY <1>8, CrashMoves DEF Moves, SamePlace
<1>9. UNCHANGED consumer => Moves(c)
  BY DEF Moves, SamePlace
<1>10. ASSUME NEW n \in Node, Change(n) PROVE Moves(c)
  <2>1. UNCHANGED consumer \/ stopRunner(n) \/ Begin(n)
    BY <1>10 DEF Change, Stop, Waited, Look, Handover, Answered, GiveUp, TakeBack, After, Acquire
  <2> QED
    BY <1>6, <1>7, <1>9, <2>1
<1>11. ASSUME NEW n \in Node, Heartbeat(n) PROVE Moves(c)
  BY <1>6, <1>9, <1>11 DEF Heartbeat
<1>12. ASSUME NEW n \in Node, TakeOver(n) \/ UpdateReads(n) \/ Serve(n) \/ Remove(n) \/ Shutdown(n)
                              \/ \E e \in BOOLEAN : Update(n, e)
       PROVE  Moves(c)
  BY <1>9, <1>12 DEF TakeOver, UpdateReads, Serve, Remove, Shutdown, Update
<1>13. ASSUME NEW d \in Consumer, Acknowledge(d) PROVE Moves(c)
  BY <1>9, <1>13 DEF Acknowledge
<1>14. Produce \/ Lapse \/ Pause \/ UNCHANGED vars => Moves(c)
  BY <1>9 DEF Produce, Lapse, Pause, vars
<1> QED
  BY <1>1, <1>2, <1>4, <1>5, <1>8, <1>10, <1>11, <1>12, <1>13, <1>14 DEF Next

\* What a step makes of the feed: what is accounted for only grows, by a
\* consumer's batch, and the mark follows what is behind a consumer.
FeedMoves ==
  \/ UNCHANGED <<produced, accounted, mark>>
  \/ produced' = produced + 1 /\ UNCHANGED <<accounted, mark>>
  \/ \E c \in Consumer : \E some \in {{}, consumer[c].batch} :
       accounted' = accounted \cup some /\ UNCHANGED <<produced, mark>>
  \/ \E c \in Consumer : /\ consumer[c].pc = "mark" /\ mark' \in {mark, consumer[c].upto}
                         /\ UNCHANGED <<produced, accounted>>
  \/ \E c \in Consumer : /\ consumer[c].pc = "fetch" /\ mark' = consumer[c].pos
                         /\ UNCHANGED <<produced, accounted>>

LEMMA NextFeed ==
  ASSUME [Next]_vars
  PROVE  FeedMoves /\ kind' = kind /\ (stream = None => stream' = None)
<1>1. ASSUME NEW n \in Node,
             \/ TakeOver(n) \/ UpdateReads(n) \/ Serve(n) \/ Change(n)
             \/ Remove(n) \/ Shutdown(n) \/ Heartbeat(n) \/ Crash(n) \/ \E e \in BOOLEAN : Update(n, e)
      PROVE  UNCHANGED <<produced, accounted, mark, kind>> /\ (stream = None => stream' = None)
  <2>1. CASE Change(n)
    BY <2>1 DEF Change, Stop, Waited, Look, Handover, Answered, GiveUp, TakeBack, After, Acquire, Begin, beginAt, feedVars, accounted
  <2> QED
    BY <1>1, <2>1 DEF TakeOver, UpdateReads, Serve, Remove, Shutdown, Heartbeat, Crash, Update, feedVars, accounted
<1>2. Lapse \/ Pause \/ UNCHANGED vars =>
        UNCHANGED <<produced, accounted, mark, kind>> /\ (stream = None => stream' = None)
  BY DEF Lapse, Pause, vars, feedVars, accounted
<1>3. Produce => produced' = produced + 1 /\ UNCHANGED <<accounted, mark, kind, stream>>
  BY DEF Produce, accounted
<1>4. ASSUME NEW c \in Consumer, Fetch(c) \/ Write(c) \/ WriteFails(c) \/ Mark(c) \/ Acknowledge(c)
      PROVE  FeedMoves /\ UNCHANGED <<kind, stream>>
  <2>1. CASE Fetch(c)
    BY <2>1 DEF Fetch, feedVars, accounted, FeedMoves
  <2>2. CASE Write(c)
    BY <2>2 DEF Write, accounted, FeedMoves
  <2>3. CASE WriteFails(c)
    BY <2>3 DEF WriteFails, accounted, FeedMoves
  <2>4. CASE Mark(c) \/ Acknowledge(c)
    BY <2>4 DEF Mark, Acknowledge, accounted, FeedMoves
  <2> QED
    BY <1>4, <2>1, <2>2, <2>3, <2>4
<1> QED
  BY <1>1, <1>2, <1>3, <1>4 DEF Next, FeedMoves

LEMMA KnownStep == ASSUME TypeOK, Known, [Next]_vars PROVE Known'
<1>0. /\ produced \in Nat /\ mark \in Nat /\ produced <= produced' /\ produced' \in Nat
      /\ \A c \in Consumer : consumer[c].pos \in Nat /\ consumer[c].upto \in Nat
  <2>1. /\ produced \in Nat /\ mark \in Nat
        /\ \A c \in Consumer : consumer[c].pos \in Nat /\ consumer[c].upto \in Nat
    BY Facts DEF TypeOK, ConsumerRecord
  <2>2. produced' = produced \/ produced' = produced + 1
    BY NextFeed DEF FeedMoves
  <2> QED
    BY <2>1, <2>2
<1>1. mark' <= produced'
  <2>1. mark' = mark \/ \E c \in Consumer : mark' = consumer[c].pos \/ mark' = consumer[c].upto
    BY NextFeed DEF FeedMoves
  <2> QED
    BY <1>0, <2>1 DEF Known, InFeed
<1>2. ASSUME NEW c \in Consumer PROVE InFeed(consumer'[c], produced')
  <2>0. InFeed(consumer[c], produced)
    BY DEF Known
  <2>1. 1 .. produced \subseteq 1 .. produced'
    BY <1>0
  <2>2. CASE SamePlace(c) \/ (Write(c) /\ Writes(c))
    BY <1>0, <2>0, <2>1, <2>2 DEF SamePlace, Writes, InFeed
  <2>3. CASE consumer'[c] = Off
    BY <1>0, <2>3, Blanks DEF InFeed
  <2>4. CASE Takes(c)
    <3>1. PICK upto \in consumer[c].pos + 1 .. produced :
            /\ consumer'[c].upto = upto /\ consumer'[c].batch = consumer[c].pos + 1 .. upto
            /\ consumer'[c].pos = IF kind = "kafka" THEN consumer[c].pos ELSE upto
      BY <2>4 DEF Takes
    <3>2. consumer[c].pos + 1 .. upto \subseteq 1 .. produced' /\ upto <= produced'
      BY <1>0, <3>1
    <3> QED
      BY <1>0, <2>0, <3>1, <3>2 DEF InFeed
  <2>5. ASSUME NEW pos \in {mark, consumer[c].pos, consumer[c].upto}, Fresh(c, pos) PROVE InFeed(consumer'[c], produced')
    <3>1. pos <= produced
      BY <2>0 DEF Known, InFeed
    <3> QED
      BY <1>0, <2>5, <3>1 DEF Fresh, InFeed
  <2> QED
    BY <2>2, <2>3, <2>4, <2>5, ConsumerMoves DEF Moves
<1> QED
  BY <1>1, <1>2 DEF Known

\* A loop that goes on behind a batch it could not write leaves it in dropped.
LEMMA WrittenStep ==
  ASSUME TypeOK, Known, [Next]_vars, stream' # None, Written
  PROVE  Written'
<1>0. /\ stream # None /\ kind' = kind /\ accounted \subseteq accounted'
      /\ \A c \in Consumer : consumer[c].pos \in Nat /\ consumer[c].upto \in Nat
  BY NextFeed, Facts DEF FeedMoves, ConsumerRecord
<1>1. 1 .. mark' \subseteq accounted'
  <2>1. \/ mark' = mark
        \/ \E c \in Consumer : \/ consumer[c].pc = "mark" /\ mark' = consumer[c].upto
                               \/ consumer[c].pc = "fetch" /\ mark' = consumer[c].pos
    BY NextFeed DEF FeedMoves
  <2> QED
    BY <1>0, <2>1 DEF Written, Behind
<1>2. ASSUME NEW c \in Consumer PROVE Behind(consumer[c], accounted)'
  <2>0. Behind(consumer[c], accounted) /\ 1 .. mark \subseteq accounted
    BY DEF Written
  <2>1. CASE SamePlace(c)
    BY <1>0, <2>0, <2>1 DEF SamePlace, Behind
  <2>2. CASE consumer'[c] = Off
    BY <2>2, Blanks DEF Behind
  <2>3. CASE Fetch(c) /\ Takes(c)
    <3>1. PICK upto \in consumer[c].pos + 1 .. produced :
            /\ consumer'[c].upto = upto /\ consumer'[c].batch = consumer[c].pos + 1 .. upto
            /\ consumer'[c].pos = IF kind = "kafka" THEN consumer[c].pos ELSE upto
      BY <2>3 DEF Takes
    <3>2. 1 .. consumer[c].pos \subseteq accounted'
      BY <1>0, <2>0, <2>3 DEF Takes, Behind
    <3>3. 1 .. upto \subseteq (1 .. consumer[c].pos) \cup (consumer[c].pos + 1 .. upto)
      BY <1>0, <3>1
    <3> QED
      BY <1>0, <2>3, <3>1, <3>2, <3>3 DEF Takes, Behind
  <2>4. CASE Write(c) /\ Writes(c)
    <3>1. 1 .. consumer[c].upto \subseteq accounted'
      BY <2>0, <2>4 DEF Write, Behind, accounted
    <3> QED
      BY <2>4, <3>1 DEF Writes, Behind
  <2>5. CASE WriteFails(c) /\ Fresh(c, consumer[c].pos)
    <3>1. kind # "kafka" => accounted' = accounted \cup consumer[c].batch
      BY <2>5 DEF WriteFails, accounted
    <3>2. 1 .. consumer[c].pos \subseteq accounted'
      <4>1. kind = "kafka" => 1 .. consumer[c].pos \subseteq accounted'
        BY <1>0, <2>0, <2>5 DEF WriteFails, Behind
      <4>2. kind # "kafka" => 1 .. consumer[c].upto \subseteq accounted' /\ consumer[c].pos <= consumer[c].upto
        BY <2>0, <2>5, <3>1 DEF WriteFails, Behind
      <4> QED
        BY <1>0, <4>1, <4>2
    <3> QED
      BY <2>5, <3>2 DEF Fresh, Behind
  <2>6. CASE Mark(c) /\ Fresh(c, consumer[c].upto)
    <3>1. 1 .. consumer[c].upto \subseteq accounted'
      BY <1>0, <2>0, <2>6 DEF Mark, Behind
    <3> QED
      BY <2>6, <3>1 DEF Fresh, Behind
  <2>7. CASE Fresh(c, mark)
    BY <1>0, <2>0, <2>7 DEF Fresh, Behind
  <2> QED
    BY <2>1, <2>2, <2>3, <2>4, <2>5, <2>6, <2>7, ConsumerMoves DEF Moves
<1> QED
  BY <1>1, <1>2 DEF Written

LEMMA InitDInv == Init => DInv
<1> SUFFICES ASSUME Init PROVE Known /\ Written
  BY InitIInv DEF DInv
<1>1. produced = 0 /\ mark = 0 /\ \A c \in Consumer : consumer[c] = Off
  BY DEF Init
<1> QED
  BY <1>1, Blanks DEF Known, InFeed, Written, Behind

LEMMA SpecDInv == Spec => []DInv
<1>1. DInv /\ [Next]_vars => DInv'
  BY NextIInv, KnownStep, WrittenStep, NextFeed DEF DInv, IInv
<1> QED
  BY <1>1, InitDInv, PTL DEF Spec

-----------------------------------------------------------------------------
(* Streams implements Delivery.                                              *)
LEMMA StepDelivers == DInv /\ DInv' /\ [Next]_vars => [D!Next]_(D!deliveryVars)
<1> SUFFICES ASSUME DInv, DInv', [Next]_vars PROVE [D!Next]_(D!deliveryVars)
  OBVIOUS
<1>0. /\ TypeOK /\ TypeOK' /\ Known /\ (stream # None => Written)
      /\ produced \in Nat /\ mark \in Nat /\ MaxEvents \in Nat
      /\ produced' \in 0 .. MaxEvents /\ mark' \in 0 .. MaxEvents
  BY Facts DEF DInv, IInv, TypeOK
<1> DEFINE there == IF stream = None THEN 0 ELSE mark
<1>1. stream = None => stream' = None
  BY NextFeed
<1>2. CASE UNCHANGED <<produced, accounted>> /\ there' = there
  BY <1>2 DEF D!deliveryVars
\* The mark moves, or the stream is removed.
<1>3. CASE UNCHANGED <<produced, accounted>> /\ there' # there
  <2>1. there' \in Event \cup {0}
    BY <1>0 DEF Event
  <2>2. \A i \in 1 .. produced : i <= there' => i \in accounted
    <3>1. CASE stream' = None
      BY <3>1
    <3>2. CASE stream' # None
      <4>1. Written'
        BY <3>2 DEF DInv
      <4>2. 1 .. mark' \subseteq accounted
        BY <1>3, <4>1 DEF Written
      <4> QED
        BY <1>0, <3>2, <4>2
    <3> QED
      BY <3>1, <3>2
  <2>3. D!Mark(there')
    BY <1>3, <2>2 DEF D!Mark
  <2> QED
    BY <2>1, <2>3 DEF D!Next
<1>4. CASE produced' = produced + 1 /\ UNCHANGED <<accounted, mark, stream>>
  <2>1. produced + 1 \in Event /\ produced + 1 > there
    BY <1>0, <1>4 DEF Event, Known
  <2>2. 1 .. produced + 1 = (1 .. produced) \cup {produced + 1}
    BY <1>0
  <2>3. D!Produce(produced + 1)
    BY <1>4, <2>1, <2>2 DEF D!Produce
  <2> QED
    BY <2>1, <2>3 DEF D!Next
<1>5. ASSUME NEW c \in Consumer, NEW some \in {{}, consumer[c].batch},
             accounted' = accounted \cup some, UNCHANGED <<produced, mark, stream>>
      PROVE  [D!Next]_(D!deliveryVars)
  <2>1. some \in SUBSET Event /\ some \subseteq 1 .. produced
    BY <1>0, Facts DEF ConsumerRecord, Known, InFeed
  <2>2. D!Arrive(some)
    BY <1>5, <2>1 DEF D!Arrive
  <2> QED
    BY <2>1, <2>2 DEF D!Next
<1>6. \/ UNCHANGED <<produced, accounted>>
      \/ produced' = produced + 1 /\ UNCHANGED <<accounted, mark, stream>>
      \/ \E c \in Consumer : \E some \in {{}, consumer[c].batch} :
           accounted' = accounted \cup some /\ UNCHANGED <<produced, mark, stream>>
  <2>1. ASSUME ~UNCHANGED <<produced, accounted>> PROVE UNCHANGED stream
    <3>1. \A n \in Node : ~Change(n) /\ ~Remove(n) /\ \A e \in BOOLEAN : ~Update(n, e)
      BY <2>1 DEF Change, Stop, Waited, Look, Handover, Answered, GiveUp, TakeBack, After, Acquire, Begin, beginAt,
                  Remove, Update, feedVars, accounted
    <3> QED
      BY <2>1, <3>1 DEF Next, Produce, Fetch, Write, WriteFails, Mark, Acknowledge, TakeOver, UpdateReads, Serve,
                        Shutdown, Heartbeat, Crash, Lapse, Pause, vars, feedVars, accounted
  <2> QED
    BY <2>1, NextFeed DEF FeedMoves
<1> HIDE DEF there
<1> QED
  BY <1>2, <1>3, <1>4, <1>5, <1>6

\* Offsets are committed and checkpoints saved behind what has been written
\* (header of streams.ts): the streams implement Delivery, over edits, hand-overs,
\* takeovers, crashes, lost leases and failing writes, with the batches that a
\* Kinesis or Postgres loop has gone past counted apart.
THEOREM ImplementsDelivery == Spec => Delivers
<1>1. Init => D!Init
  BY DEF Init, D!Init, accounted
<1> QED
  BY <1>1, StepDelivers, SpecDInv, PTL DEF Spec, Delivers, D!AtLeastOnce
=============================================================================
