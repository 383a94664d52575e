------------------------------ MODULE Streams ------------------------------
(***************************************************************************)
(* One stream (services/streams.ts): its events, the consumers that append     *)
(* them to the table, and the nodes that start, stop and move its consumer     *)
(* under the lease stream:<id>.  Events are their places in the topic, the     *)
(* shard or the WAL; `mark` is the committed offset, the checkpoint or the     *)
(* acknowledged LSN from which a new consumer goes on.                         *)
(*                                                                         *)
(* A step is the code from one await to the next.  Changes of a consumer on    *)
(* one node wait for each other (locked()); on two nodes they may overlap.     *)
(***************************************************************************)
EXTENDS Naturals

CONSTANTS
  Node,
  Kinds,        \* of {"kafka", "kinesis", "postgres"}
  FailKinds,    \* those whose writes may fail
  MaxEvents,    \* bound on events
  MaxConsumers, \* bound on consumers not yet gone
  Budgets,      \* bounds taken together: how many events, edits (updates, removals,
                \* shutdowns) and troubles (crashes, pauses, calls given up) there are
  None

Budget == [events : 0 .. MaxEvents, edits : Nat, trouble : Nat]

ASSUME StreamsAssumption == /\ MaxEvents \in Nat /\ MaxConsumers \in Nat \ {0}
                            /\ Budgets \subseteq Budget /\ None \notin Node

VARIABLES
  kind,     \* of the stream; it does not change
  produced, \* events so far
  stream,   \* the row's enabled, None once it is removed
  mark,
  table,    \* the events in the table
  dropped,  \* history: the events of the batches that Kinesis and Postgres loops went past
            \* when the write had failed
  holder,   \* the node in the lease's row, None when there is none or it has expired
  held,     \* the nodes that have the key in their held set
  wants,    \* the nodes where an update() waits for the lock
  op,       \* each node's locked() change: where it is, what it is, the row as it
            \* was read, and the other node of a call
  asked,    \* calls <<from, to>> that wait for the lock of `to`
  runner,   \* each node's runner: its consumer, 0 for none
  consumer, \* consumers: node, place, not yet stopped, next event less one, batch and its end
  budget,   \* what is left of it
  stolen    \* history: a paused node's lease ran out

leaseVars == <<holder, held>>
opVars == <<wants, op, asked>>
feedVars == <<produced, table, mark, dropped>>
vars == <<kind, stream, feedVars, leaseVars, opVars, runner, consumer, budget, stolen>>

Event == 1 .. MaxEvents
Consumer == 1 .. MaxConsumers
NoOp == [pc |-> "idle", why |-> "none", row |-> None, peer |-> None]
Off == [node |-> None, pc |-> "off", live |-> FALSE, pos |-> 0, batch |-> {}, upto |-> 0]

Init ==
  /\ kind \in Kinds
  /\ produced = 0 /\ mark = 0 /\ table = {} /\ dropped = {}
  /\ stream = [enabled |-> TRUE]
  /\ holder = None /\ held = {} /\ wants = {} /\ asked = {}
  /\ op = [n \in Node |-> NoOp]
  /\ runner = [n \in Node |-> 0]
  /\ consumer = [c \in Consumer |-> Off]
  /\ budget \in Budgets /\ stolen = FALSE

spend(what) == budget[what] > 0 /\ budget' = [budget EXCEPT ![what] = @ - 1]

-----------------------------------------------------------------------------
(* The consumers: kafkaRunner, kinesisRunner, postgresRunner.                *)
Produce ==
  /\ spend("events")
  /\ produced' = produced + 1
  /\ UNCHANGED <<kind, stream, table, mark, dropped, leaseVars, opVars, runner, consumer, stolen>>

to(c, pc) == consumer' = [consumer EXCEPT ![c].pc = pc]

(* The end of a batch: a stopped consumer is gone.                           *)
next(c, pos) ==
  consumer' = [consumer EXCEPT ![c] = IF @.live
                 THEN [@ EXCEPT !.pc = "fetch", !.pos = pos, !.batch = {}, !.upto = 0] ELSE Off]

(* Kinesis moves the iterators on, and Postgres its buffer, before the write.  *)
take(c) ==
  /\ consumer[c].pc = "fetch" /\ consumer[c].live
  /\ \E upto \in consumer[c].pos + 1 .. produced :
       consumer' = [consumer EXCEPT ![c].pc = "write", ![c].upto = upto,
                      ![c].batch = consumer[c].pos + 1 .. upto,
                      ![c].pos = IF kind = "kafka" THEN @ ELSE upto]

(* The offset is committed before the batch is written.                      *)
Fetch_Commits(c) ==
  /\ take(c)
  /\ mark' = consumer'[c].upto
  /\ UNCHANGED <<kind, stream, produced, table, dropped, leaseVars, opVars, runner, budget, stolen>>

Fetch(c) ==
  /\ take(c)
  /\ UNCHANGED <<kind, stream, feedVars, leaseVars, opVars, runner, budget, stolen>>

Write(c) ==
  /\ consumer[c].pc = "write" /\ stream # None
  /\ table' = table \cup consumer[c].batch
  /\ to(c, "mark")
  /\ UNCHANGED <<kind, stream, produced, mark, dropped, leaseVars, opVars, runner, budget, stolen>>

(* writeNow() throws, before the table was changed or after; it does when the  *)
(* row is gone.  The loop goes on where it is: Kafka at the batch, the others   *)
(* behind it.                                                                *)
WriteFails(c) ==
  /\ consumer[c].pc = "write"
  /\ \/ stream = None /\ UNCHANGED table
     \/ stream # None /\ kind \in FailKinds
        /\ \E some \in {{}, consumer[c].batch} : table' = table \cup some
  /\ dropped' = IF kind = "kafka" THEN dropped ELSE dropped \cup consumer[c].batch
  /\ next(c, consumer[c].pos)
  /\ UNCHANGED <<kind, stream, produced, mark, leaseVars, opVars, runner, budget, stolen>>

(* commitOffsets, checkpoints, acknowledge; Kinesis has no row to save it in     *)
(* once the stream is removed.                                               *)
Mark(c) ==
  /\ consumer[c].pc = "mark"
  /\ mark' = IF kind = "kinesis" /\ stream = None THEN mark ELSE consumer[c].upto
  /\ next(c, consumer[c].upto)
  /\ UNCHANGED <<kind, stream, produced, table, dropped, leaseVars, opVars, runner, budget, stolen>>

(* Postgres is told that nothing is pending: a commit or a heartbeat with an   *)
(* empty buffer.                                                             *)
Acknowledge(c) ==
  /\ kind = "postgres" /\ consumer[c].pc = "fetch" /\ consumer[c].pos > mark
  /\ mark' = consumer[c].pos
  /\ UNCHANGED <<kind, stream, produced, table, dropped, leaseVars, opVars, runner, consumer, budget, stolen>>

(* Runner.stop().  A Kafka consumer that is disconnected ends its batch first.  *)
stopped(c) == IF consumer[c].pc = "fetch" THEN Off ELSE [consumer[c] EXCEPT !.live = FALSE]
stopRunner(n) ==
  /\ runner' = [runner EXCEPT ![n] = 0]
  /\ consumer' = IF runner[n] = 0 THEN consumer
                 ELSE [consumer EXCEPT ![runner[n]] = stopped(runner[n])]
Ended(n) == kind = "kafka" => \A c \in Consumer : consumer[c].node = n => consumer[c].live

-----------------------------------------------------------------------------
(* Changes under the lock.                                                   *)
at(n, pc) == op[n].pc = pc
goto(n, pc) == op' = [op EXCEPT ![n].pc = pc]
done(n) == op' = [op EXCEPT ![n] = NoOp]
start(n, o) == at(n, "idle") /\ op' = [op EXCEPT ![n] = o]

(* startAll(), at boot and every lease period.                               *)
TakeOver(n) ==
  /\ runner[n] = 0 /\ stream # None /\ stream.enabled
  /\ start(n, [NoOp EXCEPT !.pc = "acquire", !.why = "start"])
  /\ UNCHANGED <<kind, stream, feedVars, leaseVars, wants, asked, runner, consumer, budget, stolen>>

(* update() saves the row, then asks for the lock; remove() only asks.         *)
Update(n, e) ==
  /\ stream # None /\ n \notin wants /\ spend("edits")
  /\ stream' = [enabled |-> e] /\ wants' = wants \cup {n}
  /\ UNCHANGED <<kind, feedVars, leaseVars, op, asked, runner, consumer, stolen>>

UpdateReads(n) ==
  /\ n \in wants
  /\ wants' = wants \ {n}
  /\ start(n, [NoOp EXCEPT !.pc = "stop", !.why = "update", !.row = stream])
  /\ UNCHANGED <<kind, stream, feedVars, leaseVars, asked, runner, consumer, budget, stolen>>

Remove(n) ==
  /\ stream # None /\ spend("edits")
  /\ start(n, [NoOp EXCEPT !.pc = "stop", !.why = "remove"])
  /\ UNCHANGED <<kind, stream, feedVars, leaseVars, wants, asked, runner, consumer, stolen>>

Shutdown(n) ==
  /\ spend("edits")
  /\ start(n, [NoOp EXCEPT !.pc = "stop", !.why = "shutdown"])
  /\ UNCHANGED <<kind, stream, feedVars, leaseVars, wants, asked, runner, consumer, stolen>>

(* stopLocal(), when its turn comes.                                         *)
Serve(n) ==
  \E m \in Node : /\ <<m, n>> \in asked
                  /\ asked' = asked \ {<<m, n>>}
                  /\ start(n, [NoOp EXCEPT !.pc = "stop", !.why = "serve", !.peer = m])
                  /\ UNCHANGED <<kind, stream, feedVars, leaseVars, wants, runner, consumer, budget, stolen>>

(* The row goes, if this node counts on it and it is this node's.             *)
release(n) ==
  /\ held' = held \ {n}
  /\ holder' = IF n \in held /\ holder = n THEN None ELSE holder

(* stopEverywhere(): this node's runner, its lease kept; with no runner here    *)
(* the lease is let go and another holder looked for.                         *)
Stop(n) ==
  /\ at(n, "stop")
  /\ stopRunner(n)
  /\ IF runner[n] = 0 /\ op[n].why \in {"update", "remove"}
     THEN release(n) /\ goto(n, "look")
     ELSE goto(n, "wait") /\ UNCHANGED leaseVars
  /\ UNCHANGED <<kind, stream, feedVars, wants, asked, budget, stolen>>

(* stopLocal() that hands the lease over before the consumer has ended.        *)
Waited_HandedOver(n) ==
  /\ at(n, "wait")
  /\ goto(n, IF op[n].why = "serve" THEN "handover" ELSE "after")
  /\ UNCHANGED <<kind, stream, feedVars, leaseVars, wants, asked, runner, consumer, budget, stolen>>

Waited(n) ==
  /\ at(n, "wait") /\ Ended(n)
  /\ goto(n, IF op[n].why = "serve" THEN "handover" ELSE "after")
  /\ UNCHANGED <<kind, stream, feedVars, leaseVars, wants, asked, runner, consumer, budget, stolen>>

(* holder(), and the call to its node.                                       *)
Look(n) ==
  /\ at(n, "look")
  /\ IF holder \in Node \ {n}
     THEN /\ op' = [op EXCEPT ![n].pc = "called", ![n].peer = holder]
          /\ asked' = asked \cup {<<n, holder>>}
     ELSE goto(n, "after") /\ UNCHANGED asked
  /\ UNCHANGED <<kind, stream, feedVars, leaseVars, wants, runner, consumer, budget, stolen>>

Handover(n) ==
  /\ at(n, "handover")
  /\ held' = held \ {n}
  /\ holder' = IF holder = n THEN op[n].peer ELSE holder
  /\ done(n)
  /\ UNCHANGED <<kind, stream, feedVars, wants, asked, runner, consumer, budget, stolen>>

Serving(m, n) == <<n, m>> \in asked \/ (op[m].why = "serve" /\ op[m].peer = n)
Answered(n) ==
  /\ at(n, "called") /\ ~Serving(op[n].peer, n)
  /\ goto(n, "back")
  /\ UNCHANGED <<kind, stream, feedVars, leaseVars, wants, asked, runner, consumer, budget, stolen>>

(* The call times out, on its own or as the other node waits for this one; the  *)
(* other node may still act on it.                                           *)
GiveUp(n) ==
  /\ at(n, "called") /\ Serving(op[n].peer, n)
  /\ \/ at(op[n].peer, "called") /\ UNCHANGED budget
     \/ spend("trouble")
  /\ goto(n, "back")
  /\ UNCHANGED <<kind, stream, feedVars, leaseVars, wants, asked, runner, consumer, stolen>>

acquire(n) ==
  /\ holder' = IF holder = None THEN n ELSE holder
  /\ held' = IF holder \in {None, n} THEN held \cup {n} ELSE held \ {n}

TakeBack(n) ==
  /\ at(n, "back")
  /\ acquire(n)
  /\ goto(n, "after")
  /\ UNCHANGED <<kind, stream, feedVars, wants, asked, runner, consumer, budget, stolen>>

(* The rest of update(), which throws if the row had gone, of remove() and of   *)
(* stopAll().                                                                *)
After(n) ==
  LET row == op[n].row IN
  /\ at(n, "after")
  /\ \/ /\ op[n].why = "update" /\ row # None
        /\ row.enabled
        /\ goto(n, "acquire")
        /\ UNCHANGED <<stream, leaseVars, wants>>
     \/ /\ op[n].why = "update" /\ row = None
        /\ done(n)
        /\ UNCHANGED <<stream, leaseVars, wants>>
     \/ /\ op[n].why = "remove" \/ (op[n].why = "update" /\ row # None /\ ~row.enabled)
        /\ stream' = IF op[n].why = "remove" THEN None ELSE stream
        /\ release(n)
        /\ done(n)
        /\ UNCHANGED wants
     \/ /\ op[n].why = "shutdown"
        /\ release(n)
        /\ done(n) /\ wants' = wants \ {n}
        /\ UNCHANGED stream
  /\ UNCHANGED <<kind, feedVars, asked, runner, consumer, budget, stolen>>

(* startRunner().                                                            *)
Acquire(n) ==
  /\ at(n, "acquire")
  /\ acquire(n)
  /\ IF holder \in {None, n} THEN goto(n, "begin") ELSE done(n)
  /\ UNCHANGED <<kind, stream, feedVars, wants, asked, runner, consumer, budget, stolen>>

free == {c \in Consumer : consumer[c] = Off}

beginAt(n, pos) ==
  /\ at(n, "begin")
  /\ \E c \in free :
       /\ \A d \in free : c <= d
       /\ runner' = [runner EXCEPT ![n] = c]
       /\ consumer' = [consumer EXCEPT ![c] = [Off EXCEPT !.node = n, !.pc = "fetch",
                                                          !.live = TRUE, !.pos = pos]]
  /\ done(n)
  /\ UNCHANGED <<kind, stream, feedVars, leaseVars, wants, asked, budget, stolen>>

(* A consumer that begins at the newest event.                               *)
Begin_AtEnd(n) == beginAt(n, produced)

Begin(n) == beginAt(n, mark)

-----------------------------------------------------------------------------
(* The cluster: a heartbeat that renews the lease or finds it lost, a lease    *)
(* nobody renews, a node that is paused for too long, a node that dies.        *)
Heartbeat(n) ==
  /\ n \in held /\ holder # n
  /\ IF holder = None THEN holder' = n /\ UNCHANGED <<held, runner, consumer>>
     ELSE held' = held \ {n} /\ stopRunner(n) /\ UNCHANGED holder
  /\ UNCHANGED <<kind, stream, feedVars, opVars, budget, stolen>>

Lapse ==
  /\ holder # None /\ holder \notin held
  /\ holder' = None
  /\ UNCHANGED <<kind, stream, feedVars, held, opVars, runner, consumer, budget, stolen>>

Pause ==
  /\ holder \in held /\ spend("trouble")
  /\ holder' = None
  /\ stolen' = TRUE
  /\ UNCHANGED <<kind, stream, feedVars, held, opVars, runner, consumer>>

Crash(n) ==
  /\ spend("trouble")
  /\ done(n) /\ wants' = wants \ {n} /\ held' = held \ {n}
  /\ asked' = {a \in asked : a[2] # n}
  /\ runner' = [runner EXCEPT ![n] = 0]
  /\ consumer' = [c \in Consumer |-> IF consumer[c].node = n THEN Off ELSE consumer[c]]
  /\ UNCHANGED <<kind, stream, feedVars, holder, stolen>>

Change(n) ==
  \/ Stop(n) \/ Waited(n) \/ Look(n) \/ Handover(n) \/ Answered(n) \/ GiveUp(n)
  \/ TakeBack(n) \/ After(n) \/ Acquire(n) \/ Begin(n)

Next ==
  \/ Produce
  \/ \E c \in Consumer : Fetch(c) \/ Write(c) \/ WriteFails(c) \/ Mark(c) \/ Acknowledge(c)
  \/ \E n \in Node : \/ TakeOver(n) \/ UpdateReads(n) \/ Serve(n) \/ Change(n)
                     \/ Remove(n) \/ Shutdown(n) \/ Heartbeat(n) \/ Crash(n)
                     \/ \E e \in BOOLEAN : Update(n, e)
  \/ Lapse \/ Pause

Spec == Init /\ [][Next]_vars

(* Timers fire, awaits come back, a lock that is free again and again is taken,  *)
(* and a write that is tried again and again succeeds.                        *)
FairSpec ==
  /\ Spec
  /\ WF_vars(Lapse) /\ WF_vars(\E c \in Consumer : Fetch(c) \/ Mark(c))
  /\ SF_vars(\E c \in Consumer : Write(c))
  /\ \A n \in Node : /\ WF_vars(Change(n) \/ Heartbeat(n))
                     /\ SF_vars(TakeOver(n) \/ UpdateReads(n) \/ Serve(n))

-----------------------------------------------------------------------------
(* Every variable has its type, and a runner is the node's own, not stopped.   *)
TypeOK ==
  /\ kind \in Kinds
  /\ produced \in 0 .. MaxEvents /\ mark \in 0 .. MaxEvents /\ table \in SUBSET Event
  /\ dropped \in SUBSET Event
  /\ stream \in [enabled : BOOLEAN] \cup {None}
  /\ holder \in Node \cup {None} /\ held \subseteq Node /\ wants \subseteq Node
  /\ asked \subseteq Node \X Node
  /\ op \in [Node -> [pc : {"idle", "stop", "wait", "look", "called", "handover", "back", "after",
                            "acquire", "begin"},
                      why : {"none", "start", "update", "remove", "shutdown", "serve"},
                      row : [enabled : BOOLEAN] \cup {None}, peer : Node \cup {None}]]
  /\ runner \in [Node -> Consumer \cup {0}]
  /\ \A n \in Node : runner[n] # 0 => consumer[runner[n]].node = n /\ consumer[runner[n]].live
  /\ consumer \in [Consumer -> [node : Node \cup {None}, pc : {"off", "fetch", "write", "mark"},
                                live : BOOLEAN, pos : 0 .. MaxEvents, batch : SUBSET Event,
                                upto : 0 .. MaxEvents]]
  /\ budget \in Budget /\ stolen \in BOOLEAN

(* What has been written, or was gone past by a loop whose write failed.        *)
accounted == table \cup dropped

(* Offsets are committed and checkpoints saved behind what has been written:     *)
(* over commits, crashes, takeovers and failing writes of every kind of stream   *)
(* nothing behind the mark is missing, as long as there is a stream, except the  *)
(* batches a Kinesis or Postgres loop has itself gone past.                    *)
D == INSTANCE Delivery WITH Item <- Event,
       source <- 1 .. produced, arrived <- accounted, mark <- IF stream = None THEN 0 ELSE mark
Delivers == D!AtLeastOnce

(* "Kafka offsets are committed and Kinesis checkpoints [...] saved only after     *)
(* the batch is written; a restart resumes there" (streams.ts:15-16): nothing     *)
(* behind the mark is missing in the table.                                   *)
W == INSTANCE Delivery WITH Item <- Event,
       source <- 1 .. produced, arrived <- table, mark <- IF stream = None THEN 0 ELSE mark
WrittenBeforeMark == W!AtLeastOnce

(* The lease moves from node to node with the consumer: unless a paused node     *)
(* lost it, one consumer at most is not stopped, and a Kafka consumer has ended  *)
(* its batch before another one begins.                                      *)
OneConsumer ==
  ~stolen => \A c, d \in Consumer :
    /\ consumer[c].live /\ consumer[d].live => c = d
    /\ kind = "kafka" /\ consumer[c].node # None /\ consumer[d].node # None => c = d

(* Every event reaches the table of a stream that stays enabled, over edits,     *)
(* takeovers, crashes and failing writes, except those of a batch that a Kinesis *)
(* or Postgres loop has gone past.                                            *)
Consumed ==
  <>[](stream # None /\ stream.enabled) => \A i \in Event : i <= produced ~> i \in accounted
=============================================================================
