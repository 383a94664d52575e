---------------------------- MODULE ClusterLease ----------------------------
(***************************************************************************)
(* The lease of one key in cluster mode: ClusterService of every node      *)
(* (start, stop, heartbeat, acquire, release) against the two tables they    *)
(* share, services/cluster.ts.  Streams models handover().                   *)
(*                                                                         *)
(* Keys never meet (every statement names its key), so one is modelled.    *)
(* One step is what one statement does in the database together with the   *)
(* code up to the next await; a method that awaits several statements is a *)
(* program counter, and anything may happen between two of them; an answer  *)
(* that takes the key away (peek, lost) may come late.  A                    *)
(* statement nobody waits for (void cluster.release(...)) is in `writes`    *)
(* until the database runs it.  Nodes read one clock.                      *)
(***************************************************************************)
EXTENDS Naturals, FiniteSets

CONSTANTS
  Node,
  Call,        \* acquire() calls in flight, cluster-wide
  LeaseTime,   \* cluster.lease_seconds
  BeatTime,    \* cluster.heartbeat_seconds
  ForgetTime,  \* after which a silent node's row is deleted (10 leases)
  MaxTime,     \* bound on the clock
  Worlds,      \* what may go on in the cluster
  SameId,      \* a process starts again under its old id (cluster.node_id is set)
  None

ASSUME TimeAssumption == /\ LeaseTime \in Nat \ {0} /\ BeatTime \in Nat \ {0}
                         /\ ForgetTime \in Nat /\ ForgetTime >= LeaseTime
                         /\ MaxTime \in Nat
World ==
  [nodes : SUBSET Node,     \* those that are started
   calls : SUBSET Call,     \* those there are
   until : 0 .. MaxTime,    \* bound on the clock
   prompt : BOOLEAN,        \* heartbeats are on time and renew, no method takes a tick
   leaves : [Node -> SUBSET {"release", "stop", "crash"}], \* how a node parts with a lease
   faults : SUBSET {"statement", "open"}]                  \* what may fail

ASSUME WorldAssumption == Worlds \subseteq World /\ SameId \in BOOLEAN
ASSUME NoneAssumption == None \notin Node \cup Nat \cup [node : Node, expires : Nat]

VARIABLES
  world,  \* the one this is; it does not change
  now,    \* the clock
  lease,  \* the key's row of cluster_leases: its node and expiry
  beat,   \* cluster_nodes: heartbeat_at of each node, None without a row
  writes, \* nodes whose release() is sent and has not run yet
  up,     \* what each node's process does
  held,   \* the nodes that have the key in ClusterService.held
  hb,     \* each node's heartbeat(): where it is, and the time it read
  call,   \* each acquire(): its node, where it is, the time it read, the holder it saw
  slipped \* history: `held` of a node and the row came apart, see ReadMine, RunWrite, Peek, Lost

tables == <<lease, beat, writes>>
vars == <<world, now, lease, beat, writes, up, held, hb, call, slipped>>

NoCall == [node |-> None, pc |-> "idle", at |-> 0, holder |-> None]
NoBeat == [pc |-> "idle", at |-> 0]

Row == [node : Node, expires : Nat]

Running(n) == up[n] \notin {"off", "gone"}
Mine(n) == lease # None /\ lease.node = n
(* A takeover of a node that is merely between two heartbeats.               *)
Silent_BetweenBeats(m, t) == beat[m] = None \/ beat[m] < t

Silent(m, t) == beat[m] = None \/ beat[m] + LeaseTime < t

Init ==
  /\ world \in Worlds
  /\ now = 0 /\ lease = None /\ writes = {}
  /\ beat = [n \in Node |-> None]
  /\ up = [n \in Node |-> "off"]
  /\ held = {}
  /\ hb = [n \in Node |-> NoBeat]
  /\ call = [c \in Call |-> NoCall]
  /\ slipped = FALSE

-----------------------------------------------------------------------------
(* The clock.  A prompt cluster beats every BeatTime, and no tick passes     *)
(* while a method waits for its statements.                                  *)
OnTime(n) == /\ beat[n] # None /\ now < beat[n] + BeatTime
             /\ hb[n].pc = "idle"
Tick ==
  /\ now < world.until
  /\ world.prompt => /\ \A n \in Node : up[n] = "on" => OnTime(n)
               /\ \A c \in Call : call[c].pc = "idle"
               /\ writes = {}
  /\ now' = now + 1
  /\ UNCHANGED <<world, lease, beat, writes, up, held, hb, call, slipped>>

-----------------------------------------------------------------------------
(* Membership: start() and register(), stop(), and a process that dies.      *)
Start(n) ==
  /\ up[n] = "off" /\ n \in world.nodes
  /\ up' = [up EXCEPT ![n] = "on"]
  /\ beat' = [beat EXCEPT ![n] = now]
  /\ UNCHANGED <<world, now, lease, writes, held, hb, call, slipped>>

Stop(n) ==
  /\ "stop" \in world.leaves[n] /\ up[n] = "on"
  /\ up' = [up EXCEPT ![n] = "stopping"]
  /\ UNCHANGED <<world, now, lease, beat, writes, held, hb, call, slipped>>

StopLeases(n) ==
  /\ up[n] = "stopping"
  /\ up' = [up EXCEPT ![n] = "leaving"]
  /\ lease' = IF Mine(n) THEN None ELSE lease
  /\ UNCHANGED <<world, now, beat, writes, held, hb, call, slipped>>

(* The process is gone: its memory, and the calls it was in.                 *)
exit(n) ==
  /\ up' = [up EXCEPT ![n] = IF SameId THEN "off" ELSE "gone"]
  /\ held' = held \ {n}
  /\ hb' = [hb EXCEPT ![n] = NoBeat]
  /\ call' = [c \in Call |-> IF call[c].node = n THEN NoCall ELSE call[c]]

StopNode(n) ==
  /\ up[n] = "leaving"
  /\ beat' = [beat EXCEPT ![n] = None]
  /\ exit(n)
  /\ UNCHANGED <<world, now, lease, writes, slipped>>

Crash(n) ==
  /\ "crash" \in world.leaves[n] /\ Running(n)
  /\ exit(n)
  /\ UNCHANGED <<world, now, tables, slipped>>

-----------------------------------------------------------------------------
(* heartbeat(): the node's row, then, when it holds something, its leases,   *)
(* then which of them are left, then the nodes to forget.                    *)
forgotten(at) == [m \in Node |-> IF beat[m] # None /\ beat[m] + ForgetTime < at THEN None ELSE beat[m]]

Beat(n) ==
  /\ up[n] = "on" /\ hb[n].pc = "idle"
  /\ hb' = [hb EXCEPT ![n] = [pc |-> IF n \in held THEN "renew" ELSE "forget", at |-> now]]
  /\ beat' = [beat EXCEPT ![n] = IF @ = None THEN None ELSE now]
  /\ UNCHANGED <<world, now, lease, writes, up, held, call, slipped>>

(* A heartbeat that keeps the node's row fresh and forgets its leases.       *)
Renew_NodeOnly(n) ==
  /\ hb[n].pc = "renew"
  /\ hb' = [hb EXCEPT ![n].pc = "check"]
  /\ UNCHANGED <<world, now, tables, up, held, call, slipped>>

Renew(n) ==
  /\ hb[n].pc = "renew"
  /\ hb' = [hb EXCEPT ![n].pc = "check"]
  /\ lease' = IF Mine(n) THEN [lease EXCEPT !.expires = hb[n].at + LeaseTime] ELSE lease
  /\ UNCHANGED <<world, now, beat, writes, up, held, call, slipped>>

(* A heartbeat that trusts its UPDATE and never asks what is left.           *)
Check_Skipped(n) ==
  /\ hb[n].pc = "check"
  /\ hb' = [hb EXCEPT ![n].pc = "forget"]
  /\ UNCHANGED <<world, now, tables, up, held, call, slipped>>

Check(n) ==
  /\ hb[n].pc = "check"
  /\ hb' = [hb EXCEPT ![n].pc = IF Mine(n) THEN "forget" ELSE "lost"]
  /\ UNCHANGED <<world, now, tables, up, held, call, slipped>>

(* onLost: the node stops using what the key stands for (see ClusterEngine),   *)
(* even when it has acquired the key again since it asked what is left.      *)
Lost(n) ==
  /\ hb[n].pc = "lost"
  /\ hb' = [hb EXCEPT ![n].pc = "forget"]
  /\ held' = held \ {n}
  /\ slipped' = (slipped \/ (Mine(n) /\ n \in held))
  /\ UNCHANGED <<world, now, tables, up, call>>

Forget(n) ==
  /\ hb[n].pc = "forget"
  /\ hb' = [hb EXCEPT ![n] = NoBeat]
  /\ beat' = forgotten(hb[n].at)
  /\ UNCHANGED <<world, now, lease, writes, up, held, call, slipped>>

BeatFails(n) ==
  /\ "statement" \in world.faults
  /\ hb[n].pc \in {"check", "forget"} \/ (~world.prompt /\ hb[n].pc = "renew")
  /\ hb' = [hb EXCEPT ![n] = NoBeat]
  /\ UNCHANGED <<world, now, tables, up, held, call, slipped>>

-----------------------------------------------------------------------------
(* acquire(): register() first when the timer is gone, the upsert, the       *)
(* SELECT of the row, and for another node's row the SELECT of that node and *)
(* the takeover.                                                             *)
ask(n) == [node |-> n, pc |-> IF up[n] = "on" THEN "upsert" ELSE "register",
           at |-> now, holder |-> None]
goto(c, pc) == call' = [call EXCEPT ![c].pc = pc]

Acquire(c, n) ==
  /\ c \in world.calls /\ call[c].pc = "idle" /\ Running(n)
  /\ call' = [call EXCEPT ![c] = ask(n)]
  /\ UNCHANGED <<world, now, tables, up, held, hb, slipped>>

Register(c) ==
  /\ call[c].pc = "register"
  /\ beat' = [beat EXCEPT ![call[c].node] = now]
  /\ call' = [call EXCEPT ![c].pc = "upsert", ![c].at = now]
  /\ UNCHANGED <<world, now, lease, writes, up, held, hb, slipped>>

taken(n, at) == [node |-> n, expires |-> at + LeaseTime]

Upsert(c) ==
  LET n == call[c].node IN
  /\ call[c].pc = "upsert"
  /\ lease' = IF lease = None \/ Mine(n) \/ lease.expires < call[c].at
              THEN taken(n, call[c].at) ELSE lease
  /\ goto(c, "read")
  /\ UNCHANGED <<world, now, beat, writes, up, held, hb, slipped>>

(* No row counts as this node's: a release may have run since the upsert, and  *)
(* the node slips into counting on nothing.                                  *)
ReadMine(c) ==
  LET n == call[c].node IN
  /\ call[c].pc = "read"
  /\ lease = None \/ Mine(n)
  /\ held' = held \cup {n}
  /\ slipped' = (slipped \/ lease = None)
  /\ goto(c, "self")
  /\ UNCHANGED <<world, now, tables, up, hb>>

ReadOther(c) ==
  /\ call[c].pc = "read"
  /\ lease # None /\ ~Mine(call[c].node)
  /\ call' = [call EXCEPT ![c].pc = "peek", ![c].holder = lease.node]
  /\ UNCHANGED <<world, now, tables, up, held, hb, slipped>>

(* The row it saw may be this node's by now, through another call: the key is *)
(* dropped all the same.                                                     *)
Peek(c) ==
  LET n == call[c].node IN
  /\ call[c].pc = "peek"
  /\ held' = held \ {n}
  /\ slipped' = (slipped \/ (Mine(n) /\ n \in held))
  /\ goto(c, IF Silent(call[c].holder, call[c].at) THEN "take" ELSE "remote")
  /\ UNCHANGED <<world, now, tables, up, hb>>

(* A takeover that lost its race goes on with the holder it saw.              *)
Take_SameHolder(c) ==
  LET n == call[c].node IN
  /\ call[c].pc = "take"
  /\ IF Mine(call[c].holder)
     THEN lease' = taken(n, call[c].at) /\ held' = held \cup {n} /\ goto(c, "self")
     ELSE goto(c, "peek") /\ UNCHANGED <<lease, held>>
  /\ UNCHANGED <<world, now, beat, writes, up, hb, slipped>>

Take(c) ==
  LET n == call[c].node IN
  /\ call[c].pc = "take"
  /\ IF Mine(call[c].holder)
     THEN lease' = taken(n, call[c].at) /\ held' = held \cup {n} /\ goto(c, "self")
     ELSE call' = [call EXCEPT ![c] = ask(n)] /\ UNCHANGED <<lease, held>>
  /\ UNCHANGED <<world, now, beat, writes, up, hb, slipped>>

(* The caller gets its answer: { self } or the holder to forward to.          *)
Return(c) ==
  /\ call[c].pc \in {"self", "remote"}
  /\ call' = [call EXCEPT ![c] = NoCall]
  /\ UNCHANGED <<world, now, tables, up, held, hb, slipped>>

AcquireFails(c) ==
  /\ "statement" \in world.faults /\ call[c].pc \in {"register", "upsert", "read", "peek", "take"}
  /\ call' = [call EXCEPT ![c] = NoCall]
  /\ UNCHANGED <<world, now, tables, up, held, hb, slipped>>

-----------------------------------------------------------------------------
(* release(): memory first, the row when the statement runs.  One of a node    *)
(* waits at a time.                                                          *)
Release(n) ==
  /\ Running(n) /\ n \in held /\ n \notin writes
  /\ held' = held \ {n}
  /\ writes' = writes \cup {n}
  /\ UNCHANGED <<world, now, lease, beat, up, hb, call, slipped>>

(* A DELETE by key alone.                                                    *)
RunWrite_AnyHolder(n) ==
  /\ n \in writes
  /\ writes' = writes \ {n}
  /\ lease' = None
  /\ UNCHANGED <<world, now, beat, up, held, hb, call, slipped>>

(* The DELETE may run when the node has acquired the key again: it slips.      *)
RunWrite(n) ==
  /\ n \in writes
  /\ writes' = writes \ {n}
  /\ lease' = IF Mine(n) THEN None ELSE lease
  /\ slipped' = (slipped \/ (Mine(n) /\ n \in held))
  /\ UNCHANGED <<world, now, beat, up, held, hb, call>>

LoseWrite(n) ==
  /\ "statement" \in world.faults /\ n \in writes
  /\ writes' = writes \ {n}
  /\ UNCHANGED <<world, now, lease, beat, up, held, hb, call, slipped>>

-----------------------------------------------------------------------------
NodeStep(n) == Start(n) \/ Stop(n) \/ StopLeases(n) \/ StopNode(n) \/ Crash(n)
BeatStep(n) == Beat(n) \/ Renew(n) \/ Check(n) \/ Lost(n) \/ Forget(n) \/ BeatFails(n)
CallStep(c) == \/ Register(c) \/ Upsert(c) \/ ReadMine(c) \/ ReadOther(c)
               \/ Peek(c) \/ Take(c) \/ AcquireFails(c)

Next ==
  \/ Tick
  \/ \E n \in Node : NodeStep(n) \/ BeatStep(n) \/ Release(n) \/ RunWrite(n) \/ LoseWrite(n)
  \/ \E c \in Call : CallStep(c) \/ Return(c) \/ \E n \in Node : Acquire(c, n)

Spec == Init /\ [][Next]_vars

-----------------------------------------------------------------------------
HbPlaces == {"idle", "renew", "check", "lost", "forget"}
CallPlaces == {"idle", "register", "upsert", "read", "peek", "take", "self", "remote"}

(* Every variable has its type, a call in flight belongs to a process that    *)
(* runs, and one that found the row taken knows another node as its holder.   *)
TypeOK ==
  /\ world \in Worlds /\ now \in 0 .. MaxTime
  /\ lease \in Row \cup {None}
  /\ beat \in [Node -> 0 .. MaxTime \cup {None}]
  /\ writes \in SUBSET Node
  /\ up \in [Node -> {"off", "on", "stopping", "leaving", "gone"}]
  /\ held \in SUBSET Node /\ slipped \in BOOLEAN
  /\ hb \in [Node -> [pc : HbPlaces, at : 0 .. MaxTime]]
  /\ call \in [Call -> [node : Node \cup {None}, pc : CallPlaces, at : 0 .. MaxTime,
                        holder : Node \cup {None}]]
  /\ \A n \in Node : ~Running(n) => n \notin held /\ hb[n].pc = "idle"
  /\ \A c \in Call : /\ call[c].pc # "idle" => /\ call[c].node \in Node
                                               /\ Running(call[c].node)
                     /\ call[c].pc \in {"peek", "take", "remote"} =>
                          call[c].holder \in Node \ {call[c].node}

(* "A key is held by one node until it expires" (cluster.ts): two running      *)
(* nodes never both have it in their held set.  Releases break it.            *)
HeldByOne ==
  world.prompt => \A m, n \in held : up[m] = "on" /\ up[n] = "on" => m = n

(* What is left of it: a second node comes to count on the key only after a    *)
(* SELECT that found no row, a release that ran too late, or a loss acted on   *)
(* when the row was back.                                                    *)
OneBeliever == ~slipped => HeldByOne

(* The row of a node that runs, heartbeats and counts on it goes to another   *)
(* node only by that node's own release: neither the upsert's expiry test nor  *)
(* the takeover's silence test fires for a live holder.                       *)
NotStolen ==
  [][\A n \in Node : world.prompt /\ Mine(n) /\ n \in held /\ up[n] = "on" /\ ~Mine(n)'
       => n \in writes \ writes']_vars

(* A takeover follows "no heartbeat for a lease period" (cluster.ts): a row    *)
(* that another node's UPDATE takes has expired or is a silent node's.        *)
TakenFromSilent ==
  [][\A n \in Node : lease # None /\ lease' # None /\ lease'.node = n /\ lease.node # n /\ writes' = writes
       => lease.expires < now \/ Silent(lease.node, now)]_vars

(* "A lease another node took over is gone for good": a node that counts on a  *)
(* row it no longer has finds out by a heartbeat, and drops the key.          *)
LossIsNoticed ==
  \A n \in Node : (up[n] = "on" /\ n \in held /\ ~Mine(n)) ~> (up[n] # "on" \/ n \notin held \/ Mine(n))

(* "Every node registers and heartbeats" (cluster.ts): a node that keeps       *)
(* running has a row in cluster_nodes again and again, so the others see it.  *)
MemberWhileUp == \A n \in Node : []<>(up[n] = "on" => beat[n] # None)
=============================================================================
