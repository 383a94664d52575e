---------------------------- MODULE ClusterEngine ----------------------------
(***************************************************************************)
(* A workspace's DuckDB file in a cluster: the lease workspace:<id>         *)
(* (ClusterLease) together with the engine each node may have on the file,  *)
(* as WorkspaceService.engineFor/localEngine/openLocal, EngineManager.evict *)
(* and the two hooks of context.ts (onEvicted, onLost) tie them together.   *)
(*                                                                         *)
(* EnginePool models one node's engines in detail; here a node's engine is  *)
(* only absent, opening or open, with older ones still draining.            *)
(***************************************************************************)
EXTENDS ClusterLease

VARIABLES
  engine,   \* each node's engine of the workspace: "none", "opening", "open"
  draining, \* nodes whose evicted engine still has the file (EngineManager.closing)
  ending,   \* nodes whose shutdown() is past closeAll()
  early     \* history: a lease was given up between acquire() and the open it was for

engineVars == <<engine, draining, ending, early>>
allVars == <<vars, engineVars>>

EngineInit ==
  /\ Init
  /\ engine = [n \in Node |-> "none"]
  /\ draining = {} /\ ending = {} /\ early = FALSE

-----------------------------------------------------------------------------
(* engineFor: after { self: true } openLocal reads connections and           *)
(* attachments, and then EngineManager.get opens, or joins, or shares.  An    *)
(* open waits for an engine that drains, for 15 s at most (EnginePool).       *)
(* Opening without asking for the lease: an answer "remote" is ignored.       *)
OpenLocal_AnyAnswer(c) ==
  LET n == call[c].node IN
  /\ call[c].pc \in {"self", "remote"} /\ engine[n] = "none"
  /\ engine' = [engine EXCEPT ![n] = "opening"]
  /\ Return(c)
  /\ UNCHANGED <<draining, ending, early>>

OpenLocal(c) ==
  LET n == call[c].node IN
  /\ call[c].pc = "self" /\ engine[n] = "none"
  /\ engine' = [engine EXCEPT ![n] = "opening"]
  /\ Return(c)
  /\ UNCHANGED <<draining, ending, early>>

ShareLocal(c) ==
  /\ call[c].pc = "self" /\ engine[call[c].node] # "none"
  /\ Return(c)
  /\ UNCHANGED engineVars

OpenRemote(c) ==
  /\ call[c].pc = "remote"
  /\ Return(c)
  /\ UNCHANGED engineVars

Opened(n) ==
  /\ engine[n] = "opening"
  /\ engine' = [engine EXCEPT ![n] = "open"]
  /\ UNCHANGED <<vars, draining, ending, early>>

OpenFails(n) ==
  /\ "open" \in world.faults /\ engine[n] = "opening"
  /\ engine' = [engine EXCEPT ![n] = "none"]
  /\ UNCHANGED <<vars, draining, ending, early>>

(* EngineManager.evict closes what is open, and nothing that still opens.    *)
close(n) ==
  /\ engine' = IF engine[n] = "open" THEN [engine EXCEPT ![n] = "none"] ELSE engine
  /\ draining' = IF engine[n] = "open" THEN draining \cup {n} ELSE draining

(* onEvicted gives the lease up at once, also when a request that has been     *)
(* told { self: true } is on its way to the open.                            *)
evict(n) ==
  /\ engine[n] = "open" /\ close(n)
  /\ IF n \in held THEN Release(n) ELSE UNCHANGED vars
  /\ early' = (early \/ \E c \in Call : call[c].node = n /\ call[c].pc = "self")

(* Idle sweep, capacity, a settings change.                                  *)
Evict(n) ==
  /\ "release" \in world.leaves[n]
  /\ evict(n)
  /\ UNCHANGED ending

Drained(n) ==
  /\ n \in draining
  /\ draining' = draining \ {n}
  /\ UNCHANGED <<vars, engine, ending, early>>

(* onLost evicts; the lease is no longer held, so nothing is released.       *)
LostKey(n) == Lost(n) /\ close(n) /\ UNCHANGED <<ending, early>>

(* context.shutdown(): closeAll(), released(), and at last cluster.stop(), with *)
(* what opens meanwhile and what still drains after 15 s left as it is.       *)
CloseAll(n) ==
  /\ "stop" \in world.leaves[n] /\ up[n] = "on" /\ n \notin ending
  /\ ending' = ending \cup {n}
  /\ \/ evict(n)
     \/ engine[n] # "open" /\ UNCHANGED <<vars, engine, draining, early>>

Shutdown(n) ==
  /\ n \in ending
  /\ Stop(n)
  /\ UNCHANGED engineVars

Exit(n) ==
  /\ Crash(n) \/ StopNode(n)
  /\ engine' = [engine EXCEPT ![n] = "none"]
  /\ draining' = draining \ {n}
  /\ ending' = ending \ {n}
  /\ UNCHANGED early

LeaseOnly ==
  \/ Tick
  \/ \E n \in Node : Start(n) \/ StopLeases(n) \/ Beat(n) \/ Renew(n) \/ Check(n) \/ Forget(n) \/ BeatFails(n)
  \/ \E c \in Call : CallStep(c) \/ \E n \in Node : Acquire(c, n)
  \/ \E n \in Node : RunWrite(n) \/ LoseWrite(n)

EngineStep(n) == Opened(n) \/ OpenFails(n) \/ Evict(n) \/ Drained(n)

EngineNext ==
  \/ LeaseOnly /\ UNCHANGED engineVars
  \/ \E n \in Node : EngineStep(n) \/ LostKey(n) \/ CloseAll(n) \/ Shutdown(n) \/ Exit(n)
  \/ \E c \in Call : OpenLocal(c) \/ ShareLocal(c) \/ OpenRemote(c)

EngineSpec == EngineInit /\ [][EngineNext]_allVars

(* What a request awaits comes back.                                          *)
ServingSpec ==
  /\ EngineSpec
  /\ \A c \in Call : WF_allVars(\/ CallStep(c) /\ UNCHANGED engineVars
                               \/ OpenLocal(c) \/ ShareLocal(c) \/ OpenRemote(c))

(* The timer of a running node fires too, and what a heartbeat began goes on.  *)
LivingSpec ==
  /\ ServingSpec
  /\ \A n \in Node : WF_allVars(\/ /\ Beat(n) \/ Renew(n) \/ Check(n) \/ Forget(n)
                                   /\ UNCHANGED engineVars
                                \/ LostKey(n))

-----------------------------------------------------------------------------
HasFile(n) == engine[n] # "none" \/ n \in draining

(* "So two nodes never both open a DuckDB file" (cluster.ts).  An eviction     *)
(* breaks it: it gives the lease up while the engine still drains.            *)
OneNodeHasFile ==
  world.prompt => \A m, n \in Node : HasFile(m) /\ HasFile(n) => m = n

(* What is left of it: if no node has slipped or given a lease up too early,    *)
(* two running nodes never both have an engine that opens or is open.         *)
Opens(n) == up[n] = "on" /\ engine[n] # "none"
OneNodeOpens ==
  world.prompt /\ ~slipped /\ ~early => \A m, n \in Node : Opens(m) /\ Opens(n) => m = n

(* "Leases go only once this node has let go of the files, so the next holder *)
(* can open them" (context.ts): nobody else opens what still drains.         *)
DrainedBeforeOpened == \A m, n \in Node : m \in draining /\ engine[n] # "none" => m = n

(* "Releases them when it closes the engine" (cluster.ts): a running node with *)
(* an engine on the file still counts on the lease, so it renews it.          *)
OpenUnderLease == \A n \in Node : up[n] = "on" /\ engine[n] = "open" => n \in held

(* A node with an engine on a file whose lease another node has closes it.    *)
LossCloses ==
  \A n \in Node : (up[n] = "on" /\ engine[n] = "open" /\ lease # None /\ ~Mine(n))
                  ~> (up[n] # "on" \/ engine[n] # "open" \/ lease = None \/ Mine(n))

(* Every request that asks for the engine is answered: a takeover that lost    *)
(* its race asks again, and that ends.                                       *)
RequestsEnd == \A c \in Call : (call[c].pc # "idle") ~> (call[c].pc = "idle")
=============================================================================
