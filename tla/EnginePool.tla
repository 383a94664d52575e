----------------------------- MODULE EnginePool -----------------------------
(***************************************************************************)
(* The DuckDB engines of one DuckView process: EngineManager (get, evict,  *)
(* the capacity and idle sweeps, closeAll) and the life of the             *)
(* WorkspaceEngine objects it caches (open, withConnection, close,         *)
(* releaseInstanceIfIdle), engine/duckdb.ts.                               *)
(*                                                                         *)
(* One step is what runs between two awaits.  A Caller is a request that   *)
(* asked for a workspace's engine and runs queries on it; an Engine is a   *)
(* WorkspaceEngine object.  Times are abstracted: the idle sweep may find  *)
(* any engine without a running query stale, the capacity sweep may pick   *)
(* any of them as the oldest, and the 15 s wait for a closing engine may   *)
(* run out whenever the engine has not let go yet.                         *)
(***************************************************************************)
EXTENDS Naturals, FiniteSets

CONSTANTS
  Workspace,   \* workspaces, each with one DuckDB file
  Engine,      \* identities for WorkspaceEngine objects (bounds the live ones)
  Caller,      \* concurrent requests
  Fingerprint, \* engine settings: a change needs a restart (fingerprint)
  Hot,         \* secrets and attachments: applied to a running engine
  MaxCached,   \* duckdb.max_cached_engines
  OpenFaults,  \* subset of {"create", "setup"}: where opening may fail
  ConnectFaults, \* whether DuckDBInstance.connect() may reject
  None

ASSUME MaxCachedAssumption == MaxCached \in Nat \ {0}
ASSUME NoneAssumption == None \notin Workspace \cup Engine \cup [fp : Fingerprint, hot : Hot]
ASSUME FaultsAssumption == OpenFaults \subseteq {"create", "setup"} /\ ConnectFaults \in BOOLEAN

VARIABLES
  engines,  \* EngineManager.engines: the cached engine of a workspace
  pending,  \* EngineManager.pending: the settings the workspace is being opened with
  opening,  \* the engine object the pending open has created
  closing,  \* EngineManager.closing: the evicted engine to wait for
  phase,    \* what an engine object has done with its DuckDB instance
  home,     \* the workspace an engine object was opened for
  config,   \* the settings an engine object runs with
  overdue,  \* closing engines the manager stopped waiting for
  pc,       \* where a caller is
  ref,      \* the engine a caller has in hand
  want,     \* what a caller asked for, while get() runs
  target    \* the workspace a caller asked for, while get() runs

vars == <<engines, pending, opening, closing, phase, home, config, overdue, pc, ref, want, target>>
poolVars == <<engines, pending, opening, closing, phase, home, config, overdue>>

Settings == [fp : Fingerprint, hot : Hot]

(* "opening": instance being created and set up; "open": in the cache;      *)
(* "closing": close() was called, connections still out; "leaked": set-up   *)
(* failed and nobody closed the instance; "released": no instance.          *)
Phases == {"opening", "open", "closing", "leaked", "released"}

(* "waiting": awaiting pending; "holding": has an engine; "connecting" and   *)
(* "running": inside withConnection, for a query, or for get()'s own hot     *)
(* apply when want is set; "retry": the hot apply failed.                    *)
Places == {"idle", "waiting", "holding", "connecting", "running", "retry"}

TypeOK ==
  /\ engines \in [Workspace -> Engine \cup {None}]
  /\ pending \in [Workspace -> Settings \cup {None}]
  /\ opening \in [Workspace -> Engine \cup {None}]
  /\ closing \in [Workspace -> Engine \cup {None}]
  /\ phase \in [Engine -> Phases]
  /\ home \in [Engine -> Workspace \cup {None}]
  /\ config \in [Engine -> Settings \cup {None}]
  /\ overdue \subseteq Engine
  /\ pc \in [Caller -> Places]
  /\ ref \in [Caller -> Engine \cup {None}]
  /\ want \in [Caller -> Settings \cup {None}]
  /\ target \in [Caller -> Workspace \cup {None}]
  /\ \A c \in Caller : pc[c] \in {"holding", "connecting", "running"} => ref[c] # None

Init ==
  /\ engines = [w \in Workspace |-> None]
  /\ pending = [w \in Workspace |-> None]
  /\ opening = [w \in Workspace |-> None]
  /\ closing = [w \in Workspace |-> None]
  /\ phase = [e \in Engine |-> "released"]
  /\ home = [e \in Engine |-> None]
  /\ config = [e \in Engine |-> None]
  /\ overdue = {}
  /\ pc = [c \in Caller |-> "idle"]
  /\ ref = [c \in Caller |-> None]
  /\ want = [c \in Caller |-> None]
  /\ target = [c \in Caller |-> None]

-----------------------------------------------------------------------------
(* WorkspaceEngine: who is on an engine.                                    *)

\* WorkspaceEngine.active and .pendingConnects.
active(e) == {c \in Caller : ref[c] = e /\ pc[c] = "running"}
pendingConnects(e) == {c \in Caller : ref[c] = e /\ pc[c] = "connecting"}
connections_NoPending(e) == active(e)
connections(e) == active(e) \cup pendingConnects(e)

Holds(e) == phase[e] # "released"  \* the process has the file open through e

\* close(), for every engine of E: the instance goes at once when no
\* connection is out and none is being made (releaseInstanceIfIdle).
close(E) ==
  phase' = [e \in Engine |-> IF e \notin E THEN phase[e]
                             ELSE IF connections(e) = {} THEN "released" ELSE "closing"]

leave_NoRelease(c) == c \in Caller /\ UNCHANGED phase

\* withConnection's way out: the last connection of a closed engine closes
\* its instance.
leave(c) ==
  phase' = IF phase[ref[c]] = "closing" /\ connections(ref[c]) = {c}
           THEN [phase EXCEPT ![ref[c]] = "released"]
           ELSE phase

-----------------------------------------------------------------------------
(* EngineManager                                                            *)

Cached == {w \in Workspace : engines[w] # None}

evict_Untracked(W) ==
  LET hit == W \cap Cached
  IN /\ close({engines[w] : w \in hit})
     /\ engines' = [w \in Workspace |-> IF w \in hit THEN None ELSE engines[w]]
     /\ UNCHANGED closing

\* evict, for every workspace of W (onEvicted, which releases the cluster
\* lease, is in ClusterEngine).
evict(W) ==
  LET hit == W \cap Cached
  IN /\ close({engines[w] : w \in hit})
     /\ closing' = [w \in Workspace |-> IF w \in hit THEN engines[w] ELSE closing[w]]
     /\ engines' = [w \in Workspace |-> IF w \in hit THEN None ELSE engines[w]]

\* What enforceCapacity may choose to evict when the workspaces of W are
\* cached: idle engines until there is room for one more, or all of them.
enforceCapacity(W) ==
  LET idle == {w \in W : active(engines[w]) = {}}
      excess == IF Cardinality(W) >= MaxCached THEN Cardinality(W) - MaxCached + 1 ELSE 0
  IN {V \in SUBSET idle : \/ Cardinality(V) = excess
                          \/ V = idle /\ Cardinality(idle) < excess}

\* The tail of get(), after it evicted the workspaces of drop: share the open
\* in flight, whatever its settings, or make room and start one.
shareOrOpen(c, w, s, drop) ==
  /\ IF pending[w] # None
     THEN evict(drop) /\ UNCHANGED pending
     ELSE /\ \E V \in enforceCapacity(Cached \ drop) : evict(drop \cup V)
          /\ pending' = [pending EXCEPT ![w] = s]
  /\ pc' = [pc EXCEPT ![c] = "waiting"]
  /\ ref' = [ref EXCEPT ![c] = None]
  /\ want' = [want EXCEPT ![c] = s]
  /\ target' = [target EXCEPT ![c] = w]
  /\ UNCHANGED <<opening, home, config, overdue>>

\* get(): the cached engine already runs with these settings.
GetHit(c, w, s) ==
  /\ pc[c] = "idle"
  /\ engines[w] # None /\ config[engines[w]] = s
  /\ pc' = [pc EXCEPT ![c] = "holding"]
  /\ ref' = [ref EXCEPT ![c] = engines[w]]
  /\ UNCHANGED <<poolVars, want, target>>

\* get(): same fingerprint, other secrets or attachments. They are applied
\* over a connection of the running engine (applySecrets, applyAttachments).
GetHotApply(c, w, s) ==
  /\ pc[c] = "idle"
  /\ engines[w] # None
  /\ config[engines[w]].fp = s.fp /\ config[engines[w]].hot # s.hot
  /\ pc' = [pc EXCEPT ![c] = "connecting"]
  /\ ref' = [ref EXCEPT ![c] = engines[w]]
  /\ want' = [want EXCEPT ![c] = s]
  /\ target' = [target EXCEPT ![c] = w]
  /\ UNCHANGED poolVars

GetMiss_KeepOld(c, w, s) ==
  /\ pc[c] = "idle"
  /\ engines[w] # None => config[engines[w]].fp # s.fp
  /\ shareOrOpen(c, w, s, {})

\* get(): no engine, or one with another fingerprint, which is closed.
GetMiss(c, w, s) ==
  /\ pc[c] = "idle"
  /\ engines[w] # None => config[engines[w]].fp # s.fp
  /\ shareOrOpen(c, w, s, {w})

GetRetry_KeepsOld(c) ==
  /\ pc[c] = "retry"
  /\ shareOrOpen(c, target[c], want[c], {})

\* get() after a hot apply that failed: it evicts whatever engine the
\* workspace has by now, the one it tried or one opened since.
GetRetry(c) ==
  /\ pc[c] = "retry"
  /\ shareOrOpen(c, target[c], want[c], {target[c]})

\* An engine object nobody refers to (its slot can be used for a new one).
Fresh(e) ==
  /\ phase[e] = "released"
  /\ \A c \in Caller : ref[c] # e
  /\ \A w \in Workspace : closing[w] # e

\* WorkspaceEngine.open starts: from here the process has the file open.
open(w, e) ==
  /\ pending[w] # None /\ opening[w] = None
  /\ Fresh(e)
  /\ phase' = [phase EXCEPT ![e] = "opening"]
  /\ home' = [home EXCEPT ![e] = w]
  /\ config' = [config EXCEPT ![e] = pending[w]]
  /\ opening' = [opening EXCEPT ![w] = e]
  /\ closing' = [closing EXCEPT ![w] = None]
  /\ UNCHANGED <<engines, pending, pc, ref, want, target>>

StartOpen_NoWait(w, e) == open(w, e) /\ overdue' = overdue \ {e}

\* Nothing to wait for, or the wait for the previous engine is over.
StartOpen(w, e) ==
  /\ closing[w] # None => phase[closing[w]] = "released"
  /\ open(w, e)
  /\ overdue' = overdue \ {e}

\* The previous engine did not let go within 15 s: it is opened over.
StartOpenLate(w, e) ==
  /\ closing[w] # None /\ phase[closing[w]] = "closing"
  /\ open(w, e)
  /\ overdue' = (overdue \cup {closing[w]}) \ {e}

Waiting(w) == {c \in Caller : pc[c] = "waiting" /\ target[c] = w}

answer_Swallowed(e) == IF e = None THEN "holding" ELSE "holding"
\* An awaited open resolves with an engine, or rejects: the request fails.
answer(e) == IF e = None THEN "idle" ELSE "holding"

\* The open settles: everyone who awaits it gets the engine e, or the error.
settle(w, e) ==
  /\ pending' = [pending EXCEPT ![w] = None]
  /\ opening' = [opening EXCEPT ![w] = None]
  /\ pc' = [c \in Caller |-> IF c \in Waiting(w) THEN answer(e) ELSE pc[c]]
  /\ ref' = [c \in Caller |-> IF c \in Waiting(w) THEN e ELSE ref[c]]
  /\ want' = [c \in Caller |-> IF c \in Waiting(w) THEN None ELSE want[c]]
  /\ target' = [c \in Caller |-> IF c \in Waiting(w) THEN None ELSE target[c]]
  /\ UNCHANGED <<closing, home, config, overdue>>

OpenDone(w) ==
  /\ opening[w] # None
  /\ phase' = [phase EXCEPT ![opening[w]] = "open"]
  /\ engines' = [engines EXCEPT ![w] = opening[w]]
  /\ settle(w, opening[w])

\* A failed open that is tried again, without telling who waits for it.
OpenFail_Retries(w, where) ==
  /\ opening[w] # None /\ where \in OpenFaults
  /\ phase' = [phase EXCEPT ![opening[w]] = IF where = "setup" THEN "leaked" ELSE "released"]
  /\ opening' = [opening EXCEPT ![w] = None]
  /\ UNCHANGED <<engines, pending, closing, home, config, overdue, pc, ref, want, target>>

\* DuckDBInstance.create rejects, or set-up throws after it (a blocked
\* extension, a SET refused): then nothing closes the instance.
OpenFail(w, where) ==
  /\ opening[w] # None /\ where \in OpenFaults
  /\ phase' = [phase EXCEPT ![opening[w]] = IF where = "setup" THEN "leaked" ELSE "released"]
  /\ settle(w, None)
  /\ UNCHANGED engines

\* The garbage collector finalises, some day, an instance no code can reach:
\* one leaked by set-up, or one whose last connect was rejected.
Finalise(e) ==
  /\ \/ phase[e] = "leaked"
     \/ phase[e] = "closing" /\ connections(e) = {}
  /\ \A c \in Caller : ref[c] # e
  /\ \A w \in Workspace : closing[w] # e
  /\ phase' = [phase EXCEPT ![e] = "released"]
  /\ UNCHANGED <<engines, pending, opening, closing, home, config, overdue, pc, ref, want, target>>

\* evict called from outside: settings changed, archived, removed, restored,
\* lease lost, an administrator, shutdown (closeAll).
Evict(w) ==
  /\ w \in Cached
  /\ evict({w})
  /\ UNCHANGED <<pending, opening, home, config, overdue, pc, ref, want, target>>

\* sweep: an engine without a running query was last used too long ago. A
\* connect in flight does not count.
Sweep(w) == w \in Cached /\ active(engines[w]) = {} /\ Evict(w)

-----------------------------------------------------------------------------
(* withConnection, for a caller that holds an engine                        *)

Connect(c) ==
  /\ pc[c] = "holding" /\ phase[ref[c]] = "open"
  /\ pc' = [pc EXCEPT ![c] = "connecting"]
  /\ UNCHANGED <<poolVars, ref, want, target>>

\* The engine was closed since get() returned it: 'Engine is closed'.
ConnectClosed(c) ==
  /\ pc[c] = "holding" /\ phase[ref[c]] # "open"
  /\ pc' = [pc EXCEPT ![c] = "idle"]
  /\ ref' = [ref EXCEPT ![c] = None]
  /\ UNCHANGED <<poolVars, want, target>>

\* withConnection throws: a query fails its request, a hot apply is retried
\* with a restart.
fail(c) ==
  /\ pc' = [pc EXCEPT ![c] = IF want[c] = None THEN "idle" ELSE "retry"]
  /\ ref' = [ref EXCEPT ![c] = None]
  /\ UNCHANGED <<want, target>>

Connected_NoRecheck(c) ==
  /\ pc[c] = "connecting"
  /\ pc' = [pc EXCEPT ![c] = "running"]
  /\ UNCHANGED <<poolVars, ref, want, target>>

\* instance.connect() resolves: the connection is used, unless the engine
\* was closed meanwhile.
Connected(c) ==
  /\ pc[c] = "connecting"
  /\ \/ /\ phase[ref[c]] = "open"
        /\ pc' = [pc EXCEPT ![c] = "running"]
        /\ UNCHANGED <<phase, ref, want, target>>
     \/ /\ phase[ref[c]] # "open"
        /\ leave(c)
        /\ fail(c)
  /\ UNCHANGED <<engines, pending, opening, closing, home, config, overdue>>

\* instance.connect() rejects: only the count of pending connects is undone.
ConnectReject(c) ==
  /\ ConnectFaults
  /\ pc[c] = "connecting"
  /\ fail(c)
  /\ UNCHANGED poolVars

\* The work on the connection is done; a hot apply records the settings.
Finish(c) ==
  /\ pc[c] = "running"
  /\ leave(c)
  /\ config' = IF want[c] = None THEN config ELSE [config EXCEPT ![ref[c]] = want[c]]
  /\ pc' = [pc EXCEPT ![c] = "holding"]
  /\ want' = [want EXCEPT ![c] = None]
  /\ target' = [target EXCEPT ![c] = None]
  /\ UNCHANGED <<engines, pending, opening, closing, home, overdue, ref>>

\* It failed: an SQL error, a timeout, a cancel, the interrupt of close().
Fail(c) ==
  /\ pc[c] = "running"
  /\ leave(c)
  /\ fail(c)
  /\ UNCHANGED <<engines, pending, opening, closing, home, config, overdue>>

\* The request is answered.
Done(c) ==
  /\ pc[c] = "holding"
  /\ pc' = [pc EXCEPT ![c] = "idle"]
  /\ ref' = [ref EXCEPT ![c] = None]
  /\ UNCHANGED <<poolVars, want, target>>

-----------------------------------------------------------------------------
Manage(w) ==
  \/ \E e \in Engine : StartOpen(w, e) \/ StartOpenLate(w, e)
  \/ OpenDone(w)
  \/ \E where \in {"create", "setup"} : OpenFail(w, where)
  \/ Evict(w)
  \/ Sweep(w)

Get(c) ==
  \/ \E w \in Workspace, s \in Settings : GetHit(c, w, s) \/ GetHotApply(c, w, s) \/ GetMiss(c, w, s)
  \/ GetRetry(c)

Use(c) ==
  \/ Connect(c) \/ ConnectClosed(c) \/ Connected(c) \/ ConnectReject(c)
  \/ Finish(c) \/ Fail(c) \/ Done(c)

Next ==
  \/ \E w \in Workspace : Manage(w)
  \/ \E c \in Caller : Get(c) \/ Use(c)
  \/ \E e \in Engine : Finalise(e)

\* The event loop serves every ready callback and withConnection bounds every
\* use of a connection by a timeout that interrupts it; the 15 s timer of a
\* wait fires. Requests, sweeps and the garbage collector owe nothing.
Fairness ==
  /\ \A w \in Workspace :
       /\ WF_vars(\E e \in Engine : StartOpen(w, e) \/ StartOpenLate(w, e))
       /\ WF_vars(OpenDone(w) \/ \E where \in OpenFaults : OpenFail(w, where))
  /\ \A c \in Caller :
       /\ WF_vars(Connected(c) \/ ConnectReject(c))
       /\ WF_vars(Finish(c) \/ Fail(c))
       /\ WF_vars(GetRetry(c))
       /\ WF_vars(ConnectClosed(c) \/ Done(c))

Spec == Init /\ [][Next]_vars
FairSpec == Spec /\ Fairness

\* With the slots of unreachable engines used again, so that a bounded
\* Engine does not stand in the way of an open.
RecyclingSpec == FairSpec /\ \A e \in Engine : WF_vars(Finalise(e))

-----------------------------------------------------------------------------
(* Properties                                                               *)

\* The instance is never closed under a live connection or a connect in
\* flight, which would wedge DuckDB's worker (close, releaseInstanceIfIdle).
NoCloseUnderConnection ==
  \A c \in Caller : pc[c] \in {"connecting", "running"} => Holds(ref[c])

\* Two engines of this process have one database file open only when the
\* manager gave up waiting for the older, or an open failed half-way.
SingleInstance ==
  \A d, e \in Engine :
    (d # e /\ Holds(d) /\ Holds(e) /\ home[d] = home[e])
      => \E x \in {d, e} : x \in overdue \/ phase[x] = "leaked"

\* Every engine that still drains is one released() waits for: what restore
\* and shutdown rely on before they touch the file or give up the lease.
DrainingIsTracked ==
  \A e \in Engine : phase[e] = "closing" => e \in overdue \/ closing[home[e]] = e

\* What get() hands to a new request is an engine of that workspace that
\* accepts work, and no other engine accepts work.
CacheIsLive ==
  \A e \in Engine, w \in Workspace :
    engines[w] = e <=> phase[e] = "open" /\ home[e] = w

\* A query that get() joined to someone else's open ends: no request waits
\* for ever.
WaitingEnds == \A c \in Caller : pc[c] = "waiting" ~> pc[c] # "waiting"

\* An engine told to close lets go of its file.
ClosingEnds == \A e \in Engine : phase[e] = "closing" ~> phase[e] = "released"

\* Nothing starts to run on an engine once close() was called on it.
NoWorkAfterClose ==
  [][\A c \in Caller : pc'[c] = "running" /\ pc[c] # "running" => phase'[ref'[c]] = "open"]_vars

\* The cache holds at most max_cached_engines engines.
PoolWithinCapacity == Cardinality(Cached) <= MaxCached

\* One DuckDBInstance per workspace, as the architecture notes put it.
OneInstancePerWorkspace ==
  \A d, e \in Engine : d # e /\ Holds(d) /\ Holds(e) => home[d] # home[e]
=============================================================================
