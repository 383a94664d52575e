-------------------------- MODULE EnginePool_proofs --------------------------
(***************************************************************************)
(* Safety of EnginePool for every number of workspaces, callers and engine *)
(* objects, whatever fails.  IInv is the inductive invariant: it ties the  *)
(* manager's four maps to what the engine objects do.  Its parts TypeOK,   *)
(* CacheIsLive and DrainingIsTracked are also invariants of the run "pool". *)
(***************************************************************************)
EXTENDS EnginePool, TLAPS

\* The maps engines, pending, opening and closing never overlap: a workspace
\* is cached, or being opened, or drains, and only the last two may coincide
\* until the open starts.
MapsAgree ==
  \A w \in Workspace :
    /\ pending[w] # None => engines[w] = None
    /\ opening[w] # None => pending[w] # None /\ closing[w] = None
    /\ engines[w] # None => closing[w] = None
    /\ closing[w] # None => /\ home[closing[w]] = w
                            /\ phase[closing[w]] \in {"closing", "released"}

OpeningIsLive ==
  \A e \in Engine, w \in Workspace :
    opening[w] = e <=> phase[e] = "opening" /\ home[e] = w

\* Engine objects outside the manager's maps are dead or leaked.
EnginesHaveHomes == \A e \in Engine : phase[e] \in {"opening", "open", "closing"} => home[e] \in Workspace

CallersOnEngines ==
  \A c \in Caller : pc[c] \in {"connecting", "running"} => phase[ref[c]] \in {"open", "closing"}


IInv ==
  /\ TypeOK
  /\ CacheIsLive
  /\ MapsAgree
  /\ OpeningIsLive
  /\ EnginesHaveHomes
  /\ DrainingIsTracked
  /\ CallersOnEngines

USE DEF Phases, Places, answer

-----------------------------------------------------------------------------
\* The invariant says what the theorems want.
LEMMA IInvImpliesSingleInstance == IInv => SingleInstance
<1> SUFFICES ASSUME IInv, NEW d \in Engine, NEW e \in Engine,
                    d # e, Holds(d), Holds(e), home[d] = home[e],
                    d \notin overdue, e \notin overdue,
                    phase[d] # "leaked", phase[e] # "leaked"
             PROVE  FALSE
  BY DEF SingleInstance
<1>1. phase[d] \in {"opening", "open", "closing"} /\ phase[e] \in {"opening", "open", "closing"}
  BY DEF IInv, TypeOK, Holds
<1>2. PICK w \in Workspace : home[d] = w /\ home[e] = w
  BY <1>1 DEF IInv, EnginesHaveHomes
<1>3. \A x \in {d, e} : /\ phase[x] = "open" <=> engines[w] = x
                        /\ phase[x] = "opening" <=> opening[w] = x
                        /\ phase[x] = "closing" => closing[w] = x
  BY <1>2 DEF IInv, CacheIsLive, OpeningIsLive, DrainingIsTracked
<1>4. d # None /\ e # None
  BY NoneAssumption
<1> QED
  BY <1>1, <1>3, <1>4 DEF IInv, MapsAgree

LEMMA IInvImpliesNoCloseUnderConnection == IInv => NoCloseUnderConnection
BY DEF IInv, CallersOnEngines, NoCloseUnderConnection, Holds

-----------------------------------------------------------------------------
\* What evict does to the maps and the engines.
LEMMA EvictFacts ==
  ASSUME IInv, NEW W, evict(W)
  PROVE  /\ phase' \in [Engine -> Phases]
         /\ engines' \in [Workspace -> Engine \cup {None}]
         /\ closing' \in [Workspace -> Engine \cup {None}]
         /\ \A w \in Workspace :
              \/ /\ engines'[w] = engines[w] /\ closing'[w] = closing[w]
                 /\ w \notin W \/ engines[w] = None
              \/ /\ w \in W /\ engines[w] # None
                 /\ engines'[w] = None /\ closing'[w] = engines[w]
         /\ \A e \in Engine :
              \/ phase'[e] = phase[e] /\ ~ \E w \in Workspace : w \in W /\ engines[w] = e
              \/ /\ phase[e] = "open" /\ home[e] \in W /\ engines[home[e]] = e
                 /\ phase'[e] = IF connections(e) = {} THEN "released" ELSE "closing"
<1> DEFINE hit == W \cap Cached
           out == {engines[w] : w \in hit}
<1>1. /\ phase' = [e \in Engine |-> IF e \notin out THEN phase[e]
                                    ELSE IF connections(e) = {} THEN "released" ELSE "closing"]
      /\ closing' = [w \in Workspace |-> IF w \in hit THEN engines[w] ELSE closing[w]]
      /\ engines' = [w \in Workspace |-> IF w \in hit THEN None ELSE engines[w]]
  BY DEF evict, close
<1>2. \A w : w \in hit <=> w \in Workspace /\ w \in W /\ engines[w] # None
  BY DEF Cached
<1>3. \A e \in Engine : e \in out <=> \E w \in Workspace : w \in W /\ engines[w] = e
  BY <1>2, NoneAssumption
<1>4. \A e \in Engine : e \in out => phase[e] = "open" /\ home[e] \in W /\ engines[home[e]] = e
  BY <1>3 DEF IInv, CacheIsLive
<1> HIDE DEF hit, out
<1>5. phase' \in [Engine -> Phases]
  BY <1>1 DEF IInv, TypeOK
<1>6. /\ engines' \in [Workspace -> Engine \cup {None}]
      /\ closing' \in [Workspace -> Engine \cup {None}]
  BY <1>1 DEF IInv, TypeOK
<1>7. \A w \in Workspace :
        \/ /\ engines'[w] = engines[w] /\ closing'[w] = closing[w]
           /\ w \notin W \/ engines[w] = None
        \/ /\ w \in W /\ engines[w] # None
           /\ engines'[w] = None /\ closing'[w] = engines[w]
  BY <1>1, <1>2
<1>8. \A e \in Engine :
        \/ phase'[e] = phase[e] /\ ~ \E w \in Workspace : w \in W /\ engines[w] = e
        \/ /\ phase[e] = "open" /\ home[e] \in W /\ engines[home[e]] = e
           /\ phase'[e] = IF connections(e) = {} THEN "released" ELSE "closing"
  BY <1>1, <1>3, <1>4
<1> QED
  BY <1>5, <1>6, <1>7, <1>8

\* An eviction keeps every part of the invariant about the manager's maps, as
\* long as the maps it does not touch stay and a workspace that becomes
\* pending is not cached.
LEMMA EvictKeepsMaps ==
  ASSUME IInv, NEW W, evict(W),
         UNCHANGED <<opening, home, config, overdue>>,
         pending' \in [Workspace -> Settings \cup {None}],
         \A w \in Workspace : pending'[w] # pending[w] => pending[w] = None /\ w \in W
  PROVE  /\ phase' \in [Engine -> Phases]
         /\ engines' \in [Workspace -> Engine \cup {None}]
         /\ closing' \in [Workspace -> Engine \cup {None}]
         /\ (CacheIsLive /\ MapsAgree /\ OpeningIsLive /\ EnginesHaveHomes /\ DrainingIsTracked)'
<1> USE EvictFacts
<1>1. phase' \in [Engine -> Phases] /\ engines' \in [Workspace -> Engine \cup {None}]
        /\ closing' \in [Workspace -> Engine \cup {None}]
  OBVIOUS
<1>2. CacheIsLive'
  <2> SUFFICES ASSUME NEW e \in Engine, NEW w \in Workspace
               PROVE  engines'[w] = e <=> phase'[e] = "open" /\ home'[e] = w
    BY DEF CacheIsLive
  <2>1. engines[w] = e <=> phase[e] = "open" /\ home[e] = w
    BY DEF IInv, CacheIsLive
  <2>2. e # None
    BY NoneAssumption
  <2> QED
    BY <2>1, <2>2
<1>3. MapsAgree'
  <2> SUFFICES ASSUME NEW w \in Workspace
               PROVE  /\ pending'[w] # None => engines'[w] = None
                      /\ opening'[w] # None => pending'[w] # None /\ closing'[w] = None
                      /\ engines'[w] # None => closing'[w] = None
                      /\ closing'[w] # None => /\ home'[closing'[w]] = w
                                               /\ phase'[closing'[w]] \in {"closing", "released"}
    BY DEF MapsAgree
  <2>1. /\ pending[w] # None => engines[w] = None
        /\ opening[w] # None => pending[w] # None /\ closing[w] = None
        /\ engines[w] # None => closing[w] = None
        /\ closing[w] # None => /\ home[closing[w]] = w
                                /\ phase[closing[w]] \in {"closing", "released"}
    BY DEF IInv, MapsAgree
  <2>2. engines[w] \in Engine \cup {None} /\ closing[w] \in Engine \cup {None}
    BY DEF IInv, TypeOK
  <2>3. CASE w \in W /\ engines[w] # None
    <3>1. engines'[w] = None /\ closing'[w] = engines[w] /\ engines[w] \in Engine
      BY <2>2, <2>3
    <3>2. phase'[engines[w]] \in {"closing", "released"}
      BY <2>3, <3>1
    <3>3. home[engines[w]] = w
      BY <3>1 DEF IInv, CacheIsLive
    <3>4. opening[w] = None
      BY <2>1, <2>3
    <3> QED
      BY <3>1, <3>2, <3>3, <3>4, <2>1, <2>3
  <2>4. CASE ~(w \in W /\ engines[w] # None)
    <3>1. engines'[w] = engines[w] /\ closing'[w] = closing[w]
      BY <2>4
    <3>2. closing[w] # None => phase'[closing[w]] = phase[closing[w]]
      BY <2>1, <2>2
    <3> QED
      BY <2>1, <2>4, <3>1, <3>2
  <2> QED
    BY <2>3, <2>4
<1>4. OpeningIsLive'
  BY DEF IInv, OpeningIsLive
<1>5. EnginesHaveHomes'
  BY DEF IInv, EnginesHaveHomes
<1>6. DrainingIsTracked'
  <2> SUFFICES ASSUME NEW e \in Engine, phase'[e] = "closing", e \notin overdue
               PROVE  closing'[home[e]] = e
    BY DEF DrainingIsTracked
  <2>1. home[e] \in Workspace
    BY DEF IInv, EnginesHaveHomes
  <2>2. CASE phase[e] = "closing"
    <3>1. closing[home[e]] = e
      BY <2>2 DEF IInv, DrainingIsTracked
    <3>2. engines[home[e]] = None
      BY <2>1, <3>1, NoneAssumption DEF IInv, MapsAgree
    <3> QED
      BY <2>1, <3>1, <3>2
  <2>3. CASE phase[e] # "closing"
    <3>1. home[e] \in W /\ engines[home[e]] = e
      BY <2>3
    <3> QED
      BY <2>1, <3>1, NoneAssumption
  <2> QED
    BY <2>2, <2>3
<1> QED
  BY <1>1, <1>2, <1>3, <1>4, <1>5, <1>6

\* An eviction never takes the instance from under a caller.
LEMMA EvictKeepsCallers ==
  ASSUME IInv, NEW W, evict(W),
         \A c \in Caller : pc'[c] \in {"connecting", "running"} => pc'[c] = pc[c] /\ ref'[c] = ref[c]
  PROVE  CallersOnEngines'
<1> SUFFICES ASSUME NEW c \in Caller, pc'[c] \in {"connecting", "running"}
             PROVE  phase'[ref'[c]] \in {"open", "closing"}
  BY DEF CallersOnEngines
<1>1. ref'[c] = ref[c] /\ phase[ref[c]] \in {"open", "closing"} /\ ref[c] # None
  BY DEF IInv, TypeOK, CallersOnEngines
<1>2. ref[c] \in Engine
  BY <1>1 DEF IInv, TypeOK
<1>3. connections(ref[c]) # {}
  BY DEF connections, active, pendingConnects
<1> QED
  BY <1>1, <1>2, <1>3, EvictFacts

LEMMA ShareOrOpenStep ==
  ASSUME IInv, NEW c \in Caller, NEW w \in Workspace \cup {None},
         NEW s \in Settings \cup {None}, shareOrOpen(c, w, s, {w})
  PROVE  IInv'
<1>1. PICK W : evict(W) /\ w \in W
  BY DEF shareOrOpen
<1>2. /\ pending' \in [Workspace -> Settings \cup {None}]
      /\ \A v \in Workspace : pending'[v] # pending[v] => pending[v] = None /\ v \in W
  BY <1>1 DEF shareOrOpen, IInv, TypeOK
<1>3. UNCHANGED <<opening, home, config, overdue>>
  BY DEF shareOrOpen
<1>4. /\ phase' \in [Engine -> Phases]
      /\ engines' \in [Workspace -> Engine \cup {None}]
      /\ closing' \in [Workspace -> Engine \cup {None}]
      /\ (CacheIsLive /\ MapsAgree /\ OpeningIsLive /\ EnginesHaveHomes /\ DrainingIsTracked)'
  BY <1>1, <1>2, <1>3, EvictKeepsMaps
<1>5. /\ pc' = [pc EXCEPT ![c] = "waiting"]
      /\ ref' = [ref EXCEPT ![c] = None]
      /\ want' = [want EXCEPT ![c] = s]
      /\ target' = [target EXCEPT ![c] = w]
  BY DEF shareOrOpen
<1>6. TypeOK'
  BY <1>2, <1>3, <1>4, <1>5 DEF IInv, TypeOK
<1>7. \A d \in Caller : pc'[d] \in {"connecting", "running"} => pc'[d] = pc[d] /\ ref'[d] = ref[d]
  BY <1>5 DEF IInv, TypeOK, CallersOnEngines
<1>8. CallersOnEngines'
  BY <1>1, <1>7, EvictKeepsCallers
<1> QED
  BY <1>4, <1>6, <1>8 DEF IInv

LEMMA EvictStep == ASSUME IInv, NEW w \in Workspace, Evict(w) PROVE IInv'
<1>1. evict({w}) /\ UNCHANGED <<pending, opening, home, config, overdue, pc, ref, want, target>>
  BY DEF Evict
<1>2. pending' \in [Workspace -> Settings \cup {None}]
  BY <1>1 DEF IInv, TypeOK
<1>3. /\ phase' \in [Engine -> Phases]
      /\ engines' \in [Workspace -> Engine \cup {None}]
      /\ closing' \in [Workspace -> Engine \cup {None}]
      /\ (CacheIsLive /\ MapsAgree /\ OpeningIsLive /\ EnginesHaveHomes /\ DrainingIsTracked)'
  BY <1>1, <1>2, EvictKeepsMaps
<1>4. TypeOK'
  BY <1>1, <1>3 DEF IInv, TypeOK
<1>5. CallersOnEngines'
  BY <1>1, EvictKeepsCallers DEF IInv, CallersOnEngines
<1> QED
  BY <1>3, <1>4, <1>5 DEF IInv

\* A fresh engine object takes the place of the closing one.
LEMMA OpenStep ==
  ASSUME IInv, NEW w \in Workspace, NEW e \in Engine, open(w, e),
         overdue' \subseteq Engine,
         \A x \in Engine : x \in overdue => x \in overdue' \/ x = e,
         closing[w] # None => phase[closing[w]] = "released" \/ closing[w] \in overdue'
  PROVE  IInv'
<1> USE DEF open
<1>1. phase[e] = "released" /\ e # None
  BY NoneAssumption DEF Fresh
<1>2. \A v \in Workspace : engines[v] # e /\ opening[v] # e /\ closing[v] # e
  BY <1>1 DEF Fresh, IInv, CacheIsLive, OpeningIsLive
<1>3. TypeOK'
  BY DEF IInv, TypeOK
<1>4. CacheIsLive'
  BY <1>2 DEF IInv, TypeOK, CacheIsLive
<1>5. MapsAgree'
  <2> SUFFICES ASSUME NEW v \in Workspace
               PROVE  /\ pending'[v] # None => engines'[v] = None
                      /\ opening'[v] # None => pending'[v] # None /\ closing'[v] = None
                      /\ engines'[v] # None => closing'[v] = None
                      /\ closing'[v] # None => /\ home'[closing'[v]] = v
                                               /\ phase'[closing'[v]] \in {"closing", "released"}
    BY DEF MapsAgree
  <2>1. CASE v = w
    BY <2>1 DEF IInv, TypeOK, MapsAgree
  <2>2. CASE v # w
    BY <2>2, <1>2 DEF IInv, TypeOK, MapsAgree
  <2> QED
    BY <2>1, <2>2
<1>6. OpeningIsLive'
  <2> SUFFICES ASSUME NEW x \in Engine, NEW v \in Workspace
               PROVE  opening'[v] = x <=> phase'[x] = "opening" /\ home'[x] = v
    BY DEF OpeningIsLive
  <2>1. opening[v] = x <=> phase[x] = "opening" /\ home[x] = v
    BY DEF IInv, OpeningIsLive
  <2>2. x # None
    BY NoneAssumption
  <2>3. CASE x = e
    BY <2>3, <1>2 DEF IInv, TypeOK
  <2>4. CASE x # e
    BY <2>1, <2>2, <2>4 DEF IInv, TypeOK
  <2> QED
    BY <2>3, <2>4
<1>7. EnginesHaveHomes'
  BY DEF IInv, TypeOK, EnginesHaveHomes
<1>8. DrainingIsTracked'
  <2> SUFFICES ASSUME NEW x \in Engine, phase'[x] = "closing", x \notin overdue'
               PROVE  closing'[home'[x]] = x
    BY DEF DrainingIsTracked
  <2>1. x # e /\ phase[x] = "closing" /\ home'[x] = home[x] /\ x \notin overdue
    BY DEF IInv, TypeOK
  <2>2. closing[home[x]] = x /\ home[x] \in Workspace
    BY <2>1 DEF IInv, DrainingIsTracked, EnginesHaveHomes
  <2>3. home[x] # w
    BY <2>1, <2>2, NoneAssumption
  <2> QED
    BY <2>1, <2>2, <2>3 DEF IInv, TypeOK
<1>9. CallersOnEngines'
  BY DEF IInv, TypeOK, CallersOnEngines, Fresh
<1> QED
  BY <1>3, <1>4, <1>5, <1>6, <1>7, <1>8, <1>9 DEF IInv

LEMMA OpenDoneStep == ASSUME IInv, NEW w \in Workspace, OpenDone(w) PROVE IInv'
<1> USE DEF OpenDone, settle
<1> DEFINE e == opening[w]
<1>1. e \in Engine /\ phase[e] = "opening" /\ home[e] = w /\ closing[w] = None /\ engines[w] = None
  BY DEF IInv, TypeOK, OpeningIsLive, MapsAgree
<1>2. e # None
  BY <1>1, NoneAssumption
<1>3. \A c \in Caller : c \in Waiting(w) => pc[c] = "waiting"
  BY DEF Waiting
<1> HIDE DEF e
<1>a. /\ phase' = [phase EXCEPT ![e] = "open"]
      /\ engines' = [engines EXCEPT ![w] = e]
      /\ pending' = [pending EXCEPT ![w] = None]
      /\ opening' = [opening EXCEPT ![w] = None]
      /\ pc' = [c \in Caller |-> IF c \in Waiting(w) THEN "holding" ELSE pc[c]]
      /\ ref' = [c \in Caller |-> IF c \in Waiting(w) THEN e ELSE ref[c]]
  BY <1>2 DEF e
<1>4. TypeOK'
  BY <1>1, <1>a DEF IInv, TypeOK
<1>5. CacheIsLive'
  <2> SUFFICES ASSUME NEW x \in Engine, NEW v \in Workspace
               PROVE  engines'[v] = x <=> phase'[x] = "open" /\ home'[x] = v
    BY DEF CacheIsLive
  <2>1. /\ engines[v] = x <=> phase[x] = "open" /\ home[x] = v
        /\ x # None
    BY NoneAssumption DEF IInv, CacheIsLive
  <2>2. CASE x = e
    BY <1>1, <1>a, <2>1, <2>2 DEF IInv, TypeOK
  <2>3. CASE x # e
    BY <1>1, <1>a, <2>1, <2>3 DEF IInv, TypeOK
  <2> QED
    BY <2>2, <2>3
<1>6. MapsAgree'
  <2> SUFFICES ASSUME NEW v \in Workspace
               PROVE  /\ pending'[v] # None => engines'[v] = None
                      /\ opening'[v] # None => pending'[v] # None /\ closing'[v] = None
                      /\ engines'[v] # None => closing'[v] = None
                      /\ closing'[v] # None => /\ home'[closing'[v]] = v
                                               /\ phase'[closing'[v]] \in {"closing", "released"}
    BY DEF MapsAgree
  <2>1. UNCHANGED <<closing, home>>
    OBVIOUS
  <2>2. CASE v = w
    BY <1>1, <1>a, <2>1, <2>2 DEF IInv, TypeOK
  <2>3. CASE v # w
    <3>1. closing[v] # e
      BY <1>1, <2>3, <1>2 DEF IInv, MapsAgree
    <3> QED
      BY <1>1, <1>a, <2>1, <2>3, <3>1 DEF IInv, TypeOK, MapsAgree
  <2> QED
    BY <2>2, <2>3
<1>7. OpeningIsLive'
  <2> SUFFICES ASSUME NEW x \in Engine, NEW v \in Workspace
               PROVE  opening'[v] = x <=> phase'[x] = "opening" /\ home'[x] = v
    BY DEF OpeningIsLive
  <2>1. /\ opening[v] = x <=> phase[x] = "opening" /\ home[x] = v
        /\ opening[w] = e /\ x # None
    BY NoneAssumption DEF IInv, OpeningIsLive, e
  <2>2. CASE v = w
    BY <1>1, <1>a, <2>1, <2>2 DEF IInv, TypeOK
  <2>3. CASE v # w
    BY <1>1, <1>a, <2>1, <2>3 DEF IInv, TypeOK
  <2> QED
    BY <2>2, <2>3
<1>8. EnginesHaveHomes' /\ DrainingIsTracked'
  BY <1>1, <1>a DEF IInv, TypeOK, EnginesHaveHomes, DrainingIsTracked
<1>9. CallersOnEngines'
  BY <1>1, <1>2, <1>3, <1>a DEF IInv, TypeOK, CallersOnEngines
<1> QED
  BY <1>4, <1>5, <1>6, <1>7, <1>8, <1>9 DEF IInv

LEMMA OpenFailStep ==
  ASSUME IInv, NEW w \in Workspace, NEW where, OpenFail(w, where) PROVE IInv'
<1> DEFINE e == opening[w]
<1>1. e \in Engine /\ phase[e] = "opening" /\ home[e] = w /\ closing[w] = None /\ engines[w] = None
  BY DEF OpenFail, IInv, TypeOK, OpeningIsLive, MapsAgree
<1>2. \A c \in Caller : c \in Waiting(w) => pc[c] = "waiting"
  BY DEF Waiting
<1> HIDE DEF e
<1>3. PICK p \in {"leaked", "released"} : phase' = [phase EXCEPT ![e] = p]
  BY DEF OpenFail, e
<1>a. /\ pending' = [pending EXCEPT ![w] = None]
      /\ opening' = [opening EXCEPT ![w] = None]
      /\ pc' = [c \in Caller |-> IF c \in Waiting(w) THEN "idle" ELSE pc[c]]
      /\ ref' = [c \in Caller |-> IF c \in Waiting(w) THEN None ELSE ref[c]]
      /\ UNCHANGED <<engines, closing, home, config, overdue>>
  BY DEF OpenFail, settle
<1>4. TypeOK'
  BY <1>1, <1>3, <1>a DEF IInv, TypeOK, OpenFail, settle
<1>5. CacheIsLive'
  BY <1>1, <1>3, <1>a DEF IInv, TypeOK, CacheIsLive
<1>6. MapsAgree'
  BY <1>1, <1>3, <1>a DEF IInv, TypeOK, MapsAgree
<1>7. OpeningIsLive'
  BY <1>1, <1>3, <1>a, NoneAssumption DEF IInv, TypeOK, OpeningIsLive
<1>8. EnginesHaveHomes' /\ DrainingIsTracked'
  BY <1>1, <1>3, <1>a DEF IInv, TypeOK, EnginesHaveHomes, DrainingIsTracked
<1>9. CallersOnEngines'
  BY <1>1, <1>2, <1>3, <1>a DEF IInv, TypeOK, CallersOnEngines
<1> QED
  BY <1>4, <1>5, <1>6, <1>7, <1>8, <1>9 DEF IInv

\* An engine that lets go without having been in a map: the leaked, or the
\* drained one.
LEMMA ReleaseStep ==
  ASSUME IInv, NEW e \in Engine, phase[e] \in {"leaked", "closing"},
         phase' = [phase EXCEPT ![e] = "released"],
         UNCHANGED <<engines, pending, opening, closing, home, overdue>>,
         config' \in [Engine -> Settings \cup {None}]
  PROVE  /\ phase' \in [Engine -> Phases]
         /\ (CacheIsLive /\ MapsAgree /\ OpeningIsLive /\ EnginesHaveHomes /\ DrainingIsTracked)'
<1>1. phase' \in [Engine -> Phases]
  BY DEF IInv, TypeOK
<1>2. CacheIsLive' /\ OpeningIsLive' /\ EnginesHaveHomes' /\ DrainingIsTracked'
  BY DEF IInv, TypeOK, CacheIsLive, OpeningIsLive, EnginesHaveHomes, DrainingIsTracked
<1>3. MapsAgree'
  BY DEF IInv, TypeOK, MapsAgree
<1> QED
  BY <1>1, <1>2, <1>3

LEMMA FinaliseStep == ASSUME IInv, NEW e \in Engine, Finalise(e) PROVE IInv'
<1>1. /\ phase[e] \in {"leaked", "closing"}
      /\ phase' = [phase EXCEPT ![e] = "released"]
      /\ UNCHANGED <<engines, pending, opening, closing, home, config, overdue, pc, ref, want, target>>
      /\ \A c \in Caller : ref[c] # e
  BY DEF Finalise
<1>2. /\ phase' \in [Engine -> Phases]
      /\ (CacheIsLive /\ MapsAgree /\ OpeningIsLive /\ EnginesHaveHomes /\ DrainingIsTracked)'
  BY <1>1, ReleaseStep DEF IInv, TypeOK
<1>3. TypeOK' /\ CallersOnEngines'
  BY <1>1, <1>2 DEF IInv, TypeOK, CallersOnEngines
<1> QED
  BY <1>2, <1>3 DEF IInv

\* A caller leaves its engine: the instance goes only with the last of them.
LEMMA LeaveStep ==
  ASSUME IInv, NEW c \in Caller, pc[c] \in {"connecting", "running"}, leave(c),
         UNCHANGED <<engines, pending, opening, closing, home, overdue>>,
         config' \in [Engine -> Settings \cup {None}],
         NEW p \in {"idle", "retry", "holding"}, pc' = [pc EXCEPT ![c] = p],
         NEW r \in Engine \cup {None}, ref' = [ref EXCEPT ![c] = r],
         p = "holding" => r # None
  PROVE  /\ phase' \in [Engine -> Phases]
         /\ (CacheIsLive /\ MapsAgree /\ OpeningIsLive /\ EnginesHaveHomes
               /\ DrainingIsTracked /\ CallersOnEngines)'
<1>1. ref[c] \in Engine
  BY DEF IInv, TypeOK, CallersOnEngines
<1>2. CASE UNCHANGED phase
  <2>1. CallersOnEngines'
    BY <1>2 DEF IInv, TypeOK, CallersOnEngines
  <2> QED
    BY <1>2, <2>1 DEF IInv, TypeOK, CacheIsLive, MapsAgree, OpeningIsLive, EnginesHaveHomes, DrainingIsTracked
<1>3. CASE /\ phase[ref[c]] = "closing" /\ connections(ref[c]) = {c}
           /\ phase' = [phase EXCEPT ![ref[c]] = "released"]
  <2>1. \A d \in Caller : d # c /\ pc[d] \in {"connecting", "running"} => ref[d] # ref[c]
    BY <1>3 DEF connections, active, pendingConnects
  <2>2. CallersOnEngines'
    BY <1>1, <1>3, <2>1 DEF IInv, TypeOK, CallersOnEngines
  <2> QED
    BY <1>1, <1>3, <2>2, ReleaseStep
<1> QED
  BY <1>2, <1>3 DEF leave

LEMMA CallerStep ==
  ASSUME IInv, NEW c \in Caller,
         Connected(c) \/ Finish(c) \/ Fail(c)
  PROVE  IInv'
<1> USE DEF Connected, Finish, Fail, fail
<1>1. CASE Connected(c) /\ phase[ref[c]] = "open"
  <2>1. /\ pc[c] = "connecting" /\ pc' = [pc EXCEPT ![c] = "running"]
        /\ UNCHANGED <<phase, ref, want, target, engines, pending, opening, closing, home, config, overdue>>
    BY <1>1
  <2>2. TypeOK' /\ CallersOnEngines'
    BY <1>1, <2>1 DEF IInv, TypeOK, CallersOnEngines
  <2> QED
    BY <2>1, <2>2 DEF IInv, CacheIsLive, MapsAgree, OpeningIsLive, EnginesHaveHomes, DrainingIsTracked
<1>2. CASE ~(Connected(c) /\ phase[ref[c]] = "open")
  <2>1. /\ pc[c] \in {"connecting", "running"} /\ leave(c)
        /\ UNCHANGED <<engines, pending, opening, closing, home, overdue>>
    BY <1>2
  <2>2. config' \in [Engine -> Settings \cup {None}]
    BY <1>2 DEF IInv, TypeOK
  <2>3. PICK p \in {"idle", "retry", "holding"}, r \in Engine \cup {None} :
          /\ pc' = [pc EXCEPT ![c] = p] /\ ref' = [ref EXCEPT ![c] = r]
          /\ p = "holding" => r # None
    <3>1. CASE Finish(c)
      <4>1. ref[c] \in Engine \cup {None} /\ ref[c] # None
        BY <3>1 DEF IInv, TypeOK, CallersOnEngines
      <4>2. pc' = [pc EXCEPT ![c] = "holding"] /\ ref' = [ref EXCEPT ![c] = ref[c]]
        BY <3>1 DEF IInv, TypeOK
      <4> QED
        BY <4>1, <4>2
    <3>2. CASE ~Finish(c)
      <4>1. fail(c)
        BY <1>2, <3>2
      <4> QED
        BY <4>1
    <3> QED
      BY <3>1, <3>2
  <2>4. /\ phase' \in [Engine -> Phases]
        /\ (CacheIsLive /\ MapsAgree /\ OpeningIsLive /\ EnginesHaveHomes
              /\ DrainingIsTracked /\ CallersOnEngines)'
    BY <2>1, <2>2, <2>3, LeaveStep
  <2>5. want' \in [Caller -> Settings \cup {None}] /\ target' \in [Caller -> Workspace \cup {None}]
    BY <1>2 DEF IInv, TypeOK
  <2>6. TypeOK'
    BY <2>1, <2>2, <2>3, <2>4, <2>5 DEF IInv, TypeOK
  <2> QED
    BY <2>4, <2>6 DEF IInv
<1> QED
  BY <1>1, <1>2

\* Steps of a caller that leave the manager and the engines alone.
LEMMA QuietStep ==
  ASSUME IInv, NEW c \in Caller,
         \/ \E w \in Workspace, s \in Settings : GetHit(c, w, s) \/ GetHotApply(c, w, s)
         \/ Connect(c) \/ ConnectClosed(c) \/ ConnectReject(c) \/ Done(c)
  PROVE  IInv'
<1>1. UNCHANGED poolVars
  BY DEF GetHit, GetHotApply, Connect, ConnectClosed, ConnectReject, Done
<1>2. TypeOK'
  BY DEF IInv, TypeOK, poolVars, GetHit, GetHotApply, Connect, ConnectClosed, ConnectReject, Done, fail
<1>3. CallersOnEngines'
  BY DEF IInv, TypeOK, CallersOnEngines, CacheIsLive, poolVars, GetHit, GetHotApply, Connect, ConnectClosed, ConnectReject, Done, fail
<1> QED
  BY <1>1, <1>2, <1>3
     DEF poolVars, IInv, CacheIsLive, MapsAgree, OpeningIsLive, EnginesHaveHomes, DrainingIsTracked

-----------------------------------------------------------------------------
LEMMA InitIInv == Init => IInv
BY NoneAssumption
   DEF Init, IInv, TypeOK, CacheIsLive, MapsAgree, OpeningIsLive, EnginesHaveHomes, DrainingIsTracked, CallersOnEngines

LEMMA NextIInv == IInv /\ [Next]_vars => IInv'
<1> SUFFICES ASSUME IInv, [Next]_vars PROVE IInv'
  OBVIOUS
<1>1. ASSUME NEW w \in Workspace, NEW e \in Engine, StartOpen(w, e) PROVE IInv'
  <2>1. /\ open(w, e) /\ overdue' \subseteq Engine
        /\ \A x \in Engine : x \in overdue => x \in overdue' \/ x = e
        /\ closing[w] # None => phase[closing[w]] = "released"
    BY <1>1 DEF StartOpen, IInv, TypeOK
  <2> QED
    BY <2>1, OpenStep
<1>2. ASSUME NEW w \in Workspace, NEW e \in Engine, StartOpenLate(w, e) PROVE IInv'
  <2>1. open(w, e) /\ closing[w] # e /\ closing[w] \in Engine
    BY <1>2 DEF StartOpenLate, open, Fresh, IInv, TypeOK
  <2>2. overdue' \subseteq Engine
    BY <1>2, <2>1 DEF StartOpenLate, IInv, TypeOK
  <2>3. /\ \A x \in Engine : x \in overdue => x \in overdue' \/ x = e
        /\ closing[w] \in overdue'
    BY <1>2, <2>1 DEF StartOpenLate
  <2> QED
    BY <2>1, <2>2, <2>3, OpenStep
<1>3. ASSUME NEW w \in Workspace, OpenDone(w) PROVE IInv'
  BY <1>3, OpenDoneStep
<1>4. ASSUME NEW w \in Workspace, NEW where, OpenFail(w, where) PROVE IInv'
  BY <1>4, OpenFailStep
<1>5. ASSUME NEW w \in Workspace, Evict(w) \/ Sweep(w) PROVE IInv'
  BY <1>5, EvictStep DEF Sweep
<1>6. ASSUME NEW c \in Caller, NEW w \in Workspace, NEW s \in Settings, GetMiss(c, w, s) PROVE IInv'
  BY <1>6, ShareOrOpenStep DEF GetMiss
<1>7. ASSUME NEW c \in Caller, GetRetry(c) PROVE IInv'
  BY <1>7, ShareOrOpenStep DEF GetRetry, IInv, TypeOK
<1>8. ASSUME NEW c \in Caller,
             \/ \E w \in Workspace, s \in Settings : GetHit(c, w, s) \/ GetHotApply(c, w, s)
             \/ Connect(c) \/ ConnectClosed(c) \/ ConnectReject(c) \/ Done(c)
      PROVE  IInv'
  BY <1>8, QuietStep
<1>9. ASSUME NEW c \in Caller, Connected(c) \/ Finish(c) \/ Fail(c) PROVE IInv'
  BY <1>9, CallerStep
<1>10. ASSUME NEW e \in Engine, Finalise(e) PROVE IInv'
  BY <1>10, FinaliseStep
<1>11. CASE UNCHANGED vars
  BY <1>11 DEF vars, IInv, TypeOK, CacheIsLive, MapsAgree, OpeningIsLive, EnginesHaveHomes, DrainingIsTracked, CallersOnEngines
<1> QED
  BY <1>1, <1>2, <1>3, <1>4, <1>5, <1>6, <1>7, <1>8, <1>9, <1>10, <1>11 DEF Next, Manage, Get, Use

LEMMA SpecIInv == Spec => []IInv
BY InitIInv, NextIInv, PTL DEF Spec

\* Every variable keeps its type.
THEOREM TypeCorrect == Spec => []TypeOK
<1>1. IInv => TypeOK
  BY DEF IInv
<1> QED
  BY <1>1, SpecIInv, PTL

\* releaseInstanceIfIdle never closes an instance under a connection or a
\* connect in flight.
THEOREM NeverClosedUnderConnection == Spec => []NoCloseUnderConnection
BY SpecIInv, IInvImpliesNoCloseUnderConnection, PTL

\* get, evict and the drain wait keep two engines of a workspace apart, but
\* for the instances whose wait ran out and those a failed set-up leaks.
THEOREM OneInstanceAtATime == Spec => []SingleInstance
BY SpecIInv, IInvImpliesSingleInstance, PTL

\* released() waits for every engine that still drains.
THEOREM DrainsAreTracked == Spec => []DrainingIsTracked
<1>1. IInv => DrainingIsTracked
  BY DEF IInv
<1> QED
  BY <1>1, SpecIInv, PTL

\* get() hands out the one engine of a workspace that accepts work, whatever
\* restarts, evictions and failed opens come in between.
THEOREM CacheHoldsTheLiveEngines == Spec => []CacheIsLive
<1>1. IInv => CacheIsLive
  BY DEF IInv
<1> QED
  BY <1>1, SpecIInv, PTL

-----------------------------------------------------------------------------
\* Only Connected takes a caller into "running".
LEMMA StartsWhenConnected ==
  ASSUME IInv, [Next]_vars, NEW c \in Caller, pc'[c] = "running", pc[c] # "running"
  PROVE  Connected(c)
<1>1. pc \in [Caller -> Places]
  BY DEF IInv, TypeOK
<1>2. ASSUME NEW w \in Workspace, Manage(w) PROVE FALSE
  <2>1. ASSUME NEW e \in Engine, StartOpen(w, e) \/ StartOpenLate(w, e) PROVE UNCHANGED pc
    BY <2>1 DEF StartOpen, StartOpenLate, open
  <2>2. ASSUME Evict(w) \/ Sweep(w) PROVE UNCHANGED pc
    BY <2>2 DEF Evict, Sweep
  <2>3. ASSUME NEW e, settle(w, e) PROVE pc'[c] \in {pc[c], "idle", "holding"}
    BY <2>3 DEF settle
  <2> QED
    BY <1>2, <2>1, <2>2, <2>3 DEF Manage, OpenDone, OpenFail
<1>3. ASSUME NEW d \in Caller, Get(d) PROVE FALSE
  <2>1. PICK p \in {"holding", "connecting", "waiting"} : pc' = [pc EXCEPT ![d] = p]
    BY <1>3 DEF Get, GetHit, GetHotApply, GetMiss, GetRetry, shareOrOpen
  <2> QED
    BY <1>1, <2>1
<1>4. ASSUME NEW d \in Caller, Use(d), ~Connected(d) PROVE FALSE
  <2>1. PICK p \in {"holding", "connecting", "idle", "retry"} : pc' = [pc EXCEPT ![d] = p]
    BY <1>4 DEF Use, Connect, ConnectClosed, ConnectReject, Finish, Fail, Done, fail
  <2> QED
    BY <1>1, <2>1
<1>5. ASSUME NEW d \in Caller, Connected(d), d # c PROVE FALSE
  <2>1. PICK p \in Places : pc' = [pc EXCEPT ![d] = p]
    BY <1>5 DEF Connected, fail
  <2> QED
    BY <1>1, <1>5, <2>1
<1>6. ~ UNCHANGED pc
  OBVIOUS
<1> QED
  BY <1>2, <1>3, <1>4, <1>5, <1>6 DEF Next, Finalise, vars

\* withConnection looks again after connect(): no work begins on an engine
\* that was closed while the connection was being made.
THEOREM ClosedEnginesStartNothing == Spec => NoWorkAfterClose
<1>1. IInv /\ [Next]_vars =>
        [\A c \in Caller : pc'[c] = "running" /\ pc[c] # "running" => phase'[ref'[c]] = "open"]_vars
  <2> SUFFICES ASSUME IInv, [Next]_vars, NEW c \in Caller, pc'[c] = "running", pc[c] # "running"
               PROVE  phase'[ref'[c]] = "open"
    OBVIOUS
  <2>1. Connected(c) /\ pc \in [Caller -> Places]
    BY StartsWhenConnected DEF IInv, TypeOK
  <2>2. phase[ref[c]] = "open"
    BY <2>1 DEF Connected, fail
  <2> QED
    BY <2>1, <2>2 DEF Connected
<1> QED
  BY <1>1, SpecIInv, PTL DEF Spec, NoWorkAfterClose
=============================================================================
