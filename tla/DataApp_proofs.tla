---------------------------- MODULE DataApp_proofs ----------------------------
(***************************************************************************)
(* Safety of DataApp for any number of starts and processes, any limit of       *)
(* restarts and any world.  IInv is the inductive invariant: Attended alone      *)
(* does not say what a start that is still launching will find.                *)
(***************************************************************************)
EXTENDS DataApp, TLAPS

Places == {"idle", "row", "owner", "get", "room", "find", "launch", "health", "fail", "up"}
Calls == [pc : Places, asOwner : BOOLEAN, alwaysOn : BOOLEAN, inst : {"none", "up", "exited"},
          token : BOOLEAN, stopping : {"no", "told", "awaited"}, twin : BOOLEAN]
Series == [count : 0 .. MaxRestarts, timer : BOOLEAN]

\* What is true of a start and its process p at each place, given whether p is
\* the registered one.
Fits(p, registered) ==
  /\ p.pc \in {"row", "owner", "get", "room", "find"}
       => p.stopping = "no" /\ p.inst = "none" /\ ~p.token /\ ~p.twin
  /\ p.pc = "launch"
       => /\ p.inst = "none" /\ p.stopping # "awaited"
          /\ p.stopping = "no" => registered \/ p.twin
  /\ p.pc \in {"idle", "health", "up"} /\ (p.inst = "up" \/ p.token)
       => registered \/ p.stopping = "awaited" \/ p.twin
  /\ registered
       => p.stopping = "no" /\ (p.pc = "launch" \/ (p.pc \in {"health", "up"} /\ p.inst = "up"))

CallsFit == \A c \in Call : Fits(call[c], procs = c)

\* Nothing is on its way to an app that rests, and nothing is due.
RestsAlone == resting => quiet /\ procs = None /\ ~restarts.timer

IInv == TypeOK /\ CallsFit /\ RestsAlone

USE AppAssumption DEF AppAssumption

-----------------------------------------------------------------------------
LEMMA TypeFacts ==
  ASSUME TypeOK
  PROVE  /\ call \in [Call -> Calls] /\ restarts \in Series /\ procs \in Call \cup {None}
         /\ app \in [alwaysOn : BOOLEAN] \cup {None} /\ world \in Worlds
         /\ removing \in Call \cup {"no", "delete"} /\ resting \in BOOLEAN
BY DEF TypeOK, Calls, Places, Series

LEMMA TypeIntro ==
  ASSUME (call \in [Call -> Calls])', (restarts \in Series)', (procs \in Call \cup {None})',
         (app \in [alwaysOn : BOOLEAN] \cup {None})', (world \in Worlds)',
         (removing \in Call \cup {"no", "delete"})', (resting \in BOOLEAN)'
  PROVE  TypeOK'
BY DEF TypeOK, Calls, Places, Series

LEMMA NoCallFits == NoCall \in Calls /\ Fits(NoCall, FALSE)
BY DEF NoCall, Calls, Places, Fits

\* A record that settles is one that nothing refers to.
LEMMA SettledFits ==
  ASSUME NEW p \in Calls, NEW r \in BOOLEAN, Fits(p, r)
  PROVE  settled(p) \in Calls /\ Fits(settled(p), r)
<1>1. CASE p.pc \in {"idle", "up"} /\ p.inst # "up" /\ ~p.token /\ p.stopping # "awaited"
  <2>1. ~r
    BY <1>1 DEF Fits
  <2> QED
    BY <1>1, <2>1, NoCallFits DEF settled
<1>2. CASE ~(p.pc \in {"idle", "up"} /\ p.inst # "up" /\ ~p.token /\ p.stopping # "awaited")
  BY <1>2 DEF settled
<1> QED
  BY <1>1, <1>2

\* A step that replaces the record of c and leaves the others registered or not.
LEMMA PutFits ==
  ASSUME IInv, NEW c \in Call, NEW p \in Calls, put(c, p),
         Fits(p, procs' = c), \A d \in Call \ {c} : (procs' = d) = (procs = d)
  PROVE  /\ CallsFit' /\ call' \in [Call -> Calls]
         /\ \A d \in Call \ {c} : call'[d] = call[d]
         /\ call'[c].pc \in {p.pc, "idle"}
<1>1. call \in [Call -> Calls]
  BY TypeFacts DEF IInv
<1>2. settled(p) \in Calls /\ Fits(settled(p), procs' = c)
  BY SettledFits
<1>3. call' \in [Call -> Calls] /\ call'[c] = settled(p) /\ \A d \in Call \ {c} : call'[d] = call[d]
  BY <1>1, <1>2 DEF put
<1>4. \A d \in Call : Fits(call'[d], procs' = d)
  <2> TAKE d \in Call
  <2>1. CASE d = c
    BY <2>1, <1>2, <1>3
  <2>2. CASE d # c
    BY <2>2, <1>3 DEF IInv, CallsFit
  <2> QED
    BY <2>1, <2>2
<1>5. settled(p).pc \in {p.pc, "idle"}
  BY DEF settled, NoCall
<1> QED
  BY <1>3, <1>4, <1>5 DEF CallsFit

LEMMA ScheduledType == \A r \in Series : scheduled(r) \in Series
BY DEF scheduled, Series

LEMMA InitIInv == Init => IInv
<1> SUFFICES ASSUME Init PROVE IInv
  OBVIOUS
<1>1. call \in [Call -> Calls] /\ \A c \in Call : call[c] = NoCall
  BY NoCallFits DEF Init
<1>2. TypeOK
  BY <1>1 DEF Init, TypeOK, Calls, Places, NoRestarts
<1>3. CallsFit
  BY <1>1, NoCallFits DEF Init, CallsFit
<1>4. RestsAlone
  BY <1>1 DEF Init, RestsAlone, quiet, OnItsWay, NoCall, NoRestarts
<1> QED
  BY <1>2, <1>3, <1>4 DEF IInv

-----------------------------------------------------------------------------
\* A step of a start that is on its way.
LEMMA BusyStep ==
  ASSUME IInv, NEW c \in Call, OnItsWay(c), NEW p \in Calls, put(c, p), Fits(p, procs' = c),
         procs' \in Call \cup {None}, \A d \in Call \ {c} : (procs' = d) = (procs = d),
         restarts' \in Series, removing' = removing, resting' = resting, app' = app, world' = world
  PROVE  IInv'
<1>1. CallsFit' /\ call' \in [Call -> Calls]
  BY PutFits
<1>2. TypeOK'
  BY <1>1, TypeFacts, TypeIntro DEF IInv
<1>3. RestsAlone'
  BY DEF IInv, RestsAlone, quiet
<1> QED
  BY <1>1, <1>2, <1>3 DEF IInv

\* goto() of a start that has not registered, and of one that stays registered.
LEMMA EarlyStep ==
  ASSUME IInv, NEW c \in Call, call[c].pc \in {"row", "owner", "get", "room", "find"},
         NEW p \in Calls, put(c, p), p.pc \in {"idle", "row", "owner", "get", "room", "find"},
         p.stopping = call[c].stopping, p.inst = "none", ~p.token, ~p.twin,
         procs' = procs, restarts' \in Series, removing' = removing, resting' = resting,
         app' = app, world' = world
  PROVE  IInv'
<1>1. Fits(call[c], procs = c)
  BY DEF IInv, CallsFit
<1>2. Fits(p, procs' = c)
  BY <1>1 DEF Fits
<1> QED
  BY <1>2, BusyStep, TypeFacts DEF OnItsWay, IInv

LEMMA EarlySteps ==
  ASSUME IInv, NEW c \in Call,
         OwnerReads(c) \/ OwnerStarts(c) \/ Get(c) \/ Refused(c) \/ RoomMade(c)
  PROVE  IInv'
<1>1. call \in [Call -> Calls] /\ restarts \in Series /\ Fits(call[c], procs = c)
      /\ app \in [alwaysOn : BOOLEAN] \cup {None}
  BY TypeFacts DEF IInv, CallsFit
<1> DEFINE thrown == [NoCall EXCEPT !.stopping = call[c].stopping]
<1>2. thrown \in Calls /\ thrown.pc = "idle" /\ thrown.stopping = call[c].stopping
      /\ thrown.inst = "none" /\ ~thrown.token /\ ~thrown.twin
  BY <1>1 DEF NoCall, Calls, Places
<1>3. ASSUME call[c].pc \in {"row", "owner", "get", "room", "find"}, throw(c), procs' = procs,
             removing' = removing, resting' = resting, app' = app, world' = world
      PROVE  IInv'
  <2>1. restarts' \in Series
    BY <1>1, <1>3, ScheduledType DEF throw
  <2>2. put(c, thrown)
    BY <1>3 DEF throw
  <2> HIDE DEF thrown
  <2> QED
    BY <1>2, <1>3, <2>1, <2>2, EarlyStep
<1>4. ASSUME call[c].pc \in {"row", "owner", "get", "room", "find"},
             NEW pc \in {"idle", "owner", "get", "room", "find"}, NEW on \in BOOLEAN,
             put(c, [call[c] EXCEPT !.pc = pc, !.alwaysOn = on]), procs' = procs,
             restarts' = restarts, removing' = removing, resting' = resting, app' = app, world' = world
      PROVE  IInv'
  <2> DEFINE p == [call[c] EXCEPT !.pc = pc, !.alwaysOn = on]
  <2>1. p \in Calls /\ p.pc = pc /\ p.stopping = call[c].stopping /\ p.inst = call[c].inst
        /\ p.token = call[c].token /\ p.twin = call[c].twin
    BY <1>1 DEF Calls, Places
  <2>2. p.inst = "none" /\ ~p.token /\ ~p.twin
    BY <1>1, <1>4, <2>1 DEF Fits
  <2>3. put(c, p)
    BY <1>4
  <2> HIDE DEF p
  <2> QED
    BY <1>1, <1>4, <2>1, <2>2, <2>3, EarlyStep
<1>5. ASSUME NEW pc \in {"idle", "owner", "get", "room", "find"}, goto(c, pc)
      PROVE  put(c, [call[c] EXCEPT !.pc = pc, !.alwaysOn = call[c].alwaysOn])
  <2>1. [call[c] EXCEPT !.pc = pc] = [call[c] EXCEPT !.pc = pc, !.alwaysOn = call[c].alwaysOn]
    BY <1>1 DEF Calls
  <2> QED
    BY <1>5, <2>1 DEF goto
<1>6. call[c].alwaysOn \in BOOLEAN
  BY <1>1 DEF Calls
<1>7. CASE OwnerReads(c)
  BY <1>7, <1>4, <1>5, <1>6 DEF OwnerReads, at
<1>8. CASE OwnerStarts(c)
  BY <1>8, <1>3, <1>4, <1>5, <1>6 DEF OwnerStarts, at
<1>9. CASE Get(c)
  <2>1. app.alwaysOn \in BOOLEAN
    BY <1>1, <1>9 DEF Get
  <2> QED
    BY <1>9, <1>4, <2>1 DEF Get, at
<1>10. CASE Refused(c)
  BY <1>10, <1>3 DEF Refused, at
<1>11. CASE RoomMade(c)
  BY <1>11, <1>4, <1>5, <1>6 DEF RoomMade, at
<1> QED
  BY <1>7, <1>8, <1>9, <1>10, <1>11

-----------------------------------------------------------------------------
LEMMA RegisterStep ==
  ASSUME IInv, NEW c \in Call, Register(c)
  PROVE  IInv'
<1>1. call \in [Call -> Calls] /\ \A d \in Call : Fits(call[d], procs = d)
  BY TypeFacts DEF IInv, CallsFit
<1>2. ASSUME NEW d \in Call \ {c}
      PROVE  /\ call'[d] \in Calls /\ call'[d].pc = call[d].pc /\ call'[d].stopping = call[d].stopping
             /\ call'[d].inst = call[d].inst /\ call'[d].token = call[d].token
             /\ (call[d].twin \/ d = procs) => call'[d].twin
             /\ (call'[d].twin) => (call[d].twin \/ d = procs)
  <2> DEFINE t == call[d].twin \/ d = procs
  <2>1. t \in BOOLEAN
    BY ZenonT(20)
  <2>2. call'[d] = [call[d] EXCEPT !.twin = t]
    BY DEF Register
  <2>3. call[d] \in Calls
    BY <1>1
  <2> HIDE DEF t
  <2>4. /\ call'[d] \in Calls /\ call'[d].pc = call[d].pc /\ call'[d].stopping = call[d].stopping
        /\ call'[d].inst = call[d].inst /\ call'[d].token = call[d].token /\ call'[d].twin = t
    BY <2>1, <2>2, <2>3 DEF Calls
  <2> QED
    BY <2>4, Zenon DEF t
<1>3. Fits(call'[c], procs' = c)
  <2>1. /\ call'[c].pc = "launch" /\ call'[c].stopping = call[c].stopping
        /\ call'[c].inst = call[c].inst /\ call'[c].twin = call[c].twin
    BY <1>1 DEF Register, Calls
  <2> QED
    BY <1>1, <2>1 DEF Register, at, Fits
<1>4. ASSUME NEW d \in Call \ {c} PROVE Fits(call'[d], procs' = d)
  <2>1. procs' # d /\ Fits(call[d], procs = d)
    BY <1>1 DEF Register
  <2> QED
    BY <1>2, <2>1 DEF Fits
<1>5. CallsFit'
  BY <1>3, <1>4 DEF CallsFit
<1>6. call' \in [Call -> Calls]
  <2>1. call'[c] = [call[c] EXCEPT !.pc = "launch", !.token = TRUE] /\ call[c] \in Calls
    BY <1>1 DEF Register
  <2>2. call'[c] \in Calls
    BY <2>1 DEF Calls, Places
  <2>3. call' = [d \in Call |-> call'[d]]
    BY DEF Register
  <2> QED
    BY <1>2, <2>2, <2>3
<1>7. TypeOK'
  BY <1>6, TypeFacts, TypeIntro DEF IInv, Register
<1>8. RestsAlone'
  BY DEF IInv, RestsAlone, quiet, OnItsWay, Register, at
<1> QED
  BY <1>5, <1>7, <1>8 DEF IInv

LEMMA LaunchSteps ==
  ASSUME IInv, NEW c \in Call, Launch(c) \/ StartFails(c)
  PROVE  IInv'
<1>1. call \in [Call -> Calls] /\ restarts \in Series /\ Fits(call[c], procs = c)
      /\ procs \in Call \cup {None} /\ call[c].inst \in {"none", "up", "exited"}
  BY TypeFacts DEF IInv, CallsFit, Calls
<1>2. OnItsWay(c)
  BY DEF Launch, StartFails, at, OnItsWay
<1>3. ASSUME NEW p \in Calls, p.pc \notin {"idle", "up"}, call' = [call EXCEPT ![c] = p]
      PROVE  put(c, p)
  BY <1>3 DEF put, settled
<1>4. ASSUME NEW inst \in {"none", "up", "exited"}, fails(c, inst), restarts' = restarts,
             removing' = removing, resting' = resting, app' = app, world' = world
      PROVE  IInv'
  <2> DEFINE p == [call[c] EXCEPT !.pc = "fail", !.inst = inst]
  <2>1. p \in Calls /\ p.pc = "fail"
    BY <1>1 DEF Calls, Places
  <2>2. call' = [call EXCEPT ![c] = p]
    BY <1>4 DEF fails
  <2>3. procs' \in Call \cup {None} /\ procs' # c /\ \A d \in Call \ {c} : (procs' = d) = (procs = d)
    BY <1>1, <1>4 DEF fails
  <2> HIDE DEF p
  <2>4. Fits(p, procs' = c)
    BY <2>1, <2>3 DEF Fits
  <2> QED
    BY <1>1, <1>2, <1>3, <1>4, <2>1, <2>2, <2>3, <2>4, BusyStep
<1>5. CASE Launch(c) /\ call[c].stopping = "no"
  <2> DEFINE p == [call[c] EXCEPT !.pc = "health", !.inst = "up"]
  <2>1. p \in Calls /\ p.pc = "health" /\ p.inst = "up" /\ p.stopping = call[c].stopping
        /\ p.twin = call[c].twin
    BY <1>1 DEF Calls, Places
  <2>2. call' = [call EXCEPT ![c] = p]
    BY <1>5 DEF Launch
  <2> HIDE DEF p
  <2>3. Fits(p, procs' = c)
    BY <1>1, <1>5, <2>1 DEF Fits, Launch, at
  <2> QED
    BY <1>1, <1>2, <1>3, <1>5, <2>1, <2>2, <2>3, BusyStep DEF Launch
<1>6. CASE Launch(c) /\ call[c].stopping # "no"
  BY <1>4, <1>6 DEF Launch
<1>7. CASE StartFails(c)
  BY <1>1, <1>4, <1>7 DEF StartFails
<1> QED
  BY <1>5, <1>6, <1>7

LEMMA HealthyStep ==
  ASSUME IInv, NEW c \in Call, Healthy(c)
  PROVE  IInv'
<1>1. call \in [Call -> Calls] /\ Fits(call[c], procs = c)
  BY TypeFacts DEF IInv, CallsFit
<1> DEFINE p == [call[c] EXCEPT !.pc = "up", !.asOwner = FALSE]
<1>2. p \in Calls /\ p.pc = "up" /\ p.inst = call[c].inst /\ p.stopping = call[c].stopping
      /\ p.twin = call[c].twin /\ p.token = call[c].token
  BY <1>1 DEF Calls, Places
<1>3. put(c, p)
  BY DEF Healthy
<1> HIDE DEF p
<1>4. Fits(p, procs' = c)
  BY <1>1, <1>2 DEF Fits, Healthy, at
<1>5. CallsFit' /\ call' \in [Call -> Calls] /\ call'[c].pc \in {"up", "idle"}
      /\ \A d \in Call \ {c} : call'[d] = call[d]
  BY <1>2, <1>3, <1>4, PutFits DEF Healthy
<1>6. TypeOK'
  BY <1>5, TypeFacts, TypeIntro DEF IInv, Healthy
<1>7. RestsAlone'
  <2>1. ~resting
    BY DEF IInv, RestsAlone, quiet, OnItsWay, Healthy, at
  <2> QED
    BY <1>5, <2>1 DEF RestsAlone, Healthy, atRest, quiet, OnItsWay
<1> QED
  BY <1>5, <1>6, <1>7 DEF IInv

LEMMA FailStep ==
  ASSUME IInv, NEW c \in Call, FailThrows(c)
  PROVE  IInv'
<1>1. call \in [Call -> Calls] /\ restarts \in Series /\ Fits(call[c], procs = c)
  BY TypeFacts DEF IInv, CallsFit
<1> DEFINE p == [NoCall EXCEPT !.stopping = call[c].stopping]
<1>2. p \in Calls /\ p.pc = "idle" /\ p.inst = "none" /\ ~p.token
  BY <1>1 DEF NoCall, Calls, Places
<1>3. put(c, p) /\ restarts' \in Series
  BY <1>1, ScheduledType DEF FailThrows, throw
<1> HIDE DEF p
<1>4. procs # c
  BY <1>1 DEF Fits, FailThrows, at
<1>5. Fits(p, procs' = c)
  BY <1>2, <1>4 DEF Fits, FailThrows
<1> QED
  BY <1>2, <1>3, <1>5, BusyStep, TypeFacts DEF FailThrows, at, OnItsWay, IInv

-----------------------------------------------------------------------------
LEMMA ExitStep ==
  ASSUME IInv, NEW c \in Call, NEW clean \in BOOLEAN, Exit(c, clean)
  PROVE  IInv'
<1>1. call \in [Call -> Calls] /\ restarts \in Series /\ procs \in Call \cup {None}
      /\ Fits(call[c], procs = c) /\ call[c].inst = "up"
  BY TypeFacts DEF IInv, CallsFit, Exit
<1>2. CASE procs = c /\ call[c].stopping = "no"
  <2> DEFINE p == [exited(c) EXCEPT !.token = FALSE]
  <2>1. p \in Calls /\ p.pc = call[c].pc /\ p.inst = "exited" /\ ~p.token
    BY <1>1 DEF exited, Calls
  <2>2. put(c, p) /\ procs' = None
    BY <1>2 DEF Exit, crash
  <2> HIDE DEF p
  <2>3. Fits(p, procs' = c)
    BY <1>1, <1>2, <2>1, <2>2 DEF Fits
  <2>4. CallsFit' /\ call' \in [Call -> Calls] /\ call'[c].pc \in {call[c].pc, "idle"}
        /\ \A d \in Call \ {c} : call'[d] = call[d]
    BY <1>2, <2>1, <2>2, <2>3, PutFits
  <2>5. restarts' \in Series /\ (clean \/ ~call[c].alwaysOn => restarts' = restarts)
    <3>1. PICK r \in {restarts} \cup (IF at(c, "up") THEN {NoRestarts} ELSE {}) :
            restarts' = IF ~clean /\ call[c].alwaysOn THEN scheduled(r) ELSE restarts
      BY <1>2 DEF Exit, crash
    <3>2. r \in Series
      <4>1. r = restarts \/ r = NoRestarts
        <5>1. CASE at(c, "up")
          BY <5>1
        <5>2. CASE ~at(c, "up")
          BY <5>2
        <5> QED
          BY <5>1, <5>2
      <4>2. NoRestarts \in Series
        BY DEF NoRestarts, Series
      <4> QED
        BY <1>1, <4>1, <4>2
    <3> DEFINE again == ~clean /\ call[c].alwaysOn
    <3>3. restarts' = IF again THEN scheduled(r) ELSE restarts
      BY <3>1
    <3>4. again => ~(clean \/ ~call[c].alwaysOn)
      BY ZenonT(20)
    <3> HIDE DEF again
    <3> QED
      BY <1>1, <3>2, <3>3, <3>4, ScheduledType
  <2>6. resting' \in BOOLEAN /\ (resting' => /\ clean \/ ~call[c].alwaysOn
                                            /\ ~OnItsWay(c) /\ atRest(c))
    BY <1>2 DEF Exit
  <2>7. TypeOK'
    BY <2>2, <2>4, <2>5, <2>6, TypeFacts, TypeIntro DEF IInv, Exit
  <2>8. RestsAlone'
    BY <2>2, <2>4, <2>5, <2>6 DEF RestsAlone, quiet, OnItsWay, atRest
  <2> QED
    BY <2>4, <2>7, <2>8 DEF IInv
<1>3. CASE ~(procs = c /\ call[c].stopping = "no")
  <2>1. exited(c) \in Calls /\ exited(c).pc = call[c].pc /\ exited(c).inst = "exited"
        /\ exited(c).token = call[c].token /\ exited(c).stopping = call[c].stopping
        /\ exited(c).twin = call[c].twin
    BY <1>1 DEF exited, Calls
  <2>2. put(c, exited(c)) /\ procs' = procs /\ restarts' = restarts /\ resting' = resting
    BY <1>3 DEF Exit
  <2>3. Fits(exited(c), procs' = c)
    BY <1>1, <1>3, <2>1, <2>2 DEF Fits
  <2>4. CallsFit' /\ call' \in [Call -> Calls] /\ call'[c].pc \in {call[c].pc, "idle"}
        /\ \A d \in Call \ {c} : call'[d] = call[d]
    BY <2>1, <2>2, <2>3, PutFits
  <2>5. TypeOK'
    BY <2>2, <2>4, TypeFacts, TypeIntro DEF IInv, Exit
  <2>6. RestsAlone'
    BY <2>2, <2>4 DEF IInv, RestsAlone, quiet, OnItsWay
  <2> QED
    BY <2>4, <2>5, <2>6 DEF IInv
<1> QED
  BY <1>2, <1>3

LEMMA StoppedStep ==
  ASSUME IInv, NEW c \in Call, Stopped(c)
  PROVE  IInv'
<1>1. call \in [Call -> Calls] /\ Fits(call[c], procs = c) /\ call[c].stopping = "awaited"
  BY TypeFacts DEF IInv, CallsFit, Stopped
<1> DEFINE p == [exited(c) EXCEPT !.token = FALSE, !.stopping = "told"]
<1>2. p \in Calls /\ p.pc = call[c].pc /\ p.inst = "exited" /\ ~p.token /\ p.stopping = "told"
  BY <1>1 DEF exited, Calls
<1>3. put(c, p) /\ procs' = procs
  BY DEF Stopped
<1> HIDE DEF p
<1>4. Fits(p, procs' = c)
  BY <1>1, <1>2, <1>3 DEF Fits
<1>5. CallsFit' /\ call' \in [Call -> Calls] /\ call'[c].pc \in {call[c].pc, "idle"}
      /\ \A d \in Call \ {c} : call'[d] = call[d]
  BY <1>2, <1>3, <1>4, PutFits
<1>6. TypeOK'
  BY <1>5, TypeFacts, TypeIntro DEF IInv, Stopped
<1>7. RestsAlone'
  BY <1>5 DEF IInv, RestsAlone, quiet, OnItsWay, Stopped
<1> QED
  BY <1>5, <1>6, <1>7 DEF IInv

\* stop() leaves every process with a start or a stop that attends to it.
LEMMA TakeFacts ==
  ASSUME IInv, take
  PROVE  /\ CallsFit' /\ call' \in [Call -> Calls]
         /\ \A c \in Call : call'[c].pc = call[c].pc
<1>1. call \in [Call -> Calls] /\ procs \in Call \cup {None} /\ \A c \in Call : Fits(call[c], procs = c)
  BY TypeFacts DEF IInv, CallsFit
<1>2. CASE procs = None
  BY <1>1, <1>2 DEF take, CallsFit
<1>3. CASE procs # None
  <2> DEFINE how == IF call[procs].inst = "none" THEN "told" ELSE "awaited"
             p == [call[procs] EXCEPT !.stopping = how]
  <2>1. procs \in Call /\ call' = [call EXCEPT ![procs] = p] /\ procs' = None
    BY <1>1, <1>3 DEF take, told
  <2>2. p \in Calls /\ p.pc = call[procs].pc /\ p.inst = call[procs].inst /\ p.stopping = how
    BY <1>1, <2>1 DEF Calls
  <2>3. Fits(p, FALSE)
    BY <1>1, <2>1, <2>2 DEF Fits
  <2> HIDE DEF p
  <2>4. \A c \in Call : Fits(call'[c], procs' = c)
    <3> TAKE c \in Call
    <3>1. procs' # c /\ Fits(call[c], procs = c)
      BY <1>1, <2>1
    <3>2. CASE c = procs
      BY <1>1, <2>1, <2>3, <3>1, <3>2
    <3>3. CASE c # procs
      BY <1>1, <2>1, <3>1, <3>3
    <3> QED
      BY <3>2, <3>3
  <2> QED
    BY <1>1, <2>1, <2>2, <2>4 DEF CallsFit
<1> QED
  BY <1>2, <1>3

LEMMA StopSteps ==
  ASSUME IInv, Stop \/ StopForNow \/ Remove
  PROVE  IInv'
<1>1. take /\ procs' = None /\ app' = app /\ world' = world
  BY DEF Stop, StopForNow, Remove, take
<1>2. CallsFit' /\ call' \in [Call -> Calls] /\ \A c \in Call : call'[c].pc = call[c].pc
  BY <1>1, TakeFacts
<1>3. quiet' = quiet
  BY <1>2 DEF quiet, OnItsWay
<1>4. restarts' \in {restarts, NoRestarts} /\ NoRestarts \in Series /\ ~NoRestarts.timer
  BY DEF Stop, StopForNow, Remove, NoRestarts, Series
<1>5. resting' \in BOOLEAN /\ (resting' => resting \/ (quiet /\ restarts' = NoRestarts))
  <2>1. quiet \in BOOLEAN
    BY DEF quiet
  <2>2. CASE Stop
    BY <2>1, <2>2, Zenon DEF Stop
  <2>3. CASE StopForNow \/ Remove
    BY <2>3, TypeFacts DEF StopForNow, Remove, IInv
  <2> QED
    BY <2>2, <2>3
<1>6. removing' \in Call \cup {"no", "delete"}
  BY TypeFacts DEF Stop, StopForNow, Remove, IInv
<1>7. TypeOK'
  BY <1>1, <1>2, <1>4, <1>5, <1>6, TypeFacts, TypeIntro DEF IInv
<1>8. RestsAlone'
  BY <1>1, <1>3, <1>4, <1>5 DEF IInv, RestsAlone
<1> QED
  BY <1>2, <1>7, <1>8 DEF IInv

-----------------------------------------------------------------------------
\* A start on its way while the others, and the registered process, stay.
LEMMA BeginStep ==
  ASSUME IInv, NEW c \in Call, NEW pc \in {"row", "get"}, NEW asOwner \in BOOLEAN, begin(c, pc, asOwner),
         procs' = procs, restarts' \in Series, removing' \in Call \cup {"no", "delete"},
         app' \in [alwaysOn : BOOLEAN] \cup {None}, world' = world
  PROVE  IInv'
<1>1. call \in [Call -> Calls] /\ call[c] = NoCall /\ \A d \in Call : Fits(call[d], procs = d)
  BY TypeFacts DEF IInv, CallsFit, begin
<1> DEFINE p == [NoCall EXCEPT !.pc = pc, !.asOwner = asOwner]
<1>2. p \in Calls /\ Fits(p, FALSE)
  BY DEF NoCall, Calls, Places, Fits
<1>3. call' = [call EXCEPT ![c] = p]
  BY <1>1 DEF begin
<1>4. procs' # c
  BY <1>1 DEF Fits, NoCall
<1> HIDE DEF p
<1>5. \A d \in Call : Fits(call'[d], procs' = d)
  <2> TAKE d \in Call
  <2>1. CASE d = c
    BY <1>1, <1>2, <1>3, <1>4, <2>1
  <2>2. CASE d # c
    BY <1>1, <1>3, <2>2
  <2> QED
    BY <2>1, <2>2
<1>6. call' \in [Call -> Calls] /\ resting' = FALSE
  BY <1>1, <1>2, <1>3 DEF begin
<1>7. TypeOK'
  BY <1>6, TypeFacts, TypeIntro DEF IInv
<1>8. RestsAlone'
  BY <1>6 DEF RestsAlone
<1> QED
  BY <1>5, <1>7, <1>8 DEF IInv, CallsFit

LEMMA BeginSteps ==
  ASSUME IInv, NEW c \in Call, Visit(c) \/ TimerFires(c)
  PROVE  IInv'
<1>1. restarts \in Series /\ removing \in Call \cup {"no", "delete"}
      /\ app \in [alwaysOn : BOOLEAN] \cup {None}
  BY TypeFacts DEF IInv
<1>2. CASE Visit(c)
  BY <1>1, <1>2, BeginStep DEF Visit
<1>3. CASE TimerFires(c)
  <2>1. restarts' \in Series
    BY <1>1, <1>3 DEF TimerFires, Series
  <2> QED
    BY <1>1, <1>3, <2>1, BeginStep DEF TimerFires
<1> QED
  BY <1>2, <1>3

LEMMA SwitchStep ==
  ASSUME IInv, NEW on \in BOOLEAN, SetAlwaysOn(on)
  PROVE  IInv'
<1>1. call \in [Call -> Calls] /\ \A c \in Call : Fits(call[c], procs = c)
      /\ procs \in Call \cup {None} /\ removing \in Call \cup {"no", "delete"}
  BY TypeFacts DEF IInv, CallsFit
<1>2. app' \in [alwaysOn : BOOLEAN] /\ restarts' = NoRestarts /\ NoRestarts \in Series /\ ~NoRestarts.timer
  BY DEF SetAlwaysOn, NoRestarts, Series
<1>3. CASE on /\ procs = None
  <2>1. PICK c \in Call : begin(c, "row", TRUE)
    BY <1>3 DEF SetAlwaysOn
  <2> QED
    BY <1>1, <1>2, <2>1, BeginStep DEF SetAlwaysOn
<1>4. CASE ~(on /\ procs = None)
  <2>1. call' = call \/ (procs \in Call /\ call' = [call EXCEPT ![procs].alwaysOn = on])
    BY <1>1, <1>4 DEF SetAlwaysOn
  <2>2. call' \in [Call -> Calls]
    BY <1>1, <2>1 DEF Calls
  <2>3. \A c \in Call : /\ call'[c].pc = call[c].pc /\ call'[c].inst = call[c].inst
                        /\ call'[c].token = call[c].token /\ call'[c].stopping = call[c].stopping
                        /\ call'[c].twin = call[c].twin
    BY <1>1, <2>1 DEF Calls
  <2>4. procs' = procs /\ resting' = resting
    BY <1>4 DEF SetAlwaysOn
  <2>5. CallsFit'
    BY <1>1, <2>3, <2>4 DEF CallsFit, Fits
  <2>6. TypeOK'
    BY <1>2, <2>2, <2>4, TypeFacts, TypeIntro DEF IInv, SetAlwaysOn
  <2>7. RestsAlone'
    BY <1>2, <2>3, <2>4 DEF IInv, RestsAlone, quiet, OnItsWay
  <2> QED
    BY <2>5, <2>6, <2>7 DEF IInv
<1> QED
  BY <1>3, <1>4

LEMMA DeleteStep == IInv /\ Delete => IInv'
<1> SUFFICES ASSUME IInv, Delete PROVE IInv'
  OBVIOUS
<1>1. TypeOK'
  BY TypeFacts, TypeIntro DEF IInv, Delete
<1>2. CallsFit' /\ RestsAlone'
  BY DEF IInv, Delete, CallsFit, RestsAlone, quiet, OnItsWay
<1> QED
  BY <1>1, <1>2 DEF IInv

LEMMA BootStep == IInv /\ Boot => IInv'
<1> SUFFICES ASSUME IInv, Boot PROVE IInv'
  OBVIOUS
<1> DEFINE p == [NoCall EXCEPT !.pc = "row", !.asOwner = TRUE]
<1>1. p \in Calls /\ Fits(p, FALSE)
  BY DEF NoCall, Calls, Places, Fits
<1>2. procs' = None /\ restarts' = NoRestarts /\ NoRestarts \in Series /\ ~NoRestarts.timer
  BY DEF Boot, NoRestarts, Series
<1>3. resting' \in BOOLEAN /\ call' \in [Call -> {p, NoCall}]
      /\ (resting' => call' = [c \in Call |-> NoCall])
  BY DEF Boot
<1> HIDE DEF p
<1>4. call' \in [Call -> Calls]
  BY <1>1, <1>3, NoCallFits
<1>5. \A c \in Call : Fits(call'[c], procs' = c)
  <2> TAKE c \in Call
  <2>1. procs' # c /\ call'[c] \in {p, NoCall}
    BY <1>2, <1>3
  <2> QED
    BY <1>1, <2>1, NoCallFits
<1>6. TypeOK'
  BY <1>2, <1>3, <1>4, TypeFacts, TypeIntro DEF IInv, Boot
<1>7. RestsAlone'
  BY <1>2, <1>3 DEF RestsAlone, quiet, OnItsWay, NoCall
<1> QED
  BY <1>5, <1>6, <1>7 DEF IInv, CallsFit

LEMMA NextIInv == IInv /\ [Next]_vars => IInv'
<1> SUFFICES ASSUME IInv, [Next]_vars PROVE IInv'
  OBVIOUS
<1>1. ASSUME NEW c \in Call, CallStep(c) PROVE IInv'
  BY <1>1, EarlySteps, RegisterStep, LaunchSteps, HealthyStep, FailStep, StoppedStep DEF CallStep
<1>2. ASSUME NEW c \in Call, Visit(c) \/ TimerFires(c) PROVE IInv'
  BY <1>2, BeginSteps
<1>3. ASSUME NEW c \in Call, NEW clean \in BOOLEAN, Exit(c, clean) PROVE IInv'
  BY <1>3, ExitStep
<1>4. ASSUME Stop \/ StopForNow \/ Remove \/ Delete \/ Boot PROVE IInv'
  BY <1>4, StopSteps, DeleteStep, BootStep
<1>5. ASSUME NEW on \in BOOLEAN, SetAlwaysOn(on) PROVE IInv'
  BY <1>5, SwitchStep
<1>6. CASE UNCHANGED vars
  <2>1. TypeOK'
    BY <1>6, TypeFacts, TypeIntro DEF IInv, vars
  <2>2. CallsFit' /\ RestsAlone'
    BY <1>6 DEF IInv, vars, CallsFit, RestsAlone, quiet, OnItsWay
  <2> QED
    BY <2>1, <2>2 DEF IInv
<1> QED
  BY <1>1, <1>2, <1>3, <1>4, <1>5, <1>6 DEF Next

-----------------------------------------------------------------------------
LEMMA Invariance == Spec => []IInv
BY InitIInv, NextIInv, PTL DEF Spec

\* The start, stop, restart and delete of an app keep its row, its map entry, its
\* processes and its restarts within their types.
THEOREM TypeCorrect == Spec => []TypeOK
<1>1. IInv => TypeOK
  BY DEF IInv
<1> QED
  BY <1>1, Invariance, PTL

\* Whatever starts, stops, crashes and deletions meet, an instance that runs and
\* a token that is good have somebody to end them, twins apart.
THEOREM AllAttended == Spec => []Attended
<1>1. IInv => Attended
  <2> SUFFICES ASSUME IInv, NEW c \in Call, call[c].inst = "up" \/ call[c].token
               PROVE  procs = c \/ OnItsWay(c) \/ call[c].stopping = "awaited" \/ call[c].twin
    BY DEF Attended
  <2>1. Fits(call[c], procs = c)
    BY DEF IInv, CallsFit
  <2> QED
    BY <2>1 DEF Fits, OnItsWay
<1> QED
  BY <1>1, Invariance, PTL

\* A stop with no start on its way, and a clean exit, leave the app down for
\* good, until somebody starts it.
THEOREM StopsStick == Spec => []StopSticks
<1>1. IInv => StopSticks
  BY DEF IInv, RestsAlone, StopSticks
<1> QED
  BY <1>1, Invariance, PTL
=============================================================================
