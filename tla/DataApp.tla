------------------------------- MODULE DataApp -------------------------------
(***************************************************************************)
(* One data app that runs on the server (DataAppService, services/apps.ts):   *)
(* its row, the process registered for it, every start() on its way, the       *)
(* restarts of an always-on app, and those who stop, switch and delete it.      *)
(*                                                                         *)
(* A step is the code from one await to the next.  A start() and the process    *)
(* it makes are one record, since the process has no other maker.  Other apps    *)
(* are seen only in that there is room for this one, that one of them is         *)
(* stopped to make room, or that there is none; and this one may be stopped to    *)
(* make room for them.                                                       *)
(***************************************************************************)
EXTENDS Naturals

CONSTANTS
  Call,        \* start() calls and processes at a time
  MaxRestarts, \* apps.max_restarts
  Worlds,      \* what goes on around the app
  None

World == [visits : BOOLEAN,   \* people start and restart it
          overlaps : BOOLEAN] \* always-on is switched while a start is on its way

ASSUME AppAssumption == MaxRestarts \in Nat /\ Worlds \subseteq World /\ None \notin Call

VARIABLES
  world,    \* the one this is; it does not change
  app,      \* the row's always_on, None once it is deleted
  procs,    \* the process registered for the app
  call,     \* each start() and its process
  restarts, \* consecutive restarts of the always-on app, and whether the timer is set
  removing, \* remove(): "no", the process it waits for, or "delete" before the DELETE
  resting   \* history: stopped or ended by itself with nothing on its way to start it

vars == <<world, app, procs, call, restarts, removing, resting>>

(* asOwner: startAsOwner() called it.  inst and token: Proc's instance and token.   *)
(* stopping: "told", and "awaited" while the stop() that told it waits for the       *)
(* instance.  twin: another start took its place in procs (history).              *)
NoCall == [pc |-> "idle", asOwner |-> FALSE, alwaysOn |-> FALSE, inst |-> "none",
           token |-> FALSE, stopping |-> "no", twin |-> FALSE]
NoRestarts == [count |-> 0, timer |-> FALSE]

at(c, pc) == call[c].pc = pc
OnItsWay(c) == call[c].pc \notin {"idle", "up"}
quiet == \A c \in Call : ~OnItsWay(c)
atRest(c) == procs \in {c, None} /\ ~restarts.timer /\ \A d \in Call \ {c} : ~OnItsWay(d)

Init ==
  /\ world \in Worlds
  /\ app \in [alwaysOn : BOOLEAN]
  /\ procs = None
  /\ call = [c \in Call |-> NoCall]
  /\ restarts = NoRestarts
  /\ removing = "no" /\ resting = TRUE

-----------------------------------------------------------------------------
(* scheduleRestart().                                                        *)
scheduled(r) == IF r.timer \/ r.count >= MaxRestarts THEN r
                ELSE [count |-> r.count + 1, timer |-> TRUE]

(* A record that nothing refers to any more is there for another start().         *)
settled(p) == IF p.pc \in {"idle", "up"} /\ p.inst # "up" /\ ~p.token /\ p.stopping # "awaited"
              THEN NoCall ELSE p

put(c, p) == call' = [call EXCEPT ![c] = settled(p)]
goto(c, pc) == put(c, [call[c] EXCEPT !.pc = pc])

begin(c, pc, asOwner) ==
  /\ call[c] = NoCall
  /\ call' = [call EXCEPT ![c].pc = pc, ![c].asOwner = asOwner]
  /\ resting' = FALSE

(* start() that a visit, a person, an agent or a preview asks for.              *)
Visit(c) ==
  /\ world.visits /\ removing = "no"
  /\ begin(c, "get", FALSE)
  /\ UNCHANGED <<world, app, procs, restarts, removing>>

(* The restart timer calls startAsOwner().                                    *)
TimerFires(c) ==
  /\ restarts.timer
  /\ restarts' = [restarts EXCEPT !.timer = FALSE]
  /\ begin(c, "row", TRUE)
  /\ UNCHANGED <<world, app, procs, removing>>

(* startAsOwner() passes over an app that is gone, not always on, or registered.  *)
OwnerReads(c) ==
  /\ at(c, "row")
  /\ goto(c, IF app # None /\ app.alwaysOn /\ procs = None THEN "owner" ELSE "idle")
  /\ UNCHANGED <<world, app, procs, restarts, removing, resting>>

(* A start() that throws: startAsOwner() asks for another one.                  *)
throw(c) ==
  /\ put(c, [NoCall EXCEPT !.stopping = call[c].stopping])
  /\ restarts' = IF call[c].asOwner THEN scheduled(restarts) ELSE restarts

OwnerStarts(c) ==
  /\ at(c, "owner")
  /\ IF removing = "no" THEN goto(c, "get") /\ UNCHANGED restarts ELSE throw(c)
  /\ UNCHANGED <<world, app, procs, removing, resting>>

-----------------------------------------------------------------------------
(* start(): the row, room for one more, the creator, and then the app is          *)
(* registered, whatever happened since procs was looked at.                     *)
Get(c) ==
  /\ at(c, "get") /\ app # None
  /\ \E pc \in IF procs = None THEN {"room", "find"} ELSE {"idle"} :
       put(c, [call[c] EXCEPT !.pc = pc, !.alwaysOn = app.alwaysOn])
  /\ UNCHANGED <<world, app, procs, restarts, removing, resting>>

(* The app is gone, or there is no room and no idle app to stop.                *)
Refused(c) ==
  /\ at(c, "get") /\ (app = None \/ procs = None)
  /\ throw(c)
  /\ UNCHANGED <<world, app, procs, removing, resting>>

(* makeRoom() has stopped another app.                                        *)
RoomMade(c) ==
  /\ at(c, "room")
  /\ goto(c, IF procs = None THEN "find" ELSE "idle")
  /\ UNCHANGED <<world, app, procs, restarts, removing, resting>>

(* The token and the instance come next; nobody asks for the token before the      *)
(* instance is there, or the start has failed.                                 *)
Register(c) ==
  /\ at(c, "find")
  /\ procs' = c
  /\ call' = [d \in Call |-> IF d = c THEN [call[d] EXCEPT !.pc = "launch", !.token = TRUE]
                             ELSE [call[d] EXCEPT !.twin = @ \/ d = procs]]
  /\ UNCHANGED <<world, app, restarts, removing, resting>>

(* The catch block, up to inst.stop().                                        *)
fails(c, inst) ==
  /\ procs' = IF procs = c THEN None ELSE procs
  /\ call' = [call EXCEPT ![c].pc = "fail", ![c].inst = inst]

Launch(c) ==
  /\ at(c, "launch")
  /\ IF call[c].stopping # "no" THEN fails(c, "up")
     ELSE /\ call' = [call EXCEPT ![c].pc = "health", ![c].inst = "up"]
          /\ UNCHANGED procs
  /\ UNCHANGED <<world, app, restarts, removing, resting>>

(* No token, no instance, none that answers in time, one that has exited, or one  *)
(* that is being stopped.                                                     *)
StartFails(c) ==
  /\ call[c].pc \in {"launch", "health"}
  /\ fails(c, call[c].inst)
  /\ UNCHANGED <<world, app, restarts, removing, resting>>

(* waitHealthy() looks at `stopping` and `exit` before it asks, not after the answer, *)
(* which may be of a process that has been stopped or has exited since.          *)
Healthy(c) ==
  /\ at(c, "health")
  /\ put(c, [call[c] EXCEPT !.pc = "up", !.asOwner = FALSE])
  /\ resting' = (resting \/ (procs = None /\ atRest(c)))
  /\ UNCHANGED <<world, app, procs, restarts, removing>>

(* A failing start that startAsOwner() only logs.                             *)
FailThrows_Logs(c) ==
  /\ at(c, "fail")
  /\ put(c, [NoCall EXCEPT !.stopping = call[c].stopping])
  /\ UNCHANGED <<world, app, procs, restarts, removing, resting>>

(* The rest of the catch block: the instance is stopped and the token revoked,    *)
(* with nobody else looking.                                                  *)
FailThrows(c) ==
  /\ at(c, "fail")
  /\ throw(c)
  /\ UNCHANGED <<world, app, procs, removing, resting>>

-----------------------------------------------------------------------------
exited(c) == [call[c] EXCEPT !.inst = "exited"]

(* A process that ran for ten minutes starts a new series of restarts.           *)
crash(c, clean) ==
  /\ put(c, [exited(c) EXCEPT !.token = FALSE])
  /\ \E r \in {restarts} \cup (IF at(c, "up") THEN {NoRestarts} ELSE {}) :
       restarts' = IF ~clean /\ call[c].alwaysOn THEN scheduled(r) ELSE restarts

(* onExit() that takes every exit for the end of the app.                       *)
Exit_AnyExit(c, clean) ==
  /\ call[c].inst = "up"
  /\ procs' = IF procs = c THEN None ELSE procs
  /\ crash(c, clean)
  /\ UNCHANGED <<world, app, removing, resting>>

(* The process ends by itself, and onExit() sees whether it is the registered one  *)
(* and not being stopped.                                                     *)
Exit(c, clean) ==
  /\ call[c].inst = "up"
  /\ IF procs = c /\ call[c].stopping = "no"
     THEN /\ procs' = None
          /\ crash(c, clean)
          /\ resting' = ((clean \/ ~call[c].alwaysOn) /\ ~OnItsWay(c) /\ atRest(c))
     ELSE put(c, exited(c)) /\ UNCHANGED <<procs, restarts, resting>>
  /\ UNCHANGED <<world, app, removing>>

told(how) == [call EXCEPT ![procs].stopping = how]

(* A stop() that leaves a process alone that is still being launched.            *)
take_Launched ==
  /\ procs' = None
  /\ call' = IF procs = None THEN call
             ELSE IF call[procs].inst = "none" THEN call ELSE told("awaited")

(* stop(), up to its await: a process still being launched is left to start().    *)
take ==
  /\ procs' = None
  /\ call' = IF procs = None THEN call
             ELSE told(IF call[procs].inst = "none" THEN "told" ELSE "awaited")

(* By hand: restarts are cancelled.                                           *)
Stop ==
  /\ take
  /\ restarts' = NoRestarts
  /\ resting' = quiet
  /\ UNCHANGED <<world, app, removing>>

(* For idleness, or to make room for another app; before a restart, also one that  *)
(* is always on.  Restarts stay.                                              *)
StopForNow ==
  /\ procs # None
  /\ (at(procs, "up") /\ ~call[procs].alwaysOn) \/ world.visits
  /\ take
  /\ UNCHANGED <<world, app, restarts, removing, resting>>

(* The instance is gone and the token revoked; a remove() that waited goes on.     *)
Stopped(c) ==
  /\ call[c].stopping = "awaited"
  /\ put(c, [exited(c) EXCEPT !.token = FALSE, !.stopping = "told"])
  /\ removing' = IF removing = c THEN "delete" ELSE removing
  /\ UNCHANGED <<world, app, procs, restarts, resting>>

-----------------------------------------------------------------------------
(* remove(): nothing may start while the process is stopped and the row deleted.   *)
Remove ==
  /\ app # None /\ removing = "no"
  /\ take
  /\ removing' = IF procs # None /\ call[procs].inst # "none" THEN procs ELSE "delete"
  /\ restarts' = NoRestarts
  /\ UNCHANGED <<world, app, resting>>

Delete ==
  /\ removing = "delete"
  /\ app' = None /\ removing' = "no"
  /\ UNCHANGED <<world, procs, call, restarts, resting>>

(* setAlwaysOn(): the row, the process, and a start when there is none.         *)
SetAlwaysOn(on) ==
  /\ app # None /\ (world.overlaps \/ quiet)
  /\ app' = [alwaysOn |-> on]
  /\ restarts' = NoRestarts
  /\ IF on /\ procs = None THEN \E c \in Call : begin(c, "row", TRUE)
     ELSE /\ call' = IF procs = None THEN call ELSE [call EXCEPT ![procs].alwaysOn = on]
          /\ UNCHANGED resting
  /\ UNCHANGED <<world, procs, removing>>

(* The server dies, and its processes with it, or what is left of them is removed   *)
(* by init(); it starts again, and so do the always-on apps.                     *)
Boot ==
  /\ procs' = None /\ restarts' = NoRestarts /\ removing' = "no"
  /\ IF app # None /\ app.alwaysOn
     THEN /\ \E c \in Call : call' = [d \in Call |-> IF d # c THEN NoCall
                                  ELSE [NoCall EXCEPT !.pc = "row", !.asOwner = TRUE]]
          /\ resting' = FALSE
     ELSE call' = [d \in Call |-> NoCall] /\ resting' = TRUE
  /\ UNCHANGED <<world, app>>

CallStep(c) ==
  \/ OwnerReads(c) \/ OwnerStarts(c) \/ Get(c) \/ Refused(c) \/ RoomMade(c) \/ Register(c)
  \/ Launch(c) \/ StartFails(c) \/ Healthy(c) \/ FailThrows(c) \/ Stopped(c)

Next ==
  \/ \E c \in Call : Visit(c) \/ TimerFires(c) \/ CallStep(c) \/ \E clean \in BOOLEAN : Exit(c, clean)
  \/ Stop \/ StopForNow \/ Remove \/ Delete \/ Boot
  \/ \E on \in BOOLEAN : SetAlwaysOn(on)

Spec == Init /\ [][Next]_vars

(* Timers fire and awaits come back.                                          *)
FairSpec ==
  /\ Spec
  /\ WF_vars(Delete) /\ SF_vars(\E c \in Call : TimerFires(c))
  /\ \A c \in Call : WF_vars(CallStep(c))

-----------------------------------------------------------------------------
TypeOK ==
  /\ world \in Worlds /\ app \in [alwaysOn : BOOLEAN] \cup {None}
  /\ procs \in Call \cup {None}
  /\ call \in [Call -> [pc : {"idle", "row", "owner", "get", "room", "find", "launch", "health", "fail", "up"},
                        asOwner : BOOLEAN, alwaysOn : BOOLEAN, inst : {"none", "up", "exited"},
                        token : BOOLEAN, stopping : {"no", "told", "awaited"}, twin : BOOLEAN]]
  /\ restarts \in [count : 0 .. MaxRestarts, timer : BOOLEAN]
  /\ removing \in Call \cup {"no", "delete"} /\ resting \in BOOLEAN

(* "Minted ... on every start and revoked when it stops" (header of apps.ts): an   *)
(* instance that runs and a token that is good belong to the registered process, or  *)
(* to one that a start or a stop is still busy with; a twin is all that gets away.   *)
Attended ==
  \A c \in Call : call[c].inst = "up" \/ call[c].token
    => procs = c \/ OnItsWay(c) \/ call[c].stopping = "awaited" \/ call[c].twin

(* "A manual stop cancels restarts" (apps-runtimes.test.ts): an app that was       *)
(* stopped with no start on its way, or ended cleanly, stays down until somebody     *)
(* starts it, whatever its instance exits with.                                 *)
StopSticks == resting => procs = None /\ ~restarts.timer

leftAlone ==
  /\ ~Stop /\ ~StopForNow /\ ~Remove /\ ~Boot
  /\ \A on \in BOOLEAN : ~SetAlwaysOn(on)

(* "always_on apps start with the server ... and are restarted (with backoff) after  *)
(* a crash" (header of apps.ts): one that was not stopped is up again and again, or   *)
(* its restarts in a row are used up.                                           *)
ComesBack ==
  /\ ~world.visits /\ ~world.overlaps
  /\ <>[](app # None /\ app.alwaysOn /\ ~resting)
  /\ <>[][leftAlone]_vars
  => []<>(procs # None \/ restarts.count = MaxRestarts)

(* "Registered before the (possibly slow) launch so a second visit waits instead of   *)
(* starting a twin."                                                          *)
NoTwin == \A c \in Call : ~call[c].twin

(* "Apps being deleted: nothing may start them meanwhile."                      *)
DeletedIsGone == app = None /\ removing = "no" => procs = None
=============================================================================
