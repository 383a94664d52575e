---------------------------- MODULE AgentTask_proofs ----------------------------
(***************************************************************************)
(* Safety of AgentTask for any number of decisions, cancels, calls and turns,    *)
(* with and without faults and restarts.  Until two decisions race the           *)
(* invariant IInv holds; what they may do from then on, agent_race shows.        *)
(***************************************************************************)
EXTENDS AgentTask, SequenceTheorems, TLAPS

Positions ==
  [pc : {"idle", "insert", "inserted", "begin", "turn", "thinking", "tool", "finishing",
         "decide", "decided", "cancel"},
   obj : Nat, turn : 0 .. MaxTurns, change : Change \cup {0}, approved : BOOLEAN,
   read : Task, decision : {"none", "approved", "denied"}]

\* Where the three kinds of flow can be.
PlacesFit ==
  /\ flow[Begin].pc \notin {"decide", "decided", "cancel"}
  /\ \A d \in Decider : flow[d].pc \notin {"insert", "inserted", "begin", "cancel"}
  /\ \A c \in Canceller : flow[c].pc \in {"idle", "cancel", "finishing"}

begun == flow[Begin].pc \in {"idle", "finishing"}

\* Nobody decides before the first loop is over.
DecidersLater == \A d \in Decider : flow[d].pc # "idle" => begun

\* Somebody works on the task: neither its row nor its last object waits.
busy == ~begun \/ \E d \in Decider : flow[d].pc \in Looping \cup {"decided"}

BusyIsNotWaiting ==
  busy => /\ row.status # "waiting_approval"
          /\ Len(objs) > 0 => objs[Len(objs)].status # "waiting_approval"

\* The pending change is the one the row shows, the one a decision has read,
\* and the one an approval has just been given for.
PendingIsShown ==
  /\ row.status = "waiting_approval" /\ live => pending = row.approval.change
  /\ \A d \in Decider :
       /\ flow[d].pc = "decide" =>
            /\ flow[d].read.approval \in Approval
            /\ live => pending = flow[d].read.approval.change
       /\ flow[d].pc = "decided" /\ flow[d].decision = "approved" /\ pending # None
            => pending \in granted

ObjectsExist ==
  /\ live => Len(objs) > 0
  /\ \A f \in Flow : flow[f].pc \in Looping \cup {"decided"} => Len(objs) > 0

\* Until two decisions race, max_steps bounds the calls but for an approved one.
CallsWithin ==
  /\ calls \in 0 .. MaxSteps + 1
  /\ pending # None => calls <= MaxSteps
  /\ \A f \in Flow :
       /\ flow[f].pc = "tool" /\ held(f) => calls <= MaxSteps
       /\ flow[f].pc = "thinking" \/ (flow[f].pc = "tool" /\ ~flow[f].approved)
            => flow[f].turn < MaxTurns

\* Where a flow has nothing to do with the loop.
passive == {"idle", "cancel", "finishing"}

OneDecides == \A d, e \in Decider : flow[d].pc \notin passive /\ flow[e].pc \notin passive => d = e

IInv ==
  /\ TypeOK /\ flow \in [Flow -> Positions]
  /\ PlacesFit /\ DecidersLater /\ BusyIsNotWaiting /\ PendingIsShown /\ ObjectsExist
  /\ CallsWithin /\ OneDecides /\ HeldUntilApproved

USE FlowAssumption DEF FlowAssumption

-----------------------------------------------------------------------------
LEMMA Kinds ==
  /\ Begin \in Flow /\ Decider \subseteq Flow /\ Canceller \subseteq Flow
  /\ \A f \in Flow : f = Begin \/ f \in Decider \/ f \in Canceller
  /\ Begin \notin Decider /\ Begin \notin Canceller /\ Decider \cap Canceller = {}
BY DEF Flow

LEMMA TypeFacts ==
  ASSUME IInv
  PROVE  /\ row \in Task /\ objs \in Seq(Task) /\ Len(objs) \in Nat
         /\ \A i \in 1 .. Len(objs) : objs[i] \in Task
         /\ live \in BOOLEAN /\ aborted \in BOOLEAN /\ up \in BOOLEAN
         /\ pending \in Change \cup {None} /\ calls \in 0 .. MaxSteps + 1
         /\ ran \subseteq Change /\ granted \subseteq Change /\ confirmed \subseteq Change
         /\ raced \in BOOLEAN
         /\ flow \in [Flow -> Positions]
         /\ \A f \in Flow : /\ flow[f] \in Positions
                            /\ flow[f].pc \in Looping => flow[f].obj \in 1 .. Len(objs)
<1>1. objs \in Seq(Task)
  BY DEF IInv, TypeOK
<1>2. Len(objs) \in Nat /\ \A i \in 1 .. Len(objs) : objs[i] \in Task
  BY <1>1, LenProperties, ElementOfSeq
<1> QED
  BY <1>1, <1>2 DEF IInv, TypeOK, CallsWithin

LEMMA IdleFacts ==
  /\ Idle \in Positions /\ Idle.pc = "idle" /\ Idle.obj = 0 /\ ~Idle.approved /\ Idle.change = 0
BY DEF Idle, Positions, Task

LEMMA AppendFacts ==
  ASSUME NEW os \in Seq(Task), NEW e \in Task
  PROVE  /\ Append(os, e) \in Seq(Task) /\ Len(Append(os, e)) = Len(os) + 1
         /\ Append(os, e)[Len(Append(os, e))] = e
  OBVIOUS

\* Whoever is past a read, or works, is the only one.
LEMMA Alone ==
  ASSUME IInv, NEW f \in Flow, flow[f].pc \notin passive
  PROVE  \A g \in Flow \ {f} : flow[g].pc \in passive
<1>1. CASE f = Begin
  BY <1>1, Kinds DEF IInv, DecidersLater, PlacesFit, begun, passive
<1>2. CASE f \in Decider
  BY <1>2, Kinds DEF IInv, DecidersLater, PlacesFit, begun, passive, OneDecides
<1> QED
  BY <1>1, <1>2, Kinds DEF IInv, PlacesFit, passive

\* A step of the flow that works or decides.
LEMMA ActiveStep ==
  ASSUME IInv, NEW f \in Flow, flow[f].pc \notin passive,
         NEW p \in Positions, flow' = [flow EXCEPT ![f] = p],
         p.pc \notin {"decide", "cancel"},
         f = Begin => p.pc # "decided",
         f \in Decider => p.pc \notin {"insert", "inserted", "begin"},
         row' \in Task, objs' \in Seq(Task), live' \in BOOLEAN, aborted' \in BOOLEAN, up' \in BOOLEAN,
         pending' \in Change \cup {None}, calls' \in 0 .. MaxSteps + 1,
         ran' \subseteq Change, granted' \subseteq Change, confirmed' \subseteq Change,
         ran' \subseteq granted' \cup confirmed', raced' = raced,
         p.pc \notin passive => /\ row'.status # "waiting_approval"
                                /\ Len(objs') > 0 => objs'[Len(objs')].status # "waiting_approval",
         row'.status = "waiting_approval" /\ live' => pending' = row'.approval.change,
         p.pc = "decided" /\ p.decision = "approved" /\ pending' # None => pending' \in granted',
         live' => Len(objs') > 0,
         p.pc \in Looping \cup {"decided"} => Len(objs') > 0,
         p.pc \in Looping => p.obj \in 1 .. Len(objs'),
         pending' # None => calls' <= MaxSteps,
         p.pc = "tool" /\ p.change # 0 /\ ~p.approved => calls' <= MaxSteps,
         p.pc = "thinking" \/ (p.pc = "tool" /\ ~p.approved) => p.turn < MaxTurns
  PROVE  IInv'
<1>1. /\ flow' \in [Flow -> Positions] /\ flow'[f] = p
      /\ \A g \in Flow \ {f} : flow'[g] = flow[g] /\ flow[g].pc \in passive
  BY Alone, TypeFacts
<1>2. TypeOK'
  <2>1. calls' \in Nat /\ raced' \in BOOLEAN
    BY TypeFacts
  <2>2. \A g \in Flow :
          /\ flow'[g].turn \in 0 .. MaxTurns /\ flow'[g].change \in Change \cup {0}
          /\ flow'[g].read \in Task
          /\ flow'[g].pc \in Looping => flow'[g].obj \in 1 .. Len(objs')
    BY <1>1 DEF Positions, Looping, passive
  <2> QED
    BY <2>1, <2>2 DEF TypeOK
<1>3. f = Begin \/ f \in Decider
  BY Kinds DEF IInv, PlacesFit, passive
<1>4. PlacesFit'
  BY <1>1, <1>3, Kinds DEF PlacesFit, IInv, passive
<1>5. DecidersLater'
  <2>1. CASE f = Begin
    <3>1. \A d \in Decider : flow'[d].pc = "idle"
      BY <2>1, <1>1, Kinds DEF IInv, DecidersLater, begun, passive
    <3> QED
      BY <3>1 DEF DecidersLater
  <2>2. CASE f \in Decider
    BY <2>2, <1>1, Kinds DEF IInv, DecidersLater, PlacesFit, begun, passive
  <2> QED
    BY <2>1, <2>2, <1>3
<1>6. BusyIsNotWaiting'
  <2>1. busy' => p.pc \notin passive
    BY <1>1, <1>4, Kinds DEF busy, begun, passive, Looping, PlacesFit
  <2>2. ASSUME busy' PROVE row'.status # "waiting_approval"
    BY <2>1, <2>2
  <2>3. ASSUME busy', Len(objs') > 0 PROVE objs'[Len(objs')].status # "waiting_approval"
    BY <2>1, <2>3
  <2> QED
    BY <2>2, <2>3 DEF BusyIsNotWaiting
<1>7. PendingIsShown'
  <2>1. \A d \in Decider : flow'[d].pc # "decide" /\ (flow'[d].pc = "decided" => d = f)
    BY <1>1, Kinds DEF passive
  <2> QED
    BY <2>1, <1>1 DEF PendingIsShown
<1>8. ObjectsExist'
  BY <1>1 DEF ObjectsExist, passive, Looping
<1>9. CallsWithin'
  BY <1>1 DEF CallsWithin, held, passive
<1>10. OneDecides'
  BY <1>1, <1>3, Kinds DEF IInv, OneDecides
<1> QED
  BY <1>1, <1>2, <1>4, <1>5, <1>6, <1>7, <1>8, <1>9, <1>10 DEF IInv, HeldUntilApproved

\* A step of a cancel, or the end of a flow, beside whatever goes on.
LEMMA SideStep ==
  ASSUME IInv, NEW f \in Flow, flow[f].pc \in passive,
         NEW p \in Positions, flow' = [flow EXCEPT ![f] = p], p.pc \in passive,
         f \notin Canceller => p.pc # "cancel",
         f \in Decider /\ p.pc # "idle" => begun,
         UNCHANGED <<pending, calls, up, Ghosts>>, aborted' \in BOOLEAN, live' \in {live, FALSE},
         row' = row \/ (row' \in Task /\ row'.status \in Final),
         objs' = objs \/ \E e \in Task : e.status \in Final /\ objs' = Append(objs, e)
  PROVE  IInv'
<1>1. /\ flow' \in [Flow -> Positions] /\ flow'[f] = p
      /\ \A g \in Flow \ {f} : flow'[g] = flow[g]
  BY TypeFacts
<1>2. /\ objs' \in Seq(Task) /\ Len(objs') \in Nat /\ Len(objs') >= Len(objs)
      /\ objs' = objs \/ (Len(objs') > 0 /\ objs'[Len(objs')].status \in Final)
  BY TypeFacts, AppendFacts
<1>3. (row' \in Task /\ row'.status # "waiting_approval") \/ row' = row
  BY DEF Final
<1>4. TypeOK'
  <2>1. \A g \in Flow : flow'[g].pc \in Looping => flow'[g].obj \in 1 .. Len(objs')
    <3> TAKE g \in Flow
    <3>1. CASE g = f
      BY <3>1, <1>1 DEF passive, Looping
    <3>2. CASE g # f
      BY <3>2, <1>1, <1>2, TypeFacts
    <3> QED
      BY <3>1, <3>2
  <2>2. \A g \in Flow :
          /\ flow'[g].turn \in 0 .. MaxTurns /\ flow'[g].change \in Change \cup {0}
          /\ flow'[g].read \in Task
    BY <1>1 DEF Positions
  <2>3. /\ calls' \in Nat /\ pending' \in Change \cup {None}
        /\ ran' \subseteq Change /\ granted' \subseteq Change /\ confirmed' \subseteq Change
    BY TypeFacts DEF Ghosts
  <2>4. raced' \in BOOLEAN /\ up' \in BOOLEAN /\ live' \in BOOLEAN
    BY TypeFacts DEF Ghosts
  <2>5. row' \in Task /\ objs' \in Seq(Task)
    BY <1>2, <1>3, TypeFacts
  <2> QED
    BY <2>1, <2>2, <2>3, <2>4, <2>5 DEF TypeOK
<1>5. begun' <=> begun
  BY <1>1, Kinds DEF begun, passive, IInv, PlacesFit
<1>6. PlacesFit' /\ DecidersLater'
  BY <1>1, <1>5, Kinds DEF IInv, PlacesFit, DecidersLater, passive
<1>7. busy' => busy
  BY <1>1, <1>5 DEF busy, passive, Looping
<1>8. BusyIsNotWaiting'
  BY <1>2, <1>3, <1>7 DEF IInv, BusyIsNotWaiting, Final
<1>9. PendingIsShown'
  <2>1. row'.status = "waiting_approval" /\ live' => pending' = row'.approval.change
    BY <1>3 DEF IInv, PendingIsShown
  <2>2. ASSUME NEW d \in Decider, flow'[d].pc \in {"decide", "decided"}
        PROVE  flow'[d] = flow[d]
    BY <2>2, <1>1, Kinds DEF passive
  <2>3. live' => live
    OBVIOUS
  <2> QED
    BY <2>1, <2>2, <2>3 DEF IInv, PendingIsShown, Ghosts
<1>10. ObjectsExist'
  <2>1. Len(objs) > 0 => Len(objs') > 0
    BY <1>2, TypeFacts
  <2>2. ASSUME NEW g \in Flow, flow'[g].pc \in Looping \cup {"decided"} PROVE Len(objs') > 0
    BY <2>1, <2>2, <1>1 DEF IInv, ObjectsExist, passive, Looping
  <2>3. live' => Len(objs') > 0
    BY <2>1 DEF IInv, ObjectsExist
  <2> QED
    BY <2>2, <2>3 DEF ObjectsExist
<1>11. CallsWithin'
  BY <1>1 DEF IInv, CallsWithin, held, passive, Ghosts
<1>12. OneDecides'
  <2>1. \A d \in Decider : flow'[d].pc \notin passive => flow[d].pc \notin passive
    BY <1>1, Kinds
  <2> QED
    BY <2>1 DEF IInv, OneDecides
<1> QED
  BY <1>1, <1>4, <1>6, <1>8, <1>9, <1>10, <1>11, <1>12 DEF IInv, HeldUntilApproved, Ghosts

-----------------------------------------------------------------------------
\* What holds of a flow that works, before its step.
LEMMA LoopFacts ==
  ASSUME IInv, NEW f \in Flow, flow[f].pc \in Looping
  PROVE  /\ flow[f].pc \notin passive /\ f \notin Canceller /\ flow[f].pc \notin {"decide", "decided", "cancel"}
         /\ Len(objs) > 0 /\ flow[f].obj \in 1 .. Len(objs) /\ objs[flow[f].obj] \in Task
         /\ objs[Len(objs)] \in Task /\ row.status # "waiting_approval"
         /\ objs[Len(objs)].status # "waiting_approval"
<1>1. flow[f].pc \notin passive /\ f \notin Canceller
  BY DEF Looping, passive, IInv, PlacesFit
<1>2. busy
  BY <1>1, Kinds DEF busy, begun, passive, IInv, PlacesFit, Looping
<1>3. Len(objs) > 0 /\ flow[f].obj \in 1 .. Len(objs)
  BY TypeFacts DEF IInv, ObjectsExist
<1> QED
  BY <1>1, <1>2, <1>3, TypeFacts DEF IInv, BusyIsNotWaiting, Looping

\* finish() and fail() of a flow that works.
LEMMA FinishStep ==
  ASSUME IInv, NEW f \in Flow, flow[f].pc \in Looping,
         NEW from \in Task, NEW status \in Final, finish(f, objs, from, status),
         UNCHANGED <<live, pending, aborted, calls, up, Ghosts>>
  PROVE  IInv'
<1> DEFINE p == [flow[f] EXCEPT !.pc = "finishing"]
           end == [from EXCEPT !.status = status]
<1>1. p \in Positions /\ p.pc = "finishing" /\ flow' = [flow EXCEPT ![f] = p]
  BY TypeFacts DEF Positions, finish, goto
<1>2. end \in Task /\ end.status = status
  BY DEF Task, Final
<1>3. objs' \in Seq(Task) /\ Len(objs') > 0 /\ row' = end
  BY <1>2, AppendFacts, TypeFacts DEF finish
<1>4. f \notin Canceller /\ flow[f].pc \notin passive
  BY LoopFacts
<1>5. row'.status # "waiting_approval" /\ row' \in Task
  BY <1>2, <1>3 DEF Final
<1> QED
  <2> HIDE DEF p, end
  <2> QED
    BY <1>1, <1>3, <1>4, <1>5, ActiveStep, TypeFacts DEF passive, Looping, IInv, HeldUntilApproved, CallsWithin, Ghosts

LEMMA EndSteps ==
  ASSUME IInv, NEW f \in Flow,
         OutOfTurns(f) \/ Stopped(f) \/ Answer(f) \/ Fail(f) \/ (Turn(f) /\ aborted)
  PROVE  IInv'
<1>1. flow[f].pc \in Looping
  BY DEF OutOfTurns, Stopped, Answer, Fail, Turn, Looping, at
<1>2. object(f) \in Task /\ current \in Task
  BY <1>1, LoopFacts DEF object, current
<1> QED
  BY <1>1, <1>2, FinishStep DEF OutOfTurns, Stopped, Answer, Fail, Turn, Final, Ghosts

\* A step of the loop that leaves the row and the objects alone.
LEMMA QuietStep ==
  ASSUME IInv, NEW f \in Flow, flow[f].pc \in Looping,
         NEW p \in Positions, flow' = [flow EXCEPT ![f] = p],
         p.pc \in {"turn", "thinking", "tool"}, p.obj = flow[f].obj,
         UNCHANGED <<row, objs, live, pending, aborted, up, Ghosts>>,
         calls' \in 0 .. MaxSteps + 1, pending # None => calls' <= MaxSteps,
         p.pc = "tool" /\ p.change # 0 /\ ~p.approved => calls' <= MaxSteps,
         p.pc = "thinking" \/ (p.pc = "tool" /\ ~p.approved) => p.turn < MaxTurns
  PROVE  IInv'
BY LoopFacts, ActiveStep, TypeFacts DEF IInv, HeldUntilApproved, PendingIsShown, ObjectsExist, Ghosts

LEMMA TurnStep == ASSUME IInv, NEW f \in Flow, Turn(f), ~aborted PROVE IInv'
<1> DEFINE p == [flow[f] EXCEPT !.pc = "thinking"]
<1>1. p \in Positions /\ flow' = [flow EXCEPT ![f] = p]
  BY TypeFacts DEF Turn, Positions, goto
<1>2. p.pc = "thinking" /\ p.obj = flow[f].obj /\ p.turn < MaxTurns
  BY TypeFacts DEF Turn, Positions
<1>3. flow[f].pc \in Looping
  BY DEF Turn, at, Looping
<1> QED
  <2> HIDE DEF p
  <2> QED
    BY <1>1, <1>2, <1>3, QuietStep, TypeFacts DEF Turn, IInv, CallsWithin, Ghosts

LEMMA AskAgainStep == ASSUME IInv, NEW f \in Flow, AskAgain(f) PROVE IInv'
<1> DEFINE p == [flow[f] EXCEPT !.pc = "turn", !.turn = @ + 1]
<1>1. flow[f].turn < MaxTurns /\ flow[f].turn \in 0 .. MaxTurns
  BY TypeFacts DEF AskAgain, at, IInv, CallsWithin, Positions
<1>2. p \in Positions /\ flow' = [flow EXCEPT ![f] = p]
  BY <1>1, TypeFacts DEF AskAgain, Positions
<1>3. p.pc = "turn" /\ p.obj = flow[f].obj
  BY TypeFacts DEF Positions
<1>4. flow[f].pc \in Looping
  BY DEF AskAgain, at, Looping
<1> QED
  <2> HIDE DEF p
  <2> QED
    BY <1>2, <1>3, <1>4, QuietStep, TypeFacts DEF AskAgain, IInv, CallsWithin, Ghosts, State

LEMMA CallStep ==
  ASSUME IInv, NEW f \in Flow, NEW mutating \in BOOLEAN, Call(f, mutating)
  PROVE  IInv'
<1> DEFINE p == [flow[f] EXCEPT !.pc = "tool", !.change = IF mutating THEN calls + 1 ELSE 0,
                                !.approved = FALSE]
<1>1. flow[f].turn < MaxTurns /\ calls \in Nat /\ calls < MaxSteps
  BY TypeFacts DEF Call, at, IInv, CallsWithin
<1>2. p \in Positions /\ flow' = [flow EXCEPT ![f] = p]
  <2>1. (IF mutating THEN calls + 1 ELSE 0) \in Change \cup {0}
    BY <1>1 DEF Change
  <2>2. p \in Positions
    BY <2>1, TypeFacts DEF Positions
  <2> QED
    BY <2>2, TypeFacts DEF Call, Positions
<1>3. p.pc = "tool" /\ p.obj = flow[f].obj /\ p.turn = flow[f].turn
  BY TypeFacts DEF Positions
<1>4. flow[f].pc \in Looping
  BY DEF Call, at, Looping
<1>5. calls' \in 0 .. MaxSteps + 1 /\ calls' <= MaxSteps
  BY <1>1 DEF Call
<1> QED
  <2> HIDE DEF p
  <2> QED
    BY <1>1, <1>2, <1>3, <1>4, <1>5, QuietStep DEF Call, Ghosts

LEMMA CallConfirmedStep == ASSUME IInv, NEW f \in Flow, CallConfirmed(f) PROVE IInv'
<1> DEFINE p == [flow[f] EXCEPT !.pc = "tool", !.change = 0, !.approved = FALSE]
<1>1. flow[f].pc \in Looping /\ flow[f].turn < MaxTurns /\ calls \in Nat /\ calls < MaxSteps
  BY TypeFacts DEF CallConfirmed, at, IInv, CallsWithin, Looping
<1>2. p \in Positions /\ flow' = [flow EXCEPT ![f] = p]
  <2>1. p \in Positions
    BY TypeFacts DEF Positions
  <2> QED
    BY <2>1, TypeFacts DEF CallConfirmed, Positions
<1>3. p.pc = "tool" /\ p.change = 0 /\ p.obj = flow[f].obj /\ p.turn = flow[f].turn
  BY TypeFacts DEF Positions
<1>4. calls' \in 0 .. MaxSteps + 1 /\ calls' <= MaxSteps /\ calls + 1 \in Change
  BY <1>1 DEF CallConfirmed, Change
<1>5. ran' \subseteq Change /\ confirmed' \subseteq Change /\ ran' \subseteq granted \cup confirmed'
  BY <1>4, TypeFacts DEF CallConfirmed, IInv, HeldUntilApproved
<1> QED
  <2> HIDE DEF p
  <2> QED
    BY <1>1, <1>2, <1>3, <1>4, <1>5, LoopFacts, ActiveStep, TypeFacts
    DEF CallConfirmed, IInv, PendingIsShown, ObjectsExist

LEMMA PauseStep == ASSUME IInv, NEW f \in Flow, Pause(f) PROVE IInv'
<1> DEFINE wait == [status |-> "waiting_approval",
                    approval |-> [change |-> flow[f].change, decision |-> "none"]]
<1>1. flow[f].pc \in Looping /\ flow[f].change \in Change /\ calls <= MaxSteps
  BY TypeFacts DEF Pause, at, Looping, held, Positions, IInv, CallsWithin
<1>2. wait \in Task
  BY <1>1 DEF Task, Approval, Active
<1>3. objs' \in Seq(Task) /\ Len(objs') = Len(objs)
      /\ \A j \in 1 .. Len(objs) : objs'[j] = IF j = flow[f].obj THEN wait ELSE objs[j]
  BY <1>1, <1>2, LoopFacts, TypeFacts, ExceptSeq DEF Pause
<1>4. row' \in Task /\ (row' = wait \/ row'.status # "waiting_approval")
  BY <1>1, <1>2, <1>3, LoopFacts, TypeFacts DEF Pause, save
<1>5. row'.status = "waiting_approval" => pending' = row'.approval.change
  BY <1>1, <1>4 DEF Pause
<1>6. Idle \in Positions /\ Idle.pc = "idle" /\ flow' = [flow EXCEPT ![f] = Idle]
  BY DEF Idle, Positions, Pause, stop, Task
<1>7. pending' \in Change \cup {None}
  BY <1>1 DEF Pause
<1>8. flow[f].pc \notin passive /\ Len(objs') > 0
  BY <1>1, <1>3, LoopFacts
<1> QED
  <2> HIDE DEF wait
  <2> QED
    BY <1>1, <1>3, <1>4, <1>5, <1>6, <1>7, <1>8, ActiveStep, TypeFacts
    DEF Pause, passive, Looping, IInv, HeldUntilApproved, Ghosts

LEMMA ToolDoneStep == ASSUME IInv, NEW f \in Flow, ToolDone(f) PROVE IInv'
<1> DEFINE p == [flow[f] EXCEPT !.pc = "turn", !.change = 0, !.approved = FALSE,
                   !.obj = IF flow[f].approved THEN Len(objs) ELSE @,
                   !.turn = IF flow[f].approved THEN 0 ELSE @ + 1]
<1>1. flow[f].pc \in Looping
  BY DEF ToolDone, at, Looping
<1>2. flow[f].approved \/ (flow[f].turn < MaxTurns /\ flow[f].turn \in 0 .. MaxTurns)
  BY TypeFacts DEF ToolDone, at, IInv, CallsWithin, Positions
<1>3. p \in Positions /\ flow' = [flow EXCEPT ![f] = p]
  BY <1>2, TypeFacts DEF ToolDone, Positions
<1>4. p.pc = "turn" /\ p.obj \in 1 .. Len(objs)
  BY <1>1, LoopFacts, TypeFacts DEF Positions
<1>5. row' \in Task /\ row'.status # "waiting_approval"
  BY <1>1, LoopFacts DEF ToolDone, save
<1> QED
  <2> HIDE DEF p
  <2> QED
    BY <1>1, <1>3, <1>4, <1>5, LoopFacts, ActiveStep, TypeFacts
    DEF ToolDone, State, Ghosts, IInv, HeldUntilApproved, PendingIsShown, ObjectsExist, CallsWithin

-----------------------------------------------------------------------------
\* start() and begin().
LEMMA InsertStep == ASSUME IInv, Insert PROVE IInv'
<1> DEFINE p == [flow[Begin] EXCEPT !.pc = "inserted"]
<1>1. p \in Positions /\ p.pc = "inserted" /\ flow' = [flow EXCEPT ![Begin] = p]
  BY TypeFacts, Kinds DEF Insert, Positions, goto
<1>2. busy /\ flow[Begin].pc = "insert"
  BY DEF Insert, at, busy, begun
<1>3. Len(objs) > 0 => objs[Len(objs)].status # "waiting_approval"
  BY <1>2 DEF IInv, BusyIsNotWaiting
<1>4. row' \in Task /\ row'.status = "planning"
  BY DEF Insert, Task, Active
<1> QED
  <2> HIDE DEF p
  <2> QED
    BY <1>1, <1>2, <1>3, <1>4, ActiveStep, TypeFacts, Kinds
    DEF Insert, State, Ghosts, passive, Looping, IInv, HeldUntilApproved, ObjectsExist, CallsWithin

LEMMA StartStep == ASSUME IInv, Start PROVE IInv'
<1> DEFINE p == [flow[Begin] EXCEPT !.pc = "begin", !.obj = 1]
           task == [status |-> "planning", approval |-> None]
<1>1. p \in Positions /\ flow' = [flow EXCEPT ![Begin] = p] /\ p.pc = "begin" /\ p.obj = 1
  BY TypeFacts, Kinds DEF Start, Positions
<1>2. busy /\ flow[Begin].pc = "inserted"
  BY DEF Start, at, busy, begun
<1>3. task \in Task /\ task.status # "waiting_approval"
  BY DEF Task, Active
<1>4. objs' \in Seq(Task) /\ Len(objs') = 1 /\ objs'[1] = task
  BY <1>3 DEF Start
<1>5. row.status # "waiting_approval"
  BY <1>2 DEF IInv, BusyIsNotWaiting
<1>6. p.pc \notin passive \cup {"decided", "thinking", "tool", "decide", "cancel"}
  BY <1>1 DEF passive
<1> QED
  <2> HIDE DEF p, task
  <2> QED
    <3>1. row'.status # "waiting_approval" /\ Len(objs') > 0 /\ objs'[Len(objs')].status # "waiting_approval"
      BY <1>3, <1>4, <1>5 DEF Start
    <3>2. p.obj \in 1 .. Len(objs') /\ flow[Begin].pc \notin passive
      BY <1>1, <1>2, <1>4 DEF passive
    <3> QED
      BY <1>1, <1>4, <1>6, <3>1, <3>2, ActiveStep, TypeFacts, Kinds
      DEF Start, Ghosts, IInv, HeldUntilApproved, CallsWithin

LEMMA RouteStep == ASSUME IInv, Route PROVE IInv'
<1>1. flow[Begin].pc = "begin" /\ Begin \in Flow /\ flow[Begin].pc \in Looping
  BY Kinds DEF Route, at, Looping
<1>2. Len(objs) > 0 /\ objs[1] \in Task
  BY <1>1, LoopFacts, TypeFacts
<1>3. CASE finish(Begin, objs, objs[1], "completed")
  BY <1>1, <1>2, <1>3, FinishStep DEF Route, Final, Ghosts
<1>4. CASE /\ objs' = [objs EXCEPT ![1].status = "running"]
           /\ save(objs')
           /\ flow' = [flow EXCEPT ![Begin].pc = "turn", ![Begin].turn = 0]
  <2> DEFINE p == [flow[Begin] EXCEPT !.pc = "turn", !.turn = 0]
             e == [objs[1] EXCEPT !.status = "running"]
  <2>1. p \in Positions /\ flow' = [flow EXCEPT ![Begin] = p]
    <3>1. flow[Begin] \in Positions /\ 0 \in 0 .. MaxTurns
      BY <1>1, TypeFacts
    <3>2. p \in Positions
      BY <3>1 DEF Positions
    <3> QED
      BY <1>1, <1>4, <3>2, TypeFacts DEF Positions
  <2>2. p.pc = "turn" /\ p.obj = flow[Begin].obj
    BY <1>1, TypeFacts DEF Positions
  <2>3. e \in Task /\ e.status = "running" /\ objs' = [objs EXCEPT ![1] = e]
    BY <1>2, <1>4, TypeFacts DEF Task, Active
  <2>4. objs' \in Seq(Task) /\ Len(objs') = Len(objs)
        /\ \A j \in 1 .. Len(objs) : objs'[j] = IF j = 1 THEN e ELSE objs[j]
    <3> HIDE DEF e
    <3> QED
      BY <1>2, <2>3, TypeFacts, ExceptSeq
  <2>5. objs'[Len(objs')] \in Task /\ objs'[Len(objs')].status # "waiting_approval"
    <3> HIDE DEF e
    <3> QED
      BY <1>1, <1>2, <2>3, <2>4, LoopFacts
  <2>6. row' \in Task /\ row'.status # "waiting_approval"
    BY <1>4, <2>5 DEF save
  <2> HIDE DEF p, e
  <2> QED
    BY <1>1, <1>2, <2>1, <2>2, <2>4, <2>5, <2>6, LoopFacts, ActiveStep, TypeFacts, Kinds
    DEF Route, Ghosts, passive, Looping, IInv, HeldUntilApproved, CallsWithin
<1> QED
  BY <1>3, <1>4 DEF Route

-----------------------------------------------------------------------------
\* decide() and resume().
LEMMA ReadRowStep ==
  ASSUME IInv, NEW d \in Decider, NEW decision \in {"approved", "denied"}, ReadRow(d, decision),
         ~raced'
  PROVE  IInv'
<1> DEFINE p == [Idle EXCEPT !.pc = "decide", !.read = row, !.decision = decision]
<1>1. p \in Positions /\ flow' = [flow EXCEPT ![d] = p]
  <2>1. p \in Positions
    BY IdleFacts, TypeFacts DEF Positions
  <2> QED
    BY <2>1 DEF ReadRow
<1>2. p.pc = "decide" /\ p.read = row /\ row.approval \in Approval
  BY TypeFacts DEF Idle, ReadRow, Task
<1>3. d \in Flow /\ flow' \in [Flow -> Positions] /\ flow'[d] = p /\ \A g \in Flow \ {d} : flow'[g] = flow[g]
  BY <1>1, Kinds, TypeFacts
<1>4. ~busy /\ begun
  BY DEF IInv, BusyIsNotWaiting, ReadRow, busy
<1>5. begun' /\ ~busy'
  BY <1>2, <1>3, <1>4, Kinds DEF begun, busy, Looping
<1>6. TypeOK'
  <2>1. raced' \in BOOLEAN
    BY TypeFacts DEF ReadRow
  <2>2. \A f \in Flow :
          /\ flow'[f].turn \in 0 .. MaxTurns /\ flow'[f].change \in Change \cup {0}
          /\ flow'[f].read \in Task
          /\ flow'[f].pc \in Looping => flow'[f].obj \in 1 .. Len(objs)
    BY <1>2, <1>3, TypeFacts DEF Positions, Looping
  <2> QED
    BY <2>1, <2>2, TypeFacts DEF ReadRow, State, TypeOK
<1>7. PlacesFit' /\ DecidersLater' /\ BusyIsNotWaiting'
  BY <1>2, <1>3, <1>5, Kinds DEF PlacesFit, DecidersLater, BusyIsNotWaiting, IInv
<1>8. PendingIsShown'
  BY <1>2, <1>3, Kinds DEF PendingIsShown, IInv, ReadRow, State, Ghosts
<1>9. ObjectsExist'
  BY <1>2, <1>3 DEF ObjectsExist, IInv, ReadRow, State, Looping
<1>10. CallsWithin'
  BY <1>2, <1>3 DEF CallsWithin, IInv, ReadRow, State, held
<1>11. OneDecides'
  <2>1. \A e \in Decider \ {d} : flow'[e] = flow[e] /\ flow[e].pc # "decide"
    BY <1>3, Kinds DEF ReadRow, at
  <2>2. \A e \in Decider \ {d} : flow'[e].pc \in passive
    BY <2>1, <1>4, Kinds, TypeFacts DEF busy, Looping, passive, IInv, PlacesFit, Positions
  <2> QED
    BY <2>2 DEF OneDecides
<1> QED
  BY <1>3, <1>6, <1>7, <1>8, <1>9, <1>10, <1>11 DEF IInv, HeldUntilApproved, ReadRow

LEMMA DecidedFacts ==
  ASSUME IInv, NEW d \in Decider, flow[d].pc = "decide"
  PROVE  /\ d \in Flow /\ flow[d].pc \notin passive
         /\ decided(d) \in Task /\ decided(d).approval \in Approval
         /\ flow[d].read.approval.change \in Change
         /\ decided(d).approval.change = flow[d].read.approval.change
<1>1. flow[d].read \in Task /\ flow[d].read.approval \in Approval /\ flow[d].decision \in {"none", "approved", "denied"}
  BY TypeFacts, Kinds DEF Positions, IInv, PendingIsShown
<1> QED
  BY <1>1, Kinds DEF passive, decided, Task, Approval

LEMMA SaveDecision == ASSUME IInv, NEW d \in Decider, Decide(d) PROVE IInv'
<1> DEFINE p == [flow[d] EXCEPT !.pc = "decided"]
           e == [status |-> "running", approval |-> decided(d).approval]
<1>1. flow[d].pc = "decide" /\ live /\ Len(objs) > 0
  BY DEF Decide, at, IInv, ObjectsExist
<1>2. p \in Positions /\ flow' = [flow EXCEPT ![d] = p]
  <2>1. d \in Flow /\ flow[d] \in Positions
    BY Kinds, TypeFacts
  <2>2. p \in Positions
    BY <2>1 DEF Positions
  <2> QED
    BY <2>2 DEF Decide, goto
<1>3. p.pc = "decided" /\ p.decision = flow[d].decision
  BY TypeFacts, Kinds DEF Positions
<1>4. e \in Task /\ e.status = "running"
  BY <1>1, DecidedFacts DEF Task, Active
<1>5. objs' \in Seq(Task) /\ Len(objs') = Len(objs) /\ objs'[Len(objs')] = e /\ row' = e
  <2>1. objs' = [objs EXCEPT ![Len(objs)] = e] /\ Len(objs) \in 1 .. Len(objs)
    BY <1>1, TypeFacts DEF Decide
  <2> HIDE DEF e
  <2>2. objs' \in Seq(Task) /\ Len(objs') = Len(objs) /\ objs'[Len(objs)] = e
    BY <2>1, <1>4, TypeFacts, ExceptSeq
  <2> QED
    BY <2>2 DEF Decide, save
<1>6. granted' \subseteq Change /\ granted \subseteq granted'
  BY <1>1, DecidedFacts, TypeFacts DEF Decide, grant
<1>7. flow[d].decision = "approved" /\ pending # None => pending \in granted'
  BY <1>1 DEF Decide, grant, IInv, PendingIsShown
<1>8. ran \subseteq granted' \cup confirmed
  BY <1>6 DEF IInv, HeldUntilApproved
<1> QED
  <2> HIDE DEF p, e
  <2> QED
    BY <1>1, <1>2, <1>3, <1>4, <1>5, <1>6, <1>7, <1>8, DecidedFacts, ActiveStep, TypeFacts, Kinds
    DEF Decide, passive, Looping, IInv, CallsWithin

LEMMA DecideForgottenStep == ASSUME IInv, NEW d \in Decider, DecideForgotten(d) PROVE IInv'
<1> DEFINE p == [flow[d] EXCEPT !.pc = "finishing"]
<1>1. flow[d].pc = "decide"
  BY DEF DecideForgotten, at
<1>2. p \in Positions /\ p.pc = "finishing" /\ flow' = [flow EXCEPT ![d] = p]
  <2>1. d \in Flow /\ flow[d] \in Positions
    BY Kinds, TypeFacts
  <2>2. p \in Positions /\ p.pc = "finishing"
    BY <2>1 DEF Positions
  <2> QED
    BY <2>2 DEF DecideForgotten, finishWithoutState, goto
<1>3. row' \in Task /\ row'.status = "failed" /\ objs' = objs
  BY <1>1, DecidedFacts DEF DecideForgotten, finishWithoutState, Task, Final
<1> QED
  <2> HIDE DEF p
  <2> QED
    BY <1>1, <1>2, <1>3, DecidedFacts, ActiveStep, TypeFacts, Kinds
    DEF DecideForgotten, Ghosts, passive, Looping, IInv, HeldUntilApproved, ObjectsExist, CallsWithin

LEMMA ResumeStep == ASSUME IInv, NEW d \in Decider, Resume(d) PROVE IInv'
<1>1. d \in Flow /\ flow[d].pc = "decided" /\ flow[d].pc \notin passive /\ Len(objs) > 0
  BY Kinds DEF Resume, at, passive, IInv, ObjectsExist
<1>2. busy
  BY <1>1 DEF busy
<1>3. row.status # "waiting_approval" /\ objs[Len(objs)].status # "waiting_approval"
  BY <1>1, <1>2 DEF IInv, BusyIsNotWaiting
<1>4. CASE pending # None /\ flow[d].decision = "approved"
  <2> DEFINE p == [Idle EXCEPT !.pc = "tool", !.obj = Len(objs), !.change = pending, !.approved = TRUE]
  <2>1. p \in Positions /\ flow' = [flow EXCEPT ![d] = p]
    <3>1. p \in Positions
      BY <1>4, IdleFacts, TypeFacts DEF Positions
    <3> QED
      BY <1>4, <3>1 DEF Resume
  <2>2. p.pc = "tool" /\ p.obj = Len(objs) /\ p.approved
    BY DEF Idle
  <2>3. pending \in granted /\ pending \in Change /\ calls <= MaxSteps
    BY <1>1, <1>4, TypeFacts DEF IInv, PendingIsShown, CallsWithin
  <2>4. ran' \subseteq Change /\ ran' \subseteq granted \cup confirmed /\ calls' \in 0 .. MaxSteps + 1 /\ pending' = None
    BY <1>4, <2>3, TypeFacts DEF Resume, IInv, HeldUntilApproved
  <2>5. p.obj \in 1 .. Len(objs) /\ p.pc \notin passive /\ p.pc \notin {"thinking", "decided", "decide", "cancel"}
    BY <1>1, <2>2, TypeFacts DEF passive
  <2> HIDE DEF p
  <2> QED
    BY <1>1, <1>3, <2>1, <2>2, <2>4, <2>5, ActiveStep, TypeFacts, Kinds DEF Resume
<1>5. CASE ~(pending # None /\ flow[d].decision = "approved")
  <2> DEFINE p == [Idle EXCEPT !.pc = "turn", !.obj = Len(objs)]
  <2>1. p \in Positions /\ flow' = [flow EXCEPT ![d] = p]
    <3>1. p \in Positions
      BY IdleFacts, TypeFacts DEF Positions
    <3> QED
      BY <1>5, <3>1 DEF Resume
  <2>2. p.pc = "turn" /\ p.obj = Len(objs)
    BY DEF Idle
  <2>3. ran' = ran /\ calls' = calls /\ pending' = None
    BY <1>5 DEF Resume
  <2>4. p.obj \in 1 .. Len(objs) /\ p.pc \notin passive
    BY <1>1, <2>2, TypeFacts DEF passive
  <2> HIDE DEF p
  <2> QED
    BY <1>1, <1>3, <2>1, <2>2, <2>3, <2>4, ActiveStep, TypeFacts, Kinds DEF Resume, IInv, HeldUntilApproved
<1> QED
  BY <1>4, <1>5

-----------------------------------------------------------------------------
\* cancel(), and the end of finish().
LEMMA FinishedStep == ASSUME IInv, NEW f \in Flow, Finished(f) PROVE IInv'
BY IdleFacts, SideStep, TypeFacts DEF Finished, at, stop, passive

LEMMA ReadForCancelStep == ASSUME IInv, NEW c \in Canceller, ReadForCancel(c) PROVE IInv'
<1> DEFINE p == [Idle EXCEPT !.pc = "cancel", !.read = row]
<1>1. p \in Positions /\ p.pc = "cancel"
  BY IdleFacts, TypeFacts DEF Positions
<1>2. flow' = [flow EXCEPT ![c] = p] /\ flow[c].pc \in passive
  BY DEF ReadForCancel, at, passive
<1> QED
  <2> HIDE DEF p
  <2> QED
    BY <1>1, <1>2, SideStep, TypeFacts, Kinds DEF ReadForCancel, State, Ghosts, passive

LEMMA CancelStep ==
  ASSUME IInv, NEW c \in Canceller, Cancel(c) \/ CancelForgotten(c)
  PROVE  IInv'
<1> DEFINE p == [flow[c] EXCEPT !.pc = "finishing"]
<1>1. c \in Flow /\ c \notin Decider /\ flow[c].pc \in passive /\ flow[c] \in Positions
  BY Kinds, TypeFacts DEF Cancel, CancelForgotten, at, passive
<1>2. p \in Positions /\ p.pc \in passive /\ p.pc = "finishing"
  BY <1>1 DEF Positions, passive
<1>3. CASE CancelForgotten(c)
  <2>1. flow' = [flow EXCEPT ![c] = p]
    BY <1>3 DEF CancelForgotten, finishWithoutState, goto
  <2>2. row' \in Task /\ row'.status \in Final /\ objs' = objs
    BY <1>1, <1>3 DEF CancelForgotten, finishWithoutState, Positions, Task, Final
  <2> HIDE DEF p
  <2> QED
    BY <1>1, <1>2, <1>3, <2>1, <2>2, SideStep, TypeFacts DEF CancelForgotten, Ghosts
<1>4. CASE Cancel(c) /\ flow[c].read.status = "waiting_approval"
  <2> DEFINE end == [current EXCEPT !.status = "cancelled"]
  <2>1. flow' = [flow EXCEPT ![c] = p] /\ objs' = Append(objs, end) /\ row' = end
    BY <1>4 DEF Cancel, finish, goto
  <2>2. current \in Task
    BY <1>4, TypeFacts DEF Cancel, current, IInv, ObjectsExist
  <2>3. end \in Task /\ end.status \in Final
    BY <2>2 DEF Task, Final
  <2> HIDE DEF p, end
  <2> QED
    BY <1>1, <1>2, <1>4, <2>1, <2>3, SideStep, TypeFacts DEF Cancel, Ghosts
<1>5. CASE Cancel(c) /\ flow[c].read.status # "waiting_approval"
  <2>1. flow' = [flow EXCEPT ![c] = Idle] /\ row' = row /\ objs' = objs
    BY <1>5 DEF Cancel, stop
  <2> QED
    BY <1>1, <1>5, <2>1, IdleFacts, SideStep, TypeFacts DEF Cancel, Ghosts, passive
<1> QED
  BY <1>3, <1>4, <1>5

-----------------------------------------------------------------------------
LEMMA RestartStep == ASSUME IInv, Restart PROVE IInv'
<1>1. \A f \in Flow : flow'[f] = Idle
  BY DEF Restart
<1>2. flow' \in [Flow -> Positions] /\ objs' = <<>> /\ objs' \in Seq(Task) /\ Len(objs') = 0
  BY IdleFacts DEF Restart
<1>3. \A f \in Flow : flow'[f] \in Positions /\ flow'[f].pc = "idle"
  BY <1>1, IdleFacts
<1>4. TypeOK'
  <2>1. \A f \in Flow :
          /\ flow'[f].turn \in 0 .. MaxTurns /\ flow'[f].change \in Change \cup {0}
          /\ flow'[f].read \in Task /\ flow'[f].pc \notin Looping
    BY <1>3 DEF Positions, Looping
  <2>2. 0 \in 0 .. MaxSteps + 1
    OBVIOUS
  <2> QED
    BY <2>1, <2>2, <1>2, TypeFacts DEF Restart, TypeOK, Ghosts
<1>5. PlacesFit' /\ DecidersLater' /\ BusyIsNotWaiting'
  BY <1>3, Kinds DEF PlacesFit, DecidersLater, BusyIsNotWaiting, busy, begun, Looping
<1>6. PendingIsShown' /\ ObjectsExist' /\ CallsWithin' /\ OneDecides'
  BY <1>3, Kinds DEF Restart, PendingIsShown, ObjectsExist, CallsWithin, OneDecides, passive, Looping
<1> QED
  BY <1>2, <1>4, <1>5, <1>6 DEF Restart, IInv, HeldUntilApproved, Ghosts

LEMMA InitIInv == Init => IInv
<1> SUFFICES ASSUME Init PROVE IInv
  OBVIOUS
<1> DEFINE first == [Idle EXCEPT !.pc = "insert"]
<1>1. first \in Positions /\ first.pc = "insert"
  BY IdleFacts DEF Positions
<1>2. flow[Begin] = first /\ \A f \in Flow : flow[f] = IF f = Begin THEN first ELSE Idle
  BY Kinds DEF Init
<1> HIDE DEF first
<1>3. flow \in [Flow -> Positions]
  BY <1>1, IdleFacts DEF Init, first
<1>4. \A f \in Flow : flow[f] \in Positions /\ flow[f].pc = IF f = Begin THEN "insert" ELSE "idle"
  BY <1>1, <1>2, IdleFacts
<1>5. row \in Task /\ row.status = "none" /\ objs \in Seq(Task) /\ Len(objs) = 0
  BY DEF Init, Task
<1>6. TypeOK
  <2>1. \A f \in Flow :
          /\ flow[f].turn \in 0 .. MaxTurns /\ flow[f].change \in Change \cup {0}
          /\ flow[f].read \in Task /\ flow[f].pc \notin Looping
    BY <1>4 DEF Positions, Looping
  <2>2. 0 \in 0 .. MaxSteps + 1
    OBVIOUS
  <2> QED
    BY <2>1, <2>2, <1>5 DEF Init, TypeOK
<1>7. PlacesFit /\ DecidersLater /\ BusyIsNotWaiting
  BY <1>4, <1>5, Kinds DEF PlacesFit, DecidersLater, BusyIsNotWaiting
<1>8. PendingIsShown /\ ObjectsExist /\ CallsWithin /\ OneDecides
  BY <1>4, <1>5, Kinds DEF Init, PendingIsShown, ObjectsExist, CallsWithin, OneDecides, passive, Looping
<1> QED
  BY <1>3, <1>6, <1>7, <1>8 DEF Init, IInv, HeldUntilApproved

LEMMA StutterStep == ASSUME IInv, UNCHANGED vars PROVE IInv'
<1>1. TypeOK' /\ flow' \in [Flow -> Positions] /\ HeldUntilApproved'
  BY DEF vars, IInv, TypeOK, HeldUntilApproved
<1>2. PlacesFit' /\ DecidersLater' /\ BusyIsNotWaiting'
  BY DEF vars, IInv, PlacesFit, DecidersLater, BusyIsNotWaiting, busy, begun
<1>3. PendingIsShown' /\ ObjectsExist' /\ CallsWithin'
  BY DEF vars, IInv, PendingIsShown, ObjectsExist, CallsWithin, held
<1>4. OneDecides'
  BY DEF vars, IInv, OneDecides
<1> QED
  BY <1>1, <1>2, <1>3, <1>4 DEF IInv

LEMMA NextIInv == IInv /\ [Next]_vars => raced' \/ IInv'
<1> SUFFICES ASSUME IInv, [Next]_vars, ~raced' PROVE IInv'
  OBVIOUS
<1>1. CASE Insert \/ Start \/ Route
  BY <1>1, InsertStep, StartStep, RouteStep
<1>2. ASSUME NEW f \in {Begin} \cup Decider, LoopStep(f) \/ Fail(f) PROVE IInv'
  <2>1. f \in Flow
    BY Kinds
  <2> QED
    BY <1>2, <2>1, EndSteps, TurnStep, AskAgainStep, CallStep, CallConfirmedStep, PauseStep, ToolDoneStep DEF LoopStep
<1>3. ASSUME NEW f \in Flow, Finished(f) PROVE IInv'
  BY <1>3, FinishedStep
<1>4. ASSUME NEW d \in Decider, DecideStep(d) PROVE IInv'
  BY <1>4, ReadRowStep, SaveDecision, DecideForgottenStep, ResumeStep DEF DecideStep
<1>5. ASSUME NEW c \in Canceller, ReadForCancel(c) \/ Cancel(c) \/ CancelForgotten(c) PROVE IInv'
  BY <1>5, ReadForCancelStep, CancelStep
<1>6. CASE Restart
  BY <1>6, RestartStep
<1>7. CASE UNCHANGED vars
  BY <1>7, StutterStep
<1> QED
  BY <1>1, <1>2, <1>3, <1>4, <1>5, <1>6, <1>7 DEF Next

\* What has raced has raced.
LEMMA RacedStays == raced /\ [Next]_vars => raced'
<1> SUFFICES ASSUME raced, [Next]_vars PROVE raced'
  OBVIOUS
<1>1. CASE Insert \/ Start \/ Route
  BY <1>1 DEF Insert, Start, Route, Ghosts
<1>2. ASSUME NEW f \in {Begin} \cup Decider, LoopStep(f) \/ Fail(f) PROVE raced'
  BY <1>2 DEF LoopStep, Turn, OutOfTurns, Stopped, Answer, AskAgain, Call, CallConfirmed, Pause,
              ToolDone, Fail, Ghosts
<1>3. ASSUME NEW f \in Flow, Finished(f) PROVE raced'
  BY <1>3 DEF Finished, Ghosts
<1>4. ASSUME NEW d \in Decider, DecideStep(d) PROVE raced'
  BY <1>4 DEF DecideStep, ReadRow, Decide, DecideForgotten, Resume, Ghosts
<1>5. ASSUME NEW c \in Canceller, ReadForCancel(c) \/ Cancel(c) \/ CancelForgotten(c) PROVE raced'
  BY <1>5 DEF ReadForCancel, Cancel, CancelForgotten, Ghosts
<1>6. CASE Restart \/ UNCHANGED vars
  BY <1>6 DEF Restart, vars, Ghosts
<1> QED
  BY <1>1, <1>2, <1>3, <1>4, <1>5, <1>6 DEF Next

LEMMA Invariant == Spec => [](raced \/ IInv)
<1>1. (raced \/ IInv) /\ [Next]_vars => (raced \/ IInv)'
  BY NextIInv, RacedStays
<1> QED
  BY <1>1, InitIInv, PTL DEF Spec

\* Until a decision reads the row while another has yet to act on it, only a
\* change the person approved or the model itself confirmed is made, after any
\* number of pauses, cancels, faults and a restart (decide, resume, callTool).
THEOREM OnlyApprovedChanges == Spec => []ApprovedOnly
<1>1. raced \/ IInv => ApprovedOnly
  BY DEF IInv, ApprovedOnly
<1>2. Spec => [](raced \/ IInv)
  BY Invariant
<1> QED
  BY <1>1, <1>2, PTL

\* The loop that pauses is over before a decision starts the next one.
THEOREM LoopsAreApart == Spec => []OneLoop
<1>1. raced \/ IInv => OneLoop
  <2> SUFFICES ASSUME IInv, NEW f \in Flow, NEW g \in Flow, flow[f].pc \in Looping, flow[g].pc \in Looping
               PROVE  f = g
    BY DEF OneLoop
  <2> QED
    BY Alone DEF passive, Looping
<1>2. Spec => [](raced \/ IInv)
  BY Invariant
<1> QED
  BY <1>1, <1>2, PTL

\* What a waiting task shows for approval is the call that its state holds.
THEOREM WaitingCanBeDecided == Spec => []WaitingIsPending
<1>1. raced \/ IInv => WaitingIsPending
  BY DEF IInv, PendingIsShown, WaitingIsPending
<1>2. Spec => [](raced \/ IInv)
  BY Invariant
<1> QED
  BY <1>1, <1>2, PTL
=============================================================================
