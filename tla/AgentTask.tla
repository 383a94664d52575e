----------------------------- MODULE AgentTask -----------------------------
(***************************************************************************)
(* One task of the agent (AgentRuntime, agent/runtime/runtime.ts): its row   *)
(* in agent_tasks, the state the server keeps of it, the loop that asks the  *)
(* model and calls tools, and the requests that decide on a held change or   *)
(* cancel the task.                                                         *)
(*                                                                         *)
(* A step is the code from one await to the next, with the statement the     *)
(* await is for: a request that has read the row acts on what it read then.  *)
(* The model is free: it may answer, read, or call for a change.  The tool    *)
(* holds a change until the call is made with the person's approval, unless  *)
(* the model itself called with dry_run=false.  A change is known by its      *)
(* number among the tool calls.                                              *)
(***************************************************************************)
EXTENDS Naturals, Sequences, FiniteSets

CONSTANTS
  Decider,  \* requests that decide on a held change
  Canceller,\* requests that cancel the task
  MaxSteps, \* cfg.agent.max_steps
  MaxTurns, \* turns of one loop (max_steps * 2 + 4 in the code)
  Faults,   \* the model or a tool may throw
  Restarts, \* the server may restart, once
  None

Active == {"planning", "running", "waiting_approval"}
Final == {"completed", "failed", "cancelled"}
Begin == "begin"
Flow == {Begin} \cup Decider \cup Canceller

ASSUME FlowAssumption == /\ Decider \cap Canceller = {} /\ Begin \notin Decider \cup Canceller
                         /\ MaxSteps \in Nat /\ MaxTurns \in Nat \ {0}
                         /\ Faults \in BOOLEAN /\ Restarts \in BOOLEAN

VARIABLES
  row,      \* the row: status and approval
  objs,     \* the task objects there have been; state.task is the last
  live,     \* states.has(task.id)
  pending,  \* state.pending
  aborted,  \* state.controller.signal.aborted
  calls,    \* state.toolCalls
  flow,     \* where each flow of control is
  up,       \* the server has not restarted
  ran,      \* history: changes made
  granted,  \* history: changes the person approved
  confirmed,\* history: changes the model made with dry_run=false
  raced     \* history: a decision read the row while another had yet to act on it

vars == <<row, objs, live, pending, aborted, calls, flow, up, ran, granted, confirmed, raced>>
State == <<objs, live, pending, aborted, calls>>
Ghosts == <<ran, granted, confirmed, raced>>

Change == 1 .. MaxSteps
Approval == [change : Change, decision : {"none", "approved", "denied"}]
Task == [status : {"none"} \cup Active \cup Final, approval : Approval \cup {None}]
Idle == [pc |-> "idle", obj |-> 0, turn |-> 0, change |-> 0, approved |-> FALSE,
         read |-> [status |-> "none", approval |-> None], decision |-> "none"]

Init ==
  /\ row = [status |-> "none", approval |-> None]
  /\ objs = <<>> /\ live = FALSE /\ pending = None /\ aborted = FALSE /\ calls = 0
  /\ flow = [f \in Flow |-> IF f = Begin THEN [Idle EXCEPT !.pc = "insert"] ELSE Idle]
  /\ up = TRUE
  /\ ran = {} /\ granted = {} /\ confirmed = {} /\ raced = FALSE

at(f, pc) == flow[f].pc = pc
goto(f, pc) == flow' = [flow EXCEPT ![f].pc = pc]
stop(f) == flow' = [flow EXCEPT ![f] = Idle]
current == objs[Len(objs)]

(* save(): the row gets state.task.                                         *)
save(os) == row' = os[Len(os)]

-----------------------------------------------------------------------------
(* finish(): a copy of the task with its end becomes state.task and the row;  *)
(* the state goes when the rest is done.                                     *)
finish(f, os, from, status) ==
  LET end == [from EXCEPT !.status = status] IN
  /\ objs' = Append(os, end)
  /\ row' = end
  /\ goto(f, "finishing")

finishWithoutState(f, from, status) ==
  /\ row' = [from EXCEPT !.status = status]
  /\ goto(f, "finishing")
  /\ UNCHANGED objs

Finished(f) ==
  /\ at(f, "finishing")
  /\ live' = FALSE
  /\ stop(f)
  /\ UNCHANGED <<row, objs, pending, aborted, calls, up, Ghosts>>

-----------------------------------------------------------------------------
(* start(): the row, then the session's, then the state.                     *)
Insert ==
  /\ at(Begin, "insert")
  /\ row' = [status |-> "planning", approval |-> None]
  /\ goto(Begin, "inserted")
  /\ UNCHANGED <<State, up, Ghosts>>

Start ==
  /\ at(Begin, "inserted")
  /\ objs' = <<[status |-> "planning", approval |-> None]>>
  /\ live' = TRUE
  /\ flow' = [flow EXCEPT ![Begin].pc = "begin", ![Begin].obj = 1]
  /\ UNCHANGED <<row, pending, aborted, calls, up, Ghosts>>

(* begin(): a plain move ends the task; anything else enters the loop.        *)
Route ==
  /\ at(Begin, "begin")
  /\ \/ finish(Begin, objs, objs[1], "completed")
     \/ /\ objs' = [objs EXCEPT ![1].status = "running"]
        /\ save(objs')
        /\ flow' = [flow EXCEPT ![Begin].pc = "turn", ![Begin].turn = 0]
  /\ UNCHANGED <<live, pending, aborted, calls, up, Ghosts>>

-----------------------------------------------------------------------------
(* loop(): each turn looks at the signal, asks the model, looks again.        *)
object(f) == objs[flow[f].obj]

Turn(f) ==
  /\ at(f, "turn") /\ flow[f].turn < MaxTurns
  /\ IF aborted THEN finish(f, objs, object(f), "cancelled")
     ELSE goto(f, "thinking") /\ UNCHANGED <<row, objs>>
  /\ UNCHANGED <<live, pending, aborted, calls, up, Ghosts>>

(* Out of turns: the task ends without an answer.                            *)
OutOfTurns(f) ==
  /\ at(f, "turn") /\ flow[f].turn = MaxTurns
  /\ finish(f, objs, object(f), "completed")
  /\ UNCHANGED <<live, pending, aborted, calls, up, Ghosts>>

Stopped(f) ==
  /\ at(f, "thinking") /\ aborted
  /\ finish(f, objs, object(f), "cancelled")
  /\ UNCHANGED <<live, pending, aborted, calls, up, Ghosts>>

Answer(f) ==
  /\ at(f, "thinking") /\ ~aborted
  /\ finish(f, objs, object(f), "completed")
  /\ UNCHANGED <<live, pending, aborted, calls, up, Ghosts>>

(* An unreadable call, or one too many: the model is told and asked again.    *)
AskAgain(f) ==
  /\ at(f, "thinking") /\ ~aborted
  /\ flow' = [flow EXCEPT ![f].pc = "turn", ![f].turn = @ + 1]
  /\ UNCHANGED <<row, State, up, Ghosts>>

(* callTool(): change is what the tool will hold, 0 if nothing.               *)
Call(f, mutating) ==
  /\ at(f, "thinking") /\ ~aborted /\ calls < MaxSteps
  /\ calls' = calls + 1
  /\ flow' = [flow EXCEPT ![f].pc = "tool", ![f].change = IF mutating THEN calls + 1 ELSE 0,
                          ![f].approved = FALSE]
  /\ UNCHANGED <<row, objs, live, pending, aborted, up, Ghosts>>

(* The call says dry_run=false, so the tool makes the change at once.         *)
CallConfirmed(f) ==
  /\ at(f, "thinking") /\ ~aborted /\ calls < MaxSteps
  /\ calls' = calls + 1
  /\ ran' = ran \cup {calls + 1} /\ confirmed' = confirmed \cup {calls + 1}
  /\ flow' = [flow EXCEPT ![f].pc = "tool", ![f].change = 0, ![f].approved = FALSE]
  /\ UNCHANGED <<row, objs, live, pending, aborted, up, granted, raced>>

held(f) == flow[f].change # 0 /\ ~flow[f].approved

(* The pause is not written: the row still says running.                     *)
Pause_NotSaved(f) ==
  /\ at(f, "tool") /\ held(f)
  /\ pending' = flow[f].change
  /\ objs' = [objs EXCEPT ![flow[f].obj] =
                [status |-> "waiting_approval",
                 approval |-> [change |-> flow[f].change, decision |-> "none"]]]
  /\ stop(f)
  /\ UNCHANGED <<row, live, aborted, calls, up, Ghosts>>

(* A second pause that shows the approval of the first.                      *)
Pause_FirstApproval(f) ==
  /\ at(f, "tool") /\ held(f)
  /\ pending' = flow[f].change
  /\ objs' = [objs EXCEPT ![flow[f].obj] =
                [status |-> "waiting_approval",
                 approval |-> IF @.approval # None THEN @.approval
                              ELSE [change |-> flow[f].change, decision |-> "none"]]]
  /\ save(objs')
  /\ stop(f)
  /\ UNCHANGED <<live, aborted, calls, up, Ghosts>>

(* The loop that pauses goes on to its next turn.                            *)
Pause_GoesOn(f) ==
  /\ at(f, "tool") /\ held(f)
  /\ pending' = flow[f].change
  /\ objs' = [objs EXCEPT ![flow[f].obj] =
                [status |-> "waiting_approval",
                 approval |-> [change |-> flow[f].change, decision |-> "none"]]]
  /\ save(objs')
  /\ flow' = [flow EXCEPT ![f].pc = "turn", ![f].turn = @ + 1, ![f].change = 0]
  /\ UNCHANGED <<live, aborted, calls, up, Ghosts>>

(* approval_required: the task waits, and this loop is over.                 *)
Pause(f) ==
  /\ at(f, "tool") /\ held(f)
  /\ pending' = flow[f].change
  /\ objs' = [objs EXCEPT ![flow[f].obj] =
                [status |-> "waiting_approval",
                 approval |-> [change |-> flow[f].change, decision |-> "none"]]]
  /\ save(objs')
  /\ stop(f)
  /\ UNCHANGED <<live, aborted, calls, up, Ghosts>>

(* The result goes to the model.  A call made with an approval was not a turn  *)
(* of its loop, which begins now with state.task.                            *)
ToolDone(f) ==
  /\ at(f, "tool") /\ ~held(f)
  /\ save(objs)
  /\ flow' = [flow EXCEPT ![f].pc = "turn", ![f].change = 0, ![f].approved = FALSE,
                ![f].obj = IF flow[f].approved THEN Len(objs) ELSE @,
                ![f].turn = IF flow[f].approved THEN 0 ELSE @ + 1]
  /\ UNCHANGED <<State, up, Ghosts>>

(* fail().                                                                  *)
Fail(f) ==
  /\ Faults
  /\ flow[f].pc \in {"begin", "thinking", "tool"}
  /\ finish(f, objs, current, IF aborted THEN "cancelled" ELSE "failed")
  /\ UNCHANGED <<live, pending, aborted, calls, up, Ghosts>>

-----------------------------------------------------------------------------
(* decide(): the row is read, then acted on; resume() follows the save.       *)
ReadRow(d, decision) ==
  /\ at(d, "idle")
  /\ row.status = "waiting_approval" /\ row.approval # None
  /\ flow' = [flow EXCEPT ![d] = [Idle EXCEPT !.pc = "decide", !.read = row, !.decision = decision]]
  /\ raced' = (raced \/ \E e \in Decider \ {d} : at(e, "decide"))
  /\ UNCHANGED <<row, State, up, ran, granted, confirmed>>

decided(d) == [flow[d].read EXCEPT !.approval.decision = flow[d].decision]

grant(d) ==
  granted' = IF flow[d].decision = "approved" THEN granted \cup {flow[d].read.approval.change}
             ELSE granted

Decide(d) ==
  /\ at(d, "decide") /\ live
  /\ objs' = [objs EXCEPT ![Len(objs)] = [status |-> "running", approval |-> decided(d).approval]]
  /\ save(objs')
  /\ grant(d)
  /\ goto(d, "decided")
  /\ UNCHANGED <<live, pending, aborted, calls, up, ran, confirmed, raced>>

(* The server restarted since the task paused.                               *)
DecideForgotten(d) ==
  /\ at(d, "decide") /\ ~live
  /\ finishWithoutState(d, decided(d), "failed")
  /\ UNCHANGED <<live, pending, aborted, calls, up, Ghosts>>

(* A denied call is made as well.                                            *)
Resume_Denied(d) ==
  /\ at(d, "decided")
  /\ pending' = None
  /\ IF pending # None
     THEN /\ calls' = calls + 1
          /\ ran' = ran \cup {pending}
          /\ flow' = [flow EXCEPT ![d] = [Idle EXCEPT !.pc = "tool", !.obj = Len(objs),
                                                      !.change = pending, !.approved = TRUE]]
     ELSE /\ flow' = [flow EXCEPT ![d] = [Idle EXCEPT !.pc = "turn", !.obj = Len(objs)]]
          /\ UNCHANGED <<calls, ran>>
  /\ UNCHANGED <<row, objs, live, aborted, up, granted, confirmed, raced>>

(* resume(): the pending call is taken, and made if it was approved.          *)
Resume(d) ==
  /\ at(d, "decided")
  /\ pending' = None
  /\ IF pending # None /\ flow[d].decision = "approved"
     THEN /\ calls' = calls + 1
          /\ ran' = ran \cup {pending}
          /\ flow' = [flow EXCEPT ![d] = [Idle EXCEPT !.pc = "tool", !.obj = Len(objs),
                                                      !.change = pending, !.approved = TRUE]]
     ELSE /\ flow' = [flow EXCEPT ![d] = [Idle EXCEPT !.pc = "turn", !.obj = Len(objs)]]
          /\ UNCHANGED <<calls, ran>>
  /\ UNCHANGED <<row, objs, live, aborted, up, granted, confirmed, raced>>

-----------------------------------------------------------------------------
(* cancel(): a task that waits ends here, one that runs is told to stop.      *)
ReadForCancel(c) ==
  /\ at(c, "idle")
  /\ row.status \in Active
  /\ flow' = [flow EXCEPT ![c] = [Idle EXCEPT !.pc = "cancel", !.read = row]]
  /\ UNCHANGED <<row, State, up, Ghosts>>

Cancel(c) ==
  /\ at(c, "cancel") /\ live
  /\ aborted' = TRUE
  /\ IF flow[c].read.status = "waiting_approval" THEN finish(c, objs, current, "cancelled")
     ELSE stop(c) /\ UNCHANGED <<row, objs>>
  /\ UNCHANGED <<live, pending, calls, up, Ghosts>>

CancelForgotten(c) ==
  /\ at(c, "cancel") /\ ~live
  /\ finishWithoutState(c, flow[c].read, "cancelled")
  /\ UNCHANGED <<live, pending, aborted, calls, up, Ghosts>>

-----------------------------------------------------------------------------
(* The server restarts: only the row is left.                                *)
Restart ==
  /\ Restarts /\ up
  /\ up' = FALSE
  /\ objs' = <<>> /\ live' = FALSE /\ pending' = None /\ aborted' = FALSE /\ calls' = 0
  /\ flow' = [f \in Flow |-> Idle]
  /\ UNCHANGED <<row, Ghosts>>

LoopStep(f) ==
  \/ Turn(f) \/ OutOfTurns(f) \/ Stopped(f) \/ Answer(f) \/ AskAgain(f)
  \/ \E mutating \in BOOLEAN : Call(f, mutating)
  \/ CallConfirmed(f)
  \/ Pause(f) \/ ToolDone(f)

DecideStep(d) ==
  \/ \E decision \in {"approved", "denied"} : ReadRow(d, decision)
  \/ Decide(d) \/ DecideForgotten(d) \/ Resume(d)

Next ==
  \/ Insert \/ Start \/ Route
  \/ \E f \in {Begin} \cup Decider : LoopStep(f) \/ Fail(f)
  \/ \E f \in Flow : Finished(f)
  \/ \E d \in Decider : DecideStep(d)
  \/ \E c \in Canceller : ReadForCancel(c) \/ Cancel(c) \/ CancelForgotten(c)
  \/ Restart

Spec == Init /\ [][Next]_vars

(* Every await comes back, and the person decides in the end.                *)
FairSpec ==
  /\ Spec
  /\ WF_vars(Insert \/ Start \/ Route)
  /\ \A f \in {Begin} \cup Decider : WF_vars(LoopStep(f))
  /\ \A f \in Flow : WF_vars(Finished(f))
  /\ \A d \in Decider : WF_vars(DecideStep(d))
  /\ \A c \in Canceller : WF_vars(Cancel(c) \/ CancelForgotten(c))

(* The same, and the person may never decide.                                *)
AwaySpec ==
  /\ Spec
  /\ WF_vars(Insert \/ Start \/ Route)
  /\ \A f \in {Begin} \cup Decider : WF_vars(LoopStep(f))
  /\ \A f \in Flow : WF_vars(Finished(f))
  /\ \A d \in Decider : WF_vars(Decide(d) \/ DecideForgotten(d) \/ Resume(d))
  /\ \A c \in Canceller : WF_vars(Cancel(c) \/ CancelForgotten(c))

-----------------------------------------------------------------------------
Looping == {"begin", "turn", "thinking", "tool"}

(* Every variable has its type, and a loop works on an object there is.        *)
TypeOK ==
  /\ row \in Task
  /\ objs \in Seq(Task)
  /\ live \in BOOLEAN /\ aborted \in BOOLEAN /\ up \in BOOLEAN /\ raced \in BOOLEAN
  /\ pending \in Change \cup {None}
  /\ calls \in Nat
  /\ \A f \in Flow :
       /\ flow[f].turn \in 0 .. MaxTurns /\ flow[f].change \in Change \cup {0}
       /\ flow[f].read \in Task
       /\ flow[f].pc \in Looping => flow[f].obj \in 1 .. Len(objs)
  /\ ran \subseteq Change /\ granted \subseteq Change /\ confirmed \subseteq Change

(* "Every mutation is held for human approval" (README of the repository): no   *)
(* change is made that the person has not approved.  The code breaks it, as a  *)
(* call with dry_run=false is not held (needsApproval, run of query.ts).       *)
EveryChangeApproved == ran \subseteq granted

(* A call that was held is repeated only once the person has approved that     *)
(* very call (header of runtime.ts).  Two decisions at once break it.          *)
HeldUntilApproved == ran \subseteq granted \cup confirmed

(* Until a decision reads the row while another has yet to act on it, a change  *)
(* is made only if the person approved it or the model confirmed it itself.    *)
ApprovedOnly == ~raced => HeldUntilApproved

(* Until two decisions race, a task has one loop: two would share its          *)
(* messages, its calls and its row.                                           *)
OneLoop == ~raced => \A f, g \in Flow : flow[f].pc \in Looping /\ flow[g].pc \in Looping => f = g

(* A task that says it waits, with nobody deciding or cancelling and no two     *)
(* decisions having raced, can be decided: the call that is pending is the     *)
(* one its row shows.                                                        *)
WaitingIsPending ==
  (~raced /\ row.status = "waiting_approval" /\ live /\ \A f \in Flow : at(f, "idle"))
    => pending = row.approval.change

(* "planning -> running -> (waiting_approval -> running) -> completed |        *)
(* failed | cancelled" (agent-runtime.md): what has ended stays so.            *)
FinalIsFinal == [][row.status \in Final => row'.status = row.status]_vars

(* A task ends, whatever the model asks for, if the person decides.            *)
TaskEnds == row.status \in Active /\ up ~> row.status \in Final \/ ~up

(* A cancelled task ends, whether or not anybody decides on what it holds.     *)
CancelEnds == aborted ~> row.status \in Final
=============================================================================
